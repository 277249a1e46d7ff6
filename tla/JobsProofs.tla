----------------------------- MODULE JobsProofs -----------------------------
(***************************************************************************)
(* Proofs about Jobs, for any number of candidates, workers, retries and   *)
(* faults, any resources and any candidates that cannot be prepared.       *)
(***************************************************************************)
EXTENDS JobsInvariant, FiniteSetTheorems, WellFoundedInduction, TLAPS

-----------------------------------------------------------------------------
(* The two modes.                                                           *)

\* Both modes mean the same candidates and rows.
LEMMA SameNames ==
  /\ Local!Candidates = Candidates /\ Condor!Candidates = Candidates
  /\ Local!RowStates = RowStates /\ Condor!RowStates = RowStates
  /\ \A i \in Candidates : i \in Nat
  /\ NoRow \notin RowStates
BY AnswersAssumption
DEF Candidates, Local!Candidates, Condor!Candidates, RowStates,
    Local!RowStates, Condor!RowStates

\* A step is one of the mode that was chosen, and leaves the other alone.
LEMMA StepModes ==
  ASSUME [Next]_vars
  PROVE  \/ UNCHANGED vars
         \/ mode = "local" /\ Local!Next /\ UNCHANGED <<mode, condorVars>>
         \/ /\ mode = "distributed" /\ Condor!Next
            /\ UNCHANGED <<mode, localVars>>
BY DEF Next, Distributed, InProcesses

\* The job the runner looks at is one of those it has still to visit.
LEMMA LeastIn ==
  ASSUME NEW S \in SUBSET Candidates, S # {}
  PROVE  Condor!Least(S) \in S
<1>1. S \subseteq Nat
  BY SameNames
<1>. DEFINE R == {ss \in Nat \X Nat : ss[1] < ss[2]}
<1>2. IsWellFoundedOn(R, Nat)
  BY NatLessThanWellFounded DEF OpToRel
<1>. HIDE DEF R
<1>3. PICK i \in S : \A j \in S : ~(<<j, i>> \in R)
  BY <1>1, <1>2, WFMin
<1>4. ASSUME NEW j \in S
      PROVE  i <= j
  <2>1. i \in Nat /\ j \in Nat
    BY <1>1
  <2>2. j < i => <<j, i>> \in R
    BY <2>1 DEF R
  <2>. QED
    BY <1>3, <2>1, <2>2
<1>. QED
  BY <1>4 DEF Condor!Least

\* The steps of a local batch.
LEMMA LocalSteps ==
  ASSUME Local!Next
  PROVE  \/ Local!Begin \/ Local!Freezes \/ Local!Unwinds \/ Local!Finish
         \/ Local!CancelRequested /\ UNCHANGED localVars
         \/ \E i \in Candidates :
              \/ Local!Accepts(i) \/ Local!AcceptRaises(i) \/ Local!TakesUp(i)
              \/ Local!Prepares(i) \/ Local!StartCancelled(i)
              \/ Local!Raises(i) \/ Local!Starts(i) \/ Local!Kills(i)
              \/ Local!Drains(i) \/ Local!Concludes(i) \/ Local!Exits(i)
              \/ Local!PipesClose(i) \/ Local!TimePasses(i)
BY SameNames
DEF Local!Next, Local!Main, Local!Task, localVars, Local!localVars,
    Local!mainVars, Local!taskVars, Local!procVars

-----------------------------------------------------------------------------
(* A batch of local processes.                                              *)

\* A step that fails answers "error" before there is a process, answers it
\* beside a process that nobody watches then, or has missed that process and
\* waits for it.
LEMMA FailingSteps ==
  ASSUME NEW i \in Candidates, Local!Raises(i)
  PROVE  /\ UNCHANGED <<main, workers, timed, template, clock>>
         /\ UNCHANGED <<rows, outcome, cancel, coordinator>>
         /\ faults < MaxFaults /\ faults' = faults + 1
         /\ \/ /\ task[i] \in {"run", "watch"}
               /\ task' = [task EXCEPT ![i] = "answered"]
               /\ answer' = [answer EXCEPT ![i] = "error"]
               /\ \/ task[i] = "run" /\ UNCHANGED <<proc, held, orphans>>
                  \/ /\ orphans' = orphans \cup {i}
                     /\ \E p \in {"alive", "killed"} :
                          proc' = [proc EXCEPT ![i] = p]
                     /\ UNCHANGED held \/ held' = [held EXCEPT ![i] = TRUE]
            \/ /\ task[i] = "watch"
               /\ task' = [task EXCEPT ![i] = "drain"]
               /\ \E status \in {"cancelled", "timeout"} :
                    answer' = [answer EXCEPT ![i] = status]
               /\ UNCHANGED <<proc, held, orphans>>
<1>. USE DEF Local!Fault, Local!Ongoing, Local!Returns, Local!Goes,
             Local!mainVars, Local!procVars
<1>1. CASE Local!StartFails(i)
  BY <1>1 DEF Local!StartFails
<1>2. CASE Local!MonitorFails(i)
  BY <1>2 DEF Local!MonitorFails, Local!Abandons
<1>3. CASE Local!KillMisses(i)
  BY <1>3 DEF Local!KillMisses, Local!Overrun
<1>4. CASE Local!KillRaises(i)
  BY <1>4 DEF Local!KillRaises, Local!Overrun, Local!Abandons
<1>. QED
  BY <1>1, <1>2, <1>3, <1>4 DEF Local!Raises

\* Every step keeps the dispatching thread in its order.
LEMMA MainInvStep ==
  Inv /\ [Next]_vars => MainInv'
<1> SUFFICES ASSUME Inv, [Next]_vars
             PROVE  MainInv'
  OBVIOUS
<1>. USE SameNames
     DEF localVars, Local!mainVars, Local!taskVars, Local!procVars,
         Local!InThread
<1>0. TypeOK /\ MainInv /\ TurnInv
  BY DEF Inv
<1>1. /\ task \in [Candidates -> {"queued", "prepare", "run", "watch",
                                  "drain", "answered", "taken"}]
      /\ main \in {"idle", "freeze", "collect", "unwind", "over"}
  BY <1>0 DEF TypeOK, Local!TypeOK
<1>2. CASE UNCHANGED vars
  BY <1>0, <1>2 DEF vars, answerVars, MainInv
<1>3. CASE mode = "distributed" /\ UNCHANGED <<mode, localVars>>
  BY <1>0, <1>3 DEF MainInv
<1>4. CASE mode = "local" /\ Local!Next /\ UNCHANGED <<mode, condorVars>>
  <2>. USE <1>4
  <2>1. CASE Local!Begin
    BY <1>0, <2>1 DEF Local!Begin, Local!Begins, MainInv
  <2>2. CASE Local!Freezes
    BY <1>0, <2>2 DEF Local!Freezes, Local!Ongoing, MainInv
  <2>3. CASE Local!Unwinds
    BY <1>0, <2>3
    DEF Local!Unwinds, Local!AllSettled, Local!Settled, MainInv, TurnInv
  <2>4. CASE Local!Finish
    BY <1>0, <2>4 DEF Local!Finish, Local!Finishes, MainInv
  <2>5. CASE Local!CancelRequested /\ UNCHANGED localVars
    BY <1>0, <2>5 DEF Local!CancelRequested, MainInv
  <2>6. ASSUME NEW i \in Candidates, Local!Accepts(i) \/ Local!AcceptRaises(i)
        PROVE  MainInv'
    BY <1>0, <1>1, <2>6
    DEF Local!Accepts, Local!AcceptRaises, Local!Ongoing, Local!Goes, MainInv
  <2>7. ASSUME NEW i \in Candidates, Local!TakesUp(i)
        PROVE  MainInv'
    BY <1>0, <1>1, <2>7
    DEF Local!TakesUp, Local!CanTake, Local!Returns, Local!Goes,
        Local!answerVars, MainInv
  <2>8. ASSUME NEW i \in Candidates,
               \/ Local!Prepares(i) \/ Local!StartCancelled(i)
               \/ Local!Raises(i) \/ Local!Starts(i) \/ Local!Kills(i)
               \/ Local!Drains(i) \/ Local!Concludes(i)
        PROVE  MainInv'
    <3>1. /\ Local!InThread(i) /\ UNCHANGED <<main, outcome>>
      BY <2>8, FailingSteps
      DEF Local!Prepares, Local!StartCancelled,
          Local!Starts, Local!Kills, Local!Overrun, Local!Drains, Local!Concludes,
          Local!Ongoing, Local!answerVars
    <3>. QED
      BY <1>0, <3>1 DEF MainInv
  <2>9. ASSUME NEW i \in Candidates,
               Local!Exits(i) \/ Local!PipesClose(i) \/ Local!TimePasses(i)
        PROVE  MainInv'
    BY <1>0, <2>9
    DEF Local!Exits, Local!PipesClose, Local!TimePasses, Local!answerVars,
        MainInv
  <2>. QED
    BY <2>1, <2>2, <2>3, <2>4, <2>5, <2>6, <2>7, <2>8, <2>9, LocalSteps
<1>. QED
  BY <1>2, <1>3, <1>4, StepModes

\* Every step keeps processes under their threads, and rows with what was
\* taken from them.
LEMMA TaskInvStep ==
  Inv /\ [Next]_vars => TaskInv'
<1> SUFFICES ASSUME Inv, [Next]_vars
             PROVE  TaskInv'
  OBVIOUS
<1>. USE SameNames
     DEF localVars, Local!mainVars, Local!taskVars, Local!procVars,
         Local!answerVars, Local!Settled
<1>0. TypeOK /\ MainInv /\ TaskInv
  BY DEF Inv
<1>1. /\ task \in [Candidates -> {"queued", "prepare", "run", "watch",
                                  "drain", "answered", "taken"}]
      /\ answer \in [Candidates -> RowStates \cup {NoRow}]
      /\ proc \in [Candidates -> {"none", "alive", "exited", "killed"}]
      /\ held \in [Candidates -> BOOLEAN] /\ orphans \subseteq Candidates
      /\ rows \in [Candidates -> RowStates \cup {NoRow}]
      /\ \A i \in Candidates : task[i] = "answered" => answer[i] # NoRow
  BY <1>0
  DEF TypeOK, Local!TypeOK, Local!AnswersTypeOK, Local!Settled
<1>2. CASE UNCHANGED vars
  BY <1>0, <1>2 DEF vars, answerVars, TaskInv
<1>3. CASE mode = "distributed" /\ UNCHANGED <<mode, localVars>>
  BY <1>0, <1>3 DEF TaskInv
<1>4. CASE mode = "local" /\ Local!Next /\ UNCHANGED <<mode, condorVars>>
  <2>. USE <1>4
  <2>1. CASE \/ Local!Begin \/ Local!Freezes \/ Local!Unwinds \/ Local!Finish
             \/ Local!CancelRequested /\ UNCHANGED localVars
    <3>. UNCHANGED <<task, answer, proc, held, orphans, rows>>
      BY <2>1
      DEF Local!Begin, Local!Begins, Local!Freezes, Local!Unwinds,
          Local!Finish, Local!Finishes, Local!RecordingRaises,
          Local!CancelRequested
    <3>. QED
      BY <1>0 DEF TaskInv
  <2>2. ASSUME NEW i \in Candidates, Local!Accepts(i)
        PROVE  TaskInv'
    <3>1. /\ rows' = [rows EXCEPT ![i] = answer[i]]
          /\ task' = [task EXCEPT ![i] = "taken"] /\ task[i] = "answered"
          /\ UNCHANGED <<answer, proc, held, orphans>>
      BY <2>2 DEF Local!Accepts, Local!Takes, Local!Goes
    <3>. QED
      BY <1>0, <1>1, <3>1 DEF TaskInv
  <2>3. ASSUME NEW i \in Candidates, Local!AcceptRaises(i)
        PROVE  TaskInv'
    BY <1>0, <2>3 DEF Local!AcceptRaises, Local!RecordingRaises, TaskInv
  <2>4. ASSUME NEW i \in Candidates, NEW to, NEW status,
               to # "taken",
               to = "drain" => status # NoRow,
               task[i] \notin {"answered", "taken"},
               UNCHANGED <<proc, held, orphans>>,
               proc[i] # "alive" /\ ~held[i],
               task' = [task EXCEPT ![i] = to],
               UNCHANGED answer \/ answer' = [answer EXCEPT ![i] = status],
               to = "drain" => answer' = [answer EXCEPT ![i] = status],
               UNCHANGED rows
        PROVE  TaskInv'
    BY <1>0, <1>1, <2>4 DEF TaskInv
  <2>5. ASSUME NEW i \in Candidates,
               \/ Local!TakesUp(i) \/ Local!Prepares(i)
               \/ Local!StartCancelled(i)
        PROVE  TaskInv'
    <3>1. PICK to \in {"answered", "prepare", "run"} :
            \/ task' = [task EXCEPT ![i] = to] /\ UNCHANGED answer
            \/ task' = [task EXCEPT ![i] = to]
               /\ \E status : answer' = [answer EXCEPT ![i] = status]
      BY <2>5
      DEF Local!TakesUp, Local!Prepares, Local!StartCancelled,
          Local!Returns, Local!Goes
    <3>2. /\ task[i] \in {"queued", "prepare", "run"}
          /\ UNCHANGED <<rows, proc, held, orphans>>
      BY <2>5
      DEF Local!TakesUp, Local!CanTake, Local!Queue, Local!Prepares,
          Local!StartCancelled
    <3>3. proc[i] # "alive" /\ ~held[i]
      BY <1>0, <3>2 DEF TaskInv
    <3>. QED
      BY <2>4, <3>1, <3>2, <3>3
  <2>6. ASSUME NEW i \in Candidates, Local!Starts(i)
        PROVE  TaskInv'
    <3>1. /\ task' = [task EXCEPT ![i] = "watch"] /\ task[i] = "run"
          /\ proc' = [proc EXCEPT ![i] = "alive"]
          /\ held' = [held EXCEPT ![i] = TRUE]
          /\ UNCHANGED <<answer, orphans, rows>>
      BY <2>6 DEF Local!Starts, Local!Goes
    <3>. QED
      BY <1>0, <1>1, <3>1 DEF TaskInv
  <2>7. ASSUME NEW i \in Candidates, Local!Kills(i)
        PROVE  TaskInv'
    <3>1. /\ task' = [task EXCEPT ![i] = "drain"] /\ task[i] = "watch"
          /\ proc' = [proc EXCEPT ![i] = "killed"]
          /\ \E h \in BOOLEAN : held' = [held EXCEPT ![i] = h]
          /\ UNCHANGED <<orphans, rows>>
      BY <2>7 DEF Local!Kills, Local!Overrun, Local!Goes
    <3>2. PICK status \in {"cancelled", "timeout"} :
            answer' = [answer EXCEPT ![i] = status]
      BY <2>7 DEF Local!Kills
    <3>3. status # NoRow
      BY <3>2 DEF RowStates
    <3>. QED
      BY <1>0, <1>1, <3>1, <3>2, <3>3 DEF TaskInv
  <2>8. ASSUME NEW i \in Candidates, Local!Drains(i) \/ Local!Concludes(i)
        PROVE  TaskInv'
    <3>1. /\ task' = [task EXCEPT ![i] = "answered"]
          /\ task[i] \in {"watch", "drain"} /\ proc[i] # "alive" /\ ~held[i]
          /\ UNCHANGED <<proc, held, orphans, rows>>
          /\ \E status : answer' = [answer EXCEPT ![i] = status]
      BY <2>8
      DEF Local!Drains, Local!Concludes, Local!Gone, Local!Returns, Local!Goes
    <3>. QED
      BY <2>4, <3>1
  <2>9. ASSUME NEW i \in Candidates,
               Local!Exits(i) \/ Local!PipesClose(i) \/ Local!TimePasses(i)
        PROVE  TaskInv'
    <3>1. /\ UNCHANGED <<task, answer, orphans, rows>>
          /\ \/ UNCHANGED <<proc, held>>
             \/ /\ proc[i] = "alive" /\ UNCHANGED held
                /\ proc' = [proc EXCEPT ![i] = "exited"]
             \/ UNCHANGED proc /\ held' = [held EXCEPT ![i] = FALSE]
      BY <2>9 DEF Local!Exits, Local!PipesClose, Local!TimePasses
    <3>. QED
      BY <1>0, <1>1, <3>1 DEF TaskInv
  <2>10. ASSUME NEW i \in Candidates, Local!Raises(i)
         PROVE  TaskInv'
    <3>1. \A status \in {"cancelled", "timeout", "error"} : status # NoRow
      BY DEF RowStates
    <3>. QED
      BY <1>0, <1>1, <2>10, <3>1, FailingSteps DEF TaskInv
  <2>. QED
    BY <2>1, <2>2, <2>3, <2>5, <2>6, <2>7, <2>8, <2>9, <2>10, LocalSteps
<1>. QED
  BY <1>2, <1>3, <1>4, StepModes

\* Every step of one worker leaves it at most one candidate.
LEMMA TurnInvStep ==
  Inv /\ [Next]_vars => TurnInv'
<1> SUFFICES ASSUME Inv, [Next]_vars
             PROVE  TurnInv'
  OBVIOUS
<1>. USE SameNames
     DEF localVars, Local!mainVars, Local!taskVars, Local!procVars,
         Local!answerVars, Local!Sequential, Local!InThread, Open
<1>0. TypeOK /\ MainInv /\ TurnInv
  BY DEF Inv
<1>1. task \in [Candidates -> {"queued", "prepare", "run", "watch", "drain",
                               "answered", "taken"}]
  BY <1>0 DEF TypeOK, Local!TypeOK
<1>2. CASE UNCHANGED vars
  BY <1>0, <1>2 DEF vars, TurnInv
<1>3. CASE UNCHANGED localVars
  BY <1>0, <1>3 DEF TurnInv
<1>4. CASE mode = "local" /\ Local!Next
  <2>1. CASE Local!Begin
    BY <1>0, <1>4, <2>1 DEF Local!Begin, Local!Begins, MainInv, TurnInv
  <2>2. CASE Local!Freezes \/ Local!Unwinds \/ Local!Finish
    BY <1>0, <2>2
    DEF Local!Freezes, Local!Unwinds, Local!Finish, TurnInv
  <2>3. ASSUME NEW i \in Candidates, Local!TakesUp(i)
        PROVE  TurnInv'
    <3>1. UNCHANGED <<workers, main>> /\ task[i] = "queued"
          /\ \A j \in Candidates : j # i => task'[j] = task[j]
      BY <1>1, <2>3
      DEF Local!TakesUp, Local!CanTake, Local!Queue, Local!Returns, Local!Goes
    <3>2. Local!Sequential =>
            /\ main = "collect"
            /\ \A j \in Candidates : j # i => task[j] \in {"queued", "taken"}
      BY <2>3 DEF Local!TakesUp, Local!CanTake, Local!Queue
    <3>. QED
      BY <3>1, <3>2 DEF TurnInv
  <2>4. ASSUME NEW i \in Candidates, Open(i), UNCHANGED <<workers, main>>,
               \A j \in Candidates : j # i => task'[j] = task[j],
               Local!InThread(i) \/ task'[i] = "taken"
        PROVE  TurnInv'
    BY <1>0, <2>4 DEF TurnInv
  <2>5. ASSUME NEW i \in Candidates, Local!Accepts(i)
        PROVE  TurnInv'
    BY <1>1, <2>4, <2>5 DEF Local!Accepts, Local!Goes
  <2>6. ASSUME NEW i \in Candidates, Local!AcceptRaises(i)
        PROVE  TurnInv'
    BY <1>0, <1>1, <2>6 DEF Local!AcceptRaises, TurnInv
  <2>7. ASSUME NEW i \in Candidates,
               \/ Local!Prepares(i) \/ Local!StartCancelled(i)
               \/ Local!Raises(i) \/ Local!Starts(i) \/ Local!Kills(i)
               \/ Local!Drains(i) \/ Local!Concludes(i)
        PROVE  TurnInv'
    <3>1. /\ Local!InThread(i) /\ UNCHANGED <<workers, main>>
          /\ \A j \in Candidates : j # i => task'[j] = task[j]
      BY <1>1, <2>7, FailingSteps
      DEF Local!Prepares, Local!StartCancelled,
          Local!Starts, Local!Kills, Local!Overrun, Local!Drains, Local!Concludes,
          Local!Returns, Local!Goes
    <3>. QED
      BY <2>4, <3>1
  <2>8. ASSUME NEW i \in Candidates,
               Local!Exits(i) \/ Local!PipesClose(i) \/ Local!TimePasses(i)
        PROVE  TurnInv'
    BY <1>0, <2>8
    DEF Local!Exits, Local!PipesClose, Local!TimePasses, TurnInv
  <2>. QED
    BY <1>3, <1>4, <2>1, <2>2, <2>3, <2>5, <2>6, <2>7, <2>8, LocalSteps
<1>. QED
  BY <1>2, <1>3, <1>4, StepModes

\* The threads at work are finitely many.
LEMMA ThreadsFinite ==
  IsFiniteSet(Candidates)
BY FS_Interval, AnswersAssumption DEF Candidates

\* The two modes count alike.
LEMMA SameCount ==
  ASSUME NEW S
  PROVE  Local!Cardinality(S) = Cardinality(S)
BY DEF Cardinality, Local!Cardinality

\* There are never more threads at work than workers.
LEMMA ThreadBoundStep ==
  ASSUME Inv, [Next]_vars
  PROVE  /\ workers' \in 1..MaxWorkers
         /\ Cardinality({i \in Candidates : Local!InThread(i)'}) <= workers'
<1>. DEFINE W == {i \in Candidates : Local!InThread(i)}
            V == {i \in Candidates : Local!InThread(i)'}
<1>0. TypeOK /\ MainInv /\ TurnInv'
  BY TurnInvStep DEF Inv
<1>w. {j \in Local!Candidates : Local!InThread(j)} = W
  BY SameNames, Zenon
<1>b. Local!Cardinality({j \in Local!Candidates : Local!InThread(j)})
        <= workers
  BY <1>0, Zenon DEF TypeOK, Local!TypeOK
<1>1. /\ task \in [Candidates -> {"queued", "prepare", "run", "watch",
                                  "drain", "answered", "taken"}]
      /\ workers \in 1..MaxWorkers /\ Cardinality(W) <= workers
  <2>1. Cardinality(W) <= workers
    BY <1>w, <1>b, SameCount, Zenon
  <2>. QED
    BY <1>0, <2>1, SameNames DEF TypeOK, Local!TypeOK
<1>t. ASSUME NEW i \in Candidates, Local!TakesUp(i)
      PROVE  Local!Sequential \/ Cardinality(W) < workers
  <2>1. \/ Local!Sequential
        \/ Local!Cardinality({j \in Local!Candidates : Local!InThread(j)})
             < workers
    BY <1>t, Zenon DEF Local!TakesUp, Local!CanTake
  <2>. QED
    BY <1>w, <2>1, SameCount, Zenon
<1>. USE SameNames
     DEF localVars, Local!mainVars, Local!taskVars, Local!procVars,
         Local!answerVars
<1>2. IsFiniteSet(W) /\ Cardinality(W) \in Nat
  BY ThreadsFinite, FS_Subset, FS_CardinalityType
<1>3. /\ workers' \in 1..MaxWorkers
      /\ \/ V = {}
         \/ workers' = workers /\ V \subseteq W
         \/ workers' = workers /\ Local!Sequential'
         \/ workers' = workers /\ Cardinality(W) < workers
            /\ \E i \in Candidates : V \subseteq W \cup {i}
  <2>. USE DEF Local!InThread
  <2>1. CASE UNCHANGED <<task, workers>>
    BY <1>1, <2>1
  <2>2. CASE mode = "local" /\ Local!Next
    <3>1. CASE Local!Begin
      BY <1>0, <2>2, <3>1 DEF Local!Begin, Local!Begins, MainInv
    <3>2. ASSUME NEW i \in Candidates, Local!TakesUp(i)
          PROVE  /\ workers' = workers
                 /\ \/ Local!Sequential'
                    \/ Cardinality(W) < workers /\ V \subseteq W \cup {i}
      <4>1. /\ workers' = workers
            /\ \A j \in Candidates : j # i => task'[j] = task[j]
        BY <1>1, <3>2
        DEF Local!TakesUp, Local!Returns, Local!Goes
      <4>. QED
        BY <1>t, <3>2, <4>1 DEF Local!Sequential
    <3>3. ASSUME NEW i \in Candidates,
                 \/ Local!Accepts(i)
                 \/ Local!Prepares(i) \/ Local!StartCancelled(i)
                 \/ Local!Raises(i) \/ Local!Starts(i) \/ Local!Kills(i)
                 \/ Local!Drains(i) \/ Local!Concludes(i)
          PROVE  workers' = workers /\ V \subseteq W
      <4>1. /\ Local!InThread(i) \/ task'[i] = "taken"
            /\ UNCHANGED workers
            /\ \A j \in Candidates : j # i => task'[j] = task[j]
        BY <1>1, <3>3, FailingSteps
        DEF Local!Overrun, Local!Accepts, Local!Prepares, Local!StartCancelled,
            Local!Starts, Local!Kills, Local!Drains,
            Local!Concludes, Local!Returns, Local!Goes
      <4>. QED
        BY <4>1
    <3>4. CASE \/ Local!Freezes \/ Local!Unwinds \/ Local!Finish
               \/ Local!CancelRequested /\ UNCHANGED localVars
               \/ \E i \in Candidates :
                    \/ Local!AcceptRaises(i) \/ Local!Exits(i)
                    \/ Local!PipesClose(i) \/ Local!TimePasses(i)
      BY <2>1, <3>4
      DEF Local!Freezes, Local!Unwinds, Local!Finish, Local!AcceptRaises,
          Local!Exits, Local!PipesClose, Local!TimePasses
    <3>. QED
      BY <1>1, <2>2, <3>1, <3>2, <3>3, <3>4, LocalSteps
  <2>. QED
    BY <2>1, <2>2, StepModes DEF vars
<1>4. workers' \in Nat /\ workers' >= 1 /\ workers \in Nat
  BY <1>1, <1>3, JobsAssumption
<1>s. Local!Sequential' => \A i, j \in V : i = j
  BY <1>0 DEF TurnInv, Open, Local!InThread
<1>. HIDE DEF V, W
<1>5. V = {} => Cardinality(V) = 0
  BY FS_EmptySet, Zenon
<1>6. V \subseteq W => Cardinality(V) <= Cardinality(W)
                      /\ Cardinality(V) \in Nat
  BY <1>2, FS_Subset, FS_CardinalityType
<1>7. (\A i, j \in V : i = j) => V = {} \/ Cardinality(V) = 1
  <2> SUFFICES ASSUME \A i, j \in V : i = j, NEW x \in V
               PROVE  Cardinality(V) = 1
    OBVIOUS
  <2>1. V = {x}
    OBVIOUS
  <2>. QED
    BY <2>1, FS_Singleton, Zenon
<1>8. ASSUME NEW i \in Candidates, V \subseteq W \cup {i}
      PROVE  Cardinality(V) <= Cardinality(W) + 1 /\ Cardinality(V) \in Nat
  <2>1. /\ IsFiniteSet(W \cup {i})
        /\ Cardinality(W \cup {i}) <= Cardinality(W) + 1
        /\ Cardinality(W \cup {i}) \in Nat
    <3>1. /\ IsFiniteSet(W \cup {i})
          /\ \/ Cardinality(W \cup {i}) = Cardinality(W)
             \/ Cardinality(W \cup {i}) = Cardinality(W) + 1
      BY <1>2, FS_AddElement, Zenon
    <3>2. Cardinality(W \cup {i}) \in Nat
      BY <3>1, FS_CardinalityType, Zenon
    <3>. DEFINE m == Cardinality(W \cup {i})
                n == Cardinality(W)
    <3>3. m = n \/ m = n + 1
      BY <3>1
    <3>4. n \in Nat
      BY <1>2
    <3>. HIDE DEF m, n
    <3>5. m <= n + 1
      BY <3>3, <3>4
    <3>. QED
      BY <3>1, <3>2, <3>5 DEF m, n
  <2>2. Cardinality(V) <= Cardinality(W \cup {i}) /\ Cardinality(V) \in Nat
    BY <1>8, <2>1, FS_Subset, FS_CardinalityType
  <2>. QED
    BY <1>2, <2>1, <2>2
<1>9. Cardinality(V) <= workers'
  <2>. DEFINE v == Cardinality(V)
              w == Cardinality(W)
              one == \A i, j \in V : i = j
  <2>1. \/ v = 0 \/ v = 1
        \/ workers' = workers /\ v <= w /\ v \in Nat
        \/ workers' = workers /\ w < workers /\ v <= w + 1 /\ v \in Nat
    BY <1>3, <1>s, <1>5, <1>6, <1>7, <1>8
  <2>2. w \in Nat /\ w <= workers
    BY <1>1, <1>2
  <2>. HIDE DEF v, w
  <2>3. v <= workers'
    BY <1>4, <2>1, <2>2
  <2>. QED
    BY <2>3 DEF v
<1>. QED
  BY <1>3, <1>9, Zenon DEF V

-----------------------------------------------------------------------------
(* A batch on HTCondor.                                                     *)

\* The job the runner looks at is one of the batch, and one still to visit.
LEMMA AtIn ==
  ASSUME TypeOK, todo # {}
  PROVE  At \in todo /\ At \in Candidates
<1>1. todo \in SUBSET Candidates
  BY SameNames DEF TypeOK, Condor!TypeOK
<1>. QED
  BY <1>1, LeastIn DEF At, Condor!At

\* What the runner looks at changes only with what it has still to visit.
LEMMA AtStays ==
  ASSUME UNCHANGED todo
  PROVE  At' = At
BY DEF At, Condor!At, Condor!Least

\* A step of a batch on HTCondor is the runner's, in one of its phases, or
\* that of a cluster, the clock or whoever cancels.
Dispatches ==
  \/ Condor!Begin \/ Condor!PrepareCancelled \/ Condor!PrepareFails
  \/ Condor!Prepared \/ Condor!RestDecides \/ Condor!DispatchStores
  \/ Condor!DispatchRaises \/ Condor!Finish

Submits ==
  \/ Condor!PreparedAll \/ Condor!SubmitCancelled \/ Condor!Submitted
  \/ Condor!SubmitFails \/ Condor!SubmittedAll

Reads ==
  \/ Condor!Round \/ Condor!LoopEnds \/ Condor!ReadsLog
  \/ Condor!ReadsOutputs \/ Condor!Expires \/ Condor!StaysPending
  \/ Condor!ReadRaises \/ Condor!Queries

Acts ==
  \/ Condor!SweepsLate \/ Condor!Removed \/ Condor!RemoveFails
  \/ Condor!Exhausted \/ Condor!Resets \/ Condor!Collects

StoresOrNot ==
  \/ Condor!Stores \/ Condor!BuildRaises \/ Condor!RecordingEscapes
  \/ Condor!RecordingCaught \/ Condor!Swallows \/ Condor!Swept

Outside ==
  \/ Condor!DeadlinePasses \/ Condor!Cancelled
  \/ \E i \in Candidates :
       \/ Condor!Exits(i) \/ Condor!EndLogged(i) \/ Condor!IsHeld(i)
       \/ Condor!RemovedByHand(i) \/ Condor!LimitPasses(i)
       \/ Condor!Evicted(i)

LEMMA CondorSteps ==
  ASSUME Condor!Next
  PROVE  \/ Dispatches \/ Submits \/ Reads \/ Acts \/ StoresOrNot \/ Outside
BY SameNames
DEF Condor!Next, Condor!Runner, Condor!Failure, Condor!Queue,
    Dispatches, Submits, Reads, Acts, StoresOrNot, Outside

\* What a cluster does: while its job is being looked at, and not decided.
LEMMA QueueSteps ==
  ASSUME NEW i \in Candidates, TypeOK,
         \/ Condor!Exits(i) \/ Condor!EndLogged(i) \/ Condor!IsHeld(i)
         \/ Condor!RemovedByHand(i) \/ Condor!LimitPasses(i)
         \/ Condor!Evicted(i)
  PROVE  /\ phase \in {"poll", "sweep"} /\ todo # {} /\ i = At
         /\ step # "store"
         /\ UNCHANGED <<phase, todo, jobs, pending, deadline, stopping,
                        retried, step, seen, hold, verdict, trouble, guard,
                        known, stale, notes, rows, outcome, cancel,
                        coordinator>>
         /\ UNCHANGED faults
            \/ (faults < MaxFaults /\ faults' = faults + 1)
         /\ \E b \in BOOLEAN : overdue' = [overdue EXCEPT ![i] = b]
         /\ \E c \in {"queued", "held", "leaving", "ended", "aborted"} :
              /\ cluster' = [cluster EXCEPT ![i] = c]
              /\ cluster[i] = "leaving" => c = "ended"
              /\ c = "leaving" => cluster[i] = "queued"
              /\ c # "leaving" => UNCHANGED outputs
              /\ c = "ended" => cluster[i] = "leaving"
              /\ cluster[i] \in {"queued", "held", "leaving"}
              /\ cluster[i] = "held" => c = "aborted"
         /\ UNCHANGED outputs
            \/ \E o \in {"ready", "partial"} :
                 outputs' = [outputs EXCEPT ![i] = o]
PROOF
<1>. USE SameNames
     DEF Condor!runVars, Condor!stepVars, Condor!answerVars, At, Condor!At
<1>1. /\ cluster \in [Candidates -> {"none", "queued", "held", "leaving",
                                     "ended", "gone", "aborted"}]
      /\ overdue \in [Candidates -> BOOLEAN]
  BY DEF TypeOK, Condor!TypeOK
<1>2. CASE \/ Condor!Exits(i) \/ Condor!EndLogged(i) \/ Condor!IsHeld(i)
           \/ Condor!Evicted(i)
  BY <1>1, <1>2
  DEF Condor!Exits, Condor!EndLogged, Condor!IsHeld, Condor!Evicted,
      Condor!Moves, Condor!Followed
<1>3. CASE Condor!RemovedByHand(i)
  BY <1>1, <1>3
  DEF Condor!RemovedByHand, Condor!Followed, Condor!Queued, Condor!Fault,
      Condor!Ongoing
<1>4. CASE Condor!LimitPasses(i)
  <2>1. cluster' = [cluster EXCEPT ![i] = "queued"]
    BY <1>1, <1>4 DEF Condor!LimitPasses
  <2>. QED
    BY <1>4, <2>1 DEF Condor!LimitPasses, Condor!Followed
<1>. QED
  BY <1>2, <1>3, <1>4

-----------------------------------------------------------------------------
(* The rows and the outcome, in either mode.                                *)

\* The types of what the two modes share.
LEMMA AnswerTypes ==
  ASSUME TypeOK
  PROVE  /\ rows \in [Candidates -> RowStates \cup {NoRow}]
         /\ outcome \in {"none", "running", "returned", "failed"}
         /\ cancel \in BOOLEAN
         /\ coordinator \in {"open", "refusing", "closed"}
         /\ faults \in 0..MaxFaults
BY SameNames DEF TypeOK, Local!TypeOK, Local!AnswersTypeOK

\* A step of a local batch is one that Batch allows.
LEMMA LocalAnswers ==
  ASSUME Inv, mode = "local", Local!Next
  PROVE  [Promise!Next]_(Promise!vars)
<1>. USE SameNames
     DEF localVars, Local!mainVars, Local!taskVars, Local!procVars,
         Local!answerVars, Promise!vars
<1>0. TypeOK /\ MainInv /\ TaskInv /\ PhaseInv
  BY DEF Inv
<1>1. /\ rows \in [Candidates -> RowStates \cup {NoRow}]
      /\ answer \in [Candidates -> RowStates \cup {NoRow}]
      /\ \A i \in Candidates : task[i] = "answered" => answer[i] # NoRow
  BY <1>0, AnswerTypes DEF TypeOK, Local!TypeOK, Local!Settled
<1>2. CASE Local!Begin
  <2>1. rows' = [i \in Candidates |-> NoRow]
    BY <1>0, <1>1, <1>2 DEF Local!Begin, Local!Begins, PhaseInv
  <2>. QED
    BY <1>2, <2>1
    DEF Local!Begin, Local!Begins, Promise!Next, Promise!Begin
<1>3. ASSUME NEW i \in Candidates, Local!Accepts(i)
      PROVE  Promise!Next
  <2>1. /\ outcome = "running" /\ rows[i] = NoRow
        /\ answer[i] \in RowStates
        /\ rows' = [rows EXCEPT ![i] = answer[i]] /\ UNCHANGED outcome
    BY <1>0, <1>1, <1>3
    DEF Local!Accepts, Local!Takes, Local!Ongoing, MainInv, TaskInv
  <2>2. Promise!Answer(i)
    BY <2>1 DEF Promise!Answer
  <2>. QED
    BY <2>2 DEF Promise!Next
<1>4. CASE Local!Unwinds
  BY <1>0, <1>4 DEF Local!Unwinds, MainInv, Promise!Next, Promise!Fail
<1>5. CASE Local!Finish
  <2>1. outcome = "running" /\ \A i \in Candidates : rows[i] # NoRow
    BY <1>0, <1>5 DEF Local!Finish, MainInv, TaskInv
  <2>. QED
    BY <1>5, <2>1
    DEF Local!Finish, Local!Finishes, Local!RecordingRaises, Promise!Next,
        Promise!Return, Promise!Fail
<1>6. CASE Local!Freezes \/ Local!CancelRequested
  BY <1>6 DEF Local!Freezes, Local!CancelRequested, Local!Ongoing
<1>7. ASSUME NEW i \in Candidates,
             \/ Local!AcceptRaises(i) \/ Local!TakesUp(i)
             \/ Local!Prepares(i) \/ Local!StartCancelled(i)
             \/ Local!Raises(i) \/ Local!Starts(i) \/ Local!Kills(i)
             \/ Local!Drains(i) \/ Local!Concludes(i) \/ Local!Exits(i)
             \/ Local!PipesClose(i) \/ Local!TimePasses(i)
      PROVE  UNCHANGED <<rows, outcome>>
  BY <1>7, FailingSteps
  DEF Local!AcceptRaises, Local!RecordingRaises, Local!TakesUp,
      Local!Prepares, Local!StartCancelled, Local!Starts,
      Local!Kills, Local!Drains, Local!Concludes, Local!Exits,
      Local!PipesClose, Local!TimePasses, Local!Ongoing
<1>. QED
  BY <1>2, <1>3, <1>4, <1>5, <1>6, <1>7, LocalSteps

\* So is a step of a batch on HTCondor.
LEMMA CondorAnswers ==
  ASSUME Inv, mode = "distributed", Condor!Next
  PROVE  [Promise!Next]_(Promise!vars)
<1>. USE SameNames DEF Condor!answerVars, Condor!Ongoing, Promise!vars
<1>0. TypeOK /\ PhaseInv /\ LeftInv /\ StepInv
  BY DEF Inv
<1>1. /\ rows \in [Candidates -> RowStates \cup {NoRow}]
      /\ step # "next" => At \in todo /\ At \in Candidates
      /\ At = Condor!At
  BY <1>0, AnswerTypes, AtIn DEF TypeOK, Condor!TypeOK, At
<1>2. CASE Condor!Begin
  <2>1. rows' = [i \in Candidates |-> NoRow]
    BY <1>0, <1>1, <1>2 DEF Condor!Begin, Condor!Begins, PhaseInv
  <2>. QED
    BY <1>2, <2>1
    DEF Condor!Begin, Condor!Begins, Promise!Next, Promise!Begin
<1>3. CASE Condor!DispatchStores \/ Condor!Stores
  <2>1. /\ outcome = "running" /\ rows[At] = NoRow /\ verdict \in RowStates
        /\ At \in Candidates
        /\ rows' = [rows EXCEPT ![At] = verdict] /\ UNCHANGED outcome
    BY <1>0, <1>1, <1>3
    DEF Condor!DispatchStores, Condor!Stores, Condor!Storing, Condor!Takes,
        PhaseInv, LeftInv, StepInv
  <2>2. Promise!Answer(At)
    BY <2>1 DEF Promise!Answer
  <2>. QED
    BY <2>1, <2>2 DEF Promise!Next
<1>4. CASE Condor!DispatchRaises \/ Condor!RecordingEscapes
  <2>1. outcome = "running" /\ outcome' = "failed" /\ UNCHANGED rows
    BY <1>0, <1>4
    DEF Condor!DispatchRaises, Condor!RecordingEscapes, Condor!Storing,
        Condor!RecordingRaises, Condor!ClosedRaises, PhaseInv
  <2>. QED
    BY <2>1 DEF Promise!Next, Promise!Fail
<1>5. CASE Condor!Finish
  <2>1. outcome = "running" /\ \A i \in Candidates : rows[i] # NoRow
    BY <1>0, <1>5 DEF Condor!Finish, PhaseInv, LeftInv
  <2>. QED
    BY <1>5, <2>1
    DEF Condor!Finish, Condor!Finishes, Condor!RecordingRaises, Promise!Next,
        Promise!Return, Promise!Fail
<1>6. CASE \/ Condor!PrepareCancelled \/ Condor!PrepareFails
           \/ Condor!Prepared \/ Condor!RestDecides \/ Submits
  BY <1>6
  DEF Condor!PrepareCancelled, Condor!PrepareFails, Condor!Prepared,
      Condor!RestDecides, Submits, Condor!PreparedAll,
      Condor!SubmitCancelled, Condor!Submitted, Condor!SubmitFails,
      Condor!SubmittedAll
<1>7. CASE Reads
  BY <1>7
  DEF Reads, Condor!Round, Condor!LoopEnds, Condor!ReadsLog,
      Condor!ReadsOutputs, Condor!Expires, Condor!StaysPending,
      Condor!ReadRaises, Condor!Queries
<1>8. CASE Acts
  BY <1>8
  DEF Acts, Condor!SweepsLate, Condor!Removed, Condor!RemoveFails,
      Condor!Exhausted, Condor!Resets, Condor!Collects
<1>9. CASE \/ Condor!BuildRaises \/ Condor!RecordingCaught
           \/ Condor!Swallows \/ Condor!Swept
  BY <1>9
  DEF Condor!BuildRaises, Condor!RecordingCaught, Condor!RecordingRaises,
      Condor!Swallows, Condor!ClosedRaises, Condor!Swept
<1>10. CASE Outside
  <2>1. CASE Condor!DeadlinePasses \/ Condor!Cancelled
    BY <2>1
    DEF Condor!DeadlinePasses, Condor!Cancelled, Condor!CancelRequested
  <2>. QED
    BY <1>0, <1>10, <2>1, QueueSteps DEF Outside
<1>. QED
  BY <1>2, <1>3, <1>4, <1>5, <1>6, <1>7, <1>8, <1>9, <1>10, CondorSteps
  DEF Dispatches, StoresOrNot

\* Every step, in either mode, is one that Batch allows.
LEMMA PromiseStep ==
  Inv /\ [Next]_vars => [Promise!Next]_(Promise!vars)
<1>1. UNCHANGED vars => UNCHANGED Promise!vars
  BY DEF vars, answerVars, Promise!vars
<1>. QED
  BY <1>1, StepModes, LocalAnswers, CondorAnswers

\* Every step that returns has every row.
LEMMA ReturnInvStep ==
  Inv /\ [Next]_vars => ReturnInv'
<1> SUFFICES ASSUME Inv, [Next]_vars
             PROVE  ReturnInv'
  OBVIOUS
<1>1. ReturnInv /\ [Promise!Next]_(Promise!vars)
  BY PromiseStep DEF Inv
<1>. QED
  BY <1>1
  DEF ReturnInv, Promise!vars, Promise!Next, Promise!Begin, Promise!Answer,
      Promise!Return, Promise!Fail

\* What the modes share keeps its types.
LEMMA AnswersTypeStep ==
  ASSUME Inv, [Next]_vars
  PROVE  /\ rows' \in [Candidates -> RowStates \cup {NoRow}]
         /\ outcome' \in {"none", "running", "returned", "failed"}
         /\ cancel' \in BOOLEAN
         /\ coordinator' \in {"open", "refusing", "closed"}
         /\ faults' \in 0..MaxFaults
<1>0. TypeOK /\ MaxFaults \in Nat
  BY AnswersAssumption DEF Inv
<1>1. rows' \in [Candidates -> RowStates \cup {NoRow}]
      /\ outcome' \in {"none", "running", "returned", "failed"}
  BY <1>0, PromiseStep, AnswerTypes
  DEF Promise!vars, Promise!Next, Promise!Begin, Promise!Answer,
      Promise!Return, Promise!Fail
<1>. DEFINE Rest ==
       /\ cancel' = cancel \/ cancel' = TRUE
       /\ \/ coordinator' = coordinator
          \/ coordinator' \in {"refusing", "closed"}
       /\ faults' = faults \/ (faults < MaxFaults /\ faults' = faults + 1)
<1>2. UNCHANGED vars => Rest
  BY DEF vars, answerVars
<1>3. Local!Next => Rest
  BY LocalSteps, FailingSteps, SameNames
  DEF Local!Begin, Local!Begins, Local!Freezes, Local!Unwinds, Local!Finish,
      Local!Finishes, Local!CancelRequested, Local!Accepts, Local!Takes,
      Local!AcceptRaises, Local!RecordingRaises, Local!TakesUp,
      Local!Prepares, Local!StartCancelled, Local!Starts,
      Local!Kills, Local!Drains, Local!Concludes, Local!Exits,
      Local!PipesClose, Local!TimePasses, Local!answerVars, Local!Ongoing,
      Local!Fault, Local!NoFault
<1>4. Dispatches \/ Submits => Rest
  BY DEF Dispatches, Condor!Begin, Condor!Begins, Condor!PrepareCancelled,
      Condor!PrepareFails, Condor!Prepared, Condor!RestDecides,
      Condor!DispatchStores, Condor!DispatchRaises, Condor!Finish,
      Condor!Finishes, Condor!Leaves, Submits, Condor!PreparedAll,
      Condor!SubmitCancelled, Condor!Submitted, Condor!SubmitFails,
      Condor!SubmittedAll, Condor!Takes, Condor!RecordingRaises,
      Condor!ClosedRaises, Condor!answerVars, Condor!Ongoing, Condor!Fault,
      Condor!NoFault
<1>5. Reads \/ Acts => Rest
  BY DEF Reads, Condor!Round, Condor!LoopEnds, Condor!ReadsLog,
      Condor!ReadsOutputs, Condor!Expires, Condor!StaysPending,
      Condor!ReadRaises, Condor!Queries, Acts, Condor!SweepsLate,
      Condor!Removed, Condor!RemoveFails, Condor!Exhausted, Condor!Resets,
      Condor!Collects, Condor!answerVars, Condor!Ongoing, Condor!Fault,
      Condor!NoFault
<1>6. StoresOrNot => Rest
  BY DEF StoresOrNot, Condor!Stores, Condor!BuildRaises,
      Condor!RecordingEscapes, Condor!Leaves, Condor!RecordingCaught,
      Condor!Swallows, Condor!Swept, Condor!Takes, Condor!RecordingRaises,
      Condor!ClosedRaises, Condor!answerVars, Condor!Ongoing, Condor!Fault,
      Condor!NoFault
<1>7. Outside => Rest
  BY <1>0, QueueSteps
  DEF Outside, Condor!DeadlinePasses, Condor!Cancelled,
      Condor!CancelRequested, Condor!answerVars
<1>8. Rest
  BY <1>2, <1>3, <1>4, <1>5, <1>6, <1>7, StepModes, CondorSteps
<1>9. faults' \in 0..MaxFaults
  BY <1>0, <1>8, AnswerTypes
<1>10. cancel' \in BOOLEAN
  BY <1>0, <1>8, AnswerTypes, Zenon
<1>11. coordinator' \in {"open", "refusing", "closed"}
  BY <1>0, <1>8, AnswerTypes, Zenon
<1>. QED
  BY <1>1, <1>9, <1>10, <1>11

-----------------------------------------------------------------------------
(* The types.                                                               *)

\* Every step keeps the types of a local batch.
LEMMA LocalTypeStep ==
  Inv /\ [Next]_vars => Local!TypeOK'
<1> SUFFICES ASSUME Inv, [Next]_vars
             PROVE  Local!TypeOK'
  OBVIOUS
<1>. DEFINE V == {i \in Candidates : Local!InThread(i)'}
<1>v. /\ {j \in Local!Candidates : Local!InThread(j)'} = V
      /\ Cardinality(V) <= workers'
  <2>1. {j \in Local!Candidates : Local!InThread(j)'} = V
    BY SameNames, Zenon
  <2>. QED
    BY <2>1, ThreadBoundStep, Zenon
<1>c. Local!Cardinality({j \in Local!Candidates : Local!InThread(j)'})
        <= workers'
  BY <1>v, SameCount, Zenon
<1>. HIDE DEF V
<1>. USE SameNames
     DEF localVars, Local!mainVars, Local!taskVars, Local!procVars
<1>0. TypeOK
  BY DEF Inv
<1>. DEFINE Tasks == {"queued", "prepare", "run", "watch", "drain",
                      "answered", "taken"}
            Procs == {"none", "alive", "exited", "killed"}
            Clocks == {"off", "running", "over"}
            Typed == /\ main' \in {"idle", "freeze", "collect", "unwind",
                                   "over"}
                     /\ timed' \in BOOLEAN
                     /\ template' \in {"none", "frozen", "error"}
                     /\ task' \in [Candidates -> Tasks]
                     /\ answer' \in [Candidates -> RowStates \cup {NoRow}]
                     /\ proc' \in [Candidates -> Procs]
                     /\ held' \in [Candidates -> BOOLEAN]
                     /\ clock' \in [Candidates -> Clocks]
                     /\ orphans' \subseteq Candidates
                     /\ \A i \in Candidates :
                          task'[i] \in {"answered", "taken"}
                            => answer'[i] # NoRow
<1>1. /\ main \in {"idle", "freeze", "collect", "unwind", "over"}
      /\ timed \in BOOLEAN /\ template \in {"none", "frozen", "error"}
      /\ task \in [Candidates -> Tasks]
      /\ answer \in [Candidates -> RowStates \cup {NoRow}]
      /\ proc \in [Candidates -> Procs]
      /\ held \in [Candidates -> BOOLEAN] /\ clock \in [Candidates -> Clocks]
      /\ orphans \subseteq Candidates
      /\ \A i \in Candidates :
           task[i] \in {"answered", "taken"} => answer[i] # NoRow
  BY <1>0 DEF TypeOK, Local!TypeOK, Local!Settled
<1>2. ASSUME UNCHANGED localVars
      PROVE  Typed
  BY <1>1, <1>2
<1>3. ASSUME Local!Next
      PROVE  Typed
  <2>1. ASSUME \/ Local!Begin \/ Local!Freezes \/ Local!Unwinds
               \/ Local!Finish
        PROVE  Typed
    BY <1>1, <2>1
    DEF Local!Begin, Local!Freezes, Local!Unwinds, Local!Finish
  <2>2. ASSUME NEW i \in Candidates, NEW to \in Tasks,
               NEW row \in RowStates \cup {NoRow},
               UNCHANGED <<main, timed, template, proc, held, clock, orphans>>,
               task' = [task EXCEPT ![i] = to],
               \/ UNCHANGED answer
                  /\ (to \notin {"answered", "taken"} \/ answer[i] # NoRow)
               \/ answer' = [answer EXCEPT ![i] = row] /\ row # NoRow
        PROVE  Typed
    BY <1>1, <2>2
  <2>3. ASSUME NEW i \in Candidates, Local!Accepts(i)
        PROVE  Typed
    <3>1. answer[i] # NoRow
      BY <1>1, <2>3 DEF Local!Accepts
    <3>. QED
      BY <2>2, <2>3, <3>1 DEF Local!Accepts, Local!Goes
  <2>9. ASSUME NEW i \in Candidates, Local!Drains(i)
        PROVE  Typed
    <3>1. PICK status \in {answer[i], "error"} : Local!Returns(i, status)
      BY <2>9 DEF Local!Drains
    <3>2. status \in RowStates \cup {NoRow} /\ status # NoRow
      BY <1>1, <2>9, <3>1 DEF Local!Drains, Inv, TaskInv, RowStates
    <3>. QED
      BY <2>2, <2>9, <3>1, <3>2 DEF Local!Drains, Local!Returns, Local!Goes
  <2>4. ASSUME NEW i \in Candidates, Local!AcceptRaises(i)
        PROVE  Typed
    BY <1>1, <2>4 DEF Local!AcceptRaises
  <2>5. ASSUME NEW i \in Candidates,
               \/ Local!TakesUp(i) \/ Local!Prepares(i)
               \/ Local!StartCancelled(i) \/ Local!Concludes(i)
        PROVE  Typed
    <3>1. UNCHANGED <<main, timed, template, proc, held, clock, orphans>>
      BY <2>5
      DEF Local!TakesUp, Local!Prepares, Local!StartCancelled,
          Local!Concludes
    <3>2. \/ \E to \in {"prepare", "run"} :
               task' = [task EXCEPT ![i] = to] /\ UNCHANGED answer
          \/ \E row \in {"cancelled", "error", "done"} :
               /\ task' = [task EXCEPT ![i] = "answered"]
               /\ answer' = [answer EXCEPT ![i] = row]
      BY <2>5
      DEF Local!TakesUp, Local!Prepares, Local!StartCancelled,
          Local!Concludes, Local!Returns, Local!Goes
    <3>3. \A row \in {"cancelled", "error", "done"} :
            row \in RowStates /\ row # NoRow
      BY DEF RowStates
    <3>. QED
      BY <2>2, <3>1, <3>2, <3>3
  <2>6. ASSUME NEW i \in Candidates, Local!Starts(i) \/ Local!Kills(i)
        PROVE  Typed
    <3>1. /\ UNCHANGED <<main, timed, template, orphans>>
          /\ \E to \in {"watch", "drain"} : task' = [task EXCEPT ![i] = to]
          /\ \E p \in Procs : proc' = [proc EXCEPT ![i] = p]
          /\ \E h \in BOOLEAN : held' = [held EXCEPT ![i] = h]
      BY <2>6 DEF Local!Starts, Local!Kills, Local!Goes
    <3>2. UNCHANGED clock
          \/ \E c \in Clocks : clock' = [clock EXCEPT ![i] = c]
      BY <2>6 DEF Local!Starts, Local!Kills
    <3>3. \/ UNCHANGED answer
          \/ \E row \in {"cancelled", "timeout"} :
               answer' = [answer EXCEPT ![i] = row]
      BY <2>6 DEF Local!Starts, Local!Kills
    <3>4. /\ \A row \in {"cancelled", "timeout"} :
               row \in RowStates /\ row # NoRow
          /\ \A j \in Candidates : j # i => task'[j] = task[j]
          /\ task'[i] \in {"watch", "drain"}
      BY <1>1, <3>1 DEF RowStates
    <3>5. /\ task' \in [Candidates -> Tasks] /\ proc' \in [Candidates -> Procs]
          /\ held' \in [Candidates -> BOOLEAN]
          /\ clock' \in [Candidates -> Clocks]
      BY <1>1, <3>1, <3>2
    <3>6. /\ answer' \in [Candidates -> RowStates \cup {NoRow}]
          /\ \A j \in Candidates : j # i => answer'[j] = answer[j]
      BY <1>1, <3>3, <3>4
    <3>. QED
      BY <1>1, <3>1, <3>4, <3>5, <3>6
  <2>7. ASSUME NEW i \in Candidates,
               Local!Exits(i) \/ Local!PipesClose(i) \/ Local!TimePasses(i)
        PROVE  Typed
    BY <1>1, <2>7 DEF Local!Exits, Local!PipesClose, Local!TimePasses
  <2>8. ASSUME NEW i \in Candidates, Local!Raises(i)
        PROVE  Typed
    <3>1. \A row \in {"cancelled", "timeout", "error"} :
            row \in RowStates /\ row # NoRow
      BY DEF RowStates
    <3>2. /\ UNCHANGED <<main, timed, template, clock>>
          /\ \E to \in {"answered", "drain"} : task' = [task EXCEPT ![i] = to]
          /\ \E row \in {"cancelled", "timeout", "error"} :
               answer' = [answer EXCEPT ![i] = row]
      BY <2>8, FailingSteps
    <3>3. /\ UNCHANGED proc
             \/ \E p \in {"alive", "killed"} : proc' = [proc EXCEPT ![i] = p]
          /\ UNCHANGED held \/ held' = [held EXCEPT ![i] = TRUE]
          /\ UNCHANGED orphans \/ orphans' = orphans \cup {i}
      BY <2>8, FailingSteps
    <3>4. /\ task' \in [Candidates -> Tasks]
          /\ \A j \in Candidates : j # i => task'[j] = task[j]
          /\ answer' \in [Candidates -> RowStates \cup {NoRow}]
          /\ \A j \in Candidates : j # i => answer'[j] = answer[j]
          /\ answer'[i] # NoRow
      BY <1>1, <3>1, <3>2
    <3>5. /\ proc' \in [Candidates -> Procs]
          /\ held' \in [Candidates -> BOOLEAN] /\ orphans' \subseteq Candidates
      BY <1>1, <3>3
    <3>. QED
      BY <1>1, <3>2, <3>4, <3>5
  <2>. QED
    BY <1>2, <1>3, <2>1, <2>3, <2>4, <2>5, <2>6, <2>7, <2>8, <2>9, LocalSteps
<1>4. Typed
  BY <1>2, <1>3, StepModes DEF vars
<1>5. workers' \in 1..MaxWorkers
  BY ThreadBoundStep
<1>. QED
  BY <1>4, <1>5, <1>c, AnswersTypeStep, Zenon
  DEF Local!TypeOK, Local!AnswersTypeOK, Local!Settled


\* What is decided of a job, or forgotten of it, has the types it should.
ScalarsOK ==
  /\ phase \in {"prepare", "submit", "poll", "sweep", "rest", "over"}
  /\ step \in {"next", "outputs", "watch", "query", "remove", "retry",
               "resubmit", "collect", "store"}
  /\ deadline \in {"off", "running", "passed"} /\ stopping \in BOOLEAN
  /\ seen \in {"none", "terminated", "held", "aborted"}
  /\ hold \in Condor!Holds \cup {"none", "unknown"}
  /\ verdict \in RowStates \cup {"none"}
  /\ trouble \in {"none", "unremoved", "raised"}
  /\ guard \in {"none", "build", "all"}

SetsOK ==
  /\ todo \subseteq Candidates /\ jobs \subseteq Candidates
  /\ pending \subseteq jobs
  /\ step # "next" => todo # {}

TablesOK ==
  /\ retried \in [Candidates -> [Resources -> 0..Retries]]
  /\ notes \in [Candidates -> {"none", "unremoved", "raised"}]
  /\ cluster \in [Candidates -> {"none", "queued", "held", "leaving", "ended",
                                 "gone", "aborted"}]
  /\ known \in [Candidates -> BOOLEAN] /\ overdue \in [Candidates -> BOOLEAN]
  /\ outputs \in [Candidates -> {"none", "ready", "partial"}]
  /\ stale \in [Candidates -> BOOLEAN]

LEMMA CondorTypes ==
  ASSUME TypeOK
  PROVE  ScalarsOK /\ SetsOK /\ TablesOK
BY SameNames DEF TypeOK, Condor!TypeOK, ScalarsOK, SetsOK, TablesOK

\* Every step keeps the types of where the runner is and what it decides.
LEMMA ScalarsStep ==
  ASSUME Inv, Condor!Next
  PROVE  ScalarsOK'
<1>. USE SameNames
     DEF Condor!runVars, Condor!stepVars, Condor!Enter, Condor!Idle,
         Condor!Decide, Condor!Goes
<1>0. TypeOK /\ ScalarsOK
  BY CondorTypes DEF Inv
<1>1. CASE Dispatches
  BY <1>0, <1>1
  DEF Dispatches, Condor!Begin, Condor!PrepareCancelled,
      Condor!PrepareFails, Condor!Prepared, Condor!RestDecides,
      Condor!DispatchStores, Condor!DispatchRaises, Condor!Finish,
      Condor!Leaves, ScalarsOK, RowStates
<1>2. CASE Submits
  BY <1>0, <1>2
  DEF Submits, Condor!PreparedAll, Condor!SubmitCancelled, Condor!Submitted,
      Condor!SubmitFails, Condor!SubmittedAll, ScalarsOK, RowStates
<1>3. CASE \/ Condor!Round \/ Condor!LoopEnds \/ Condor!StaysPending
           \/ Condor!ReadRaises
  BY <1>0, <1>3, AnswerTypes
  DEF Condor!Round, Condor!LoopEnds, Condor!StaysPending,
      Condor!ReadRaises, ScalarsOK
<1>4. CASE Condor!ReadsLog
  <2>1. seen' \in {"none", "terminated", "held", "aborted"}
    BY <1>4 DEF Condor!ReadsLog, Condor!Reasons
  <2>. QED
    BY <1>0, <1>4, <2>1 DEF Condor!ReadsLog, ScalarsOK
<1>5. CASE Condor!ReadsOutputs \/ Condor!Expires
  BY <1>0, <1>5 DEF Condor!ReadsOutputs, Condor!Expires, ScalarsOK
<1>6. CASE Condor!Queries
  BY <1>0, <1>6 DEF Condor!Queries, ScalarsOK
<1>7. CASE Condor!Removed \/ Condor!RemoveFails
  <2>1. /\ Condor!RowOfRemoved \in {"cancelled", "timeout", "error"}
        /\ Condor!Caught \in {"none", "build", "all"}
    BY DEF Condor!RowOfRemoved, Condor!Caught
  <2>. HIDE DEF Condor!RowOfRemoved, Condor!Caught
  <2>. QED
    BY <1>0, <1>7, <2>1
    DEF Condor!Removed, Condor!RemoveFails, ScalarsOK, RowStates
<1>8. CASE \/ Condor!SweepsLate \/ Condor!Exhausted \/ Condor!Resets
  BY <1>0, <1>8
  DEF Condor!SweepsLate, Condor!Exhausted, Condor!Resets, Condor!Retrying,
      ScalarsOK, RowStates
<1>9. CASE Condor!Collects
  <2>1. Condor!Caught \in {"none", "build", "all"}
    BY DEF Condor!Caught
  <2>. QED
    BY <1>0, <1>9, <2>1 DEF Condor!Collects, ScalarsOK, RowStates
<1>10. CASE StoresOrNot
  BY <1>0, <1>10
  DEF StoresOrNot, Condor!Stores, Condor!BuildRaises,
      Condor!RecordingEscapes, Condor!Leaves, Condor!RecordingCaught,
      Condor!Swallows, Condor!Settled, Condor!Swept, ScalarsOK, RowStates
<1>11. CASE Outside
  BY <1>0, <1>11, QueueSteps
  DEF Outside, Condor!DeadlinePasses, Condor!Cancelled, Condor!condorVars,
      ScalarsOK
<1>. QED
  BY <1>1, <1>2, <1>3, <1>4, <1>5, <1>6, <1>7, <1>8, <1>9, <1>10, <1>11,
     CondorSteps
  DEF Reads, Acts

\* Every step keeps what is pending among the jobs, and a job at hand while
\* something is decided about it.
LEMMA SetsStep ==
  ASSUME Inv, Condor!Next
  PROVE  SetsOK'
<1>. USE SameNames
     DEF Condor!runVars, Condor!stepVars, Condor!Enter, Condor!Idle,
         Condor!Decide, Condor!Goes, SetsOK
<1>0. /\ TypeOK /\ SetsOK /\ LeftInv /\ StepInv
      /\ todo # {} => Condor!At \in todo
  BY CondorTypes, AtIn DEF Inv, At
<1>1. CASE Dispatches
  BY <1>0, <1>1
  DEF Dispatches, Condor!Begin, Condor!PrepareCancelled,
      Condor!PrepareFails, Condor!Prepared, Condor!RestDecides,
      Condor!DispatchStores, Condor!DispatchRaises, Condor!Finish,
      Condor!Leaves
<1>2. CASE Submits
  BY <1>0, <1>2
  DEF Submits, Condor!PreparedAll, Condor!SubmitCancelled, Condor!Submitted,
      Condor!SubmitFails, Condor!Submitting, Condor!SubmittedAll, LeftInv
<1>3. CASE Reads
  BY <1>0, <1>3
  DEF Reads, Condor!Round, Condor!LoopEnds, Condor!LoopGoesOn,
      Condor!ReadsLog, Condor!ReadsOutputs, Condor!Expires,
      Condor!StaysPending, Condor!ReadRaises, Condor!Queries
<1>4. CASE Acts
  BY <1>0, <1>4
  DEF Acts, Condor!SweepsLate, Condor!Removed, Condor!RemoveFails,
      Condor!Exhausted, Condor!Resets, Condor!Retrying, Condor!Collects
<1>5. CASE StoresOrNot
  BY <1>0, <1>5
  DEF StoresOrNot, Condor!Stores, Condor!Storing, Condor!BuildRaises,
      Condor!RecordingEscapes, Condor!Leaves, Condor!RecordingCaught,
      Condor!Swallows, Condor!Settled, Condor!Swept
<1>6. CASE Outside
  BY <1>0, <1>6, QueueSteps
  DEF Outside, Condor!DeadlinePasses, Condor!Cancelled, Condor!condorVars
<1>. QED
  BY <1>1, <1>2, <1>3, <1>4, <1>5, <1>6, CondorSteps


\* Every step keeps the types of what is kept for each candidate.
LEMMA TablesStep ==
  ASSUME Inv, Condor!Next
  PROVE  TablesOK'
<1>. USE SameNames
     DEF Condor!runVars, Condor!queueVars, Condor!Enter
<1>0. /\ TypeOK /\ TablesOK /\ StepInv /\ ScalarsOK
      /\ todo # {} => Condor!At \in Candidates
      /\ step # "next" => Condor!At \in Candidates
  BY CondorTypes, AtIn DEF Inv, At, SetsOK
<1>1. CASE UNCHANGED <<retried, notes, cluster, known, overdue, outputs,
                       stale>>
  BY <1>0, <1>1 DEF TablesOK
<1>2. CASE Dispatches
  <2>1. CASE Condor!DispatchStores
    BY <1>0, <2>1 DEF Condor!DispatchStores, TablesOK, ScalarsOK
  <2>. QED
    BY <1>1, <1>2, <2>1
    DEF Dispatches, Condor!Begin, Condor!PrepareCancelled,
        Condor!PrepareFails, Condor!Prepared, Condor!RestDecides,
        Condor!DispatchRaises, Condor!Finish, Condor!Leaves
<1>3. CASE Submits
  <2>1. CASE Condor!Submitted \/ Condor!SubmitFails
    <3>1. Condor!At \in Candidates
      BY <1>0, <2>1
      DEF Condor!Submitted, Condor!SubmitFails, Condor!Submitting
    <3>. QED
      BY <1>0, <2>1, <3>1
      DEF Condor!Submitted, Condor!SubmitFails, TablesOK
  <2>. QED
    BY <1>1, <1>3, <2>1
    DEF Submits, Condor!PreparedAll, Condor!SubmitCancelled,
        Condor!SubmittedAll
<1>4. CASE Reads
  BY <1>1, <1>4
  DEF Reads, Condor!Round, Condor!LoopEnds, Condor!ReadsLog,
      Condor!ReadsOutputs, Condor!Expires, Condor!StaysPending,
      Condor!ReadRaises, Condor!Queries
<1>5. CASE Condor!Removed \/ Condor!RemoveFails
  BY <1>0, <1>5 DEF Condor!Removed, Condor!RemoveFails, TablesOK
<1>6. CASE Condor!Resets
  <2>. DEFINE i == Condor!At
              h == hold
  <2>1. i \in Candidates /\ h \in Resources
    BY <1>0, <1>6 DEF Condor!Resets, StepInv
  <2>2. /\ retried' = [retried EXCEPT ![i][h] = @ + 1]
        /\ retried[i][h] < Retries
    BY <1>6 DEF Condor!Resets, Condor!MayRetry
  <2>3. retried \in [Candidates -> [Resources -> 0..Retries]]
    BY <1>0 DEF TablesOK
  <2>4. UNCHANGED <<notes, cluster, known, overdue, stale>>
        /\ \/ outputs' = [outputs EXCEPT ![i] = "none"]
           \/ UNCHANGED outputs
    BY <1>6 DEF Condor!Resets
  <2>. HIDE DEF i, h
  <2>5. retried[i] \in [Resources -> 0..Retries]
        /\ retried[i][h] + 1 \in 0..Retries
    BY <2>1, <2>2, <2>3, JobsAssumption
  <2>6. retried' = [retried EXCEPT
                      ![i] = [retried[i] EXCEPT ![h] = retried[i][h] + 1]]
    BY <2>2
  <2>7. [retried[i] EXCEPT ![h] = retried[i][h] + 1]
          \in [Resources -> 0..Retries]
    BY <2>1, <2>5
  <2>8. retried' \in [Candidates -> [Resources -> 0..Retries]]
    BY <2>1, <2>3, <2>6, <2>7
  <2>. QED
    BY <1>0, <2>1, <2>4, <2>8 DEF TablesOK
<1>7. CASE Acts
  BY <1>1, <1>5, <1>6, <1>7
  DEF Acts, Condor!SweepsLate, Condor!Exhausted, Condor!Collects
<1>8. CASE Condor!Stores \/ Condor!Swallows
  <2>. DEFINE i == Condor!At
              none == [r \in Resources |-> 0]
  <2>1. /\ i \in Candidates
        /\ retried' = [retried EXCEPT ![i] = none]
        /\ outputs' = [outputs EXCEPT ![i] = "none"]
        /\ UNCHANGED <<cluster, known, overdue, stale>>
        /\ notes' = [notes EXCEPT ![i] = trouble] \/ UNCHANGED notes
    BY <1>0, <1>8
    DEF Condor!Stores, Condor!Swallows, Condor!Storing, Condor!Settled
  <2>2. none \in [Resources -> 0..Retries]
    BY JobsAssumption
  <2>. HIDE DEF i, none
  <2>. QED
    BY <1>0, <2>1, <2>2 DEF TablesOK, ScalarsOK
<1>9. CASE StoresOrNot
  BY <1>1, <1>8, <1>9
  DEF StoresOrNot, Condor!BuildRaises, Condor!RecordingEscapes,
      Condor!Leaves, Condor!RecordingCaught, Condor!Swept
<1>10. CASE Outside
  <2>1. CASE Condor!DeadlinePasses \/ Condor!Cancelled
    BY <1>1, <2>1
    DEF Condor!DeadlinePasses, Condor!Cancelled, Condor!condorVars
  <2>2. CASE ~(Condor!DeadlinePasses \/ Condor!Cancelled)
    <3>1. PICK i \in Candidates :
            /\ UNCHANGED <<retried, notes, known, stale>>
            /\ \E b \in BOOLEAN : overdue' = [overdue EXCEPT ![i] = b]
            /\ \E c \in {"queued", "held", "leaving", "ended", "aborted"} :
                 cluster' = [cluster EXCEPT ![i] = c]
            /\ \/ UNCHANGED outputs
               \/ \E o \in {"ready", "partial"} :
                    outputs' = [outputs EXCEPT ![i] = o]
      BY <1>0, <1>10, <2>2, QueueSteps DEF Outside
    <3>. QED
      BY <1>0, <3>1 DEF TablesOK
  <2>. QED
    BY <2>1, <2>2
<1>. QED
  BY <1>2, <1>3, <1>4, <1>7, <1>9, <1>10, CondorSteps

\* Every step keeps every type.
LEMMA TypeStep ==
  Inv /\ [Next]_vars => TypeOK'
<1> SUFFICES ASSUME Inv, [Next]_vars
             PROVE  TypeOK'
  OBVIOUS
<1>1. ScalarsOK' /\ SetsOK' /\ TablesOK'
  <2>1. CASE UNCHANGED condorVars
    <3>1. TypeOK
      BY DEF Inv
    <3>2. ScalarsOK /\ SetsOK /\ TablesOK
      BY <3>1, CondorTypes
    <3>. QED
      BY <2>1, <3>2 DEF condorVars, ScalarsOK, SetsOK, TablesOK
  <2>. QED
    BY <2>1, ScalarsStep, SetsStep, TablesStep, StepModes DEF vars
<1>2. Local!TypeOK'
  BY LocalTypeStep
<1>3. Condor!TypeOK'
  BY <1>1, AnswersTypeStep, SameNames
  DEF Condor!TypeOK, Condor!AnswersTypeOK, ScalarsOK, SetsOK, TablesOK
<1>. QED
  BY <1>2, <1>3 DEF TypeOK

-----------------------------------------------------------------------------
(* Where the runner is, and what is left to it.                             *)

\* A local batch, and a step that changes nothing, leave what HTCondor has
\* alone.
LEMMA CondorSteady ==
  ASSUME Inv, [Next]_vars
  PROVE  \/ /\ UNCHANGED <<mode, condorVars>>
            /\ mode = "local" \/ UNCHANGED <<rows, outcome>>
         \/ mode = "distributed" /\ UNCHANGED mode /\ Condor!Next
BY StepModes DEF vars, answerVars

\* A step ends with nothing in hand, or with a row decided, unless it reads of
\* a job or acts on its cluster.
LEMMA DecidedSteps ==
  ASSUME Inv,
         \/ Dispatches \/ Submits \/ StoresOrNot
         \/ Condor!Round \/ Condor!LoopEnds \/ Condor!StaysPending
         \/ Condor!ReadRaises \/ Condor!RemoveFails \/ Condor!Exhausted
         \/ Condor!Collects
  PROVE  /\ step' \in {"next", "store"} /\ seen' = "none" /\ hold' = "none"
         /\ step' = "store" => verdict' \in RowStates
<1>. USE DEF Condor!runVars, Condor!stepVars, Condor!Enter, Condor!Idle,
             Condor!Decide, RowStates
<1>0. TypeOK /\ StepInv
  BY DEF Inv
<1>1. CASE Dispatches
  BY <1>0, <1>1
  DEF Dispatches, Condor!Begin, Condor!PrepareCancelled,
      Condor!PrepareFails, Condor!Prepared, Condor!RestDecides,
      Condor!DispatchStores, Condor!DispatchRaises, Condor!Finish,
      Condor!Leaves, StepInv
<1>2. CASE Submits
  BY <1>0, <1>2
  DEF Submits, Condor!PreparedAll, Condor!SubmitCancelled, Condor!Submitted,
      Condor!SubmitFails, Condor!SubmittedAll, StepInv
<1>3. CASE StoresOrNot
  BY <1>0, <1>3
  DEF StoresOrNot, Condor!Stores, Condor!BuildRaises,
      Condor!RecordingEscapes, Condor!Leaves, Condor!RecordingCaught,
      Condor!Swallows, Condor!Settled, Condor!Swept, StepInv
<1>4. CASE \/ Condor!Round \/ Condor!LoopEnds \/ Condor!StaysPending
           \/ Condor!ReadRaises
  BY <1>0, <1>4
  DEF Condor!Round, Condor!LoopEnds, Condor!StaysPending,
      Condor!ReadRaises, StepInv
<1>5. CASE Condor!RemoveFails \/ Condor!Exhausted \/ Condor!Collects
  <2>1. Condor!RowOfRemoved \in RowStates
    BY DEF Condor!RowOfRemoved
  <2>. HIDE DEF Condor!RowOfRemoved
  <2>. QED
    BY <1>5, <2>1
    DEF Condor!RemoveFails, Condor!Exhausted, Condor!Collects
<1>. QED
  BY <1>1, <1>2, <1>3, <1>4, <1>5

\* The other steps: what they read, and where that leads.
Looks ==
  \/ Condor!ReadsLog \/ Condor!ReadsOutputs \/ Condor!Expires
  \/ Condor!Queries \/ Condor!SweepsLate \/ Condor!Removed \/ Condor!Resets

LEMMA LookOrDecide ==
  ASSUME Condor!Next
  PROVE  \/ Looks \/ Outside
         \/ Dispatches \/ Submits \/ StoresOrNot
         \/ Condor!Round \/ Condor!LoopEnds \/ Condor!StaysPending
         \/ Condor!ReadRaises \/ Condor!RemoveFails \/ Condor!Exhausted
         \/ Condor!Collects
BY CondorSteps DEF Looks, Reads, Acts

\* Looking at a job changes no row and no set of jobs.
LEMMA LooksChange ==
  ASSUME Inv, Looks
  PROVE  /\ UNCHANGED <<phase, todo, jobs, pending, deadline, stopping, rows,
                        outcome, notes>>
         /\ phase \in {"poll", "sweep"}
<1>0. ScalarsOK /\ StepInv /\ PhaseInv
  BY CondorTypes DEF Inv
<1>1. UNCHANGED <<phase, todo, jobs, pending, deadline, stopping, rows,
                  outcome, notes>>
  BY DEF Looks, Condor!ReadsLog, Condor!ReadsOutputs, Condor!Expires,
     Condor!Queries, Condor!SweepsLate, Condor!Removed, Condor!Resets,
     Condor!runVars, Condor!answerVars, Condor!Ongoing
<1>2. phase \in {"poll", "sweep"}
  BY <1>0
  DEF Looks, Condor!ReadsLog, Condor!ReadsOutputs, Condor!Expires,
      Condor!Queries, Condor!SweepsLate, Condor!Removed, Condor!Resets,
      ScalarsOK, StepInv, PhaseInv
<1>. QED
  BY <1>1, <1>2

\* So does what happens outside of the runner.
LEMMA OutsideChanges ==
  ASSUME Inv, Outside
  PROVE  /\ UNCHANGED <<phase, todo, jobs, pending, stopping, step, seen, hold,
                        verdict, trouble, guard, retried, known, stale, rows,
                        outcome, notes>>
         /\ \/ UNCHANGED <<cluster, outputs>>
            \/ phase \in {"poll", "sweep"} /\ todo # {} /\ step # "store"
<1>0. TypeOK
  BY DEF Inv
<1>1. CASE Condor!DeadlinePasses
  BY <1>1
  DEF Condor!DeadlinePasses, Condor!stepVars, Condor!queueVars,
      Condor!answerVars
<1>2. CASE Condor!Cancelled
  BY <1>2
  DEF Condor!Cancelled, Condor!CancelRequested, Condor!condorVars,
      Condor!runVars, Condor!stepVars, Condor!queueVars
<1>. QED
  BY <1>0, <1>1, <1>2, QueueSteps DEF Outside

\* Every step keeps the phases in their order.
LEMMA PhaseInvStep ==
  Inv /\ [Next]_vars => PhaseInv'
<1> SUFFICES ASSUME Inv, [Next]_vars
             PROVE  PhaseInv'
  OBVIOUS
<1>. USE SameNames DEF Condor!runVars, Condor!stepVars, Condor!Enter,
                       Condor!Idle, Condor!answerVars, Condor!Ongoing, PhaseInv
<1>0. PhaseInv /\ StepInv /\ LeftInv /\ ScalarsOK
  BY CondorTypes DEF Inv
<1>1. outcome' = "none" => outcome = "none" /\ UNCHANGED rows
  BY PromiseStep
  DEF Promise!vars, Promise!Next, Promise!Begin, Promise!Answer,
      Promise!Return, Promise!Fail
<1>2. CASE UNCHANGED <<mode, condorVars>>
           /\ (mode = "local" \/ UNCHANGED <<rows, outcome>>)
  BY <1>0, <1>1, <1>2 DEF condorVars
<1>3. CASE mode = "distributed" /\ UNCHANGED mode /\ Condor!Next
  <2>. USE <1>3
  <2>1. CASE Looks
    <3>1. UNCHANGED <<phase, pending, jobs, stopping, rows, outcome>>
          /\ phase \in {"poll", "sweep"}
      BY <2>1, LooksChange
    <3>. QED
      BY <1>0, <3>1
  <2>2. CASE Outside
    <3>1. UNCHANGED <<phase, pending, jobs, stopping, step, rows, outcome>>
      BY <2>2, OutsideChanges
    <3>. QED
      BY <1>0, <3>1
  <2>3. CASE Dispatches
    BY <1>0, <1>1, <2>3
    DEF Dispatches, Condor!Begin, Condor!Begins, Condor!PrepareCancelled,
        Condor!PrepareFails, Condor!Prepared, Condor!RestDecides,
        Condor!DispatchStores, Condor!Takes, Condor!DispatchRaises,
        Condor!Finish, Condor!Finishes, Condor!Leaves, Condor!Decide
  <2>4. CASE Submits
    BY <1>0, <2>4
    DEF Submits, Condor!PreparedAll, Condor!SubmitCancelled,
        Condor!Submitted, Condor!SubmitFails, Condor!Submitting,
        Condor!SubmittedAll, Condor!Decide
  <2>5. CASE StoresOrNot
    BY <1>0, <2>5
    DEF StoresOrNot, Condor!Stores, Condor!Storing, Condor!BuildRaises,
        Condor!RecordingEscapes, Condor!Leaves, Condor!RecordingCaught,
        Condor!Swallows, Condor!Settled, Condor!Swept, Condor!Decide
  <2>6. CASE \/ Condor!Round \/ Condor!LoopEnds \/ Condor!StaysPending
             \/ Condor!ReadRaises
    BY <1>0, <2>6
    DEF Condor!Round, Condor!LoopEnds, Condor!StaysPending,
        Condor!ReadRaises, StepInv
  <2>7. CASE Condor!RemoveFails \/ Condor!Exhausted \/ Condor!Collects
    BY <1>0, <2>7
    DEF Condor!RemoveFails, Condor!Exhausted, Condor!Collects, StepInv
  <2>. QED
    BY <2>1, <2>2, <2>3, <2>4, <2>5, <2>6, <2>7, LookOrDecide
<1>. QED
  BY <1>2, <1>3, CondorSteady

\* Every step leaves in hand what has no row.
LEMMA LeftInvStep ==
  Inv /\ [Next]_vars => LeftInv'
<1> SUFFICES ASSUME Inv, [Next]_vars
             PROVE  LeftInv'
  OBVIOUS
<1>. USE SameNames DEF Condor!runVars, Condor!Enter, Condor!answerVars,
                       Condor!Ongoing, Condor!Unanswered, LeftInv
<1>0. /\ PhaseInv /\ StepInv /\ LeftInv /\ ScalarsOK /\ SetsOK
      /\ rows \in [Candidates -> RowStates \cup {NoRow}]
      /\ todo # {} => Condor!At \in todo /\ Condor!At \in Candidates
  BY CondorTypes, AnswerTypes, AtIn DEF Inv, At
<1>2. CASE UNCHANGED <<mode, condorVars>>
           /\ (mode = "local" \/ UNCHANGED <<rows, outcome>>)
  BY <1>0, <1>2 DEF condorVars, PhaseInv
<1>3. CASE mode = "distributed" /\ UNCHANGED mode /\ Condor!Next
  <2>. USE <1>3
  <2>1. CASE Looks
    <3>1. UNCHANGED <<phase, todo, pending, jobs, rows>>
      BY <2>1, LooksChange
    <3>. QED
      BY <1>0, <3>1
  <2>2. CASE Outside
    <3>1. UNCHANGED <<phase, todo, pending, jobs, rows>>
      BY <2>2, OutsideChanges
    <3>. QED
      BY <1>0, <3>1
  <2>3. CASE Condor!Begin \/ Condor!Prepared
    BY <1>0, <2>3
    DEF Condor!Begin, Condor!Begins, Condor!Prepared, PhaseInv
  <2>4. CASE Condor!DispatchStores
    <3>1. /\ rows' = [rows EXCEPT ![Condor!At] = verdict]
          /\ todo' = todo \ {Condor!At} /\ UNCHANGED <<phase, jobs, pending>>
          /\ phase \in {"prepare", "rest"}
          /\ verdict # NoRow /\ todo # {}
      BY <1>0, <2>4 DEF Condor!DispatchStores, Condor!Takes, StepInv, SetsOK
    <3>. QED
      BY <1>0, <3>1
  <2>5. CASE \/ Condor!PrepareCancelled \/ Condor!PrepareFails
             \/ Condor!RestDecides
    BY <1>0, <2>5
    DEF Condor!PrepareCancelled, Condor!PrepareFails, Condor!RestDecides
  <2>6. CASE Condor!DispatchRaises \/ Condor!Finish
    BY <2>6 DEF Condor!DispatchRaises, Condor!Finish, Condor!Leaves
  <2>7. CASE Condor!PreparedAll
    <3>1. /\ phase = "prepare" /\ todo = {} /\ phase' = "submit"
          /\ todo' = jobs /\ UNCHANGED <<jobs, pending, rows>>
      BY <2>7 DEF Condor!PreparedAll
    <3>2. pending = {}
      BY <1>0, <3>1 DEF PhaseInv
    <3>3. \A i \in Candidates : rows[i] = NoRow <=> i \in jobs
      BY <1>0, <3>1
    <3>. QED
      BY <1>0, <3>1, <3>2, <3>3 DEF SetsOK
  <2>8. CASE Condor!Submitted
    BY <1>0, <2>8
    DEF Condor!Submitted, Condor!Submitting, SetsOK
  <2>9. CASE \/ Condor!SubmitCancelled \/ Condor!SubmitFails
             \/ Condor!SubmittedAll
    BY <1>0, <2>9
    DEF Condor!SubmitCancelled, Condor!SubmitFails, Condor!SubmittedAll
  <2>10. CASE Condor!Stores \/ Condor!Swallows
    <3>1. /\ \/ rows' = [rows EXCEPT ![Condor!At] = verdict]
             \/ UNCHANGED rows
          /\ todo' = todo \ {Condor!At} /\ pending' = pending \ {Condor!At}
          /\ UNCHANGED <<phase, jobs>>
          /\ phase \in {"submit", "poll", "sweep"}
          /\ verdict # NoRow /\ todo # {}
      BY <1>0, <2>10
      DEF Condor!Stores, Condor!Swallows, Condor!Storing, Condor!Takes,
          Condor!ClosedRaises, Condor!Settled, StepInv, SetsOK
    <3>2. /\ todo \subseteq jobs
          /\ \A i \in todo \cup pending : rows[i] = NoRow
          /\ \A i \in Candidates \ jobs : rows[i] # NoRow
          /\ phase \in {"poll", "sweep"} => todo \subseteq pending
      BY <1>0, <3>1
    <3>3. /\ Condor!At \in jobs
          /\ \A i \in Candidates : i # Condor!At => rows'[i] = rows[i]
      BY <1>0, <3>1, <3>2
    <3>4. todo' \subseteq Candidates /\ pending' \subseteq Candidates
      BY <1>0, <3>1 DEF SetsOK
    <3>. QED
      BY <3>1, <3>2, <3>3, <3>4
  <2>11. CASE Condor!BuildRaises \/ Condor!Swept
    BY <1>0, <2>11 DEF Condor!BuildRaises, Condor!Storing, Condor!Swept
  <2>12. CASE Condor!RecordingEscapes \/ Condor!RecordingCaught
    BY <1>0, <2>12
    DEF Condor!RecordingEscapes, Condor!Leaves, Condor!RecordingCaught,
        Condor!RecordingRaises
  <2>13. CASE Condor!Round \/ Condor!LoopEnds \/ Condor!StaysPending
    <3>1. /\ phase = "poll" /\ UNCHANGED <<rows, pending, jobs>>
          /\ phase' \in {"poll", "sweep"}
          /\ todo' = pending \/ todo' = todo \ {Condor!At}
      BY <1>0, <2>13
      DEF Condor!Round, Condor!LoopEnds, Condor!StaysPending, StepInv
    <3>2. /\ todo \subseteq pending /\ pending \subseteq jobs
          /\ \A i \in pending : rows[i] = NoRow
          /\ \A i \in Candidates \ jobs : rows[i] # NoRow
      BY <1>0, <3>1 DEF SetsOK
    <3>. QED
      BY <3>1, <3>2
  <2>14. CASE Condor!ReadRaises
    <3>1. phase \in {"poll", "sweep"}
      BY <1>0, <2>14 DEF Condor!ReadRaises, StepInv, PhaseInv, ScalarsOK
    <3>. QED
      BY <1>0, <2>14, <3>1 DEF Condor!ReadRaises
  <2>15. CASE Condor!RemoveFails \/ Condor!Exhausted \/ Condor!Collects
    BY <1>0, <2>15
    DEF Condor!RemoveFails, Condor!Exhausted, Condor!Collects
  <2>. QED
    BY <2>1, <2>2, <2>3, <2>4, <2>5, <2>6, <2>7, <2>8, <2>9, <2>10, <2>11,
       <2>12, <2>13, <2>14, <2>15, LookOrDecide
    DEF Dispatches, Submits, StoresOrNot
<1>. QED
  BY <1>2, <1>3, CondorSteady

-----------------------------------------------------------------------------
(* What the runner has read of the job it looks at.                         *)

\* Every step is one that its phase has, with what it needs at hand.
LEMMA StepInvStep ==
  Inv /\ [Next]_vars => StepInv'
<1> SUFFICES ASSUME Inv, [Next]_vars
             PROVE  StepInv'
  OBVIOUS
<1>. USE DEF Condor!runVars, Condor!stepVars, Condor!Goes, StepInv
<1>0. PhaseInv /\ StepInv /\ ScalarsOK /\ SeenInv
  BY CondorTypes DEF Inv
<1>2. CASE UNCHANGED <<mode, condorVars>>
  BY <1>0, <1>2 DEF condorVars
<1>3. CASE mode = "distributed" /\ Condor!Next
  <2>1. CASE \/ Dispatches \/ Submits \/ StoresOrNot
             \/ Condor!Round \/ Condor!LoopEnds \/ Condor!StaysPending
             \/ Condor!ReadRaises \/ Condor!RemoveFails \/ Condor!Exhausted
             \/ Condor!Collects
    <3>1. /\ step' \in {"next", "store"} /\ seen' = "none" /\ hold' = "none"
          /\ step' = "store" => verdict' \in RowStates
      BY <2>1, DecidedSteps
    <3>. QED
      BY <3>1
  <2>2. CASE Outside
    <3>1. UNCHANGED <<phase, stopping, step, seen, hold, verdict>>
      BY <2>2, OutsideChanges
    <3>. QED
      BY <1>0, <3>1
  <2>3. CASE Looks
    <3>1. UNCHANGED <<phase, stopping>> /\ phase \in {"poll", "sweep"}
      BY <2>3, LooksChange
    <3>2. CASE Condor!ReadsLog \/ Condor!SweepsLate
      BY <1>0, <3>1, <3>2 DEF Condor!ReadsLog, Condor!SweepsLate
    <3>3. CASE Condor!ReadsOutputs \/ Condor!Expires
      BY <1>0, <3>1, <3>3 DEF Condor!ReadsOutputs, Condor!Expires
    <3>4. CASE Condor!Queries
      BY <1>0, <3>1, <3>4 DEF Condor!Queries
    <3>5. CASE Condor!Removed
      <4>1. Condor!RowOfRemoved \in RowStates
        BY DEF Condor!RowOfRemoved, RowStates
      <4>. HIDE DEF Condor!RowOfRemoved
      <4>. QED
        BY <1>0, <3>1, <3>5, <4>1
        DEF Condor!Removed, Condor!Replaces, Condor!Decide
    <3>6. CASE Condor!Resets
      BY <1>0, <3>1, <3>6
      DEF Condor!Resets, Condor!Retrying, Condor!Decide, RowStates
    <3>. QED
      BY <2>3, <3>2, <3>3, <3>4, <3>5, <3>6 DEF Looks
  <2>. QED
    BY <1>3, <2>1, <2>2, <2>3, LookOrDecide
<1>. QED
  BY <1>2, <1>3, CondorSteady

\* What was read of a job stays true of its cluster until it is acted upon.
LEMMA SeenInvStep ==
  Inv /\ [Next]_vars => SeenInv'
<1> SUFFICES ASSUME Inv, [Next]_vars
             PROVE  SeenInv'
  OBVIOUS
<1>. USE DEF Condor!runVars, Condor!stepVars, Condor!queueVars, Condor!Goes,
             SeenInv
<1>0. PhaseInv /\ StepInv /\ ScalarsOK /\ SetsOK /\ TablesOK /\ SeenInv
      /\ TypeOK
  BY CondorTypes DEF Inv
<1>2. CASE UNCHANGED <<mode, condorVars>>
  <2>1. At' = At
    BY <1>2, AtStays DEF condorVars
  <2>. QED
    BY <1>0, <1>2, <2>1 DEF condorVars
<1>3. CASE mode = "distributed" /\ Condor!Next
  <2>1. CASE \/ Dispatches \/ Submits \/ StoresOrNot
             \/ Condor!Round \/ Condor!LoopEnds \/ Condor!StaysPending
             \/ Condor!ReadRaises \/ Condor!RemoveFails \/ Condor!Exhausted
             \/ Condor!Collects
    <3>1. step' \in {"next", "store"} /\ seen' = "none"
      BY <2>1, DecidedSteps
    <3>. QED
      BY <3>1
  <2>2. CASE Outside
    <3>1. /\ UNCHANGED <<todo, step, seen, hold, known, stale>>
          /\ At' = At
      BY <2>2, OutsideChanges, AtStays
    <3>2. CASE Condor!DeadlinePasses \/ Condor!Cancelled
      <4>1. UNCHANGED <<cluster, outputs>>
        BY <3>2
        DEF Condor!DeadlinePasses, Condor!Cancelled, Condor!condorVars
      <4>. QED
        BY <1>0, <3>1, <4>1
    <3>3. CASE ~(Condor!DeadlinePasses \/ Condor!Cancelled)
      <4>1. PICK i \in Candidates,
                   c \in {"queued", "held", "leaving", "ended", "aborted"} :
              /\ i = At
              /\ cluster' = [cluster EXCEPT ![i] = c]
              /\ cluster[i] \in {"queued", "held", "leaving"}
              /\ cluster[i] = "held" => c = "aborted"
              /\ cluster[i] # "queued" => c # "leaving"
              /\ c # "leaving" => UNCHANGED outputs
              /\ \/ UNCHANGED outputs
                 \/ \E o \in {"ready", "partial"} :
                      outputs' = [outputs EXCEPT ![i] = o]
        BY <1>0, <2>2, <3>3, QueueSteps DEF Outside
      <4>2. cluster'[At] = c
        BY <1>0, <4>1 DEF TablesOK
      <4>3. outputs'[At] = outputs[At] \/ outputs'[At] \in {"ready", "partial"}
        BY <1>0, <4>1 DEF TablesOK
      <4>. QED
        BY <1>0, <3>1, <4>1, <4>2, <4>3
    <3>. QED
      BY <3>2, <3>3
  <2>3. CASE Looks
    <3>1. /\ UNCHANGED todo /\ At' = At /\ Condor!At = At
          /\ todo # {} => At \in Candidates
          /\ phase \in {"poll", "sweep"}
      BY <1>0, <2>3, LooksChange, AtStays, AtIn DEF At
    <3>2. CASE Condor!ReadsLog
      <4>1. /\ seen' = "terminated" => cluster[At] = "ended"
            /\ seen' = "aborted" => cluster[At] = "aborted" \/ stale[At]
            /\ seen' = "held" => cluster[At] = "held"
        BY <3>1, <3>2 DEF Condor!ReadsLog, Condor!Reasons
      <4>. QED
        BY <1>0, <3>1, <3>2, <4>1 DEF Condor!ReadsLog, StepInv
    <3>3. CASE Condor!SweepsLate \/ Condor!Expires
      <4>1. UNCHANGED <<seen, hold, cluster, known, outputs, stale>>
            /\ step' = "remove"
        BY <3>3 DEF Condor!SweepsLate, Condor!Expires
      <4>2. seen = "none" \/ step = "watch"
        BY <1>0, <3>3 DEF Condor!SweepsLate, Condor!Expires, StepInv
      <4>3. hold \notin Resources
        BY <1>0, <3>3, JobsAssumption
        DEF Condor!SweepsLate, Condor!Expires, StepInv
      <4>. QED
        BY <1>0, <3>1, <4>1, <4>2, <4>3
    <3>4. CASE Condor!ReadsOutputs
      <4>1. /\ UNCHANGED <<seen, hold, cluster, known, outputs, stale>>
            /\ step' \in {"query", "watch", "remove", "collect"}
            /\ hold = "none"
        BY <1>0, <3>4 DEF Condor!ReadsOutputs, StepInv
      <4>2. step' = "collect" /\ seen = "none" => outputs[At] # "none"
        BY <3>1, <3>4 DEF Condor!ReadsOutputs, Condor!Ready
      <4>. QED
        BY <1>0, <3>1, <4>1, <4>2, JobsAssumption
    <3>5. CASE Condor!Queries
      <4>1. /\ UNCHANGED <<seen, cluster, known, outputs, stale>>
            /\ step' \in {"remove", "collect"} /\ seen = "held"
            /\ hold' = "unknown" \/ (known[At] /\ cluster[At] = "held")
        BY <1>0, <3>1, <3>5 DEF Condor!Queries, StepInv
      <4>. QED
        BY <1>0, <3>1, <4>1, JobsAssumption
    <3>6. CASE Condor!Removed
      <4>1. CASE Condor!Replaces
        BY <1>0, <3>1, <3>6, <4>1
        DEF Condor!Removed, Condor!Replaces, TablesOK, SetsOK
      <4>2. CASE ~Condor!Replaces
        BY <3>6, <4>2 DEF Condor!Removed, Condor!Decide
      <4>. QED
        BY <4>1, <4>2
    <3>7. CASE Condor!Resets
      <4>1. At \in Candidates
        BY <1>0, <3>1, <3>7 DEF Condor!Resets, SetsOK
      <4>. QED
        BY <1>0, <3>1, <3>7, <4>1
        DEF Condor!Resets, Condor!Retrying, Condor!Decide, TablesOK
    <3>. QED
      BY <2>3, <3>2, <3>3, <3>4, <3>5, <3>6, <3>7 DEF Looks
  <2>. QED
    BY <1>3, <2>1, <2>2, <2>3, LookOrDecide
<1>. QED
  BY <1>2, <1>3, CondorSteady

-----------------------------------------------------------------------------
(* What became of the clusters.                                             *)

\* Where no cluster is made, changed or lost by a step.
LEMMA NoClusterChanges ==
  ASSUME Inv,
         \/ Condor!Begin \/ Condor!PrepareCancelled \/ Condor!PrepareFails
         \/ Condor!Prepared \/ Condor!RestDecides \/ Condor!DispatchStores
         \/ Condor!DispatchRaises \/ Condor!Finish
         \/ Condor!PreparedAll \/ Condor!SubmitCancelled
         \/ Condor!SubmittedAll \/ Reads
         \/ Condor!SweepsLate \/ Condor!Exhausted \/ Condor!Collects
         \/ Condor!BuildRaises \/ Condor!RecordingEscapes
         \/ Condor!RecordingCaught \/ Condor!Swept
         \/ Condor!DeadlinePasses \/ Condor!Cancelled
  PROVE  UNCHANGED <<cluster, known, outputs, stale>>
BY DEF Condor!Begin, Condor!PrepareCancelled, Condor!PrepareFails,
       Condor!Prepared, Condor!RestDecides, Condor!DispatchStores,
       Condor!DispatchRaises, Condor!Leaves, Condor!Finish,
       Condor!PreparedAll, Condor!SubmitCancelled, Condor!SubmittedAll,
       Reads, Condor!Round, Condor!LoopEnds, Condor!ReadsLog,
       Condor!ReadsOutputs, Condor!Expires, Condor!StaysPending,
       Condor!ReadRaises, Condor!Queries, Condor!SweepsLate,
       Condor!Exhausted, Condor!Collects, Condor!BuildRaises,
       Condor!RecordingEscapes, Condor!RecordingCaught, Condor!Swept,
       Condor!DeadlinePasses, Condor!Cancelled, Condor!condorVars,
       Condor!queueVars

\* The steps of the runner that change a cluster, or what is known of it.
LEMMA ClusterChanges ==
  ASSUME Condor!Next
  PROVE  \/ Condor!Begin \/ Condor!PrepareCancelled \/ Condor!PrepareFails
         \/ Condor!Prepared \/ Condor!RestDecides \/ Condor!DispatchStores
         \/ Condor!DispatchRaises \/ Condor!Finish
         \/ Condor!PreparedAll \/ Condor!SubmitCancelled
         \/ Condor!SubmittedAll \/ Reads
         \/ Condor!SweepsLate \/ Condor!Exhausted \/ Condor!Collects
         \/ Condor!BuildRaises \/ Condor!RecordingEscapes
         \/ Condor!RecordingCaught \/ Condor!Swept
         \/ Condor!DeadlinePasses \/ Condor!Cancelled
         \/ Condor!Submitted \/ Condor!SubmitFails
         \/ Condor!Removed \/ Condor!RemoveFails \/ Condor!Resets
         \/ Condor!Stores \/ Condor!Swallows
         \/ \E i \in Candidates :
              \/ Condor!Exits(i) \/ Condor!EndLogged(i) \/ Condor!IsHeld(i)
              \/ Condor!RemovedByHand(i) \/ Condor!LimitPasses(i)
              \/ Condor!Evicted(i)
BY CondorSteps
DEF Dispatches, Submits, Acts, StoresOrNot, Outside

\* What a step that changes clusters does to them: only the job looked at.
LEMMA OneCluster ==
  ASSUME Inv, Condor!At \in Candidates,
         \/ Condor!Submitted \/ Condor!SubmitFails
         \/ Condor!Removed \/ Condor!RemoveFails \/ Condor!Resets
         \/ Condor!Stores \/ Condor!Swallows
         \/ \E i \in Candidates :
              \/ Condor!Exits(i) \/ Condor!EndLogged(i) \/ Condor!IsHeld(i)
              \/ Condor!RemovedByHand(i) \/ Condor!LimitPasses(i)
              \/ Condor!Evicted(i)
  PROVE  \A j \in Candidates : j # At =>
           /\ cluster'[j] = cluster[j] /\ known'[j] = known[j]
           /\ outputs'[j] = outputs[j] /\ stale'[j] = stale[j]
<1>. USE DEF At, TablesOK, Condor!queueVars
<1>0. TypeOK /\ TablesOK
  BY CondorTypes DEF Inv
<1>1. CASE Condor!Submitted \/ Condor!SubmitFails
  BY <1>0, <1>1 DEF Condor!Submitted, Condor!SubmitFails
<1>2. CASE Condor!Removed \/ Condor!RemoveFails
  BY <1>0, <1>2 DEF Condor!Removed, Condor!RemoveFails
<1>3. CASE Condor!Resets \/ Condor!Stores \/ Condor!Swallows
  BY <1>0, <1>3
  DEF Condor!Resets, Condor!Stores, Condor!Swallows, Condor!Settled
<1>4. ASSUME NEW i \in Candidates,
             \/ Condor!Exits(i) \/ Condor!EndLogged(i) \/ Condor!IsHeld(i)
             \/ Condor!RemovedByHand(i) \/ Condor!LimitPasses(i)
             \/ Condor!Evicted(i)
      PROVE  \A j \in Candidates : j # At =>
               /\ cluster'[j] = cluster[j] /\ known'[j] = known[j]
               /\ outputs'[j] = outputs[j] /\ stale'[j] = stale[j]
  <2>1. /\ i = At /\ UNCHANGED <<known, stale>>
        /\ \E c : cluster' = [cluster EXCEPT ![i] = c]
        /\ \/ UNCHANGED outputs
           \/ \E o : outputs' = [outputs EXCEPT ![i] = o]
    BY <1>0, <1>4, QueueSteps
  <2>. QED
    BY <1>0, <2>1
<1>. QED
  BY <1>1, <1>2, <1>3, <1>4

\* A cluster in the queue has sent nothing back, after every step too, and
\* none is there before its submission.
LEMMA ClusterInvStep ==
  Inv /\ [Next]_vars => ClusterInv'
<1> SUFFICES ASSUME Inv, [Next]_vars
             PROVE  ClusterInv'
  OBVIOUS
<1>. USE DEF Condor!Queued, ClusterInv, At
<1>0. /\ PhaseInv /\ StepInv /\ ScalarsOK /\ SetsOK /\ TablesOK /\ SeenInv
      /\ ClusterInv /\ TypeOK /\ LeftInv
      /\ todo # {} => Condor!At \in todo /\ Condor!At \in Candidates
  BY CondorTypes, AtIn DEF Inv
<1>1. outcome' = "none" => outcome = "none"
  BY PromiseStep
  DEF Promise!vars, Promise!Next, Promise!Begin, Promise!Answer,
      Promise!Return, Promise!Fail
<1>2. CASE UNCHANGED <<mode, condorVars>>
  <2>1. Condor!At' = Condor!At
    BY <1>2, AtStays DEF condorVars
  <2>. QED
    BY <1>0, <1>1, <1>2, <2>1 DEF condorVars
<1>3. CASE mode = "distributed" /\ UNCHANGED mode /\ Condor!Next
  <2>. USE <1>3
  <2>p. phase' = "prepare" => outcome = "none" \/ phase = "prepare"
    <3>1. Dispatches \/ Submits => phase' # "prepare" \/ phase = "prepare"
                                   \/ outcome = "none"
      BY DEF Dispatches, Condor!Begin, Condor!Begins,
         Condor!PrepareCancelled, Condor!PrepareFails, Condor!Prepared,
         Condor!RestDecides, Condor!DispatchStores, Condor!DispatchRaises,
         Condor!Finish, Condor!Leaves, Submits, Condor!PreparedAll,
         Condor!SubmitCancelled, Condor!Submitted, Condor!SubmitFails,
         Condor!SubmittedAll, Condor!runVars, Condor!Enter
    <3>2. Reads \/ Acts \/ StoresOrNot =>
            phase' # "prepare" \/ phase = "prepare"
      BY DEF Reads, Condor!Round, Condor!LoopEnds, Condor!ReadsLog,
         Condor!ReadsOutputs, Condor!Expires, Condor!StaysPending,
         Condor!ReadRaises, Condor!Queries, Acts, Condor!SweepsLate,
         Condor!Removed, Condor!RemoveFails, Condor!Exhausted,
         Condor!Resets, Condor!Collects, StoresOrNot, Condor!Stores,
         Condor!Settled, Condor!BuildRaises, Condor!RecordingEscapes,
         Condor!Leaves, Condor!RecordingCaught, Condor!Swallows,
         Condor!Swept, Condor!runVars, Condor!Enter
    <3>. QED
      BY <3>1, <3>2, OutsideChanges, CondorSteps
  <2>s. phase' = "submit" =>
          \/ phase = "prepare"
          \/ /\ phase = "submit"
             /\ \/ todo' = todo /\ (step' = "next" => step = "next")
                \/ todo' = todo \ {Condor!At}
    <3>1. Dispatches \/ Submits =>
            \/ phase' # "submit" \/ phase = "prepare"
            \/ /\ phase = "submit"
               /\ \/ todo' = todo /\ (step' = "next" => step = "next")
                  \/ todo' = todo \ {Condor!At}
      BY DEF Dispatches, Condor!Begin, Condor!Begins,
         Condor!PrepareCancelled, Condor!PrepareFails, Condor!Prepared,
         Condor!RestDecides, Condor!DispatchStores, Condor!DispatchRaises,
         Condor!Finish, Condor!Leaves, Submits, Condor!PreparedAll,
         Condor!SubmitCancelled, Condor!Submitted, Condor!SubmitFails,
         Condor!SubmittedAll, Condor!runVars, Condor!stepVars, Condor!Enter,
         Condor!Decide
    <3>2. Looks => phase' # "submit"
      BY LooksChange
    <3>3. ASSUME \/ Condor!Round \/ Condor!LoopEnds \/ Condor!StaysPending
                 \/ Condor!ReadRaises
          PROVE  phase' # "submit"
      BY <1>0, <3>3
      DEF Condor!Round, Condor!LoopEnds, Condor!StaysPending,
          Condor!ReadRaises, Condor!Enter, StepInv
    <3>4. ASSUME Condor!RemoveFails \/ Condor!Exhausted \/ Condor!Collects
          PROVE  phase' # "submit"
      BY <1>0, <3>4
      DEF Condor!RemoveFails, Condor!Exhausted, Condor!Collects,
          Condor!runVars, StepInv
    <3>5. StoresOrNot =>
            \/ phase' # "submit"
            \/ /\ phase = "submit"
               /\ \/ todo' = todo /\ (step' = "next" => step = "next")
                  \/ todo' = todo \ {Condor!At}
      BY DEF StoresOrNot, Condor!Stores, Condor!Settled, Condor!BuildRaises,
         Condor!RecordingEscapes, Condor!Leaves, Condor!RecordingCaught,
         Condor!Swallows, Condor!Swept, Condor!runVars, Condor!stepVars,
         Condor!Enter, Condor!Decide
    <3>6. Outside => UNCHANGED <<phase, todo, step>>
      BY OutsideChanges
    <3>. QED
      BY <3>1, <3>2, <3>3, <3>4, <3>5, <3>6, LookOrDecide
  <2>a. todo' = todo => Condor!At' = Condor!At
    BY AtStays
  <2>1. CASE UNCHANGED <<cluster, known, outputs, stale>>
    <3>1. \A i \in Candidates : Condor!Queued(i)' => outputs'[i] = "none"
      BY <1>0, <2>1
    <3>2. outcome' = "none" \/ phase' = "prepare" =>
            \A i \in Candidates : cluster'[i] = "none" /\ outputs'[i] = "none"
      BY <1>0, <1>1, <2>1, <2>p
    <3>3. ASSUME phase' = "submit", NEW i \in todo',
                 step' = "next" \/ i # Condor!At'
          PROVE  cluster'[i] = "none" /\ outputs'[i] = "none"
      <4>1. CASE phase = "prepare"
        <5>1. i \in Candidates
          BY SetsStep, <1>3, <3>3 DEF SetsOK
        <5>. QED
          BY <1>0, <2>1, <4>1, <5>1
      <4>2. CASE phase = "submit" /\ todo' = todo \ {Condor!At}
        BY <1>0, <2>1, <3>3, <4>2
      <4>3. CASE phase = "submit" /\ todo' = todo
                 /\ (step' = "next" => step = "next")
        BY <1>0, <2>1, <2>a, <3>3, <4>3
      <4>. QED
        BY <2>s, <3>3, <4>1, <4>2, <4>3
    <3>. QED
      BY <3>1, <3>2, <3>3
  <2>2. ASSUME \/ Condor!Submitted \/ Condor!SubmitFails
               \/ Condor!Removed \/ Condor!RemoveFails \/ Condor!Resets
               \/ Condor!Stores \/ Condor!Swallows
               \/ \E i \in Candidates :
                    \/ Condor!Exits(i) \/ Condor!EndLogged(i)
                    \/ Condor!IsHeld(i) \/ Condor!RemovedByHand(i)
                    \/ Condor!LimitPasses(i) \/ Condor!Evicted(i)
        PROVE  ClusterInv'
    <3>1. /\ phase \in {"submit", "poll", "sweep"} /\ UNCHANGED phase
          /\ todo # {}
          /\ phase = "submit" => todo' # todo \/ step' # "next"
      <4>1. CASE Condor!Submitted \/ Condor!SubmitFails
        BY <1>0, <4>1
        DEF Condor!Submitted, Condor!SubmitFails, Condor!Submitting,
            Condor!runVars, Condor!Decide, SetsOK
      <4>2. CASE Condor!Removed \/ Condor!RemoveFails \/ Condor!Resets
        BY <1>0, <4>2
        DEF Condor!Removed, Condor!RemoveFails, Condor!Resets,
            Condor!runVars, StepInv, PhaseInv, SetsOK, ScalarsOK
      <4>3. CASE Condor!Stores \/ Condor!Swallows
        BY <1>0, <4>3
        DEF Condor!Stores, Condor!Swallows, Condor!Storing, Condor!Settled,
            SetsOK
      <4>. QED
        BY <1>0, <2>2, <4>1, <4>2, <4>3, QueueSteps
    <3>2. /\ Condor!At \in todo /\ Condor!At \in Candidates
          /\ \A j \in Candidates : j # Condor!At =>
               cluster'[j] = cluster[j] /\ outputs'[j] = outputs[j]
      BY <1>0, <2>2, <3>1, OneCluster
    <3>4. cluster'[Condor!At] \in {"queued", "held"}
            => outputs'[Condor!At] = "none"
      <4>1. CASE Condor!Submitted \/ Condor!SubmitFails
        <5>1. outputs[Condor!At] = "none"
          BY <1>0, <3>2, <4>1
          DEF Condor!Submitted, Condor!SubmitFails, Condor!Submitting,
              StepInv, SeenInv
        <5>. QED
          BY <4>1, <5>1 DEF Condor!Submitted, Condor!SubmitFails
      <4>2. CASE Condor!Removed \/ Condor!RemoveFails
        BY <1>0, <3>2, <4>2
        DEF Condor!Removed, Condor!RemoveFails, TablesOK
      <4>3. CASE Condor!Resets \/ Condor!Stores \/ Condor!Swallows
        BY <1>0, <3>2, <4>3
        DEF Condor!Resets, Condor!Stores, Condor!Swallows, Condor!Settled,
            TablesOK
      <4>4. ASSUME NEW i \in Candidates,
                   \/ Condor!Exits(i) \/ Condor!EndLogged(i)
                   \/ Condor!IsHeld(i) \/ Condor!RemovedByHand(i)
                   \/ Condor!LimitPasses(i) \/ Condor!Evicted(i)
            PROVE  cluster'[Condor!At] \in {"queued", "held"}
                     => outputs'[Condor!At] = "none"
        <5>1. PICK c : /\ i = Condor!At
                       /\ cluster' = [cluster EXCEPT ![i] = c]
                       /\ c # "leaving" => UNCHANGED outputs
                       /\ c = "ended" \/ cluster[i] # "leaving"
                       /\ cluster[i] \in {"queued", "held", "leaving"}
          BY <1>0, <4>4, QueueSteps
        <5>. QED
          BY <1>0, <3>2, <5>1 DEF TablesOK
      <4>. QED
        BY <2>2, <4>1, <4>2, <4>3, <4>4
    <3>5. outcome' # "none"
      BY <1>0, <1>1, <3>1 DEF PhaseInv
    <3>6. ASSUME phase' = "submit", NEW i \in todo',
                 step' = "next" \/ i # Condor!At'
          PROVE  cluster'[i] = "none" /\ outputs'[i] = "none"
      <4>1. i \in todo /\ i # Condor!At
        BY <2>a, <2>s, <3>1, <3>6
      <4>. QED
        BY <1>0, <3>1, <3>2, <3>6, <4>1 DEF SetsOK
    <3>. QED
      BY <1>0, <3>1, <3>2, <3>4, <3>5, <3>6
  <2>. QED
    BY <2>1, <2>2, NoClusterChanges, ClusterChanges
<1>. QED
  BY <1>2, <1>3, CondorSteady


\* A step gives one candidate a row, with what the row says of its cluster,
\* or changes no row and no note.
LEMMA RowsAndNotes ==
  ASSUME Inv, mode = "distributed", Condor!Next, NEW i \in Candidates
  PROVE  \/ rows'[i] = rows[i] /\ notes'[i] = notes[i]
         \/ /\ i = At /\ step = "store"
            /\ rows'[i] = verdict /\ notes'[i] = trouble
            /\ UNCHANGED <<stopping, known, stale, cluster>>
<1>. USE DEF Condor!answerVars
<1>0. /\ TypeOK /\ TablesOK
      /\ rows \in [Candidates -> RowStates \cup {NoRow}]
  BY CondorTypes, AnswerTypes DEF Inv
<1>1. CASE Condor!DispatchStores \/ Condor!Stores
  <2>1. /\ rows' = [rows EXCEPT ![At] = verdict]
        /\ notes' = [notes EXCEPT ![At] = trouble]
        /\ step = "store" /\ UNCHANGED <<stopping, known, stale, cluster>>
    BY <1>1
    DEF Condor!DispatchStores, Condor!Stores, Condor!Storing, Condor!Takes,
        Condor!Settled, Condor!queueVars, At
  <2>. QED
    BY <1>0, <2>1 DEF TablesOK
<1>2. CASE UNCHANGED <<rows, notes>>
  BY <1>2
<1>3. CASE \/ Condor!Begin \/ Condor!PrepareCancelled
           \/ Condor!PrepareFails \/ Condor!Prepared \/ Condor!RestDecides
           \/ Condor!DispatchRaises \/ Condor!Finish \/ Submits
  BY <1>2, <1>3
  DEF Condor!Begin, Condor!Begins, Condor!PrepareCancelled,
      Condor!PrepareFails, Condor!Prepared, Condor!RestDecides,
      Condor!DispatchRaises, Condor!RecordingRaises, Condor!ClosedRaises,
      Condor!Leaves, Condor!Finish, Condor!Finishes, Submits,
      Condor!PreparedAll, Condor!SubmitCancelled, Condor!Submitted,
      Condor!SubmitFails, Condor!SubmittedAll
<1>4. CASE \/ Condor!Round \/ Condor!LoopEnds \/ Condor!StaysPending
           \/ Condor!ReadRaises
           \/ Condor!RemoveFails \/ Condor!Exhausted \/ Condor!Collects
  BY <1>2, <1>4
  DEF Condor!Round, Condor!LoopEnds, Condor!StaysPending,
      Condor!ReadRaises, Condor!RemoveFails, Condor!Exhausted,
      Condor!Collects
<1>5. CASE \/ Condor!BuildRaises \/ Condor!RecordingEscapes
           \/ Condor!RecordingCaught \/ Condor!Swallows \/ Condor!Swept
  BY <1>2, <1>5
  DEF Condor!BuildRaises, Condor!RecordingEscapes, Condor!Leaves,
      Condor!RecordingCaught, Condor!RecordingRaises, Condor!Swallows,
      Condor!ClosedRaises, Condor!Swept
<1>6. CASE Looks \/ Outside
  BY <1>2, <1>6, LooksChange, OutsideChanges
<1>. QED
  BY <1>1, <1>3, <1>4, <1>5, <1>6, LookOrDecide
  DEF Dispatches, StoresOrNot

\* Cancellation that the runner has read stays read.
LEMMA StoppingStays ==
  ASSUME Inv, Condor!Next, stopping
  PROVE  stopping'
<1>0. PhaseInv
  BY DEF Inv
<1>1. CASE Looks \/ Outside
  BY <1>1, LooksChange, OutsideChanges
<1>2. CASE Dispatches \/ Submits
  BY <1>2
  DEF Dispatches, Condor!Begin, Condor!PrepareCancelled,
      Condor!PrepareFails, Condor!Prepared, Condor!RestDecides,
      Condor!DispatchStores, Condor!DispatchRaises, Condor!Finish,
      Condor!Leaves, Submits, Condor!PreparedAll, Condor!SubmitCancelled,
      Condor!Submitted, Condor!SubmitFails, Condor!SubmittedAll,
      Condor!runVars
<1>3. CASE StoresOrNot
  BY <1>3
  DEF StoresOrNot, Condor!Stores, Condor!Settled, Condor!BuildRaises,
      Condor!RecordingEscapes, Condor!Leaves, Condor!RecordingCaught,
      Condor!Swallows, Condor!Swept, Condor!runVars
<1>4. CASE \/ Condor!Round \/ Condor!LoopEnds \/ Condor!StaysPending
           \/ Condor!ReadRaises
           \/ Condor!RemoveFails \/ Condor!Exhausted \/ Condor!Collects
  BY <1>0, <1>4
  DEF Condor!Round, Condor!LoopEnds, Condor!StaysPending,
      Condor!ReadRaises, Condor!RemoveFails, Condor!Exhausted,
      Condor!Collects, Condor!runVars, PhaseInv
<1>. QED
  BY <1>1, <1>2, <1>3, <1>4, LookOrDecide

\* A row is decided with the cluster out of the queue, or with a reason why
\* it may still be there.
LEMMA DecidedCluster ==
  ASSUME Inv, mode = "distributed", Condor!Next, step' = "store"
  PROVE  At' = At /\
         \/ trouble' # "none"
         \/ cluster'[At] \notin {"queued", "held"}
         \/ ~known'[At] \/ stale'[At]
         \/ stopping' /\ cluster'[At] = "held" /\ verdict' = "error"
<1>. USE DEF Condor!runVars, Condor!queueVars, Condor!Enter, Condor!Idle,
             Condor!Decide, At
<1>0. /\ PhaseInv /\ StepInv /\ ScalarsOK /\ SetsOK /\ TablesOK /\ SeenInv
      /\ ClusterInv /\ TypeOK /\ LeftInv /\ StrayInv
      /\ todo # {} => Condor!At \in todo /\ Condor!At \in Candidates
  BY CondorTypes, AtIn DEF Inv
<1>a. todo' = todo => Condor!At' = Condor!At
  BY AtStays
<1>1. CASE Dispatches
  <2>1. CASE Condor!PrepareCancelled \/ Condor!PrepareFails
    BY <1>0, <1>a, <2>1
    DEF Condor!PrepareCancelled, Condor!PrepareFails, ClusterInv
  <2>2. CASE Condor!RestDecides
    BY <1>a, <2>2 DEF Condor!RestDecides
  <2>3. CASE ~(Condor!PrepareCancelled \/ Condor!PrepareFails
               \/ Condor!RestDecides)
    BY <1>1, <2>3
    DEF Dispatches, Condor!Begin, Condor!Prepared, Condor!DispatchStores,
        Condor!DispatchRaises, Condor!Finish, Condor!Leaves,
        Condor!stepVars
  <2>. QED
    BY <2>1, <2>2, <2>3
<1>2. CASE Submits
  <2>1. CASE Condor!SubmitCancelled
    BY <1>0, <1>a, <2>1 DEF Condor!SubmitCancelled, ClusterInv
  <2>2. CASE Condor!SubmitFails
    BY <1>a, <2>2 DEF Condor!SubmitFails
  <2>. QED
    BY <1>2, <2>1, <2>2
    DEF Submits, Condor!PreparedAll, Condor!Submitted, Condor!SubmittedAll
<1>3. CASE StoresOrNot
  BY <1>3, <1>a
  DEF StoresOrNot, Condor!Stores, Condor!Settled, Condor!BuildRaises,
      Condor!RecordingEscapes, Condor!Leaves, Condor!RecordingCaught,
      Condor!Swallows, Condor!Swept
<1>4. CASE \/ Condor!Round \/ Condor!LoopEnds \/ Condor!StaysPending
           \/ Condor!ReadRaises
  BY <1>4
  DEF Condor!Round, Condor!LoopEnds, Condor!StaysPending,
      Condor!ReadRaises, Condor!stepVars
<1>5. CASE Condor!RemoveFails
  BY <1>5, <1>a DEF Condor!RemoveFails
<1>6. CASE Condor!Exhausted
  BY <1>0, <1>6, <1>a DEF Condor!Exhausted, SeenInv
<1>7. CASE Condor!Collects
  <2>1. /\ At \in Candidates
        /\ UNCHANGED <<todo, cluster, known, stale, stopping>>
    BY <1>0, <1>7 DEF Condor!Collects, SetsOK
  <2>2. CASE verdict' = "done"
    BY <1>0, <1>7, <1>a, <2>1, <2>2
    DEF Condor!Collects, ClusterInv, Condor!Queued
  <2>3. CASE verdict' = "error"
    <3>1. CASE seen = "held"
      BY <1>0, <1>7, <1>a, <2>1, <2>3, <3>1
      DEF Condor!Collects, SeenInv, StepInv
    <3>2. CASE seen # "held"
      BY <1>0, <1>7, <1>a, <2>1, <3>2
      DEF Condor!Collects, SeenInv, ClusterInv, Condor!Queued, ScalarsOK
    <3>. QED
      BY <3>1, <3>2
  <2>. QED
    BY <1>7, <2>2, <2>3 DEF Condor!Collects
<1>8. CASE Looks
  <2>1. CASE Condor!Removed
    BY <1>0, <1>a, <2>1
    DEF Condor!Removed, Condor!Goes, SetsOK, TablesOK
  <2>2. CASE Condor!Resets
    BY <1>a, <2>2 DEF Condor!Resets, Condor!Retrying
  <2>. QED
    BY <1>8, <2>1, <2>2
    DEF Looks, Condor!ReadsLog, Condor!ReadsOutputs, Condor!Expires,
        Condor!Queries, Condor!SweepsLate, Condor!Goes
<1>9. CASE Outside
  <2>1. UNCHANGED <<todo, step, cluster, known, stale, stopping, trouble,
                    verdict>>
    BY <1>9, OutsideChanges
  <2>. QED
    BY <1>0, <1>a, <2>1 DEF StrayInv, Condor!Queued
<1>. QED
  BY <1>1, <1>2, <1>3, <1>4, <1>5, <1>6, <1>7, <1>8, <1>9, LookOrDecide

\* Every cluster that a row leaves in the queue is accounted for, after every
\* step too.
LEMMA StrayInvStep ==
  Inv /\ [Next]_vars => StrayInv'
<1> SUFFICES ASSUME Inv, [Next]_vars
             PROVE  StrayInv'
  OBVIOUS
<1>0. /\ PhaseInv /\ StepInv /\ SetsOK /\ TablesOK /\ ClusterInv
      /\ ClusterInv' /\ TypeOK /\ LeftInv /\ StrayInv
      /\ todo # {} => At \in todo /\ At \in Candidates
  BY CondorTypes, AtIn, ClusterInvStep DEF Inv
<1>2. CASE UNCHANGED <<mode, condorVars>> /\ mode = "local"
  <2>1. \A i \in Candidates : cluster'[i] = "none"
    BY <1>0, <1>2 DEF ClusterInv
  <2>2. step' # "store"
    BY <1>0, <1>2 DEF condorVars, PhaseInv
  <2>. QED
    BY <2>1, <2>2 DEF StrayInv, Condor!Queued
<1>3. CASE UNCHANGED <<mode, condorVars>> /\ UNCHANGED <<rows, outcome>>
  <2>1. At' = At
    BY <1>3, AtStays DEF condorVars
  <2>. QED
    BY <1>0, <1>3, <2>1 DEF condorVars, StrayInv, Condor!Queued
<1>4. CASE mode = "distributed" /\ UNCHANGED mode /\ Condor!Next
  <2>1. ASSUME NEW i \in Candidates, rows'[i] # NoRow,
               cluster'[i] \in {"queued", "held"}
        PROVE  \/ notes'[i] # "none" \/ ~known'[i] \/ stale'[i]
               \/ stopping' /\ cluster'[i] = "held" /\ rows'[i] = "error"
    <3>1. CASE /\ i = At /\ step = "store"
               /\ rows'[i] = verdict /\ notes'[i] = trouble
               /\ UNCHANGED <<stopping, known, stale, cluster>>
      BY <1>0, <2>1, <3>1 DEF StrayInv, Condor!Queued
    <3>2. CASE rows'[i] = rows[i] /\ notes'[i] = notes[i]
      <4>1. /\ cluster'[i] = cluster[i] /\ known'[i] = known[i]
            /\ stale'[i] = stale[i]
        <5>1. CASE UNCHANGED <<cluster, known, outputs, stale>>
          BY <5>1
        <5>2. ASSUME \/ Condor!Submitted \/ Condor!SubmitFails
                     \/ Condor!Removed \/ Condor!RemoveFails
                     \/ Condor!Resets \/ Condor!Stores \/ Condor!Swallows
                     \/ \E j \in Candidates :
                          \/ Condor!Exits(j) \/ Condor!EndLogged(j)
                          \/ Condor!IsHeld(j) \/ Condor!RemovedByHand(j)
                          \/ Condor!LimitPasses(j) \/ Condor!Evicted(j)
              PROVE  i # At /\ At \in Candidates
          <6>1. /\ phase \in {"submit", "poll", "sweep"} /\ todo # {}
            <7>1. CASE Condor!Submitted \/ Condor!SubmitFails
              BY <1>0, <7>1
              DEF Condor!Submitted, Condor!SubmitFails, Condor!Submitting,
                  SetsOK
            <7>2. CASE \/ Condor!Removed \/ Condor!RemoveFails
                       \/ Condor!Resets
              BY <1>0, <7>2, CondorTypes
              DEF Condor!Removed, Condor!RemoveFails, Condor!Resets,
                  StepInv, PhaseInv, SetsOK, ScalarsOK
            <7>3. CASE Condor!Stores \/ Condor!Swallows
              BY <1>0, <7>3
              DEF Condor!Stores, Condor!Swallows, Condor!Storing, SetsOK
            <7>. QED
              BY <1>0, <5>2, <7>1, <7>2, <7>3, QueueSteps
          <6>2. rows[At] = NoRow /\ At \in Candidates
            BY <1>0, <6>1 DEF LeftInv
          <6>. QED
            BY <2>1, <3>2, <6>2
        <5>. QED
          BY <1>4, <5>1, <5>2, NoClusterChanges, ClusterChanges, OneCluster
          DEF At
      <4>2. stopping => stopping'
        BY <1>4, StoppingStays
      <4>. QED
        BY <1>0, <2>1, <3>2, <4>1, <4>2 DEF StrayInv, Condor!Queued
    <3>. QED
      BY <1>4, <3>1, <3>2, RowsAndNotes
  <2>2. ASSUME step' = "store", cluster'[At'] \in {"queued", "held"}
        PROVE  \/ trouble' # "none" \/ ~known'[At'] \/ stale'[At']
               \/ stopping' /\ cluster'[At'] = "held" /\ verdict' = "error"
    BY <1>4, <2>2, DecidedCluster
  <2>. QED
    BY <2>1, <2>2 DEF StrayInv, Condor!Queued
<1>. QED
  BY <1>2, <1>3, <1>4, CondorSteady

-----------------------------------------------------------------------------
(* The theorems.                                                            *)

\* The strengthened invariant holds of every state of every batch, in either
\* mode.
THEOREM Invariance == Spec => []Inv
<1>1. Init => Inv
  <2> SUFFICES ASSUME Init
               PROVE  Inv
    OBVIOUS
  <2>. USE SameNames
       DEF Init, AnswersInit, Condor!CondorInit, Local!LocalInit
  <2>1. /\ mode \in {"local", "distributed"}
        /\ MaxWorkers \in Nat /\ MaxWorkers >= 1 /\ MaxFaults \in Nat
        /\ Retries \in Nat
    BY JobsAssumption, AnswersAssumption
  <2>2. Local!TypeOK
    <3>1. Local!Cardinality({i \in Local!Candidates : Local!InThread(i)})
            <= workers
      <4>1. {i \in Local!Candidates : Local!InThread(i)} = {}
        BY DEF Local!InThread
      <4>2. Cardinality({i \in Local!Candidates : Local!InThread(i)}) = 0
        BY <4>1, FS_EmptySet, Zenon
      <4>3. Local!Cardinality({i \in Local!Candidates : Local!InThread(i)})
              = 0
        BY <4>2, SameCount, Zenon
      <4>. QED
        BY <4>3
    <3>2. workers \in 1..MaxWorkers /\ faults \in 0..MaxFaults
      BY <2>1
    <3>3. \A i \in Candidates : ~Local!Settled(i)
      BY DEF Local!Settled
    <3>. QED
      BY <3>1, <3>2, <3>3 DEF Local!TypeOK, Local!AnswersTypeOK
  <2>3. Condor!TypeOK
    <3>1. /\ [r \in Resources |-> 0] \in [Resources -> 0..Retries]
          /\ faults \in 0..MaxFaults
      BY <2>1
    <3>2. ScalarsOK /\ SetsOK
      BY DEF ScalarsOK, SetsOK
    <3>3. TablesOK
      <4>. DEFINE none == [r \in Resources |-> 0]
      <4>1. retried = [i \in Candidates |-> none]
            /\ none \in [Resources -> 0..Retries]
        BY <3>1
      <4>. HIDE DEF none
      <4>. QED
        BY <4>1 DEF TablesOK
    <3>. QED
      BY <3>1, <3>2, <3>3
      DEF Condor!TypeOK, Condor!AnswersTypeOK, ScalarsOK, SetsOK, TablesOK
  <2>4. MainInv /\ TaskInv /\ TurnInv
    BY DEF MainInv, TaskInv, TurnInv, Open, Local!InThread
  <2>5. PhaseInv /\ LeftInv /\ StepInv /\ SeenInv
    BY DEF PhaseInv, LeftInv, StepInv, SeenInv
  <2>6. ClusterInv /\ StrayInv
    BY DEF ClusterInv, StrayInv, Condor!Queued
  <2>7. ReturnInv
    BY DEF ReturnInv
  <2>. QED
    BY <2>2, <2>3, <2>4, <2>5, <2>6, <2>7 DEF Inv, TypeOK
<1>2. Inv /\ [Next]_vars => Inv'
  BY TypeStep, MainInvStep, TaskInvStep, TurnInvStep, PhaseInvStep,
     LeftInvStep, StepInvStep, SeenInvStep, ClusterInvStep, StrayInvStep,
     ReturnInvStep
  DEF Inv
<1>. QED
  BY <1>1, <1>2, PTL DEF Spec

\* Every variable keeps its type.
THEOREM TypeCorrect == Spec => []TypeOK
<1>1. Inv => TypeOK
  BY DEF Inv
<1>. QED
  BY <1>1, Invariance, PTL

\* A candidate is submitted again only while it is unanswered, and when its
\* earlier cluster is out of the queue.
THEOREM NoTwoClusters == Spec => []RetriesAreFresh
<1>1. Inv => RetriesAreFresh
  <2> SUFFICES ASSUME Inv, step = "resubmit"
               PROVE  /\ rows[Condor!At] = NoRow /\ Condor!At \in pending
                      /\ ~Condor!Queued(Condor!At)
                      /\ cluster[Condor!At] # "leaving"
    BY DEF RetriesAreFresh, Condor!RetriesAreFresh
  <2>1. /\ TypeOK /\ StepInv /\ SeenInv /\ LeftInv /\ SetsOK
    BY CondorTypes DEF Inv
  <2>2. phase = "poll" /\ At \in todo /\ At = Condor!At
    BY <2>1, AtIn DEF StepInv, SetsOK, At
  <2>. QED
    BY <2>1, <2>2 DEF SeenInv, LeftInv, Condor!Queued
<1>. QED
  BY <1>1, Invariance, PTL

\* When a batch returns with a cluster still in the queue, its row says why,
\* or it is one of the cases that the runner cannot tell.
THEOREM NoSilentStrays == Spec => []StraysAreReported
<1>1. Inv => StraysAreReported
  BY SameNames
  DEF Inv, ReturnInv, StrayInv, StraysAreReported, Condor!StraysAreReported
<1>. QED
  BY <1>1, Invariance, PTL

\* When a local batch has ended, no thread of it is at work; and no workflow
\* process of it runs on, nor a descendant that holds its pipes, but that of a
\* candidate answered "error" because the monitor could not be started or the
\* termination raised.
THEOREM NothingLeftBehind == Spec => []NothingRunsOn
<1>1. Inv => NothingRunsOn
  <2> SUFFICES ASSUME Inv, outcome \in {"returned", "failed"},
                      NEW i \in Candidates
               PROVE  /\ ~Local!InThread(i)
                      /\ proc[i] = "alive" \/ held[i] =>
                           i \in orphans /\ answer[i] = "error"
    BY SameNames DEF NothingRunsOn, Local!NothingRunsOn
  <2>1. main \in {"idle", "over"}
    BY JobsAssumption DEF Inv, TypeOK, Local!TypeOK, MainInv
  <2>2. ~Local!InThread(i)
    BY <2>1 DEF Inv, MainInv, Local!InThread
  <2>. QED
    BY <2>2 DEF Inv, TaskInv, Local!InThread
<1>. QED
  BY <1>1, Invariance, PTL

\* Either mode keeps the promise of Batch: one answer for each candidate, a
\* return only with all of them, and no answers after a failure.
THEOREM KeepsPromise == Spec => AnswersOnce
<1>1. Init => Promise!Init
  BY DEF Init, AnswersInit, Promise!Init
<1>2. Inv /\ [Next]_vars => [Promise!Next]_(Promise!vars)
  BY PromiseStep
<1>. QED
  BY <1>1, <1>2, Invariance, PTL DEF Spec, AnswersOnce, Promise!Spec

=============================================================================
