------------------------------ MODULE Workspace ------------------------------
(***************************************************************************)
(* The commands that share one workspace directory: optimization runs      *)
(* (optimize/program.py, state.py, runner.py) and the clearing of history  *)
(* (tools/history.py), each in a process of its own, with the campaign     *)
(* lock between them. Processes are lost at any moment; what is in the     *)
(* files stays, and a later command resumes from it.                       *)
(*                                                                         *)
(* A generation's evidence is one item, admitted and then durable or lost; *)
(* Recorder has the inside of that, Campaign the inside of a generation.   *)
(***************************************************************************)
EXTENDS Integers

CONSTANTS
  Processes,
  Signatures,      \* semantic signatures of programs
  NoSignature,     \* active.json does not exist
  NoCompletion,    \* program-completion.json does not exist
  NoProcess,       \* nobody holds campaign.lock
  LastGeneration,  \* bound of the model: highest generation index asked for
  MaxRuns,         \* bound of the model: run commands given
  MaxClears        \* bound of the model: clear commands given

Generations == 0..LastGeneration
Completions == [signature : Signatures, generation : Generations]

ASSUME WorkspaceAssumption ==
  /\ LastGeneration \in Nat /\ MaxRuns \in Nat /\ MaxClears \in Nat
  /\ NoSignature \notin Signatures
  /\ NoCompletion \notin Completions
  /\ NoProcess \notin Processes

VARIABLES
  active,      \* .yadof/optimization/active.json
  completion,  \* .yadof/optimization/program-completion.json
  metadata,    \* the events of recorded generations
  evidence,    \* the generations of a run that have segments
  lock,        \* the process that holds campaign.lock
  pc,          \* where the command of a process is
  command,     \* what its run command was asked to do
  index,       \* the optimization index the run found
  next,        \* _next_generation
  work,        \* the evidence of its generation
  runs,        \* run commands given so far
  clears,      \* clear commands given so far
  outdated,    \* history: runs whose readings changed before they had the lock
  overlapped   \* history: a session opened while a clear was going on

files == <<active, completion, metadata, evidence>>
runVars == <<command, index, next, work>>
counts == <<runs, clears>>
history == <<outdated, overlapped>>
vars == <<files, lock, pc, runVars, counts, history>>

\* A run has read the files and has no lock yet.
BeforeLock == {"entering", "activating", "locking"}
\* A generation scope is entered; the last four are its __exit__.
InGeneration == {"body", "flushing", "recording", "pointing", "finishing"}
InSession == InGeneration \cup {"between", "closing"}
Clearing == {"clearState", "clearSegments", "clearMetadata"}

NoCommand == [run |-> 0, signature |-> NoSignature, start |-> 0]

Goto(p, l) == pc' = [pc EXCEPT ![p] = l]

\* The command of p is over and what it kept in memory is gone.
Over(p) ==
  /\ Goto(p, "idle")
  /\ command' = [command EXCEPT ![p] = NoCommand]
  /\ index' = [index EXCEPT ![p] = 0]
  /\ next' = [next EXCEPT ![p] = 0]
  /\ work' = [work EXCEPT ![p] = "none"]

\* The runs that have read what process p is now changing.
Outrun(p) == {command[q].run : q \in {r \in Processes \ {p} : pc[r] \in BeforeLock}}

-----------------------------------------------------------------------------
(* Entering a run.                                                          *)

StartRun(p) ==
  /\ pc[p] = "idle" /\ runs < MaxRuns
  /\ \E s \in Signatures, a \in Generations :
       command' = [command EXCEPT ![p] =
                     [run |-> runs + 1, signature |-> s, start |-> a]]
  /\ runs' = runs + 1
  /\ Goto(p, "indexing")
  /\ UNCHANGED <<files, lock, index, next, work, clears, history>>

\* Mutation: the last index is used again.
IsLastIndex(i) ==
  /\ \A m \in metadata : m.index <= i
  /\ i = 0 \/ \E m \in metadata : m.index = i

\* next_optimization_index: one more than any recorded, or 0.
IsNextIndex(i) ==
  /\ \A m \in metadata : m.index < i
  /\ i = 0 \/ \E m \in metadata : m.index + 1 = i

ReadIndex(p) ==
  /\ pc[p] = "indexing"
  /\ \E i \in 0..MaxRuns : IsNextIndex(i) /\ index' = [index EXCEPT ![p] = i]
  /\ Goto(p, "entering")
  /\ UNCHANGED <<files, lock, command, next, work, counts, history>>

\* Mutation: the last completed generation may be run again.
MayRepeat(p) ==
  completion # NoCompletion /\ completion.signature = command[p].signature =>
    command[p].start \in {completion.generation, completion.generation + 1}

\* A pointer of the run's own program makes it start at the next incomplete
\* generation; the pointer of another program says nothing.
MayStart(p) ==
  completion # NoCompletion /\ completion.signature = command[p].signature =>
    command[p].start = completion.generation + 1

EnterRun(p) ==
  /\ pc[p] = "entering" /\ MayStart(p)
  /\ Goto(p, "activating")
  /\ UNCHANGED <<files, lock, runVars, counts, history>>

RefuseRun(p) ==
  /\ pc[p] = "entering" /\ ~MayStart(p)
  /\ Over(p)
  /\ UNCHANGED <<files, lock, counts, history>>

\* activate_strategy_state: before the lock is asked for.
Activate(p) ==
  /\ pc[p] = "activating"
  /\ active' = command[p].signature
  /\ Goto(p, "locking")
  /\ UNCHANGED <<completion, metadata, evidence, lock, runVars, counts, history>>

\* Mutation: the lock keeps nobody out.
LockOpen == TRUE

LockFree == lock = NoProcess

OpenSession(p) ==
  /\ pc[p] = "locking" /\ LockFree
  /\ lock' = p
  /\ next' = [next EXCEPT ![p] = command[p].start]
  /\ overlapped' = (overlapped \/ \E q \in Processes : pc[q] \in Clearing)
  /\ Goto(p, "between")
  /\ UNCHANGED <<files, command, index, work, counts, outdated>>

\* CampaignActiveError.
LockRefused(p) ==
  /\ pc[p] = "locking" /\ ~LockFree
  /\ Over(p)
  /\ UNCHANGED <<files, lock, counts, history>>

\* The catalog cannot be read: the constructor raises with the lock taken, and
\* nobody is left to release it but the end of the process.
OpenRaises(p) ==
  /\ pc[p] = "locking" /\ LockFree
  /\ lock' = p
  /\ Over(p)
  /\ UNCHANGED <<files, counts, history>>

-----------------------------------------------------------------------------
(* The generations of a run. How many were asked for is not kept: the run   *)
(* may be left between any two.                                             *)

\* Mutation: one generation too many.
HasOneMore(p) == next[p] <= LastGeneration + 1

\* generation() accepts the next index while it is within the range.
HasNext(p) == next[p] <= LastGeneration

BeginGeneration(p) ==
  /\ pc[p] = "between" /\ HasNext(p)
  /\ Goto(p, "body")
  /\ UNCHANGED <<files, lock, runVars, counts, history>>

\* The program returns, has no generation left or is told that all costs are
\* infinite.
LeaveRun(p) ==
  /\ pc[p] = "between"
  /\ Goto(p, "closing")
  /\ UNCHANGED <<files, lock, runVars, counts, history>>

Evaluate(p) ==
  /\ pc[p] = "body" /\ work[p] = "none"
  /\ work' = [work EXCEPT ![p] = "pending"]
  /\ UNCHANGED <<files, lock, pc, command, index, next, counts, history>>

\* The writer's thread, whatever the run is doing.
WriterPublishes(p) ==
  /\ pc[p] \in InSession /\ work[p] = "pending"
  /\ work' = [work EXCEPT ![p] = "durable"]
  /\ evidence' = evidence \cup {[run |-> command[p].run, generation |-> next[p]]}
  /\ UNCHANGED <<active, completion, metadata, lock, pc, command, index, next,
                 counts, history>>

WriterFails(p) ==
  /\ pc[p] \in InSession /\ work[p] = "pending"
  /\ work' = [work EXCEPT ![p] = "lost"]
  /\ UNCHANGED <<files, lock, pc, command, index, next, counts, history>>

\* The body returned with a committed result and no open evaluation handle.
BodyReturns(p) ==
  /\ pc[p] = "body"
  /\ Goto(p, "flushing")
  /\ UNCHANGED <<files, lock, runVars, counts, history>>

\* Mutation: the writer's failure is not looked at.
FlushSees(p) == work[p] # "pending"

\* Nothing is unpublished and the writer did not fail.
Flushed(p) == work[p] \in {"none", "durable"}

FlushBoundary(p) ==
  /\ pc[p] = "flushing" /\ Flushed(p)
  /\ Goto(p, "recording")
  /\ UNCHANGED <<files, lock, runVars, counts, history>>

Event(p) ==
  [run |-> command[p].run, signature |-> command[p].signature,
   generation |-> next[p], index |-> index[p], jobs |-> work[p] # "none"]

RecordMetadata(p) ==
  /\ pc[p] = "recording"
  /\ metadata' = metadata \cup {Event(p)}
  /\ outdated' = outdated \cup Outrun(p)
  /\ Goto(p, "pointing")
  /\ UNCHANGED <<active, completion, evidence, lock, runVars, counts, overlapped>>

Pointer(p) == [signature |-> command[p].signature, generation |-> next[p]]

WriteCompletion(p) ==
  /\ pc[p] = "pointing"
  /\ completion' = Pointer(p)
  /\ outdated' = outdated \cup Outrun(p)
  /\ Goto(p, "finishing")
  /\ UNCHANGED <<active, metadata, evidence, lock, runVars, counts, overlapped>>

GenerationFinished(p) ==
  /\ pc[p] = "finishing"
  /\ next' = [next EXCEPT ![p] = next[p] + 1]
  /\ work' = [work EXCEPT ![p] = "none"]
  /\ Goto(p, "between")
  /\ UNCHANGED <<files, lock, command, index, counts, history>>

\* Anything from the entry to the end of a generation raises: the body, an
\* open handle, the flush, the metadata, the pointer, an interrupt. The run
\* accepts no further generation.
GenerationFails(p) ==
  /\ pc[p] \in InGeneration
  /\ Goto(p, "closing")
  /\ UNCHANGED <<files, lock, runVars, counts, history>>

\* close drains the writer and releases the lock.
CloseSession(p) ==
  /\ pc[p] = "closing" /\ work[p] # "pending"
  /\ lock' = NoProcess
  /\ Over(p)
  /\ UNCHANGED <<files, counts, history>>

\* The process ends, between two steps of its command or after it: the
\* operating system drops its lock.
ProcessEnds(p) ==
  /\ pc[p] # "idle" \/ lock = p
  /\ lock' = IF lock = p THEN NoProcess ELSE lock
  /\ Over(p)
  /\ UNCHANGED <<files, counts, history>>

-----------------------------------------------------------------------------
(* Clearing the history.                                                    *)

\* assert_campaign_inactive takes the lock and gives it back at once.
StartClear(p) ==
  /\ pc[p] = "idle" /\ clears < MaxClears /\ LockFree
  /\ clears' = clears + 1
  /\ Goto(p, "clearState")
  /\ UNCHANGED <<files, lock, runVars, runs, history>>

RemoveActive(p) ==
  /\ pc[p] = "clearState" /\ active # NoSignature
  /\ active' = NoSignature
  /\ UNCHANGED <<completion, metadata, evidence, lock, pc, runVars, counts, history>>

RemoveCompletion(p) ==
  /\ pc[p] = "clearState" /\ completion # NoCompletion
  /\ completion' = NoCompletion
  /\ outdated' = outdated \cup Outrun(p)
  /\ UNCHANGED <<active, metadata, evidence, lock, pc, runVars, counts, overlapped>>

StateRemoved == active = NoSignature /\ completion = NoCompletion

StateGone(p) ==
  /\ pc[p] = "clearState" /\ StateRemoved
  /\ Goto(p, "clearSegments")
  /\ UNCHANGED <<files, lock, runVars, counts, history>>

RemoveSegment(p) ==
  /\ pc[p] = "clearSegments"
  /\ \E e \in evidence : evidence' = evidence \ {e}
  /\ UNCHANGED <<active, completion, metadata, lock, pc, runVars, counts, history>>

SegmentsGone(p) ==
  /\ pc[p] = "clearSegments" /\ evidence = {}
  /\ Goto(p, "clearMetadata")
  /\ UNCHANGED <<files, lock, runVars, counts, history>>

RemoveEvent(p) ==
  /\ pc[p] = "clearMetadata"
  /\ \E m \in metadata : metadata' = metadata \ {m}
  /\ outdated' = outdated \cup Outrun(p)
  /\ UNCHANGED <<active, completion, evidence, lock, pc, runVars, counts, overlapped>>

MetadataGone(p) ==
  /\ pc[p] = "clearMetadata" /\ metadata = {}
  /\ Goto(p, "idle")
  /\ UNCHANGED <<files, lock, runVars, counts, history>>

-----------------------------------------------------------------------------
Init ==
  /\ active = NoSignature /\ completion = NoCompletion
  /\ metadata = {} /\ evidence = {}
  /\ lock = NoProcess
  /\ pc = [p \in Processes |-> "idle"]
  /\ command = [p \in Processes |-> NoCommand]
  /\ index = [p \in Processes |-> 0]
  /\ next = [p \in Processes |-> 0]
  /\ work = [p \in Processes |-> "none"]
  /\ runs = 0 /\ clears = 0
  /\ outdated = {} /\ overlapped = FALSE

Enters(p) ==
  \/ StartRun(p) \/ ReadIndex(p) \/ EnterRun(p) \/ RefuseRun(p)
  \/ Activate(p) \/ OpenSession(p) \/ LockRefused(p) \/ OpenRaises(p)

Runs(p) ==
  \/ BeginGeneration(p) \/ LeaveRun(p) \/ Evaluate(p)
  \/ WriterPublishes(p) \/ WriterFails(p)
  \/ BodyReturns(p) \/ FlushBoundary(p) \/ RecordMetadata(p)
  \/ WriteCompletion(p) \/ GenerationFinished(p) \/ GenerationFails(p)
  \/ CloseSession(p) \/ ProcessEnds(p)

Clears(p) ==
  \/ StartClear(p) \/ RemoveActive(p) \/ RemoveCompletion(p) \/ StateGone(p)
  \/ RemoveSegment(p) \/ SegmentsGone(p) \/ RemoveEvent(p) \/ MetadataGone(p)

Next == \E p \in Processes : Enters(p) \/ Runs(p) \/ Clears(p)

Spec == Init /\ [][Next]_vars
-----------------------------------------------------------------------------
(* Properties.                                                              *)

Events == [run : 1..MaxRuns, signature : Signatures, generation : Generations,
           index : 0..MaxRuns, jobs : BOOLEAN]

\* The variables have their types.
TypeOK ==
  /\ active \in Signatures \cup {NoSignature}
  /\ completion \in Completions \cup {NoCompletion}
  /\ metadata \subseteq Events
  /\ evidence \subseteq [run : 1..MaxRuns, generation : Generations]
  /\ lock \in Processes \cup {NoProcess}
  /\ pc \in [Processes -> {"idle", "indexing"} \cup BeforeLock \cup InSession \cup Clearing]
  /\ command \in [Processes -> [run : 0..MaxRuns, start : Generations,
                                signature : Signatures \cup {NoSignature}]]
  /\ index \in [Processes -> 0..MaxRuns]
  /\ next \in [Processes -> 0..LastGeneration + 1]
  /\ work \in [Processes -> {"none", "pending", "durable", "lost"}]
  /\ runs \in 0..MaxRuns /\ clears \in 0..MaxClears
  /\ outdated \subseteq 1..MaxRuns
  /\ overlapped \in BOOLEAN

\* The completion pointer names a generation whose metadata is recorded and
\* whose evidence is durable, whatever crashed between the three writes and
\* however far a clear command got (the order of __exit__ and of
\* clear_history), unless a run was let in beside a clear command.
PointerIsBacked ==
  completion # NoCompletion /\ ~overlapped =>
    \E m \in metadata :
      /\ m.signature = completion.signature
      /\ m.generation = completion.generation
      /\ m.jobs => [run |-> m.run, generation |-> m.generation] \in evidence

\* "A later command with the same semantic signature must start at exactly the
\* next incomplete generation": no run works on a generation that its program
\* completed, or skips one. The check is made before the lock is taken, so it
\* holds of runs whose reading was still true when they got the lock.
ResumesAtNext ==
  \A p \in Processes :
    /\ pc[p] \in InGeneration \ {"finishing"}
    /\ command[p].run \notin outdated /\ ~overlapped
    /\ completion # NoCompletion /\ completion.signature = command[p].signature
    => next[p] = completion.generation + 1

\* Inside a run each generation starts from the boundary of the one before:
\* the pointer is where the run's last completed generation left it, and
\* neither a failing generation nor another command moved it.
PointerFollowsRun ==
  \A p \in Processes :
    /\ pc[p] \in (InGeneration \ {"finishing"}) \cup {"between"}
    /\ next[p] > command[p].start /\ ~overlapped
    => completion = [signature |-> command[p].signature, generation |-> next[p] - 1]

\* Generations with the same optimization index are of one run, as history is
\* replayed in the order of the index; unless one of the two runs found its
\* index in metadata that changed before it had the lock.
IndexIsOwn ==
  \A m, n \in metadata :
    m.index = n.index /\ m.run # n.run => m.run \in outdated \/ n.run \in outdated

\* "One workspace is one active optimization campaign/write domain ... a second
\* campaign fails before it can start ... destructive history clearing must
\* never run against an active campaign; history clear checks the same lock
\* and refuses": while a session is open, its strategy stays the active one,
\* and none of the history and of the completion pointer is removed.
ActiveCampaignIsAlone ==
  [][\A p \in Processes :
       pc[p] \in InSession /\ pc'[p] \in InSession =>
         /\ active' = active
         /\ evidence \subseteq evidence' /\ metadata \subseteq metadata'
         /\ completion # NoCompletion => completion' # NoCompletion]_vars
=============================================================================
