------------------------- MODULE WorkspaceInvariant -------------------------
(***************************************************************************)
(* The strengthening that makes the safety properties of Workspace         *)
(* inductive: who may have the lock, what a run knows of what it read, and *)
(* what stands in the files between the writes of a generation's exit.     *)
(***************************************************************************)
EXTENDS Workspace

Passive == {"idle"} \cup Clearing

\* Every run command has a number and a program of its own.
RunInv ==
  /\ \A p \in Processes : pc[p] \in Passive => command[p] = NoCommand
  /\ \A p \in Processes : pc[p] \notin Passive =>
       command[p].run \in 1..runs /\ command[p].signature \in Signatures
  /\ \A p, q \in Processes :
       command[p].run = command[q].run => p = q \/ command[p].run = 0

\* An open session has the lock, and clearing beside it is what overlapped says.
LockInv ==
  /\ \A p \in Processes : pc[p] \in InSession => lock = p
  /\ \A p, q \in Processes :
       pc[p] \in InSession /\ pc[q] \in Clearing => overlapped

\* What a run read still holds while the run is not outdated. As nobody else
\* records during its session, its index stays its own to the end.
ReadInv ==
  \A p \in Processes : command[p].run \notin outdated =>
    /\ pc[p] \in {"activating", "locking"} => MayStart(p)
    /\ pc[p] \in BeforeLock \cup InSession =>
         \A m \in metadata : m.run = command[p].run \/ m.index < index[p]

\* The writes of a generation's exit: evidence, then metadata, then pointer.
AtExit(p) ==
  /\ pc[p] \in {"recording", "pointing"} => Flushed(p)
  /\ pc[p] \in InSession /\ work[p] = "durable" /\ ~overlapped =>
       [run |-> command[p].run, generation |-> next[p]] \in evidence
  /\ pc[p] = "pointing" /\ ~overlapped => Event(p) \in metadata
  /\ pc[p] = "finishing" /\ ~overlapped => completion = Pointer(p)
  /\ work[p] # "none" => pc[p] \in InGeneration \cup {"closing"}
  /\ pc[p] \in InGeneration \/ work[p] # "none" => next[p] \in Generations
  /\ pc[p] \in InSession => next[p] >= command[p].start

ExitInv == \A p \in Processes : AtExit(p)

\* A clear command is past the pointer's directory only when the pointer is gone.
ClearInv ==
  \A p \in Processes :
    pc[p] \in {"clearSegments", "clearMetadata"} /\ ~overlapped => completion = NoCompletion

\* Where a run goes on, seen from the pointer.
ResumeInv ==
  \A p \in Processes :
    /\ pc[p] \in (InGeneration \ {"finishing"}) \cup {"between"}
    /\ command[p].run \notin outdated /\ ~overlapped
    /\ completion # NoCompletion /\ completion.signature = command[p].signature
    => next[p] = completion.generation + 1

Inv ==
  /\ TypeOK /\ RunInv /\ LockInv /\ ReadInv /\ ExitInv /\ ClearInv /\ ResumeInv
  /\ PointerIsBacked /\ PointerFollowsRun /\ IndexIsOwn
=============================================================================
