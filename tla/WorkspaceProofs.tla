--------------------------- MODULE WorkspaceProofs ---------------------------
(***************************************************************************)
(* Proofs about Workspace, for any processes, programs, generations and    *)
(* numbers of commands.                                                    *)
(***************************************************************************)
EXTENDS WorkspaceInvariant, TLAPS

-----------------------------------------------------------------------------
(* The steps, conjunct by conjunct.                                         *)

\* The runs a step outdates are runs.
LEMMA OutrunType ==
  ASSUME TypeOK, RunInv, NEW p \in Processes
  PROVE  Outrun(p) \subseteq 1..MaxRuns
<1>1. SUFFICES ASSUME NEW q \in Processes, pc[q] \in BeforeLock
               PROVE command[q].run \in 1..MaxRuns
  BY DEF Outrun
<1>. QED
  BY <1>1, WorkspaceAssumption
  DEF TypeOK, RunInv, BeforeLock, Passive, Clearing

\* Every step keeps the types of files, lock, counters and commands.
LEMMA TypeOKStep ==
  Inv /\ [Next]_vars => TypeOK'
<1> SUFFICES ASSUME Inv, [Next]_vars PROVE TypeOK'
  OBVIOUS
<1>. USE WorkspaceAssumption DEF BeforeLock, InGeneration, InSession, Clearing,
       Passive, Goto, Over, NoCommand, files, runVars, counts, history
<1>0. TypeOK /\ RunInv /\ ExitInv
  BY DEF Inv
<1>1. CASE UNCHANGED vars
  BY <1>0, <1>1 DEF vars, TypeOK
<1>2. ASSUME NEW p \in Processes, Enters(p) \/ Runs(p) \/ Clears(p)
      PROVE  TypeOK'
  <2>1. CASE StartRun(p)
    BY <1>0, <2>1 DEF StartRun, TypeOK
  <2>2. CASE ReadIndex(p)
    BY <1>0, <2>2 DEF ReadIndex, TypeOK
  <2>3. CASE EnterRun(p)
    BY <1>0, <2>3 DEF EnterRun, TypeOK
  <2>4. CASE RefuseRun(p)
    BY <1>0, <2>4 DEF RefuseRun, TypeOK, Generations
  <2>5. CASE Activate(p)
    BY <1>0, <2>5 DEF Activate, TypeOK
  <2>6. CASE OpenSession(p)
    BY <1>0, <2>6 DEF OpenSession, TypeOK, Generations
  <2>7. CASE LockRefused(p)
    BY <1>0, <2>7 DEF LockRefused, TypeOK, Generations
  <2>8. CASE OpenRaises(p)
    BY <1>0, <2>8 DEF OpenRaises, TypeOK, Generations
  <2>9. CASE BeginGeneration(p)
    BY <1>0, <2>9 DEF BeginGeneration, TypeOK
  <2>10. CASE LeaveRun(p)
    BY <1>0, <2>10 DEF LeaveRun, TypeOK
  <2>11. CASE Evaluate(p)
    BY <1>0, <2>11 DEF Evaluate, TypeOK
  <2>12. CASE WriterPublishes(p)
    <3>1. command[p].run \in 1..MaxRuns
      BY <1>0, <2>12 DEF WriterPublishes, TypeOK, RunInv
    <3>2. next[p] \in Generations
      BY <1>0, <2>12 DEF WriterPublishes, ExitInv, AtExit
    <3>3. [run |-> command[p].run, generation |-> next[p]]
            \in [run : 1..MaxRuns, generation : Generations]
      BY <3>1, <3>2
    <3>4. evidence' \subseteq [run : 1..MaxRuns, generation : Generations]
      BY <1>0, <2>12, <3>3, Zenon DEF WriterPublishes, TypeOK
    <3>5. work' \in [Processes -> {"none", "pending", "durable", "lost"}]
      BY <1>0, <2>12 DEF WriterPublishes, TypeOK
    <3>. QED
      BY <1>0, <2>12, <3>4, <3>5 DEF WriterPublishes, TypeOK
  <2>13. CASE WriterFails(p)
    BY <1>0, <2>13 DEF WriterFails, TypeOK
  <2>14. CASE BodyReturns(p)
    BY <1>0, <2>14 DEF BodyReturns, TypeOK
  <2>15. CASE FlushBoundary(p)
    BY <1>0, <2>15 DEF FlushBoundary, TypeOK
  <2>16. CASE RecordMetadata(p)
    <3>1. command[p].run \in 1..MaxRuns /\ command[p].signature \in Signatures
      BY <1>0, <2>16 DEF RecordMetadata, TypeOK, RunInv
    <3>2. next[p] \in Generations /\ index[p] \in 0..MaxRuns
      BY <1>0, <2>16 DEF RecordMetadata, TypeOK, ExitInv, AtExit
    <3>3. Event(p) \in Events
      BY <3>1, <3>2 DEF Event, Events
    <3>4. Outrun(p) \subseteq 1..MaxRuns
      BY <1>0, OutrunType
    <3>5. metadata' \subseteq Events /\ outdated' \subseteq 1..MaxRuns
      BY <1>0, <2>16, <3>3, <3>4, Zenon DEF RecordMetadata, TypeOK
    <3>6. pc' \in [Processes -> {"idle", "indexing"} \cup BeforeLock
                          \cup InSession \cup Clearing]
      BY <1>0, <2>16 DEF RecordMetadata, TypeOK
    <3>. QED
      BY <1>0, <2>16, <3>5, <3>6 DEF RecordMetadata, TypeOK
  <2>17. CASE WriteCompletion(p)
    <3>1. command[p].signature \in Signatures
      BY <1>0, <2>17 DEF WriteCompletion, TypeOK, RunInv
    <3>2. next[p] \in Generations
      BY <1>0, <2>17 DEF WriteCompletion, ExitInv, AtExit
    <3>3. Pointer(p) \in Completions
      BY <3>1, <3>2 DEF Pointer, Completions
    <3>4. Outrun(p) \subseteq 1..MaxRuns
      BY <1>0, OutrunType
    <3>5. completion' \in Completions /\ outdated' \subseteq 1..MaxRuns
      BY <1>0, <2>17, <3>3, <3>4, Zenon DEF WriteCompletion, TypeOK
    <3>6. pc' \in [Processes -> {"idle", "indexing"} \cup BeforeLock
                          \cup InSession \cup Clearing]
      BY <1>0, <2>17 DEF WriteCompletion, TypeOK
    <3>. QED
      BY <1>0, <2>17, <3>5, <3>6 DEF WriteCompletion, TypeOK
  <2>18. CASE GenerationFinished(p)
    <3>1. next[p] \in Generations
      BY <1>0, <2>18 DEF GenerationFinished, ExitInv, AtExit
    <3>2. next[p] + 1 \in 0..LastGeneration + 1
      BY <3>1 DEF Generations
    <3>3. next' \in [Processes -> 0..LastGeneration + 1]
      BY <1>0, <2>18, <3>2 DEF GenerationFinished, TypeOK
    <3>. QED
      BY <1>0, <2>18, <3>3 DEF GenerationFinished, TypeOK
  <2>19. CASE GenerationFails(p)
    BY <1>0, <2>19 DEF GenerationFails, TypeOK
  <2>20. CASE CloseSession(p)
    BY <1>0, <2>20 DEF CloseSession, TypeOK, Generations
  <2>21. CASE ProcessEnds(p)
    BY <1>0, <2>21 DEF ProcessEnds, TypeOK, Generations
  <2>22. CASE StartClear(p)
    BY <1>0, <2>22 DEF StartClear, TypeOK
  <2>23. CASE RemoveActive(p)
    BY <1>0, <2>23 DEF RemoveActive, TypeOK
  <2>24. CASE RemoveCompletion(p)
    <3>1. Outrun(p) \subseteq 1..MaxRuns
      BY <1>0, OutrunType
    <3>. QED
      BY <1>0, <2>24, <3>1 DEF RemoveCompletion, TypeOK
  <2>25. CASE StateGone(p)
    BY <1>0, <2>25 DEF StateGone, TypeOK
  <2>26. CASE RemoveSegment(p)
    BY <1>0, <2>26 DEF RemoveSegment, TypeOK
  <2>27. CASE SegmentsGone(p)
    BY <1>0, <2>27 DEF SegmentsGone, TypeOK
  <2>28. CASE RemoveEvent(p)
    <3>1. Outrun(p) \subseteq 1..MaxRuns
      BY <1>0, OutrunType
    <3>2. metadata' \subseteq metadata
      BY <2>28 DEF RemoveEvent
    <3>. QED
      BY <1>0, <2>28, <3>1, <3>2 DEF RemoveEvent, TypeOK
  <2>29. CASE MetadataGone(p)
    BY <1>0, <2>29 DEF MetadataGone, TypeOK
  <2>. QED
    BY <1>2, <2>1, <2>2, <2>3, <2>4, <2>5, <2>6, <2>7, <2>8, <2>9, <2>10,
       <2>11, <2>12, <2>13, <2>14, <2>15, <2>16, <2>17, <2>18, <2>19, <2>20,
       <2>21, <2>22, <2>23, <2>24, <2>25, <2>26, <2>27, <2>28, <2>29
    DEF Enters, Runs, Clears
<1>. QED
  BY <1>1, <1>2 DEF Next

\* Every step keeps the numbers of the run commands apart and gives a program
\* to every process that is running one.
LEMMA RunInvStep ==
  Inv /\ [Next]_vars => RunInv'
<1> SUFFICES ASSUME Inv, [Next]_vars PROVE RunInv'
  OBVIOUS
<1>. USE WorkspaceAssumption DEF BeforeLock, InGeneration, InSession, Clearing,
       Passive, Goto, Over, NoCommand, files, runVars, counts, history
<1>0. TypeOK /\ RunInv
  BY DEF Inv
<1>1. CASE UNCHANGED vars
  BY <1>0, <1>1 DEF vars, TypeOK, RunInv
<1>2. ASSUME NEW p \in Processes, Enters(p) \/ Runs(p) \/ Clears(p)
      PROVE  RunInv'
  <2>1. CASE StartRun(p)
    BY <1>0, <2>1 DEF StartRun, TypeOK, RunInv
  <2>2. CASE ReadIndex(p)
    BY <1>0, <2>2 DEF ReadIndex, TypeOK, RunInv
  <2>3. CASE EnterRun(p)
    BY <1>0, <2>3 DEF EnterRun, TypeOK, RunInv
  <2>4. CASE RefuseRun(p)
    BY <1>0, <2>4 DEF RefuseRun, TypeOK, RunInv
  <2>5. CASE Activate(p)
    BY <1>0, <2>5 DEF Activate, TypeOK, RunInv
  <2>6. CASE OpenSession(p)
    BY <1>0, <2>6 DEF OpenSession, TypeOK, RunInv
  <2>7. CASE LockRefused(p)
    BY <1>0, <2>7 DEF LockRefused, TypeOK, RunInv
  <2>8. CASE OpenRaises(p)
    BY <1>0, <2>8 DEF OpenRaises, TypeOK, RunInv
  <2>9. CASE BeginGeneration(p)
    BY <1>0, <2>9 DEF BeginGeneration, TypeOK, RunInv
  <2>10. CASE LeaveRun(p)
    BY <1>0, <2>10 DEF LeaveRun, TypeOK, RunInv
  <2>11. CASE Evaluate(p)
    BY <1>0, <2>11 DEF Evaluate, TypeOK, RunInv
  <2>12. CASE WriterPublishes(p)
    BY <1>0, <2>12 DEF WriterPublishes, TypeOK, RunInv
  <2>13. CASE WriterFails(p)
    BY <1>0, <2>13 DEF WriterFails, TypeOK, RunInv
  <2>14. CASE BodyReturns(p)
    BY <1>0, <2>14 DEF BodyReturns, TypeOK, RunInv
  <2>15. CASE FlushBoundary(p)
    BY <1>0, <2>15 DEF FlushBoundary, TypeOK, RunInv
  <2>16. CASE RecordMetadata(p)
    BY <1>0, <2>16 DEF RecordMetadata, TypeOK, RunInv
  <2>17. CASE WriteCompletion(p)
    BY <1>0, <2>17 DEF WriteCompletion, TypeOK, RunInv
  <2>18. CASE GenerationFinished(p)
    BY <1>0, <2>18 DEF GenerationFinished, TypeOK, RunInv
  <2>19. CASE GenerationFails(p)
    BY <1>0, <2>19 DEF GenerationFails, TypeOK, RunInv
  <2>20. CASE CloseSession(p)
    BY <1>0, <2>20 DEF CloseSession, TypeOK, RunInv
  <2>21. CASE ProcessEnds(p)
    BY <1>0, <2>21 DEF ProcessEnds, TypeOK, RunInv
  <2>22. CASE StartClear(p)
    BY <1>0, <2>22 DEF StartClear, TypeOK, RunInv
  <2>23. CASE RemoveActive(p)
    BY <1>0, <2>23 DEF RemoveActive, TypeOK, RunInv
  <2>24. CASE RemoveCompletion(p)
    BY <1>0, <2>24 DEF RemoveCompletion, TypeOK, RunInv
  <2>25. CASE StateGone(p)
    BY <1>0, <2>25 DEF StateGone, TypeOK, RunInv
  <2>26. CASE RemoveSegment(p)
    BY <1>0, <2>26 DEF RemoveSegment, TypeOK, RunInv
  <2>27. CASE SegmentsGone(p)
    BY <1>0, <2>27 DEF SegmentsGone, TypeOK, RunInv
  <2>28. CASE RemoveEvent(p)
    BY <1>0, <2>28 DEF RemoveEvent, TypeOK, RunInv
  <2>29. CASE MetadataGone(p)
    BY <1>0, <2>29 DEF MetadataGone, TypeOK, RunInv
  <2>. QED
    BY <1>2, <2>1, <2>2, <2>3, <2>4, <2>5, <2>6, <2>7, <2>8, <2>9, <2>10,
       <2>11, <2>12, <2>13, <2>14, <2>15, <2>16, <2>17, <2>18, <2>19, <2>20,
       <2>21, <2>22, <2>23, <2>24, <2>25, <2>26, <2>27, <2>28, <2>29
    DEF Enters, Runs, Clears
<1>. QED
  BY <1>1, <1>2 DEF Next

\* Every step keeps the sessions behind the lock, and notes a session that
\* opens beside a clear command.
LEMMA LockInvStep ==
  Inv /\ [Next]_vars => LockInv'
<1> SUFFICES ASSUME Inv, [Next]_vars PROVE LockInv'
  OBVIOUS
<1>. USE WorkspaceAssumption DEF BeforeLock, InGeneration, InSession, Clearing,
       Passive, Goto, Over, NoCommand, files, runVars, counts, history
<1>0. TypeOK /\ LockInv
  BY DEF Inv
<1>1. CASE UNCHANGED vars
  BY <1>0, <1>1 DEF vars, TypeOK, LockInv
<1>2. ASSUME NEW p \in Processes, Enters(p) \/ Runs(p) \/ Clears(p)
      PROVE  LockInv'
  <2>1. CASE StartRun(p)
    BY <1>0, <2>1 DEF StartRun, TypeOK, LockInv
  <2>2. CASE ReadIndex(p)
    BY <1>0, <2>2 DEF ReadIndex, TypeOK, LockInv
  <2>3. CASE EnterRun(p)
    BY <1>0, <2>3 DEF EnterRun, TypeOK, LockInv
  <2>4. CASE RefuseRun(p)
    BY <1>0, <2>4 DEF RefuseRun, TypeOK, LockInv
  <2>5. CASE Activate(p)
    BY <1>0, <2>5 DEF Activate, TypeOK, LockInv
  <2>6. CASE OpenSession(p)
    <3>1. \A q \in Processes : pc[q] \notin InSession
      BY <1>0, <2>6 DEF OpenSession, LockFree, LockInv
    <3>2. pc'[p] = "between" /\ \A q \in Processes \ {p} : pc'[q] = pc[q]
      BY <1>0, <2>6 DEF OpenSession, TypeOK
    <3>3. lock' = p
      BY <2>6 DEF OpenSession
    <3>4. (\E q \in Processes : pc[q] \in Clearing) => overlapped'
      BY <2>6, Zenon DEF OpenSession
    <3>. QED
      BY <3>1, <3>2, <3>3, <3>4 DEF LockInv
  <2>7. CASE LockRefused(p)
    BY <1>0, <2>7 DEF LockRefused, TypeOK, LockInv
  <2>8. CASE OpenRaises(p)
    BY <1>0, <2>8 DEF OpenRaises, LockFree, TypeOK, LockInv
  <2>9. CASE BeginGeneration(p)
    BY <1>0, <2>9 DEF BeginGeneration, TypeOK, LockInv
  <2>10. CASE LeaveRun(p)
    BY <1>0, <2>10 DEF LeaveRun, TypeOK, LockInv
  <2>11. CASE Evaluate(p)
    BY <1>0, <2>11 DEF Evaluate, TypeOK, LockInv
  <2>12. CASE WriterPublishes(p)
    BY <1>0, <2>12 DEF WriterPublishes, TypeOK, LockInv
  <2>13. CASE WriterFails(p)
    BY <1>0, <2>13 DEF WriterFails, TypeOK, LockInv
  <2>14. CASE BodyReturns(p)
    BY <1>0, <2>14 DEF BodyReturns, TypeOK, LockInv
  <2>15. CASE FlushBoundary(p)
    BY <1>0, <2>15 DEF FlushBoundary, TypeOK, LockInv
  <2>16. CASE RecordMetadata(p)
    BY <1>0, <2>16 DEF RecordMetadata, TypeOK, LockInv
  <2>17. CASE WriteCompletion(p)
    BY <1>0, <2>17 DEF WriteCompletion, TypeOK, LockInv
  <2>18. CASE GenerationFinished(p)
    BY <1>0, <2>18 DEF GenerationFinished, TypeOK, LockInv
  <2>19. CASE GenerationFails(p)
    BY <1>0, <2>19 DEF GenerationFails, TypeOK, LockInv
  <2>20. CASE CloseSession(p)
    BY <1>0, <2>20 DEF CloseSession, TypeOK, LockInv
  <2>21. CASE ProcessEnds(p)
    BY <1>0, <2>21 DEF ProcessEnds, TypeOK, LockInv
  <2>22. CASE StartClear(p)
    BY <1>0, <2>22 DEF StartClear, LockFree, TypeOK, LockInv
  <2>23. CASE RemoveActive(p)
    BY <1>0, <2>23 DEF RemoveActive, TypeOK, LockInv
  <2>24. CASE RemoveCompletion(p)
    BY <1>0, <2>24 DEF RemoveCompletion, TypeOK, LockInv
  <2>25. CASE StateGone(p)
    BY <1>0, <2>25 DEF StateGone, TypeOK, LockInv
  <2>26. CASE RemoveSegment(p)
    BY <1>0, <2>26 DEF RemoveSegment, TypeOK, LockInv
  <2>27. CASE SegmentsGone(p)
    BY <1>0, <2>27 DEF SegmentsGone, TypeOK, LockInv
  <2>28. CASE RemoveEvent(p)
    BY <1>0, <2>28 DEF RemoveEvent, TypeOK, LockInv
  <2>29. CASE MetadataGone(p)
    BY <1>0, <2>29 DEF MetadataGone, TypeOK, LockInv
  <2>. QED
    BY <1>2, <2>1, <2>2, <2>3, <2>4, <2>5, <2>6, <2>7, <2>8, <2>9, <2>10,
       <2>11, <2>12, <2>13, <2>14, <2>15, <2>16, <2>17, <2>18, <2>19, <2>20,
       <2>21, <2>22, <2>23, <2>24, <2>25, <2>26, <2>27, <2>28, <2>29
    DEF Enters, Runs, Clears
<1>. QED
  BY <1>1, <1>2 DEF Next

\* Every step keeps what a run has read true, or notes the run as outdated.
LEMMA ReadInvStep ==
  Inv /\ [Next]_vars => ReadInv'
<1> SUFFICES ASSUME Inv, [Next]_vars PROVE ReadInv'
  OBVIOUS
<1>. USE WorkspaceAssumption DEF BeforeLock, InGeneration, InSession, Clearing,
       Passive, Goto, Over, NoCommand, files, runVars, counts, history
<1>0. TypeOK /\ RunInv /\ LockInv /\ ReadInv
  BY DEF Inv
<1>1. CASE UNCHANGED vars
  BY <1>0, <1>1 DEF vars, TypeOK, ReadInv, MayStart
<1>2. ASSUME NEW p \in Processes, Enters(p) \/ Runs(p) \/ Clears(p)
      PROVE  ReadInv'
  <2>1. CASE StartRun(p)
    BY <1>0, <2>1 DEF StartRun, TypeOK, ReadInv, MayStart
  <2>2. CASE ReadIndex(p)
    BY <1>0, <2>2 DEF ReadIndex, IsNextIndex, TypeOK, ReadInv, MayStart
  <2>3. CASE EnterRun(p)
    BY <1>0, <2>3 DEF EnterRun, MayStart, TypeOK, ReadInv
  <2>4. CASE RefuseRun(p)
    BY <1>0, <2>4 DEF RefuseRun, TypeOK, ReadInv, MayStart
  <2>5. CASE Activate(p)
    BY <1>0, <2>5 DEF Activate, TypeOK, ReadInv, MayStart
  <2>6. CASE OpenSession(p)
    BY <1>0, <2>6 DEF OpenSession, TypeOK, ReadInv, MayStart
  <2>7. CASE LockRefused(p)
    BY <1>0, <2>7 DEF LockRefused, TypeOK, ReadInv, MayStart
  <2>8. CASE OpenRaises(p)
    BY <1>0, <2>8 DEF OpenRaises, TypeOK, ReadInv, MayStart
  <2>9. CASE BeginGeneration(p)
    BY <1>0, <2>9 DEF BeginGeneration, TypeOK, ReadInv, MayStart
  <2>10. CASE LeaveRun(p)
    BY <1>0, <2>10 DEF LeaveRun, TypeOK, ReadInv, MayStart
  <2>11. CASE Evaluate(p)
    BY <1>0, <2>11 DEF Evaluate, TypeOK, ReadInv, MayStart
  <2>12. CASE WriterPublishes(p)
    BY <1>0, <2>12 DEF WriterPublishes, TypeOK, ReadInv, MayStart
  <2>13. CASE WriterFails(p)
    BY <1>0, <2>13 DEF WriterFails, TypeOK, ReadInv, MayStart
  <2>14. CASE BodyReturns(p)
    BY <1>0, <2>14 DEF BodyReturns, TypeOK, ReadInv, MayStart
  <2>15. CASE FlushBoundary(p)
    BY <1>0, <2>15 DEF FlushBoundary, TypeOK, ReadInv, MayStart
  <2>16. CASE RecordMetadata(p)
    BY <1>0, <2>16 DEF RecordMetadata, Event, Outrun, TypeOK, LockInv, ReadInv
  <2>17. CASE WriteCompletion(p)
    BY <1>0, <2>17 DEF WriteCompletion, Outrun, TypeOK, ReadInv
  <2>18. CASE GenerationFinished(p)
    BY <1>0, <2>18 DEF GenerationFinished, TypeOK, ReadInv, MayStart
  <2>19. CASE GenerationFails(p)
    BY <1>0, <2>19 DEF GenerationFails, TypeOK, ReadInv, MayStart
  <2>20. CASE CloseSession(p)
    BY <1>0, <2>20 DEF CloseSession, TypeOK, ReadInv, MayStart
  <2>21. CASE ProcessEnds(p)
    BY <1>0, <2>21 DEF ProcessEnds, TypeOK, ReadInv, MayStart
  <2>22. CASE StartClear(p)
    BY <1>0, <2>22 DEF StartClear, TypeOK, ReadInv, MayStart
  <2>23. CASE RemoveActive(p)
    BY <1>0, <2>23 DEF RemoveActive, TypeOK, ReadInv, MayStart
  <2>24. CASE RemoveCompletion(p)
    BY <1>0, <2>24 DEF RemoveCompletion, Outrun, TypeOK, ReadInv
  <2>25. CASE StateGone(p)
    BY <1>0, <2>25 DEF StateGone, TypeOK, ReadInv, MayStart
  <2>26. CASE RemoveSegment(p)
    BY <1>0, <2>26 DEF RemoveSegment, TypeOK, ReadInv, MayStart
  <2>27. CASE SegmentsGone(p)
    BY <1>0, <2>27 DEF SegmentsGone, TypeOK, ReadInv, MayStart
  <2>28. CASE RemoveEvent(p)
    BY <1>0, <2>28 DEF RemoveEvent, Outrun, TypeOK, ReadInv
  <2>29. CASE MetadataGone(p)
    BY <1>0, <2>29 DEF MetadataGone, TypeOK, ReadInv, MayStart
  <2>. QED
    BY <1>2, <2>1, <2>2, <2>3, <2>4, <2>5, <2>6, <2>7, <2>8, <2>9, <2>10,
       <2>11, <2>12, <2>13, <2>14, <2>15, <2>16, <2>17, <2>18, <2>19, <2>20,
       <2>21, <2>22, <2>23, <2>24, <2>25, <2>26, <2>27, <2>28, <2>29
    DEF Enters, Runs, Clears
<1>. QED
  BY <1>1, <1>2 DEF Next

\* Every step keeps evidence, metadata and pointer in the order in which the
\* exit of a generation writes them.
LEMMA ExitInvStep ==
  Inv /\ [Next]_vars => ExitInv'
<1> SUFFICES ASSUME Inv, [Next]_vars PROVE ExitInv'
  OBVIOUS
<1>. USE WorkspaceAssumption DEF BeforeLock, InGeneration, InSession, Clearing,
       Passive, Goto, Over, NoCommand, files, runVars, counts, history
<1>0. TypeOK /\ RunInv /\ LockInv /\ ExitInv
  BY DEF Inv
<1>1. CASE UNCHANGED vars
  BY <1>0, <1>1 DEF vars, TypeOK, ExitInv, AtExit, Flushed, Event, Pointer
<1>2. ASSUME NEW p \in Processes, Enters(p) \/ Runs(p) \/ Clears(p)
      PROVE  ExitInv'
  <2>1. CASE StartRun(p)
    <3>1. \A q \in Processes \ {p} :
            /\ pc'[q] = pc[q] /\ work'[q] = work[q]
            /\ next'[q] = next[q] /\ command'[q] = command[q]
      BY <1>0, <2>1 DEF StartRun, TypeOK
    <3>2. ASSUME NEW q \in Processes \ {p} PROVE AtExit(q)'
      BY <1>0, <2>1, <3>1
      DEF StartRun, ExitInv, AtExit, Flushed, Event, Pointer
    <3>3. pc[p] = "idle" /\ pc'[p] = "indexing" /\ work'[p] = work[p]
      BY <1>0, <2>1 DEF StartRun, TypeOK
    <3>4. AtExit(p)'
      BY <1>0, <3>3 DEF ExitInv, AtExit
    <3>. QED
      BY <3>2, <3>4 DEF ExitInv
  <2>2. CASE ReadIndex(p)
    <3>1. \A q \in Processes \ {p} :
            /\ pc'[q] = pc[q] /\ work'[q] = work[q]
            /\ next'[q] = next[q] /\ command'[q] = command[q]
      BY <1>0, <2>2 DEF ReadIndex, TypeOK
    <3>2. ASSUME NEW q \in Processes \ {p} PROVE AtExit(q)'
      BY <1>0, <2>2, <3>1
      DEF ReadIndex, ExitInv, AtExit, Flushed, Event, Pointer
    <3>3. pc[p] = "indexing" /\ pc'[p] = "entering" /\ work'[p] = work[p]
      BY <1>0, <2>2 DEF ReadIndex, TypeOK
    <3>4. AtExit(p)'
      BY <1>0, <3>3 DEF ExitInv, AtExit
    <3>. QED
      BY <3>2, <3>4 DEF ExitInv
  <2>3. CASE EnterRun(p)
    BY <1>0, <2>3
    DEF EnterRun, TypeOK, ExitInv, AtExit, Flushed, Event, Pointer
  <2>4. CASE RefuseRun(p)
    BY <1>0, <2>4
    DEF RefuseRun, TypeOK, ExitInv, AtExit, Flushed, Event, Pointer
  <2>5. CASE Activate(p)
    BY <1>0, <2>5
    DEF Activate, TypeOK, ExitInv, AtExit, Flushed, Event, Pointer
  <2>6. CASE OpenSession(p)
    <3>1. \A q \in Processes \ {p} :
            /\ pc'[q] = pc[q] /\ work'[q] = work[q]
            /\ next'[q] = next[q] /\ command'[q] = command[q]
      BY <1>0, <2>6 DEF OpenSession, TypeOK
    <3>2. UNCHANGED files /\ UNCHANGED index
      BY <2>6 DEF OpenSession
    <3>3. overlapped => overlapped'
      BY <2>6, Zenon DEF OpenSession
    <3>4. ASSUME NEW q \in Processes \ {p} PROVE AtExit(q)'
      BY <1>0, <3>1, <3>2, <3>3 DEF ExitInv, AtExit, Flushed, Event, Pointer
    <3>5. /\ pc'[p] = "between" /\ work'[p] = work[p]
          /\ next'[p] = command[p].start /\ command'[p] = command[p]
      BY <1>0, <2>6 DEF OpenSession, TypeOK
    <3>6. work[p] = "none"
      BY <1>0, <2>6 DEF OpenSession, ExitInv, AtExit
    <3>7. command[p].start \in Int
      BY <1>0 DEF TypeOK, Generations
    <3>8. AtExit(p)'
      BY <3>5, <3>6, <3>7 DEF AtExit
    <3>. QED
      BY <3>4, <3>8 DEF ExitInv
  <2>7. CASE LockRefused(p)
    BY <1>0, <2>7
    DEF LockRefused, TypeOK, ExitInv, AtExit, Flushed, Event, Pointer
  <2>8. CASE OpenRaises(p)
    BY <1>0, <2>8
    DEF OpenRaises, TypeOK, ExitInv, AtExit, Flushed, Event, Pointer
  <2>9. CASE BeginGeneration(p)
    BY <1>0, <2>9
    DEF BeginGeneration, HasNext, TypeOK, ExitInv, AtExit, Flushed, Event,
        Pointer, Generations
  <2>10. CASE LeaveRun(p)
    BY <1>0, <2>10 DEF LeaveRun, TypeOK, LockInv, ExitInv, AtExit
  <2>11. CASE Evaluate(p)
    <3>1. \A q \in Processes \ {p} :
            /\ pc'[q] = pc[q] /\ work'[q] = work[q]
            /\ next'[q] = next[q] /\ command'[q] = command[q]
      BY <1>0, <2>11 DEF Evaluate, TypeOK
    <3>2. ASSUME NEW q \in Processes \ {p} PROVE AtExit(q)'
      BY <1>0, <2>11, <3>1
      DEF Evaluate, ExitInv, AtExit, Flushed, Event, Pointer
    <3>3. /\ pc'[p] = "body" /\ work'[p] = "pending"
          /\ next'[p] = next[p] /\ command'[p] = command[p]
      BY <1>0, <2>11 DEF Evaluate, TypeOK
    <3>4. /\ pc[p] = "body" /\ next[p] \in Generations
          /\ next[p] >= command[p].start
      BY <1>0, <2>11 DEF Evaluate, ExitInv, AtExit
    <3>5. AtExit(p)'
      BY <3>3, <3>4 DEF AtExit
    <3>. QED
      BY <3>2, <3>5 DEF ExitInv
  <2>12. CASE WriterPublishes(p)
    BY <1>0, <2>12
    DEF WriterPublishes, TypeOK, LockInv, ExitInv, AtExit, Flushed, Pointer
  <2>13. CASE WriterFails(p)
    BY <1>0, <2>13
    DEF WriterFails, TypeOK, LockInv, ExitInv, AtExit, Flushed, Pointer
  <2>14. CASE BodyReturns(p)
    BY <1>0, <2>14 DEF BodyReturns, TypeOK, LockInv, ExitInv, AtExit
  <2>15. CASE FlushBoundary(p)
    BY <1>0, <2>15 DEF FlushBoundary, Flushed, TypeOK, LockInv, ExitInv, AtExit
  <2>16. CASE RecordMetadata(p)
    BY <1>0, <2>16
    DEF RecordMetadata, Event, TypeOK, LockInv, ExitInv, AtExit, Flushed
  <2>17. CASE WriteCompletion(p)
    BY <1>0, <2>17
    DEF WriteCompletion, Pointer, TypeOK, LockInv, ExitInv, AtExit
  <2>18. CASE GenerationFinished(p)
    <3>1. \A q \in Processes \ {p} :
            /\ pc'[q] = pc[q] /\ work'[q] = work[q]
            /\ next'[q] = next[q] /\ command'[q] = command[q]
      BY <1>0, <2>18 DEF GenerationFinished, TypeOK
    <3>2. ASSUME NEW q \in Processes \ {p} PROVE AtExit(q)'
      BY <1>0, <2>18, <3>1
      DEF GenerationFinished, ExitInv, AtExit, Flushed, Event, Pointer
    <3>3. /\ pc'[p] = "between" /\ work'[p] = "none"
          /\ next'[p] = next[p] + 1 /\ command'[p] = command[p]
      BY <1>0, <2>18 DEF GenerationFinished, TypeOK
    <3>4. /\ next[p] \in Generations /\ next[p] >= command[p].start
          /\ command[p].start \in Generations
      BY <1>0, <2>18 DEF GenerationFinished, ExitInv, AtExit, TypeOK
    <3>5. next'[p] >= command'[p].start
      BY <3>3, <3>4 DEF Generations
    <3>6. AtExit(p)'
      BY <3>3, <3>5 DEF AtExit
    <3>. QED
      BY <3>2, <3>6 DEF ExitInv
  <2>19. CASE GenerationFails(p)
    BY <1>0, <2>19 DEF GenerationFails, TypeOK, LockInv, ExitInv, AtExit
  <2>20. CASE CloseSession(p)
    BY <1>0, <2>20
    DEF CloseSession, TypeOK, ExitInv, AtExit, Flushed, Event, Pointer
  <2>21. CASE ProcessEnds(p)
    BY <1>0, <2>21
    DEF ProcessEnds, TypeOK, ExitInv, AtExit, Flushed, Event, Pointer
  <2>22. CASE StartClear(p)
    BY <1>0, <2>22
    DEF StartClear, TypeOK, ExitInv, AtExit, Flushed, Event, Pointer
  <2>23. CASE RemoveActive(p)
    BY <1>0, <2>23 DEF RemoveActive, TypeOK, LockInv, ExitInv, AtExit, Flushed
  <2>24. CASE RemoveCompletion(p)
    BY <1>0, <2>24
    DEF RemoveCompletion, TypeOK, LockInv, ExitInv, AtExit, Flushed
  <2>25. CASE StateGone(p)
    BY <1>0, <2>25 DEF StateGone, TypeOK, LockInv, ExitInv, AtExit, Flushed
  <2>26. CASE RemoveSegment(p)
    BY <1>0, <2>26 DEF RemoveSegment, TypeOK, LockInv, ExitInv, AtExit, Flushed
  <2>27. CASE SegmentsGone(p)
    BY <1>0, <2>27 DEF SegmentsGone, TypeOK, LockInv, ExitInv, AtExit, Flushed
  <2>28. CASE RemoveEvent(p)
    BY <1>0, <2>28 DEF RemoveEvent, TypeOK, LockInv, ExitInv, AtExit, Flushed
  <2>29. CASE MetadataGone(p)
    BY <1>0, <2>29 DEF MetadataGone, TypeOK, LockInv, ExitInv, AtExit, Flushed
  <2>. QED
    BY <1>2, <2>1, <2>2, <2>3, <2>4, <2>5, <2>6, <2>7, <2>8, <2>9, <2>10,
       <2>11, <2>12, <2>13, <2>14, <2>15, <2>16, <2>17, <2>18, <2>19, <2>20,
       <2>21, <2>22, <2>23, <2>24, <2>25, <2>26, <2>27, <2>28, <2>29
    DEF Enters, Runs, Clears
<1>. QED
  BY <1>1, <1>2 DEF Next

\* Every step keeps a clear command behind the removal of the pointer.
LEMMA ClearInvStep ==
  Inv /\ [Next]_vars => ClearInv'
<1> SUFFICES ASSUME Inv, [Next]_vars PROVE ClearInv'
  OBVIOUS
<1>. USE WorkspaceAssumption DEF BeforeLock, InGeneration, InSession, Clearing,
       Passive, Goto, Over, NoCommand, files, runVars, counts, history
<1>0. TypeOK /\ LockInv /\ ClearInv
  BY DEF Inv
<1>1. CASE UNCHANGED vars
  BY <1>0, <1>1 DEF vars, TypeOK, ClearInv
<1>2. ASSUME NEW p \in Processes, Enters(p) \/ Runs(p) \/ Clears(p)
      PROVE  ClearInv'
  <2>1. CASE StartRun(p)
    BY <1>0, <2>1 DEF StartRun, TypeOK, ClearInv
  <2>2. CASE ReadIndex(p)
    BY <1>0, <2>2 DEF ReadIndex, TypeOK, ClearInv
  <2>3. CASE EnterRun(p)
    BY <1>0, <2>3 DEF EnterRun, TypeOK, ClearInv
  <2>4. CASE RefuseRun(p)
    BY <1>0, <2>4 DEF RefuseRun, TypeOK, ClearInv
  <2>5. CASE Activate(p)
    BY <1>0, <2>5 DEF Activate, TypeOK, ClearInv
  <2>6. CASE OpenSession(p)
    BY <1>0, <2>6 DEF OpenSession, TypeOK, ClearInv
  <2>7. CASE LockRefused(p)
    BY <1>0, <2>7 DEF LockRefused, TypeOK, ClearInv
  <2>8. CASE OpenRaises(p)
    BY <1>0, <2>8 DEF OpenRaises, TypeOK, ClearInv
  <2>9. CASE BeginGeneration(p)
    BY <1>0, <2>9 DEF BeginGeneration, TypeOK, ClearInv
  <2>10. CASE LeaveRun(p)
    BY <1>0, <2>10 DEF LeaveRun, TypeOK, ClearInv
  <2>11. CASE Evaluate(p)
    BY <1>0, <2>11 DEF Evaluate, TypeOK, ClearInv
  <2>12. CASE WriterPublishes(p)
    BY <1>0, <2>12 DEF WriterPublishes, TypeOK, ClearInv
  <2>13. CASE WriterFails(p)
    BY <1>0, <2>13 DEF WriterFails, TypeOK, ClearInv
  <2>14. CASE BodyReturns(p)
    BY <1>0, <2>14 DEF BodyReturns, TypeOK, ClearInv
  <2>15. CASE FlushBoundary(p)
    BY <1>0, <2>15 DEF FlushBoundary, TypeOK, ClearInv
  <2>16. CASE RecordMetadata(p)
    BY <1>0, <2>16 DEF RecordMetadata, TypeOK, ClearInv
  <2>17. CASE WriteCompletion(p)
    BY <1>0, <2>17 DEF WriteCompletion, TypeOK, LockInv, ClearInv
  <2>18. CASE GenerationFinished(p)
    BY <1>0, <2>18 DEF GenerationFinished, TypeOK, ClearInv
  <2>19. CASE GenerationFails(p)
    BY <1>0, <2>19 DEF GenerationFails, TypeOK, ClearInv
  <2>20. CASE CloseSession(p)
    BY <1>0, <2>20 DEF CloseSession, TypeOK, ClearInv
  <2>21. CASE ProcessEnds(p)
    BY <1>0, <2>21 DEF ProcessEnds, TypeOK, ClearInv
  <2>22. CASE StartClear(p)
    BY <1>0, <2>22 DEF StartClear, TypeOK, ClearInv
  <2>23. CASE RemoveActive(p)
    BY <1>0, <2>23 DEF RemoveActive, TypeOK, ClearInv
  <2>24. CASE RemoveCompletion(p)
    BY <1>0, <2>24 DEF RemoveCompletion, TypeOK, ClearInv
  <2>25. CASE StateGone(p)
    BY <1>0, <2>25 DEF StateGone, StateRemoved, TypeOK, ClearInv
  <2>26. CASE RemoveSegment(p)
    BY <1>0, <2>26 DEF RemoveSegment, TypeOK, ClearInv
  <2>27. CASE SegmentsGone(p)
    BY <1>0, <2>27 DEF SegmentsGone, TypeOK, ClearInv
  <2>28. CASE RemoveEvent(p)
    BY <1>0, <2>28 DEF RemoveEvent, TypeOK, ClearInv
  <2>29. CASE MetadataGone(p)
    BY <1>0, <2>29 DEF MetadataGone, TypeOK, ClearInv
  <2>. QED
    BY <1>2, <2>1, <2>2, <2>3, <2>4, <2>5, <2>6, <2>7, <2>8, <2>9, <2>10,
       <2>11, <2>12, <2>13, <2>14, <2>15, <2>16, <2>17, <2>18, <2>19, <2>20,
       <2>21, <2>22, <2>23, <2>24, <2>25, <2>26, <2>27, <2>28, <2>29
    DEF Enters, Runs, Clears
<1>. QED
  BY <1>1, <1>2 DEF Next

\* Every step keeps a run that is not outdated one generation ahead of its
\* program's pointer.
LEMMA ResumeInvStep ==
  Inv /\ [Next]_vars => ResumeInv'
<1> SUFFICES ASSUME Inv, [Next]_vars PROVE ResumeInv'
  OBVIOUS
<1>. USE WorkspaceAssumption DEF BeforeLock, InGeneration, InSession, Clearing,
       Passive, Goto, Over, NoCommand, files, runVars, counts, history
<1>0. TypeOK /\ RunInv /\ LockInv /\ ReadInv /\ ExitInv /\ ResumeInv
  BY DEF Inv
<1>1. CASE UNCHANGED vars
  BY <1>0, <1>1 DEF vars, TypeOK, ResumeInv
<1>2. ASSUME NEW p \in Processes, Enters(p) \/ Runs(p) \/ Clears(p)
      PROVE  ResumeInv'
  <2>1. CASE StartRun(p)
    BY <1>0, <2>1 DEF StartRun, TypeOK, ResumeInv
  <2>2. CASE ReadIndex(p)
    BY <1>0, <2>2 DEF ReadIndex, TypeOK, ResumeInv
  <2>3. CASE EnterRun(p)
    BY <1>0, <2>3 DEF EnterRun, TypeOK, ResumeInv
  <2>4. CASE RefuseRun(p)
    BY <1>0, <2>4 DEF RefuseRun, TypeOK, ResumeInv
  <2>5. CASE Activate(p)
    BY <1>0, <2>5 DEF Activate, TypeOK, ResumeInv
  <2>6. CASE OpenSession(p)
    BY <1>0, <2>6 DEF OpenSession, TypeOK, ReadInv, ResumeInv, MayStart
  <2>7. CASE LockRefused(p)
    BY <1>0, <2>7 DEF LockRefused, TypeOK, ResumeInv
  <2>8. CASE OpenRaises(p)
    BY <1>0, <2>8 DEF OpenRaises, TypeOK, ResumeInv
  <2>9. CASE BeginGeneration(p)
    BY <1>0, <2>9 DEF BeginGeneration, TypeOK, ResumeInv
  <2>10. CASE LeaveRun(p)
    BY <1>0, <2>10 DEF LeaveRun, TypeOK, ResumeInv
  <2>11. CASE Evaluate(p)
    BY <1>0, <2>11 DEF Evaluate, TypeOK, ResumeInv
  <2>12. CASE WriterPublishes(p)
    BY <1>0, <2>12 DEF WriterPublishes, TypeOK, ResumeInv
  <2>13. CASE WriterFails(p)
    BY <1>0, <2>13 DEF WriterFails, TypeOK, ResumeInv
  <2>14. CASE BodyReturns(p)
    BY <1>0, <2>14 DEF BodyReturns, TypeOK, ResumeInv
  <2>15. CASE FlushBoundary(p)
    BY <1>0, <2>15 DEF FlushBoundary, TypeOK, ResumeInv
  <2>16. CASE RecordMetadata(p)
    BY <1>0, <2>16 DEF RecordMetadata, TypeOK, ResumeInv
  <2>17. CASE WriteCompletion(p)
    BY <1>0, <2>17 DEF WriteCompletion, TypeOK, LockInv, ResumeInv
  <2>18. CASE GenerationFinished(p)
    <3>1. SUFFICES ASSUME NEW q \in Processes,
                           pc'[q] \in (InGeneration \ {"finishing"})
                                \cup {"between"},
                           command[q].run \notin outdated, ~overlapped,
                           completion # NoCompletion,
                           completion.signature = command[q].signature
                    PROVE next'[q] = completion.generation + 1
      BY <2>18 DEF GenerationFinished, ResumeInv
    <3>2. CASE q = p
      <4>1. completion = Pointer(p)
        BY <1>0, <2>18, <3>1 DEF GenerationFinished, ExitInv, AtExit
      <4>2. next'[p] = next[p] + 1
        BY <1>0, <2>18 DEF GenerationFinished, TypeOK
      <4>. QED
        BY <3>2, <4>1, <4>2 DEF Pointer
    <3>3. CASE q # p
      <4>1. pc'[q] = pc[q] /\ next'[q] = next[q]
        BY <1>0, <2>18, <3>3 DEF GenerationFinished, TypeOK
      <4>. QED
        BY <1>0, <3>1, <4>1 DEF ResumeInv
    <3>. QED
      BY <3>2, <3>3
  <2>19. CASE GenerationFails(p)
    BY <1>0, <2>19 DEF GenerationFails, TypeOK, ResumeInv
  <2>20. CASE CloseSession(p)
    BY <1>0, <2>20 DEF CloseSession, TypeOK, ResumeInv
  <2>21. CASE ProcessEnds(p)
    BY <1>0, <2>21 DEF ProcessEnds, TypeOK, ResumeInv
  <2>22. CASE StartClear(p)
    BY <1>0, <2>22 DEF StartClear, TypeOK, ResumeInv
  <2>23. CASE RemoveActive(p)
    BY <1>0, <2>23 DEF RemoveActive, TypeOK, ResumeInv
  <2>24. CASE RemoveCompletion(p)
    BY <1>0, <2>24 DEF RemoveCompletion, TypeOK, ResumeInv
  <2>25. CASE StateGone(p)
    BY <1>0, <2>25 DEF StateGone, TypeOK, ResumeInv
  <2>26. CASE RemoveSegment(p)
    BY <1>0, <2>26 DEF RemoveSegment, TypeOK, ResumeInv
  <2>27. CASE SegmentsGone(p)
    BY <1>0, <2>27 DEF SegmentsGone, TypeOK, ResumeInv
  <2>28. CASE RemoveEvent(p)
    BY <1>0, <2>28 DEF RemoveEvent, TypeOK, ResumeInv
  <2>29. CASE MetadataGone(p)
    BY <1>0, <2>29 DEF MetadataGone, TypeOK, ResumeInv
  <2>. QED
    BY <1>2, <2>1, <2>2, <2>3, <2>4, <2>5, <2>6, <2>7, <2>8, <2>9, <2>10,
       <2>11, <2>12, <2>13, <2>14, <2>15, <2>16, <2>17, <2>18, <2>19, <2>20,
       <2>21, <2>22, <2>23, <2>24, <2>25, <2>26, <2>27, <2>28, <2>29
    DEF Enters, Runs, Clears
<1>. QED
  BY <1>1, <1>2 DEF Next

\* Every step keeps the metadata and the evidence the pointer stands on.
LEMMA PointerIsBackedStep ==
  Inv /\ [Next]_vars => PointerIsBacked'
<1> SUFFICES ASSUME Inv, [Next]_vars PROVE PointerIsBacked'
  OBVIOUS
<1>. USE WorkspaceAssumption DEF BeforeLock, InGeneration, InSession, Clearing,
       Passive, Goto, Over, NoCommand, files, runVars, counts, history
<1>0. TypeOK /\ LockInv /\ ExitInv /\ ClearInv /\ PointerIsBacked
  BY DEF Inv
<1>1. CASE UNCHANGED vars
  BY <1>0, <1>1 DEF vars, TypeOK, PointerIsBacked
<1>2. ASSUME NEW p \in Processes, Enters(p) \/ Runs(p) \/ Clears(p)
      PROVE  PointerIsBacked'
  <2>1. CASE StartRun(p)
    BY <1>0, <2>1 DEF StartRun, TypeOK, PointerIsBacked
  <2>2. CASE ReadIndex(p)
    BY <1>0, <2>2 DEF ReadIndex, TypeOK, PointerIsBacked
  <2>3. CASE EnterRun(p)
    BY <1>0, <2>3 DEF EnterRun, TypeOK, PointerIsBacked
  <2>4. CASE RefuseRun(p)
    BY <1>0, <2>4 DEF RefuseRun, TypeOK, PointerIsBacked
  <2>5. CASE Activate(p)
    BY <1>0, <2>5 DEF Activate, TypeOK, PointerIsBacked
  <2>6. CASE OpenSession(p)
    <3>1. UNCHANGED files
      BY <2>6 DEF OpenSession
    <3>2. overlapped => overlapped'
      BY <2>6, Zenon DEF OpenSession
    <3>. QED
      BY <1>0, <3>1, <3>2 DEF PointerIsBacked
  <2>7. CASE LockRefused(p)
    BY <1>0, <2>7 DEF LockRefused, TypeOK, PointerIsBacked
  <2>8. CASE OpenRaises(p)
    BY <1>0, <2>8 DEF OpenRaises, TypeOK, PointerIsBacked
  <2>9. CASE BeginGeneration(p)
    BY <1>0, <2>9 DEF BeginGeneration, TypeOK, PointerIsBacked
  <2>10. CASE LeaveRun(p)
    BY <1>0, <2>10 DEF LeaveRun, TypeOK, PointerIsBacked
  <2>11. CASE Evaluate(p)
    BY <1>0, <2>11 DEF Evaluate, TypeOK, PointerIsBacked
  <2>12. CASE WriterPublishes(p)
    BY <1>0, <2>12 DEF WriterPublishes, TypeOK, PointerIsBacked
  <2>13. CASE WriterFails(p)
    BY <1>0, <2>13 DEF WriterFails, TypeOK, PointerIsBacked
  <2>14. CASE BodyReturns(p)
    BY <1>0, <2>14 DEF BodyReturns, TypeOK, PointerIsBacked
  <2>15. CASE FlushBoundary(p)
    BY <1>0, <2>15 DEF FlushBoundary, TypeOK, PointerIsBacked
  <2>16. CASE RecordMetadata(p)
    BY <1>0, <2>16 DEF RecordMetadata, TypeOK, PointerIsBacked
  <2>17. CASE WriteCompletion(p)
    <3>1. SUFFICES ASSUME ~overlapped
                    PROVE \E m \in metadata :
                            /\ m.signature = Pointer(p).signature
                            /\ m.generation = Pointer(p).generation
                            /\ m.jobs =>
                                 [run |-> m.run,
                                  generation |-> m.generation] \in evidence
      BY <2>17 DEF WriteCompletion, PointerIsBacked
    <3>2. Event(p) \in metadata
      BY <1>0, <2>17, <3>1 DEF WriteCompletion, ExitInv, AtExit
    <3>3. work[p] # "none" =>
            [run |-> command[p].run, generation |-> next[p]] \in evidence
      BY <1>0, <2>17, <3>1 DEF WriteCompletion, ExitInv, AtExit, Flushed
    <3>4. /\ Event(p).signature = Pointer(p).signature
          /\ Event(p).generation = Pointer(p).generation
          /\ Event(p).run = command[p].run /\ Event(p).generation = next[p]
      BY DEF Event, Pointer
    <3>5. Event(p).jobs => work[p] # "none"
      BY Zenon DEF Event
    <3>. QED
      BY <3>2, <3>3, <3>4, <3>5
  <2>18. CASE GenerationFinished(p)
    BY <1>0, <2>18 DEF GenerationFinished, TypeOK, PointerIsBacked
  <2>19. CASE GenerationFails(p)
    BY <1>0, <2>19 DEF GenerationFails, TypeOK, PointerIsBacked
  <2>20. CASE CloseSession(p)
    BY <1>0, <2>20 DEF CloseSession, TypeOK, PointerIsBacked
  <2>21. CASE ProcessEnds(p)
    BY <1>0, <2>21 DEF ProcessEnds, TypeOK, PointerIsBacked
  <2>22. CASE StartClear(p)
    BY <1>0, <2>22 DEF StartClear, TypeOK, PointerIsBacked
  <2>23. CASE RemoveActive(p)
    BY <1>0, <2>23 DEF RemoveActive, TypeOK, PointerIsBacked
  <2>24. CASE RemoveCompletion(p)
    BY <1>0, <2>24 DEF RemoveCompletion, TypeOK, PointerIsBacked
  <2>25. CASE StateGone(p)
    BY <1>0, <2>25 DEF StateGone, TypeOK, PointerIsBacked
  <2>26. CASE RemoveSegment(p)
    <3>1. SUFFICES ASSUME ~overlapped PROVE PointerIsBacked'
      BY <2>26 DEF RemoveSegment, PointerIsBacked
    <3>2. completion = NoCompletion
      BY <1>0, <2>26, <3>1 DEF RemoveSegment, ClearInv
    <3>. QED
      BY <2>26, <3>2 DEF RemoveSegment, PointerIsBacked
  <2>27. CASE SegmentsGone(p)
    BY <1>0, <2>27 DEF SegmentsGone, TypeOK, PointerIsBacked
  <2>28. CASE RemoveEvent(p)
    <3>1. SUFFICES ASSUME ~overlapped PROVE PointerIsBacked'
      BY <2>28 DEF RemoveEvent, PointerIsBacked
    <3>2. completion = NoCompletion
      BY <1>0, <2>28, <3>1 DEF RemoveEvent, ClearInv
    <3>. QED
      BY <2>28, <3>2 DEF RemoveEvent, PointerIsBacked
  <2>29. CASE MetadataGone(p)
    BY <1>0, <2>29 DEF MetadataGone, TypeOK, PointerIsBacked
  <2>. QED
    BY <1>2, <2>1, <2>2, <2>3, <2>4, <2>5, <2>6, <2>7, <2>8, <2>9, <2>10,
       <2>11, <2>12, <2>13, <2>14, <2>15, <2>16, <2>17, <2>18, <2>19, <2>20,
       <2>21, <2>22, <2>23, <2>24, <2>25, <2>26, <2>27, <2>28, <2>29
    DEF Enters, Runs, Clears
<1>. QED
  BY <1>1, <1>2 DEF Next

\* Every step keeps the pointer where the last completed generation of an open
\* session left it.
LEMMA PointerFollowsRunStep ==
  Inv /\ [Next]_vars => PointerFollowsRun'
<1> SUFFICES ASSUME Inv, [Next]_vars PROVE PointerFollowsRun'
  OBVIOUS
<1>. USE WorkspaceAssumption DEF BeforeLock, InGeneration, InSession, Clearing,
       Passive, Goto, Over, NoCommand, files, runVars, counts, history
<1>0. TypeOK /\ RunInv /\ LockInv /\ ExitInv /\ PointerFollowsRun
  BY DEF Inv
<1>1. CASE UNCHANGED vars
  BY <1>0, <1>1 DEF vars, TypeOK, PointerFollowsRun
<1>2. ASSUME NEW p \in Processes, Enters(p) \/ Runs(p) \/ Clears(p)
      PROVE  PointerFollowsRun'
  <2>1. CASE StartRun(p)
    BY <1>0, <2>1 DEF StartRun, TypeOK, PointerFollowsRun
  <2>2. CASE ReadIndex(p)
    BY <1>0, <2>2 DEF ReadIndex, TypeOK, PointerFollowsRun
  <2>3. CASE EnterRun(p)
    BY <1>0, <2>3 DEF EnterRun, TypeOK, PointerFollowsRun
  <2>4. CASE RefuseRun(p)
    BY <1>0, <2>4 DEF RefuseRun, TypeOK, PointerFollowsRun
  <2>5. CASE Activate(p)
    BY <1>0, <2>5 DEF Activate, TypeOK, PointerFollowsRun
  <2>6. CASE OpenSession(p)
    BY <1>0, <2>6 DEF OpenSession, TypeOK, PointerFollowsRun, Generations
  <2>7. CASE LockRefused(p)
    BY <1>0, <2>7 DEF LockRefused, TypeOK, PointerFollowsRun
  <2>8. CASE OpenRaises(p)
    BY <1>0, <2>8 DEF OpenRaises, TypeOK, PointerFollowsRun
  <2>9. CASE BeginGeneration(p)
    BY <1>0, <2>9 DEF BeginGeneration, TypeOK, PointerFollowsRun
  <2>10. CASE LeaveRun(p)
    BY <1>0, <2>10 DEF LeaveRun, TypeOK, PointerFollowsRun
  <2>11. CASE Evaluate(p)
    BY <1>0, <2>11 DEF Evaluate, TypeOK, PointerFollowsRun
  <2>12. CASE WriterPublishes(p)
    BY <1>0, <2>12 DEF WriterPublishes, TypeOK, PointerFollowsRun
  <2>13. CASE WriterFails(p)
    BY <1>0, <2>13 DEF WriterFails, TypeOK, PointerFollowsRun
  <2>14. CASE BodyReturns(p)
    BY <1>0, <2>14 DEF BodyReturns, TypeOK, PointerFollowsRun
  <2>15. CASE FlushBoundary(p)
    BY <1>0, <2>15 DEF FlushBoundary, TypeOK, PointerFollowsRun
  <2>16. CASE RecordMetadata(p)
    BY <1>0, <2>16 DEF RecordMetadata, TypeOK, PointerFollowsRun
  <2>17. CASE WriteCompletion(p)
    BY <1>0, <2>17 DEF WriteCompletion, TypeOK, LockInv, PointerFollowsRun
  <2>18. CASE GenerationFinished(p)
    <3>1. SUFFICES ASSUME NEW q \in Processes,
                           pc'[q] \in (InGeneration \ {"finishing"})
                                \cup {"between"},
                           next'[q] > command[q].start, ~overlapped
                    PROVE completion =
                          [signature |-> command[q].signature,
                           generation |-> next'[q] - 1]
      BY <2>18 DEF GenerationFinished, PointerFollowsRun
    <3>2. CASE q = p
      <4>1. completion = Pointer(p)
        BY <1>0, <2>18, <3>1 DEF GenerationFinished, ExitInv, AtExit
      <4>2. next'[p] = next[p] + 1 /\ next[p] \in Int
        BY <1>0, <2>18 DEF GenerationFinished, TypeOK
      <4>3. next'[p] - 1 = next[p]
        BY <4>2
      <4>. QED
        BY <3>2, <4>1, <4>3 DEF Pointer
    <3>3. CASE q # p
      <4>1. pc'[q] = pc[q] /\ next'[q] = next[q]
        BY <1>0, <2>18, <3>3 DEF GenerationFinished, TypeOK
      <4>. QED
        BY <1>0, <3>1, <4>1 DEF PointerFollowsRun
    <3>. QED
      BY <3>2, <3>3
  <2>19. CASE GenerationFails(p)
    BY <1>0, <2>19 DEF GenerationFails, TypeOK, PointerFollowsRun
  <2>20. CASE CloseSession(p)
    BY <1>0, <2>20 DEF CloseSession, TypeOK, PointerFollowsRun
  <2>21. CASE ProcessEnds(p)
    BY <1>0, <2>21 DEF ProcessEnds, TypeOK, PointerFollowsRun
  <2>22. CASE StartClear(p)
    BY <1>0, <2>22 DEF StartClear, TypeOK, PointerFollowsRun
  <2>23. CASE RemoveActive(p)
    BY <1>0, <2>23 DEF RemoveActive, TypeOK, PointerFollowsRun
  <2>24. CASE RemoveCompletion(p)
    BY <1>0, <2>24 DEF RemoveCompletion, TypeOK, LockInv, PointerFollowsRun
  <2>25. CASE StateGone(p)
    BY <1>0, <2>25 DEF StateGone, TypeOK, PointerFollowsRun
  <2>26. CASE RemoveSegment(p)
    BY <1>0, <2>26 DEF RemoveSegment, TypeOK, PointerFollowsRun
  <2>27. CASE SegmentsGone(p)
    BY <1>0, <2>27 DEF SegmentsGone, TypeOK, PointerFollowsRun
  <2>28. CASE RemoveEvent(p)
    BY <1>0, <2>28 DEF RemoveEvent, TypeOK, PointerFollowsRun
  <2>29. CASE MetadataGone(p)
    BY <1>0, <2>29 DEF MetadataGone, TypeOK, PointerFollowsRun
  <2>. QED
    BY <1>2, <2>1, <2>2, <2>3, <2>4, <2>5, <2>6, <2>7, <2>8, <2>9, <2>10,
       <2>11, <2>12, <2>13, <2>14, <2>15, <2>16, <2>17, <2>18, <2>19, <2>20,
       <2>21, <2>22, <2>23, <2>24, <2>25, <2>26, <2>27, <2>28, <2>29
    DEF Enters, Runs, Clears
<1>. QED
  BY <1>1, <1>2 DEF Next

\* Every step keeps the optimization indices of runs apart.
LEMMA IndexIsOwnStep ==
  Inv /\ [Next]_vars => IndexIsOwn'
<1> SUFFICES ASSUME Inv, [Next]_vars PROVE IndexIsOwn'
  OBVIOUS
<1>. USE WorkspaceAssumption DEF BeforeLock, InGeneration, InSession, Clearing,
       Passive, Goto, Over, NoCommand, files, runVars, counts, history
<1>0. TypeOK /\ LockInv /\ ReadInv /\ IndexIsOwn
  BY DEF Inv
<1>1. CASE UNCHANGED vars
  BY <1>0, <1>1 DEF vars, TypeOK, IndexIsOwn
<1>2. ASSUME NEW p \in Processes, Enters(p) \/ Runs(p) \/ Clears(p)
      PROVE  IndexIsOwn'
  <2>1. CASE StartRun(p)
    BY <1>0, <2>1 DEF StartRun, TypeOK, IndexIsOwn
  <2>2. CASE ReadIndex(p)
    BY <1>0, <2>2 DEF ReadIndex, TypeOK, IndexIsOwn
  <2>3. CASE EnterRun(p)
    BY <1>0, <2>3 DEF EnterRun, TypeOK, IndexIsOwn
  <2>4. CASE RefuseRun(p)
    BY <1>0, <2>4 DEF RefuseRun, TypeOK, IndexIsOwn
  <2>5. CASE Activate(p)
    BY <1>0, <2>5 DEF Activate, TypeOK, IndexIsOwn
  <2>6. CASE OpenSession(p)
    BY <1>0, <2>6 DEF OpenSession, TypeOK, IndexIsOwn
  <2>7. CASE LockRefused(p)
    BY <1>0, <2>7 DEF LockRefused, TypeOK, IndexIsOwn
  <2>8. CASE OpenRaises(p)
    BY <1>0, <2>8 DEF OpenRaises, TypeOK, IndexIsOwn
  <2>9. CASE BeginGeneration(p)
    BY <1>0, <2>9 DEF BeginGeneration, TypeOK, IndexIsOwn
  <2>10. CASE LeaveRun(p)
    BY <1>0, <2>10 DEF LeaveRun, TypeOK, IndexIsOwn
  <2>11. CASE Evaluate(p)
    BY <1>0, <2>11 DEF Evaluate, TypeOK, IndexIsOwn
  <2>12. CASE WriterPublishes(p)
    BY <1>0, <2>12 DEF WriterPublishes, TypeOK, IndexIsOwn
  <2>13. CASE WriterFails(p)
    BY <1>0, <2>13 DEF WriterFails, TypeOK, IndexIsOwn
  <2>14. CASE BodyReturns(p)
    BY <1>0, <2>14 DEF BodyReturns, TypeOK, IndexIsOwn
  <2>15. CASE FlushBoundary(p)
    BY <1>0, <2>15 DEF FlushBoundary, TypeOK, IndexIsOwn
  <2>16. CASE RecordMetadata(p)
    BY <1>0, <2>16 DEF RecordMetadata, Event, TypeOK, ReadInv, IndexIsOwn
  <2>17. CASE WriteCompletion(p)
    BY <1>0, <2>17 DEF WriteCompletion, TypeOK, IndexIsOwn
  <2>18. CASE GenerationFinished(p)
    BY <1>0, <2>18 DEF GenerationFinished, TypeOK, IndexIsOwn
  <2>19. CASE GenerationFails(p)
    BY <1>0, <2>19 DEF GenerationFails, TypeOK, IndexIsOwn
  <2>20. CASE CloseSession(p)
    BY <1>0, <2>20 DEF CloseSession, TypeOK, IndexIsOwn
  <2>21. CASE ProcessEnds(p)
    BY <1>0, <2>21 DEF ProcessEnds, TypeOK, IndexIsOwn
  <2>22. CASE StartClear(p)
    BY <1>0, <2>22 DEF StartClear, TypeOK, IndexIsOwn
  <2>23. CASE RemoveActive(p)
    BY <1>0, <2>23 DEF RemoveActive, TypeOK, IndexIsOwn
  <2>24. CASE RemoveCompletion(p)
    BY <1>0, <2>24 DEF RemoveCompletion, TypeOK, IndexIsOwn
  <2>25. CASE StateGone(p)
    BY <1>0, <2>25 DEF StateGone, TypeOK, IndexIsOwn
  <2>26. CASE RemoveSegment(p)
    BY <1>0, <2>26 DEF RemoveSegment, TypeOK, IndexIsOwn
  <2>27. CASE SegmentsGone(p)
    BY <1>0, <2>27 DEF SegmentsGone, TypeOK, IndexIsOwn
  <2>28. CASE RemoveEvent(p)
    BY <1>0, <2>28 DEF RemoveEvent, TypeOK, IndexIsOwn
  <2>29. CASE MetadataGone(p)
    BY <1>0, <2>29 DEF MetadataGone, TypeOK, IndexIsOwn
  <2>. QED
    BY <1>2, <2>1, <2>2, <2>3, <2>4, <2>5, <2>6, <2>7, <2>8, <2>9, <2>10,
       <2>11, <2>12, <2>13, <2>14, <2>15, <2>16, <2>17, <2>18, <2>19, <2>20,
       <2>21, <2>22, <2>23, <2>24, <2>25, <2>26, <2>27, <2>28, <2>29
    DEF Enters, Runs, Clears
<1>. QED
  BY <1>1, <1>2 DEF Next

-----------------------------------------------------------------------------
(* The invariant and the properties.                                        *)

\* An empty workspace with idle processes satisfies the invariant.
LEMMA InitInv == Init => Inv
<1> SUFFICES ASSUME Init PROVE Inv
  OBVIOUS
<1> USE WorkspaceAssumption DEF Init, NoCommand, BeforeLock, InGeneration,
      InSession, Clearing, Passive
<1>1. TypeOK
  <2>1. 0 \in 0..MaxRuns /\ 0 \in 0..MaxClears /\ 0 \in Generations
    BY DEF Generations
  <2>2. 0 \in 0..LastGeneration + 1
    OBVIOUS
  <2>3. NoCommand \in [run : 0..MaxRuns, start : Generations,
                      signature : Signatures \cup {NoSignature}]
    BY <2>1
  <2>. QED
    BY <2>1, <2>2, <2>3 DEF TypeOK
<1>2. RunInv /\ LockInv
  BY DEF RunInv, LockInv
<1>3. ReadInv /\ ExitInv
  BY DEF ReadInv, ExitInv, AtExit
<1>4. ClearInv /\ ResumeInv
  BY DEF ClearInv, ResumeInv
<1>5. PointerIsBacked /\ PointerFollowsRun /\ IndexIsOwn
  BY DEF PointerIsBacked, PointerFollowsRun, IndexIsOwn
<1>. QED
  BY <1>1, <1>2, <1>3, <1>4, <1>5 DEF Inv

\* Every step of every command keeps the invariant.
LEMMA NextInv == Inv /\ [Next]_vars => Inv'
BY TypeOKStep, RunInvStep, LockInvStep, ReadInvStep, ExitInvStep, ClearInvStep,
   ResumeInvStep, PointerIsBackedStep, PointerFollowsRunStep, IndexIsOwnStep
   DEF Inv

\* The invariant holds of every behaviour.
LEMMA SpecInv == Spec => []Inv
BY InitInv, NextInv, PTL DEF Spec

\* Files, lock, counters and commands have their types.
THEOREM TypeCorrect == Spec => []TypeOK
<1>1. Inv => TypeOK
  BY DEF Inv
<1>. QED
  BY <1>1, SpecInv, PTL

\* The completion pointer stands on recorded metadata and durable evidence,
\* whatever is lost between the writes of a generation's exit or of a clear.
THEOREM PointersAreBacked == Spec => []PointerIsBacked
<1>1. Inv => PointerIsBacked
  BY DEF Inv
<1>. QED
  BY <1>1, SpecInv, PTL

\* A run works on the generation after its program's last completed one, if
\* what it read before it had the lock was still true when it got it.
THEOREM RunsResumeAtNext == Spec => []ResumesAtNext
<1>1. Inv => ResumesAtNext
  BY DEF Inv, ResumeInv, ResumesAtNext, InGeneration
<1>. QED
  BY <1>1, SpecInv, PTL

\* Inside a run the pointer is where its last completed generation left it.
THEOREM PointersFollowRuns == Spec => []PointerFollowsRun
<1>1. Inv => PointerFollowsRun
  BY DEF Inv
<1>. QED
  BY <1>1, SpecInv, PTL

\* Runs record under different optimization indices, unless one read its index
\* from metadata that changed before it had the lock.
THEOREM IndicesAreOwn == Spec => []IndexIsOwn
<1>1. Inv => IndexIsOwn
  BY DEF Inv
<1>. QED
  BY <1>1, SpecInv, PTL
=============================================================================
