--------------------------- MODULE CampaignProofs ---------------------------
(***************************************************************************)
(* Proofs about Campaign, for any handles, owner threads that fail to      *)
(* start, generations and interrupts.                                      *)
(***************************************************************************)
EXTENDS CampaignInvariant, TLAPS

-----------------------------------------------------------------------------
(* What the shared parts of the handles' steps change.                      *)

\* An owner thread gives its answer and is gone.
Settles(h) ==
  /\ Alive(h)
  /\ \E how \in {"result", "cancelled", "failure"} : Settle(h, how)
  /\ UNCHANGED poolVars

\* All the ways an owner thread ends are settling steps.
LEMMA SettlingSteps ==
  ASSUME NEW h \in Handles,
         FindsNoPool(h) \/ EntersClosed(h) \/ Completes(h) \/ Fails(h)
           \/ SeesCancel(h)
  PROVE  Settles(h)
BY DEF FindsNoPool, EntersClosed, Completes, Fails, SeesCancel, Settles, Alive

\* Settling changes the handle's own answer, state and thread, and no other's.
LEMMA SettleFacts ==
  ASSUME TypeOK, NEW h \in Handles, Settles(h)
  PROVE  /\ Alive(h)
         /\ settled'[h] # "no" /\ owner'[h] = "gone"
         /\ state'[h] \in {"completed", "cancelled", "failed"}
         /\ \A g \in Handles : g # h =>
              /\ settled'[g] = settled[g] /\ state'[g] = state[g]
              /\ owner'[g] = owner[g]
         /\ settled' \in [Handles -> {"no", "result", "cancelled", "failure"}]
         /\ state' \in [Handles ->
              {"none", "created", "running", "cancelling", "completed",
               "cancelled", "failed", "closed"}]
         /\ owner' \in [Handles ->
              {"none", "begun", "queued", "working", "gone"}]
         /\ UNCHANGED <<asked, snapshotOf, registry, poolVars, sessionVars,
                        boundaryVars, pc, closing, todo, interruptVars>>
<1>1. PICK how \in {"result", "cancelled", "failure"} : Settle(h, how)
  BY DEF Settles
<1>2. /\ settled' = [settled EXCEPT ![h] = how]
      /\ owner' = [owner EXCEPT ![h] = "gone"]
  BY <1>1 DEF Settle
<1>3. PICK s \in {"completed", "cancelled", "failed"} :
        state' = [state EXCEPT ![h] = s]
  <2>1. CASE how = "result"
    BY <1>1, <2>1 DEF Settle
  <2>2. CASE how = "cancelled"
    BY <1>1, <2>2 DEF Settle
  <2>3. CASE how = "failure"
    BY <1>1, <2>3 DEF Settle
  <2> QED BY <2>1, <2>2, <2>3
<1>4. UNCHANGED <<asked, snapshotOf, registry, poolVars, sessionVars,
                  boundaryVars, pc, closing, todo, interruptVars>>
  BY <1>1 DEF Settle, Settles
<1>5. Alive(h)
  BY DEF Settles
<1> QED BY <1>2, <1>3, <1>4, <1>5 DEF TypeOK

\* cancel() settles a handle that never started, asks one that runs, and
\* leaves every other handle alone.
LEMMA CancelFacts ==
  ASSUME TypeOK, NEW h \in Handles, CancelEffect(h)
  PROVE  /\ \A g \in Handles : g # h =>
              /\ settled'[g] = settled[g] /\ state'[g] = state[g]
              /\ asked'[g] = asked[g]
         /\ \/ settled'[h] = settled[h] /\ state'[h] = state[h]
            \/ /\ settled[h] = "no" /\ state[h] = "created"
               /\ settled'[h] = "result" /\ state'[h] = "completed"
            \/ /\ settled[h] = "no" /\ state[h] \notin {"created", "closed"}
               /\ settled'[h] = "no" /\ state'[h] = "cancelling"
         /\ settled' \in [Handles -> {"no", "result", "cancelled", "failure"}]
         /\ state' \in [Handles ->
              {"none", "created", "running", "cancelling", "completed",
               "cancelled", "failed", "closed"}]
         /\ asked' \in [Handles -> BOOLEAN]
<1>1. CASE settled[h] # "no" \/ asked[h] \/ state[h] = "closed"
  BY <1>1 DEF CancelEffect, TypeOK
<1>2. CASE ~(settled[h] # "no" \/ asked[h] \/ state[h] = "closed")
  <2>1. /\ asked' = [asked EXCEPT ![h] = TRUE]
        /\ settled[h] = "no" /\ state[h] # "closed"
    BY <1>2 DEF CancelEffect
  <2>2. CASE state[h] = "created"
    <3>1. /\ state' = [state EXCEPT ![h] = "completed"]
          /\ settled' = [settled EXCEPT ![h] = "result"]
      BY <1>2, <2>2 DEF CancelEffect, NotStarted
    <3> QED BY <2>1, <2>2, <3>1 DEF TypeOK
  <2>3. CASE state[h] # "created"
    <3>1. state' = [state EXCEPT ![h] = "cancelling"] /\ settled' = settled
      BY <1>2, <2>3 DEF CancelEffect, NotStarted
    <3> QED BY <2>1, <2>3, <3>1 DEF TypeOK
  <2> QED BY <2>2, <2>3
<1> QED BY <1>1, <1>2

-----------------------------------------------------------------------------
(* The invariant is inductive.                                              *)

\* The invariant holds initially.
LEMMA InitInv == Init => Inv
<1> SUFFICES ASSUME Init PROVE Inv
  OBVIOUS
<1>1. TypeOK
  <2>1. 0 \in 0..MaxGenerations /\ 0 \in 0..MaxInterrupts /\ 0 \in 0..made
    BY CampaignAssumption DEF Init
  <2> QED BY <2>1 DEF Init, TypeOK
<1>2. ThreadInv /\ LeaseInv /\ ClosedInv
  BY DEF Init, ThreadInv, LeaseInv, ClosedInv, Alive
<1>3. PoolIsExclusive
  BY DEF Init, PoolIsExclusive, Handles
<1> QED BY <1>1, <1>2, <1>3 DEF Inv

\* Every step keeps the types.
LEMMA TypeStep ==
  ASSUME TypeOK, LeaseInv, [Next]_vars
  PROVE  TypeOK'
<1>1. ASSUME NEW changed \in BOOLEAN, BeginGeneration(changed)
      PROVE  TypeOK'
  <2>1. /\ current + 1 \in 0..MaxGenerations /\ current + 1 \in 1..MaxGenerations
        /\ current' = current + 1 /\ snapshots' = snapshots \cup {current + 1}
    BY <1>1, CampaignAssumption
    DEF BeginGeneration, RunHasNext, TypeOK, MayBegin
  <2>2. made' = made /\ pool' \in 0..made /\ shut' \subseteq 1..made
    <3>1. CASE changed /\ pool # 0
      <4>1. made' = made /\ pool' = 0 /\ shut' = shut \cup {pool}
        BY <1>1, <3>1 DEF BeginGeneration, MayBegin
      <4>2. pool \in 1..made /\ 0 \in 0..made /\ shut \subseteq 1..made
        BY <3>1 DEF TypeOK
      <4> QED BY <4>1, <4>2
    <3>2. CASE ~(changed /\ pool # 0)
      BY <1>1, <3>2 DEF BeginGeneration, TypeOK, MayBegin
    <3> QED BY <3>1, <3>2
  <2> QED
    BY <1>1, <2>1, <2>2
    DEF BeginGeneration, TypeOK, handleVars, boundaryVars, MayBegin,
        interruptVars
<1>2. ASSUME LeaveRun \/ BodyRaises \/ BeginRefused
      PROVE  TypeOK'
  BY <1>2
  DEF LeaveRun, BodyRaises, TypeOK, handleVars, poolVars, sessionVars,
      boundaryVars, BeginRefused, MayBegin, interruptVars
<1>3. ASSUME BodyReturns
      PROVE  TypeOK'
  BY <1>3
  DEF BodyReturns, TypeOK, handleVars, poolVars, sessionVars, interruptVars
<1>4. ASSUME Commit
      PROVE  TypeOK'
  BY <1>4
  DEF Commit, AllHandled, MayCommit, TypeOK, handleVars, poolVars, sessionVars,
      interruptVars
<1>5. ASSUME BoundaryFails
      PROVE  TypeOK'
  BY <1>5
  DEF BoundaryFails, AllHandled, MayCommit, TypeOK, handleVars, poolVars,
      sessionVars, boundaryVars, interruptVars
<1>6. ASSUME NEW h \in Handles, Prepare(h)
      PROVE  TypeOK'
  BY <1>6
  DEF Prepare, InBody, TypeOK, poolVars, sessionVars, boundaryVars, UserRuns,
      interruptVars
<1>7. ASSUME NEW h \in Handles, Create(h)
      PROVE  TypeOK'
  BY <1>7
  DEF Create, InBody, SnapshotIsCurrent, TypeOK, poolVars, sessionVars,
      boundaryVars, UserRuns, interruptVars
<1>8. ASSUME NEW h \in Handles, Start(h)
      PROVE  TypeOK'
  BY <1>8
  DEF Start, InBody, TypeOK, poolVars, sessionVars, boundaryVars, UserRuns,
      interruptVars
<1>9. ASSUME NEW h \in Handles, StartFails(h)
      PROVE  TypeOK'
  BY <1>9
  DEF StartFails, InBody, TypeOK, poolVars, sessionVars, boundaryVars,
      UserRuns, interruptVars
<1>10. ASSUME NEW h \in Handles, StartFit(h)
      PROVE  TypeOK'
  BY <1>10
  DEF StartFit, InBody, TypeOK, poolVars, sessionVars, boundaryVars, UserRuns,
      interruptVars
<1>11. ASSUME NEW h \in Handles, StartFitFails(h)
      PROVE  TypeOK'
  BY <1>11
  DEF StartFitFails, InBody, TypeOK, poolVars, sessionVars, boundaryVars,
      UserRuns, interruptVars
<1>12. ASSUME NEW h \in Handles, Cancel(h)
      PROVE  TypeOK'
  BY <1>12, CancelFacts
  DEF Cancel, InBody, TypeOK, poolVars, sessionVars, boundaryVars, UserRuns,
      interruptVars
<1>13. ASSUME NEW h \in Handles, CloseStarts(h)
      PROVE  TypeOK'
  BY <1>13, CancelFacts
  DEF CloseStarts, TypeOK, poolVars, sessionVars, boundaryVars, UserRuns,
      interruptVars
<1>14. ASSUME CloseReturns
      PROVE  TypeOK'
  BY <1>14
  DEF CloseReturns, Awaited, TypeOK, poolVars, sessionVars, interruptVars
<1>15. ASSUME CloseInterrupted
      PROVE  TypeOK'
  BY <1>15, CampaignAssumption
  DEF CloseInterrupted, TypeOK, poolVars, sessionVars, interruptVars
<1>16. ASSUME ShutdownStarts
      PROVE  TypeOK'
  BY <1>16
  DEF ShutdownStarts, TypeOK, handleVars, poolVars, boundaryVars, interruptVars
<1>17. ASSUME ResourcesClose \/ ResourcesInterrupted \/ BeginInterrupted
      PROVE  TypeOK'
  <2>1. /\ made' = made /\ pool' = 0 /\ made \in Nat
        /\ shut' = shut \/ (pool # 0 /\ shut' = shut \cup {pool})
    BY <1>17
    DEF ResourcesClose, ResourcesInterrupted, TypeOK, BeginInterrupted,
        MayBegin, NoLeaseLeft
  <2>2. pool' \in 0..made /\ shut' \subseteq 1..made
    <3>1. pool # 0 => pool \in 1..made
      BY DEF TypeOK
    <3>2. 0 \in 0..made /\ shut \subseteq 1..made
      BY DEF TypeOK
    <3> QED BY <2>1, <3>1, <3>2
  <2>3. interrupts' \in 0..MaxInterrupts
    BY <1>17, CampaignAssumption
    DEF ResourcesClose, ResourcesInterrupted, TypeOK, BeginInterrupted,
        MayBegin, NoLeaseLeft, interruptVars
  <2> QED
    BY <1>17, <2>1, <2>2, <2>3
    DEF ResourcesClose, ResourcesInterrupted, TypeOK, handleVars, sessionVars,
        boundaryVars, BeginInterrupted, MayBegin, NoLeaseLeft, interruptVars
<1>18. ASSUME WriterStops
      PROVE  TypeOK'
  BY <1>18
  DEF WriterStops, TypeOK, handleVars, poolVars, boundaryVars, interruptVars
<1>19. ASSUME NEW h \in Handles, FindsPool(h)
      PROVE  TypeOK'
  BY <1>19 DEF FindsPool, TypeOK, sessionVars, boundaryVars, interruptVars
<1>20. ASSUME NEW h \in Handles, Enters(h)
      PROVE  TypeOK'
  BY <1>20
  DEF Enters, TypeOK, poolVars, sessionVars, boundaryVars, interruptVars
<1>21. ASSUME NEW h \in Handles, Settles(h)
      PROVE  TypeOK'
  BY <1>21, SettleFacts
  DEF TypeOK, poolVars, sessionVars, boundaryVars, interruptVars
<1>22. CASE UNCHANGED vars
  BY <1>22
  DEF vars, TypeOK, handleVars, poolVars, sessionVars, boundaryVars,
      interruptVars
<1> QED
  BY <1>1, <1>2, <1>3, <1>4, <1>5, <1>6, <1>7, <1>8, <1>9, <1>10, <1>11, <1>12,
     <1>13, <1>14, <1>15, <1>16, <1>17, <1>18, <1>19, <1>20, <1>21, <1>22,
     SettlingSteps
  DEF Next, Framework, Body, Responds

\* Every step keeps a handle from being answered while its thread lives.
LEMMA ThreadStep ==
  ASSUME TypeOK, ThreadInv, LeaseInv, [Next]_vars
  PROVE  ThreadInv'
<1>1. ASSUME NEW changed \in BOOLEAN, BeginGeneration(changed)
      PROVE  ThreadInv'
  BY <1>1
  DEF BeginGeneration, RunHasNext, NoLeaseLeft, TypeOK, ThreadInv, LeaseInv,
      Alive, handleVars, boundaryVars, MayBegin, interruptVars
<1>2. ASSUME LeaveRun \/ BodyRaises \/ BeginRefused
      PROVE  ThreadInv'
  BY <1>2
  DEF LeaveRun, BodyRaises, TypeOK, ThreadInv, LeaseInv, Alive, handleVars,
      poolVars, sessionVars, boundaryVars, BeginRefused, MayBegin,
      interruptVars
<1>3. ASSUME BodyReturns
      PROVE  ThreadInv'
  BY <1>3
  DEF BodyReturns, TypeOK, ThreadInv, LeaseInv, Alive, handleVars, poolVars,
      sessionVars, interruptVars
<1>4. ASSUME Commit
      PROVE  ThreadInv'
  BY <1>4
  DEF Commit, AllHandled, MayCommit, TypeOK, ThreadInv, LeaseInv, Alive,
      handleVars, poolVars, sessionVars, interruptVars
<1>5. ASSUME BoundaryFails
      PROVE  ThreadInv'
  BY <1>5
  DEF BoundaryFails, AllHandled, MayCommit, TypeOK, ThreadInv, LeaseInv, Alive,
      handleVars, poolVars, sessionVars, boundaryVars, interruptVars
<1>6. ASSUME NEW h \in Handles, Prepare(h)
      PROVE  ThreadInv'
  BY <1>6
  DEF Prepare, InBody, TypeOK, ThreadInv, LeaseInv, Alive, poolVars,
      sessionVars, boundaryVars, UserRuns, interruptVars
<1>7. ASSUME NEW h \in Handles, Create(h)
      PROVE  ThreadInv'
  BY <1>7
  DEF Create, InBody, SnapshotIsCurrent, TypeOK, ThreadInv, LeaseInv, Alive,
      poolVars, sessionVars, boundaryVars, UserRuns, interruptVars
<1>8. ASSUME NEW h \in Handles, Start(h)
      PROVE  ThreadInv'
  BY <1>8
  DEF Start, InBody, TypeOK, ThreadInv, LeaseInv, Alive, poolVars, sessionVars,
      boundaryVars, UserRuns, interruptVars
<1>9. ASSUME NEW h \in Handles, StartFails(h)
      PROVE  ThreadInv'
  BY <1>9
  DEF StartFails, InBody, TypeOK, ThreadInv, LeaseInv, Alive, poolVars,
      sessionVars, boundaryVars, UserRuns, interruptVars
<1>10. ASSUME NEW h \in Handles, StartFit(h)
      PROVE  ThreadInv'
  BY <1>10
  DEF StartFit, InBody, TypeOK, ThreadInv, LeaseInv, Alive, poolVars,
      sessionVars, boundaryVars, UserRuns, interruptVars
<1>11. ASSUME NEW h \in Handles, StartFitFails(h)
      PROVE  ThreadInv'
  BY <1>11
  DEF StartFitFails, InBody, TypeOK, ThreadInv, LeaseInv, Alive, poolVars,
      sessionVars, boundaryVars, UserRuns, interruptVars
<1>12. ASSUME NEW h \in Handles, Cancel(h)
      PROVE  ThreadInv'
  BY <1>12, CancelFacts
  DEF Cancel, InBody, TypeOK, ThreadInv, LeaseInv, Alive, poolVars,
      sessionVars, boundaryVars, UserRuns, interruptVars
<1>13. ASSUME NEW h \in Handles, CloseStarts(h)
      PROVE  ThreadInv'
  BY <1>13, CancelFacts
  DEF CloseStarts, TypeOK, ThreadInv, LeaseInv, Alive, poolVars, sessionVars,
      boundaryVars, UserRuns, interruptVars
<1>14. ASSUME CloseReturns
      PROVE  ThreadInv'
  BY <1>14
  DEF CloseReturns, Awaited, TypeOK, ThreadInv, LeaseInv, Alive, poolVars,
      sessionVars, interruptVars
<1>15. ASSUME CloseInterrupted
      PROVE  ThreadInv'
  BY <1>15
  DEF CloseInterrupted, TypeOK, ThreadInv, LeaseInv, Alive, poolVars,
      sessionVars, interruptVars
<1>16. ASSUME ShutdownStarts
      PROVE  ThreadInv'
  BY <1>16
  DEF ShutdownStarts, TypeOK, ThreadInv, LeaseInv, Alive, handleVars, poolVars,
      boundaryVars, interruptVars
<1>17. ASSUME ResourcesClose \/ ResourcesInterrupted \/ BeginInterrupted
      PROVE  ThreadInv'
  BY <1>17
  DEF ResourcesClose, ResourcesInterrupted, AllHandled, TypeOK, ThreadInv,
      LeaseInv, Alive, handleVars, sessionVars, boundaryVars, BeginInterrupted,
      MayBegin, NoLeaseLeft, interruptVars
<1>18. ASSUME WriterStops
      PROVE  ThreadInv'
  BY <1>18
  DEF WriterStops, TypeOK, ThreadInv, LeaseInv, Alive, handleVars, poolVars,
      boundaryVars, interruptVars
<1>19. ASSUME NEW h \in Handles, FindsPool(h)
      PROVE  ThreadInv'
  BY <1>19
  DEF FindsPool, TypeOK, ThreadInv, LeaseInv, Alive, sessionVars, boundaryVars,
      interruptVars
<1>20. ASSUME NEW h \in Handles, Enters(h)
      PROVE  ThreadInv'
  BY <1>20
  DEF Enters, TypeOK, ThreadInv, LeaseInv, Alive, poolVars, sessionVars,
      boundaryVars, interruptVars
<1>21. ASSUME NEW h \in Handles, Settles(h)
      PROVE  ThreadInv'
  BY <1>21, SettleFacts DEF TypeOK, ThreadInv, LeaseInv, Alive
<1>22. CASE UNCHANGED vars
  BY <1>22
  DEF vars, TypeOK, ThreadInv, LeaseInv, Alive, handleVars, poolVars,
      sessionVars, boundaryVars, interruptVars
<1> QED
  BY <1>1, <1>2, <1>3, <1>4, <1>5, <1>6, <1>7, <1>8, <1>9, <1>10, <1>11, <1>12,
     <1>13, <1>14, <1>15, <1>16, <1>17, <1>18, <1>19, <1>20, <1>21, <1>22,
     SettlingSteps
  DEF Next, Framework, Body, Responds

\* Every step keeps the registry to open handles of the current generation.
LEMMA LeaseStep ==
  ASSUME TypeOK, ThreadInv, LeaseInv, [Next]_vars
  PROVE  LeaseInv'
<1>1. ASSUME NEW changed \in BOOLEAN, BeginGeneration(changed)
      PROVE  LeaseInv'
  BY <1>1
  DEF BeginGeneration, RunHasNext, NoLeaseLeft, TypeOK, LeaseInv, Alive,
      ThreadInv, handleVars, boundaryVars, MayBegin, interruptVars
<1>2. ASSUME LeaveRun \/ BodyRaises \/ BeginRefused
      PROVE  LeaseInv'
  BY <1>2
  DEF LeaveRun, BodyRaises, TypeOK, LeaseInv, Alive, ThreadInv, handleVars,
      poolVars, sessionVars, boundaryVars, BeginRefused, MayBegin,
      interruptVars
<1>3. ASSUME BodyReturns
      PROVE  LeaseInv'
  BY <1>3, CampaignAssumption
  DEF BodyReturns, TypeOK, LeaseInv, Alive, ThreadInv, handleVars, poolVars,
      sessionVars, interruptVars
<1>4. ASSUME Commit
      PROVE  LeaseInv'
  BY <1>4
  DEF Commit, AllHandled, MayCommit, TypeOK, LeaseInv, Alive, ThreadInv,
      handleVars, poolVars, sessionVars, interruptVars
<1>5. ASSUME BoundaryFails
      PROVE  LeaseInv'
  BY <1>5
  DEF BoundaryFails, AllHandled, MayCommit, TypeOK, LeaseInv, Alive, ThreadInv,
      handleVars, poolVars, sessionVars, boundaryVars, interruptVars
<1>6. ASSUME NEW h \in Handles, Prepare(h)
      PROVE  LeaseInv'
  BY <1>6
  DEF Prepare, InBody, TypeOK, LeaseInv, Alive, ThreadInv, poolVars,
      sessionVars, boundaryVars, UserRuns, interruptVars
<1>7. ASSUME NEW h \in Handles, Create(h)
      PROVE  LeaseInv'
  BY <1>7
  DEF Create, InBody, SnapshotIsCurrent, TypeOK, LeaseInv, Alive, ThreadInv,
      poolVars, sessionVars, boundaryVars, UserRuns, interruptVars
<1>8. ASSUME NEW h \in Handles, Start(h)
      PROVE  LeaseInv'
  BY <1>8
  DEF Start, InBody, TypeOK, LeaseInv, Alive, ThreadInv, poolVars, sessionVars,
      boundaryVars, UserRuns, interruptVars
<1>9. ASSUME NEW h \in Handles, StartFails(h)
      PROVE  LeaseInv'
  BY <1>9
  DEF StartFails, InBody, TypeOK, LeaseInv, Alive, ThreadInv, poolVars,
      sessionVars, boundaryVars, UserRuns, interruptVars
<1>10. ASSUME NEW h \in Handles, StartFit(h)
      PROVE  LeaseInv'
  BY <1>10
  DEF StartFit, InBody, TypeOK, LeaseInv, Alive, ThreadInv, poolVars,
      sessionVars, boundaryVars, UserRuns, interruptVars
<1>11. ASSUME NEW h \in Handles, StartFitFails(h)
      PROVE  LeaseInv'
  BY <1>11
  DEF StartFitFails, InBody, TypeOK, LeaseInv, Alive, ThreadInv, poolVars,
      sessionVars, boundaryVars, UserRuns, interruptVars
<1>12. ASSUME NEW h \in Handles, Cancel(h)
      PROVE  LeaseInv'
  BY <1>12, CancelFacts
  DEF Cancel, InBody, TypeOK, LeaseInv, Alive, ThreadInv, poolVars,
      sessionVars, boundaryVars, UserRuns, interruptVars
<1>13. ASSUME NEW h \in Handles, CloseStarts(h)
      PROVE  LeaseInv'
  BY <1>13, CampaignAssumption, CancelFacts
  DEF CloseStarts, TypeOK, LeaseInv, Alive, ThreadInv, poolVars, sessionVars,
      boundaryVars, UserRuns, interruptVars
<1>14. ASSUME CloseReturns
      PROVE  LeaseInv'
  BY <1>14, CampaignAssumption
  DEF CloseReturns, Awaited, TypeOK, LeaseInv, Alive, ThreadInv, poolVars,
      sessionVars, interruptVars
<1>15. ASSUME CloseInterrupted
      PROVE  LeaseInv'
  BY <1>15, CampaignAssumption
  DEF CloseInterrupted, TypeOK, LeaseInv, Alive, ThreadInv, poolVars,
      sessionVars, interruptVars
<1>16. ASSUME ShutdownStarts
      PROVE  LeaseInv'
  BY <1>16, CampaignAssumption
  DEF ShutdownStarts, TypeOK, LeaseInv, Alive, ThreadInv, handleVars, poolVars,
      boundaryVars, interruptVars
<1>17. ASSUME ResourcesClose \/ ResourcesInterrupted \/ BeginInterrupted
      PROVE  LeaseInv'
  BY <1>17, CampaignAssumption
  DEF ResourcesClose, ResourcesInterrupted, AllHandled, TypeOK, LeaseInv,
      Alive, ThreadInv, handleVars, sessionVars, boundaryVars,
      BeginInterrupted, MayBegin, NoLeaseLeft, interruptVars
<1>18. ASSUME WriterStops
      PROVE  LeaseInv'
  BY <1>18
  DEF WriterStops, TypeOK, LeaseInv, Alive, ThreadInv, handleVars, poolVars,
      boundaryVars, interruptVars
<1>19. ASSUME NEW h \in Handles, FindsPool(h)
      PROVE  LeaseInv'
  BY <1>19
  DEF FindsPool, TypeOK, LeaseInv, Alive, ThreadInv, sessionVars, boundaryVars,
      interruptVars
<1>20. ASSUME NEW h \in Handles, Enters(h)
      PROVE  LeaseInv'
  BY <1>20
  DEF Enters, TypeOK, LeaseInv, Alive, ThreadInv, poolVars, sessionVars,
      boundaryVars, interruptVars
<1>21. ASSUME NEW h \in Handles, Settles(h)
      PROVE  LeaseInv'
  BY <1>21, SettleFacts
  DEF TypeOK, LeaseInv, Alive, ThreadInv, poolVars, sessionVars, boundaryVars,
      interruptVars
<1>22. CASE UNCHANGED vars
  BY <1>22
  DEF vars, TypeOK, LeaseInv, Alive, ThreadInv, handleVars, poolVars,
      sessionVars, boundaryVars, interruptVars
<1> QED
  BY <1>1, <1>2, <1>3, <1>4, <1>5, <1>6, <1>7, <1>8, <1>9, <1>10, <1>11, <1>12,
     <1>13, <1>14, <1>15, <1>16, <1>17, <1>18, <1>19, <1>20, <1>21, <1>22,
     SettlingSteps
  DEF Next, Framework, Body, Responds

\* Every step keeps handles registered or closed for good.
LEMMA ClosedStep ==
  ASSUME TypeOK, ThreadInv, LeaseInv, ClosedInv, [Next]_vars
  PROVE  ClosedInv'
<1>1. ASSUME NEW changed \in BOOLEAN, BeginGeneration(changed)
      PROVE  ClosedInv'
  BY <1>1
  DEF BeginGeneration, RunHasNext, NoLeaseLeft, TypeOK, ThreadInv, LeaseInv,
      ClosedInv, Alive, handleVars, boundaryVars, MayBegin, interruptVars
<1>2. ASSUME LeaveRun \/ BodyRaises \/ BeginRefused
      PROVE  ClosedInv'
  BY <1>2
  DEF LeaveRun, BodyRaises, TypeOK, ThreadInv, LeaseInv, ClosedInv, Alive,
      handleVars, poolVars, sessionVars, boundaryVars, BeginRefused, MayBegin,
      interruptVars
<1>3. ASSUME BodyReturns
      PROVE  ClosedInv'
  BY <1>3
  DEF BodyReturns, TypeOK, ThreadInv, LeaseInv, ClosedInv, Alive, handleVars,
      poolVars, sessionVars, interruptVars
<1>4. ASSUME Commit
      PROVE  ClosedInv'
  BY <1>4
  DEF Commit, AllHandled, MayCommit, TypeOK, ThreadInv, LeaseInv, ClosedInv,
      Alive, handleVars, poolVars, sessionVars, interruptVars
<1>5. ASSUME BoundaryFails
      PROVE  ClosedInv'
  BY <1>5
  DEF BoundaryFails, AllHandled, MayCommit, TypeOK, ThreadInv, LeaseInv,
      ClosedInv, Alive, handleVars, poolVars, sessionVars, boundaryVars,
      interruptVars
<1>6. ASSUME NEW h \in Handles, Prepare(h)
      PROVE  ClosedInv'
  BY <1>6
  DEF Prepare, InBody, TypeOK, ThreadInv, LeaseInv, ClosedInv, Alive, poolVars,
      sessionVars, boundaryVars, UserRuns, interruptVars
<1>7. ASSUME NEW h \in Handles, Create(h)
      PROVE  ClosedInv'
  BY <1>7
  DEF Create, InBody, SnapshotIsCurrent, TypeOK, ThreadInv, LeaseInv,
      ClosedInv, Alive, poolVars, sessionVars, boundaryVars, UserRuns,
      interruptVars
<1>8. ASSUME NEW h \in Handles, Start(h)
      PROVE  ClosedInv'
  BY <1>8
  DEF Start, InBody, TypeOK, ThreadInv, LeaseInv, ClosedInv, Alive, poolVars,
      sessionVars, boundaryVars, UserRuns, interruptVars
<1>9. ASSUME NEW h \in Handles, StartFails(h)
      PROVE  ClosedInv'
  BY <1>9
  DEF StartFails, InBody, TypeOK, ThreadInv, LeaseInv, ClosedInv, Alive,
      poolVars, sessionVars, boundaryVars, UserRuns, interruptVars
<1>10. ASSUME NEW h \in Handles, StartFit(h)
      PROVE  ClosedInv'
  BY <1>10
  DEF StartFit, InBody, TypeOK, ThreadInv, LeaseInv, ClosedInv, Alive,
      poolVars, sessionVars, boundaryVars, UserRuns, interruptVars
<1>11. ASSUME NEW h \in Handles, StartFitFails(h)
      PROVE  ClosedInv'
  BY <1>11
  DEF StartFitFails, InBody, TypeOK, ThreadInv, LeaseInv, ClosedInv, Alive,
      poolVars, sessionVars, boundaryVars, UserRuns, interruptVars
<1>12. ASSUME NEW h \in Handles, Cancel(h)
      PROVE  ClosedInv'
  BY <1>12, CancelFacts
  DEF Cancel, InBody, TypeOK, ThreadInv, LeaseInv, ClosedInv, Alive, poolVars,
      sessionVars, boundaryVars, UserRuns, interruptVars
<1>13. ASSUME NEW h \in Handles, CloseStarts(h)
      PROVE  ClosedInv'
  BY <1>13, CancelFacts
  DEF CloseStarts, TypeOK, ThreadInv, LeaseInv, ClosedInv, Alive, poolVars,
      sessionVars, boundaryVars, UserRuns, interruptVars
<1>14. ASSUME CloseReturns
      PROVE  ClosedInv'
  BY <1>14
  DEF CloseReturns, Awaited, TypeOK, ThreadInv, LeaseInv, ClosedInv, Alive,
      poolVars, sessionVars, interruptVars
<1>15. ASSUME CloseInterrupted
      PROVE  ClosedInv'
  BY <1>15
  DEF CloseInterrupted, TypeOK, ThreadInv, LeaseInv, ClosedInv, Alive,
      poolVars, sessionVars, interruptVars
<1>16. ASSUME ShutdownStarts
      PROVE  ClosedInv'
  BY <1>16
  DEF ShutdownStarts, TypeOK, ThreadInv, LeaseInv, ClosedInv, Alive,
      handleVars, poolVars, boundaryVars, interruptVars
<1>17. ASSUME ResourcesClose \/ ResourcesInterrupted \/ BeginInterrupted
      PROVE  ClosedInv'
  BY <1>17
  DEF ResourcesClose, ResourcesInterrupted, AllHandled, TypeOK, ThreadInv,
      LeaseInv, ClosedInv, Alive, handleVars, sessionVars, boundaryVars,
      BeginInterrupted, MayBegin, NoLeaseLeft, interruptVars
<1>18. ASSUME WriterStops
      PROVE  ClosedInv'
  BY <1>18
  DEF WriterStops, TypeOK, ThreadInv, LeaseInv, ClosedInv, Alive, handleVars,
      poolVars, boundaryVars, interruptVars
<1>19. ASSUME NEW h \in Handles, FindsPool(h)
      PROVE  ClosedInv'
  BY <1>19
  DEF FindsPool, TypeOK, ThreadInv, LeaseInv, ClosedInv, Alive, sessionVars,
      boundaryVars, interruptVars
<1>20. ASSUME NEW h \in Handles, Enters(h)
      PROVE  ClosedInv'
  BY <1>20
  DEF Enters, TypeOK, ThreadInv, LeaseInv, ClosedInv, Alive, poolVars,
      sessionVars, boundaryVars, interruptVars
<1>21. ASSUME NEW h \in Handles, Settles(h)
      PROVE  ClosedInv'
  BY <1>21, SettleFacts
  DEF TypeOK, ThreadInv, LeaseInv, ClosedInv, Alive, poolVars, sessionVars,
      boundaryVars, interruptVars
<1>22. CASE UNCHANGED vars
  BY <1>22
  DEF vars, TypeOK, ThreadInv, LeaseInv, ClosedInv, Alive, handleVars,
      poolVars, sessionVars, boundaryVars, interruptVars
<1> QED
  BY <1>1, <1>2, <1>3, <1>4, <1>5, <1>6, <1>7, <1>8, <1>9, <1>10, <1>11, <1>12,
     <1>13, <1>14, <1>15, <1>16, <1>17, <1>18, <1>19, <1>20, <1>21, <1>22,
     SettlingSteps
  DEF Next, Framework, Body, Responds

\* Every step keeps a pool to the one batch that holds its lock.
LEMMA PoolStep ==
  ASSUME TypeOK, PoolIsExclusive, [Next]_vars
  PROVE  PoolIsExclusive'
<1>1. ASSUME NEW changed \in BOOLEAN, BeginGeneration(changed)
      PROVE  PoolIsExclusive'
  BY <1>1
  DEF BeginGeneration, RunHasNext, NoLeaseLeft, TypeOK, PoolIsExclusive,
      PoolIdle, Handles, handleVars, boundaryVars, MayBegin, interruptVars
<1>2. ASSUME LeaveRun \/ BodyRaises \/ BeginRefused
      PROVE  PoolIsExclusive'
  BY <1>2
  DEF LeaveRun, BodyRaises, TypeOK, PoolIsExclusive, PoolIdle, Handles,
      handleVars, poolVars, sessionVars, boundaryVars, BeginRefused, MayBegin,
      interruptVars
<1>3. ASSUME BodyReturns
      PROVE  PoolIsExclusive'
  BY <1>3
  DEF BodyReturns, TypeOK, PoolIsExclusive, PoolIdle, Handles, handleVars,
      poolVars, sessionVars, interruptVars
<1>4. ASSUME Commit
      PROVE  PoolIsExclusive'
  BY <1>4
  DEF Commit, AllHandled, MayCommit, TypeOK, PoolIsExclusive, PoolIdle,
      Handles, handleVars, poolVars, sessionVars, interruptVars
<1>5. ASSUME BoundaryFails
      PROVE  PoolIsExclusive'
  BY <1>5
  DEF BoundaryFails, AllHandled, MayCommit, TypeOK, PoolIsExclusive, PoolIdle,
      Handles, handleVars, poolVars, sessionVars, boundaryVars, interruptVars
<1>6. ASSUME NEW h \in Handles, Prepare(h)
      PROVE  PoolIsExclusive'
  BY <1>6
  DEF Prepare, InBody, TypeOK, PoolIsExclusive, PoolIdle, Handles, poolVars,
      sessionVars, boundaryVars, UserRuns, interruptVars
<1>7. ASSUME NEW h \in Handles, Create(h)
      PROVE  PoolIsExclusive'
  BY <1>7
  DEF Create, InBody, SnapshotIsCurrent, TypeOK, PoolIsExclusive, PoolIdle,
      Handles, poolVars, sessionVars, boundaryVars, UserRuns, interruptVars
<1>8. ASSUME NEW h \in Handles, Start(h)
      PROVE  PoolIsExclusive'
  BY <1>8
  DEF Start, InBody, TypeOK, PoolIsExclusive, PoolIdle, Handles, poolVars,
      sessionVars, boundaryVars, UserRuns, interruptVars
<1>9. ASSUME NEW h \in Handles, StartFails(h)
      PROVE  PoolIsExclusive'
  BY <1>9
  DEF StartFails, InBody, TypeOK, PoolIsExclusive, PoolIdle, Handles, poolVars,
      sessionVars, boundaryVars, UserRuns, interruptVars
<1>10. ASSUME NEW h \in Handles, StartFit(h)
      PROVE  PoolIsExclusive'
  BY <1>10, CampaignAssumption
  DEF StartFit, InBody, TypeOK, PoolIsExclusive, PoolIdle, Handles, poolVars,
      sessionVars, boundaryVars, UserRuns, interruptVars
<1>11. ASSUME NEW h \in Handles, StartFitFails(h)
      PROVE  PoolIsExclusive'
  BY <1>11
  DEF StartFitFails, InBody, TypeOK, PoolIsExclusive, PoolIdle, Handles,
      poolVars, sessionVars, boundaryVars, UserRuns, interruptVars
<1>12. ASSUME NEW h \in Handles, Cancel(h)
      PROVE  PoolIsExclusive'
  BY <1>12, CancelFacts
  DEF Cancel, InBody, TypeOK, PoolIsExclusive, PoolIdle, Handles, poolVars,
      sessionVars, boundaryVars, UserRuns, interruptVars
<1>13. ASSUME NEW h \in Handles, CloseStarts(h)
      PROVE  PoolIsExclusive'
  BY <1>13, CancelFacts
  DEF CloseStarts, TypeOK, PoolIsExclusive, PoolIdle, Handles, poolVars,
      sessionVars, boundaryVars, UserRuns, interruptVars
<1>14. ASSUME CloseReturns
      PROVE  PoolIsExclusive'
  BY <1>14
  DEF CloseReturns, Awaited, TypeOK, PoolIsExclusive, PoolIdle, Handles,
      poolVars, sessionVars, interruptVars
<1>15. ASSUME CloseInterrupted
      PROVE  PoolIsExclusive'
  BY <1>15
  DEF CloseInterrupted, TypeOK, PoolIsExclusive, PoolIdle, Handles, poolVars,
      sessionVars, interruptVars
<1>16. ASSUME ShutdownStarts
      PROVE  PoolIsExclusive'
  BY <1>16
  DEF ShutdownStarts, TypeOK, PoolIsExclusive, PoolIdle, Handles, handleVars,
      poolVars, boundaryVars, interruptVars
<1>17. ASSUME ResourcesClose \/ ResourcesInterrupted \/ BeginInterrupted
      PROVE  PoolIsExclusive'
  BY <1>17
  DEF ResourcesClose, ResourcesInterrupted, AllHandled, TypeOK,
      PoolIsExclusive, PoolIdle, Handles, handleVars, sessionVars,
      boundaryVars, BeginInterrupted, MayBegin, NoLeaseLeft, interruptVars
<1>18. ASSUME WriterStops
      PROVE  PoolIsExclusive'
  BY <1>18
  DEF WriterStops, TypeOK, PoolIsExclusive, PoolIdle, Handles, handleVars,
      poolVars, boundaryVars, interruptVars
<1>19. ASSUME NEW h \in Handles, FindsPool(h)
      PROVE  PoolIsExclusive'
  BY <1>19
  DEF FindsPool, TypeOK, PoolIsExclusive, PoolIdle, Handles, sessionVars,
      boundaryVars, interruptVars
<1>20. ASSUME NEW h \in Handles, Enters(h)
      PROVE  PoolIsExclusive'
  BY <1>20
  DEF Enters, TypeOK, PoolIsExclusive, PoolIdle, Handles, poolVars,
      sessionVars, boundaryVars, interruptVars
<1>21. ASSUME NEW h \in Handles, Settles(h)
      PROVE  PoolIsExclusive'
  BY <1>21, SettleFacts
  DEF TypeOK, PoolIsExclusive, PoolIdle, Handles, poolVars, sessionVars,
      boundaryVars, interruptVars
<1>22. CASE UNCHANGED vars
  BY <1>22
  DEF vars, TypeOK, PoolIsExclusive, PoolIdle, Handles, handleVars, poolVars,
      sessionVars, boundaryVars, interruptVars
<1> QED
  BY <1>1, <1>2, <1>3, <1>4, <1>5, <1>6, <1>7, <1>8, <1>9, <1>10, <1>11, <1>12,
     <1>13, <1>14, <1>15, <1>16, <1>17, <1>18, <1>19, <1>20, <1>21, <1>22,
     SettlingSteps
  DEF Next, Framework, Body, Responds

-----------------------------------------------------------------------------
(* The theorems.                                                            *)

\* The invariant holds of every reachable state.
LEMMA Invariance == Spec => []Inv
<1>1. Inv /\ [Next]_vars => Inv'
  BY TypeStep, ThreadStep, LeaseStep, ClosedStep, PoolStep
  DEF Inv
<1> QED BY InitInv, <1>1, PTL DEF Spec

\* Handles, registry, pools and the run's counters keep their types.
THEOREM TypeCorrect == Spec => []TypeOK
BY Invariance, PTL DEF Inv

\* A lease is never carried over into a later generation.
THEOREM LeasesNeverStale == Spec => []LeasesAreCurrent
<1>1. Inv => LeasesAreCurrent
  BY DEF Inv, LeaseInv, LeasesAreCurrent
<1> QED BY Invariance, <1>1, PTL

\* Unless its own close was interrupted, a batch or a fit at work has its
\* lease, its snapshot and the writer.
THEOREM NothingIsLeftBehind == Spec => []NothingOutlives
<1>1. Inv => NothingOutlives
  <2> SUFFICES ASSUME Inv, NEW h \in Handles \ cut, Alive(h)
               PROVE  /\ h \in registry /\ snapshotOf[h] = current
                      /\ current \in snapshots /\ writer
    BY DEF NothingOutlives
  <2>1. state[h] # "none"
    BY DEF Inv, ThreadInv, Alive
  <2>2. h \in registry
    BY <2>1 DEF Inv, ClosedInv
  <2> QED BY <2>2 DEF Inv, LeaseInv
<1> QED BY Invariance, <1>1, PTL

\* An empty registry leaves nothing that was made open or at work.
LEMMA NoLeaseNothingOpen ==
  ASSUME Inv, registry = {}
  PROVE  Resolved
<1> SUFFICES ASSUME NEW h \in Handles \ cut
             PROVE  state[h] \in {"none", "closed"} /\ ~Alive(h)
  BY DEF Resolved
<1>1. state[h] = "none" => ~Alive(h)
  BY DEF Inv, ThreadInv, Alive
<1> QED BY <1>1 DEF Inv, ClosedInv

\* A completion is recorded, and the next generation begins, only when nothing
\* made so far is open or at work.
THEOREM CompletionsAreResolved == Spec => CompletedIsResolved
<1>1. Inv /\ [Next]_vars =>
        [/\ completed' # completed \/ current' # current => Resolved
         /\ completed' # completed => ~hadOpen /\ ~raised]_vars
  <2> SUFFICES ASSUME Inv, Next
               PROVE  /\ completed' # completed \/ current' # current => Resolved
                      /\ completed' # completed => ~hadOpen /\ ~raised
    OBVIOUS
  <2>1. ASSUME NEW changed \in BOOLEAN, BeginGeneration(changed)
        PROVE  completed' = completed /\ Resolved
    BY <2>1, NoLeaseNothingOpen DEF BeginGeneration, NoLeaseLeft, boundaryVars
  <2>2. ASSUME Commit
        PROVE  Resolved /\ ~hadOpen /\ ~raised
    <3>1. registry = {}
      BY <2>2, CampaignAssumption DEF Commit, AllHandled, Inv, LeaseInv, TypeOK
    <3> QED BY <2>2, <3>1, NoLeaseNothingOpen DEF Commit, MayCommit
  <2>3. ASSUME \/ BeginRefused \/ BeginInterrupted \/ LeaveRun \/ BodyRaises
               \/ BodyReturns \/ BoundaryFails \/ CloseReturns
               \/ CloseInterrupted \/ ShutdownStarts \/ ResourcesClose
               \/ ResourcesInterrupted \/ WriterStops
        PROVE  UNCHANGED <<completed, current>>
    BY <2>3
    DEF BeginRefused, BeginInterrupted, LeaveRun, BodyRaises, BodyReturns,
        BoundaryFails, CloseReturns, CloseInterrupted, ShutdownStarts,
        ResourcesClose, ResourcesInterrupted, WriterStops, sessionVars,
        boundaryVars
  <2>4. ASSUME NEW h \in Handles,
               \/ Prepare(h) \/ Create(h) \/ Start(h) \/ StartFails(h)
               \/ StartFit(h) \/ StartFitFails(h) \/ Cancel(h) \/ CloseStarts(h)
        PROVE  UNCHANGED <<completed, current>>
    BY <2>4
    DEF Prepare, Create, Start, StartFails, StartFit, StartFitFails, Cancel,
        CloseStarts, sessionVars, boundaryVars
  <2>5. ASSUME NEW h \in Handles, FindsPool(h) \/ Enters(h) \/ Settles(h)
        PROVE  UNCHANGED <<completed, current>>
    BY <2>5, SettleFacts
    DEF FindsPool, Enters, Inv, sessionVars, boundaryVars
  <2> QED BY <2>1, <2>2, <2>3, <2>4, <2>5, SettlingSteps
          DEF Next, Framework, Body, Responds
<1> QED BY Invariance, <1>1, PTL DEF Spec, CompletedIsResolved

\* No pool is closed under a batch that works with it, and no two batches work
\* with one pool.
THEOREM PoolsAreExclusive == Spec => []PoolIsExclusive
BY Invariance, PTL DEF Inv

\* A handle ends once: neither its thread, nor cancel(), nor a close changes
\* the outcome its waiters were given.
THEOREM OutcomesAreFinal == Spec => SettledOnce
<1>1. Inv /\ [Next]_vars =>
        [\A h \in Handles : settled[h] # "no" => settled'[h] = settled[h]]_vars
  <2> SUFFICES ASSUME Inv, Next, NEW g \in Handles, settled[g] # "no"
               PROVE  settled'[g] = settled[g]
    OBVIOUS
  <2>0. TypeOK /\ state[g] \notin {"none", "created"} /\ ~Alive(g)
    BY DEF Inv, ThreadInv
  <2>1. ASSUME NEW h \in Handles, Settles(h)
        PROVE  settled'[g] = settled[g]
    BY <2>0, <2>1, SettleFacts
  <2>2. ASSUME NEW h \in Handles, Cancel(h) \/ CloseStarts(h)
        PROVE  settled'[g] = settled[g]
    BY <2>0, <2>2, CancelFacts DEF Cancel, CloseStarts, UserRuns
  <2>3. ASSUME NEW h \in Handles, StartFails(h)
        PROVE  settled'[g] = settled[g]
    BY <2>0, <2>3 DEF StartFails, TypeOK
  <2>4. ASSUME NEW h \in Handles,
               \/ Prepare(h) \/ Create(h) \/ Start(h) \/ StartFit(h)
               \/ StartFitFails(h) \/ FindsPool(h) \/ Enters(h)
        PROVE  settled'[g] = settled[g]
    BY <2>4
    DEF Prepare, Create, Start, StartFit, StartFitFails, FindsPool, Enters
  <2>5. ASSUME \/ \E changed \in BOOLEAN : BeginGeneration(changed)
               \/ LeaveRun \/ BodyRaises \/ BodyReturns
               \/ BeginRefused \/ BeginInterrupted
               \/ Commit \/ BoundaryFails
               \/ CloseReturns \/ CloseInterrupted \/ ShutdownStarts
               \/ ResourcesClose \/ ResourcesInterrupted \/ WriterStops
        PROVE  settled'[g] = settled[g]
    BY <2>5
    DEF BeginGeneration, LeaveRun, BodyRaises, BodyReturns, Commit,
        BoundaryFails, CloseReturns, CloseInterrupted, ShutdownStarts,
        ResourcesClose, ResourcesInterrupted, WriterStops, handleVars,
        BeginRefused, BeginInterrupted, MayBegin, NoLeaseLeft, interruptVars
  <2> QED
    BY <2>1, <2>2, <2>3, <2>4, <2>5, SettlingSteps
    DEF Next, Framework, Body, Responds
<1> QED BY Invariance, <1>1, PTL DEF Spec, SettledOnce

\* Nothing reopens a handle that was closed in peace: its thread is gone
\* before close() returns.
THEOREM ClosedStaysClosed == Spec => ClosedIsFinal
<1>1. Inv /\ [Next]_vars =>
        [\A h \in Handles \ cut :
           state[h] = "closed" => state'[h] = "closed"]_vars
  <2> SUFFICES ASSUME Inv, Next, NEW g \in Handles \ cut,
                      state[g] = "closed"
               PROVE  state'[g] = "closed"
    OBVIOUS
  <2>0. TypeOK /\ g \in Handles /\ ~Alive(g) /\ g \notin registry
    BY DEF Inv, ClosedInv, LeaseInv
  <2>1. ASSUME NEW h \in Handles, Settles(h)
        PROVE  state'[g] = "closed"
    BY <2>0, <2>1, SettleFacts
  <2>2. ASSUME NEW h \in Handles, Cancel(h) \/ CloseStarts(h)
        PROVE  state'[g] = "closed"
    BY <2>0, <2>2, CancelFacts DEF Cancel, CloseStarts, UserRuns
  <2>3. ASSUME NEW h \in Handles,
               Create(h) \/ Start(h) \/ StartFails(h) \/ StartFit(h)
                 \/ StartFitFails(h)
        PROVE  state'[g] = "closed"
    BY <2>0, <2>3
    DEF Create, Start, StartFails, StartFit, StartFitFails, TypeOK
  <2>4. ASSUME NEW h \in Handles, Prepare(h) \/ FindsPool(h) \/ Enters(h)
        PROVE  state'[g] = "closed"
    BY <2>4 DEF Prepare, FindsPool, Enters
  <2>5. ASSUME CloseReturns \/ CloseInterrupted
        PROVE  state'[g] = "closed"
    BY <2>0, <2>5 DEF CloseReturns, CloseInterrupted, TypeOK
  <2>6. ASSUME \/ \E changed \in BOOLEAN : BeginGeneration(changed)
               \/ LeaveRun \/ BodyRaises \/ BodyReturns
               \/ BeginRefused \/ BeginInterrupted
               \/ Commit \/ BoundaryFails
               \/ ShutdownStarts \/ ResourcesClose \/ ResourcesInterrupted
               \/ WriterStops
        PROVE  state'[g] = "closed"
    BY <2>6
    DEF BeginGeneration, LeaveRun, BodyRaises, BodyReturns, Commit,
        BoundaryFails, ShutdownStarts, ResourcesClose, ResourcesInterrupted,
        WriterStops, handleVars, BeginRefused, BeginInterrupted, MayBegin,
        NoLeaseLeft, interruptVars
  <2> QED BY <2>1, <2>2, <2>3, <2>4, <2>5, <2>6, SettlingSteps
          DEF Next, Framework, Body, Responds
<1> QED BY Invariance, <1>1, PTL DEF Spec, ClosedIsFinal

\* A normal boundary never cancels a fit.
THEOREM FitsAreWaitedFor == Spec => BoundaryWaits
<1>1. Inv /\ [Next]_vars =>
        [pc = "finish" => \A h \in Trainings : asked'[h] = asked[h]]_vars
  <2> SUFFICES ASSUME Inv, Next, pc = "finish", NEW g \in Trainings
               PROVE  asked'[g] = asked[g]
    OBVIOUS
  <2>0. TypeOK /\ g \in Handles
    BY DEF Inv, Handles
  <2>1. ASSUME NEW h \in Handles, Settles(h)
        PROVE  asked'[g] = asked[g]
    BY <2>0, <2>1, SettleFacts
  <2>2. ASSUME NEW h \in Handles, CloseStarts(h)
        PROVE  asked'[g] = asked[g]
    BY <2>0, <2>2, CancelFacts DEF CloseStarts, Cancels, UserRuns
  <2>3. ASSUME NEW h \in Handles, FindsPool(h) \/ Enters(h)
        PROVE  asked'[g] = asked[g]
    BY <2>3 DEF FindsPool, Enters
  <2>4. ASSUME \/ LeaveRun \/ Commit \/ BoundaryFails \/ CloseReturns
               \/ CloseInterrupted \/ ShutdownStarts \/ ResourcesClose
               \/ ResourcesInterrupted \/ WriterStops
        PROVE  asked'[g] = asked[g]
    BY <2>4
    DEF LeaveRun, Commit, BoundaryFails, CloseReturns, CloseInterrupted,
        ShutdownStarts, ResourcesClose, ResourcesInterrupted, WriterStops,
        handleVars
  <2>5. ASSUME NEW h \in Handles,
               \/ Prepare(h) \/ Create(h) \/ Start(h) \/ StartFails(h)
               \/ StartFit(h) \/ StartFitFails(h) \/ Cancel(h)
        PROVE  FALSE
    BY <2>5
    DEF Prepare, Create, Start, StartFails, StartFit, StartFitFails, Cancel,
        InBody, UserRuns
  <2>6. /\ ~BodyRaises /\ ~BodyReturns /\ ~BeginRefused /\ ~BeginInterrupted
        /\ \A changed \in BOOLEAN : ~BeginGeneration(changed)
    BY DEF BodyRaises, BodyReturns, BeginGeneration, BeginRefused,
           BeginInterrupted, MayBegin
  <2> QED BY <2>1, <2>2, <2>3, <2>4, <2>5, <2>6, SettlingSteps
          DEF Next, Framework, Body, Responds
<1> QED BY Invariance, <1>1, PTL DEF Spec, BoundaryWaits
=============================================================================
