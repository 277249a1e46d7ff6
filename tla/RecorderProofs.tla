--------------------------- MODULE RecorderProofs ---------------------------
(***************************************************************************)
(* Proofs about the recorder for every value of its constants.             *)
(***************************************************************************)
EXTENDS RecorderLemmas

\* A stray touches the disk and its own record, nothing of the session.
LEMMA StrayIsApart ==
  ASSUME StrayStep
  PROVE  UNCHANGED <<session, sessions, lock, overlap, evidence, receipt,
                     queue, active, failing, unpublishedCount,
                     unpublishedBytes, flushRequested, shutdown, fatal, pc,
                     arg, failures, wpc, asleep, sequences>>
BY DEF StrayStep, StrayPublishes, StrayEnds, ownVars, rowVars, batchVars,
   flagVars, threadVars, diskVars

\* The lock is kept until close() ends: only close() stops the writer, and
\* only a stopped writer, close() itself or the loss of the process gives the
\* lock back.
LEMMA LockStep ==
  ASSUME LockInv, [Next]_vars
  PROVE  LockInv'
<1> USE DEF LockInv, LockKept
<1>1. ASSUME NEW t \in Threads, NEW e \in Envelopes, Submit(t, e)
      PROVE LockInv'
  BY <1>1 DEF Submit, sessionVars, flagVars
<1>2. ASSUME NEW t \in Threads, FlushStarts(t) \/ ThreadContinues(t)
      PROVE LockInv'
  BY <1>2 DEF FlushStarts, ThreadContinues, OfferRefused, OfferAdmitted,
     OfferBlocks, SubmitFails, FlushReturns, FlushRaises, FlushWaits,
     sessionVars, flagVars
<1>3. CASE WriterStep
  <2>1. CASE WriterExits
    <3>1. wpc # "dead" /\ lock' = (lock /\ ~shutdown) /\ wpc' = "dead"
          /\ session' = session /\ shutdown' = shutdown
      BY <2>1 DEF WriterExits, ReleaseOnExit, flagVars
    <3>2. session = "open" => lock /\ ~shutdown
      OBVIOUS
    <3> QED
      BY <3>1, <3>2, Zenon
  <2>2. CASE WriterStep /\ ~WriterExits
    BY <2>2 DEF WriterStep, WriterSleeps, TakeBatch, Publish,
       PublishRetries, PublishExhausted, OnPublished, ReleaseBatch,
       OnFailed, WriterFinishes, FailPending, sessionVars, flagVars
  <2> QED
    BY <1>3, <2>1, <2>2
<1>4. CASE WriterDies
  BY <1>4 DEF WriterDies, FailPending, sessionVars
<1>5. CASE Shutdown \/ CloseFinishes \/ CloseInterrupted \/ Crash \/ Open
  BY <1>5 DEF Shutdown, CloseFinishes, CloseInterrupted, Crash, Open,
     FreshWriter, flagVars
<1>7. CASE StrayStep
  BY <1>7, StrayIsApart
<1>6. CASE UNCHANGED vars
  BY <1>6 DEF vars, sessionVars, flagVars
<1> QED
  BY <1>1, <1>2, <1>3, <1>4, <1>5, <1>6, <1>7 DEF Next

-----------------------------------------------------------------------------
\* What the queue, the batch and the failing set hold is finite.
LEMMA OwnedIsFinite ==
  ASSUME TypeOK
  PROVE  /\ IsFiniteSet(Range(queue)) /\ Range(queue) \subseteq Envelopes
         /\ IsFiniteSet(Range(active)) /\ Range(active) \subseteq Envelopes
         /\ Cardinality(Range(active)) \in Nat
         /\ ReservedBytes(Range(active)) \in Nat
         /\ Cardinality(Unpublished) \in Nat
         /\ ReservedBytes(Unpublished) \in Nat
<1>1. /\ IsFiniteSet(Range(queue)) /\ Range(queue) \subseteq Envelopes
      /\ IsFiniteSet(Range(active)) /\ Range(active) \subseteq Envelopes
  BY RangeIsFinite DEF TypeOK
<1>2. IsFiniteSet(Unpublished)
  BY <1>1, FS_Union DEF Unpublished
<1> QED
  BY <1>1, <1>2, BytesOfSet, FS_CardinalityType

\* A group without gaps continues where it ends.
LEMMA NextNumber ==
  ASSUME NEW g \in Groups, NEW n \in Nat, Numbered(g, n)
  PROVE  NextSequence(g) = n
<1>1. CASE n = 0
  BY <1>1 DEF NextSequence, Numbered
<1>2. CASE n # 0
  <2>1. /\ n - 1 \in SequenceNumbers(g)
        /\ \A m \in SequenceNumbers(g) : m <= n - 1 /\ m \in Nat
    BY <1>2 DEF Numbered
  <2>2. \A x \in SequenceNumbers(g) :
          (\A m \in SequenceNumbers(g) : m <= x) => x = n - 1
    BY <2>1
  <2> QED BY <2>1, <2>2 DEF NextSequence
<1> QED BY <1>1, <1>2

\* Giving back what a set of envelopes reserved leaves two numbers.
LEMMA ReleaseType ==
  ASSUME TypeOK, NEW S, Release(S), Cardinality(S) \in Nat,
         ReservedBytes(S) \in Nat
  PROVE  unpublishedCount' \in Nat /\ unpublishedBytes' \in Nat
BY DEF TypeOK, Release, Monus

\* A new writer starts from an empty queue and no failed attempt.
LEMMA Initial ==
  <<>> \in Seq(Envelopes) /\ 0 \in 0..MaxFailures /\ 0 \in Nat
BY EmptySeq, RecorderAssumption

\* What FailPending leaves in the queue, the batch, the failing set and the
\* budget has the right type.
LEMMA FailPendingType ==
  ASSUME TypeOK, FailPending
  PROVE  /\ queue' \in Seq(Envelopes) /\ active' \in Seq(Envelopes)
         /\ failing' \subseteq Envelopes /\ fatal' \in BOOLEAN
         /\ unpublishedCount' \in Nat /\ unpublishedBytes' \in Nat
         /\ wpc' = "failing" /\ asleep' = {}
<1>1. Release(Unpublished)
  BY DEF FailPending
<1>2. unpublishedCount' \in Nat /\ unpublishedBytes' \in Nat
  BY <1>1, OwnedIsFinite, ReleaseType
<1>3. Retained \subseteq Envelopes
  BY OwnedIsFinite DEF Retained, Unpublished
<1> QED
  BY <1>2, <1>3, EmptySeq DEF FailPending, NotifyAll

\* The segment a batch becomes has the type of a segment.
LEMMA SegmentType ==
  ASSUME NEW b \in Seq(Envelopes), b # <<>>, NEW m \in [Groups -> Nat]
  PROVE  /\ SegmentOf(b, m) \in
              [group : Groups, sequence : Nat, candidates : SUBSET Envelopes]
         /\ Group[b[1]] \in Groups
<1>1. b[1] \in Envelopes
  BY ElementOfSeq, EmptySeq
<1>2. Range(b) \subseteq Envelopes
  BY RangeIsFinite
<1> QED BY <1>1, <1>2, RecorderAssumption DEF SegmentOf

\* What an interrupted writer has left is envelopes and numbers.
LEMMA LeftoverType ==
  ASSUME TypeOK
  PROVE  Leftover \in Seq(Envelopes) /\ Reached \in [Groups -> Nat]
<1>1. queue \in Seq(Envelopes) /\ active \in Seq(Envelopes)
      /\ <<>> \in Seq(Envelopes)
  BY EmptySeq DEF TypeOK
<1>2. Leftover \in Seq(Envelopes)
  BY <1>1, ConcatProperties DEF Leftover
<1>3. Reached \in [Groups -> Nat]
  BY DEF Reached, TypeOK
<1> QED BY <1>2, <1>3

\* A stray leaves segments on disk and a smaller record of the same type.
LEMMA StrayType ==
  ASSUME TypeOK, StrayStep
  PROVE  /\ segments' \subseteq
              [group : Groups, sequence : Nat, candidates : SUBSET Envelopes]
         /\ strays' \subseteq [left : Seq(Envelopes), sequences : [Groups -> Nat]]
<1> PICK w \in strays : StrayPublishes(w) \/ StrayEnds(w)
  BY DEF StrayStep
<1>1. w.left \in Seq(Envelopes) /\ w.sequences \in [Groups -> Nat]
  BY DEF TypeOK
<1>2. CASE StrayEnds(w)
  BY <1>2 DEF StrayEnds, diskVars, TypeOK
<1>3. CASE StrayPublishes(w)
  <2>1. PICK n \in 1..Len(w.left) :
          /\ segments' = Replaced(SegmentOf(SubSeq(w.left, 1, n), w.sequences))
          /\ strays' = (strays \ {w}) \cup
               WithWork([left |-> SubSeq(w.left, n + 1, Len(w.left)),
                         sequences |->
                           [w.sequences EXCEPT ![Group[w.left[1]]] = @ + 1]])
    BY <1>3 DEF StrayPublishes
  <2> DEFINE b == SubSeq(w.left, 1, n)
             r == SubSeq(w.left, n + 1, Len(w.left))
             m == [w.sequences EXCEPT ![Group[w.left[1]]] = @ + 1]
  <2>2. b \in Seq(Envelopes) /\ r \in Seq(Envelopes) /\ b # <<>>
    BY <1>1, RangeOfSplit
  <2>3. m \in [Groups -> Nat]
    <3>1. \A g \in Groups : w.sequences[g] \in Nat /\ w.sequences[g] + 1 \in Nat
      BY <1>1
    <3> QED BY <1>1, <3>1
  <2>4. SegmentOf(b, w.sequences) \in
          [group : Groups, sequence : Nat, candidates : SUBSET Envelopes]
    BY <1>1, <2>2, SegmentType
  <2> HIDE DEF b, r, m
  <2>5. /\ segments' = Replaced(SegmentOf(b, w.sequences))
        /\ strays' = (strays \ {w}) \cup WithWork([left |-> r, sequences |-> m])
    BY <2>1 DEF b, r, m
  <2> QED BY <2>2, <2>3, <2>4, <2>5 DEF Replaced, WithWork, TypeOK
<1> QED BY <1>2, <1>3

\* Every step keeps the types: the numbers the budget and the segment names
\* are made of stay numbers, because every set involved is finite and the
\* segment numbers have no gap.
LEMMA TypeStep ==
  ASSUME Inv, [Next]_vars
  PROVE  TypeOK'
<1> USE DEF Inv
<1> USE DEF sessionVars, rowVars, diskVars, batchVars, flagVars, threadVars
<1>1. ASSUME NEW t \in Threads, NEW e \in Envelopes, Submit(t, e)
      PROVE TypeOK'
  BY <1>1 DEF Submit, TypeOK, EvidenceStates, ReceiptStates
<1>2. ASSUME NEW t \in Threads, OfferRefused(t) PROVE TypeOK'
  BY <1>2 DEF OfferRefused, TypeOK
<1>3. ASSUME NEW t \in Threads, OfferAdmitted(t) PROVE TypeOK'
  <2>1. arg[t] \in Envelopes
    BY <1>3 DEF OfferAdmitted, OwnerInv, Offering
  <2>2. queue' \in Seq(Envelopes)
    BY <1>3, <2>1, AppendProperties DEF OfferAdmitted, TypeOK
  <2>3. Bytes[arg[t]] \in Nat
    BY <2>1, RecorderAssumption
  <2> QED BY <1>3, <2>2, <2>3 DEF OfferAdmitted, TypeOK, NotifyAll
<1>4. ASSUME NEW t \in Threads, OfferBlocks(t) PROVE TypeOK'
  BY <1>4 DEF OfferBlocks, TypeOK
<1>5. ASSUME NEW t \in Threads, SubmitFails(t) PROVE TypeOK'
  BY <1>5 DEF SubmitFails, TypeOK, EvidenceStates, ReceiptStates
<1>6. ASSUME NEW t \in Threads,
             FlushStarts(t) \/ FlushReturns(t) \/ FlushRaises(t) \/ FlushWaits(t)
      PROVE TypeOK'
  <2>1. CASE FlushStarts(t)
    BY <2>1 DEF FlushStarts, TypeOK, NotifyAll
  <2>2. CASE FlushReturns(t) \/ FlushRaises(t)
    BY <2>2 DEF FlushReturns, FlushRaises, TypeOK
  <2>3. CASE FlushWaits(t)
    BY <2>3 DEF FlushWaits, TypeOK
  <2> QED BY <1>6, <2>1, <2>2, <2>3
<1>7. CASE WriterSleeps
  BY <1>7 DEF WriterSleeps, TypeOK
<1>8. CASE TakeBatch
  <2>1. PICK n \in 1..Len(queue) :
          /\ active' = SubSeq(queue, 1, n)
          /\ queue' = SubSeq(queue, n + 1, Len(queue))
          /\ flushRequested' = (flushRequested /\ n < Len(queue))
    BY <1>8 DEF TakeBatch
  <2>2. active' \in Seq(Envelopes) /\ queue' \in Seq(Envelopes)
    BY <2>1, RangeOfSplit DEF TypeOK
  <2>3. flushRequested' \in BOOLEAN
    BY <2>1
  <2> QED BY <1>8, <2>2, <2>3 DEF TakeBatch, TypeOK
<1>9. CASE Publish
  <2>1. active # <<>>
    BY <1>9 DEF Publish, WriterInv
  <2>2. NewSegment \in
          [group : Groups, sequence : Nat, candidates : SUBSET Envelopes]
    BY <2>1, SegmentType DEF NewSegment, TypeOK
  <2> QED BY <1>9, <2>2 DEF Publish, Replaced, TypeOK
<1>10. CASE PublishRetries
  BY <1>10, RecorderAssumption DEF PublishRetries, TypeOK, Exhausted
<1>11. CASE PublishExhausted
  <2>1. TypeOK /\ FailPending
    BY <1>11 DEF PublishExhausted
  <2> QED
    BY <1>11, <2>1, FailPendingType, RecorderAssumption
    DEF PublishExhausted, WriterInv, TypeOK
<1>12. CASE OnPublished
  BY <1>12 DEF OnPublished, TypeOK, EvidenceStates, ReceiptStates
<1>13. CASE ReleaseBatch
  <2>1. unpublishedCount' \in Nat /\ unpublishedBytes' \in Nat
    BY <1>13, OwnedIsFinite, ReleaseType DEF ReleaseBatch
  <2>2. sequences' \in [Groups -> Nat]
    <3>1. PICK g : sequences' = [sequences EXCEPT ![g] = sequences[g] + 1]
      BY <1>13 DEF ReleaseBatch
    <3>2. \A h \in Groups : sequences[h] \in Nat /\ sequences[h] + 1 \in Nat
      BY DEF TypeOK
    <3> QED BY <3>1, <3>2 DEF TypeOK
  <2> QED
    BY <1>13, <2>1, <2>2, Initial DEF ReleaseBatch, TypeOK, NotifyAll
<1>14. CASE WriterDies
  <2>1. TypeOK /\ FailPending
    BY <1>14 DEF WriterDies
  <2> QED BY <1>14, <2>1, FailPendingType DEF WriterDies, TypeOK
<1>15. CASE OnFailed
  BY <1>15 DEF OnFailed, TypeOK, EvidenceStates, ReceiptStates
<1>16. CASE WriterFinishes
  BY <1>16 DEF WriterFinishes, TypeOK
<1>17. CASE WriterExits
  <2>1. lock' \in BOOLEAN /\ wpc' = "dead"
    BY <1>17 DEF WriterExits
  <2> QED BY <1>17, <2>1 DEF WriterExits, TypeOK
<1>18. CASE Shutdown \/ CloseFinishes \/ CloseInterrupted
  BY <1>18 DEF Shutdown, CloseFinishes, CloseInterrupted, TypeOK, NotifyAll
<1>19. CASE Crash
  BY <1>19, Initial
  DEF Crash, FreshWriter, TypeOK, EvidenceStates, ReceiptStates
<1>20. CASE Open
  <2>1. \A g \in Groups : NextSequence(g) \in Nat
    BY NextNumber DEF NumberInv, NumberedUpTo
  <2>4. strays' \subseteq [left : Seq(Envelopes), sequences : [Groups -> Nat]]
        /\ overlap' \in BOOLEAN
    BY <1>20, LeftoverType DEF Open, WithWork, TypeOK
  <2>2. sessions' \in 1..MaxSessions
    BY <1>20, RecorderAssumption DEF Open, TypeOK
  <2>3. evidence' \in [Envelopes -> EvidenceStates]
        /\ receipt' \in [Envelopes -> ReceiptStates]
    BY <1>20 DEF Open, Recovered, EvidenceStates, ReceiptStates
  <2> QED
    BY <1>20, <2>1, <2>2, <2>3, <2>4, Initial DEF Open, FreshWriter, TypeOK
<1>21. CASE UNCHANGED vars
  BY <1>21 DEF vars, TypeOK
<1>22. CASE StrayStep
  <2>1. /\ segments' \subseteq
             [group : Groups, sequence : Nat, candidates : SUBSET Envelopes]
        /\ strays' \subseteq [left : Seq(Envelopes), sequences : [Groups -> Nat]]
    BY <1>22, StrayType
  <2> QED BY <1>22, <2>1, StrayIsApart DEF TypeOK
<1> QED
  BY <1>1, <1>2, <1>3, <1>4, <1>5, <1>6, <1>7, <1>8, <1>9, <1>10, <1>11,
     <1>12, <1>13, <1>14, <1>15, <1>16, <1>17, <1>18, <1>19, <1>20, <1>21,
     <1>22
  DEF Next, ThreadContinues, WriterStep

\* FailPending leaves the writer with everything it held in failing.
LEMMA FailPendingOwners ==
  ASSUME TypeOK, FailPending
  PROVE  /\ Range(queue') = {} /\ Range(active') = {}
         /\ DOMAIN queue' = {} /\ DOMAIN active' = {}
         /\ failing' = Range(queue) \cup Range(active)
BY DEF FailPending, Retained, Unpublished, Range

\* A batch is of one group, and what the writer holds says where it is.
LEMMA WriterStepInv ==
  ASSUME Inv, [Next]_vars
  PROVE  WriterInv'
<1> USE DEF Inv, WriterInv
<1> USE DEF sessionVars, rowVars, diskVars, batchVars, flagVars, threadVars
<1>1. ASSUME NEW t \in Threads, NEW e \in Envelopes, Submit(t, e)
      PROVE WriterInv'
  BY <1>1 DEF Submit
<1>2. ASSUME NEW t \in Threads, FlushStarts(t) \/ ThreadContinues(t)
      PROVE WriterInv'
  BY <1>2 DEF FlushStarts, ThreadContinues, OfferRefused, OfferAdmitted,
     OfferBlocks, SubmitFails, FlushReturns, FlushRaises, FlushWaits,
     Refused, Unavailable
<1>3. CASE TakeBatch
  <2>1. PICK n \in 1..Len(queue) :
          /\ IsBatchSize(n)
          /\ active' = SubSeq(queue, 1, n)
    BY <1>3 DEF TakeBatch
  <2>2. /\ active' # <<>> /\ DOMAIN active' = 1..n /\ n >= 1
        /\ \A i \in 1..n : active'[i] = queue[i]
    <3>1. /\ active' \in Seq(Envelopes) /\ active' # <<>>
          /\ Len(active') = n /\ \A i \in 1..n : active'[i] = queue[i]
      <4>1. queue \in Seq(Envelopes)
        BY DEF TypeOK
      <4> HIDE DEF Inv, WriterInv
      <4> QED BY <2>1, <4>1, RangeOfSplit
    <3> QED BY <3>1, LenProperties
  <2>3. \A i \in 1..n : Group[queue[i]] = Group[queue[1]]
    BY <2>1 DEF IsBatchSize, BatchSizes
  <2> QED BY <1>3, <2>2, <2>3 DEF TakeBatch
<1>4. CASE PublishExhausted \/ WriterDies
  BY <1>4 DEF PublishExhausted, WriterDies, FailPending
<1>5. CASE ReleaseBatch \/ Open \/ Crash
  BY <1>5, RecorderAssumption
  DEF ReleaseBatch, Open, Crash, FreshWriter
<1>6. CASE PublishRetries
  BY <1>6, RecorderAssumption DEF PublishRetries, Exhausted, TypeOK
<1>7. CASE WriterSleeps \/ Publish \/ OnPublished \/ OnFailed
           \/ WriterFinishes \/ WriterExits
  BY <1>7 DEF WriterSleeps, Publish, OnPublished, OnFailed, WriterFinishes,
     WriterExits
<1>8. CASE Shutdown \/ CloseFinishes \/ CloseInterrupted \/ UNCHANGED vars
  BY <1>8 DEF Shutdown, CloseFinishes, CloseInterrupted, vars
<1>9. CASE StrayStep
  BY <1>9, StrayIsApart
<1> QED
  BY <1>1, <1>2, <1>3, <1>4, <1>5, <1>6, <1>7, <1>8, <1>9 DEF Next, WriterStep

\* An envelope no row knows has no owner, and the only writer of a workspace
\* has not published it.
LEMMA UnknownIsFree ==
  ASSUME Inv, NEW e \in Envelopes, Unknown(e), session # "down"
  PROVE  /\ e \notin Range(queue) \cup Range(active) \cup failing
         /\ overlap \/ e \notin Durable
         /\ \A t \in Threads : arg[t] # e
<1>1. ~Owned(e) /\ ~(wpc = "release" /\ e \in Range(active))
  BY DEF Inv, RowInv, Unknown
<1>2. overlap \/ e \notin Durable
  BY DEF Inv, DurableInv, Unknown
<1> QED BY <1>1, <1>2 DEF Owned

\* No step gives an envelope a second owner.
LEMMA OwnerStep ==
  ASSUME Inv, [Next]_vars
  PROVE  OwnerInv'
<1> USE DEF Inv, OwnerInv, Offering
<1> USE DEF sessionVars, rowVars, diskVars, batchVars, flagVars, threadVars
<1>1. ASSUME NEW t \in Threads, NEW e \in Envelopes, Submit(t, e)
      PROVE OwnerInv'
  <2>1. /\ e \notin Range(queue) \cup Range(active) \cup failing
        /\ \A u \in Threads : arg[u] # e
    BY <1>1, UnknownIsFree DEF Submit
  <2>2. \A u \in Threads : pc'[u] = (IF u = t THEN "offer" ELSE pc[u])
                           /\ arg'[u] = (IF u = t THEN e ELSE arg[u])
    BY <1>1 DEF Submit, TypeOK
  <2>3. e # NoEnvelope
    BY RecorderAssumption
  <2> QED BY <1>1, <2>1, <2>2, <2>3 DEF Submit
<1>2. ASSUME NEW t \in Threads, OfferRefused(t) PROVE OwnerInv'
  <2>1. \A u \in Threads : pc'[u] = (IF u = t THEN "refused" ELSE pc[u])
    BY <1>2 DEF OfferRefused, TypeOK
  <2> QED BY <1>2, <2>1 DEF OfferRefused
<1>3. ASSUME NEW t \in Threads, OfferAdmitted(t) PROVE OwnerInv'
  <2>1. /\ arg[t] \in Envelopes /\ NoEnvelope \notin Envelopes
        /\ arg[t] \notin Range(queue) \cup Range(active) \cup failing
        /\ \A u \in Threads : arg[u] = arg[t] => u = t
    BY <1>3, RecorderAssumption DEF OfferAdmitted
  <2>2. Range(queue') = Range(queue) \cup {arg[t]} /\ Distinct(queue')
    BY <1>3, <2>1, RangeOfAppend DEF OfferAdmitted, TypeOK
  <2>3. \A u \in Threads : pc'[u] = (IF u = t THEN "idle" ELSE pc[u])
                           /\ arg'[u] = (IF u = t THEN NoEnvelope ELSE arg[u])
    BY <1>3 DEF OfferAdmitted, TypeOK
  <2>4. active' = active /\ failing' = failing
    BY <1>3 DEF OfferAdmitted
  <2> QED BY <2>1, <2>2, <2>3, <2>4
<1>4. ASSUME NEW t \in Threads, SubmitFails(t) PROVE OwnerInv'
  <2>1. \A u \in Threads : pc'[u] = (IF u = t THEN "idle" ELSE pc[u])
                           /\ arg'[u] = (IF u = t THEN NoEnvelope ELSE arg[u])
    BY <1>4 DEF SubmitFails, TypeOK
  <2>2. arg[t] \in Envelopes /\ NoEnvelope \notin Envelopes
    BY <1>4, RecorderAssumption DEF SubmitFails
  <2> QED BY <1>4, <2>1, <2>2 DEF SubmitFails
<1>5. ASSUME NEW t \in Threads,
             \/ OfferBlocks(t) \/ FlushStarts(t) \/ FlushReturns(t)
             \/ FlushRaises(t) \/ FlushWaits(t)
      PROVE OwnerInv'
  <2>1. \A u \in Threads : pc'[u] \in {"offer", "refused"}
                           <=> pc[u] \in {"offer", "refused"}
    BY <1>5 DEF OfferBlocks, FlushStarts, FlushReturns, FlushRaises,
       FlushWaits, TypeOK
  <2>2. UNCHANGED <<arg, queue, active, failing>>
    BY <1>5 DEF OfferBlocks, FlushStarts, FlushReturns, FlushRaises,
       FlushWaits
  <2> QED BY <2>1, <2>2
<1>6. CASE TakeBatch
  <2>1. PICK n \in 1..Len(queue) :
          active' = SubSeq(queue, 1, n)
          /\ queue' = SubSeq(queue, n + 1, Len(queue))
    BY <1>6 DEF TakeBatch
  <2>2. /\ Range(queue) = Range(active') \cup Range(queue')
        /\ Distinct(active') /\ Distinct(queue')
        /\ Range(active') \cap Range(queue') = {}
    BY <2>1, RangeOfSplit DEF TypeOK
  <2>3. UNCHANGED <<pc, arg, failing>>
    BY <1>6 DEF TakeBatch
  <2> QED BY <2>2, <2>3
<1>7. CASE PublishExhausted \/ WriterDies
  <2>1. FailPending /\ UNCHANGED <<pc, arg>>
    BY <1>7 DEF PublishExhausted, WriterDies
  <2>2. /\ Range(queue') = {} /\ Range(active') = {}
        /\ DOMAIN queue' = {} /\ DOMAIN active' = {}
        /\ failing' = Range(queue) \cup Range(active)
    BY <2>1, FailPendingOwners
  <2> QED BY <2>1, <2>2 DEF Distinct
<1>8. CASE ReleaseBatch
  BY <1>8 DEF ReleaseBatch, Distinct, Range
<1>9. CASE Open \/ Crash
  BY <1>9 DEF Open, Crash, FreshWriter, Distinct, Range
<1>10. CASE OnFailed
  BY <1>10 DEF OnFailed
<1>11. CASE \/ WriterSleeps \/ Publish \/ PublishRetries \/ OnPublished
            \/ WriterFinishes \/ WriterExits \/ Shutdown \/ CloseFinishes
            \/ CloseInterrupted \/ StrayStep \/ UNCHANGED vars
  <2>1. UNCHANGED <<pc, arg, queue, active, failing>>
    BY <1>11, StrayIsApart
    DEF WriterSleeps, Publish, PublishRetries, OnPublished, WriterFinishes,
       WriterExits, Shutdown, CloseFinishes, CloseInterrupted, vars
  <2> QED BY <2>1
<1> QED
  BY <1>1, <1>2, <1>3, <1>4, <1>5, <1>6, <1>7, <1>8, <1>9, <1>10, <1>11
  DEF Next, ThreadContinues, WriterStep

\* A step that leaves the rows alone may hand envelopes on but not drop one.
LEMMA RowsKept ==
  ASSUME Inv, UNCHANGED rowVars, \A e \in Envelopes : Owned(e)' <=> Owned(e),
         wpc' = "release" => UNCHANGED <<wpc, active>>
  PROVE  RowInv'
BY DEF Inv, RowInv, rowVars

\* A receipt is pending exactly while its envelope is owned.
LEMMA RowStep ==
  ASSUME Inv, [Next]_vars
  PROVE  RowInv'
<1> USE DEF Inv, OwnerInv, Offering, WriterInv
<1> USE DEF sessionVars, rowVars, diskVars, batchVars, flagVars, threadVars
<1>0. NoEnvelope \notin Envelopes
  BY RecorderAssumption
<1>1. ASSUME NEW t \in Threads, NEW x \in Envelopes, Submit(t, x)
      PROVE RowInv'
  <2>1. \A u \in Threads : arg'[u] = IF u = t THEN x ELSE arg[u]
    BY <1>1 DEF Submit, TypeOK
  <2>2. arg[t] = NoEnvelope
    BY <1>1 DEF Submit
  <2>3. \A e \in Envelopes : Owned(e)' <=> Owned(e) \/ e = x
    BY <1>0, <1>1, <2>1, <2>2 DEF Submit, Owned
  <2>4. \A e \in Envelopes :
          /\ evidence'[e] = (IF e = x THEN "pending" ELSE evidence[e])
          /\ receipt'[e] = (IF e = x THEN "pending" ELSE receipt[e])
    BY <1>1 DEF Submit, TypeOK
  <2>5. ~(wpc = "release" /\ x \in Range(active))
    BY <1>1 DEF Submit, Unknown, RowInv
  <2> QED BY <1>1, <2>3, <2>4, <2>5 DEF Submit, RowInv
<1>2. ASSUME NEW t \in Threads, OfferAdmitted(t) PROVE RowInv'
  <2>1. \A u \in Threads : arg'[u] = IF u = t THEN NoEnvelope ELSE arg[u]
    BY <1>2 DEF OfferAdmitted, TypeOK
  <2>2. arg[t] \in Envelopes /\ Range(queue') = Range(queue) \cup {arg[t]}
    BY <1>2, RangeOfAppend DEF OfferAdmitted, TypeOK
  <2>3. \A e \in Envelopes : Owned(e)' <=> Owned(e)
    BY <1>0, <1>2, <2>1, <2>2 DEF OfferAdmitted, Owned
  <2> QED BY <1>2, <2>3, RowsKept DEF OfferAdmitted
<1>3. ASSUME NEW t \in Threads, SubmitFails(t) PROVE RowInv'
  <2>1. \A u \in Threads : arg'[u] = IF u = t THEN NoEnvelope ELSE arg[u]
    BY <1>3 DEF SubmitFails, TypeOK
  <2>2. \A e \in Envelopes : Owned(e)' <=> Owned(e) /\ e # arg[t]
    BY <1>0, <1>3, <2>1 DEF SubmitFails, Owned
  <2>3. \A e \in Envelopes :
          /\ evidence'[e] = (IF e = arg[t] THEN "recording_failed"
                                           ELSE evidence[e])
          /\ receipt'[e] = (IF e = arg[t] THEN "failed" ELSE receipt[e])
    BY <1>3 DEF SubmitFails, TypeOK
  <2>4. arg[t] \notin Range(active) /\ UNCHANGED <<wpc, active>>
    BY <1>3 DEF SubmitFails
  <2> QED BY <2>2, <2>3, <2>4 DEF RowInv
<1>4. CASE TakeBatch
  <2>1. PICK n \in 1..Len(queue) :
          active' = SubSeq(queue, 1, n)
          /\ queue' = SubSeq(queue, n + 1, Len(queue))
    BY <1>4 DEF TakeBatch
  <2>2. Range(queue) = Range(active') \cup Range(queue')
    BY <2>1, RangeOfSplit DEF TypeOK
  <2>3. Range(active) = {} /\ wpc = "idle" /\ wpc' = "publish"
    BY <1>4 DEF TakeBatch, Range
  <2>4. UNCHANGED <<rowVars, arg, failing>> /\ wpc' # "release"
    BY <1>4 DEF TakeBatch
  <2>5. \A e \in Envelopes : Owned(e)' <=> Owned(e)
    BY <2>2, <2>3, <2>4 DEF Owned
  <2> QED BY <2>4, <2>5, RowsKept
<1>5. CASE PublishExhausted \/ WriterDies
  <2>1. FailPending /\ UNCHANGED <<rowVars, arg>> /\ wpc # "release"
        /\ wpc # "failing" /\ wpc' # "release"
    BY <1>5 DEF PublishExhausted, WriterDies, FailPending
  <2>2. /\ Range(queue') = {} /\ Range(active') = {} /\ failing = {}
        /\ failing' = Range(queue) \cup Range(active)
    BY <2>1, FailPendingOwners
  <2>3. \A e \in Envelopes : Owned(e)' <=> Owned(e)
    BY <2>1, <2>2 DEF Owned
  <2> QED BY <2>1, <2>3, RowsKept
<1>6. CASE OnPublished
  <2>1. UNCHANGED <<arg, queue, active, failing>> /\ wpc = "published"
        /\ wpc' = "release" /\ failing = {}
    BY <1>6 DEF OnPublished
  <2>2. \A e \in Envelopes : e \in Range(active)
          => e \notin Range(queue) /\ \A t \in Threads : arg[t] # e
    BY <1>0
  <2>3. \A e \in Envelopes : Owned(e)' <=> Owned(e) /\ e \notin Range(active)
    BY <2>1, <2>2 DEF Owned
  <2>4. \A e \in Envelopes :
          /\ evidence'[e] = (IF e \in Range(active) THEN "committed"
                                                    ELSE evidence[e])
          /\ receipt'[e] = (IF e \in Range(active) /\ receipt[e] = "pending"
                            THEN "committed" ELSE receipt[e])
    BY <1>6 DEF OnPublished
  <2>5. \A e \in Range(active) : Owned(e)
    BY <2>1 DEF Owned
  <2> QED BY <2>1, <2>3, <2>4, <2>5 DEF RowInv
<1>7. CASE OnFailed
  <2>1. UNCHANGED <<arg, queue, active>> /\ failing' = {}
        /\ Range(queue) = {} /\ Range(active) = {} /\ wpc = "failing"
    BY <1>7 DEF OnFailed, Range
  <2>2. \A e \in Envelopes : e \in failing
          => Owned(e) /\ \A t \in Threads : arg[t] # e
    BY <1>0 DEF Owned
  <2>3. \A e \in Envelopes : Owned(e)' <=> Owned(e) /\ e \notin failing
    BY <2>1, <2>2 DEF Owned
  <2>4. \A e \in Envelopes :
          /\ evidence'[e] = (IF e \in failing THEN "recording_failed"
                                              ELSE evidence[e])
          /\ receipt'[e] = (IF e \in failing /\ receipt[e] = "pending"
                            THEN "failed" ELSE receipt[e])
    BY <1>7 DEF OnFailed, FailsReceipt
  <2> QED BY <2>1, <2>2, <2>3, <2>4 DEF RowInv
<1>8. CASE Open \/ Crash
  <2>1. \A e \in Envelopes : ~Owned(e)'
    BY <1>0, <1>8 DEF Open, Crash, FreshWriter, Owned, Range
  <2>2. \A e \in Envelopes : receipt'[e] = "none"
                             /\ evidence'[e] \in {"none", "committed"}
    BY <1>8 DEF Open, Crash, Recovered
  <2>3. wpc' # "release"
    BY <1>8 DEF Open, Crash
  <2> QED BY <2>1, <2>2, <2>3 DEF RowInv
<1>9. CASE ReleaseBatch
  <2>1. UNCHANGED <<rowVars, arg, queue, failing>> /\ Range(active') = {}
        /\ wpc = "release" /\ wpc' = "idle"
    BY <1>9 DEF ReleaseBatch, Range
  <2>2. \A e \in Envelopes : Owned(e)' <=> Owned(e)
    BY <2>1 DEF Owned
  <2> QED BY <2>1, <2>2, RowsKept
<1>10. CASE \/ \E t \in Threads :
                 \/ OfferRefused(t) \/ OfferBlocks(t) \/ FlushStarts(t)
                 \/ FlushReturns(t) \/ FlushRaises(t) \/ FlushWaits(t)
            \/ WriterSleeps \/ Publish \/ PublishRetries \/ WriterFinishes
            \/ WriterExits \/ Shutdown \/ CloseFinishes \/ CloseInterrupted
            \/ StrayStep \/ UNCHANGED vars
  <2>1. /\ UNCHANGED <<rowVars, arg, queue, active, failing>>
        /\ wpc' = "release" <=> wpc = "release"
    BY <1>10, StrayIsApart
    DEF OfferRefused, OfferBlocks, FlushStarts, FlushReturns, FlushRaises,
       FlushWaits, WriterSleeps, Publish, PublishRetries, WriterFinishes,
       WriterExits, Shutdown, CloseFinishes, CloseInterrupted, vars
  <2>2. \A e \in Envelopes : Owned(e)' <=> Owned(e)
    BY <2>1 DEF Owned
  <2> QED BY <2>1, <2>2, RowsKept
<1> QED
  BY <1>1, <1>2, <1>3, <1>4, <1>5, <1>6, <1>7, <1>8, <1>9, <1>10
  DEF Next, ThreadContinues, WriterStep

\* A stray stays on record: what held of the only writer was never lost.
LEMMA SoleWriter ==
  ASSUME Inv, [Next]_vars, ~overlap'
  PROVE  ~overlap /\ strays = {} /\ ~StrayStep
<1> USE DEF sessionVars
<1>1. ~overlap
  BY StrayIsApart
  DEF Next, Submit, FlushStarts, ThreadContinues, OfferRefused, OfferAdmitted,
     OfferBlocks, SubmitFails, FlushReturns, FlushRaises, FlushWaits,
     WriterStep, WriterSleeps, TakeBatch, Publish, PublishRetries,
     PublishExhausted, OnPublished, ReleaseBatch, OnFailed, WriterFinishes,
     WriterExits, WriterDies, Shutdown, CloseFinishes, CloseInterrupted,
     Crash, Open, vars
<1> QED BY <1>1 DEF Inv, StrayInv, StrayStep

\* A sole writer's segment joins those on disk.
LEMMA SolePublish ==
  ASSUME Publish, ~overlap
  PROVE  segments' = segments \cup {NewSegment}
BY DEF Publish, Replaced, Destination

\* Durable evidence is known and not waiting to be published; committed rows
\* and a published batch are durable: as long as the writer is the only one.
LEMMA DurableStep ==
  ASSUME Inv, [Next]_vars, ~overlap'
  PROVE  DurableInv'
<1> USE SoleWriter
<1> USE DEF Inv, DurableInv, CommittedIsDurable, OnDisk
<1> USE DEF sessionVars, rowVars, diskVars, batchVars, flagVars, threadVars
<1>0. NoEnvelope \notin Envelopes
  BY RecorderAssumption
<1>1. segments' = segments => Durable' = Durable
  BY DEF Durable
<1>2. Durable \subseteq Envelopes
  BY DEF Durable, TypeOK
<1>3. ASSUME NEW t \in Threads, NEW x \in Envelopes, Submit(t, x)
      PROVE DurableInv'
  <2>1. x \notin Durable
    BY <1>3, UnknownIsFree DEF Submit
  <2>2. \A u \in Threads : arg'[u] = IF u = t THEN x ELSE arg[u]
    BY <1>3 DEF Submit, TypeOK
  <2>3. \A e \in Envelopes :
          evidence'[e] = IF e = x THEN "pending" ELSE evidence[e]
    BY <1>3 DEF Submit, TypeOK
  <2>4. Durable' = Durable
    BY <1>1, <1>3 DEF Submit
  <2> QED BY <1>2, <1>3, <2>1, <2>2, <2>3, <2>4 DEF Submit
<1>4. ASSUME NEW t \in Threads, OfferAdmitted(t) PROVE DurableInv'
  <2>1. \A u \in Threads : arg'[u] = IF u = t THEN NoEnvelope ELSE arg[u]
    BY <1>4 DEF OfferAdmitted, TypeOK
  <2>2. arg[t] \in Envelopes /\ Range(queue') = Range(queue) \cup {arg[t]}
    BY <1>4, RangeOfAppend DEF OfferAdmitted, OwnerInv, Offering, TypeOK
  <2>3. Durable' = Durable
    BY <1>1, <1>4 DEF OfferAdmitted
  <2> QED BY <1>0, <1>2, <1>4, <2>1, <2>2, <2>3 DEF OfferAdmitted
<1>5. ASSUME NEW t \in Threads, SubmitFails(t) PROVE DurableInv'
  <2>1. \A u \in Threads : arg'[u] = IF u = t THEN NoEnvelope ELSE arg[u]
    BY <1>5 DEF SubmitFails, TypeOK
  <2>2. \A e \in Envelopes :
          evidence'[e] = IF e = arg[t] THEN "recording_failed" ELSE evidence[e]
    BY <1>5 DEF SubmitFails, TypeOK
  <2>3. Durable' = Durable
    BY <1>1, <1>5 DEF SubmitFails
  <2> QED BY <1>0, <1>2, <1>5, <2>1, <2>2, <2>3 DEF SubmitFails
<1>6. CASE TakeBatch
  <2>1. PICK n \in 1..Len(queue) :
          active' = SubSeq(queue, 1, n)
          /\ queue' = SubSeq(queue, n + 1, Len(queue))
    BY <1>6 DEF TakeBatch
  <2>2. Range(queue) = Range(active') \cup Range(queue')
    BY <2>1, RangeOfSplit DEF TypeOK
  <2>3. Durable' = Durable
    BY <1>1, <1>6 DEF TakeBatch
  <2> QED BY <1>6, <2>2, <2>3 DEF TakeBatch
<1>7. CASE Publish
  <2>1. Durable' = Durable \cup Range(active)
    <3>1. segments' = segments \cup {NewSegment}
          /\ NewSegment.candidates = Range(active)
      BY <1>7, SolePublish DEF NewSegment, SegmentOf
    <3> QED BY <3>1 DEF Durable
  <2>2. Range(active) \subseteq Envelopes
    BY OwnedIsFinite
  <2>3. \A e \in Range(active) :
          /\ evidence[e] = "pending" /\ e \notin Range(queue)
          /\ \A t \in Threads : arg[t] # e
    BY <1>0, <1>7, <2>2 DEF Publish, OwnerInv, Offering, RowInv, Owned
  <2> QED BY <1>7, <2>1, <2>2, <2>3 DEF Publish
<1>8. CASE PublishExhausted \/ WriterDies
  <2>1. FailPending /\ UNCHANGED <<session, evidence, arg, segments>>
    BY <1>8 DEF PublishExhausted, WriterDies
  <2>2. Range(queue') = {} /\ wpc' = "failing"
    BY <2>1, FailPendingOwners DEF FailPending
  <2> QED BY <1>1, <2>1, <2>2
<1>9. CASE OnPublished
  <2>1. \A e \in Envelopes : evidence'[e] =
          IF e \in Range(active) THEN "committed" ELSE evidence[e]
    BY <1>9 DEF OnPublished
  <2>2. Durable' = Durable
    BY <1>1, <1>9 DEF OnPublished
  <2> QED BY <1>2, <1>9, <2>1, <2>2 DEF OnPublished
<1>10. CASE OnFailed
  <2>1. \A e \in Envelopes : evidence'[e] =
          IF e \in failing THEN "recording_failed" ELSE evidence[e]
    BY <1>10 DEF OnFailed
  <2>2. Durable' = Durable
    BY <1>1, <1>10 DEF OnFailed
  <2> QED BY <1>2, <1>10, <2>1, <2>2 DEF OnFailed
<1>11. CASE ReleaseBatch
  <2>1. Durable' = Durable /\ wpc' = "idle"
        /\ UNCHANGED <<session, evidence, arg, queue>>
    BY <1>1, <1>11 DEF ReleaseBatch
  <2> QED BY <2>1
<1>12. CASE Open \/ Crash
  <2>1. Durable' = Durable
    BY <1>1, <1>12 DEF Open, Crash
  <2>2. Range(queue') = {} /\ wpc' \in {"idle", "dead"}
        /\ \A t \in Threads : arg'[t] = NoEnvelope
    BY <1>12 DEF Open, Crash, FreshWriter, Range
  <2>3. \A e \in Envelopes :
          \/ session' = "down" /\ evidence'[e] = "none"
          \/ evidence'[e] = IF e \in Durable THEN "committed" ELSE "none"
    BY <1>12 DEF Open, Crash, Recovered
  <2> QED BY <1>0, <1>2, <2>1, <2>2, <2>3
<1>13. CASE \/ \E t \in Threads :
                 \/ OfferRefused(t) \/ OfferBlocks(t) \/ FlushStarts(t)
                 \/ FlushReturns(t) \/ FlushRaises(t) \/ FlushWaits(t)
            \/ WriterSleeps \/ PublishRetries \/ WriterFinishes
            \/ WriterExits \/ Shutdown \/ CloseFinishes \/ CloseInterrupted
            \/ UNCHANGED vars
  <2>1. /\ UNCHANGED <<segments, evidence, arg, queue, active>>
        /\ session' = "down" <=> session = "down"
        /\ wpc' = wpc \/ wpc' \in {"exiting", "dead"}
    BY <1>13 DEF OfferRefused, OfferBlocks, FlushStarts, FlushReturns,
       FlushRaises, FlushWaits, WriterSleeps, PublishRetries,
       WriterFinishes, WriterExits, Shutdown, CloseFinishes,
       CloseInterrupted, vars
  <2> QED BY <1>1, <2>1
<1> QED
  BY <1>3, <1>4, <1>5, <1>6, <1>7, <1>8, <1>9, <1>10, <1>11, <1>12, <1>13
  DEF Next, ThreadContinues, WriterStep

\* A segment numbered at most one past the last leaves no gap.
LEMMA NumberAfter ==
  ASSUME TypeOK, NEW b \in Seq(Envelopes), b # <<>>, NEW m \in [Groups -> Nat],
         segments' = Replaced(SegmentOf(b, m)),
         NEW g \in Groups, NEW n \in Nat, Numbered(g, n), m[g] <= n
  PROVE  LET k == IF g = Group[b[1]] /\ m[g] = n THEN n + 1 ELSE n
         IN  k \in Nat /\ n <= k /\ Numbered(g, k)'
             /\ (g = Group[b[1]] => m[g] + 1 <= k)
<1> DEFINE h == Group[b[1]]
           s == SegmentOf(b, m)
<1>1. s.group = h /\ s.sequence = m[h] /\ m[g] \in Nat
  BY DEF SegmentOf
<1> HIDE DEF h, s
<1>2. segments' = {x \in segments : ~SameFile(x, s)} \cup {s}
  BY DEF Replaced, s
<1>3. SequenceNumbers(g)' =
        IF g = h THEN SequenceNumbers(g) \cup {m[g]} ELSE SequenceNumbers(g)
  <2>1. ASSUME NEW i PROVE i \in SequenceNumbers(g)' <=>
          i \in SequenceNumbers(g) \/ (g = h /\ i = m[g])
    BY <1>1, <1>2 DEF SequenceNumbers, SameFile
  <2> QED BY <2>1
<1>4. CASE g = h /\ m[g] = n
  <2>1. (0..(n - 1)) \cup {n} = 0..((n + 1) - 1)
    OBVIOUS
  <2> QED BY <1>3, <1>4, <2>1 DEF Numbered, h
<1>5. CASE g = h /\ m[g] # n
  <2>1. m[g] \in 0..(n - 1) /\ m[g] + 1 <= n
    BY <1>1, <1>5
  <2> QED BY <1>3, <1>5, <2>1 DEF Numbered, h
<1>6. CASE g # h
  BY <1>3, <1>6 DEF Numbered, h
<1> QED BY <1>4, <1>5, <1>6

\* Segment numbers stay without gaps.
LEMMA NumberStep ==
  ASSUME Inv, [Next]_vars
  PROVE  NumberInv'
<1> USE DEF Inv
<1> USE DEF sessionVars, rowVars, diskVars, batchVars, flagVars, threadVars
<1> SUFFICES ASSUME NEW g \in Groups
             PROVE  \E n \in Nat : NumberedUpTo(g, n)'
  BY DEF NumberInv, NumberedUpTo
<1>0. PICK n \in Nat : NumberedUpTo(g, n)
  BY DEF NumberInv, NumberedUpTo
<1>1. CASE Publish
  <2>1. /\ active # <<>> /\ active \in Seq(Envelopes)
        /\ sequences \in [Groups -> Nat]
    BY <1>1 DEF Publish, WriterInv, TypeOK
  <2>2. PICK b \in Seq(Envelopes), m \in [Groups -> Nat] :
          b = active /\ m = sequences
    BY <2>1
  <2>3. Reached[g] = m[g] /\ m[g] <= n /\ (~overlap => m[g] = n)
    BY <1>0, <1>1, <2>2 DEF Publish, Reached, NumberedUpTo
  <2> DEFINE k == IF g = Group[b[1]] /\ m[g] = n THEN n + 1 ELSE n
  <2>4. k \in Nat /\ n <= k /\ Numbered(g, k)'
        /\ (g = Group[b[1]] => m[g] + 1 <= k)
    <3>1. segments' = Replaced(SegmentOf(b, m)) /\ b # <<>>
      BY <1>1, <2>1, <2>2 DEF Publish, NewSegment
    <3>2. Numbered(g, n) /\ TypeOK
      BY <1>0 DEF NumberedUpTo
    <3> HIDE DEF Inv
    <3> QED BY <2>2, <2>3, <3>1, <3>2, NumberAfter
  <2>5. Reached'[g] = IF g = Group[b[1]] THEN m[g] + 1 ELSE m[g]
    BY <1>1, <2>2 DEF Publish, Reached
  <2>6. Reached'[g] <= k /\ (~overlap => Reached'[g] = k)
    BY <2>2, <2>3, <2>4, <2>5
  <2> HIDE DEF k
  <2>7. \A w \in strays : w.sequences[g] <= k
    <3>1. \A w \in strays : w.sequences[g] \in Nat /\ w.sequences[g] <= n
      BY <1>0 DEF NumberedUpTo, TypeOK
    <3> QED BY <2>4, <3>1
  <2>8. strays' = strays /\ overlap' = overlap
    BY <1>1 DEF Publish
  <2> QED BY <2>4, <2>6, <2>7, <2>8 DEF NumberedUpTo
<1>2. CASE StrayStep
  <2>1. PICK w \in strays : StrayPublishes(w) \/ StrayEnds(w)
    BY <1>2 DEF StrayStep
  <2>2. overlap /\ overlap' = overlap /\ Reached' = Reached
    BY <1>2, StrayIsApart DEF StrayInv, StrayStep, Reached
  <2>3. CASE StrayEnds(w)
    <3>1. Numbered(g, n)' /\ strays' \subseteq strays
      BY <1>0, <2>3 DEF StrayEnds, NumberedUpTo, Numbered, SequenceNumbers
    <3> QED BY <1>0, <2>2, <3>1 DEF NumberedUpTo
  <2>4. CASE StrayPublishes(w)
    <3>1. PICK c \in 1..Len(w.left) :
            /\ segments' = Replaced(SegmentOf(SubSeq(w.left, 1, c),
                                              w.sequences))
            /\ strays' = (strays \ {w}) \cup
                 WithWork([left |-> SubSeq(w.left, c + 1, Len(w.left)),
                           sequences |->
                             [w.sequences EXCEPT ![Group[w.left[1]]] = @ + 1]])
      BY <2>4 DEF StrayPublishes
    <3> DEFINE b == SubSeq(w.left, 1, c)
               h == Group[w.left[1]]
               m == [w.sequences EXCEPT ![h] = @ + 1]
               k == IF g = Group[b[1]] /\ w.sequences[g] = n
                    THEN n + 1 ELSE n
    <3>2. /\ w.left \in Seq(Envelopes) /\ w.sequences \in [Groups -> Nat]
          /\ w.sequences[g] <= n
      BY <1>0 DEF NumberedUpTo, TypeOK
    <3>3. b \in Seq(Envelopes) /\ b # <<>> /\ b[1] = w.left[1]
      <4>1. b \in Seq(Envelopes) /\ b # <<>> /\ \A i \in 1..c : b[i] = w.left[i]
        BY <3>2, RangeOfSplit
      <4>2. 1 \in 1..c
        BY LenProperties, <3>2
      <4> QED BY <4>1, <4>2
    <3>4. k \in Nat /\ n <= k /\ Numbered(g, k)'
          /\ (g = Group[b[1]] => w.sequences[g] + 1 <= k)
      <4>1. Numbered(g, n) /\ segments' = Replaced(SegmentOf(b, w.sequences))
        BY <1>0, <3>1 DEF NumberedUpTo
      <4> HIDE DEF b
      <4> QED BY <3>2, <3>3, <4>1, NumberAfter
    <3>5. m[g] = IF g = h THEN w.sequences[g] + 1 ELSE w.sequences[g]
      BY <3>2
    <3>6. m[g] <= k
      <4>1. Group[b[1]] = h
        BY <3>3
      <4>2. w.sequences[g] \in Nat
        BY <3>2
      <4> HIDE DEF b, h, m, k
      <4> QED BY <3>2, <3>4, <3>5, <4>1, <4>2
    <3>7. \A v \in strays' : v \in strays \/ v.sequences = m
      BY <3>1 DEF WithWork
    <3>8. /\ \A v \in strays : v.sequences[g] \in Nat /\ v.sequences[g] <= n
          /\ Reached[g] \in Nat /\ Reached[g] <= n
      BY <1>0, LeftoverType DEF NumberedUpTo, TypeOK
    <3>9. /\ \A v \in strays' : v.sequences[g] <= k
          /\ Reached[g] <= k
      <4> HIDE DEF k, m
      <4> QED BY <3>4, <3>6, <3>7, <3>8
    <3> QED BY <2>2, <3>4, <3>9 DEF NumberedUpTo
  <2> QED BY <2>1, <2>3, <2>4
<1>3. ASSUME UNCHANGED segments
      PROVE  Numbered(g, n)'
  BY <1>0, <1>3 DEF NumberedUpTo, Numbered, SequenceNumbers
<1>4. CASE ReleaseBatch
  <2>1. Reached' = Reached
    BY <1>4 DEF ReleaseBatch, Reached, TypeOK
  <2>2. UNCHANGED <<segments, strays, overlap>> /\ wpc = "release"
    BY <1>4 DEF ReleaseBatch
  <2> QED BY <1>0, <1>3, <2>1, <2>2 DEF NumberedUpTo
<1>5. CASE Open
  <2>1. NextSequence(g) = n
    BY <1>0, NextNumber DEF NumberedUpTo
  <2>2. UNCHANGED segments /\ Reached'[g] = n
    BY <1>5, <2>1 DEF Open, Reached
  <2>3. \A w \in strays' : w.sequences[g] <= n
    BY <1>0, <1>5 DEF Open, WithWork, NumberedUpTo
  <2>4. n <= n
    OBVIOUS
  <2> QED BY <1>3, <2>2, <2>3, <2>4 DEF NumberedUpTo
<1>6. CASE PublishExhausted \/ WriterDies
  <2>1. /\ UNCHANGED <<segments, sequences, strays, overlap>>
        /\ wpc' = "failing"
    BY <1>6 DEF PublishExhausted, WriterDies, FailPending
  <2>2. Reached'[g] = sequences[g] /\ sequences[g] \in Nat
        /\ Reached[g] \in {sequences[g], sequences[g] + 1}
    BY <2>1 DEF Reached, TypeOK
  <2>3. Reached'[g] <= n
    BY <1>0, <2>2 DEF NumberedUpTo
  <2> QED BY <1>0, <1>3, <2>1, <2>3 DEF NumberedUpTo
<1>7. CASE Crash
  <2>1. /\ UNCHANGED <<segments, sequences, strays, overlap>>
        /\ wpc' = "dead"
    BY <1>7 DEF Crash
  <2>2. Reached'[g] = sequences[g] /\ sequences[g] \in Nat
        /\ Reached[g] \in {sequences[g], sequences[g] + 1}
    BY <2>1 DEF Reached, TypeOK
  <2>3. Reached'[g] <= n
    BY <1>0, <2>2 DEF NumberedUpTo
  <2> QED BY <1>0, <1>3, <2>1, <2>3 DEF NumberedUpTo
<1>8. CASE TakeBatch \/ OnPublished \/ OnFailed \/ WriterFinishes \/ WriterExits
  <2>1. UNCHANGED <<segments, sequences, strays, overlap>>
    BY <1>8 DEF TakeBatch, OnPublished, OnFailed, WriterFinishes, WriterExits
  <2>2. /\ Reached' = Reached
        /\ wpc' \in {"idle", "publish", "published", "release"}
             => wpc \in {"idle", "publish", "published", "release"}
    BY <1>8, <2>1
    DEF TakeBatch, OnPublished, OnFailed, WriterFinishes, WriterExits, Reached
  <2> QED BY <1>0, <1>3, <2>1, <2>2 DEF NumberedUpTo
<1>9. CASE \/ \E t \in Threads, e \in Envelopes : Submit(t, e)
           \/ \E t \in Threads : FlushStarts(t) \/ ThreadContinues(t)
           \/ WriterSleeps \/ PublishRetries \/ Shutdown \/ CloseFinishes
           \/ CloseInterrupted \/ UNCHANGED vars
  <2>1. UNCHANGED <<segments, sequences, active, wpc, strays, overlap>>
    BY <1>9 DEF Submit, FlushStarts, ThreadContinues, OfferRefused,
       OfferAdmitted, OfferBlocks, SubmitFails, FlushReturns, FlushRaises,
       FlushWaits, WriterSleeps, PublishRetries, Shutdown, CloseFinishes,
       CloseInterrupted, vars
  <2>2. Reached' = Reached
    BY <2>1 DEF Reached
  <2> QED BY <1>0, <1>3, <2>1, <2>2 DEF NumberedUpTo
<1> QED
  BY <1>1, <1>2, <1>4, <1>5, <1>6, <1>7, <1>8, <1>9 DEF Next, WriterStep

\* A sole writer gives a new segment a new name and candidates no other
\* segment holds.
LEMMA OnceStep ==
  ASSUME Inv, [Next]_vars
  PROVE  PublishedOnce'
<1> SUFFICES ASSUME ~overlap' PROVE PublishedOnce'
  BY DEF PublishedOnce
<1>0. ~overlap /\ ~StrayStep
  BY SoleWriter
<1>1. CASE Publish
  <2>1. segments' = segments \cup {NewSegment}
        /\ \A s \in segments : ~SameFile(s, NewSegment)
    BY <1>0, <1>1, SolePublish DEF Publish, Destination
  <2>2. NewSegment.candidates = Range(active)
    BY DEF NewSegment, SegmentOf
  <2>3. \A s \in segments : s.candidates \cap Range(active) = {}
    <3>1. \A e \in Durable : e \notin Range(active)
      BY <1>0, <1>1 DEF Publish, Inv, DurableInv
    <3> QED BY <3>1 DEF Durable
  <2>4. \A r, s : SameFile(r, s) <=> SameFile(s, r)
    BY DEF SameFile
  <2> HIDE DEF NewSegment
  <2> QED BY <1>0, <2>1, <2>2, <2>3, <2>4 DEF PublishedOnce, Inv
<1>2. CASE ~Publish
  <2>1. UNCHANGED segments
    BY <1>0, <1>2
    DEF Next, Submit, FlushStarts, ThreadContinues, OfferRefused,
       OfferAdmitted, OfferBlocks, SubmitFails, FlushReturns, FlushRaises,
       FlushWaits, WriterStep, WriterSleeps, TakeBatch, PublishRetries,
       PublishExhausted, OnPublished, ReleaseBatch, OnFailed, WriterFinishes,
       WriterExits, WriterDies, Shutdown, CloseFinishes, CloseInterrupted,
       Crash, Open, vars, diskVars
  <2> QED BY <1>0, <2>1 DEF PublishedOnce, Inv
<1> QED BY <1>1, <1>2

\* A stray comes only from a session opened beside it, which is on record.
LEMMA StrayInvStep ==
  ASSUME Inv, [Next]_vars
  PROVE  StrayInv'
<1> SUFFICES ASSUME ~overlap' PROVE strays' = {}
  BY DEF StrayInv
<1>0. ~overlap /\ strays = {} /\ ~StrayStep
  BY SoleWriter
<1>1. CASE Open
  <2> DEFINE w == [left |-> Leftover, sequences |-> Reached]
  <2>1. Leftover = <<>> /\ strays' = WithWork(w)
    BY <1>0, <1>1 DEF Open
  <2>2. w.left = Leftover
    OBVIOUS
  <2> HIDE DEF w
  <2> QED BY <2>1, <2>2 DEF WithWork
<1>2. CASE ~Open
  BY <1>0, <1>2
  DEF Next, Submit, FlushStarts, ThreadContinues, OfferRefused,
     OfferAdmitted, OfferBlocks, SubmitFails, FlushReturns, FlushRaises,
     FlushWaits, WriterStep, WriterSleeps, TakeBatch, Publish,
     PublishRetries, PublishExhausted, OnPublished, ReleaseBatch, OnFailed,
     WriterFinishes, WriterExits, WriterDies, Shutdown, CloseFinishes,
     CloseInterrupted, Crash, vars, sessionVars
<1> QED BY <1>1, <1>2

\* As long as the writer can be used, only the size of an envelope refuses it:
\* a writer that failed, was shut down or died stays so in its session.
LEMMA FailStep ==
  ASSUME Inv, [Next]_vars
  PROVE  FailInv'
<1> USE DEF Inv
<1> USE DEF sessionVars, rowVars, diskVars, batchVars, flagVars, threadVars
<1> SUFFICES ASSUME ~Unavailable'
             PROVE  /\ \A e \in Envelopes : receipt'[e] = "failed"
                         => Bytes[e] > MaxCandidateBytes
                    /\ \A t \in Threads : pc'[t] = "refused"
                         => Bytes[arg'[t]] > MaxCandidateBytes
  BY DEF FailInv
<1>1. CASE Open
  BY <1>1 DEF Open, FreshWriter
<1>2. CASE Crash
  BY <1>2 DEF Crash, Unavailable
<1>3. CASE ~Open /\ ~Crash
  <2>1. ~Unavailable
    BY <1>3, StrayIsApart
    DEF Unavailable, Next, Submit, FlushStarts, ThreadContinues, OfferRefused,
       OfferAdmitted, OfferBlocks, SubmitFails, FlushReturns, FlushRaises,
       FlushWaits, WriterStep, WriterSleeps, TakeBatch, Publish,
       PublishRetries, PublishExhausted, OnPublished, ReleaseBatch, OnFailed,
       WriterFinishes, WriterExits, WriterDies, FailPending, Shutdown,
       CloseFinishes, CloseInterrupted, vars
  <2>2. /\ \A e \in Envelopes : receipt[e] = "failed"
             => Bytes[e] > MaxCandidateBytes
        /\ \A t \in Threads : pc[t] = "refused"
             => Bytes[arg[t]] > MaxCandidateBytes
    BY <2>1 DEF FailInv
  <2>3. ASSUME NEW t \in Threads, NEW x \in Envelopes, Submit(t, x)
        PROVE  /\ \A e \in Envelopes :
                    receipt'[e] = (IF e = x THEN "pending" ELSE receipt[e])
               /\ \A u \in Threads :
                    u # t => pc'[u] = pc[u] /\ arg'[u] = arg[u]
               /\ pc'[t] = "offer"
    BY <2>3 DEF Submit, TypeOK
  <2>4. ASSUME NEW t \in Threads, OfferRefused(t)
        PROVE  /\ receipt' = receipt /\ arg' = arg
               /\ Bytes[arg[t]] > MaxCandidateBytes
               /\ \A u \in Threads : u # t => pc'[u] = pc[u]
    BY <2>1, <2>4 DEF OfferRefused, Refused, TypeOK
  <2>5. ASSUME NEW t \in Threads, SubmitFails(t)
        PROVE  /\ \A e \in Envelopes :
                    receipt'[e] = (IF e = arg[t] THEN "failed" ELSE receipt[e])
               /\ Bytes[arg[t]] > MaxCandidateBytes
               /\ \A u \in Threads :
                    u # t => pc'[u] = pc[u] /\ arg'[u] = arg[u]
               /\ pc'[t] = "idle"
    BY <2>2, <2>5 DEF SubmitFails, TypeOK
  <2>6. ASSUME NEW t \in Threads, OfferAdmitted(t)
        PROVE  /\ receipt' = receipt /\ pc'[t] = "idle"
               /\ \A u \in Threads :
                    u # t => pc'[u] = pc[u] /\ arg'[u] = arg[u]
    BY <2>6 DEF OfferAdmitted, TypeOK
  <2>7. ASSUME NEW t \in Threads,
               \/ OfferBlocks(t) \/ FlushStarts(t) \/ FlushReturns(t)
               \/ FlushRaises(t) \/ FlushWaits(t)
        PROVE  /\ receipt' = receipt /\ arg' = arg
               /\ \A u \in Threads : pc'[u] = "refused" => pc[u] = "refused"
    BY <2>7 DEF OfferBlocks, FlushStarts, FlushReturns, FlushRaises,
       FlushWaits, TypeOK
  <2>8. ASSUME OnPublished
        PROVE  UNCHANGED <<pc, arg>> /\ \A e \in Envelopes :
                 receipt'[e] = "failed" => receipt[e] = "failed"
    BY <2>8 DEF OnPublished
  <2>9. ~OnFailed
    BY <2>1 DEF OnFailed, WriterInv, Unavailable
  <2>10. ASSUME \/ WriterSleeps \/ TakeBatch \/ Publish \/ PublishRetries
                \/ PublishExhausted \/ ReleaseBatch \/ WriterFinishes
                \/ WriterExits \/ WriterDies \/ Shutdown \/ CloseFinishes
                \/ CloseInterrupted \/ StrayStep \/ UNCHANGED vars
         PROVE  UNCHANGED <<receipt, pc, arg>>
    BY <2>10, StrayIsApart
    DEF WriterSleeps, TakeBatch, Publish, PublishRetries, PublishExhausted,
       ReleaseBatch, WriterFinishes, WriterExits, WriterDies, Shutdown,
       CloseFinishes, CloseInterrupted, vars
  <2> HIDE DEF Inv
  <2>11. CASE \E t \in Threads, x \in Envelopes : Submit(t, x)
    BY <2>2, <2>3, <2>11
  <2>12. CASE \E t \in Threads : OfferRefused(t)
    BY <2>2, <2>4, <2>12
  <2>13. CASE \E t \in Threads : SubmitFails(t)
    BY <2>2, <2>5, <2>13
  <2>14. CASE \E t \in Threads : OfferAdmitted(t)
    BY <2>2, <2>6, <2>14
  <2>15. CASE \E t \in Threads :
                \/ OfferBlocks(t) \/ FlushStarts(t) \/ FlushReturns(t)
                \/ FlushRaises(t) \/ FlushWaits(t)
    BY <2>2, <2>7, <2>15
  <2>16. CASE OnPublished
    BY <2>2, <2>8, <2>16
  <2>17. CASE \/ WriterSleeps \/ TakeBatch \/ Publish \/ PublishRetries
              \/ PublishExhausted \/ ReleaseBatch \/ WriterFinishes
              \/ WriterExits \/ WriterDies \/ Shutdown \/ CloseFinishes
              \/ CloseInterrupted \/ StrayStep \/ UNCHANGED vars
    BY <2>2, <2>10, <2>17
  <2> QED
    BY <1>3, <2>9, <2>11, <2>12, <2>13, <2>14, <2>15, <2>16, <2>17
    DEF Next, ThreadContinues, WriterStep
<1> QED BY <1>1, <1>2, <1>3

\* Giving back everything that is retained empties both budgets.
LEMMA BudgetEmptied ==
  ASSUME TypeOK, BudgetAccounting, Release(Unpublished), Unpublished' = {}
  PROVE  BudgetAccounting'
<1>1. Cardinality(Unpublished) \in Nat /\ ReservedBytes(Unpublished) \in Nat
  BY OwnedIsFinite
<1>2. unpublishedCount' = 0 /\ unpublishedBytes' = 0
  BY <1>1 DEF Release, Monus, BudgetAccounting
<1> QED
  BY <1>2, SizeOfNothing, RecorderAssumption DEF BudgetAccounting

\* The budget is charged once for each envelope the writer takes in and given
\* back once: published, or failed.
LEMMA BudgetStep ==
  ASSUME Inv, [Next]_vars
  PROVE  BudgetAccounting'
<1> USE DEF Inv
<1> USE DEF sessionVars, rowVars, diskVars, batchVars, flagVars, threadVars
<1>1. ASSUME NEW t \in Threads, OfferAdmitted(t) PROVE BudgetAccounting'
  <2> DEFINE e == arg[t]
  <2>1. /\ e \in Envelopes /\ e \notin Unpublished
        /\ Bytes[e] <= MaxCandidateBytes /\ Bytes[e] \in Nat
    BY <1>1, RecorderAssumption
    DEF OfferAdmitted, OwnerInv, Offering, Refused, Unpublished
  <2>2. Unpublished' = Unpublished \cup {e}
    BY <1>1, <2>1, RangeOfAppend DEF OfferAdmitted, Unpublished, TypeOK
  <2> HIDE DEF e
  <2>3. IsFiniteSet(Unpublished)
    BY OwnedIsFinite, FS_Union DEF Unpublished
  <2>4. /\ Cardinality(Unpublished') = Cardinality(Unpublished) + 1
        /\ ReservedBytes(Unpublished') = ReservedBytes(Unpublished) + Bytes[e]
    <3>1. /\ IsFiniteSet({e}) /\ Cardinality({e}) = 1
          /\ Unpublished \cap {e} = {}
      BY <2>1, FS_Singleton
    <3>2. ReservedBytes({e}) = Bytes[e]
      BY <2>1, BytesOfOne
    <3>3. /\ Cardinality(Unpublished \cup {e})
               = Cardinality(Unpublished) + Cardinality({e})
          /\ ReservedBytes(Unpublished \cup {e})
               = ReservedBytes(Unpublished) + ReservedBytes({e})
      BY <2>3, <3>1, SizeOfUnion
    <3> QED BY <2>2, <3>1, <3>2, <3>3
  <2>5. /\ unpublishedCount' = unpublishedCount + 1
        /\ unpublishedBytes' = unpublishedBytes + Bytes[e]
        /\ HasCapacity(e)
    BY <1>1 DEF OfferAdmitted, e
  <2> QED BY <2>4, <2>5 DEF BudgetAccounting, HasCapacity
<1>2. CASE TakeBatch
  <2>1. PICK n \in 1..Len(queue) :
          active' = SubSeq(queue, 1, n)
          /\ queue' = SubSeq(queue, n + 1, Len(queue))
    BY <1>2 DEF TakeBatch
  <2>2. Range(queue) = Range(active') \cup Range(queue')
    BY <2>1, RangeOfSplit DEF TypeOK
  <2>3. Range(active) = {}
    BY <1>2 DEF TakeBatch, WriterInv, Range
  <2>4. Unpublished' = Unpublished
    BY <2>2, <2>3 DEF Unpublished
  <2> QED BY <1>2, <2>4 DEF TakeBatch, BudgetAccounting
<1>3. CASE PublishExhausted \/ WriterDies
  <2>1. FailPending
    BY <1>3 DEF PublishExhausted, WriterDies
  <2>2. Release(Unpublished) /\ Unpublished' = {}
    BY <2>1, FailPendingOwners DEF FailPending, Unpublished
  <2> QED BY <2>2, BudgetEmptied
<1>4. CASE ReleaseBatch
  <2>1. Unpublished' = Range(queue)
    BY <1>4 DEF ReleaseBatch, Unpublished, Range
  <2>2. /\ Cardinality(Unpublished)
             = Cardinality(Range(queue)) + Cardinality(Range(active))
        /\ ReservedBytes(Unpublished)
             = ReservedBytes(Range(queue)) + ReservedBytes(Range(active))
        /\ Cardinality(Range(queue)) \in Nat
        /\ ReservedBytes(Range(queue)) \in Nat
        /\ Cardinality(Range(active)) \in Nat
        /\ ReservedBytes(Range(active)) \in Nat
    BY OwnedIsFinite, SizeOfUnion DEF OwnerInv, Unpublished
  <2>3. Release(Range(active))
    BY <1>4 DEF ReleaseBatch
  <2>4. /\ unpublishedCount' = Cardinality(Range(queue))
        /\ unpublishedBytes' = ReservedBytes(Range(queue))
    BY <2>2, <2>3 DEF Release, Monus, BudgetAccounting
  <2>5. /\ unpublishedCount' <= MaxUnpublishedCount
        /\ unpublishedBytes' <= MaxUnpublishedBytes
    BY <2>2, <2>4, RecorderAssumption DEF BudgetAccounting
  <2> QED BY <2>1, <2>4, <2>5 DEF BudgetAccounting
<1>5. CASE Open \/ Crash
  <2>1. Unpublished' = {} /\ unpublishedCount' = 0 /\ unpublishedBytes' = 0
    BY <1>5 DEF Open, Crash, FreshWriter, Unpublished, Range
  <2> QED
    BY <2>1, SizeOfNothing, RecorderAssumption DEF BudgetAccounting
<1>6. ASSUME UNCHANGED <<queue, active, unpublishedCount, unpublishedBytes>>
      PROVE  BudgetAccounting'
  BY <1>6 DEF BudgetAccounting, Unpublished
<1>7. ASSUME NEW t \in Threads,
             \/ \E e \in Envelopes : Submit(t, e)
             \/ OfferRefused(t) \/ OfferBlocks(t) \/ SubmitFails(t)
             \/ FlushStarts(t) \/ FlushReturns(t)
             \/ FlushRaises(t) \/ FlushWaits(t)
      PROVE  BudgetAccounting'
  <2>1. UNCHANGED <<queue, active, unpublishedCount, unpublishedBytes>>
    BY <1>7 DEF Submit, OfferRefused, OfferBlocks, SubmitFails, FlushStarts,
       FlushReturns, FlushRaises, FlushWaits
  <2> QED BY <1>6, <2>1
<1>8. CASE \/ WriterSleeps \/ Publish \/ PublishRetries \/ OnPublished
           \/ OnFailed \/ WriterFinishes \/ WriterExits
           \/ Shutdown \/ CloseFinishes \/ CloseInterrupted \/ StrayStep
           \/ UNCHANGED vars
  <2>1. UNCHANGED <<queue, active, unpublishedCount, unpublishedBytes>>
    BY <1>8, StrayIsApart
    DEF WriterSleeps, Publish, PublishRetries, OnPublished, OnFailed,
       WriterFinishes, WriterExits, Shutdown, CloseFinishes,
       CloseInterrupted, vars
  <2> QED BY <1>6, <2>1
<1> QED
  BY <1>1, <1>2, <1>3, <1>4, <1>5, <1>7, <1>8
  DEF Next, ThreadContinues, WriterStep

-----------------------------------------------------------------------------
\* The initial state: nothing owned, nothing durable, nothing numbered.
LEMMA InitInv == Init => Inv
<1> SUFFICES ASSUME Init PROVE Inv
  OBVIOUS
<1> USE DEF Init
<1>1. Range(queue) = {} /\ Range(active) = {} /\ Durable = {}
      /\ \A g \in Groups : SequenceNumbers(g) = {}
  BY DEF Range, Durable, SequenceNumbers
<1>2. \A t \in Threads : arg[t] = NoEnvelope /\ pc[t] = "idle"
  OBVIOUS
<1>3. NoEnvelope \notin Envelopes
  BY RecorderAssumption
<1>4. TypeOK
  <2>1. 1 \in 1..MaxSessions
    BY RecorderAssumption
  <2>2. /\ evidence \in [Envelopes -> EvidenceStates]
        /\ receipt \in [Envelopes -> ReceiptStates]
    BY DEF EvidenceStates, ReceiptStates
  <2> QED BY <2>1, <2>2, Initial DEF TypeOK
<1>5. LockInv /\ OwnerInv /\ FailInv /\ StrayInv
  BY <1>1, <1>2, <1>3
  DEF LockInv, LockKept, OwnerInv, Offering, Distinct, FailInv, StrayInv
<1>6. WriterInv
  BY RecorderAssumption DEF WriterInv
<1>7. RowInv
  BY <1>1, <1>2, <1>3 DEF RowInv, Owned
<1>8. DurableInv
  BY <1>1 DEF DurableInv, CommittedIsDurable, OnDisk
<1>9. NumberInv
  <2>1. 0 \in Nat /\ 0..(0 - 1) = {}
    OBVIOUS
  <2>2. \A g \in Groups : Numbered(g, 0) /\ Reached[g] = 0
    BY <1>1, <2>1 DEF Numbered, Reached
  <2>3. 0 <= 0
    OBVIOUS
  <2> QED BY <2>1, <2>2, <2>3 DEF NumberInv, NumberedUpTo
<1>10. PublishedOnce
  BY DEF PublishedOnce
<1>11. BudgetAccounting
  <2>1. Unpublished = {}
    BY <1>1 DEF Unpublished
  <2>2. unpublishedCount = 0 /\ unpublishedBytes = 0
    OBVIOUS
  <2>3. 0 <= MaxUnpublishedCount /\ 0 <= MaxUnpublishedBytes
    BY RecorderAssumption
  <2> QED BY <2>1, <2>2, <2>3, SizeOfNothing DEF BudgetAccounting
<1> QED BY <1>4, <1>5, <1>6, <1>7, <1>8, <1>9, <1>10, <1>11 DEF Inv

\* The strengthened invariant is inductive.
LEMMA InvStep == Inv /\ [Next]_vars => Inv'
<1> SUFFICES ASSUME Inv, [Next]_vars PROVE Inv'
  OBVIOUS
<1>1. TypeOK'
  BY TypeStep
<1>2. LockInv'
  BY LockStep DEF Inv
<1>3. WriterInv' /\ OwnerInv' /\ RowInv' /\ FailInv'
  BY WriterStepInv, OwnerStep, RowStep, FailStep
<1>4. StrayInv' /\ NumberInv' /\ PublishedOnce' /\ BudgetAccounting'
  BY StrayInvStep, NumberStep, OnceStep, BudgetStep
<1>5. overlap' \/ DurableInv'
  BY DurableStep
<1> QED BY <1>1, <1>2, <1>3, <1>4, <1>5 DEF Inv

\* The strengthened invariant holds in every reachable state.
LEMMA Invariance == Spec => []Inv
BY InitInv, InvStep, PTL DEF Spec

\* Every variable keeps its type, the two counters of the budget included.
THEOREM TypeCorrect == Spec => []TypeOK
<1>1. Inv => TypeOK
  BY DEF Inv
<1> QED BY Invariance, <1>1, PTL

\* The workspace lock is kept until close() ends: in an open session whatever
\* becomes of its writer, and while close() waits for a writer that could still
\* publish.
THEOREM LockHeld == Spec => []LockKept
<1>1. Inv => LockKept
  BY DEF Inv, LockInv
<1> QED BY Invariance, <1>1, PTL

\* No path drops evidence: a receipt is pending exactly while its envelope is
\* owned by a submitting thread, the writer or the failing set.
THEOREM NothingLost == Spec => []NoSilentLoss
<1>1. Inv => NoSilentLoss
  <2> SUFFICES ASSUME Inv PROVE NoSilentLoss
    OBVIOUS
  <2>1. NoEnvelope \notin Envelopes
    BY RecorderAssumption
  <2>2. \A e \in Envelopes : receipt[e] = "pending" <=> Owned(e)
    BY DEF Inv, RowInv
  <2>3. \A e \in Envelopes : (\E t \in Threads : arg[t] = e)
          <=> e \in {arg[t] : t \in {u \in Threads : Offering(u)}}
    BY <2>1 DEF Inv, OwnerInv
  <2>4. /\ Range(queue) \subseteq Envelopes /\ Range(active) \subseteq Envelopes
        /\ failing \subseteq Envelopes
    BY OwnedIsFinite DEF Inv, TypeOK
  <2>5. \A t \in Threads : Offering(t) => arg[t] \in Envelopes
    BY DEF Inv, OwnerInv
  <2> QED BY <2>2, <2>3, <2>4, <2>5 DEF NoSilentLoss, Owned
<1> QED BY Invariance, <1>1, PTL

\* What a row or a receipt calls committed is on disk, as long as no session
\* was opened beside the writer of an interrupted close.
THEOREM CommitsAreDurable == Spec => []CommittedIsDurable
<1>1. Inv => CommittedIsDurable
  BY DEF Inv, DurableInv, CommittedIsDurable
<1> QED BY Invariance, <1>1, PTL

\* No candidate is published twice and no segment name is used twice, across
\* any number of sessions, lost processes and dead writers, as long as no
\* session was opened beside the writer of an interrupted close.
THEOREM PublicationIsUnique == Spec => []PublishedOnce
<1>1. Inv => PublishedOnce
  BY DEF Inv
<1> QED BY Invariance, <1>1, PTL

\* The writer never meets a segment already at its destination, as long as no
\* session was opened beside the writer of an interrupted close.
THEOREM DestinationIsFree == Spec => []DestinationFree
<1>1. Inv => DestinationFree
  <2> SUFFICES ASSUME Inv, ~overlap, wpc = "publish", Destination PROVE FALSE
    BY DEF DestinationFree
  <2> DEFINE h == Group[active[1]]
  <2>1. h \in Groups
    BY SegmentType DEF Inv, WriterInv, TypeOK
  <2>2. Reached[h] = sequences[h]
    BY <2>1 DEF Reached
  <2>3. sequences[h] \in Nat /\ SequenceNumbers(h) = 0..(sequences[h] - 1)
    BY <2>1, <2>2 DEF Inv, NumberInv, NumberedUpTo, Numbered
  <2>4. sequences[h] \in SequenceNumbers(h)
    BY DEF Destination, NewSegment, SegmentOf, SameFile, SequenceNumbers
  <2> QED BY <2>3, <2>4
<1> QED BY Invariance, <1>1, PTL

\* The budget is exact and never exceeded, for every limit config.py admits.
THEOREM BudgetIsExact == Spec => []BudgetAccounting
<1>1. Inv => BudgetAccounting
  BY DEF Inv
<1> QED BY Invariance, <1>1, PTL

-----------------------------------------------------------------------------
\* A receipt is answered once: every step that would answer it finds it
\* pending, whoever fails first.
THEOREM ReceiptsAreFinal == Spec => ReceiptsFinal
<1> DEFINE Kept == \A e \in Envelopes :
             receipt[e] \in {"committed", "failed"} /\ sessions' = sessions
               /\ session' # "down"
             => receipt'[e] = receipt[e]
<1>1. Inv /\ [Next]_vars => [Kept]_vars
  <2> SUFFICES ASSUME Inv, [Next]_vars, NEW e \in Envelopes,
                      receipt[e] \in {"committed", "failed"},
                      sessions' = sessions, session' # "down"
               PROVE  receipt'[e] = receipt[e]
    OBVIOUS
  <2> USE DEF rowVars, threadVars
  <2>1. ~Owned(e) /\ evidence[e] # "none"
    BY DEF Inv, RowInv
  <2>2. ASSUME NEW t \in Threads, NEW x \in Envelopes, Submit(t, x)
        PROVE  receipt'[e] = receipt[e]
    BY <2>1, <2>2 DEF Submit, Unknown, Inv, TypeOK
  <2>3. ASSUME NEW t \in Threads, SubmitFails(t)
        PROVE  receipt'[e] = receipt[e]
    <3>1. arg[t] # e
      BY <2>1 DEF Owned
    <3> QED BY <2>3, <3>1 DEF SubmitFails, Inv, TypeOK
  <2>4. CASE OnPublished \/ OnFailed
    BY <2>4 DEF OnPublished, OnFailed, FailsReceipt
  <2>5. CASE Open \/ Crash
    BY <2>5 DEF Open, Crash, Inv, TypeOK
  <2>6. ASSUME NEW t \in Threads,
               \/ OfferRefused(t) \/ OfferAdmitted(t) \/ OfferBlocks(t)
               \/ FlushStarts(t) \/ FlushReturns(t) \/ FlushRaises(t)
               \/ FlushWaits(t)
        PROVE  receipt' = receipt
    BY <2>6 DEF OfferRefused, OfferAdmitted, OfferBlocks, FlushStarts,
       FlushReturns, FlushRaises, FlushWaits
  <2>7. ASSUME \/ WriterSleeps \/ TakeBatch \/ Publish \/ PublishRetries
               \/ PublishExhausted \/ ReleaseBatch \/ WriterFinishes
               \/ WriterExits \/ WriterDies \/ Shutdown \/ CloseFinishes
               \/ CloseInterrupted \/ StrayStep \/ UNCHANGED vars
        PROVE  receipt' = receipt
    BY <2>7, StrayIsApart
    DEF WriterSleeps, TakeBatch, Publish, PublishRetries, PublishExhausted,
       ReleaseBatch, WriterFinishes, WriterExits, WriterDies, Shutdown,
       CloseFinishes, CloseInterrupted, vars
  <2> QED
    BY <2>2, <2>3, <2>4, <2>5, <2>6, <2>7
    DEF Next, ThreadContinues, WriterStep
<1> QED
  BY Invariance, <1>1, PTL DEF Spec, ReceiptsFinal

\* An empty budget means an empty writer.
LEMMA NothingUnpublishedMeansEmpty ==
  ASSUME Inv, NothingUnpublished
  PROVE  Range(queue) = {} /\ Range(active) = {}
<1>1. IsFiniteSet(Unpublished)
  BY OwnedIsFinite, FS_Union DEF Inv, Unpublished
<1>2. Cardinality(Unpublished) = 0
  BY DEF Inv, BudgetAccounting, NothingUnpublished
<1>3. Unpublished = {}
  BY <1>1, <1>2, FS_EmptySet
<1> QED BY <1>3 DEF Unpublished

\* A flush returns normally only when every admitted envelope is answered
\* committed: the empty budget it waited for empties queue, batch and failing
\* set alike, and a writer that can still be used has refused nothing but what
\* is beyond the limit of one candidate.
THEOREM FlushIsABoundary == Spec => FlushIsBoundary
<1>1. Inv /\ [Next]_vars =>
        [\A t \in Threads :
           pc[t] = "flush" /\ pc'[t] = "idle" /\ ~Unavailable
             /\ session' # "down"
           => \A e \in Envelopes :
                receipt[e] # "none" =>
                  \/ receipt[e] = "committed"
                  \/ \E u \in Threads : arg[u] = e
                  \/ receipt[e] = "failed" /\ Bytes[e] > MaxCandidateBytes]_vars
  <2> SUFFICES ASSUME Inv, [Next]_vars, NEW t \in Threads,
                      pc[t] = "flush", pc'[t] = "idle", ~Unavailable,
                      session' # "down", NEW e \in Envelopes,
                      receipt[e] # "none", receipt[e] # "committed",
                      ~\E u \in Threads : arg[u] = e
               PROVE  receipt[e] = "failed" /\ Bytes[e] > MaxCandidateBytes
    OBVIOUS
  <2> USE DEF threadVars
  <2>1. ASSUME NothingUnpublished
        PROVE  receipt[e] = "failed" /\ Bytes[e] > MaxCandidateBytes
    <3>1. failing = {}
      BY DEF Inv, WriterInv, Unavailable
    <3>2. receipt[e] # "pending"
      BY <2>1, <3>1, NothingUnpublishedMeansEmpty DEF Inv, RowInv, Owned
    <3>3. receipt[e] = "failed"
      BY <3>2 DEF Inv, TypeOK, ReceiptStates
    <3> QED BY <3>3 DEF Inv, FailInv
  <2>2. ASSUME NEW u \in Threads, FlushReturns(u)
        PROVE  NothingUnpublished
    BY <2>2 DEF FlushReturns
  <2>3. ASSUME NEW u \in Threads, FlushRaises(u) PROVE FALSE
    BY <2>3 DEF FlushRaises
  <2>4. ASSUME NEW u \in Threads,
               \/ OfferRefused(u) \/ OfferAdmitted(u) \/ OfferBlocks(u)
               \/ SubmitFails(u) \/ FlushStarts(u) \/ FlushWaits(u)
               \/ \E x \in Envelopes : Submit(u, x)
        PROVE  FALSE
    <3>1. pc'[t] = pc[t]
      BY <2>4 DEF OfferRefused, OfferAdmitted, OfferBlocks, SubmitFails,
         FlushStarts, FlushWaits, Submit, Inv, TypeOK
    <3> QED BY <3>1
  <2>5. ASSUME \/ WriterStep \/ WriterDies \/ Shutdown \/ CloseFinishes
               \/ CloseInterrupted \/ StrayStep \/ UNCHANGED vars
        PROVE  FALSE
    <3>1. pc' = pc
      BY <2>5, StrayIsApart
      DEF WriterStep, WriterSleeps, TakeBatch, Publish, PublishRetries,
         PublishExhausted, OnPublished, ReleaseBatch, OnFailed,
         WriterFinishes, WriterExits, WriterDies, Shutdown, CloseFinishes,
         CloseInterrupted, vars
    <3> QED BY <3>1
  <2>6. CASE Open \/ Crash
    BY <2>6 DEF Open, Crash
  <2> QED
    BY <2>1, <2>2, <2>3, <2>4, <2>5, <2>6 DEF Next, ThreadContinues
<1> QED
  BY Invariance, <1>1, PTL DEF Spec, FlushIsBoundary

\* The candidates of a published segment become durable together.
LEMMA PublishPersists ==
  ASSUME Inv, ~overlap, Publish
  PROVE  Log!Persist(Range(active))
<1> USE DEF Inv, rowVars
<1>1. /\ segments' = segments \cup {NewSegment} /\ wpc = "publish"
      /\ NewSegment.candidates = Range(active)
      /\ UNCHANGED <<evidence, receipt>>
  BY SolePublish DEF Publish, NewSegment, SegmentOf
<1>2. Durable' = Durable \cup Range(active)
  BY <1>1 DEF Durable
<1>3. Range(active) # {} /\ Range(active) \subseteq Envelopes
  <2>1. active # <<>> /\ active \in Seq(Envelopes)
    BY <1>1 DEF WriterInv, TypeOK
  <2>2. 1 \in DOMAIN active
    BY <2>1, EmptySeq, LenProperties
  <2> QED BY <2>2, OwnedIsFinite DEF Range
<1>4. Range(active) \cap Durable = {}
  BY <1>1 DEF DurableInv
<1>5. \A e \in Range(active) : receipt[e] = "pending"
  BY <1>1, <1>3 DEF RowInv, Owned
<1> QED BY <1>1, <1>2, <1>3, <1>4, <1>5 DEF Log!Persist

\* Resolving receipts answers owed envelopes and forgets none of them.
LEMMA PublishedAcknowledges ==
  ASSUME Inv, ~overlap, OnPublished
  PROVE  Log!Acknowledge(Range(active))
<1> USE DEF Inv, diskVars
<1>1. /\ wpc = "published" /\ segments' = segments
      /\ \A e \in Envelopes :
           /\ evidence'[e] = (IF e \in Range(active) THEN "committed"
                                                     ELSE evidence[e])
           /\ receipt'[e] = (IF e \in Range(active) /\ receipt[e] = "pending"
                             THEN "committed" ELSE receipt[e])
      /\ receipt' = [e \in Envelopes |-> receipt'[e]]
  BY DEF OnPublished
<1>2. Range(active) # {} /\ Range(active) \subseteq Envelopes
  <2>1. active # <<>> /\ active \in Seq(Envelopes)
    BY <1>1 DEF WriterInv, TypeOK
  <2>2. 1 \in DOMAIN active
    BY <2>1, EmptySeq, LenProperties
  <2> QED BY <2>2, OwnedIsFinite DEF Range
<1>3. Range(active) \subseteq Durable
  BY <1>1 DEF DurableInv, OnDisk
<1>4. \A e \in Range(active) : receipt[e] = "pending" /\ evidence[e] = "pending"
  BY <1>1, <1>2 DEF RowInv, Owned
<1>5. /\ Durable' = Durable
      /\ {e \in Envelopes : evidence'[e] # "none"}
           = {e \in Envelopes : evidence[e] # "none"}
  BY <1>1, <1>4 DEF Durable
<1>6. receipt' = [e \in Envelopes |->
                    IF e \in Range(active) THEN "committed" ELSE receipt[e]]
  BY <1>1, <1>4
<1> QED
  BY <1>2, <1>3, <1>4, <1>5, <1>6 DEF Log!Acknowledge, Log!Resolve

\* The envelopes _on_failed is handed are all owed an answer.
LEMMA FailedAnswers ==
  ASSUME Inv, OnFailed
  PROVE  Log!Fail(failing) \/ UNCHANGED Log!vars
<1> USE DEF Inv, diskVars
<1>1. /\ wpc = "failing" /\ segments' = segments
      /\ \A e \in Envelopes :
           /\ evidence'[e] = (IF e \in failing THEN "recording_failed"
                                               ELSE evidence[e])
           /\ receipt'[e] = (IF e \in failing /\ receipt[e] = "pending"
                             THEN "failed" ELSE receipt[e])
      /\ receipt' = [e \in Envelopes |-> receipt'[e]]
  BY DEF OnFailed, FailsReceipt
<1>2. failing \subseteq Envelopes /\ receipt = [e \in Envelopes |-> receipt[e]]
  BY DEF TypeOK
<1>3. \A e \in failing : receipt[e] = "pending" /\ evidence[e] = "pending"
  BY <1>1, <1>2 DEF RowInv, Owned
<1>4. /\ Durable' = Durable
      /\ {e \in Envelopes : evidence'[e] # "none"}
           = {e \in Envelopes : evidence[e] # "none"}
  BY <1>1, <1>3 DEF Durable
<1>5. receipt' = [e \in Envelopes |->
                    IF e \in failing THEN "failed" ELSE receipt[e]]
  BY <1>1, <1>3
<1>6. CASE failing = {}
  BY <1>2, <1>4, <1>5, <1>6 DEF Log!vars
<1>7. CASE failing # {}
  BY <1>3, <1>4, <1>5, <1>7 DEF Log!Fail, Log!Resolve
<1> QED BY <1>6, <1>7

\* Every step of the recorder is a step of the promise, or none of it, as long
\* as no session is opened beside the writer of an interrupted close.
THEOREM KeepsEvidenceLog == Spec => KeepsPromises
<1>1. Init => Log!Init
  BY DEF Init, Log!Init, Durable
<1>2. Inv /\ [Next]_vars => [overlap' \/ Log!Next]_(Log!vars)
  <2> SUFFICES ASSUME Inv, [Next]_vars, ~overlap'
               PROVE  Log!Next \/ UNCHANGED Log!vars
    OBVIOUS
  <2>11. ~overlap /\ ~StrayStep
    BY SoleWriter
  <2> USE DEF rowVars, diskVars, threadVars
  <2>0. /\ segments' = segments => Durable' = Durable
        /\ receipt = [e \in Envelopes |-> receipt[e]]
    BY DEF Durable, Inv, TypeOK
  <2>1. ASSUME UNCHANGED <<segments, evidence, receipt>>
        PROVE  UNCHANGED Log!vars
    BY <2>0, <2>1 DEF Log!vars
  <2>2. ASSUME NEW t \in Threads, NEW x \in Envelopes, Submit(t, x)
        PROVE  Log!Next
    <3>1. x \notin Durable /\ evidence[x] = "none"
      BY <2>2, <2>11, UnknownIsFree DEF Submit, Unknown
    <3>2. \A e \in Envelopes :
            evidence'[e] = IF e = x THEN "pending" ELSE evidence[e]
      BY <2>2 DEF Submit, Inv, TypeOK
    <3>3. {e \in Envelopes : evidence'[e] # "none"}
            = {e \in Envelopes : evidence[e] # "none"} \cup {x}
      BY <3>1, <3>2
    <3>4. Log!Submit(x)
      BY <2>0, <2>2, <3>1, <3>3 DEF Submit, Log!Submit
    <3> QED BY <3>4 DEF Log!Next
  <2>3. ASSUME NEW t \in Threads, SubmitFails(t) PROVE Log!Next
    <3>1. arg[t] \in Envelopes /\ Owned(arg[t])
      BY <2>3 DEF SubmitFails, Inv, OwnerInv, Offering, Owned
    <3>2. receipt[arg[t]] = "pending" /\ evidence[arg[t]] = "pending"
      BY <3>1 DEF Inv, RowInv
    <3>3. \A e \in Envelopes : evidence'[e] =
            IF e = arg[t] THEN "recording_failed" ELSE evidence[e]
      BY <2>3 DEF SubmitFails, Inv, TypeOK
    <3>4. {e \in Envelopes : evidence'[e] # "none"}
            = {e \in Envelopes : evidence[e] # "none"}
      BY <3>2, <3>3
    <3>5. receipt' = [e \in Envelopes |->
                        IF e \in {arg[t]} THEN "failed" ELSE receipt[e]]
      BY <2>3, <3>1 DEF SubmitFails, Inv, TypeOK
    <3>6. Log!Fail({arg[t]})
      BY <2>0, <2>3, <3>2, <3>4, <3>5
      DEF SubmitFails, Log!Fail, Log!Resolve
    <3> QED BY <3>1, <3>6 DEF Log!Next
  <2>4. CASE Publish
    <3>1. Range(active) \in SUBSET Envelopes
      BY OwnedIsFinite DEF Inv
    <3> QED BY <2>4, <2>11, <3>1, PublishPersists DEF Log!Next
  <2>5. CASE OnPublished
    <3>1. Range(active) \in SUBSET Envelopes
      BY OwnedIsFinite DEF Inv
    <3> QED BY <2>5, <2>11, <3>1, PublishedAcknowledges DEF Log!Next
  <2>6. CASE OnFailed
    <3>1. failing \in SUBSET Envelopes
      BY DEF Inv, TypeOK
    <3> QED BY <2>6, <3>1, FailedAnswers DEF Log!Next
  <2>7. CASE Crash
    <3>1. {e \in Envelopes : evidence'[e] # "none"} = {}
      BY <2>7 DEF Crash
    <3>2. Log!Lose
      BY <2>0, <2>7, <3>1 DEF Crash, Log!Lose
    <3> QED BY <3>2 DEF Log!Next
  <2>8. CASE Open
    <3>1. Durable \subseteq Envelopes
      BY DEF Durable, Inv, TypeOK
    <3>2. {e \in Envelopes : evidence'[e] # "none"} = Durable
      BY <2>8, <3>1 DEF Open, Recovered
    <3>3. Log!Recover
      BY <2>0, <2>8, <3>2 DEF Open, Log!Recover
    <3> QED BY <3>3 DEF Log!Next
  <2>9. ASSUME NEW t \in Threads,
               \/ OfferRefused(t) \/ OfferAdmitted(t) \/ OfferBlocks(t)
               \/ FlushStarts(t) \/ FlushReturns(t) \/ FlushRaises(t)
               \/ FlushWaits(t)
        PROVE  UNCHANGED <<segments, evidence, receipt>>
    BY <2>9 DEF OfferRefused, OfferAdmitted, OfferBlocks, FlushStarts,
       FlushReturns, FlushRaises, FlushWaits
  <2>10. ASSUME \/ WriterSleeps \/ TakeBatch \/ PublishRetries
                \/ PublishExhausted \/ ReleaseBatch \/ WriterFinishes
                \/ WriterExits \/ WriterDies \/ Shutdown \/ CloseFinishes
                \/ CloseInterrupted \/ UNCHANGED vars
         PROVE  UNCHANGED <<segments, evidence, receipt>>
    BY <2>10 DEF WriterSleeps, TakeBatch, PublishRetries, PublishExhausted,
       ReleaseBatch, WriterFinishes, WriterExits, WriterDies, Shutdown,
       CloseFinishes, CloseInterrupted, vars
  <2> QED
    BY <2>1, <2>2, <2>3, <2>4, <2>5, <2>6, <2>7, <2>8, <2>9, <2>10, <2>11
    DEF Next, ThreadContinues, WriterStep
<1> QED
  BY Invariance, <1>1, <1>2, PTL DEF Spec, KeepsPromises
=============================================================================
