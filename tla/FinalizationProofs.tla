------------------------- MODULE FinalizationProofs -------------------------
(***************************************************************************)
(* Proofs about Finalization, for any handles, populations, limits,        *)
(* fingerprints, failing attempts and numbers of cost tables.              *)
(***************************************************************************)
EXTENDS FinalizationInvariant, FiniteSetTheorems, TLAPS

\* A candidate is the pair of its handle and its index.
LEMMA CandidatePairs ==
  /\ \A h \in Handles, i \in 0..(Population - 1) : <<h, i>> \in Candidates
  /\ \A c \in Candidates : /\ c[1] \in Handles /\ c[2] \in 0..(Population - 1)
                          /\ c = <<c[1], c[2]>>
  /\ \A h, g, i, j : <<h, i>> = <<g, j>> => h = g /\ i = j
BY DEF Candidates

\* Types and the other parts of the invariant hold initially.
LEMMA InitInv == Init => TypeOK /\ PendingInv /\ VerdictInv /\ ProgressInv /\ HintInv
<1> SUFFICES ASSUME Init
             PROVE  TypeOK /\ PendingInv /\ VerdictInv /\ ProgressInv /\ HintInv
  OBVIOUS
<1>1. TypeOK
  <2>1. DOMAIN table = {}
    BY DEF Init, NoTable
  <2>2. 0 \in 0..Population /\ 0 \in 0..MaxTables
    BY FinalizationAssumption
  <2> QED BY <2>1, <2>2 DEF Init, TypeOK
<1>2. PendingInv
  BY CandidatePairs DEF Init, PendingInv
<1>3. VerdictInv
  BY DEF Init, VerdictInv, NoTable
<1>4. ProgressInv
  <2> SUFFICES ASSUME NEW h \in Handles, NEW i \in 0..(Population - 1)
               PROVE  BatchInv(h, i)
    BY DEF ProgressInv
  <2>1. phase[h] = "run" /\ nextIndex[h] = 0
    BY DEF Init
  <2>2. ~(i < nextIndex[h])
    BY <2>1, FinalizationAssumption
  <2> QED BY <2>1, <2>2 DEF BatchInv
<1>5. HintInv
  BY DEF Init, HintInv, NoTable
<1> QED BY <1>1, <1>2, <1>3, <1>4, <1>5

\* Every step keeps the types.
LEMMA TypeStep ==
  ASSUME TypeOK, PendingInv, [Next]_vars
  PROVE  TypeOK'
<1>1. ASSUME NEW h \in Handles, NEW i \in 0..(Population - 1),
             NEW outcome \in {"completed", "error"}, Accept(h, i, outcome)
      PROVE  TypeOK'
  BY <1>1, CandidatePairs, FinalizationAssumption
  DEF TypeOK, Accept, writerVars, counterVars, tableVars
<1>2. ASSUME NEW h \in Handles, OfferRefused(h)
      PROVE  TypeOK'
  BY <1>2 DEF TypeOK, OfferRefused, writerVars, counterVars, tableVars
<1>3. ASSUME NEW h \in Handles, OfferAdmitted(h)
      PROVE  TypeOK'
  <2>1. current[h] \in 0..(Population - 1)
    BY <1>3, PendingInv DEF OfferAdmitted, PendingInv
  <2>2. queued' \subseteq Candidates
    BY <1>3, <2>1, CandidatePairs DEF OfferAdmitted, TypeOK
  <2>3. groupCount' \in [Handles -> Nat]
    BY <1>3 DEF OfferAdmitted, TypeOK
  <2>4. phase' \in [Handles -> {"run", "offer", "flush", "finish", "ready",
                               "drain", "done", "failed"}]
    BY <1>3 DEF OfferAdmitted, TypeOK
  <2>5. current' \in [Handles -> 0..Population]
    BY <1>3, FinalizationAssumption DEF OfferAdmitted, TypeOK
  <2> QED BY <1>3, <2>2, <2>3, <2>4, <2>5 DEF TypeOK, OfferAdmitted, rowVars,
             counterVars, tableVars
<1>4. ASSUME NEW h \in Handles, FlushReturns(h)
      PROVE  TypeOK'
  BY <1>4 DEF TypeOK, FlushReturns, rowVars, writerVars, counterVars, tableVars
<1>5. ASSUME NEW h \in Handles, FlushRaises(h)
      PROVE  TypeOK'
  BY <1>5 DEF TypeOK, FlushRaises, rowVars, writerVars, counterVars, tableVars
<1>6. ASSUME NEW h \in Handles, FinishStarts(h)
      PROVE  TypeOK'
  BY <1>6 DEF TypeOK, FinishStarts, rowVars, writerVars, counterVars, tableVars
<1>7. ASSUME NEW h \in Handles, NEW F \in SUBSET MayFail, Interpret(h, F)
      PROVE  TypeOK'
  BY <1>7, CandidatePairs, FinalizationAssumption
  DEF TypeOK, Interpret, Next0, HasNext, Recorded, Attempt, Verdicts, Dec,
      ReleasesPayload, writerVars, counterVars, tableVars
<1>8. ASSUME NEW h \in Handles, InterpretRaises(h)
      PROVE  TypeOK'
  BY <1>8
  DEF TypeOK, InterpretRaises, rowVars, writerVars, counterVars, tableVars
<1>9. ASSUME NEW h \in Handles, DrainEnds(h)
      PROVE  TypeOK'
  BY <1>9 DEF TypeOK, DrainEnds, rowVars, writerVars, counterVars, tableVars
<1>10. ASSUME NEW h \in Handles, FinishReturns(h)
      PROVE  TypeOK'
  BY <1>10
  DEF TypeOK, FinishReturns, rowVars, writerVars, counterVars, tableVars
<1>11. ASSUME NEW c \in Candidates, OnPublished(c)
      PROVE  TypeOK'
  BY <1>11 DEF TypeOK, OnPublished, RetainsOwned, handleVars, tableVars
<1>12. ASSUME OnFailed
      PROVE  TypeOK'
  BY <1>12 DEF TypeOK, OnFailed, counterVars, handleVars, tableVars
<1>13. ASSUME NEW f \in Fingerprints, NEW F \in SUBSET MayFail, TableFrozen(f, F)
      PROVE  TypeOK'
  BY <1>13, CandidatePairs, FinalizationAssumption
  DEF TypeOK, TableFrozen, RowStatus, Attempt, Hinted, Rows, Verdicts, rowVars, writerVars,
      counterVars, handleVars
<1>14. ASSUME TableApplied
      PROVE  TypeOK'
  <2>1. interpretation' \in [Candidates -> {"none", "pending", "blocked",
          "succeeded", "failed", "not_applicable"}]
    BY <1>14 DEF TypeOK, TableApplied, WritesBack, Verdicts
  <2>2. by' \in [Candidates -> Fingerprints \cup {"none"}]
    BY <1>14 DEF TypeOK, TableApplied
  <2>3. DOMAIN table' = {}
    BY <1>14 DEF TableApplied, NoTable
  <2> QED BY <1>14, <2>1, <2>2, <2>3
      DEF TypeOK, TableApplied, writerVars, counterVars, handleVars
<1>15. CASE UNCHANGED vars
  BY <1>15
  DEF TypeOK, vars, rowVars, writerVars, counterVars, handleVars, tableVars
<1> QED
  BY <1>1, <1>2, <1>3, <1>4, <1>5, <1>6, <1>7, <1>8, <1>9, <1>10, <1>11, <1>12,
     <1>13, <1>14, <1>15
  DEF Next, Coordinator

\* Every step keeps the owner of a pending row.
LEMMA PendingStep ==
  ASSUME TypeOK, PendingInv, [Next]_vars
  PROVE  PendingInv'
<1>1. ASSUME NEW h \in Handles, NEW i \in 0..(Population - 1),
             NEW outcome \in {"completed", "error"}, Accept(h, i, outcome)
      PROVE  PendingInv'
  <2>1. <<h, i>> \in Candidates /\ evidence[<<h, i>>] = "none"
    BY <1>1, CandidatePairs DEF Accept
  <2>2. \A c \in Candidates :
          evidence'[c] = IF c = <<h, i>> THEN "pending" ELSE evidence[c]
    BY <1>1 DEF Accept, TypeOK
  <2>3. \A g \in Handles : /\ phase'[g] = IF g = h THEN "offer" ELSE phase[g]
                           /\ current'[g] = IF g = h THEN i ELSE current[g]
    BY <1>1 DEF Accept, TypeOK
  <2>4. queued' = queued /\ <<h, i>> \notin queued
    BY <1>1, <2>1, PendingInv DEF Accept, PendingInv, writerVars
  <2>5. phase[h] = "run"
    BY <1>1 DEF Accept
  <2>6. \A c \in queued' : evidence'[c] = "pending"
    BY <2>2, <2>4 DEF PendingInv, TypeOK
  <2>7. ASSUME NEW g \in Handles, phase'[g] = "offer"
        PROVE  /\ current'[g] \in 0..(Population - 1)
               /\ evidence'[<<g, current'[g]>>] = "pending"
               /\ <<g, current'[g]>> \notin queued'
    BY <2>1, <2>2, <2>3, <2>4, <2>7, CandidatePairs DEF PendingInv
  <2>8. ASSUME NEW c \in Candidates, evidence'[c] = "pending"
        PROVE  \/ c \in queued'
               \/ phase'[c[1]] = "offer" /\ current'[c[1]] = c[2]
    BY <2>1, <2>2, <2>3, <2>4, <2>5, <2>8, CandidatePairs DEF PendingInv
  <2> QED BY <2>6, <2>7, <2>8 DEF PendingInv
<1>2. ASSUME NEW h \in Handles, OfferRefused(h)
      PROVE  PendingInv'
  BY <1>2, CandidatePairs
  DEF TypeOK, PendingInv, OfferRefused, writerVars, counterVars, tableVars
<1>3. ASSUME NEW h \in Handles, OfferAdmitted(h)
      PROVE  PendingInv'
  BY <1>3, CandidatePairs
  DEF TypeOK, PendingInv, OfferAdmitted, rowVars, counterVars, tableVars
<1>4. ASSUME NEW h \in Handles, FlushReturns(h)
      PROVE  PendingInv'
  BY <1>4
  DEF TypeOK, PendingInv, FlushReturns, rowVars, writerVars, counterVars,
      tableVars
<1>5. ASSUME NEW h \in Handles, FlushRaises(h)
      PROVE  PendingInv'
  BY <1>5
  DEF TypeOK, PendingInv, FlushRaises, rowVars, writerVars, counterVars,
      tableVars
<1>6. ASSUME NEW h \in Handles, FinishStarts(h)
      PROVE  PendingInv'
  BY <1>6
  DEF TypeOK, PendingInv, FinishStarts, rowVars, writerVars, counterVars,
      tableVars
<1>7. ASSUME NEW h \in Handles, NEW F \in SUBSET MayFail, Interpret(h, F)
      PROVE  PendingInv'
  BY <1>7
  DEF TypeOK, PendingInv, Interpret, Next0, HasNext, writerVars, counterVars,
      tableVars
<1>8. ASSUME NEW h \in Handles, InterpretRaises(h)
      PROVE  PendingInv'
  BY <1>8
  DEF TypeOK, PendingInv, InterpretRaises, rowVars, writerVars, counterVars,
      tableVars
<1>9. ASSUME NEW h \in Handles, DrainEnds(h)
      PROVE  PendingInv'
  BY <1>9
  DEF TypeOK, PendingInv, DrainEnds, rowVars, writerVars, counterVars,
      tableVars
<1>10. ASSUME NEW h \in Handles, FinishReturns(h)
      PROVE  PendingInv'
  BY <1>10
  DEF TypeOK, PendingInv, FinishReturns, rowVars, writerVars, counterVars,
      tableVars
<1>11. ASSUME NEW c \in Candidates, OnPublished(c)
      PROVE  PendingInv'
  BY <1>11
  DEF TypeOK, PendingInv, OnPublished, RetainsOwned, handleVars, tableVars
<1>12. ASSUME OnFailed
      PROVE  PendingInv'
  BY <1>12, CandidatePairs
  DEF TypeOK, PendingInv, OnFailed, counterVars, handleVars, tableVars
<1>13. ASSUME NEW f \in Fingerprints, NEW F \in SUBSET MayFail, TableFrozen(f, F)
      PROVE  PendingInv'
  BY <1>13
  DEF TypeOK, PendingInv, TableFrozen, rowVars, writerVars, counterVars,
      handleVars
<1>14. ASSUME TableApplied
      PROVE  PendingInv'
  BY <1>14
  DEF TypeOK, PendingInv, TableApplied, writerVars, counterVars, handleVars
<1>15. CASE UNCHANGED vars
  BY <1>15
  DEF TypeOK, PendingInv, vars, rowVars, writerVars, counterVars, handleVars,
      tableVars
<1> QED
  BY <1>1, <1>2, <1>3, <1>4, <1>5, <1>6, <1>7, <1>8, <1>9, <1>10, <1>11, <1>12,
     <1>13, <1>14, <1>15
  DEF Next, Coordinator

\* Every step keeps verdicts and tables in agreement with the evidence.
LEMMA VerdictStep ==
  ASSUME TypeOK, PendingInv, VerdictInv, [Next]_vars
  PROVE  VerdictInv'
<1>1. ASSUME NEW h \in Handles, NEW i \in 0..(Population - 1),
             NEW outcome \in {"completed", "error"}, Accept(h, i, outcome)
      PROVE  VerdictInv'
  <2>1. <<h, i>> \in Candidates /\ evidence[<<h, i>>] = "none"
    BY <1>1, CandidatePairs DEF Accept
  <2>2. \A c \in Candidates : c # <<h, i>> =>
          /\ evidence'[c] = evidence[c] /\ execution'[c] = execution[c]
          /\ interpretation'[c] = interpretation[c]
    BY <1>1 DEF Accept, TypeOK
  <2>3. interpretation'[<<h, i>>] = "pending" /\ table' = table
    BY <1>1, <2>1 DEF Accept, TypeOK, tableVars
  <2>4. <<h, i>> \notin DOMAIN table
    BY <2>1 DEF VerdictInv
  <2> QED BY <2>1, <2>2, <2>3, <2>4 DEF VerdictInv
<1>2. ASSUME NEW h \in Handles, OfferRefused(h)
      PROVE  VerdictInv'
  BY <1>2
  DEF TypeOK, PendingInv, VerdictInv, OfferRefused, writerVars,
      counterVars, tableVars
<1>3. ASSUME NEW h \in Handles, OfferAdmitted(h)
      PROVE  VerdictInv'
  BY <1>3
  DEF TypeOK, PendingInv, VerdictInv, OfferAdmitted, rowVars,
      counterVars, tableVars
<1>4. ASSUME NEW h \in Handles, FlushReturns(h)
      PROVE  VerdictInv'
  BY <1>4
  DEF TypeOK, PendingInv, VerdictInv, FlushReturns, rowVars,
      writerVars, counterVars, tableVars
<1>5. ASSUME NEW h \in Handles, FlushRaises(h)
      PROVE  VerdictInv'
  BY <1>5
  DEF TypeOK, PendingInv, VerdictInv, FlushRaises, rowVars,
      writerVars, counterVars, tableVars
<1>6. ASSUME NEW h \in Handles, FinishStarts(h)
      PROVE  VerdictInv'
  BY <1>6
  DEF TypeOK, PendingInv, VerdictInv, FinishStarts, rowVars,
      writerVars, counterVars, tableVars
<1>7. ASSUME NEW h \in Handles, NEW F \in SUBSET MayFail, Interpret(h, F)
      PROVE  VerdictInv'
  <2> DEFINE n == Next0(h)
  <2>1. /\ evidence[n] = "committed" /\ evidence' = evidence
        /\ execution' = execution /\ table' = table
    BY <1>7 DEF Interpret, tableVars
  <2>2. \A c \in Candidates :
          interpretation'[c] = IF c = n THEN Recorded(n, F) ELSE interpretation[c]
    BY <1>7 DEF Interpret, TypeOK
  <2>3. Recorded(n, F) \in {"succeeded", "failed"} =>
          execution[n] # "error"
    BY DEF Recorded
  <2> HIDE DEF n
  <2> QED BY <2>1, <2>2, <2>3 DEF VerdictInv
<1>8. ASSUME NEW h \in Handles, InterpretRaises(h)
      PROVE  VerdictInv'
  BY <1>8
  DEF TypeOK, PendingInv, VerdictInv, InterpretRaises, rowVars,
      writerVars, counterVars, tableVars
<1>9. ASSUME NEW h \in Handles, DrainEnds(h)
      PROVE  VerdictInv'
  BY <1>9
  DEF TypeOK, PendingInv, VerdictInv, DrainEnds, rowVars, writerVars,
      counterVars, tableVars
<1>10. ASSUME NEW h \in Handles, FinishReturns(h)
      PROVE  VerdictInv'
  BY <1>10
  DEF TypeOK, PendingInv, VerdictInv, FinishReturns, rowVars,
      writerVars, counterVars, tableVars
<1>11. ASSUME NEW c \in Candidates, OnPublished(c)
      PROVE  VerdictInv'
  BY <1>11
  DEF TypeOK, PendingInv, VerdictInv, OnPublished, handleVars,
      tableVars
<1>12. ASSUME OnFailed
      PROVE  VerdictInv'
  BY <1>12
  DEF TypeOK, PendingInv, VerdictInv, OnFailed, counterVars,
      handleVars, tableVars
<1>13. ASSUME NEW f \in Fingerprints, NEW F \in SUBSET MayFail, TableFrozen(f, F)
      PROVE  VerdictInv'
  BY <1>13
  DEF TypeOK, PendingInv, VerdictInv, TableFrozen, RowStatus, Attempt, Hinted, Rows, Verdicts, rowVars,
      writerVars, counterVars, handleVars
<1>14. ASSUME TableApplied
      PROVE  VerdictInv'
  BY <1>14
  DEF TypeOK, PendingInv, VerdictInv, TableApplied, WritesBack, NoTable,
      writerVars, counterVars, handleVars
<1>15. CASE UNCHANGED vars
  BY <1>15
  DEF TypeOK, PendingInv, VerdictInv, vars, rowVars, writerVars,
      counterVars, handleVars, tableVars
<1> QED
  BY <1>1, <1>2, <1>3, <1>4, <1>5, <1>6, <1>7, <1>8, <1>9, <1>10, <1>11, <1>12,
     <1>13, <1>14, <1>15
  DEF Next, Coordinator

\* Every step keeps what a batch has passed settled.
LEMMA ProgressStep ==
  ASSUME TypeOK, PendingInv, VerdictInv, ProgressInv, [Next]_vars
  PROVE  ProgressInv'
<1> SUFFICES ASSUME NEW g \in Handles, NEW j \in 0..(Population - 1)
             PROVE  BatchInv(g, j)'
  BY DEF ProgressInv
<1> DEFINE r == <<g, j>>
<1>a. BatchInv(g, j) /\ r \in Candidates
  BY CandidatePairs DEF ProgressInv
<1>b. /\ nextIndex[g] \in 0..Population /\ Population \in Nat
      /\ DOMAIN phase = Handles /\ DOMAIN nextIndex = Handles
      /\ DOMAIN evidence = Candidates /\ DOMAIN interpretation = Candidates
      /\ DOMAIN envelope = Candidates
  BY FinalizationAssumption DEF TypeOK
<1> HIDE DEF r
<1>1. ASSUME NEW h \in Handles, NEW i \in 0..(Population - 1),
             NEW outcome \in {"completed", "error"}, Accept(h, i, outcome)
      PROVE  BatchInv(g, j)'
  BY <1>1, <1>a, <1>b
  DEF BatchInv, Passed, r, Accept, writerVars, counterVars, tableVars
<1>2. ASSUME NEW h \in Handles, OfferRefused(h)
      PROVE  BatchInv(g, j)'
  BY <1>2, <1>a, <1>b, PendingInv
  DEF BatchInv, Passed, r, OfferRefused, PendingInv, writerVars, counterVars,
      tableVars
<1>3. ASSUME NEW h \in Handles, OfferAdmitted(h)
      PROVE  BatchInv(g, j)'
  BY <1>3, <1>a, <1>b
  DEF BatchInv, Passed, r, OfferAdmitted, rowVars, counterVars, tableVars
<1>4. ASSUME NEW h \in Handles, FlushReturns(h)
      PROVE  BatchInv(g, j)'
  BY <1>4, <1>a, <1>b, PendingInv
  DEF BatchInv, Passed, r, FlushReturns, Flushed, PendingInv, rowVars,
      writerVars, counterVars, tableVars
<1>5. ASSUME NEW h \in Handles, FlushRaises(h)
      PROVE  BatchInv(g, j)'
  BY <1>5, <1>a, <1>b
  DEF BatchInv, Passed, r, FlushRaises, rowVars, writerVars, counterVars,
      tableVars
<1>6. ASSUME NEW h \in Handles, FinishStarts(h)
      PROVE  BatchInv(g, j)'
  BY <1>6, <1>a, <1>b
  DEF BatchInv, Passed, r, FinishStarts, AllAccepted, rowVars, writerVars,
      counterVars, tableVars
<1>7. ASSUME NEW h \in Handles, NEW F \in SUBSET MayFail, Interpret(h, F)
      PROVE  BatchInv(g, j)'
  <2> DEFINE n == Next0(h)
  <2>1. /\ evidence[n] = "committed" /\ evidence' = evidence /\ phase' = phase
        /\ nextIndex' = [nextIndex EXCEPT ![h] = @ + 1]
        /\ nextIndex[h] < Population /\ phase[h] \in {"ready", "drain"}
    BY <1>7 DEF Interpret, HasNext
  <2>2. /\ interpretation' = [interpretation EXCEPT ![n] = Recorded(n, F)]
        /\ envelope' = [envelope EXCEPT ![n] = FALSE]
    <3>1. interpretation' = [interpretation EXCEPT ![n] = Recorded(n, F)]
      BY <1>7 DEF Interpret
    <3>2. envelope' = [envelope EXCEPT ![n] = @ /\ ~TRUE]
      BY <1>7 DEF Interpret, ReleasesPayload
    <3> QED BY <3>1, <3>2
  <2>3. Recorded(n, F) \in Verdicts
    BY DEF Recorded, Attempt, Verdicts
  <2>4. nextIndex'[g] = IF g = h THEN nextIndex[g] + 1 ELSE nextIndex[g]
    BY <2>1, <1>b
  <2>5. r = n => Passed(r)'
    BY <2>1, <2>2, <2>3, <1>a, <1>b DEF Passed
  <2>6. Passed(r) => Passed(r)'
    BY <2>1, <2>2, <2>3, <1>a, <1>b DEF Passed
  <2>7. g = h /\ j = nextIndex[h] => r = n
    BY DEF r, Next0
  <2> HIDE DEF n
  <2>8. j < nextIndex'[g] => Passed(r)'
    <3>1. g # h => nextIndex'[g] = nextIndex[g]
      BY <2>4
    <3>2. g = h /\ j < nextIndex'[g] => j < nextIndex[g] \/ j = nextIndex[g]
      BY <2>4, <1>b
    <3>3. j < nextIndex[g] => Passed(r)
      BY <1>a DEF BatchInv, r
    <3> QED BY <3>1, <3>2, <3>3, <2>5, <2>6, <2>7
  <2> QED BY <2>1, <2>8, <1>a DEF BatchInv, r
<1>8. ASSUME NEW h \in Handles, InterpretRaises(h)
      PROVE  BatchInv(g, j)'
  BY <1>8, <1>a, <1>b
  DEF BatchInv, Passed, r, InterpretRaises, rowVars, writerVars, counterVars,
      tableVars
<1>9. ASSUME NEW h \in Handles, DrainEnds(h)
      PROVE  BatchInv(g, j)'
  BY <1>9, <1>a, <1>b
  DEF BatchInv, Passed, r, DrainEnds, rowVars, writerVars, counterVars,
      tableVars
<1>10. ASSUME NEW h \in Handles, FinishReturns(h)
      PROVE  BatchInv(g, j)'
  BY <1>10, <1>a, <1>b
  DEF BatchInv, Passed, r, FinishReturns, rowVars, writerVars, counterVars,
      tableVars
<1>11. ASSUME NEW c \in Candidates, OnPublished(c)
      PROVE  BatchInv(g, j)'
  BY <1>11, <1>a, <1>b, PendingInv
  DEF BatchInv, Passed, r, OnPublished, PendingInv, handleVars, tableVars
<1>12. ASSUME OnFailed
      PROVE  BatchInv(g, j)'
  BY <1>12, <1>a, <1>b, PendingInv
  DEF BatchInv, Passed, r, OnFailed, PendingInv, counterVars, handleVars,
      tableVars
<1>13. ASSUME NEW f \in Fingerprints, NEW F \in SUBSET MayFail, TableFrozen(f, F)
      PROVE  BatchInv(g, j)'
  BY <1>13, <1>a, <1>b
  DEF BatchInv, Passed, r, TableFrozen, rowVars, writerVars, counterVars,
      handleVars
<1>14. ASSUME TableApplied
      PROVE  BatchInv(g, j)'
  <2>1. /\ interpretation'[r] = IF WritesBack(r) THEN table[r]
                                 ELSE interpretation[r]
        /\ evidence' = evidence /\ envelope' = envelope /\ phase' = phase
        /\ nextIndex' = nextIndex
    BY <1>14, <1>a DEF TableApplied, rowVars, handleVars
  <2>2. WritesBack(r) => table[r] \in Verdicts
    BY DEF TypeOK, WritesBack
  <2> QED BY <2>1, <2>2, <1>a DEF BatchInv, Passed, r
<1>15. CASE UNCHANGED vars
  BY <1>15, <1>a
  DEF BatchInv, Passed, r, vars, rowVars, writerVars, counterVars, handleVars,
      tableVars
<1> QED
  BY <1>1, <1>2, <1>3, <1>4, <1>5, <1>6, <1>7, <1>8, <1>9, <1>10, <1>11, <1>12,
     <1>13, <1>14, <1>15
  DEF Next, Coordinator

-----------------------------------------------------------------------------
(* What a table takes over.                                                 *)

\* The rows a batch has passed are committed and judged.
LEMMA DrainedPassed ==
  ASSUME TypeOK, ProgressInv, NEW c \in Candidates, Drained(c)
  PROVE  Passed(c)
<1>1. /\ c[1] \in Handles /\ c[2] \in 0..(Population - 1)
      /\ c = <<c[1], c[2]>>
  BY CandidatePairs
<1>2. BatchInv(c[1], c[2])
  BY <1>1 DEF ProgressInv
<1> QED BY <1>1, <1>2 DEF BatchInv, Drained

\* Only the batch itself, a table and a failing writer change a verdict, and the
\* writer only that of a pending row.
LEMMA VerdictChanges ==
  ASSUME TypeOK, PendingInv, [Next]_vars, NEW c \in Candidates,
         evidence[c] = "committed", Drained(c), ~TableApplied
  PROVE  Drained(c)' /\ interpretation'[c] = interpretation[c] /\ by'[c] = by[c]
<1> USE DEF Drained
<1>0. c[1] \in Handles /\ nextIndex[c[1]] \in 0..Population
  BY CandidatePairs DEF TypeOK
<1>1. ASSUME NEW h \in Handles, NEW i \in 0..(Population - 1),
             NEW outcome \in {"completed", "error"}, Accept(h, i, outcome)
      PROVE  UNCHANGED <<nextIndex, interpretation[c], by[c]>>
  BY <1>1 DEF Accept, TypeOK
<1>2. ASSUME NEW h \in Handles, OfferRefused(h)
      PROVE  UNCHANGED <<nextIndex, interpretation[c], by[c]>>
  BY <1>2 DEF OfferRefused, TypeOK, PendingInv
<1>3. ASSUME NEW h \in Handles, NEW F \in SUBSET MayFail, Interpret(h, F)
      PROVE  Drained(c)' /\ UNCHANGED <<interpretation[c], by[c]>>
  <2>1. nextIndex' = [nextIndex EXCEPT ![h] = @ + 1]
    BY <1>3 DEF Interpret
  <2>2. Drained(c)'
    <3>1. nextIndex'[c[1]] \in {nextIndex[c[1]], nextIndex[c[1]] + 1}
      BY <2>1, <1>0 DEF TypeOK
    <3>2. c[2] \in Int /\ Population \in Nat
      BY CandidatePairs, FinalizationAssumption
    <3> QED BY <3>1, <3>2, <1>0
  <2>3. c # Next0(h)
    <3>1. Next0(h)[1] = h /\ Next0(h)[2] = nextIndex[h]
      BY DEF Next0
    <3>2. ~(nextIndex[h] < nextIndex[h])
      BY <1>3 DEF TypeOK
    <3> QED BY <3>1, <3>2
  <2> QED BY <1>3, <2>2, <2>3 DEF Interpret, TypeOK
<1>4. ASSUME NEW d \in Candidates, OnPublished(d)
      PROVE  UNCHANGED <<nextIndex, interpretation[c], by[c]>>
  BY <1>4 DEF OnPublished, handleVars
<1>5. ASSUME OnFailed
      PROVE  UNCHANGED <<nextIndex, interpretation[c], by[c]>>
  BY <1>5 DEF OnFailed, handleVars, PendingInv
<1>6. ASSUME NEW h \in Handles,
             OfferAdmitted(h) \/ FlushReturns(h) \/ FlushRaises(h)
               \/ FinishStarts(h) \/ InterpretRaises(h) \/ DrainEnds(h)
               \/ FinishReturns(h)
      PROVE  UNCHANGED <<nextIndex, interpretation[c], by[c]>>
  BY <1>6 DEF OfferAdmitted, FlushReturns, FlushRaises, FinishStarts,
     InterpretRaises, DrainEnds, FinishReturns, rowVars
<1>7. ASSUME NEW f \in Fingerprints, NEW F \in SUBSET MayFail, TableFrozen(f, F)
      PROVE  UNCHANGED <<nextIndex, interpretation[c], by[c]>>
  BY <1>7 DEF TableFrozen, rowVars, handleVars
<1>8. UNCHANGED vars => UNCHANGED <<nextIndex, interpretation[c], by[c]>>
  BY DEF vars, rowVars, handleVars
<1> QED BY <1>1, <1>2, <1>3, <1>4, <1>5, <1>6, <1>7, <1>8 DEF Next, Coordinator

\* The table stays what it is until it is written back.
LEMMA TableStays ==
  ASSUME [Next]_vars, ~TableApplied,
         \A f \in Fingerprints, F \in SUBSET MayFail : ~TableFrozen(f, F)
  PROVE  table' = table /\ tableOf' = tableOf /\ early' = early
BY DEF Next, Coordinator, Accept, OfferRefused, OfferAdmitted, FlushReturns,
   FlushRaises, FinishStarts, Interpret, InterpretRaises, DrainEnds,
   FinishReturns, OnPublished, OnFailed, vars, tableVars

\* Every step keeps what a table took over.
LEMMA HintStep ==
  ASSUME TypeOK, PendingInv, VerdictInv, ProgressInv, HintInv, [Next]_vars
  PROVE  HintInv'
<1>1. ASSUME NEW f \in Fingerprints, NEW F \in SUBSET MayFail, TableFrozen(f, F)
      PROVE  HintInv'
  <2> SUFFICES ASSUME NEW c \in Rows, Drained(c)
               PROVE  Drained(c)' /\ (f = by[c] => table'[c] = interpretation[c])
    BY <1>1 DEF HintInv, TableFrozen, rowVars
  <2>1. Drained(c)'
    BY <1>1 DEF TableFrozen, handleVars, Drained
  <2>2. c \in Candidates /\ interpretation[c] \in Verdicts
    BY DrainedPassed DEF Rows, Passed
  <2>3. table'[c] = RowStatus(c, f, F)
    BY <1>1 DEF TableFrozen
  <2> QED BY <2>1, <2>2, <2>3 DEF RowStatus, Hinted
<1>2. CASE TableApplied
  BY <1>2 DEF TableApplied, HintInv, NoTable
<1>3. ASSUME ~TableApplied,
             \A f \in Fingerprints, F \in SUBSET MayFail : ~TableFrozen(f, F)
      PROVE  HintInv'
  <2>1. table' = table /\ tableOf' = tableOf /\ early' = early
    BY <1>3, TableStays
  <2> SUFFICES ASSUME NEW c \in DOMAIN table, c \notin early
               PROVE  Drained(c)' /\ (tableOf = by'[c]
                        => table[c] = interpretation'[c])
    BY <2>1 DEF HintInv
  <2>2. c \in Candidates /\ Drained(c)
    BY DEF HintInv, VerdictInv
  <2>3. evidence[c] = "committed"
    BY <2>2, DrainedPassed DEF Passed
  <2> QED BY <1>3, <2>2, <2>3, VerdictChanges DEF HintInv
<1> QED BY <1>1, <1>2, <1>3

-----------------------------------------------------------------------------
(* The budget of committed payloads.                                        *)

\* Only finitely many payloads can be kept.
LEMMA RetainedFinite == IsFiniteSet(Retained) /\ Cardinality(Retained) \in Nat
<1>1. IsFiniteSet(0..(Population - 1))
  BY FinalizationAssumption, FS_Interval
<1>2. IsFiniteSet(Candidates)
  BY <1>1, FinalizationAssumption, FS_Product DEF Candidates
<1>3. Retained \in SUBSET Candidates
  BY DEF Retained
<1>4. IsFiniteSet(Retained)
  BY <1>2, <1>3, FS_Subset
<1> QED BY <1>4, FS_CardinalityType

\* A pending row keeps its payload on the writer's account, not on the
\* budget's: what happens to its payload changes nothing that is retained.
LEMMA SameRetained ==
  ASSUME NEW S \in SUBSET Candidates,
         \A c \in S : evidence[c] # "committed" /\ evidence'[c] # "committed",
         \A c \in Candidates \ S :
           evidence'[c] = evidence[c] /\ envelope'[c] = envelope[c],
         owned' = owned, OwnedWithinBudget
  PROVE  OwnedWithinBudget'
<1>1. Retained' = Retained
  BY DEF Retained
<1> QED BY <1>1 DEF OwnedWithinBudget

\* Every step keeps the committed payloads within the budget.
LEMMA BudgetStep ==
  ASSUME TypeOK, PendingInv, OwnedWithinBudget, [Next]_vars
  PROVE  OwnedWithinBudget'
<1>1. ASSUME NEW h \in Handles, NEW i \in 0..(Population - 1),
             NEW outcome \in {"completed", "error"}, Accept(h, i, outcome)
      PROVE  OwnedWithinBudget'
  <2> DEFINE r == <<h, i>>
  <2>1. r \in Candidates /\ evidence[r] = "none" /\ owned' = owned
    BY <1>1, CandidatePairs DEF Accept, counterVars
  <2>2. \A c \in Candidates :
          /\ evidence'[c] = IF c = r THEN "pending" ELSE evidence[c]
          /\ c # r => envelope'[c] = envelope[c]
    BY <1>1 DEF Accept, TypeOK
  <2> HIDE DEF r
  <2> QED BY <2>1, <2>2, SameRetained, {r} \in SUBSET Candidates
<1>2. ASSUME NEW h \in Handles, OfferRefused(h)
      PROVE  OwnedWithinBudget'
  <2> DEFINE r == <<h, current[h]>>
  <2>1. r \in Candidates /\ evidence[r] = "pending" /\ owned' = owned
    BY <1>2, CandidatePairs DEF OfferRefused, counterVars, PendingInv
  <2>2. \A c \in Candidates :
          /\ evidence'[c] = IF c = r THEN "recording_failed" ELSE evidence[c]
          /\ c # r => envelope'[c] = envelope[c]
    BY <1>2 DEF OfferRefused, TypeOK
  <2> HIDE DEF r
  <2> QED BY <2>1, <2>2, SameRetained, {r} \in SUBSET Candidates
<1>3. ASSUME NEW h \in Handles, NEW F \in SUBSET MayFail, Interpret(h, F)
      PROVE  OwnedWithinBudget'
  <2> DEFINE n == Next0(h)
             released == interpretation[n] = "pending" /\ envelope[n]
  <2>1. /\ evidence[n] = "committed" /\ evidence' = evidence
        /\ owned' = IF released THEN Dec(owned) ELSE owned
    BY <1>3 DEF Interpret, counterVars
  <2>2. n \in Candidates
    <3>1. nextIndex[h] \in 0..Population /\ nextIndex[h] < Population
      BY <1>3 DEF Interpret, HasNext, TypeOK
    <3>2. nextIndex[h] \in 0..(Population - 1)
      BY <3>1, FinalizationAssumption
    <3> QED BY <3>2, CandidatePairs DEF Next0
  <2>3. \A c \in Candidates : envelope'[c] = (envelope[c] /\ c # n)
    <3>1. envelope' = [envelope EXCEPT ![n] = @ /\ ~TRUE]
      BY <1>3 DEF Interpret, ReleasesPayload
    <3> QED BY <3>1 DEF TypeOK
  <2> HIDE DEF n
  <2>4. Retained' = Retained \ {n}
    BY <2>1, <2>3 DEF Retained
  <2>5. Cardinality(Retained') = IF n \in Retained THEN Cardinality(Retained) - 1
                                 ELSE Cardinality(Retained)
    BY <2>4, RetainedFinite, FS_RemoveElement
  <2>6. released => n \in Retained
    BY <2>1, <2>2 DEF Retained
  <2> HIDE DEF released
  <2>7. owned \in Nat /\ OwnedLimit \in Nat
    BY FinalizationAssumption DEF TypeOK
  <2>8. Cardinality(Retained') <= owned' /\ owned' <= OwnedLimit
    BY <2>1, <2>5, <2>6, <2>7, RetainedFinite DEF Dec, OwnedWithinBudget
  <2> QED BY <2>8 DEF OwnedWithinBudget
<1>4. ASSUME NEW c \in Candidates, OnPublished(c)
      PROVE  OwnedWithinBudget'
  <2>1. /\ evidence[c] = "pending"
        /\ owned' = IF RetainsOwned(c) THEN owned + 1 ELSE owned
    BY <1>4 DEF OnPublished, PendingInv
  <2>2. \A d \in Candidates :
          /\ evidence'[d] = IF d = c THEN "committed" ELSE evidence[d]
          /\ d # c => envelope'[d] = envelope[d]
    BY <1>4 DEF OnPublished, TypeOK
  <2>3. envelope'[c] = RetainsOwned(c)
    BY <1>4 DEF OnPublished, TypeOK
  <2>4. c \notin Retained
    BY <2>1 DEF Retained
  <2>5. CASE RetainsOwned(c)
    <3>1. Retained' = Retained \cup {c}
      BY <2>2, <2>3, <2>5 DEF Retained
    <3>2. Cardinality(Retained') = Cardinality(Retained) + 1
      BY <3>1, <2>4, RetainedFinite, FS_AddElement
    <3>3. owned' = owned + 1 /\ owned + 1 <= OwnedLimit
      BY <2>1, <2>5 DEF RetainsOwned
    <3>4. owned \in Nat /\ OwnedLimit \in Nat
      BY FinalizationAssumption DEF TypeOK
    <3> QED BY <3>2, <3>3, <3>4, RetainedFinite DEF OwnedWithinBudget
  <2>6. CASE ~RetainsOwned(c)
    <3>1. Retained' = Retained
      BY <2>1, <2>2, <2>3, <2>6 DEF Retained
    <3> QED BY <3>1, <2>1, <2>6 DEF OwnedWithinBudget
  <2> QED BY <2>5, <2>6
<1>5. ASSUME OnFailed
      PROVE  OwnedWithinBudget'
  <2>1. queued \in SUBSET Candidates /\ owned' = owned
    BY <1>5 DEF OnFailed, TypeOK, counterVars
  <2>2. \A c \in queued :
          evidence[c] # "committed" /\ evidence'[c] # "committed"
    BY <1>5, <2>1 DEF OnFailed, PendingInv
  <2>3. \A c \in Candidates \ queued :
          evidence'[c] = evidence[c] /\ envelope'[c] = envelope[c]
    <3>1. \A c \in Candidates \ queued : evidence'[c] = evidence[c]
      BY <1>5 DEF OnFailed
    <3>2. ASSUME NEW c \in Candidates \ queued PROVE envelope'[c] = envelope[c]
      <4>1. envelope'[c] = (c \notin queued /\ envelope[c])
        BY <1>5 DEF OnFailed
      <4> QED BY <4>1 DEF TypeOK
    <3> QED BY <3>1, <3>2
  <2> QED BY <2>1, <2>2, <2>3, SameRetained
<1>6. ASSUME UNCHANGED <<evidence, envelope, owned>>
      PROVE  OwnedWithinBudget'
  BY <1>6 DEF OwnedWithinBudget, Retained
<1>7. ASSUME NEW h \in Handles,
             OfferAdmitted(h) \/ FlushReturns(h) \/ FlushRaises(h)
               \/ FinishStarts(h) \/ InterpretRaises(h) \/ DrainEnds(h)
               \/ FinishReturns(h)
      PROVE  UNCHANGED <<evidence, envelope, owned>>
  BY <1>7
  DEF OfferAdmitted, FlushReturns, FlushRaises, FinishStarts, InterpretRaises,
      DrainEnds, FinishReturns, rowVars, counterVars
<1>8. ASSUME NEW f \in Fingerprints, NEW F \in SUBSET MayFail, TableFrozen(f, F)
      PROVE  UNCHANGED <<evidence, envelope, owned>>
  BY <1>8 DEF TableFrozen, rowVars, counterVars
<1>9. TableApplied \/ UNCHANGED vars => UNCHANGED <<evidence, envelope, owned>>
  BY DEF TableApplied, vars, rowVars, counterVars
<1> QED BY <1>1, <1>2, <1>3, <1>4, <1>5, <1>6, <1>7, <1>8, <1>9
    DEF Next, Coordinator

-----------------------------------------------------------------------------
(* The theorems.                                                            *)

\* The invariant holds of every reachable state.
LEMMA Invariance == Spec => []Inv
<1>1. Init => Inv
  <2> SUFFICES ASSUME Init PROVE OwnedWithinBudget
    BY InitInv DEF Inv
  <2>1. Retained = {} /\ owned = 0
    BY DEF Init, Retained
  <2> QED BY <2>1, FS_EmptySet, FinalizationAssumption DEF OwnedWithinBudget
<1>2. Inv /\ [Next]_vars => Inv'
  BY TypeStep, PendingStep, VerdictStep, ProgressStep, HintStep, BudgetStep
  DEF Inv
<1> QED BY <1>1, <1>2, PTL DEF Spec

\* The rows, the counters and the coordinators keep their types.
THEOREM TypeCorrect == Spec => []TypeOK
BY Invariance, PTL DEF Inv

\* No candidate has a cost before its evidence is committed, neither from the
\* ordered interpretation nor from a cost table built while batches run.
THEOREM CostsAreEvidenced == Spec => []EvidenceFirst
<1>1. Inv => EvidenceFirst
  BY DEF Inv, VerdictInv, EvidenceFirst
<1> QED BY Invariance, <1>1, PTL

\* finish() returns only a complete batch: every candidate committed, judged
\* and without a payload left in memory.
THEOREM FinishIsComplete == Spec => []FinishedIsComplete
<1>1. Inv => FinishedIsComplete
  <2> SUFFICES ASSUME Inv, NEW h \in Handles, NEW i \in 0..(Population - 1),
                      phase[h] = "done"
               PROVE  Passed(<<h, i>>)
    BY DEF FinishedIsComplete, Passed, Retained
  <2>1. nextIndex[h] = Population /\ (i < nextIndex[h] => Passed(<<h, i>>))
    BY DEF Inv, ProgressInv, BatchInv
  <2> QED BY <2>1, FinalizationAssumption
<1> QED BY Invariance, <1>1, PTL

\* Once finish() has flushed, it waits for nothing: every receipt is answered
\* and every row it has passed carries its verdict.
THEOREM AnswersAreThere == Spec => []FinishHasAnswers
<1>1. Inv => FinishHasAnswers
  <2> SUFFICES ASSUME Inv, NEW h \in Handles, NEW i \in 0..(Population - 1),
                      phase[h] = "drain"
               PROVE  /\ evidence[<<h, i>>] \in {"committed", "recording_failed"}
                      /\ i < nextIndex[h] => Passed(<<h, i>>)
    BY DEF FinishHasAnswers, Passed
  <2>1. BatchInv(h, i) /\ <<h, i>> \in Candidates
    BY CandidatePairs DEF Inv, ProgressInv
  <2> QED BY <2>1 DEF BatchInv, Inv, TypeOK
<1> QED BY Invariance, <1>1, PTL

\* The committed payloads kept in memory never exceed the configured budget.
THEOREM PayloadsAreBounded == Spec => []OwnedWithinBudget
BY Invariance, PTL DEF Inv

\* Under one fingerprint a drained candidate's verdict is withdrawn neither by a
\* failing writer nor by a table that froze its row after the drain: such a table
\* took the verdict over, however its own attempt at the row might have ended.
THEOREM VerdictsAreFinal == Spec => VerdictsStand
<1>1. Inv /\ [Next]_vars =>
        [\A c \in Candidates :
           Drained(c) /\ interpretation[c] \in Verdicts /\ c \notin early
             => interpretation'[c] = interpretation[c] \/ by'[c] # by[c]]_vars
  <2> SUFFICES ASSUME Inv, Next, NEW c \in Candidates, Drained(c),
                      c \notin early
               PROVE  interpretation'[c] = interpretation[c] \/ by'[c] # by[c]
    OBVIOUS
  <2>1. evidence[c] = "committed"
    BY DrainedPassed DEF Inv, Passed
  <2>2. CASE ~TableApplied
    BY <2>1, <2>2, VerdictChanges DEF Inv
  <2>3. CASE TableApplied
    <3>1. c \in DOMAIN table /\ tableOf = by[c] => table[c] = interpretation[c]
      BY DEF Inv, HintInv
    <3> QED BY <2>3, <3>1 DEF TableApplied, WritesBack
  <2> QED BY <2>2, <2>3
<1> QED BY Invariance, <1>1, PTL DEF Spec, VerdictsStand
=============================================================================
