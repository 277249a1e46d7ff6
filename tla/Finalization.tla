---------------------------- MODULE Finalization ----------------------------
(***************************************************************************)
(* From an executed candidate to an interpreted one: the coordinator of    *)
(* evaluate_manager/finalizer.py (one per evaluation handle, on the        *)
(* handle's own thread), the session rows and ownership counters it shares *)
(* with the history writer, and the optimization program's cost tables,    *)
(* which read and rewrite the same rows while evaluations are running.     *)
(*                                                                         *)
(* The writer is what EvidenceLog promises of it: an admitted envelope is  *)
(* committed at some time, or everything unpublished fails together.       *)
(***************************************************************************)
EXTENDS Integers, FiniteSets

CONSTANTS
  Handles,       \* evaluation handles, each with a population of its own
  Population,    \* candidates of one handle
  GroupLimit,    \* HISTORY_SEGMENT_MAX_CANDIDATES: envelopes per group
  OwnedLimit,    \* HISTORY_UNPUBLISHED_MAX_CANDIDATES: payloads kept in memory
  Fingerprints,  \* interpretation fingerprints of task snapshots
  Current,       \* the one of the snapshot the open handles share
  MayFail,       \* candidates of which an attempt to derive a cost may fail
  MaxTables      \* bound of the model: cost tables built

Candidates == Handles \X (0..(Population - 1))

ASSUME FinalizationAssumption ==
  /\ IsFiniteSet(Handles)
  /\ Population \in Nat /\ GroupLimit \in Nat \ {0} /\ OwnedLimit \in Nat
  /\ MaxTables \in Nat /\ Current \in Fingerprints
  /\ MayFail \subseteq Candidates

VARIABLES
  execution,      \* "none" | "completed" | "error": what the record says
  evidence,       \* evidence_state of the session row ("none": no row)
  interpretation, \* interpretation_state of the row ("none": no row)
  by,             \* interpretation_fingerprint of the row ("none": no verdict)
  envelope,       \* the row still owns its payload
  queued,         \* envelopes the writer admitted and has not answered
  fatal,          \* the writer has failed
  uninterpreted,  \* committed_uninterpreted_candidates
  owned,          \* committed_owned_candidates
  phase,          \* where each coordinator is
  current,        \* the index being accepted (0 when it has been)
  nextIndex,      \* _next_index: the first row without a result
  groupCount,     \* _group_count
  table,          \* the cost table being built: status of each frozen row
  tableOf,        \* the fingerprint it is built under
  early,          \* rows it froze before their batch had interpreted them
                  \* (history, for the properties)
  tables          \* cost tables built so far

rowVars == <<execution, evidence, interpretation, by, envelope>>
writerVars == <<queued, fatal>>
counterVars == <<uninterpreted, owned>>
handleVars == <<phase, current, nextIndex, groupCount>>
tableVars == <<table, tableOf, early, tables>>
vars == <<rowVars, writerVars, counterVars, handleVars, tableVars>>

NoTable == [c \in {} |-> "missing"]

Dec(n) == IF n > 0 THEN n - 1 ELSE 0

Verdicts == {"succeeded", "failed", "not_applicable"}

\* Each attempt fails or succeeds by itself: normalizing, loading the rawData
\* and the cost callback are all within what it isolates.
Attempt(c, failing) == IF c \in failing THEN "failed" ELSE "succeeded"

-----------------------------------------------------------------------------
(* accept: own and admit one completion.                                    *)

\* _prepare_result and submit_evidence's first section.  What executed well
\* and carries valid rawData is completed evidence; anything else is not.
Accept(h, i, outcome) ==
  /\ phase[h] = "run" /\ evidence[<<h, i>>] = "none"
  /\ execution' = [execution EXCEPT ![<<h, i>>] = outcome]
  /\ evidence' = [evidence EXCEPT ![<<h, i>>] = "pending"]
  /\ interpretation' = [interpretation EXCEPT ![<<h, i>>] = "pending"]
  /\ by' = [by EXCEPT ![<<h, i>>] = "none"]
  /\ envelope' = [envelope EXCEPT ![<<h, i>>] = TRUE]
  /\ phase' = [phase EXCEPT ![h] = "offer"]
  /\ current' = [current EXCEPT ![h] = i]
  /\ UNCHANGED <<writerVars, counterVars, nextIndex, groupCount, tableVars>>

\* The writer is gone: the row fails and the handle's batch with it.
OfferRefused(h) ==
  /\ phase[h] = "offer" /\ fatal
  /\ LET c == <<h, current[h]>> IN
       /\ evidence' = [evidence EXCEPT ![c] = "recording_failed"]
       /\ interpretation' = [interpretation EXCEPT ![c] = "blocked"]
       /\ envelope' = [envelope EXCEPT ![c] = FALSE]
  /\ phase' = [phase EXCEPT ![h] = "failed"]
  /\ UNCHANGED <<execution, by, writerVars, counterVars, current, nextIndex,
                 groupCount, tableVars>>

\* Admitted; a full group asks for a flush before anything is drained.
OfferAdmitted(h) ==
  /\ phase[h] = "offer" /\ ~fatal
  /\ queued' = queued \cup {<<h, current[h]>>}
  /\ groupCount' = [groupCount EXCEPT ![h] = @ + 1]
  /\ phase' = [phase EXCEPT ![h] =
       IF groupCount[h] + 1 >= GroupLimit THEN "flush" ELSE "ready"]
  /\ current' = [current EXCEPT ![h] = 0]
  /\ UNCHANGED <<rowVars, fatal, counterVars, nextIndex, tableVars>>

\* flush_boundary returns: nothing admitted is unanswered.
Flushed == ~fatal /\ queued = {}

FlushReturns(h) ==
  /\ phase[h] \in {"flush", "finish"} /\ Flushed
  /\ groupCount' = [groupCount EXCEPT ![h] = 0]
  /\ phase' = [phase EXCEPT ![h] = IF @ = "flush" THEN "ready" ELSE "drain"]
  /\ UNCHANGED <<rowVars, writerVars, counterVars, current, nextIndex,
                 tableVars>>

FlushRaises(h) ==
  /\ phase[h] \in {"flush", "finish"} /\ fatal
  /\ phase' = [phase EXCEPT ![h] = "failed"]
  /\ UNCHANGED <<rowVars, writerVars, counterVars, current, nextIndex,
                 groupCount, tableVars>>

\* Every index of the population has been accepted.
AllAccepted(h) == \A i \in 0..(Population - 1) : evidence[<<h, i>>] # "none"

FinishStarts(h) ==
  /\ phase[h] = "run" /\ AllAccepted(h)
  /\ phase' = [phase EXCEPT ![h] = "finish"]
  /\ UNCHANGED <<rowVars, writerVars, counterVars, current, nextIndex,
                 groupCount, tableVars>>

-----------------------------------------------------------------------------
(* _drain_ready and _interpret, in population order.                        *)

Next0(h) == <<h, nextIndex[h]>>

HasNext(h) == nextIndex[h] < Population /\ evidence[Next0(h)] # "none"

\* What record_interpretation records for the next row.
Recorded(c, failing) ==
  IF execution[c] = "error" THEN "not_applicable" ELSE Attempt(c, failing)

\* Mutation: a failed interpretation keeps its payload for a later replay.
Releases(c, failing) == Recorded(c, failing) # "failed"

\* record_interpretation always drops the payload the row owns.
ReleasesPayload(c, failing) == TRUE

Interpret(h, failing) ==
  /\ phase[h] \in {"ready", "drain"} /\ HasNext(h)
  /\ LET c == Next0(h) IN
       /\ evidence[c] = "committed"
       /\ interpretation' = [interpretation EXCEPT ![c] = Recorded(c, failing)]
       /\ by' = [by EXCEPT ![c] = Current]
       /\ envelope' = [envelope EXCEPT ![c] = @ /\ ~ReleasesPayload(c, failing)]
       /\ IF interpretation[c] = "pending"
          THEN /\ uninterpreted' = Dec(uninterpreted)
               /\ owned' = IF envelope[c] THEN Dec(owned) ELSE owned
          ELSE UNCHANGED counterVars
  /\ nextIndex' = [nextIndex EXCEPT ![h] = @ + 1]
  /\ UNCHANGED <<execution, evidence, writerVars, phase, current, groupCount,
                 tableVars>>

\* wait_committed raises: the campaign cannot go on with this batch.
InterpretRaises(h) ==
  /\ phase[h] \in {"ready", "drain"} /\ HasNext(h)
  /\ evidence[Next0(h)] = "recording_failed"
  /\ phase' = [phase EXCEPT ![h] = "failed"]
  /\ UNCHANGED <<rowVars, writerVars, counterVars, current, nextIndex,
                 groupCount, tableVars>>

\* accept returns: the next row has not arrived or is not answered yet.
DrainEnds(h) ==
  /\ phase[h] = "ready"
  /\ HasNext(h) => evidence[Next0(h)] = "pending"
  /\ phase' = [phase EXCEPT ![h] = "run"]
  /\ UNCHANGED <<rowVars, writerVars, counterVars, current, nextIndex,
                 groupCount, tableVars>>

FinishReturns(h) ==
  /\ phase[h] = "drain" /\ nextIndex[h] = Population
  /\ phase' = [phase EXCEPT ![h] = "done"]
  /\ UNCHANGED <<rowVars, writerVars, counterVars, current, nextIndex,
                 groupCount, tableVars>>

-----------------------------------------------------------------------------
(* The history writer's callbacks: _on_published and _on_failed.            *)

\* Mutation: the payload is kept whatever is already kept.
KeepsAll(c) == execution[c] = "completed"

\* retain_owned: a payload stays in memory only within the budget.
RetainsOwned(c) == execution[c] = "completed" /\ owned + 1 <= OwnedLimit

OnPublished(c) ==
  /\ c \in queued /\ ~fatal
  /\ queued' = queued \ {c}
  /\ evidence' = [evidence EXCEPT ![c] = "committed"]
  /\ envelope' = [envelope EXCEPT ![c] = RetainsOwned(c)]
  /\ uninterpreted' = uninterpreted + 1
  /\ owned' = IF RetainsOwned(c) THEN owned + 1 ELSE owned
  /\ UNCHANGED <<execution, interpretation, by, fatal, handleVars, tableVars>>

OnFailed ==
  /\ ~fatal
  /\ fatal' = TRUE
  /\ queued' = {}
  /\ evidence' = [c \in Candidates |->
       IF c \in queued THEN "recording_failed" ELSE evidence[c]]
  /\ interpretation' = [c \in Candidates |->
       IF c \in queued THEN "blocked" ELSE interpretation[c]]
  /\ envelope' = [c \in Candidates |-> c \notin queued /\ envelope[c]]
  /\ UNCHANGED <<execution, by, counterVars, handleVars, tableVars>>

-----------------------------------------------------------------------------
(* cost_table: freeze the rows, interpret them, write the verdicts back.    *)

\* Mutation: a verdict is worked out again for every table.
NeverHinted(c, f) == FALSE

\* A verdict given under the table's own fingerprint is taken over.
Hinted(c, f) == by[c] = f /\ interpretation[c] \in Verdicts

\* Mutation: evidence that is still pending counts as failed.
PendingFails(c, f, failing) ==
  IF Hinted(c, f) THEN interpretation[c]
  ELSE IF execution[c] = "error" THEN "not_applicable"
  ELSE IF evidence[c] # "committed" THEN "failed" ELSE Attempt(c, failing)

\* Mutation: a row without committed evidence reports its evidence state.
EvidenceReported(c, f, failing) ==
  IF Hinted(c, f) THEN interpretation[c]
  ELSE IF execution[c] = "error" THEN "not_applicable"
  ELSE IF evidence[c] # "committed" THEN evidence[c] ELSE Attempt(c, failing)

\* calculate_cost_table's status of one frozen row.
RowStatus(c, f, failing) ==
  IF Hinted(c, f) THEN interpretation[c]
  ELSE IF execution[c] = "error" THEN "not_applicable"
  ELSE IF evidence[c] # "committed" THEN "missing" ELSE Attempt(c, failing)

Rows == {c \in Candidates : evidence[c] # "none"}

Drained(c) == c[2] < nextIndex[c[1]]

TableFrozen(f, failing) ==
  /\ tables < MaxTables /\ table = NoTable
  /\ Rows # {}
  /\ table' = [c \in Rows |-> RowStatus(c, f, failing)]
  /\ tableOf' = f
  /\ early' = {c \in Rows : ~Drained(c)}
  /\ tables' = tables + 1
  /\ UNCHANGED <<rowVars, writerVars, counterVars, handleVars>>

\* Mutation: rows that were missing are written back too.
WritesEvery(c) == c \in DOMAIN table

\* Rows that were missing when the table was frozen are left alone.
WritesBack(c) == c \in DOMAIN table /\ table[c] # "missing"

TableApplied ==
  /\ table # NoTable
  /\ interpretation' = [c \in Candidates |->
       IF WritesBack(c) THEN table[c] ELSE interpretation[c]]
  /\ by' = [c \in Candidates |-> IF WritesBack(c) THEN tableOf ELSE by[c]]
  /\ table' = NoTable /\ tableOf' = "none" /\ early' = {}
  /\ UNCHANGED <<execution, evidence, envelope, writerVars, counterVars,
                 handleVars, tables>>

-----------------------------------------------------------------------------
Init ==
  /\ execution = [c \in Candidates |-> "none"]
  /\ evidence = [c \in Candidates |-> "none"]
  /\ interpretation = [c \in Candidates |-> "none"]
  /\ by = [c \in Candidates |-> "none"]
  /\ envelope = [c \in Candidates |-> FALSE]
  /\ queued = {} /\ fatal = FALSE
  /\ uninterpreted = 0 /\ owned = 0
  /\ phase = [h \in Handles |-> "run"]
  /\ current = [h \in Handles |-> 0]
  /\ nextIndex = [h \in Handles |-> 0]
  /\ groupCount = [h \in Handles |-> 0]
  /\ table = NoTable /\ tableOf = "none" /\ early = {} /\ tables = 0

Coordinator(h) ==
  \/ OfferRefused(h) \/ OfferAdmitted(h) \/ FlushReturns(h) \/ FlushRaises(h)
  \/ FinishStarts(h) \/ InterpretRaises(h) \/ DrainEnds(h)
  \/ FinishReturns(h)
  \/ \E failing \in SUBSET MayFail : Interpret(h, failing)

Next ==
  \/ \E h \in Handles, i \in 0..(Population - 1),
        outcome \in {"completed", "error"} : Accept(h, i, outcome)
  \/ \E h \in Handles : Coordinator(h)
  \/ \E c \in Candidates : OnPublished(c)
  \/ OnFailed
  \/ \E f \in Fingerprints, failing \in SUBSET MayFail :
       TableFrozen(f, failing)
  \/ TableApplied

Spec == Init /\ [][Next]_vars

-----------------------------------------------------------------------------
(* Properties.                                                              *)

\* Every variable of the coordinators and the rows keeps its type.
TypeOK ==
  /\ execution \in [Candidates -> {"none", "completed", "error"}]
  /\ evidence \in
       [Candidates -> {"none", "pending", "committed", "recording_failed"}]
  /\ interpretation \in [Candidates -> {"none", "pending", "blocked",
       "succeeded", "failed", "not_applicable"}]
  /\ by \in [Candidates -> Fingerprints \cup {"none"}]
  /\ envelope \in [Candidates -> BOOLEAN]
  /\ queued \subseteq Candidates /\ fatal \in BOOLEAN
  /\ uninterpreted \in Nat /\ owned \in Nat
  /\ phase \in [Handles -> {"run", "offer", "flush", "finish", "ready",
                            "drain", "done", "failed"}]
  /\ current \in [Handles -> 0..Population]
  /\ nextIndex \in [Handles -> 0..Population]
  /\ groupCount \in [Handles -> Nat]
  /\ \A c \in DOMAIN table : table[c] \in Verdicts \cup {"missing"}
  /\ tableOf \in Fingerprints \cup {"none"} /\ early \subseteq Candidates
  /\ tables \in 0..MaxTables

\* Payloads kept in memory after their commit.
Retained == {c \in Candidates : envelope[c] /\ evidence[c] = "committed"}

\* Committed payloads stay within their budget, whatever order publication,
\* interpretation and cost tables come in: the counter that guards the budget
\* may overstate what is kept but never understates it.
OwnedWithinBudget == Cardinality(Retained) <= owned /\ owned <= OwnedLimit

\* A cost exists only for evidence that is already durable: neither the
\* ordered interpretation nor a cost table works from pending evidence.
EvidenceFirst ==
  \A c \in Candidates :
    interpretation[c] \in {"succeeded", "failed"} => evidence[c] = "committed"

\* A batch that finishes hands out a verdict for every candidate, each about
\* evidence that is durable, and leaves no payload behind.
FinishedIsComplete ==
  \A h \in Handles, i \in 0..(Population - 1) :
    phase[h] = "done" =>
      /\ evidence[<<h, i>>] = "committed"
      /\ interpretation[<<h, i>>] \in Verdicts
      /\ <<h, i>> \notin Retained

\* The running totals say what they are named for: the committed candidates
\* nobody has interpreted, and the payloads kept in memory for them.
CountersExact ==
  /\ uninterpreted = Cardinality({c \in Candidates :
       evidence[c] = "committed" /\ interpretation[c] = "pending"})
  /\ owned = Cardinality(Retained)

\* Under one fingerprint, the verdict of a candidate its batch has interpreted
\* stands: no failure of the writer and no cost table withdraws it, however its
\* own attempt at the row would have ended, except a table whose rows were
\* frozen before the batch came to the candidate.
VerdictsStand ==
  [][\A c \in Candidates :
       Drained(c) /\ interpretation[c] \in Verdicts /\ c \notin early
         => interpretation'[c] = interpretation[c] \/ by'[c] # by[c]]_vars

\* "reinterpret history only when its interpretation fingerprint changes"
\* and "reuse same-fingerprint transient hints" (session.py.md:12, 17): a cost
\* that was derived, or failed to be, gives way to another fingerprint only.
\* A table that was frozen before the drain breaks it.
ReinterpretedOnChange ==
  [][\A c \in Candidates :
       interpretation[c] \in {"succeeded", "failed"}
         => interpretation'[c] = interpretation[c] \/ by'[c] # by[c]]_vars

\* After its last flush a batch has every answer: finish() neither waits for a
\* receipt nor finds a row without a result when it has interpreted the rest.
FinishHasAnswers ==
  \A h \in Handles, i \in 0..(Population - 1) :
    phase[h] = "drain" =>
      /\ evidence[<<h, i>>] \in {"committed", "recording_failed"}
      /\ i < nextIndex[h] =>
           /\ evidence[<<h, i>>] = "committed"
           /\ interpretation[<<h, i>>] \in Verdicts

=============================================================================
