-------------------------- MODULE RecorderInvariant --------------------------
(***************************************************************************)
(* The strengthening that makes the recorder's safety invariants           *)
(* inductive: who owns an envelope, how rows and receipts follow the       *)
(* owner, and which segment numbers exist.  What is on disk is known only  *)
(* as long as the writer has been the workspace's only one.                *)
(***************************************************************************)
EXTENDS Recorder

\* Between os.replace and the end of _release_budget_unlocked the active
\* batch is already on disk.
OnDisk == wpc \in {"published", "release"}

Distinct(q) == \A i, j \in DOMAIN q : q[i] = q[j] => i = j

\* The lock is kept until close() ends, and only close() asks the writer to
\* stop.
LockInv ==
  /\ LockKept
  /\ session = "open" => ~shutdown

\* A batch is held exactly while the writer publishes it; a batch is of one
\* group; envelopes are handed to _on_failed only while it runs; a writer
\* that goes on has not used up its attempts.
WriterInv ==
  /\ wpc \in {"publish", "published", "release"} <=> active # <<>>
  /\ \A i \in DOMAIN active : Group[active[i]] = Group[active[1]]
  /\ wpc # "failing" => failing = {}
  /\ wpc = "failing" => fatal /\ queue = <<>>
  /\ wpc \notin {"failing", "exiting", "dead"} => failures < MaxFailures

\* An envelope has one owner: a submitting thread, the queue or the batch.
OwnerInv ==
  /\ Distinct(queue) /\ Distinct(active)
  /\ Range(queue) \cap Range(active) = {}
  /\ \A t \in Threads :
       IF Offering(t)
       THEN /\ arg[t] \in Envelopes
            /\ arg[t] \notin Range(queue) \cup Range(active) \cup failing
            /\ \A u \in Threads : arg[u] = arg[t] => u = t
       ELSE arg[t] = NoEnvelope

\* A receipt is pending while its envelope is owned and the row says so; the
\* rows of a batch on its way out of the writer are committed.
Owned(e) ==
  \/ \E t \in Threads : arg[t] = e
  \/ e \in Range(queue) \cup failing
  \/ wpc # "release" /\ e \in Range(active)

RowInv ==
  \A e \in Envelopes :
    /\ Owned(e) <=> receipt[e] = "pending"
    /\ Owned(e) <=> evidence[e] = "pending"
    /\ evidence[e] = "none" => receipt[e] = "none"
    /\ wpc = "release" /\ e \in Range(active) => evidence[e] = "committed"

\* While the writer can be used, only an envelope beyond the limit of one
\* candidate has been refused or is about to be.
FailInv ==
  ~Unavailable =>
    /\ \A e \in Envelopes : receipt[e] = "failed" => Bytes[e] > MaxCandidateBytes
    /\ \A t \in Threads :
         pc[t] = "refused" => Bytes[arg[t]] > MaxCandidateBytes

\* A stray is there only once a session was opened beside it.
StrayInv == strays # {} => overlap

\* What is durable: committed rows and the published batch, and nothing that
\* has still to be published.
DurableInv ==
  /\ CommittedIsDurable
  /\ OnDisk => Range(active) \subseteq Durable
  /\ \A e \in Durable :
       /\ session # "down" => evidence[e] # "none"
       /\ e \notin Range(queue)
       /\ wpc = "publish" => e \notin Range(active)
       /\ \A t \in Threads : arg[t] # e

\* Segment numbers of a group have no gaps, whoever wrote the segments: no
\* writer goes on from a number past the last one on disk, and the only writer
\* of a workspace goes on from exactly the next one.
Numbered(g, n) == SequenceNumbers(g) = 0..(n - 1)

NumberedUpTo(g, n) ==
  /\ Numbered(g, n)
  /\ \A w \in strays : w.sequences[g] <= n
  /\ Reached[g] <= n
  /\ ~overlap /\ wpc \in {"idle", "publish", "published", "release"}
       => Reached[g] = n

NumberInv == \A g \in Groups : \E n \in Nat : NumberedUpTo(g, n)

Inv ==
  /\ TypeOK /\ LockInv /\ WriterInv /\ OwnerInv /\ RowInv /\ FailInv
  /\ StrayInv /\ NumberInv /\ (overlap \/ DurableInv) /\ PublishedOnce
  /\ BudgetAccounting
=============================================================================
