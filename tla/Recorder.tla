------------------------------ MODULE Recorder ------------------------------
(***************************************************************************)
(* The evidence recorder of one workspace campaign: the bounded segment    *)
(* writer of recorded_data/session.py with its one history-writer thread,  *)
(* the evaluation threads that offer evidence to it and wait for flush     *)
(* boundaries, the publication receipts, the campaign lock, and the        *)
(* segments a later session recovers.  An interrupt can end close() while  *)
(* the writer is still at work: a writer that a later session finds        *)
(* publishing beside its own is a stray.                                   *)
(*                                                                         *)
(* Every action is one critical section of the code: what runs under the   *)
(* writer's condition, under the session's state lock, or between the two. *)
(* The condition variable is explicit: a waiter is in asleep until a       *)
(* notify_all empties that set.                                            *)
(***************************************************************************)
EXTENDS Naturals, FiniteSets, Sequences, Functions

CONSTANTS
  Envelopes,            \* candidate identities that may ever be submitted
  Groups,               \* (run_id, generation_index) keys
  Group,                \* the group an envelope belongs to
  Bytes,                \* the conservative reservation of an envelope
  Threads,              \* threads that submit evidence and flush
  Writer,               \* the history-writer thread
  NoEnvelope,           \* no envelope
  MaxSegmentCount,      \* HISTORY_SEGMENT_MAX_CANDIDATES
  SegmentTargetBytes,   \* HISTORY_SEGMENT_TARGET_BYTES
  MaxCandidateBytes,    \* HISTORY_MAX_CANDIDATE_BYTES
  MaxUnpublishedCount,  \* HISTORY_UNPUBLISHED_MAX_CANDIDATES
  MaxUnpublishedBytes,  \* HISTORY_UNPUBLISHED_MAX_BYTES
  MaxFailures,          \* HISTORY_WRITER_MAX_CONSECUTIVE_FAILURES
  MaxSessions,          \* bound of the model: sessions opened on the workspace
  Interruptible         \* bound of the model: sessions whose close may be interrupted

\* What config.py validates and what _BoundedSegmentWriter.__init__ rejects.
ASSUME RecorderAssumption ==
  /\ Group \in [Envelopes -> Groups]
  /\ Bytes \in [Envelopes -> Nat \ {0}]
  /\ MaxSegmentCount \in Nat \ {0} /\ SegmentTargetBytes \in Nat \ {0}
  /\ MaxCandidateBytes \in Nat \ {0} /\ MaxFailures \in Nat \ {0}
  /\ MaxUnpublishedCount \in Nat /\ MaxSegmentCount <= MaxUnpublishedCount
  /\ MaxUnpublishedBytes \in Nat /\ MaxCandidateBytes <= MaxUnpublishedBytes
  /\ MaxSessions \in Nat \ {0} /\ Interruptible \subseteq 1..MaxSessions
  /\ NoEnvelope \notin Envelopes /\ Writer \notin Threads

VARIABLES
  session,       \* "open" | "stopping" | "closed" | "down"
  sessions,      \* sessions opened so far
  lock,          \* the campaign lock is held by this session
  evidence,      \* evidence_state of each session row ("none": no row)
  receipt,       \* state of each row's receipt ("none": recovered, or no row)
  segments,      \* finalized segment files
  queue,         \* _queue
  active,        \* _active_batch
  failing,       \* envelopes _fail_pending_unlocked handed to _on_failed
  flushRequested, shutdown, unpublishedCount, unpublishedBytes,
  failures,      \* _consecutive_failures
  fatal,         \* _fatal_error is set
  sequences,     \* _sequences: next segment number of each group
  wpc,           \* where the writer thread is
  pc,            \* what each thread is doing
  arg,           \* the envelope a submitting thread owns
  asleep,        \* threads inside condition.wait()
  strays,        \* writers of earlier sessions still at work: what each has
                 \* left to publish, and its own segment numbers
  overlap        \* a session was opened beside such a writer

sessionVars == <<session, sessions, lock, strays, overlap>>
rowVars == <<evidence, receipt>>
diskVars == <<segments, sequences>>
batchVars == <<queue, active, failing, unpublishedCount, unpublishedBytes>>
flagVars == <<flushRequested, shutdown, fatal>>
threadVars == <<pc, arg>>
vars == <<sessionVars, rowVars, diskVars, batchVars, flagVars, threadVars,
          failures, wpc, asleep>>

-----------------------------------------------------------------------------
(* Sizes.  A reserved byte of an envelope is a pair <<envelope, i>>, so the *)
(* bytes of a set of envelopes are the size of a set.                       *)

ReservedBytes(S) ==
  Cardinality({b \in S \X (1..MaxCandidateBytes) : b[2] <= Bytes[b[1]]})

Batched(q, n) == Range(SubSeq(q, 1, n))

Monus(a, b) == IF a >= b THEN a - b ELSE 0

\* Every candidate some finalized segment holds: what discover_catalog finds.
Durable == UNION {s.candidates : s \in segments}

SequenceNumbers(g) == {s.sequence : s \in {z \in segments : z.group = g}}

\* next_sequence_by_directory: one past the largest number on disk.
NextSequence(g) ==
  IF SequenceNumbers(g) = {} THEN 0
  ELSE 1 + CHOOSE n \in SequenceNumbers(g) :
             \A m \in SequenceNumbers(g) : m <= n

-----------------------------------------------------------------------------
(* Guards of the writer's condition.                                        *)

\* Mutation: an empty queue is taken for an empty recorder.
QueueIsEmpty == queue = <<>>

NothingUnpublished == unpublishedCount = 0

Unavailable == fatal \/ shutdown \/ wpc = "dead"

\* Mutation: the bytes of the new envelope are not counted.
HasRoom(e) ==
  /\ unpublishedCount + 1 <= MaxUnpublishedCount
  /\ unpublishedBytes <= MaxUnpublishedBytes

HasCapacity(e) ==
  /\ unpublishedCount + 1 <= MaxUnpublishedCount
  /\ unpublishedBytes + Bytes[e] <= MaxUnpublishedBytes

\* Mutation: a flush request does not make a part-filled segment ready.
ReadyWhenFull ==
  /\ queue # <<>>
  /\ \/ Len(queue) >= MaxSegmentCount
     \/ \E i \in DOMAIN queue : Group[queue[i]] # Group[queue[1]]
     \/ ReservedBytes(Range(queue)) >= SegmentTargetBytes

\* _ready_unlocked, except for shutdown.
BatchReady ==
  /\ queue # <<>>
  /\ \/ flushRequested
     \/ Len(queue) >= MaxSegmentCount
     \/ \E i \in DOMAIN queue : Group[queue[i]] # Group[queue[1]]
     \/ ReservedBytes(Range(queue)) >= SegmentTargetBytes

\* The lengths _take_batch_unlocked's batch passes through; it stops at the
\* one it cannot grow from.
BatchSizes ==
  {n \in 1..Len(queue) :
     /\ n <= MaxSegmentCount
     /\ \A i \in 1..n : Group[queue[i]] = Group[queue[1]]
     /\ n > 1 => /\ ReservedBytes(Batched(queue, n - 1)) < SegmentTargetBytes
                 /\ ReservedBytes(Batched(queue, n)) <= SegmentTargetBytes}

IsBatchSize(n) == n \in BatchSizes /\ n + 1 \notin BatchSizes

\* Mutation: the notification is forgotten.
NotifyNobody == UNCHANGED asleep

NotifyAll == asleep' = {}

Release(S) ==
  /\ unpublishedCount' = Monus(unpublishedCount, Cardinality(S))
  /\ unpublishedBytes' = Monus(unpublishedBytes, ReservedBytes(S))

Unpublished == Range(queue) \cup Range(active)

\* Mutation: the failure covers the active batch only.
ActiveOnly == Range(active)

\* What _fail_pending_unlocked hands over to be failed.
Retained == Unpublished

\* _set_fatal_unlocked and _fail_pending_unlocked in one critical section.
FailPending ==
  /\ fatal' = TRUE
  /\ failing' = Retained
  /\ active' = <<>>
  /\ queue' = <<>>
  /\ Release(Unpublished)
  /\ NotifyAll
  /\ wpc' = "failing"

-----------------------------------------------------------------------------
(* Threads: submit_evidence and flush_boundary.                             *)

\* Mutation: only a pending row counts as a known identity.
NotPending(e) == evidence[e] # "pending"

Unknown(e) == evidence[e] = "none"

\* submit_evidence, first section: insert the pending row and its receipt.
\* A known identity raises RecordingError and changes nothing.  A candidate's
\* name is made once, of the time and a number, so what a stray still holds is
\* nothing another session could be offered.
Submit(t, e) ==
  /\ pc[t] = "idle" /\ session # "down"
  /\ Unknown(e)
  /\ \A w \in strays : e \notin Range(w.left)
  /\ evidence' = [evidence EXCEPT ![e] = "pending"]
  /\ receipt' = [receipt EXCEPT ![e] = "pending"]
  /\ pc' = [pc EXCEPT ![t] = "offer"]
  /\ arg' = [arg EXCEPT ![t] = e]
  /\ UNCHANGED <<sessionVars, diskVars, batchVars, flagVars, failures, wpc,
                 asleep>>

Refused(t) == Unavailable \/ Bytes[arg[t]] > MaxCandidateBytes

\* offer raises; submit_evidence's except branch is the next step.
OfferRefused(t) ==
  /\ pc[t] = "offer" /\ t \notin asleep
  /\ Refused(t)
  /\ pc' = [pc EXCEPT ![t] = "refused"]
  /\ UNCHANGED <<sessionVars, rowVars, diskVars, batchVars, flagVars, arg,
                 failures, wpc, asleep>>

OfferAdmitted(t) ==
  /\ pc[t] = "offer" /\ t \notin asleep
  /\ ~Refused(t) /\ HasCapacity(arg[t])
  /\ queue' = Append(queue, arg[t])
  /\ unpublishedCount' = unpublishedCount + 1
  /\ unpublishedBytes' = unpublishedBytes + Bytes[arg[t]]
  /\ pc' = [pc EXCEPT ![t] = "idle"]
  /\ arg' = [arg EXCEPT ![t] = NoEnvelope]
  /\ NotifyAll
  /\ UNCHANGED <<sessionVars, rowVars, diskVars, active, failing, flagVars,
                 failures, wpc>>

\* The budget is full: ask for a flush, wake the writer and wait.
OfferBlocks(t) ==
  /\ pc[t] = "offer" /\ t \notin asleep
  /\ ~Refused(t) /\ ~HasCapacity(arg[t])
  /\ flushRequested' = TRUE
  /\ asleep' = {t}
  /\ UNCHANGED <<sessionVars, rowVars, diskVars, batchVars, shutdown, fatal,
                 threadVars, failures, wpc>>

\* submit_evidence, except branch: the row and its receipt fail.
SubmitFails(t) ==
  /\ pc[t] = "refused"
  /\ evidence' = [evidence EXCEPT ![arg[t]] = "recording_failed"]
  /\ receipt' = [receipt EXCEPT ![arg[t]] = "failed"]
  /\ pc' = [pc EXCEPT ![t] = "idle"]
  /\ arg' = [arg EXCEPT ![t] = NoEnvelope]
  /\ UNCHANGED <<sessionVars, diskVars, batchVars, flagVars, failures, wpc,
                 asleep>>

\* flush_boundary up to its first wait (or its return, with nothing to wait for).
FlushStarts(t) ==
  /\ pc[t] = "idle" /\ session # "down"
  /\ ~Unavailable
  /\ flushRequested' = TRUE
  /\ IF NothingUnpublished
     THEN NotifyAll /\ UNCHANGED pc
     ELSE asleep' = {t} /\ pc' = [pc EXCEPT ![t] = "flush"]
  /\ UNCHANGED <<sessionVars, rowVars, diskVars, batchVars, shutdown, fatal,
                 arg, failures, wpc>>

FlushReturns(t) ==
  /\ pc[t] = "flush" /\ t \notin asleep
  /\ ~Unavailable /\ NothingUnpublished
  /\ pc' = [pc EXCEPT ![t] = "idle"]
  /\ UNCHANGED <<sessionVars, rowVars, diskVars, batchVars, flagVars, arg,
                 failures, wpc, asleep>>

FlushRaises(t) ==
  /\ pc[t] = "flush" /\ t \notin asleep
  /\ Unavailable
  /\ pc' = [pc EXCEPT ![t] = "idle"]
  /\ UNCHANGED <<sessionVars, rowVars, diskVars, batchVars, flagVars, arg,
                 failures, wpc, asleep>>

\* flush_boundary woke and something is still unpublished.
FlushWaits(t) ==
  /\ pc[t] = "flush" /\ t \notin asleep
  /\ ~Unavailable /\ ~NothingUnpublished
  /\ asleep' = asleep \cup {t}
  /\ UNCHANGED <<sessionVars, rowVars, diskVars, batchVars, flagVars,
                 threadVars, failures, wpc>>

-----------------------------------------------------------------------------
(* The writer thread: _run and _run_guarded.                                *)

WriterSleeps ==
  /\ wpc = "idle" /\ Writer \notin asleep
  /\ ~shutdown /\ ~BatchReady
  /\ asleep' = asleep \cup {Writer}
  /\ UNCHANGED <<sessionVars, rowVars, diskVars, batchVars, flagVars,
                 threadVars, failures, wpc>>

TakeBatch ==
  /\ wpc = "idle" /\ Writer \notin asleep
  /\ queue # <<>> /\ (shutdown \/ BatchReady)
  /\ \E n \in 1..Len(queue) :
       /\ IsBatchSize(n)
       /\ active' = SubSeq(queue, 1, n)
       /\ queue' = SubSeq(queue, n + 1, Len(queue))
       /\ flushRequested' = (flushRequested /\ n < Len(queue))
  /\ wpc' = "publish"
  /\ UNCHANGED <<sessionVars, rowVars, diskVars, failing, unpublishedCount,
                 unpublishedBytes, shutdown, fatal, threadVars, failures,
                 asleep>>

\* The segment a batch would become.
SegmentOf(batch, numbers) ==
  [group |-> Group[batch[1]], sequence |-> numbers[Group[batch[1]]],
   candidates |-> Range(batch)]

NewSegment == SegmentOf(active, sequences)

SameFile(r, s) == r.group = s.group /\ r.sequence = s.sequence

Destination == \E s \in segments : SameFile(s, NewSegment)

\* os.replace puts the segment where a file of its name may be.
Replaced(s) == {r \in segments : ~SameFile(r, s)} \cup {s}

\* publish_segment: the destination must not exist, temporary ZIP, then
\* os.replace.  A sole writer finds at the replace what it found at the test;
\* beside another writer the file may have appeared between the two.
Publish ==
  /\ wpc = "publish" /\ (Destination => overlap)
  /\ segments' = Replaced(NewSegment)
  /\ wpc' = "published"
  /\ UNCHANGED <<sessionVars, rowVars, sequences, batchVars, flagVars,
                 threadVars, failures, asleep>>

\* Mutation: one failed attempt too many.
ExhaustedLate == failures + 1 > MaxFailures

Exhausted == failures + 1 >= MaxFailures

\* publish_segment raises and the same batch is retried.
PublishRetries ==
  /\ wpc = "publish" /\ ~Exhausted
  /\ failures' = failures + 1
  /\ UNCHANGED <<sessionVars, rowVars, diskVars, batchVars, flagVars,
                 threadVars, wpc, asleep>>

PublishExhausted ==
  /\ wpc = "publish" /\ Exhausted
  /\ failures' = failures + 1
  /\ FailPending
  /\ UNCHANGED <<sessionVars, rowVars, diskVars, flushRequested, shutdown,
                 threadVars>>

\* _on_published: rows become committed and their receipts resolve.
OnPublished ==
  /\ wpc = "published"
  /\ evidence' = [e \in Envelopes |->
       IF e \in Range(active) THEN "committed" ELSE evidence[e]]
  /\ receipt' = [e \in Envelopes |->
       IF e \in Range(active) /\ receipt[e] = "pending"
       THEN "committed" ELSE receipt[e]]
  /\ wpc' = "release"
  /\ UNCHANGED <<sessionVars, diskVars, batchVars, flagVars, threadVars,
                 failures, asleep>>

ReleaseBatch ==
  /\ wpc = "release"
  /\ active' = <<>>
  /\ Release(Range(active))
  /\ failures' = 0
  /\ sequences' = [sequences EXCEPT ![Group[active[1]]] = @ + 1]
  /\ NotifyAll
  /\ wpc' = "idle"
  /\ UNCHANGED <<sessionVars, rowVars, segments, queue, failing, flagVars,
                 threadVars>>

\* An exception outside the retry loop reaches _run_guarded.
WriterDies ==
  /\ \/ wpc = "idle" /\ Writer \notin asleep
     \/ wpc \in {"publish", "published"}
  /\ FailPending
  /\ UNCHANGED <<sessionVars, rowVars, diskVars, flushRequested, shutdown,
                 threadVars, failures>>

\* PublicationReceipt._mark_failed answers only a pending receipt.
FailsReceipt(e) == e \in failing /\ receipt[e] = "pending"

\* _on_failed: rows fail and their receipts resolve.
OnFailed ==
  /\ wpc = "failing"
  /\ evidence' = [e \in Envelopes |->
       IF e \in failing THEN "recording_failed" ELSE evidence[e]]
  /\ receipt' = [e \in Envelopes |->
       IF FailsReceipt(e) THEN "failed" ELSE receipt[e]]
  /\ failing' = {}
  /\ wpc' = "exiting"
  /\ UNCHANGED <<sessionVars, diskVars, queue, active, unpublishedCount,
                 unpublishedBytes, flagVars, threadVars, failures, asleep>>

\* _run returns: shut down with nothing left to publish.
WriterFinishes ==
  /\ wpc = "idle" /\ Writer \notin asleep
  /\ shutdown /\ queue = <<>>
  /\ wpc' = "exiting"
  /\ UNCHANGED <<sessionVars, rowVars, diskVars, batchVars, flagVars,
                 threadVars, failures, asleep>>

\* Mutation: a dead writer gives the lock of an open session back.
ReleaseAlways == TRUE

ReleaseOnExit == shutdown

\* _run_guarded's finally: only a shut-down writer releases the campaign lock.
WriterExits ==
  /\ wpc = "exiting"
  /\ lock' = (lock /\ ~ReleaseOnExit)
  /\ wpc' = "dead"
  /\ UNCHANGED <<session, sessions, strays, overlap, rowVars, diskVars,
                 batchVars, flagVars, threadVars, failures, asleep>>

-----------------------------------------------------------------------------
(* The session: close, process loss, and the next session's recovery.       *)

\* close(), once the handles are closed: writer.shutdown() up to its join.
Shutdown ==
  /\ session = "open"
  /\ session' = "stopping"
  /\ shutdown' = TRUE
  /\ flushRequested' = TRUE
  /\ NotifyAll
  /\ UNCHANGED <<sessions, lock, strays, overlap, rowVars, diskVars, batchVars,
                 fatal, threadVars, failures, wpc>>

\* The writer joined: close() releases the lock and is done.
CloseFinishes ==
  /\ session = "stopping" /\ wpc = "dead"
  /\ session' = "closed"
  /\ lock' = FALSE
  /\ UNCHANGED <<sessions, strays, overlap, rowVars, diskVars, batchVars,
                 flagVars, threadVars, failures, wpc, asleep>>

\* An interrupt of the join: close() goes through its finally, gives the lock
\* back and is done while the writer is still at work.
CloseInterrupted ==
  /\ session = "stopping" /\ wpc # "dead" /\ sessions \in Interruptible
  /\ session' = "closed"
  /\ lock' = FALSE
  /\ UNCHANGED <<sessions, strays, overlap, rowVars, diskVars, batchVars,
                 flagVars, threadVars, failures, wpc, asleep>>

FreshWriter ==
  /\ queue' = <<>> /\ active' = <<>> /\ failing' = {}
  /\ flushRequested' = FALSE /\ shutdown' = FALSE /\ fatal' = FALSE
  /\ unpublishedCount' = 0 /\ unpublishedBytes' = 0 /\ failures' = 0
  /\ pc' = [t \in Threads |-> "idle"]
  /\ arg' = [t \in Threads |-> NoEnvelope]
  /\ asleep' = {}

\* The process is lost: memory goes, segments stay, the OS drops the lock.
Crash ==
  /\ session \in {"open", "stopping"} \/ (session = "closed" /\ wpc # "dead")
  /\ session' = "down"
  /\ lock' = FALSE
  /\ FreshWriter
  /\ wpc' = "dead"
  /\ evidence' = [e \in Envelopes |-> "none"]
  /\ receipt' = [e \in Envelopes |-> "none"]
  /\ UNCHANGED <<sessions, strays, overlap, diskVars>>

\* Mutation: the new session does not read the catalog.
NothingRecovered == [e \in Envelopes |-> "none"]

\* The rows of a new session: the finalized evidence on disk.
Recovered ==
  [e \in Envelopes |-> IF e \in Durable THEN "committed" ELSE "none"]

\* What the writer has still to write, and the numbers it goes on from.
Leftover == (IF wpc = "publish" THEN active ELSE <<>>) \o queue

Reached ==
  [g \in Groups |->
     IF wpc \in {"published", "release"} /\ g = Group[active[1]]
     THEN sequences[g] + 1 ELSE sequences[g]]

WithWork(w) == {v \in {w} : v.left # <<>>}

\* CampaignSession.__init__: lock, catalog rows, a new writer.  Whatever the
\* writer of an interrupted close still has to publish, it goes on publishing.
Open ==
  /\ session \in {"closed", "down"} /\ sessions < MaxSessions
  /\ \A t \in Threads : pc[t] = "idle"
  /\ session' = "open"
  /\ sessions' = sessions + 1
  /\ lock' = TRUE
  /\ strays' = strays \cup WithWork([left |-> Leftover, sequences |-> Reached])
  /\ overlap' = (overlap \/ Leftover # <<>>)
  /\ FreshWriter
  /\ wpc' = "idle"
  /\ sequences' = [g \in Groups |-> NextSequence(g)]
  /\ evidence' = Recovered
  /\ receipt' = [e \in Envelopes |-> "none"]
  /\ UNCHANGED segments

ownVars == <<session, sessions, lock, overlap, rowVars, batchVars, flagVars,
             threadVars, failures, wpc, asleep>>

\* A stray publishes a batch of one group from the head of what it has left;
\* how it cuts its queue into batches is left open.
StrayPublishes(w) ==
  \E n \in 1..Len(w.left) :
    /\ n <= MaxSegmentCount
    /\ \A i \in 1..n : Group[w.left[i]] = Group[w.left[1]]
    /\ segments' = Replaced(SegmentOf(SubSeq(w.left, 1, n), w.sequences))
    /\ strays' = (strays \ {w}) \cup
         WithWork([left |-> SubSeq(w.left, n + 1, Len(w.left)),
                   sequences |-> [w.sequences EXCEPT ![Group[w.left[1]]] = @ + 1]])
    /\ UNCHANGED <<ownVars, sequences>>

\* A stray runs out of attempts, dies or goes with its process.
StrayEnds(w) ==
  /\ strays' = strays \ {w}
  /\ UNCHANGED <<ownVars, diskVars>>

StrayStep == \E w \in strays : StrayPublishes(w) \/ StrayEnds(w)

Init ==
  /\ session = "open" /\ sessions = 1 /\ lock = TRUE
  /\ evidence = [e \in Envelopes |-> "none"]
  /\ receipt = [e \in Envelopes |-> "none"]
  /\ segments = {}
  /\ queue = <<>> /\ active = <<>> /\ failing = {}
  /\ flushRequested = FALSE /\ shutdown = FALSE /\ fatal = FALSE
  /\ unpublishedCount = 0 /\ unpublishedBytes = 0 /\ failures = 0
  /\ sequences = [g \in Groups |-> 0]
  /\ wpc = "idle"
  /\ pc = [t \in Threads |-> "idle"]
  /\ arg = [t \in Threads |-> NoEnvelope]
  /\ asleep = {}
  /\ strays = {} /\ overlap = FALSE

ThreadContinues(t) ==
  \/ OfferRefused(t) \/ OfferAdmitted(t) \/ OfferBlocks(t) \/ SubmitFails(t)
  \/ FlushReturns(t) \/ FlushRaises(t) \/ FlushWaits(t)

WriterStep ==
  \/ WriterSleeps \/ TakeBatch \/ Publish \/ PublishRetries
  \/ PublishExhausted \/ OnPublished \/ ReleaseBatch \/ OnFailed
  \/ WriterFinishes \/ WriterExits

Next ==
  \/ \E t \in Threads, e \in Envelopes : Submit(t, e)
  \/ \E t \in Threads : FlushStarts(t) \/ ThreadContinues(t)
  \/ WriterStep
  \/ WriterDies
  \/ Shutdown \/ CloseFinishes \/ CloseInterrupted \/ Crash \/ Open
  \/ StrayStep

Spec == Init /\ [][Next]_vars

\* The threads and the closing thread run; nothing obliges the program to
\* submit, flush or close, and a publication may fail whenever it is tried.
Fairness ==
  /\ WF_vars(WriterStep)
  /\ WF_vars(CloseFinishes)
  /\ \A t \in Threads : WF_vars(ThreadContinues(t))

FairSpec == Spec /\ Fairness

-----------------------------------------------------------------------------
(* Properties.                                                              *)

EvidenceStates == {"none", "pending", "committed", "recording_failed"}
ReceiptStates == {"none", "pending", "committed", "failed"}

\* Every variable of the recorder keeps its type.
TypeOK ==
  /\ session \in {"open", "stopping", "closed", "down"}
  /\ sessions \in 1..MaxSessions
  /\ lock \in BOOLEAN
  /\ evidence \in [Envelopes -> EvidenceStates]
  /\ receipt \in [Envelopes -> ReceiptStates]
  /\ segments \subseteq
       [group : Groups, sequence : Nat, candidates : SUBSET Envelopes]
  /\ queue \in Seq(Envelopes) /\ active \in Seq(Envelopes)
  /\ failing \subseteq Envelopes
  /\ flushRequested \in BOOLEAN /\ shutdown \in BOOLEAN /\ fatal \in BOOLEAN
  /\ unpublishedCount \in Nat /\ unpublishedBytes \in Nat
  /\ failures \in 0..MaxFailures
  /\ sequences \in [Groups -> Nat]
  /\ wpc \in {"idle", "publish", "published", "release", "failing",
              "exiting", "dead"}
  /\ pc \in [Threads -> {"idle", "offer", "refused", "flush"}]
  /\ arg \in [Threads -> Envelopes \cup {NoEnvelope}]
  /\ asleep \subseteq Threads \cup {Writer}
  /\ strays \subseteq [left : Seq(Envelopes), sequences : [Groups -> Nat]]
  /\ overlap \in BOOLEAN

\* The two budget counters are exactly what the queue and the active batch
\* hold, through retries, failures, shutdown and writer death (no credit is
\* lost or returned twice), and never exceed the configured limits.
BudgetAccounting ==
  /\ unpublishedCount = Cardinality(Unpublished)
  /\ unpublishedBytes = ReservedBytes(Unpublished)
  /\ unpublishedCount <= MaxUnpublishedCount
  /\ unpublishedBytes <= MaxUnpublishedBytes

Offering(t) == pc[t] \in {"offer", "refused"}

\* No queue-full, failure or shutdown path drops evidence: a receipt is
\* pending exactly while a submitting thread, the writer's queue or batch, or
\* the failing set still owns its envelope.
NoSilentLoss ==
  {e \in Envelopes : receipt[e] = "pending"} =
    {arg[t] : t \in {u \in Threads : Offering(u)}}
      \cup Range(queue) \cup failing
      \cup (IF wpc = "release" THEN {} ELSE Range(active))

\* A row says committed, to the optimizer as to a receipt's waiter, only when
\* a finalized segment already holds the candidate, as long as no session was
\* opened beside the writer of an interrupted close.
CommittedIsDurable ==
  overlap \/ \A e \in Envelopes : evidence[e] = "committed" => e \in Durable

\* Across retries, writer deaths, lost processes and recovered sessions no
\* candidate is published twice and no segment name is reused, as long as no
\* session was opened beside the writer of an interrupted close.
PublishedOnce ==
  overlap \/ \A r, s \in segments : r # s =>
    r.candidates \cap s.candidates = {} /\ ~SameFile(r, s)

\* The writer never finds its destination already there, which it could only
\* answer by failing the campaign, as long as no session was opened beside the
\* writer of an interrupted close.
DestinationFree == overlap \/ (wpc = "publish" => ~Destination)

\* The workspace lock is kept until close() ends: while a session is open, its
\* dead writer's included, and while close() waits for a writer that could
\* still publish.
LockKept == session = "open" \/ (session = "stopping" /\ wpc # "dead") => lock

\* What the documents say of the lock: a workspace whose writer could still
\* publish is locked, whatever ended its session.  CloseInterrupted breaks it.
Exclusive == session = "open" \/ wpc # "dead" => lock

\* A receipt resolves once: within a session neither outcome is ever revised.
ReceiptsFinal ==
  [][\A e \in Envelopes :
       receipt[e] \in {"committed", "failed"} /\ sessions' = sessions
         /\ session' # "down"
       => receipt'[e] = receipt[e]]_vars

\* flush_boundary returns normally only when every envelope that was admitted
\* is answered committed: an envelope with another answer, or none, is still
\* with the thread that submits it, or was refused for its size.
FlushIsBoundary ==
  [][\A t \in Threads :
       pc[t] = "flush" /\ pc'[t] = "idle" /\ ~Unavailable /\ session' # "down"
       => \A e \in Envelopes :
            receipt[e] # "none" =>
              \/ receipt[e] = "committed"
              \/ \E u \in Threads : arg[u] = e
              \/ receipt[e] = "failed" /\ Bytes[e] > MaxCandidateBytes]_vars

\* A producer blocked on the full budget is let through or refused.
ProducersResume == \A t \in Threads : pc[t] = "offer" ~> pc[t] = "idle"

\* A thread that waits at a flush boundary is let through or told to stop.
FlushesResolve == \A t \in Threads : pc[t] = "flush" ~> pc[t] = "idle"

\* What a flush boundary finds in the queue is published or failed, however
\* many envelopes other threads go on to submit.
FlushPublishes ==
  \A e \in Envelopes :
    flushRequested /\ e \in Range(queue) ~> receipt[e] # "pending"

\* close() comes to an end: the writer drains or gives up, and is joined.
CloseTerminates == session = "stopping" ~> session \in {"closed", "down"}

\* Nobody waits for the writer for good: neither a producer that the full
\* budget keeps out nor the thread that closes the session.
ClientsGoOn == ProducersResume /\ CloseTerminates

\* The recorder keeps the promises of EvidenceLog, as long as no session is
\* opened beside the writer of an interrupted close.
Log == INSTANCE EvidenceLog WITH
  durable <- Durable,
  answer <- receipt,
  known <- {e \in Envelopes : evidence[e] # "none"}

KeepsPromises == Log!Init /\ [][overlap' \/ Log!Next]_(Log!vars)

=============================================================================
