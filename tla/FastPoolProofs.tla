--------------------------- MODULE FastPoolProofs ---------------------------
(***************************************************************************)
(* Proofs about FastPool, for any numbers of slots, candidates, batches    *)
(* and deaths, any keys and any invalid candidates.                        *)
(***************************************************************************)
EXTENDS FastPoolInvariant, SequenceTheorems, TLAPS

-----------------------------------------------------------------------------
(* Sequences, and what a step does to the slots.                            *)

Message == [kind : Kinds, task : Tasks]

\* The first element of a queue and what is left without it.
LEMMA Taken ==
  ASSUME NEW S, NEW q \in Seq(S), q # <<>>
  PROVE  /\ Len(q) \in Nat \ {0} /\ Head(q) = q[1] /\ Head(q) \in S
         /\ Tail(q) \in Seq(S) /\ Len(Tail(q)) = Len(q) - 1
         /\ DOMAIN q = 1..Len(q) /\ DOMAIN Tail(q) = 1..(Len(q) - 1)
         /\ \A j \in 1..(Len(q) - 1) : Tail(q)[j] = q[j + 1]
<1>1. Head(q) \in S /\ Tail(q) \in Seq(S) /\ Len(Tail(q)) = Len(q) - 1
      /\ \A j \in 1..Len(Tail(q)) : Tail(q)[j] = q[j + 1]
  BY HeadTailProperties, Zenon
<1>2. Len(q) \in Nat \ {0}
  BY EmptySeq, Zenon
<1>3. DOMAIN q = 1..Len(q) /\ DOMAIN Tail(q) = 1..Len(Tail(q))
  BY <1>1, LenProperties, Zenon
<1>4. Head(q) = q[1]
  OBVIOUS
<1>. QED
  BY <1>1, <1>2, <1>3, <1>4

\* A queue and one more element.
LEMMA Added ==
  ASSUME NEW S, NEW q \in Seq(S), NEW e \in S
  PROVE  /\ Append(q, e) \in Seq(S) /\ Append(q, e) # <<>>
         /\ Len(q) \in Nat /\ Len(Append(q, e)) = Len(q) + 1
         /\ DOMAIN q = 1..Len(q) /\ DOMAIN Append(q, e) = 1..(Len(q) + 1)
         /\ \A j \in 1..Len(q) : Append(q, e)[j] = q[j]
         /\ Append(q, e)[Len(q) + 1] = e
<1>1. Len(q) \in Nat /\ DOMAIN q = 1..Len(q)
  BY LenProperties, Zenon
<1>2. /\ Append(q, e) \in Seq(S) /\ Len(Append(q, e)) = Len(q) + 1
      /\ \A j \in 1..Len(q) : Append(q, e)[j] = q[j]
      /\ Append(q, e)[Len(q) + 1] = e
  BY <1>1
<1>3. DOMAIN Append(q, e) = 1..Len(Append(q, e))
  BY <1>2, LenProperties, Zenon
<1>4. Append(q, e) # <<>>
  BY <1>1, <1>2
<1>. QED
  BY <1>1, <1>2, <1>3, <1>4

\* The number of messages on a pipe, and where they are.
LEMMA PipeTypes ==
  ASSUME TypeOK, NEW s \in SlotSet
  PROVE  /\ request[s] \in Seq(Tasks) /\ Len(request[s]) \in Nat
         /\ DOMAIN request[s] = 1..Len(request[s])
         /\ answers[s] \in Seq(Message) /\ Len(answers[s]) \in Nat
         /\ DOMAIN answers[s] = 1..Len(answers[s])
         /\ (request[s] = <<>> <=> Len(request[s]) = 0)
         /\ (answers[s] = <<>> <=> Len(answers[s]) = 0)
<1>1. request[s] \in Seq(Tasks) /\ answers[s] \in Seq(Message)
  BY DEF TypeOK, Message
<1>2. /\ Len(request[s]) \in Nat /\ DOMAIN request[s] = 1..Len(request[s])
      /\ Len(answers[s]) \in Nat /\ DOMAIN answers[s] = 1..Len(answers[s])
  BY <1>1, LenProperties, Zenon
<1>3. /\ request[s] # <<>> => Len(request[s]) # 0
      /\ answers[s] # <<>> => Len(answers[s]) # 0
  BY <1>1, EmptySeq
<1>4. Len(<<>>) = 0
  OBVIOUS
<1>. QED
  BY <1>1, <1>2, <1>3, <1>4, Zenon

\* The slots are left alone; or all of them are cleared; or one moves.
SlotsStay == UNCHANGED <<active, proc, builtFor, request, answers>>

SlotsFresh ==
  \A s \in SlotSet :
    /\ active'[s] = NoTask /\ proc'[s] \in {"idle", "none"}
    /\ request'[s] = <<>> /\ answers'[s] = <<>>

SlotStays(s) ==
  /\ active'[s] = active[s] /\ proc'[s] = proc[s]
  /\ builtFor'[s] = builtFor[s]
  /\ request'[s] = request[s] /\ answers'[s] = answers[s]

OnlySlot(s) == \A t \in SlotSet : t # s => SlotStays(t)

\* The supervisor's steps with one slot.
Serves ==
  \/ CheckIdle \/ SendTask \/ ReceiveStarted \/ ReceiveResult \/ TimesOut
  \/ FindsDead \/ CancelSlot \/ ReplaceRaises

\* Every step is of one of these kinds.
LEMMA StepSlots ==
  ASSUME Inv, [Next]_vars
  PROVE  \/ SlotsStay
         \/ SlotsFresh
         \/ Serves /\ at \in SlotSet /\ OnlySlot(at)
         \/ \E s \in SlotSet : Worker(s) /\ OnlySlot(s)
<1>. USE DEF batchVars, loopVars, slotVars, procVars
<1>0. TypeOK /\ PlaceInv
  BY DEF Inv
<1>1. /\ active \in [SlotSet -> Tasks \cup {NoTask}]
      /\ proc \in [SlotSet -> {"none", "idle", "busy", "leaving", "dead"}]
      /\ builtFor \in [SlotSet -> Keys \cup {NoKey}]
      /\ request \in [SlotSet -> Seq(Tasks)]
      /\ answers \in [SlotSet -> Seq([kind : Kinds, task : Tasks])]
  BY <1>0 DEF TypeOK
<1>2. CASE UNCHANGED vars
  BY <1>2 DEF vars, SlotsStay
<1>3. CASE Reset
  BY <1>3 DEF Reset, SlotsFresh
<1>4. CASE PrepareSpawns
  BY <1>0, <1>4 DEF PrepareSpawns, SlotsFresh, PlaceInv
<1>5. CASE Serves
  <2>1. at \in SlotSet
    BY <1>0, <1>5, FastPoolAssumption
    DEF Serves, CheckIdle, SendTask, ReceiveStarted, ReceiveResult, TimesOut,
        FindsDead, CancelSlot, ReplaceRaises, Answered, Unanswered, Busy,
        PlaceInv, SlotSet
  <2>. SUFFICES ASSUME NEW t \in SlotSet, t # at
                PROVE  SlotStays(t)
    BY <1>5, <2>1 DEF OnlySlot
  <2>2. Spawn(at) => /\ proc'[t] = proc[t] /\ builtFor'[t] = builtFor[t]
                     /\ request'[t] = request[t] /\ answers'[t] = answers[t]
    BY <1>1 DEF Spawn
  <2>3. Settled(at) => active'[t] = active[t]
    BY <1>1 DEF Settled
  <2>4. CASE CheckIdle
    BY <2>2, <2>4 DEF CheckIdle, SlotStays
  <2>5. CASE SendTask
    BY <1>1, <2>5 DEF SendTask, SlotStays
  <2>6. CASE ReceiveStarted
    BY <1>1, <2>6 DEF ReceiveStarted, SlotStays
  <2>7. CASE ReceiveResult
    BY <1>1, <2>2, <2>3, <2>7 DEF ReceiveResult, SlotStays
  <2>8. CASE TimesOut \/ FindsDead
    BY <2>2, <2>3, <2>8 DEF TimesOut, FindsDead, SlotStays
  <2>9. CASE CancelSlot
    BY <1>1, <2>3, <2>9 DEF CancelSlot, SlotStays
  <2>10. CASE ReplaceRaises
    BY <1>1, <2>3, <2>10 DEF ReplaceRaises, SlotStays
  <2>. QED
    BY <1>5, <2>4, <2>5, <2>6, <2>7, <2>8, <2>9, <2>10 DEF Serves
<1>6. ASSUME NEW s \in SlotSet, Worker(s)
      PROVE  OnlySlot(s)
  <2>1. CASE WorkerStarts(s)
    BY <1>1, <2>1 DEF WorkerStarts, OnlySlot, SlotStays
  <2>2. CASE WorkerLeaves(s)
    BY <1>1, <2>2 DEF WorkerLeaves, OnlySlot, SlotStays
  <2>3. CASE WorkerDies(s)
    BY <1>1, <2>3 DEF WorkerDies, OnlySlot, SlotStays
  <2>4. CASE ClockRuns(s)
    BY <1>1, <2>4 DEF ClockRuns, OnlySlot, SlotStays
  <2>5. ASSUME NEW kind \in {"done", "physical", "error"},
               WorkerAnswers(s, kind)
        PROVE  OnlySlot(s)
    BY <1>1, <2>5 DEF WorkerAnswers, OnlySlot, SlotStays
  <2>. QED
    BY <1>6, <2>1, <2>2, <2>3, <2>4, <2>5 DEF Worker
<1>7. CASE Supervisor
  BY <1>3, <1>4, <1>5, <1>7
  DEF Supervisor, Serves, SlotsStay, RowCancelled, RowInvalid, RowQueued,
      NothingToRun, PrepareReuses, LoopContinues, LoopEnds, SendFails, Raises,
      Waits, NobodyBusy, Skips, RoundEnds, CancelledAll, Drain, Drained, Ends,
      Fails
<1>8. CASE (\E k \in Keys : Begin(k)) \/ StepRaises \/ CancelRequested
  BY <1>8 DEF Begin, StepRaises, Raises, CancelRequested, SlotsStay
<1>. QED
  BY <1>2, <1>5, <1>6, <1>7, <1>8 DEF Next, Serves

\* A task is no "none", and an answer is not no answer.
LEMMA Names ==
  /\ \A i \in Tasks : i # NoTask /\ i \in Nat /\ i < Population
  /\ \A r \in RowStates : r # NoRow
BY FastPoolAssumption DEF Tasks, RowStates

-----------------------------------------------------------------------------
(* The pipes, and the slots that have no task.                              *)

\* A cleared slot has nothing on its pipes.
LEMMA FreshSlot ==
  ASSUME NEW s \in SlotSet, request'[s] = <<>>, answers'[s] = <<>>,
         proc'[s] \notin {"busy", "leaving"}
  PROVE  PipeOf(s)' /\ SpareOf(s)'
<1>1. Len(<<>>) = 0 /\ DOMAIN <<>> = {}
  OBVIOUS
<1>. QED
  BY <1>1 DEF PipeOf, SpareOf

\* A slot whose worker has answered has nothing more on its pipes, and the
\* worker leaves only after an error.
LEMMA LastAnswer ==
  ASSUME TypeOK, NEW s \in SlotSet, at = s, PipeOf(s), Answered,
         Head(answers[s]).kind # "started",
         answers' = [answers EXCEPT ![at] = Tail(@)]
  PROVE  /\ request[s] = <<>> /\ answers'[s] = <<>> /\ proc[s] # "busy"
         /\ Len(<<>>) = 0 /\ DOMAIN <<>> = {}
         /\ Head(answers[s]).kind # "error" => proc[s] # "leaving"
<1>1. /\ answers \in [SlotSet -> Seq(Message)] /\ answers[s] \in Seq(Message)
      /\ Len(answers[s]) \in Nat /\ DOMAIN answers[s] = 1..Len(answers[s])
  BY PipeTypes DEF TypeOK, Message
<1>2. answers[s] # <<>>
  BY DEF Answered
<1>3. /\ answers[s][1].kind # "started" /\ answers[s][1] = Head(answers[s])
      /\ Len(answers[s]) >= 1
  BY <1>1, <1>2, Taken
<1>4. 1 \in DOMAIN answers[s]
  BY <1>1, <1>3
<1>5. request[s] = <<>>
  BY <1>3, <1>4, Zenon DEF PipeOf
<1>6. Len(answers[s]) = 1
  <2>1. Len(answers[s]) <= 2 /\ Len(answers[s]) # 2
    BY <1>3 DEF PipeOf
  <2>. DEFINE n == Len(answers[s])
  <2>2. n \in Nat /\ n >= 1 /\ n <= 2 /\ n # 2
    BY <1>1, <1>3, <2>1
  <2>. HIDE DEF n
  <2>3. n = 1
    BY <2>2
  <2>. QED
    BY <2>3 DEF n
<1>7. answers'[s] = Tail(answers[s])
  BY <1>1
<1>8. Len(answers'[s]) = 0 /\ answers'[s] \in Seq(Message)
  BY <1>1, <1>2, <1>6, <1>7, Taken
<1>9. answers'[s] = <<>>
  BY <1>8, EmptySeq
<1>10. proc[s] # "busy"
  BY <1>5 DEF PipeOf
<1>11. Len(<<>>) = 0 /\ DOMAIN <<>> = {}
  OBVIOUS
<1>12. Head(answers[s]).kind # "error" => proc[s] # "leaving"
  <2>1. proc[s] = "leaving" => answers[s][1].kind \in {"started", "error"}
    BY <1>4, Zenon DEF PipeOf
  <2>. QED
    BY <1>3, <2>1
<1>. QED
  BY <1>5, <1>9, <1>10, <1>11, <1>12

\* Every step keeps requests and answers in line with the slot's task.
LEMMA PipeInvStep ==
  Inv /\ [Next]_vars => PipeInv'
<1> SUFFICES ASSUME Inv, [Next]_vars, NEW s \in SlotSet
             PROVE  PipeOf(s)'
  BY DEF PipeInv
<1>0. TypeOK /\ PlaceInv /\ PipeOf(s) /\ SpareOf(s)
  BY DEF Inv, PipeInv, SpareInv
<1>1. /\ request[s] \in Seq(Tasks) /\ Len(request[s]) \in Nat
      /\ DOMAIN request[s] = 1..Len(request[s])
      /\ answers[s] \in Seq(Message) /\ Len(answers[s]) \in Nat
      /\ DOMAIN answers[s] = 1..Len(answers[s])
      /\ (request[s] = <<>> <=> Len(request[s]) = 0)
      /\ (answers[s] = <<>> <=> Len(answers[s]) = 0)
  BY <1>0, PipeTypes
<1>2. /\ active \in [SlotSet -> Tasks \cup {NoTask}]
      /\ proc \in [SlotSet -> {"none", "idle", "busy", "leaving", "dead"}]
      /\ builtFor \in [SlotSet -> Keys \cup {NoKey}]
      /\ request \in [SlotSet -> Seq(Tasks)]
      /\ answers \in [SlotSet -> Seq(Message)]
      /\ pending \in Seq(Tasks)
  BY <1>0 DEF TypeOK, Message
<1>3. CASE SlotsStay \/ SlotStays(s)
  BY <1>0, <1>3 DEF SlotsStay, SlotStays, PipeOf, Running
<1>4. CASE SlotsFresh
  BY <1>4, FreshSlot DEF SlotsFresh
<1>5. ASSUME Spawn(s)
      PROVE  PipeOf(s)'
  <2>1. request'[s] = <<>> /\ answers'[s] = <<>> /\ proc'[s] = "idle"
    BY <1>2, <1>5 DEF Spawn
  <2>. QED
    BY <2>1, FreshSlot
<1>6. CASE Serves /\ at = s
  <2>. USE <1>6
  <2>1. CASE CheckIdle
    <3>1. CASE Spawn(s)
      BY <1>5, <3>1
    <3>2. CASE UNCHANGED procVars
      BY <1>0, <2>1, <3>2 DEF CheckIdle, procVars, slotVars, PipeOf, Running
    <3>. QED
      BY <2>1, <3>1, <3>2 DEF CheckIdle
  <2>2. CASE SendTask
    <3>1. /\ active[s] = NoTask /\ pending # <<>> /\ Running(s)
          /\ proc[s] # "leaving" /\ request[s] = <<>> /\ answers[s] = <<>>
          /\ proc[s] = "idle"
      BY <1>0, <2>2 DEF SendTask, PlaceInv, SpareOf, PipeOf, Running
    <3>2. Head(pending) \in Tasks
      BY <1>2, <3>1, Taken
    <3>3. /\ request'[s] = Append(request[s], Head(pending))
          /\ active'[s] = Head(pending) /\ UNCHANGED <<proc, answers>>
      BY <1>2, <2>2 DEF SendTask
    <3>4. /\ Len(request'[s]) = 1 /\ DOMAIN request'[s] = 1..1
          /\ request'[s][1] = active'[s] /\ request'[s] # <<>>
      <4>1. Len(request[s]) = 0
        BY <1>1, <3>1
      <4>. QED
        BY <1>1, <3>2, <3>3, <4>1, Added
    <3>. QED
      BY <1>1, <3>1, <3>3, <3>4 DEF PipeOf
  <2>3. CASE ReceiveStarted
    <3>1. answers[s] # <<>> /\ active[s] # NoTask
      BY <2>3 DEF ReceiveStarted, Answered, Busy
    <3>2. /\ answers'[s] = Tail(answers[s])
          /\ UNCHANGED <<active, proc, builtFor, request>>
      BY <1>2, <2>3 DEF ReceiveStarted
    <3>3. /\ Len(answers'[s]) = Len(answers[s]) - 1
          /\ DOMAIN answers'[s] = 1..(Len(answers[s]) - 1)
          /\ \A j \in 1..(Len(answers[s]) - 1) :
               answers'[s][j] = answers[s][j + 1]
      BY <1>1, <3>1, <3>2, Taken
    <3>. DEFINE n == Len(answers[s])
    <3>4. /\ n \in Nat /\ n # 0 /\ n <= 2
          /\ request[s] # <<>> => n <= 1
          /\ \A j \in 1..n : answers[s][j].task = active[s]
          /\ \A j \in DOMAIN request[s] : request[s][j] = active[s]
          /\ Len(request[s]) <= 1
      BY <1>0, <1>1, <3>1 DEF PipeOf
    <3>5. /\ proc[s] = "busy" => request[s] # <<>>
          /\ proc[s] = "leaving" => request[s] = <<>>
          /\ proc[s] = "leaving" =>
               \A j \in DOMAIN answers[s] :
                 answers[s][j].kind \in {"started", "error"}
          /\ ~(proc[s] = "idle" /\ request[s] # <<>>)
      BY <1>0, <3>1, Zenon DEF PipeOf
    <3>. HIDE DEF n
    <3>6. /\ Len(answers'[s]) = n - 1 /\ DOMAIN answers'[s] = 1..(n - 1)
          /\ \A j \in 1..(n - 1) : answers'[s][j] = answers[s][j + 1]
      BY <3>3 DEF n
    <3>7. \A j \in DOMAIN answers'[s] : answers'[s][j].task = active[s]
      BY <3>4, <3>6
    <3>8. Len(answers'[s]) <= 1
      BY <3>4, <3>6
    <3>9. request[s] # <<>> => DOMAIN answers'[s] = {}
      BY <3>4, <3>6
    <3>10. Len(answers'[s]) # 2 /\ Len(answers'[s]) <= 2
      BY <3>4, <3>6
    <3>11. proc[s] = "leaving" =>
             \A j \in DOMAIN answers'[s] :
               answers'[s][j].kind \in {"started", "error"}
      <4>1. \A j \in 1..(n - 1) : j + 1 \in DOMAIN answers[s]
        BY <1>1, <3>4 DEF n
      <4>. QED
        BY <3>5, <3>6, <4>1
    <3>. QED
      BY <3>2, <3>4, <3>5, <3>7, <3>8, <3>9, <3>10, <3>11 DEF PipeOf
  <2>4. ASSUME Answered, Head(answers[s]).kind # "started",
               answers' = [answers EXCEPT ![at] = Tail(@)],
               UNCHANGED <<proc, builtFor, request>>
        PROVE  PipeOf(s)'
    <3>1. /\ request'[s] = <<>> /\ answers'[s] = <<>> /\ proc'[s] # "busy"
          /\ Len(<<>>) = 0 /\ DOMAIN <<>> = {}
      BY <1>0, <2>4, LastAnswer, Zenon
    <3>2. /\ Len(<<>>) # 2 /\ Len(<<>>) <= 1 /\ Len(<<>>) <= 2
      OBVIOUS
    <3>. QED
      BY <3>1, <3>2, Zenon DEF PipeOf
  <2>5. ASSUME Settled(s)
        PROVE  active'[s] = NoTask
    BY <1>2, <2>5 DEF Settled
  <2>6. CASE ReceiveResult
    BY <1>5, <2>4, <2>6 DEF ReceiveResult
  <2>7. CASE ReplaceRaises
    BY <2>4, <2>7 DEF ReplaceRaises, Spoils
  <2>8. CASE TimesOut \/ FindsDead
    BY <1>5, <2>8 DEF TimesOut, FindsDead
  <2>9. CASE CancelSlot
    <3>1. CASE at \in Busy
      <4>1. /\ active'[s] = NoTask /\ proc'[s] = "dead"
            /\ UNCHANGED <<request, answers>>
        BY <1>2, <2>5, <2>9, <3>1 DEF CancelSlot
      <4>. QED
        BY <1>0, <4>1 DEF PipeOf, Running
    <3>2. CASE at \notin Busy
      BY <1>0, <2>9, <3>2 DEF CancelSlot, slotVars, PipeOf, Running
    <3>. QED
      BY <3>1, <3>2
  <2>. QED
    BY <2>1, <2>2, <2>3, <2>6, <2>7, <2>8, <2>9 DEF Serves
<1>7. CASE Worker(s)
  <2>. UNCHANGED active
    BY <1>7
    DEF Worker, WorkerStarts, WorkerLeaves, WorkerDies, ClockRuns,
        WorkerAnswers, slotVars
  <2>1. CASE WorkerStarts(s)
    <3>1. proc[s] = "idle" /\ request[s] # <<>> /\ answers[s] = <<>>
      BY <1>0, <2>1 DEF WorkerStarts, PipeOf
    <3>2. /\ Head(request[s]) = active[s] /\ Head(request[s]) \in Tasks
      BY <1>0, <1>1, <3>1, Taken DEF PipeOf, Running
    <3>. DEFINE m == [kind |-> "started", task |-> Head(request[s])]
    <3>3. /\ answers'[s] = Append(answers[s], m) /\ proc'[s] = "busy"
          /\ UNCHANGED request
      BY <1>2, <2>1 DEF WorkerStarts
    <3>4. m \in Message /\ m.kind = "started" /\ m.task = active[s]
      BY <3>2 DEF Message, Kinds
    <3>. HIDE DEF m
    <3>5. /\ Len(answers'[s]) = 1 /\ DOMAIN answers'[s] = 1..1
          /\ answers'[s][1] = m
      <4>1. Len(answers[s]) = 0
        BY <1>1, <3>1
      <4>. QED
        BY <1>1, <3>3, <3>4, <4>1, Added
    <3>. QED
      BY <1>0, <3>1, <3>3, <3>4, <3>5 DEF PipeOf, Running
  <2>2. ASSUME NEW kind \in {"done", "physical", "error"},
               WorkerAnswers(s, kind)
        PROVE  PipeOf(s)'
    <3>1. /\ proc[s] = "busy" /\ request[s] # <<>> /\ Len(request[s]) = 1
          /\ Len(answers[s]) <= 1
          /\ \A j \in DOMAIN answers[s] : answers[s][j].kind = "started"
      <4>1. proc[s] = "busy"
        BY <2>2 DEF WorkerAnswers
      <4>2. request[s] # <<>>
        BY <1>0, <4>1, Zenon DEF PipeOf
      <4>3. /\ Len(request[s]) <= 1 /\ Len(answers[s]) <= 1
            /\ \A j \in DOMAIN answers[s] : answers[s][j].kind = "started"
        BY <1>0, <4>2, Zenon DEF PipeOf
      <4>. DEFINE n == Len(request[s])
      <4>4. n \in Nat /\ n # 0 /\ n <= 1
        BY <1>1, <4>2, <4>3, Zenon
      <4>. HIDE DEF n
      <4>5. n = 1
        BY <4>4
      <4>. QED
        BY <4>1, <4>2, <4>3, <4>5, Zenon DEF n
    <3>2. /\ Head(request[s]) = active[s] /\ Head(request[s]) \in Tasks
      BY <1>0, <1>1, <3>1, Taken DEF PipeOf, Running
    <3>. DEFINE m == [kind |-> kind, task |-> Head(request[s])]
    <3>3. /\ answers'[s] = Append(answers[s], m)
          /\ request'[s] = Tail(request[s])
          /\ proc'[s] = IF kind = "error" THEN "leaving" ELSE "idle"
      BY <1>2, <2>2 DEF WorkerAnswers
    <3>4. m \in Message /\ m.task = active[s]
      BY <3>2 DEF Message, Kinds
    <3>. HIDE DEF m
    <3>5. /\ Len(answers'[s]) = Len(answers[s]) + 1
          /\ DOMAIN answers'[s] = 1..(Len(answers[s]) + 1)
          /\ \A j \in 1..Len(answers[s]) : answers'[s][j] = answers[s][j]
          /\ answers'[s][Len(answers[s]) + 1] = m
      BY <1>1, <3>3, <3>4, Added
    <3>6. Len(request'[s]) = 0 /\ request'[s] \in Seq(Tasks)
      BY <1>1, <3>1, <3>3, Taken
    <3>7. request'[s] = <<>> /\ DOMAIN request'[s] = {}
      BY <3>6, EmptySeq
    <3>8. \A j \in DOMAIN answers'[s] : answers'[s][j].task = active'[s]
      <4>1. \A j \in DOMAIN answers[s] : answers[s][j].task = active[s]
        BY <1>0, <3>1 DEF PipeOf, Running
      <4>2. SUFFICES ASSUME NEW j \in 1..(Len(answers[s]) + 1)
                     PROVE  answers'[s][j].task = active[s]
        BY <3>5
      <4>3. CASE j \in 1..Len(answers[s])
        BY <1>1, <3>5, <4>1, <4>3
      <4>4. CASE j = Len(answers[s]) + 1
        BY <3>4, <3>5, <4>4
      <4>. QED
        BY <1>1, <4>3, <4>4
    <3>9. Len(answers'[s]) = 2 => answers'[s][1].kind = "started"
      <4>1. SUFFICES ASSUME Len(answers'[s]) = 2
                     PROVE  answers'[s][1].kind = "started"
        OBVIOUS
      <4>. DEFINE n == Len(answers[s])
      <4>5. n \in Nat /\ n + 1 = 2
        BY <1>1, <3>5, <4>1, Zenon
      <4>. HIDE DEF n
      <4>6. n = 1
        BY <4>5
      <4>2. Len(answers[s]) = 1
        BY <4>6 DEF n
      <4>3. 1 \in DOMAIN answers[s] /\ 1 \in 1..Len(answers[s])
        BY <1>1, <4>2
      <4>. QED
        BY <3>1, <3>5, <4>3
    <3>10. Len(answers'[s]) <= 2
      BY <1>1, <3>1, <3>5
    <3>11. kind = "error" =>
             \A j \in DOMAIN answers'[s] :
               answers'[s][j].kind \in {"started", "error"}
      <4>. SUFFICES ASSUME kind = "error", NEW j \in 1..(Len(answers[s]) + 1)
                    PROVE  answers'[s][j].kind \in {"started", "error"}
        BY <3>5
      <4>1. CASE j \in 1..Len(answers[s])
        BY <1>1, <3>1, <3>5, <4>1
      <4>2. CASE j = Len(answers[s]) + 1
        BY <3>5, <4>2 DEF m
      <4>. QED
        BY <1>1, <4>1, <4>2
    <3>. QED
      BY <3>3, <3>6, <3>7, <3>8, <3>9, <3>10, <3>11 DEF PipeOf
  <2>3. CASE WorkerLeaves(s) \/ WorkerDies(s)
    <3>1. proc'[s] = "dead" /\ UNCHANGED <<request, answers>> /\ Running(s)
      BY <1>2, <2>3 DEF WorkerLeaves, WorkerDies, Running
    <3>. QED
      BY <1>0, <3>1 DEF PipeOf, Running
  <2>4. CASE ClockRuns(s)
    BY <1>0, <2>4 DEF ClockRuns, procVars, PipeOf, Running
  <2>. QED
    BY <1>7, <2>1, <2>2, <2>3, <2>4 DEF Worker
<1>. QED
  BY <1>3, <1>4, <1>6, <1>7, StepSlots DEF OnlySlot

\* The supervisor leaves a doomed pool only by clearing it.
LEMMA DoomedStays ==
  ASSUME Inv, [Next]_vars, ~SlotsFresh
  PROVE  /\ Doomed => Doomed'
         /\ pc = "raise" => pc' = "raise"
<1>. USE DEF batchVars, loopVars, slotVars, procVars
<1>1. CASE UNCHANGED vars
  BY <1>1 DEF vars, Doomed
<1>2. ~Reset
  BY DEF Reset, SlotsFresh
<1>3. CASE Supervisor
  BY <1>2, <1>3
  DEF Supervisor, Doomed, RowCancelled, RowInvalid, RowQueued, NothingToRun,
      PrepareReuses, PrepareSpawns, LoopContinues, LoopEnds, CheckIdle,
      SendTask, SendFails, Raises, Waits, NobodyBusy, ReceiveStarted,
      ReceiveResult, Answered, Unanswered, TimesOut, FindsDead, Skips,
      RoundEnds, CancelSlot, CancelledAll, Drain, Drained, Ends, KeepsPool,
      Fails
<1>4. CASE ReplaceRaises \/ StepRaises \/ CancelRequested
           \/ \E k \in Keys : Begin(k)
  BY <1>4
  DEF Begin, ReplaceRaises, Answered, StepRaises, Raises, CancelRequested,
      Doomed
<1>5. CASE \E s \in SlotSet : Worker(s)
  BY <1>5
  DEF Worker, WorkerStarts, WorkerLeaves, WorkerDies, ClockRuns,
      WorkerAnswers, Doomed
<1>. QED
  BY <1>1, <1>3, <1>4, <1>5 DEF Next

\* A slot that loses its task is left with nothing on its pipes, or with a
\* dead worker and a doomed pool.
LEMMA SpareInvStep ==
  Inv /\ [Next]_vars => SpareInv'
<1> SUFFICES ASSUME Inv, [Next]_vars, NEW s \in SlotSet
             PROVE  SpareOf(s)'
  BY DEF SpareInv
<1>0. TypeOK /\ PlaceInv /\ PipeOf(s) /\ SpareOf(s)
  BY DEF Inv, PipeInv, SpareInv
<1>1. /\ active \in [SlotSet -> Tasks \cup {NoTask}]
      /\ proc \in [SlotSet -> {"none", "idle", "busy", "leaving", "dead"}]
      /\ builtFor \in [SlotSet -> Keys \cup {NoKey}]
      /\ request \in [SlotSet -> Seq(Tasks)]
      /\ answers \in [SlotSet -> Seq(Message)]
      /\ pending \in Seq(Tasks)
  BY <1>0 DEF TypeOK, Message
<1>2. CASE SlotsFresh
  BY <1>2, FreshSlot DEF SlotsFresh
<1>3. CASE ~SlotsFresh /\ (SlotsStay \/ SlotStays(s))
  BY <1>0, <1>3, DoomedStays DEF SlotsStay, SlotStays, SpareOf, Running
<1>4. ASSUME Spawn(s)
      PROVE  SpareOf(s)'
  <2>1. request'[s] = <<>> /\ answers'[s] = <<>> /\ proc'[s] = "idle"
    BY <1>1, <1>4 DEF Spawn
  <2>. QED
    BY <2>1, FreshSlot
<1>5. CASE Serves /\ at = s
  <2>. USE <1>5
  <2>1. CASE CheckIdle
    <3>1. CASE Spawn(s)
      BY <1>4, <3>1
    <3>2. CASE UNCHANGED procVars
      BY <1>0, <2>1, <3>2
      DEF CheckIdle, procVars, slotVars, SpareOf, Running, Doomed
    <3>. QED
      BY <2>1, <3>1, <3>2 DEF CheckIdle
  <2>2. CASE SendTask
    <3>1. Head(pending) \in Tasks
      BY <1>0, <1>1, <2>2, Taken DEF SendTask, PlaceInv
    <3>2. active'[s] = Head(pending)
      BY <1>1, <2>2 DEF SendTask
    <3>. QED
      BY <3>1, <3>2, Names DEF SpareOf
  <2>3. CASE ReceiveStarted
    BY <2>3 DEF ReceiveStarted, Answered, Busy, SpareOf
  <2>4. CASE ReceiveResult
    <3>1. CASE Spawn(s)
      BY <1>4, <3>1
    <3>2. CASE ~Spoils(Head(answers[at]).kind)
      <4>1. /\ request'[s] = <<>> /\ answers'[s] = <<>>
            /\ proc'[s] # "leaving"
        BY <1>0, <2>4, <3>2, LastAnswer DEF ReceiveResult, Spoils
      <4>. QED
        BY <4>1 DEF SpareOf
    <3>. QED
      BY <2>4, <3>1, <3>2 DEF ReceiveResult
  <2>5. CASE ReplaceRaises
    <3>1. request'[s] = <<>> /\ answers'[s] = <<>> /\ pc' = "raise"
      BY <1>0, <2>5, LastAnswer DEF ReplaceRaises, Spoils
    <3>. QED
      BY <3>1 DEF SpareOf
  <2>6. CASE TimesOut \/ FindsDead
    BY <1>4, <2>6 DEF TimesOut, FindsDead
  <2>7. CASE CancelSlot
    <3>1. CASE at \in Busy
      <4>1. proc'[s] = "dead" /\ UNCHANGED <<pc, cancel>> /\ pc = "cancel"
        BY <1>1, <2>7, <3>1 DEF CancelSlot
      <4>2. cancel
        BY <1>0, <4>1 DEF PlaceInv
      <4>. QED
        BY <4>1, <4>2 DEF SpareOf, Running, Doomed
    <3>2. CASE at \notin Busy
      BY <1>0, <2>7, <3>2 DEF CancelSlot, slotVars, SpareOf, Running, Doomed
    <3>. QED
      BY <3>1, <3>2
  <2>. QED
    BY <2>1, <2>2, <2>3, <2>4, <2>5, <2>6, <2>7 DEF Serves
<1>6. CASE Worker(s)
  <2>1. UNCHANGED <<active, pc, cancel>>
    BY <1>6
    DEF Worker, WorkerStarts, WorkerLeaves, WorkerDies, ClockRuns,
        WorkerAnswers, slotVars, loopVars
  <2>2. active[s] = NoTask /\ Running(s) => request[s] = <<>>
    BY <1>0 DEF SpareOf
  <2>3. CASE WorkerStarts(s)
    BY <2>1, <2>2, <2>3 DEF WorkerStarts, Running, SpareOf
  <2>4. CASE WorkerLeaves(s) \/ WorkerDies(s)
    <3>1. proc'[s] = "dead" /\ UNCHANGED <<request, answers>> /\ Running(s)
      BY <1>1, <2>4 DEF WorkerLeaves, WorkerDies, Running
    <3>. QED
      BY <1>0, <2>1, <3>1 DEF SpareOf, Running, Doomed
  <2>5. CASE ClockRuns(s)
    BY <1>0, <2>1, <2>5 DEF ClockRuns, procVars, SpareOf, Running, Doomed
  <2>6. ASSUME NEW kind \in {"done", "physical", "error"},
               WorkerAnswers(s, kind)
        PROVE  SpareOf(s)'
    <3>1. proc[s] = "busy" /\ request[s] # <<>>
      BY <1>0, <2>6, Zenon DEF WorkerAnswers, PipeOf
    <3>. QED
      BY <2>1, <2>2, <3>1 DEF Running, SpareOf
  <2>. QED
    BY <1>6, <2>3, <2>4, <2>5, <2>6 DEF Worker
<1>. QED
  BY <1>2, <1>3, <1>5, <1>6, StepSlots DEF OnlySlot

-----------------------------------------------------------------------------
(* The supervisor.                                                          *)

\* Every step keeps to the order of the supervisor's loop.
LEMMA PlaceInvStep ==
  Inv /\ [Next]_vars => PlaceInv'
<1> SUFFICES ASSUME Inv, [Next]_vars
             PROVE  PlaceInv'
  OBVIOUS
<1>. USE DEF batchVars, loopVars, slotVars, procVars, SlotSet
<1>0. TypeOK /\ PlaceInv
  BY DEF Inv
<1>1. /\ Slots \in Nat \ {0} /\ Population \in Nat \ {0} /\ at \in Nat
      /\ active \in [SlotSet -> Tasks \cup {NoTask}]
      /\ pending \in Seq(Tasks)
  BY <1>0, FastPoolAssumption DEF TypeOK
<1>2. CASE UNCHANGED vars
  BY <1>0, <1>2 DEF vars, PlaceInv
<1>3. CASE Raises /\ pc # "between"
  BY <1>0, <1>3 DEF Raises, PlaceInv
<1>4. CASE \E k \in Keys : Begin(k)
  BY <1>0, <1>1, <1>4 DEF Begin, PlaceInv
<1>5. CASE RowCancelled
  BY <1>0, <1>1, <1>5 DEF RowCancelled, PlaceInv
<1>6. CASE RowInvalid
  BY <1>0, <1>1, <1>6 DEF RowInvalid, PlaceInv
<1>7. CASE RowQueued
  BY <1>0, <1>1, <1>7 DEF RowQueued, PlaceInv
<1>8. CASE NothingToRun
  BY <1>0, <1>1, <1>8 DEF NothingToRun, PlaceInv
<1>9. CASE PrepareReuses \/ PrepareSpawns
  BY <1>0, <1>1, <1>9 DEF PrepareReuses, PrepareSpawns, PlaceInv
<1>10. CASE LoopContinues
  BY <1>0, <1>1, <1>10 DEF LoopContinues, PlaceInv
<1>11. CASE LoopEnds
  BY <1>0, <1>1, <1>11 DEF LoopEnds, BatchOver, Busy, PlaceInv
<1>12. CASE CheckIdle
  BY <1>0, <1>1, <1>12 DEF CheckIdle, GetsTask, PlaceInv
<1>13. CASE SendTask
  BY <1>0, <1>1, <1>13 DEF SendTask, PlaceInv
<1>14. CASE Waits
  BY <1>0, <1>1, <1>14 DEF Waits, PlaceInv
<1>15. CASE NobodyBusy
  BY <1>0, <1>1, <1>15 DEF NobodyBusy, Busy, PlaceInv
<1>16. CASE ReceiveStarted
  BY <1>0, <1>1, <1>16 DEF ReceiveStarted, Answered, Busy, PlaceInv
<1>17. CASE ReceiveResult
  BY <1>0, <1>1, <1>17 DEF ReceiveResult, Answered, Busy, PlaceInv
<1>18. CASE TimesOut \/ FindsDead
  BY <1>0, <1>1, <1>18 DEF TimesOut, FindsDead, Unanswered, Busy, PlaceInv
<1>19. CASE Skips
  BY <1>0, <1>1, <1>19 DEF Skips, PlaceInv
<1>20. CASE RoundEnds
  BY <1>0, <1>1, <1>20 DEF RoundEnds, PlaceInv
<1>21. CASE CancelSlot
  <2>1. /\ pc = "cancel" /\ pc' = "cancel" /\ cancel /\ cancel'
        /\ at \in SlotSet /\ at' = at + 1 /\ UNCHANGED outcome
    BY <1>0, <1>21 DEF CancelSlot, PlaceInv
  <2>2. active'[at] = NoTask
    BY <1>1, <1>21, <2>1 DEF CancelSlot, Settled, Busy
  <2>3. \A s \in SlotSet : s # at => active'[s] = active[s]
    BY <1>1, <1>21, <2>1 DEF CancelSlot, Settled
  <2>4. \A s \in SlotSet : s < at' => active'[s] = NoTask
    BY <1>0, <1>1, <2>1, <2>2, <2>3 DEF PlaceInv
  <2>. QED
    BY <1>0, <1>1, <2>1, <2>4 DEF PlaceInv
<1>22. CASE CancelledAll
  BY <1>0, <1>1, <1>22 DEF CancelledAll, PlaceInv
<1>23. CASE Drain
  BY <1>0, <1>1, <1>23 DEF Drain, PlaceInv
<1>24. CASE Drained
  BY <1>0, <1>1, <1>24 DEF Drained, PlaceInv
<1>25. CASE Ends
  BY <1>0, <1>1, <1>25 DEF Ends, Reset, PlaceInv
<1>26. CASE Fails
  BY <1>0, <1>1, <1>26 DEF Fails, Reset, PlaceInv
<1>27. CASE ReplaceRaises
  BY <1>0, <1>1, <1>27 DEF ReplaceRaises, Answered, PlaceInv
<1>28. CASE CancelRequested
  BY <1>0, <1>1, <1>28 DEF CancelRequested, PlaceInv
<1>29. CASE \E s \in SlotSet : Worker(s)
  <2>. UNCHANGED <<active, loopVars, outcome>>
    BY <1>29
    DEF Worker, WorkerStarts, WorkerLeaves, WorkerDies, ClockRuns,
        WorkerAnswers
  <2>. QED
    BY <1>0 DEF PlaceInv
<1>30. CASE SendFails \/ StepRaises
  BY <1>3, <1>30 DEF SendFails, StepRaises
<1>. QED
  BY <1>2, <1>4, <1>5, <1>6, <1>7, <1>8, <1>9, <1>10, <1>11, <1>12, <1>13,
     <1>14, <1>15, <1>16, <1>17, <1>18, <1>19, <1>20, <1>21, <1>22, <1>23,
     <1>24, <1>25, <1>26, <1>27, <1>28, <1>29, <1>30, Zenon
  DEF Next, Supervisor

\* Every step keeps the pool and its workers those of the batch.
LEMMA KeyInvStep ==
  Inv /\ [Next]_vars => KeyInv'
<1> SUFFICES ASSUME Inv, [Next]_vars
             PROVE  KeyInv'
  OBVIOUS
<1>. USE DEF batchVars, loopVars, slotVars, procVars
<1>0. TypeOK /\ PlaceInv /\ KeyInv
  BY DEF Inv
<1>1. /\ active \in [SlotSet -> Tasks \cup {NoTask}]
      /\ builtFor \in [SlotSet -> Keys \cup {NoKey}]
      /\ NoKey \notin Keys
  BY <1>0, FastPoolAssumption DEF TypeOK
<1>2. CASE /\ UNCHANGED <<active, builtFor, key, wanted>>
           /\ pc' \in InLoop => pc \in InLoop
           /\ pc' \in InLoop \cup {"rows"} => pc \in InLoop \cup {"rows"}
  BY <1>0, <1>2 DEF KeyInv
<1>3. CASE Reset /\ pc' = "between"
  BY <1>3 DEF Reset, KeyInv, InLoop
<1>4. CASE \E k \in Keys : Begin(k)
  BY <1>0, <1>4 DEF Begin, PlaceInv, KeyInv, InLoop
<1>5. CASE PrepareReuses
  BY <1>0, <1>5 DEF PrepareReuses, Compatible, KeyInv, InLoop
<1>6. CASE PrepareSpawns
  BY <1>0, <1>6 DEF PrepareSpawns, KeyInv, InLoop
<1>7. CASE Serves
  <2>1. at \in SlotSet /\ pc \in InLoop
    BY <1>0, <1>7, FastPoolAssumption
    DEF Serves, CheckIdle, SendTask, ReceiveStarted, ReceiveResult, TimesOut,
        FindsDead, CancelSlot, ReplaceRaises, Answered, Unanswered, Busy,
        PlaceInv, SlotSet, InLoop
  <2>2. key = wanted /\ wanted \in Keys /\ \A s \in SlotSet : builtFor[s] = key
    BY <1>0, <1>1, <2>1 DEF KeyInv
  <2>3. UNCHANGED <<key, wanted>>
    BY <1>7
    DEF Serves, CheckIdle, SendTask, ReceiveStarted, ReceiveResult, TimesOut,
        FindsDead, CancelSlot, ReplaceRaises
  <2>4. Spawn(at) => \A s \in SlotSet : builtFor'[s] = wanted
    BY <1>1, <2>2 DEF Spawn
  <2>5. \A s \in SlotSet : builtFor'[s] = wanted
    BY <1>7, <2>2, <2>4
    DEF Serves, CheckIdle, SendTask, ReceiveStarted, ReceiveResult, TimesOut,
        FindsDead, CancelSlot, ReplaceRaises
  <2>. QED
    BY <2>2, <2>3, <2>5 DEF KeyInv
<1>8. CASE \E s \in SlotSet : Worker(s)
  <2>. UNCHANGED <<active, builtFor, pc, key, wanted>>
    BY <1>8
    DEF Worker, WorkerStarts, WorkerLeaves, WorkerDies, ClockRuns,
        WorkerAnswers
  <2>. QED
    BY <1>2
<1>9. CASE Supervisor
  BY <1>2, <1>3, <1>5, <1>6, <1>7, <1>9
  DEF Supervisor, Serves, RowCancelled, RowInvalid, RowQueued, NothingToRun,
      LoopContinues, LoopEnds, SendFails, Raises, Waits, NobodyBusy, Skips,
      RoundEnds, CancelledAll, Drain, Drained, Ends, Fails, InLoop
<1>10. CASE StepRaises \/ CancelRequested \/ UNCHANGED vars
  BY <1>2, <1>10 DEF StepRaises, Raises, CancelRequested, vars, InLoop
<1>. QED
  BY <1>4, <1>7, <1>8, <1>9, <1>10 DEF Next, Serves

\* A failed batch stays without workers.
LEMMA LeftInvStep ==
  Inv /\ [Next]_vars => LeftInv'
<1> SUFFICES ASSUME Inv, [Next]_vars
             PROVE  LeftInv'
  OBVIOUS
<1>. USE DEF batchVars, loopVars, slotVars, procVars
<1>0. PlaceInv /\ LeftInv
  BY DEF Inv
<1>1. CASE UNCHANGED <<proc, pc, outcome>> \/ pc' # "between"
           \/ outcome' # "failed"
  BY <1>0, <1>1 DEF LeftInv, Running
<1>2. CASE Reset
  BY <1>2 DEF Reset, LeftInv, Running
<1>3. CASE Supervisor
  BY <1>1, <1>2, <1>3
  DEF Supervisor, RowCancelled, RowInvalid, RowQueued, NothingToRun,
      PrepareReuses, PrepareSpawns, LoopContinues, LoopEnds, CheckIdle,
      SendTask, SendFails, Raises, Waits, NobodyBusy, ReceiveStarted,
      ReceiveResult, Answered, Unanswered, TimesOut, FindsDead, Skips,
      RoundEnds, CancelSlot, CancelledAll, Drain, Drained, Ends, Fails
<1>4. CASE ReplaceRaises \/ StepRaises \/ CancelRequested
           \/ \E k \in Keys : Begin(k)
  BY <1>1, <1>4 DEF ReplaceRaises, StepRaises, Raises, CancelRequested, Begin
<1>5. ASSUME NEW s \in SlotSet, Worker(s)
      PROVE  LeftInv'
  <2>1. UNCHANGED <<pc, outcome>> /\ (Running(s) \/ UNCHANGED proc)
    BY <1>5
    DEF Worker, WorkerStarts, WorkerLeaves, WorkerDies, ClockRuns,
        WorkerAnswers, Running
  <2>. QED
    BY <1>0, <2>1 DEF LeftInv, Running
<1>6. CASE UNCHANGED vars
  BY <1>1, <1>6 DEF vars
<1>. QED
  BY <1>3, <1>4, <1>5, <1>6 DEF Next

-----------------------------------------------------------------------------
(* The rows.                                                                *)

\* A slot's task gets its row and leaves the slot: the others stay accounted
\* for.
LEMMA TaskSettled ==
  ASSUME TypeOK, RowInv, Counted, pc # "rows", pc' # "rows",
         NEW s \in SlotSet, active[s] # NoTask, NEW row \in RowStates,
         Delivers(active[s], row), Settled(s), UNCHANGED pending
  PROVE  RowInv'
<1>1. /\ active \in [SlotSet -> Tasks \cup {NoTask}] /\ active[s] \in Tasks
      /\ rows \in [Tasks -> RowStates \cup {NoRow}] /\ pending \in Seq(Tasks)
      /\ \A j \in DOMAIN pending : pending[j] \in Tasks
  BY DEF TypeOK
<1>2. UnseenOnce /\ PendingOnce /\ ActiveOnce /\ Accounted
  BY DEF RowInv
<1>3. /\ rows'[active[s]] # NoRow
      /\ \A i \in Tasks : i # active[s] => rows'[i] = rows[i]
  BY <1>1, Names DEF Delivers
<1>4. /\ active'[s] = NoTask
      /\ \A t \in SlotSet : t # s => active'[t] = active[t]
  BY <1>1 DEF Settled
<1>5. \A i \in Tasks : ~Unseen(i) /\ ~Unseen(i)'
  BY DEF Unseen
<1>6. PendingOnce'
  <2>. SUFFICES ASSUME NEW j \in DOMAIN pending
                PROVE  /\ rows'[pending[j]] = NoRow /\ ~Unseen(pending[j])'
                       /\ \A t \in SlotSet : active'[t] # pending[j]
                       /\ \A k \in DOMAIN pending :
                            k # j => pending[k] # pending[j]
    BY DEF PendingOnce
  <2>1. /\ pending[j] \in Tasks /\ rows[pending[j]] = NoRow
        /\ \A t \in SlotSet : active[t] # pending[j]
        /\ \A k \in DOMAIN pending : k # j => pending[k] # pending[j]
    BY <1>1, <1>2 DEF PendingOnce
  <2>2. rows'[pending[j]] = NoRow
    BY <1>3, <2>1
  <2>3. \A t \in SlotSet : active'[t] # pending[j]
    BY <1>4, <2>1, Names
  <2>. QED
    BY <1>5, <2>1, <2>2, <2>3
<1>7. ActiveOnce'
  BY <1>1, <1>2, <1>3, <1>4 DEF ActiveOnce
<1>8. Accounted'
  <2>. SUFFICES ASSUME NEW i \in Tasks, rows'[i] = NoRow
                PROVE  \/ \E j \in DOMAIN pending : pending[j] = i
                       \/ \E t \in SlotSet : active'[t] = i
    BY DEF Accounted
  <2>1. i # active[s] /\ rows[i] = NoRow
    BY <1>3
  <2>2. CASE \E j \in DOMAIN pending : pending[j] = i
    BY <2>2
  <2>3. CASE \E t \in SlotSet : active[t] = i
    BY <1>4, <2>1, <2>3
  <2>. QED
    BY <1>2, <1>5, <2>1, <2>2, <2>3 DEF Accounted
<1>. QED
  BY <1>5, <1>6, <1>7, <1>8 DEF RowInv, UnseenOnce

\* The first pending task leaves the queue: it is nowhere else in it, and the
\* others keep their place behind it.
LEMMA FirstPending ==
  ASSUME TypeOK, PendingOnce, pending # <<>>
  PROVE  /\ Head(pending) \in Tasks /\ Tail(pending) \in Seq(Tasks)
         /\ rows[Head(pending)] = NoRow /\ ~Unseen(Head(pending))
         /\ \A s \in SlotSet : active[s] # Head(pending)
         /\ \A j \in DOMAIN Tail(pending) :
              /\ Tail(pending)[j] # Head(pending)
              /\ \E k \in DOMAIN pending : pending[k] = Tail(pending)[j]
              /\ \A k \in DOMAIN Tail(pending) :
                   k # j => Tail(pending)[k] # Tail(pending)[j]
         /\ \A j \in DOMAIN pending :
              \/ pending[j] = Head(pending)
              \/ \E k \in DOMAIN Tail(pending) : Tail(pending)[k] = pending[j]
<1>. DEFINE n == Len(pending)
            rest == Tail(pending)
<1>1. pending \in Seq(Tasks)
  BY DEF TypeOK
<1>2. /\ n \in Nat \ {0} /\ Head(pending) = pending[1]
      /\ Head(pending) \in Tasks /\ rest \in Seq(Tasks)
      /\ DOMAIN pending = 1..n /\ DOMAIN rest = 1..(n - 1)
      /\ \A j \in 1..(n - 1) : rest[j] = pending[j + 1]
  BY <1>1, Taken
<1>3. /\ \A j \in 1..n :
           /\ rows[pending[j]] = NoRow /\ ~Unseen(pending[j])
           /\ \A s \in SlotSet : active[s] # pending[j]
      /\ \A j, k \in 1..n : k # j => pending[k] # pending[j]
  BY <1>2 DEF PendingOnce
<1>. HIDE DEF n, rest
<1>4. 1 \in 1..n /\ \A j \in 1..(n - 1) : j + 1 \in 1..n /\ j + 1 # 1
  BY <1>2
<1>5. ASSUME NEW j \in 1..(n - 1)
      PROVE  /\ rest[j] # pending[1]
             /\ \E k \in DOMAIN pending : pending[k] = rest[j]
             /\ \A k \in 1..(n - 1) : k # j => rest[k] # rest[j]
  <2>1. rest[j] = pending[j + 1] /\ j + 1 \in 1..n /\ j + 1 # 1
    BY <1>2, <1>4
  <2>2. ASSUME NEW k \in 1..(n - 1), k # j
        PROVE  rest[k] # rest[j]
    <3>1. rest[k] = pending[k + 1] /\ k + 1 \in 1..n /\ k + 1 # j + 1
      BY <1>2, <1>4, <2>2
    <3>. QED
      BY <1>3, <2>1, <3>1
  <2>. QED
    BY <1>2, <1>3, <1>4, <2>1, <2>2
<1>6. ASSUME NEW j \in 1..n
      PROVE  \/ pending[j] = pending[1]
             \/ \E k \in 1..(n - 1) : rest[k] = pending[j]
  <2>1. CASE j # 1
    <3>1. j - 1 \in 1..(n - 1) /\ (j - 1) + 1 = j
      BY <1>2, <2>1
    <3>. QED
      BY <1>2, <3>1
  <2>. QED
    BY <2>1
<1>7. \A j \in DOMAIN rest :
        /\ rest[j] # Head(pending)
        /\ \E k \in DOMAIN pending : pending[k] = rest[j]
        /\ \A k \in DOMAIN rest : k # j => rest[k] # rest[j]
  BY <1>2, <1>5
<1>8. \A j \in DOMAIN pending :
        \/ pending[j] = Head(pending)
        \/ \E k \in DOMAIN rest : rest[k] = pending[j]
  BY <1>2, <1>6
<1>9. /\ rows[Head(pending)] = NoRow /\ ~Unseen(Head(pending))
      /\ \A s \in SlotSet : active[s] # Head(pending)
  BY <1>2, <1>3, <1>4
<1>. QED
  BY <1>2, <1>7, <1>8, <1>9, Zenon DEF rest

\* A task passes from the queue to a slot.
LEMMA TaskSent ==
  ASSUME TypeOK, RowInv, SendTask, NEW s \in SlotSet, s = at,
         active[s] = NoTask, pending # <<>>
  PROVE  RowInv'
<1>1. UnseenOnce /\ PendingOnce /\ ActiveOnce /\ Accounted
  BY DEF RowInv, SendTask, Counted, InLoop
<1>. DEFINE i0 == Head(pending)
            rest == Tail(pending)
<1>2. /\ i0 \in Tasks /\ rows[i0] = NoRow
      /\ \A t \in SlotSet : active[t] # i0
      /\ \A j \in DOMAIN rest :
           /\ rest[j] # i0
           /\ \E k \in DOMAIN pending : pending[k] = rest[j]
           /\ \A k \in DOMAIN rest : k # j => rest[k] # rest[j]
      /\ \A j \in DOMAIN pending :
           pending[j] = i0 \/ \E k \in DOMAIN rest : rest[k] = pending[j]
  BY <1>1, FirstPending
<1>3. /\ active \in [SlotSet -> Tasks \cup {NoTask}]
      /\ active' = [active EXCEPT ![at] = i0] /\ pending' = rest
      /\ UNCHANGED rows
  BY DEF TypeOK, SendTask, batchVars
<1>. HIDE DEF i0, rest
<1>4. active'[s] = i0 /\ \A t \in SlotSet : t # s => active'[t] = active[t]
  BY <1>3
<1>5. \A i : ~Unseen(i) /\ ~Unseen(i)'
  BY DEF SendTask, Unseen
<1>6. PendingOnce'
  <2>. SUFFICES ASSUME NEW j \in DOMAIN rest
                PROVE  /\ rows[rest[j]] = NoRow
                       /\ \A t \in SlotSet : active'[t] # rest[j]
                       /\ \A k \in DOMAIN rest : k # j => rest[k] # rest[j]
    BY <1>3, <1>5 DEF PendingOnce
  <2>1. PICK k \in DOMAIN pending : pending[k] = rest[j]
    BY <1>2
  <2>2. rows[rest[j]] = NoRow /\ \A t \in SlotSet : active[t] # rest[j]
    BY <1>1, <2>1 DEF PendingOnce
  <2>. QED
    BY <1>2, <1>4, <2>2
<1>7. ActiveOnce'
  BY <1>1, <1>2, <1>3, <1>4 DEF ActiveOnce
<1>8. Accounted'
  <2>. SUFFICES ASSUME NEW i \in Tasks, rows[i] = NoRow
                PROVE  \/ \E j \in DOMAIN rest : rest[j] = i
                       \/ \E t \in SlotSet : active'[t] = i
    BY <1>3 DEF Accounted
  <2>1. CASE \E j \in DOMAIN pending : pending[j] = i
    BY <1>2, <1>4, <2>1
  <2>2. CASE \E t \in SlotSet : active[t] = i
    BY <1>4, <2>2, Names
  <2>. QED
    BY <1>1, <1>5, <2>1, <2>2 DEF Accounted
<1>. QED
  BY <1>5, <1>6, <1>7, <1>8 DEF RowInv, UnseenOnce

\* The first pending task is cancelled.
LEMMA TaskDrained ==
  ASSUME TypeOK, RowInv, Drain
  PROVE  RowInv'
<1>1. UnseenOnce /\ PendingOnce /\ ActiveOnce /\ Accounted /\ pending # <<>>
  BY DEF RowInv, Drain, Counted, InLoop
<1>. DEFINE i0 == Head(pending)
            rest == Tail(pending)
<1>2. /\ i0 \in Tasks /\ rows[i0] = NoRow
      /\ \A t \in SlotSet : active[t] # i0
      /\ \A j \in DOMAIN rest :
           /\ rest[j] # i0
           /\ \E k \in DOMAIN pending : pending[k] = rest[j]
           /\ \A k \in DOMAIN rest : k # j => rest[k] # rest[j]
      /\ \A j \in DOMAIN pending :
           pending[j] = i0 \/ \E k \in DOMAIN rest : rest[k] = pending[j]
  BY <1>1, FirstPending
<1>3. /\ rows \in [Tasks -> RowStates \cup {NoRow}]
      /\ active \in [SlotSet -> Tasks \cup {NoTask}]
      /\ \A j \in DOMAIN pending : pending[j] \in Tasks
      /\ rows' = [rows EXCEPT ![i0] = "cancelled"] /\ pending' = rest
      /\ UNCHANGED active
  BY DEF TypeOK, Drain, Delivers, slotVars
<1>. HIDE DEF i0, rest
<1>4. rows'[i0] # NoRow /\ \A i \in Tasks : i # i0 => rows'[i] = rows[i]
  BY <1>2, <1>3, Names DEF RowStates
<1>5. \A i : ~Unseen(i) /\ ~Unseen(i)'
  BY DEF Drain, Unseen
<1>6. PendingOnce'
  <2>. SUFFICES ASSUME NEW j \in DOMAIN rest
                PROVE  /\ rows'[rest[j]] = NoRow
                       /\ \A t \in SlotSet : active[t] # rest[j]
                       /\ \A k \in DOMAIN rest : k # j => rest[k] # rest[j]
    BY <1>3, <1>5 DEF PendingOnce
  <2>1. PICK k \in DOMAIN pending : pending[k] = rest[j]
    BY <1>2
  <2>2. /\ rows[rest[j]] = NoRow /\ rest[j] \in Tasks
        /\ \A t \in SlotSet : active[t] # rest[j]
    BY <1>1, <1>3, <2>1 DEF PendingOnce
  <2>. QED
    BY <1>2, <1>4, <2>2
<1>7. ActiveOnce'
  BY <1>1, <1>2, <1>3, <1>4 DEF ActiveOnce
<1>8. Accounted'
  <2>. SUFFICES ASSUME NEW i \in Tasks, rows'[i] = NoRow
                PROVE  \/ \E j \in DOMAIN rest : rest[j] = i
                       \/ \E t \in SlotSet : active[t] = i
    BY <1>3 DEF Accounted
  <2>1. i # i0 /\ rows[i] = NoRow
    BY <1>4
  <2>2. CASE \E j \in DOMAIN pending : pending[j] = i
    BY <1>2, <2>1, <2>2
  <2>. QED
    BY <1>1, <1>5, <2>1, <2>2 DEF Accounted
<1>. QED
  BY <1>5, <1>6, <1>7, <1>8 DEF RowInv, UnseenOnce

\* A row is looked at: it is given an answer or becomes the last task of the
\* queue.
LEMMA RowLookedAt ==
  ASSUME TypeOK, PlaceInv, RowInv, RowCancelled \/ RowInvalid \/ RowQueued
  PROVE  RowInv'
<1>1. /\ UnseenOnce /\ PendingOnce /\ Accounted
      /\ \A t \in SlotSet : active[t] = NoTask
      /\ pc = "rows" /\ pc' = "rows" /\ at' = at + 1 /\ UNCHANGED active
  BY DEF RowInv, PlaceInv, Counted, RowCancelled, RowInvalid, RowQueued,
         slotVars
<1>2. /\ at \in Tasks /\ at \in Nat
      /\ \A i \in Tasks : i \in Nat
      /\ rows \in [Tasks -> RowStates \cup {NoRow}]
      /\ pending \in Seq(Tasks)
      /\ \A j \in DOMAIN pending : pending[j] \in Tasks
  BY Names, FastPoolAssumption
  DEF TypeOK, RowCancelled, RowInvalid, RowQueued, Tasks
<1>3. /\ \A i \in Tasks : Unseen(i)' <=> Unseen(i) /\ i # at
      /\ Unseen(at)
  BY <1>1, <1>2 DEF Unseen
<1>4. ActiveOnce' /\ rows[at] = NoRow
  BY <1>1, <1>2, <1>3 DEF ActiveOnce, UnseenOnce
<1>5. CASE RowCancelled \/ RowInvalid
  <2>1. /\ rows'[at] # NoRow /\ UNCHANGED pending
        /\ \A i \in Tasks : i # at => rows'[i] = rows[i]
    BY <1>2, <1>5, Names DEF RowCancelled, RowInvalid, Delivers, RowStates
  <2>2. UnseenOnce'
    BY <1>1, <1>3, <2>1 DEF UnseenOnce
  <2>3. PendingOnce'
    <3>. SUFFICES ASSUME NEW j \in DOMAIN pending
                  PROVE  /\ rows'[pending[j]] = NoRow /\ ~Unseen(pending[j])'
                         /\ \A t \in SlotSet : active[t] # pending[j]
                         /\ \A k \in DOMAIN pending :
                              k # j => pending[k] # pending[j]
      BY <1>1, <2>1 DEF PendingOnce
    <3>1. /\ pending[j] \in Tasks /\ rows[pending[j]] = NoRow
          /\ ~Unseen(pending[j])
          /\ \A t \in SlotSet : active[t] # pending[j]
          /\ \A k \in DOMAIN pending : k # j => pending[k] # pending[j]
      BY <1>1, <1>2 DEF PendingOnce
    <3>2. pending[j] # at
      BY <1>3, <3>1
    <3>. QED
      BY <1>3, <2>1, <3>1, <3>2
  <2>4. Accounted'
    <3>. SUFFICES ASSUME NEW i \in Tasks, rows'[i] = NoRow
                  PROVE  \/ Unseen(i)'
                         \/ \E j \in DOMAIN pending : pending[j] = i
                         \/ \E t \in SlotSet : active[t] = i
      BY <1>1, <2>1 DEF Accounted
    <3>1. i # at /\ rows[i] = NoRow
      BY <2>1
    <3>. QED
      BY <1>1, <1>3, <3>1 DEF Accounted
  <2>. QED
    BY <1>4, <2>2, <2>3, <2>4 DEF RowInv
<1>6. CASE RowQueued
  <2>. DEFINE n == Len(pending)
  <2>1. UNCHANGED rows /\ pending' = Append(pending, at)
    BY <1>6 DEF RowQueued, batchVars
  <2>2. /\ n \in Nat /\ DOMAIN pending = 1..n /\ DOMAIN pending' = 1..(n + 1)
        /\ \A j \in 1..n : pending'[j] = pending[j]
        /\ pending'[n + 1] = at
    BY <1>2, <2>1, Added
  <2>. HIDE DEF n
  <2>3. UnseenOnce'
    BY <1>1, <1>3, <2>1 DEF UnseenOnce
  <2>4. \A j \in 1..n :
          /\ rows[pending[j]] = NoRow /\ ~Unseen(pending[j])
          /\ pending[j] \in Tasks /\ pending[j] # at
          /\ \A k \in 1..n : k # j => pending[k] # pending[j]
    BY <1>1, <1>2, <1>3, <2>2 DEF PendingOnce
  <2>5. PendingOnce'
    <3>. SUFFICES ASSUME NEW j \in 1..(n + 1)
                  PROVE  /\ rows[pending'[j]] = NoRow
                         /\ ~(pending'[j] >= at + 1)
                         /\ pending'[j] \in Tasks
                         /\ \A k \in 1..(n + 1) :
                              k # j => pending'[k] # pending'[j]
      BY <1>1, <2>1, <2>2, Names DEF PendingOnce, Unseen
    <3>1. \A k \in 1..(n + 1) : k \in 1..n \/ k = n + 1
      BY <2>2
    <3>2. CASE j \in 1..n
      <4>1. pending'[j] = pending[j]
        BY <2>2, <3>2
      <4>2. ~(pending'[j] >= at + 1)
        <5>1. pending[j] \in Nat /\ ~(pending[j] >= at)
          BY <1>1, <1>2, <2>4, <3>2 DEF Unseen
        <5>. QED
          BY <1>2, <4>1, <5>1
      <4>. QED
        BY <2>2, <2>4, <3>1, <3>2, <4>1, <4>2
    <3>3. CASE j = n + 1
      <4>1. pending'[j] = at
        BY <2>2, <3>3
      <4>2. ~(pending'[j] >= at + 1)
        BY <1>2, <4>1
      <4>3. \A k \in 1..n : pending'[k] # at
        BY <2>2, <2>4
      <4>. QED
        BY <1>2, <1>4, <3>1, <3>3, <4>1, <4>2, <4>3
    <3>. QED
      BY <3>1, <3>2, <3>3
  <2>6. Accounted'
    <3>. SUFFICES ASSUME NEW i \in Tasks, rows[i] = NoRow
                  PROVE  \/ Unseen(i)'
                         \/ \E j \in 1..(n + 1) : pending'[j] = i
                         \/ \E t \in SlotSet : active[t] = i
      BY <1>1, <2>1, <2>2 DEF Accounted
    <3>1. n + 1 \in 1..(n + 1) /\ \A j \in 1..n : j \in 1..(n + 1)
      BY <2>2
    <3>2. CASE i = at
      BY <2>2, <3>1, <3>2
    <3>3. CASE \E j \in 1..n : pending[j] = i
      BY <2>2, <3>1, <3>3
    <3>. QED
      BY <1>1, <1>3, <2>2, <3>2, <3>3 DEF Accounted
  <2>. QED
    BY <1>4, <2>3, <2>5, <2>6 DEF RowInv
<1>. QED
  BY <1>5, <1>6

\* Every step keeps each candidate with exactly one holder, or answered.
LEMMA RowInvStep ==
  Inv /\ [Next]_vars => RowInv'
<1> SUFFICES ASSUME Inv, [Next]_vars
             PROVE  RowInv'
  OBVIOUS
<1>. USE DEF batchVars, loopVars, slotVars, procVars
<1>0. TypeOK /\ PlaceInv /\ RowInv
  BY DEF Inv
<1>1. CASE ~Counted'
  BY <1>1 DEF RowInv
<1>2. CASE /\ UNCHANGED <<rows, pending, active>> /\ Counted
           /\ \A i \in Tasks : Unseen(i)' <=> Unseen(i)
  <2>1. UnseenOnce /\ PendingOnce /\ ActiveOnce /\ Accounted
    BY <1>0, <1>2 DEF RowInv
  <2>2. \A j \in DOMAIN pending : pending[j] \in Tasks
    BY <1>0 DEF TypeOK
  <2>3. UnseenOnce' /\ ActiveOnce' /\ Accounted'
    BY <1>2, <2>1 DEF UnseenOnce, ActiveOnce, Accounted
  <2>4. PendingOnce'
    <3>. SUFFICES ASSUME NEW j \in DOMAIN pending
                  PROVE  /\ rows[pending[j]] = NoRow /\ ~Unseen(pending[j])'
                         /\ \A t \in SlotSet : active[t] # pending[j]
                         /\ \A k \in DOMAIN pending :
                              k # j => pending[k] # pending[j]
      BY <1>2 DEF PendingOnce
    <3>. QED
      BY <1>2, <2>1, <2>2 DEF PendingOnce
  <2>. QED
    BY <2>3, <2>4 DEF RowInv
<1>3. CASE /\ UNCHANGED <<rows, pending, active>> /\ Counted
           /\ \/ UNCHANGED <<pc, at>>
              \/ pc # "rows" /\ pc' # "rows"
  <2>. \A i \in Tasks : Unseen(i)' <=> Unseen(i)
    BY <1>3 DEF Unseen
  <2>. QED
    BY <1>2, <1>3
<1>4. ASSUME NEW s \in SlotSet, s = at, active[s] # NoTask,
             NEW row \in RowStates, pc \in InLoop, UNCHANGED <<pc, pending>>,
             Delivers(active[s], row), Settled(s)
      PROVE  RowInv'
  <2>1. pc # "rows" /\ pc' # "rows" /\ Counted
    BY <1>4 DEF InLoop, Counted
  <2>. QED
    BY <1>0, <1>4, <2>1, TaskSettled
<1>5. CASE \E k \in Keys : Begin(k)
  <2>1. /\ pending' = <<>> /\ pc' = "rows" /\ at' = 0
        /\ rows' = [i \in Tasks |-> NoRow]
        /\ \A s \in SlotSet : active'[s] = NoTask
    BY <1>0, <1>5 DEF Begin, PlaceInv
  <2>2. DOMAIN <<>> = {} /\ \A i \in Tasks : i >= 0
    BY Names
  <2>3. \A i \in Tasks : Unseen(i)'
    BY <2>1, <2>2 DEF Unseen
  <2>. QED
    BY <2>1, <2>2, <2>3
    DEF RowInv, UnseenOnce, PendingOnce, ActiveOnce, Accounted
<1>6. CASE RowCancelled \/ RowInvalid \/ RowQueued
  BY <1>0, <1>6, RowLookedAt
<1>7. CASE PrepareReuses \/ PrepareSpawns
  <2>1. /\ UNCHANGED <<rows, pending, active>> /\ Counted
        /\ pc = "rows" /\ pc' = "loop" /\ at = Population
    BY <1>7 DEF PrepareReuses, PrepareSpawns, Counted, InLoop
  <2>2. \A i \in Tasks : ~(i >= Population)
    BY Names, FastPoolAssumption
  <2>. QED
    BY <1>2, <2>1, <2>2 DEF Unseen
<1>8. CASE SendTask
  <2>. /\ at \in SlotSet /\ active[at] = NoTask /\ pending # <<>>
    BY <1>0, <1>8 DEF SendTask, PlaceInv
  <2>. QED
    BY <1>0, <1>8, TaskSent
<1>9. CASE ReceiveResult
  BY <1>4, <1>9
  DEF ReceiveResult, Answered, Busy, RowOf, RowStates, InLoop
<1>10. CASE TimesOut
  BY <1>4, <1>10 DEF TimesOut, Unanswered, Busy, RowStates, InLoop
<1>11. CASE FindsDead
  BY <1>4, <1>11 DEF FindsDead, Unanswered, Busy, RowStates, InLoop
<1>12. CASE CancelSlot
  <2>1. CASE at \in Busy
    BY <1>4, <1>12, <2>1 DEF CancelSlot, Busy, RowStates, InLoop
  <2>2. CASE at \notin Busy
    BY <1>3, <1>12, <2>2 DEF CancelSlot, Counted, InLoop
  <2>. QED
    BY <2>1, <2>2
<1>13. CASE Drain
  BY <1>0, <1>13, TaskDrained
<1>14. CASE \E s \in SlotSet : Worker(s)
  <2>. UNCHANGED <<rows, pending, active, pc, at>>
    BY <1>14
    DEF Worker, WorkerStarts, WorkerLeaves, WorkerDies, ClockRuns,
        WorkerAnswers
  <2>. QED
    BY <1>1, <1>3 DEF Counted
<1>15. CASE Supervisor
  BY <1>1, <1>3, <1>6, <1>7, <1>8, <1>9, <1>10, <1>11, <1>12, <1>13, <1>15
  DEF Supervisor, NothingToRun, LoopContinues, LoopEnds, CheckIdle, SendFails,
      Raises, Waits, NobodyBusy, ReceiveStarted, Answered, Skips, RoundEnds,
      CancelledAll, Drained, Ends, Fails, Counted, InLoop
<1>16. CASE ReplaceRaises \/ StepRaises
  BY <1>1, <1>16 DEF ReplaceRaises, StepRaises, Raises, Counted, InLoop
<1>17. CASE CancelRequested \/ UNCHANGED vars
  BY <1>1, <1>3, <1>17 DEF CancelRequested, vars, Counted
<1>. QED
  BY <1>5, <1>14, <1>15, <1>16, <1>17 DEF Next

-----------------------------------------------------------------------------
(* Types.                                                                   *)

\* Every step keeps the types.
LEMMA TypeOKStep ==
  Inv /\ [Next]_vars => TypeOK'
<1> SUFFICES ASSUME Inv, [Next]_vars
             PROVE  TypeOK'
  OBVIOUS
<1>. USE DEF batchVars, loopVars, slotVars, procVars
<1>0. TypeOK /\ PlaceInv /\ PipeInv /\ PipeInv'
  BY PipeInvStep DEF Inv
<1>1. /\ Slots \in Nat \ {0} /\ Population \in Nat \ {0}
      /\ MaxBatches \in Nat /\ MaxDeaths \in Nat
      /\ \A i \in 0..(Population - 1) : i \in Tasks
  BY FastPoolAssumption DEF Tasks
<1>2. /\ at \in Nat /\ batches \in 0..MaxBatches
      /\ wanted \in Keys \cup {NoKey}
      /\ cancel \in BOOLEAN /\ pending \in Seq(Tasks)
      /\ ready \subseteq SlotSet
      /\ rows \in [Tasks -> RowStates \cup {NoRow}]
      /\ outcome \in {"none", "running", "returned", "failed"}
      /\ key \in Keys \cup {NoKey}
      /\ deaths \in 0..MaxDeaths
      /\ pc \in {"between", "rows", "loop", "check", "send", "receive",
                 "cancel", "drain", "end", "raise"}
  BY <1>0 DEF TypeOK
<1>3. /\ active \in [SlotSet -> Tasks \cup {NoTask}]
      /\ clock \in [SlotSet -> {"off", "running", "over"}]
      /\ proc \in [SlotSet -> {"none", "idle", "busy", "leaving", "dead"}]
      /\ builtFor \in [SlotSet -> Keys \cup {NoKey}]
      /\ request \in [SlotSet -> Seq(Tasks)]
      /\ answers \in [SlotSet -> Seq(Message)]
  BY <1>0 DEF TypeOK, Message
<1>4. at \in Busy => at \in SlotSet /\ active[at] \in Tasks
  BY <1>3 DEF Busy
<1>5. pending # <<>> => Head(pending) \in Tasks /\ Tail(pending) \in Seq(Tasks)
  BY <1>2, Taken
<1>. DEFINE
  ScalarsOK ==
    /\ at \in Nat /\ batches \in 0..MaxBatches
    /\ wanted \in Keys \cup {NoKey} /\ cancel \in BOOLEAN
    /\ ready \subseteq SlotSet
    /\ outcome \in {"none", "running", "returned", "failed"}
    /\ key \in Keys \cup {NoKey} /\ deaths \in 0..MaxDeaths
    /\ pc \in {"between", "rows", "loop", "check", "send", "receive",
               "cancel", "drain", "end", "raise"}
  RowsOK == rows \in [Tasks -> RowStates \cup {NoRow}]
  PendingOK == pending \in Seq(Tasks)
  SlotsOK == /\ active \in [SlotSet -> Tasks \cup {NoTask}]
             /\ clock \in [SlotSet -> {"off", "running", "over"}]
  ProcsOK ==
    /\ proc \in [SlotSet -> {"none", "idle", "busy", "leaving", "dead"}]
    /\ builtFor \in [SlotSet -> Keys \cup {NoKey}]
  PipesOK == /\ request \in [SlotSet -> Seq(Tasks)]
             /\ answers \in [SlotSet -> Seq(Message)]
<1>6. ScalarsOK'
  <2>1. CASE UNCHANGED <<at, batches, wanted, ready, outcome, key, deaths>>
             /\ cancel' \in BOOLEAN
             /\ pc' \in {"between", "rows", "loop", "check", "send",
                         "receive", "cancel", "drain", "end", "raise"}
    BY <1>2, <2>1
  <2>2. CASE \E k \in Keys : Begin(k)
    BY <1>1, <1>2, <2>2 DEF Begin
  <2>3. CASE Supervisor
    <3>1. pc' \in {"between", "rows", "loop", "check", "send", "receive",
                   "cancel", "drain", "end", "raise"}
      BY <1>2, <2>3
      DEF Supervisor, RowCancelled, RowInvalid, RowQueued, NothingToRun,
          PrepareReuses, PrepareSpawns, LoopContinues, LoopEnds, CheckIdle,
          SendTask, SendFails, Raises, Waits, NobodyBusy, ReceiveStarted,
          ReceiveResult, TimesOut, FindsDead, Skips, RoundEnds, CancelSlot,
          CancelledAll, Drain, Drained, Ends, Fails
    <3>2. at' \in {0, 1, at, at + 1}
      BY <2>3
      DEF Supervisor, RowCancelled, RowInvalid, RowQueued, NothingToRun,
          PrepareReuses, PrepareSpawns, LoopContinues, LoopEnds, CheckIdle,
          SendTask, SendFails, Raises, Waits, NobodyBusy, ReceiveStarted,
          ReceiveResult, TimesOut, FindsDead, Skips, RoundEnds, CancelSlot,
          CancelledAll, Drain, Drained, Ends, Fails
    <3>3. /\ UNCHANGED <<batches, wanted, deaths>>
          /\ cancel' \in {cancel, FALSE}
          /\ outcome' \in {outcome, "returned", "failed"}
          /\ key' \in {key, wanted, NoKey}
      BY <2>3
      DEF Supervisor, RowCancelled, RowInvalid, RowQueued, NothingToRun,
          PrepareReuses, PrepareSpawns, LoopContinues, LoopEnds, CheckIdle,
          SendTask, SendFails, Raises, Waits, NobodyBusy, ReceiveStarted,
          ReceiveResult, TimesOut, FindsDead, Skips, RoundEnds, CancelSlot,
          CancelledAll, Drain, Drained, Ends, Fails, Reset
    <3>4. ready' \subseteq SlotSet
      BY <1>2, <2>3
      DEF Supervisor, RowCancelled, RowInvalid, RowQueued, NothingToRun,
          PrepareReuses, PrepareSpawns, LoopContinues, LoopEnds, CheckIdle,
          SendTask, SendFails, Raises, Waits, NobodyBusy, ReceiveStarted,
          ReceiveResult, TimesOut, FindsDead, Skips, RoundEnds, CancelSlot,
          CancelledAll, Drain, Drained, Ends, Fails, Busy
    <3>5. cancel' \in BOOLEAN
      BY <1>2, <3>3, Zenon
    <3>6. at' \in Nat
      BY <1>2, <3>2
    <3>7. /\ outcome' \in {"none", "running", "returned", "failed"}
          /\ key' \in Keys \cup {NoKey}
          /\ UNCHANGED <<batches, wanted, deaths>>
      BY <1>2, <3>3
    <3>. QED
      BY <1>2, <3>1, <3>4, <3>5, <3>6, <3>7, Zenon
  <2>4. CASE ReplaceRaises \/ StepRaises
    BY <1>2, <2>4 DEF ReplaceRaises, StepRaises, Raises
  <2>5. CASE CancelRequested \/ UNCHANGED vars
    BY <1>2, <2>1, <2>5 DEF CancelRequested, vars
  <2>6. CASE \E s \in SlotSet : Worker(s)
    <3>1. UNCHANGED <<batchVars, loopVars, key>>
          /\ (deaths' = deaths \/ (deaths < MaxDeaths /\ deaths' = deaths + 1))
      BY <2>6
      DEF Worker, WorkerStarts, WorkerLeaves, WorkerDies, ClockRuns,
          WorkerAnswers
    <3>. QED
      BY <1>1, <1>2, <3>1
  <2>. QED
    BY <2>2, <2>3, <2>4, <2>5, <2>6 DEF Next
<1>7. RowsOK'
  <2>1. ASSUME NEW i \in Tasks, NEW row \in RowStates, Delivers(i, row)
        PROVE  RowsOK'
    BY <1>2, <2>1 DEF Delivers
  <2>2. CASE UNCHANGED rows
    BY <1>2, <2>2
  <2>3. CASE \E k \in Keys : Begin(k)
    BY <2>3 DEF Begin
  <2>4. CASE RowCancelled \/ RowInvalid
    <3>1. at \in Tasks
      BY <1>1, <1>2, <2>4 DEF RowCancelled, RowInvalid
    <3>. QED
      BY <2>1, <2>4, <3>1 DEF RowCancelled, RowInvalid, RowStates
  <2>5. CASE ReceiveResult \/ ReplaceRaises
    BY <1>4, <2>1, <2>5
    DEF ReceiveResult, ReplaceRaises, Answered, RowOf, RowStates
  <2>6. CASE TimesOut \/ FindsDead
    BY <1>4, <2>1, <2>6 DEF TimesOut, FindsDead, Unanswered, RowStates
  <2>7. CASE CancelSlot
    BY <1>4, <2>1, <2>2, <2>7 DEF CancelSlot, RowStates
  <2>8. CASE Drain
    BY <1>5, <2>1, <2>8 DEF Drain, RowStates
  <2>9. CASE \E s \in SlotSet : Worker(s)
    BY <2>2, <2>9
    DEF Worker, WorkerStarts, WorkerLeaves, WorkerDies, ClockRuns,
        WorkerAnswers
  <2>10. CASE Supervisor
    BY <2>2, <2>4, <2>5, <2>6, <2>7, <2>8, <2>10
    DEF Supervisor, RowQueued, NothingToRun, PrepareReuses, PrepareSpawns,
        LoopContinues, LoopEnds, CheckIdle, SendTask, SendFails, Raises,
        Waits, NobodyBusy, ReceiveStarted, Skips, RoundEnds, CancelledAll,
        Drained, Ends, Fails
  <2>11. CASE StepRaises \/ CancelRequested \/ UNCHANGED vars
    BY <2>2, <2>11 DEF StepRaises, Raises, CancelRequested, vars
  <2>. QED
    BY <2>3, <2>5, <2>9, <2>10, <2>11 DEF Next
<1>8. PendingOK'
  <2>1. CASE UNCHANGED pending
    BY <1>2, <2>1
  <2>2. CASE pending' = <<>>
    BY <2>2
  <2>3. CASE RowQueued
    <3>1. at \in Tasks
      BY <1>1, <1>2, <2>3 DEF RowQueued
    <3>. QED
      BY <1>2, <2>3, <3>1 DEF RowQueued
  <2>4. CASE SendTask \/ Drain
    BY <1>0, <1>5, <2>4 DEF SendTask, Drain, PlaceInv
  <2>5. CASE Supervisor
    BY <2>1, <2>2, <2>3, <2>4, <2>5
    DEF Supervisor, RowCancelled, RowInvalid, NothingToRun, PrepareReuses,
        PrepareSpawns, LoopContinues, LoopEnds, CheckIdle, SendFails, Raises,
        Waits, NobodyBusy, ReceiveStarted, ReceiveResult, TimesOut, FindsDead,
        Skips, RoundEnds, CancelSlot, CancelledAll, Drained, Ends, Fails
  <2>6. CASE \/ \E k \in Keys : Begin(k)
             \/ ReplaceRaises \/ StepRaises \/ CancelRequested
             \/ \E s \in SlotSet : Worker(s) \/ UNCHANGED vars
    BY <2>1, <2>6
    DEF Begin, ReplaceRaises, StepRaises, Raises, CancelRequested, Worker,
        WorkerStarts, WorkerLeaves, WorkerDies, ClockRuns, WorkerAnswers, vars
  <2>7. CASE UNCHANGED vars
    BY <2>1, <2>7 DEF vars
  <2>. QED
    BY <2>5, <2>6, <2>7 DEF Next
<1>9. SlotsOK'
  <2>1. CASE UNCHANGED <<active, clock>>
    BY <1>3, <2>1
  <2>2. CASE Reset
    BY <2>2 DEF Reset
  <2>3. CASE Settled(at)
    BY <1>3, <2>3 DEF Settled
  <2>4. CASE SendTask
    BY <1>0, <1>3, <1>5, <2>4 DEF SendTask, PlaceInv
  <2>5. CASE ReceiveStarted
    BY <1>3, <2>5 DEF ReceiveStarted
  <2>6. ASSUME NEW s \in SlotSet, Worker(s)
        PROVE  SlotsOK'
    <3>1. /\ UNCHANGED active
          /\ UNCHANGED clock \/ clock' = [clock EXCEPT ![s] = "over"]
      BY <2>6
      DEF Worker, WorkerStarts, WorkerLeaves, WorkerDies, ClockRuns,
          WorkerAnswers
    <3>. QED
      BY <1>3, <3>1
  <2>7. CASE Supervisor
    BY <2>1, <2>2, <2>3, <2>4, <2>5, <2>7
    DEF Supervisor, RowCancelled, RowInvalid, RowQueued, NothingToRun,
        PrepareReuses, PrepareSpawns, LoopContinues, LoopEnds, CheckIdle,
        SendFails, Raises, Waits, NobodyBusy, ReceiveResult, TimesOut,
        FindsDead, Skips, RoundEnds, CancelSlot, CancelledAll, Drain, Drained,
        Ends, Fails
  <2>8. CASE \/ \E k \in Keys : Begin(k)
             \/ StepRaises \/ CancelRequested \/ UNCHANGED vars
    BY <2>1, <2>8 DEF Begin, StepRaises, Raises, CancelRequested, vars
  <2>9. CASE ReplaceRaises
    BY <2>3, <2>9 DEF ReplaceRaises
  <2>. QED
    BY <2>6, <2>7, <2>8, <2>9 DEF Next
<1>10. ProcsOK' /\ PipesOK'
  <2>1. CASE UNCHANGED procVars
    BY <1>3, <2>1
  <2>2. CASE Reset
    BY <2>2 DEF Reset
  <2>3. CASE Spawn(at)
    <3>1. <<>> \in Seq(Tasks) /\ <<>> \in Seq(Message)
      OBVIOUS
    <3>. DEFINE none == <<>>
    <3>2. none \in Seq(Tasks) /\ none \in Seq(Message)
      BY <3>1
    <3>3. /\ proc' = [proc EXCEPT ![at] = "idle"]
          /\ builtFor' = [builtFor EXCEPT ![at] = wanted]
          /\ request' = [request EXCEPT ![at] = none]
          /\ answers' = [answers EXCEPT ![at] = none]
      BY <2>3 DEF Spawn
    <3>. HIDE DEF none
    <3>4. ProcsOK'
      BY <1>2, <1>3, <3>3
    <3>5. PipesOK'
      BY <1>3, <3>2, <3>3
    <3>. QED
      BY <3>4, <3>5
  <2>4. CASE PrepareSpawns
    BY <1>2, <2>4 DEF PrepareSpawns
  <2>5. CASE SendTask
    <3>1. at \in SlotSet /\ Head(pending) \in Tasks
      BY <1>0, <1>5, <2>5 DEF SendTask, PlaceInv
    <3>2. Append(request[at], Head(pending)) \in Seq(Tasks)
      BY <1>3, <3>1
    <3>. QED
      BY <1>3, <2>5, <3>1, <3>2 DEF SendTask
  <2>6. CASE \/ ReceiveStarted \/ ReplaceRaises
             \/ (ReceiveResult /\ ~Spoils(Head(answers[at]).kind))
    <3>1. at \in SlotSet /\ answers[at] # <<>>
      BY <2>6
      DEF ReceiveStarted, ReceiveResult, ReplaceRaises, Answered, Busy
    <3>2. Tail(answers[at]) \in Seq(Message)
      BY <1>3, <3>1, Taken
    <3>3. /\ answers' = [answers EXCEPT ![at] = Tail(@)]
          /\ UNCHANGED <<proc, builtFor, request>>
      BY <2>6 DEF ReceiveStarted, ReceiveResult, ReplaceRaises
    <3>. QED
      BY <1>3, <3>2, <3>3
  <2>7. CASE CancelSlot
    BY <1>3, <2>7 DEF CancelSlot
  <2>8. ASSUME NEW s \in SlotSet, WorkerStarts(s)
        PROVE  ProcsOK' /\ PipesOK'
    <3>. DEFINE m == [kind |-> "started", task |-> Head(request[s])]
    <3>1. Head(request[s]) \in Tasks
      BY <1>3, <2>8, Taken DEF WorkerStarts
    <3>2. m \in Message
      BY <3>1 DEF Message, Kinds
    <3>. HIDE DEF m
    <3>3. Append(answers[s], m) \in Seq(Message)
      BY <1>3, <3>2
    <3>4. /\ answers' = [answers EXCEPT ![s] = Append(answers[s], m)]
          /\ proc' = [proc EXCEPT ![s] = "busy"]
          /\ UNCHANGED <<builtFor, request>>
      BY <2>8 DEF WorkerStarts, m
    <3>. QED
      BY <1>3, <3>3, <3>4
  <2>9. ASSUME NEW s \in SlotSet, NEW kind \in {"done", "physical", "error"},
               WorkerAnswers(s, kind)
        PROVE  ProcsOK' /\ PipesOK'
    <3>. DEFINE m == [kind |-> kind, task |-> Head(request[s])]
                p == IF kind = "error" THEN "leaving" ELSE "idle"
    <3>0. request[s] # <<>>
      BY <1>0, <2>9, Zenon DEF WorkerAnswers, PipeInv, PipeOf
    <3>1. Head(request[s]) \in Tasks /\ Tail(request[s]) \in Seq(Tasks)
      BY <1>3, <3>0, Taken
    <3>2. m \in Message
      BY <3>1 DEF Message, Kinds
    <3>3. p \in {"leaving", "idle"}
      OBVIOUS
    <3>4. /\ answers' = [answers EXCEPT ![s] = Append(answers[s], m)]
          /\ request' = [request EXCEPT ![s] = Tail(request[s])]
          /\ proc' = [proc EXCEPT ![s] = p]
          /\ UNCHANGED builtFor
      BY <2>9 DEF WorkerAnswers
    <3>. HIDE DEF m, p
    <3>5. Append(answers[s], m) \in Seq(Message)
      BY <1>3, <3>2
    <3>. QED
      BY <1>3, <3>1, <3>3, <3>4, <3>5
  <2>10. ASSUME NEW s \in SlotSet,
                WorkerLeaves(s) \/ WorkerDies(s) \/ ClockRuns(s)
         PROVE  ProcsOK' /\ PipesOK'
    BY <1>3, <2>10 DEF WorkerLeaves, WorkerDies, ClockRuns
  <2>11. CASE Supervisor
    BY <2>1, <2>2, <2>3, <2>4, <2>5, <2>6, <2>7, <2>11
    DEF Supervisor, RowCancelled, RowInvalid, RowQueued, NothingToRun,
        PrepareReuses, LoopContinues, LoopEnds, CheckIdle, SendFails, Raises,
        Waits, NobodyBusy, ReceiveResult, TimesOut, FindsDead, Skips,
        RoundEnds, CancelledAll, Drain, Drained, Ends, Fails
  <2>12. CASE \/ \E k \in Keys : Begin(k)
              \/ StepRaises \/ CancelRequested \/ UNCHANGED vars
    BY <2>1, <2>12 DEF Begin, StepRaises, Raises, CancelRequested, vars
  <2>. QED
    BY <2>6, <2>8, <2>9, <2>10, <2>11, <2>12 DEF Next, Worker
<1>11. \A s \in SlotSet : Len(request'[s]) <= 1 /\ Len(answers'[s]) <= 2
  BY <1>0 DEF PipeInv, PipeOf
<1>. QED
  BY <1>6, <1>7, <1>8, <1>9, <1>10, <1>11 DEF TypeOK, Message

-----------------------------------------------------------------------------
(* Theorems.                                                                *)

\* The invariant holds of every run.
THEOREM Invariance == Spec => []Inv
<1>1. Init => Inv
  <2>. SUFFICES ASSUME Init PROVE Inv
    OBVIOUS
  <2>. USE FastPoolAssumption DEF Init
  <2>1. Len(<<>>) = 0 /\ DOMAIN <<>> = {} /\ <<>> \in Seq(Message)
        /\ <<>> \in Seq(Tasks)
    OBVIOUS
  <2>2. TypeOK
    <3>. DEFINE none == <<>>
    <3>1. /\ request = [s \in SlotSet |-> none]
          /\ answers = [s \in SlotSet |-> none] /\ pending = none
          /\ none \in Seq(Message) /\ none \in Seq(Tasks) /\ Len(none) = 0
      BY <2>1
    <3>. HIDE DEF none
    <3>2. /\ request \in [SlotSet -> Seq(Tasks)] /\ pending \in Seq(Tasks)
          /\ answers \in [SlotSet -> Seq(Message)]
          /\ \A s \in SlotSet : Len(request[s]) <= 1 /\ Len(answers[s]) <= 2
      BY <3>1
    <3>3. /\ at \in Nat /\ batches \in 0..MaxBatches /\ deaths \in 0..MaxDeaths
          /\ rows \in [Tasks -> RowStates \cup {NoRow}]
          /\ builtFor \in [SlotSet -> Keys \cup {NoKey}]
          /\ active \in [SlotSet -> Tasks \cup {NoTask}]
          /\ clock \in [SlotSet -> {"off", "running", "over"}]
          /\ proc \in [SlotSet -> {"none", "idle", "busy", "leaving", "dead"}]
      OBVIOUS
    <3>. QED
      BY <3>2, <3>3 DEF TypeOK, Message
  <2>3. PlaceInv /\ KeyInv /\ LeftInv
    BY DEF PlaceInv, KeyInv, LeftInv, InLoop
  <2>4. PipeInv
    BY <2>1 DEF PipeInv, PipeOf
  <2>5. SpareInv /\ RowInv
    BY DEF SpareInv, SpareOf, RowInv, Counted, InLoop
  <2>. QED
    BY <2>2, <2>3, <2>4, <2>5 DEF Inv
<1>2. Inv /\ [Next]_vars => Inv'
  BY TypeOKStep, PlaceInvStep, KeyInvStep, PipeInvStep, SpareInvStep,
     RowInvStep, LeftInvStep DEF Inv
<1>. QED
  BY <1>1, <1>2, PTL DEF Spec

\* Every variable keeps its type: a pipe never holds a second request, nor
\* more than a start and one result.
THEOREM TypeCorrect == Spec => []TypeOK
<1>1. Inv => TypeOK
  BY DEF Inv
<1>. QED
  BY <1>1, Invariance, PTL

\* What the supervisor reads from a pipe answers the task it last sent there.
THEOREM AnswersAreOurs == Spec => []PipesMatch
<1>1. Inv => PipesMatch
  BY DEF Inv, PipeInv, PipeOf, PipesMatch
<1>. QED
  BY <1>1, Invariance, PTL

\* A candidate is only ever evaluated by a worker of its batch's pool.
THEOREM WorkersAlwaysFit == Spec => []WorkersFit
<1>1. Inv => WorkersFit
  BY DEF Inv, KeyInv, WorkersFit
<1>. QED
  BY <1>1, Invariance, PTL

\* A batch leaves nothing on any pipe, and a failed one leaves no worker.
THEOREM NothingIsLeft == Spec => []NothingLeftRunning
<1>1. Inv => NothingLeftRunning
  <2>. SUFFICES ASSUME Inv, pc = "between"
                PROVE  NothingLeftRunning
    BY DEF NothingLeftRunning
  <2>1. \A s \in SlotSet : active[s] = NoTask /\ SpareOf(s)
    BY DEF Inv, PlaceInv, SpareInv
  <2>2. ~Doomed
    BY DEF Doomed
  <2>3. outcome = "failed" => \A s \in SlotSet : ~Running(s)
    BY DEF Inv, LeftInv
  <2>. QED
    BY <2>1, <2>2, <2>3 DEF SpareOf, NothingLeftRunning
<1>. QED
  BY <1>1, Invariance, PTL

\* The pool implements Batch: every step answers one unanswered candidate of
\* the running batch, begins, returns or fails it, or changes neither rows nor
\* outcome.
THEOREM ImplementsBatch == Spec => AnswersOnce
<1>1. Init => Promise!Init
  BY DEF Init, Promise!Init
<1>2. Inv /\ [Next]_vars => [Promise!Next]_(Promise!vars)
  <2>. SUFFICES ASSUME Inv, [Next]_vars
                PROVE  Promise!Next \/ UNCHANGED Promise!vars
    OBVIOUS
  <2>. USE DEF batchVars
  <2>0. TypeOK /\ PlaceInv /\ RowInv
    BY DEF Inv
  <2>1. CASE UNCHANGED <<rows, outcome>>
    BY <2>1 DEF Promise!vars
  <2>2. ASSUME NEW i \in Tasks, NEW row \in RowStates, rows[i] = NoRow,
               pc # "between", Delivers(i, row), UNCHANGED outcome
        PROVE  Promise!Next
    BY <2>0, <2>2 DEF PlaceInv, Delivers, Promise!Answer, Promise!Next
  <2>3. at \in Busy /\ Counted =>
          active[at] \in Tasks /\ rows[active[at]] = NoRow
    BY <2>0 DEF TypeOK, Busy, RowInv, ActiveOnce
  <2>4. CASE \E k \in Keys : Begin(k)
    BY <2>0, <2>4 DEF Begin, PlaceInv, Promise!Begin, Promise!Next
  <2>5. CASE RowCancelled \/ RowInvalid
    <3>1. at \in Tasks /\ rows[at] = NoRow
      BY <2>0, <2>5, FastPoolAssumption
      DEF TypeOK, RowCancelled, RowInvalid, Tasks, RowInv, Counted, UnseenOnce,
          Unseen
    <3>. QED
      BY <2>2, <2>5, <3>1 DEF RowCancelled, RowInvalid, RowStates
  <2>6. CASE ReceiveResult \/ ReplaceRaises
    BY <2>2, <2>3, <2>6
    DEF ReceiveResult, ReplaceRaises, Answered, RowOf, RowStates, Counted,
        InLoop
  <2>7. CASE TimesOut \/ FindsDead
    BY <2>2, <2>3, <2>7
    DEF TimesOut, FindsDead, Unanswered, RowStates, Counted, InLoop
  <2>8. CASE CancelSlot
    BY <2>1, <2>2, <2>3, <2>8 DEF CancelSlot, RowStates, Counted, InLoop
  <2>9. CASE Drain
    <3>1. Head(pending) \in Tasks /\ rows[Head(pending)] = NoRow
      BY <2>0, <2>9, FirstPending DEF Drain, RowInv, Counted, InLoop
    <3>. QED
      BY <2>2, <2>9, <3>1 DEF Drain, RowStates
  <2>10. CASE NothingToRun \/ Ends
    <3>1. pc \in {"rows", "end"} /\ pending = <<>>
          /\ \A s \in SlotSet : active[s] = NoTask
      BY <2>0, <2>10 DEF NothingToRun, Ends, PlaceInv
    <3>2. \A i \in Tasks : ~Unseen(i)
      BY <2>10, Names, FastPoolAssumption DEF NothingToRun, Ends, Unseen
    <3>3. \A i \in Tasks : rows[i] # NoRow
      BY <2>0, <3>1, <3>2, Names DEF RowInv, Counted, InLoop, Accounted
    <3>4. outcome = "running" /\ outcome' = "returned" /\ UNCHANGED rows
      BY <2>0, <2>10, <3>1 DEF NothingToRun, Ends, PlaceInv
    <3>. QED
      BY <3>3, <3>4 DEF Promise!Return, Promise!Next
  <2>11. CASE Fails
    BY <2>0, <2>11 DEF Fails, PlaceInv, Promise!Fail, Promise!Next
  <2>12. CASE \E s \in SlotSet : Worker(s)
    BY <2>1, <2>12
    DEF Worker, WorkerStarts, WorkerLeaves, WorkerDies, ClockRuns,
        WorkerAnswers
  <2>13. CASE Supervisor
    BY <2>1, <2>5, <2>6, <2>7, <2>8, <2>9, <2>10, <2>11, <2>13
    DEF Supervisor, RowQueued, PrepareReuses, PrepareSpawns, LoopContinues,
        LoopEnds, CheckIdle, SendTask, SendFails, Raises, Waits, NobodyBusy,
        ReceiveStarted, Skips, RoundEnds, CancelledAll, Drained
  <2>14. CASE StepRaises \/ CancelRequested \/ UNCHANGED vars
    BY <2>1, <2>14 DEF StepRaises, Raises, CancelRequested, vars
  <2>. QED
    BY <2>4, <2>6, <2>12, <2>13, <2>14 DEF Next
<1>. QED
  BY Invariance, <1>1, <1>2, PTL DEF Spec, AnswersOnce, Promise!Spec

=============================================================================
