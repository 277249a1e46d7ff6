------------------------------ MODULE LocalJobs ------------------------------
(***************************************************************************)
(* One batch of local processes: _dispatch_local and _evaluate_one_local   *)
(* of evaluate_manager/api.py, run_local_job of local_runner.py and the    *)
(* termination of a process tree in process_control.py.                    *)
(*                                                                         *)
(* Each candidate is a task of an executor, or of the dispatching thread   *)
(* itself when there is one worker.  A task supervises one workflow        *)
(* process, whose output pipes its descendants may keep open after it.     *)
(* Descendants that have closed them are not modelled.                     *)
(***************************************************************************)
EXTENDS Answers, FiniteSets

CONSTANT MaxWorkers  \* bound of the model: workers a plan may allow

VARIABLES
  main,      \* "idle" | "freeze" | "collect" | "unwind" | "over"
  workers,   \* worker_plan.worker_count
  timed,     \* timeout_sec is set
  template,  \* the parameter template was frozen
  task,      \* "queued" | "prepare" | "run" | "watch" | "drain" | "answered"
             \* | "taken"
  answer,    \* what evaluate_one returned, or is about to
  proc,      \* the workflow process: "none" | "alive" | "exited" | "killed"
  held,      \* a descendant keeps its pipes open
  clock,     \* its timeout: "off" | "running" | "over"
  orphans    \* candidates answered by a step that raised beside their process

mainVars == <<main, workers, timed, template>>
taskVars == <<task, answer>>
procVars == <<proc, held, clock, orphans>>
localVars == <<mainVars, taskVars, procVars>>
vars == <<localVars, answerVars>>

Sequential == workers = 1 \/ Population = 1

InThread(i) == task[i] \in {"prepare", "run", "watch", "drain"}

Queue == {i \in Candidates : task[i] = "queued"}

Settled(i) == task[i] \in {"answered", "taken"}

Goes(i, to) == task' = [task EXCEPT ![i] = to]

Returns(i, status) ==
  /\ Goes(i, "answered")
  /\ answer' = [answer EXCEPT ![i] = status]

-----------------------------------------------------------------------------
(* The dispatching thread.                                                  *)

Begin ==
  /\ Begins
  /\ workers' \in 1..MaxWorkers /\ timed' \in BOOLEAN
  /\ main' = "freeze"
  /\ UNCHANGED <<template, taskVars, procVars>>

\* Parameter definitions are resolved once, unless the batch is cancelled; an
\* error then is every candidate's error.
Freezes ==
  /\ main = "freeze" /\ main' = "collect"
  /\ \/ template' = "frozen" /\ NoFault
     \/ ~cancel /\ template' = "error" /\ Fault
  /\ UNCHANGED <<workers, timed, taskVars, procVars, rows, coordinator>>
  /\ Ongoing

\* accept takes what as_completed yields, in any order.
Accepts(i) ==
  /\ main = "collect" /\ task[i] = "answered"
  /\ Takes(i, answer[i]) /\ Ongoing
  /\ Goes(i, "taken")
  /\ UNCHANGED <<mainVars, answer, procVars>>

\* It raises: one worker leaves at once, an executor first waits for every
\* task, those still queued included.
AcceptRaises(i) ==
  /\ main = "collect" /\ task[i] = "answered"
  /\ RecordingRaises /\ Ongoing
  /\ main' = "unwind"
  /\ UNCHANGED <<workers, timed, template, taskVars, procVars>>

\* Mutation: the executor does not wait.
LeavesAtOnce == TRUE

AllSettled == Sequential \/ \A i \in Candidates : Settled(i)

Unwinds ==
  /\ main = "unwind" /\ AllSettled
  /\ main' = "over" /\ outcome' = "failed" /\ coordinator' = "closed"
  /\ UNCHANGED <<workers, timed, template, taskVars, procVars, rows, cancel,
                 faults>>

Finish ==
  /\ main = "collect" /\ \A i \in Candidates : task[i] = "taken"
  /\ Finishes
  /\ main' = "over"
  /\ UNCHANGED <<workers, timed, template, taskVars, procVars, cancel>>

-----------------------------------------------------------------------------
(* _evaluate_one_local.                                                     *)

\* A thread takes the next candidate of the queue; one worker takes it only
\* when the row before was accepted.
CanTake(i) ==
  /\ i \in Queue /\ \A j \in Queue : i <= j
  /\ IF Sequential
     THEN main = "collect" /\ \A j \in Candidates \ Queue : task[j] = "taken"
     ELSE /\ main \in {"collect", "unwind"}
          /\ Cardinality({j \in Candidates : InThread(j)}) < workers

TakesUp(i) ==
  /\ CanTake(i)
  /\ IF cancel
     THEN Returns(i, "cancelled")
     ELSE Goes(i, "prepare") /\ UNCHANGED answer
  /\ UNCHANGED <<mainVars, procVars, answerVars>>

\* prepare_job, which may raise.
Prepares(i) ==
  /\ task[i] = "prepare"
  /\ IF template = "error" \/ i \in Invalid
     THEN Returns(i, "error")
     ELSE Goes(i, "run") /\ UNCHANGED answer
  /\ UNCHANGED <<mainVars, procVars, answerVars>>

-----------------------------------------------------------------------------
(* run_local_job.                                                           *)

StartCancelled(i) ==
  /\ task[i] = "run" /\ cancel
  /\ Returns(i, "cancelled")
  /\ UNCHANGED <<mainVars, procVars, answerVars>>

\* No workflow.py, or Popen raises.
StartFails(i) ==
  /\ task[i] = "run" /\ ~cancel /\ Fault
  /\ Returns(i, "error")
  /\ UNCHANGED <<mainVars, procVars, rows, coordinator>> /\ Ongoing

Starts(i) ==
  /\ task[i] = "run" /\ ~cancel
  /\ Goes(i, "watch")
  /\ proc' = [proc EXCEPT ![i] = "alive"]
  /\ held' = [held EXCEPT ![i] = TRUE]
  /\ clock' = [clock EXCEPT ![i] = IF timed THEN "running" ELSE "off"]
  /\ UNCHANGED <<mainVars, answer, orphans, answerVars>>

\* A step raises while nobody else watches the process.
Abandons(i) == Returns(i, "error") /\ orphans' = orphans \cup {i} /\ Fault

\* The monitor's thread cannot be started: the process runs, and run_local_job
\* raises before it begins to watch it.
MonitorFails(i) ==
  /\ task[i] = "run" /\ ~cancel
  /\ Abandons(i)
  /\ proc' = [proc EXCEPT ![i] = "alive"]
  /\ held' = [held EXCEPT ![i] = TRUE]
  /\ UNCHANGED <<mainVars, clock, rows, coordinator>> /\ Ongoing

\* Mutation: a process is killed only for its own timeout.
OnlyOverdue(i) == clock[i] = "over"

MustEnd(i) == cancel \/ clock[i] = "over"

\* A live workflow is to be ended, cancellation first.
Overrun(i) == task[i] = "watch" /\ proc[i] = "alive" /\ MustEnd(i)

\* The tree is killed while its root lives; what left the tree and keeps the
\* pipes is not reached.
Kills(i) ==
  /\ Overrun(i)
  /\ proc' = [proc EXCEPT ![i] = "killed"]
  /\ \E h \in BOOLEAN : held' = [held EXCEPT ![i] = h]
  /\ answer' = [answer EXCEPT ![i] = IF cancel THEN "cancelled" ELSE "timeout"]
  /\ Goes(i, "drain")
  /\ UNCHANGED <<mainVars, clock, orphans, answerVars>>

\* Best effort: the root is not reached either, and that is passed over.
KillMisses(i) ==
  /\ Overrun(i) /\ Fault
  /\ answer' = [answer EXCEPT ![i] = IF cancel THEN "cancelled" ELSE "timeout"]
  /\ Goes(i, "drain")
  /\ UNCHANGED <<mainVars, procVars, rows, coordinator>> /\ Ongoing

\* The termination raises, before or after it has killed: the monitor is
\* stopped, and nothing waits for the process.
KillRaises(i) ==
  /\ Overrun(i)
  /\ Abandons(i)
  /\ \E p \in {"alive", "killed"} : proc' = [proc EXCEPT ![i] = p]
  /\ UNCHANGED <<mainVars, held, clock, rows, coordinator>> /\ Ongoing

\* communicate returns once the process is gone and its pipes are closed.
Gone(i) == proc[i] # "alive" /\ ~held[i]

\* The wait after the kill has no limit; reading the files may raise.
Drains(i) ==
  /\ task[i] = "drain" /\ Gone(i)
  /\ \E status \in {answer[i], "error"} : Returns(i, status)
  /\ UNCHANGED <<mainVars, procVars, answerVars>>

\* The wait after the kill is for a process that the kill has missed.
Missed(i) == task[i] = "drain" /\ proc[i] = "alive"

\* The process ended by itself: its files say how, or reading them raises.
Concludes(i) ==
  /\ task[i] = "watch" /\ Gone(i)
  /\ \E status \in {"done", "error"} : Returns(i, status)
  /\ UNCHANGED <<mainVars, procVars, answerVars>>

-----------------------------------------------------------------------------
(* The workflow.                                                            *)

Exits(i) ==
  /\ proc[i] = "alive"
  /\ proc' = [proc EXCEPT ![i] = "exited"]
  /\ UNCHANGED <<held, clock, orphans, mainVars, taskVars, answerVars>>

\* The last descendant that has the pipes closes them.
PipesClose(i) ==
  /\ held[i] /\ proc[i] # "alive"
  /\ held' = [held EXCEPT ![i] = FALSE]
  /\ UNCHANGED <<proc, clock, orphans, mainVars, taskVars, answerVars>>

TimePasses(i) ==
  /\ clock[i] = "running" /\ task[i] = "watch"
  /\ clock' = [clock EXCEPT ![i] = "over"]
  /\ UNCHANGED <<proc, held, orphans, mainVars, taskVars, answerVars>>

-----------------------------------------------------------------------------
LocalInit ==
  /\ main = "idle" /\ workers = 1 /\ timed = FALSE /\ template = "none"
  /\ task = [i \in Candidates |-> "queued"]
  /\ answer = [i \in Candidates |-> NoRow]
  /\ proc = [i \in Candidates |-> "none"]
  /\ held = [i \in Candidates |-> FALSE]
  /\ clock = [i \in Candidates |-> "off"]
  /\ orphans = {}

Init == AnswersInit /\ LocalInit

Main ==
  \/ Begin \/ Freezes \/ Unwinds \/ Finish
  \/ \E i \in Candidates : Accepts(i) \/ AcceptRaises(i)

Task(i) ==
  \/ TakesUp(i) \/ Prepares(i) \/ StartCancelled(i) \/ Starts(i)
  \/ Kills(i) \/ Drains(i) \/ Concludes(i)

Raises(i) ==
  StartFails(i) \/ MonitorFails(i) \/ KillMisses(i) \/ KillRaises(i)

Next ==
  \/ Main
  \/ CancelRequested /\ UNCHANGED localVars
  \/ \E i \in Candidates :
       \/ Task(i) \/ Raises(i)
       \/ Exits(i) \/ PipesClose(i) \/ TimePasses(i)

-----------------------------------------------------------------------------
TypeOK ==
  /\ AnswersTypeOK
  /\ main \in {"idle", "freeze", "collect", "unwind", "over"}
  /\ workers \in 1..MaxWorkers /\ timed \in BOOLEAN
  /\ template \in {"none", "frozen", "error"}
  /\ task \in [Candidates -> {"queued", "prepare", "run", "watch", "drain",
                              "answered", "taken"}]
  /\ answer \in [Candidates -> RowStates \cup {NoRow}]
  /\ proc \in [Candidates -> {"none", "alive", "exited", "killed"}]
  /\ held \in [Candidates -> BOOLEAN]
  /\ clock \in [Candidates -> {"off", "running", "over"}]
  /\ orphans \subseteq Candidates
  /\ \A i \in Candidates : Settled(i) => answer[i] # NoRow
  /\ Cardinality({i \in Candidates : InThread(i)}) <= workers

\* Whichever way the batch ends, no thread of it is at work; and no workflow
\* process of it runs on, nor a descendant that holds its pipes, but where the
\* monitor could not be started or the termination raised: that candidate is
\* answered "error".
NothingRunsOn ==
  outcome \in {"returned", "failed"} => \A i \in Candidates :
    /\ ~InThread(i)
    /\ proc[i] = "alive" \/ held[i] => i \in orphans /\ answer[i] = "error"

\* A cancelled batch that is over has no workflow process left.  The documents
\* say so; a monitor that cannot be started breaks it.
CancelledIsKilled ==
  cancel /\ outcome \in {"returned", "failed"} =>
    \A i \in Candidates : proc[i] # "alive"

=============================================================================
