---------------------------- MODULE SubtaskPool ----------------------------
(***************************************************************************)
(* How the orchestrator runs the sub-tasks of one job: the scheduling loop *)
(* of Orchestrator._run_subtasks in the cycle's thread, and one pool       *)
(* thread per submitted sub-task running _run_one under Sentinel.guard,    *)
(* that is under run_with_retry.  Telemetry, the run log and the working   *)
(* directory are left out here; a model call ends in one of the ways the   *)
(* code tells apart: a result, or an error of any kind.                    *)
(***************************************************************************)
EXTENDS Integers, FiniteSets

CONSTANTS
  NumSubtasks,  \* sub-tasks in the plan
  MaxAttempts,  \* RetryPolicy.max_attempts
  MaxWorkers    \* bound on the worker count the pool is created with

ASSUME PoolAssumption ==
  /\ NumSubtasks \in Nat \ {0}     \* validate_dag refuses an empty plan
  /\ MaxAttempts \in Nat \ {0}     \* RetryPolicy.__post_init__
  /\ MaxWorkers \in Nat \ {0}      \* _worker_count never returns less than 1

\* A sub-task is named by its position in plan.subtasks.
Subtask == 1..NumSubtasks

VARIABLES
  deps,     \* the plan's graph: deps[s] is what s depends on
  workers,  \* max_workers of the ThreadPoolExecutor
  main,     \* where _run_subtasks stands
  batch,    \* submitted futures whose result is not collected yet
  done,     \* the loop's `done' set
  thread,   \* thread[s]: where the pool thread of s stands
  attempt   \* attempt[s]: number of the last attempt begun

vars == <<deps, workers, main, batch, done, thread, attempt>>

MainState == {"schedule", "collect", "unwind", "done", "blocked"}

\* none: not submitted; queued: submitted; trying: in the retry loop, before
\* or between attempts; calling: executor.run is under way; passed: guard
\* returned; exhausted: RetryExhausted caught by guard, to be escalated;
\* ok and raised: the future is resolved.
ThreadState == {"none", "queued", "trying", "calling", "passed", "exhausted", "ok", "raised"}

Idle == {"none", "ok", "raised"}
Active == {s \in Subtask : thread[s] \notin Idle}
Raised == {s \in Subtask : thread[s] = "raised"}

\* What validate_dag accepts: at most two levels, hence no cycle.
AnyGraph(g) == TRUE  \* mutant: validate_dag is not called
ValidGraph(g) == \A s \in Subtask : \A d \in g[s] : g[d] = {}

Init ==
  /\ deps \in {g \in [Subtask -> SUBSET Subtask] : ValidGraph(g)}
  /\ workers \in 1..MaxWorkers
  /\ main = "schedule"
  /\ batch = {}
  /\ done = {}
  /\ thread = [s \in Subtask |-> "none"]
  /\ attempt = [s \in Subtask |-> 0]
----------------------------------------------------------------------------
(* The scheduling loop.                                                    *)

AnyOrder == Subtask \ done  \* mutant: depends_on is not consulted
Ready == {s \in Subtask \ done : deps[s] \subseteq done}

Smaller(a, b) == IF a < b THEN a ELSE b

\* ready[:workers]: the first `workers' of the ready sub-tasks, in plan order.
WholeReady(B) == B = Ready  \* mutant: the slice is dropped

IsBatch(B) ==
  /\ B \subseteq Ready
  /\ Cardinality(B) = Smaller(workers, Cardinality(Ready))
  /\ \A s \in B : \A t \in Ready \ B : s < t

Schedule ==
  /\ main = "schedule"
  /\ done # Subtask
  /\ \E B \in SUBSET Ready :
       /\ IsBatch(B)
       /\ batch' = B
       /\ thread' = [s \in Subtask |-> IF s \in B THEN "queued" ELSE thread[s]]
       /\ main' = IF B = {} THEN "schedule" ELSE "collect"
  /\ UNCHANGED <<deps, workers, done, attempt>>

ReturnResults ==
  /\ main = "schedule"
  /\ done = Subtask
  /\ main' = "done"
  /\ UNCHANGED <<deps, workers, batch, done, thread, attempt>>

\* fut.result() on the futures in submission order.
FirstPending(s) == s \in batch /\ \A t \in batch : s <= t

CollectEager(s) ==  \* mutant: a new batch is formed after the first result
  /\ main = "collect"
  /\ FirstPending(s)
  /\ thread[s] = "ok"
  /\ done' = done \cup {s}
  /\ batch' = batch \ {s}
  /\ main' = "schedule"
  /\ UNCHANGED <<deps, workers, thread, attempt>>

CollectResult(s) ==
  /\ main = "collect"
  /\ FirstPending(s)
  /\ thread[s] = "ok"
  /\ done' = done \cup {s}
  /\ batch' = batch \ {s}
  /\ main' = IF batch' = {} THEN "schedule" ELSE "collect"
  /\ UNCHANGED <<deps, workers, thread, attempt>>

\* fut.result() raises: the exception leaves the loop and the `with' block.
CollectSkip(s) ==  \* mutant: the exception is swallowed
  /\ main = "collect"
  /\ FirstPending(s)
  /\ thread[s] = "raised"
  /\ batch' = batch \ {s}
  /\ main' = IF batch' = {} THEN "schedule" ELSE "collect"
  /\ UNCHANGED <<deps, workers, done, thread, attempt>>

CollectRaise(s) ==
  /\ main = "collect"
  /\ FirstPending(s)
  /\ thread[s] = "raised"
  /\ main' = "unwind"
  /\ UNCHANGED <<deps, workers, batch, done, thread, attempt>>

\* Leaving the `with' block joins the pool's threads; process_job then
\* returns "blocked".
UnwindAtOnce ==  \* mutant: the pool is shut down without waiting
  /\ main = "unwind"
  /\ main' = "blocked"
  /\ UNCHANGED <<deps, workers, batch, done, thread, attempt>>

Unwind ==
  /\ main = "unwind"
  /\ Active = {}
  /\ main' = "blocked"
  /\ UNCHANGED <<deps, workers, batch, done, thread, attempt>>
----------------------------------------------------------------------------
(* The pool thread of one sub-task.                                        *)

Move(s, from, to) ==
  /\ thread[s] = from
  /\ thread' = [thread EXCEPT ![s] = to]
  /\ UNCHANGED <<deps, workers, main, batch, done>>

\* _run_one begins and announces itself.
Start(s) == Move(s, "queued", "trying") /\ UNCHANGED attempt

\* The next round of run_with_retry, after its back-off, up to executor.run.
AttemptUncounted(s) == Move(s, "trying", "calling") /\ UNCHANGED attempt  \* mutant

Attempt(s) ==
  /\ Move(s, "trying", "calling")
  /\ attempt' = [attempt EXCEPT ![s] = @ + 1]

CallSucceeds(s) == Move(s, "calling", "passed") /\ UNCHANGED attempt

\* executor.run raises or returns not ok: on_error, then another round of
\* run_with_retry or RetryExhausted.
CallFailsOneMore(s) ==  \* mutant: the loop's bound is off by one
  /\ Move(s, "calling", IF attempt[s] <= MaxAttempts THEN "trying" ELSE "exhausted")
  /\ UNCHANGED attempt

CallFails(s) ==
  /\ Move(s, "calling", IF attempt[s] < MaxAttempts THEN "trying" ELSE "exhausted")
  /\ UNCHANGED attempt

\* guard's except block: blocked, escalation, notification, re-raise.
Escalate(s) == Move(s, "exhausted", "raised") /\ UNCHANGED attempt

\* Back in _run_one: log, subtask_updated done, return.
Complete(s) == Move(s, "passed", "ok") /\ UNCHANGED attempt
----------------------------------------------------------------------------
MainStep ==
  \/ Schedule
  \/ ReturnResults
  \/ \E s \in Subtask : CollectResult(s) \/ CollectRaise(s)
  \/ Unwind

ThreadStep(s) ==
  \/ Start(s)
  \/ Attempt(s)
  \/ CallSucceeds(s)
  \/ CallFails(s)
  \/ Escalate(s)
  \/ Complete(s)

Next == MainStep \/ \E s \in Subtask : ThreadStep(s)

\* Every thread keeps running: a model call returns (the executors put a
\* timeout on it) and the back-off between attempts ends.
Fairness == WF_vars(MainStep) /\ \A s \in Subtask : WF_vars(ThreadStep(s))

SafeSpec == Init /\ [][Next]_vars
Spec == SafeSpec /\ Fairness
----------------------------------------------------------------------------
TypeOK ==
  /\ deps \in [Subtask -> SUBSET Subtask] /\ ValidGraph(deps)
  /\ workers \in 1..MaxWorkers
  /\ main \in MainState
  /\ batch \in SUBSET Subtask
  /\ done \in SUBSET Subtask
  /\ thread \in [Subtask -> ThreadState]
  /\ attempt \in [Subtask -> 0..MaxAttempts]

\* A sub-task is submitted only when the thread of everything it depends on
\* has returned a result, whatever the batches were and however the threads
\* interleaved (the `ready' filter against `done').
DependenciesFirst ==
  \A s \in Subtask :
    thread[s] # "none" => \A d \in deps[s] : d \in done /\ thread[d] = "ok"

\* No more sub-tasks are under way than the pool was given workers, also
\* across the border between two batches (ready[:workers], and a batch is
\* collected to the end before the next is formed).
ParallelBound == Cardinality(Active) <= workers

\* The `while' loop never spins on an empty batch: as long as something is
\* left to do and nothing failed, something is ready.
NeverSpins == main = "schedule" /\ done # Subtask => Ready # {}

\* process_job goes on to the review only with every sub-task's result in
\* hand, and reports "blocked" only after a sub-task really used up its
\* attempts and when no thread of the job still writes to its working
\* directory.
OutcomeIsHonest ==
  /\ main = "done" => \A s \in Subtask : thread[s] = "ok"
  /\ main = "blocked" =>
       /\ Active = {}
       /\ \E s \in Subtask : thread[s] = "raised" /\ attempt[s] = MaxAttempts

\* Once a sub-task is given up, its siblings of the same batch run on, but
\* nothing that was not submitted yet ever begins.
NoStartAfterGivingUp ==
  [][Raised # {} => \A s \in Subtask : thread[s] \in Idle => thread'[s] = thread[s]]_vars

\* Every valid plan ends, done or blocked.
Terminates == <>(main \in {"done", "blocked"})

\* The pool implements the batch-free, thread-free account of it.
PlanState(t) ==
  IF t = "none" THEN "waiting" ELSE
  IF t = "ok" THEN "succeeded" ELSE
  IF t = "raised" THEN "failed" ELSE "running"

Plan == INSTANCE PlanExecution WITH
  state <- [s \in Subtask |-> PlanState(thread[s])],
  verdict <- IF main \in {"done", "blocked"} THEN main ELSE "open"

ImplementsPlan == Plan!PlanSpec
============================================================================
