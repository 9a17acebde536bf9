--------------------------- MODULE PlanExecution ---------------------------
(***************************************************************************)
(* What the execution of one planned job promises, without threads,        *)
(* batches, futures or retries: sub-tasks of a dependency graph run at     *)
(* most `workers' at a time, each one only after everything it depends on  *)
(* has succeeded; nothing new begins once one has failed; and the verdict  *)
(* is given when nothing runs any more.  SubtaskPool implements it.        *)
(***************************************************************************)
EXTENDS Integers, FiniteSets

CONSTANT Subtask        \* the sub-tasks of the plan

VARIABLES
  deps,     \* deps[s]: the sub-tasks s depends on
  workers,  \* how many sub-tasks may run at a time
  state,    \* state[s]: "waiting", "running", "succeeded" or "failed"
  verdict   \* "open", then "done" or "blocked"

planVars == <<deps, workers, state, verdict>>

In(st) == {s \in Subtask : state[s] = st}

PlanInit ==
  /\ deps \in [Subtask -> SUBSET Subtask]
  /\ workers \in Nat \ {0}
  /\ state = [s \in Subtask |-> "waiting"]
  /\ verdict = "open"

\* A set of sub-tasks begins, all of them at once.
Begin(B) ==
  /\ verdict = "open"
  /\ B \subseteq In("waiting")
  /\ In("failed") = {}
  /\ \A s \in B : deps[s] \subseteq In("succeeded")
  /\ Cardinality(In("running") \cup B) <= workers
  /\ state' = [s \in Subtask |-> IF s \in B THEN "running" ELSE state[s]]
  /\ UNCHANGED <<deps, workers, verdict>>

\* A running sub-task ends, one way or the other.
End(s, how) ==
  /\ state[s] = "running"
  /\ state' = [state EXCEPT ![s] = how]
  /\ UNCHANGED <<deps, workers, verdict>>

\* The verdict: every sub-task succeeded, or one failed and none runs on.
Settle ==
  /\ verdict = "open"
  /\ \/ In("succeeded") = Subtask /\ verdict' = "done"
     \/ In("failed") # {} /\ In("running") = {} /\ verdict' = "blocked"
  /\ UNCHANGED <<deps, workers, state>>

PlanNext ==
  \/ \E B \in (SUBSET Subtask) \ {{}} : Begin(B)
  \/ \E s \in Subtask, how \in {"succeeded", "failed"} : End(s, how)
  \/ Settle

PlanSafeSpec == PlanInit /\ [][PlanNext]_planVars

\* Something keeps happening until nothing can.
PlanSpec == PlanSafeSpec /\ WF_planVars(PlanNext)
============================================================================
