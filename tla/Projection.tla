----------------------------- MODULE Projection ----------------------------
(***************************************************************************)
(* The dashboard's projection: what /api/ingest makes of one event.        *)
(* validateIngest accepts or refuses it; applyEvent folds it into the      *)
(* tables tasks, subtasks and metrics_daily, which are one value here: the *)
(* read model.  A table is a function on the keys it has a row for.        *)
(*                                                                         *)
(* An event is a record of kind, task, sub, status, message, cost and day. *)
(* A message is None, Blank (it has no characters but spaces) or Text.     *)
(* Titles, agents and the other columns that nothing reads back are left   *)
(* out, and so are the token counts, which are summed exactly as the cost. *)
(***************************************************************************)
EXTENDS Integers

CONSTANT None  \* SQL's NULL, an absent field

Text == "text"
Blank == "blank"

Statuses ==
  {"queued", "planning", "running", "review", "blocked", "done", "failed", "cancelled", "awaiting_approval"}

ASSUME NoneAssumption == None \notin Statuses \cup {Text, Blank}

RequiresTaskId ==
  {"task_created", "task_updated", "subtask_created", "subtask_updated", "agent_assigned",
   "tool_call_start", "tool_call_end", "status_changed", "error", "escalation"}
RequiresSubtaskId == {"subtask_created", "subtask_updated"}

AcceptsBlank(ev) ==  \* mutant: an empty message passes
  /\ ev.kind \in RequiresTaskId => ev.task # None
  /\ ev.kind \in RequiresSubtaskId => ev.sub # None

\* validateIngest on an event whose fields are of the right types.
Accepts(ev) ==
  /\ ev.message # Blank
  /\ ev.kind \in RequiresTaskId => ev.task # None
  /\ ev.kind \in RequiresSubtaskId => ev.sub # None

TerminalStatus == {"done", "failed", "cancelled"}

IsTaskLevel(ev) == ev.sub = None
Or(value, default) == IF value = None THEN default ELSE value

\* INSERT or UPDATE of the row with key k.
Put(table, k, row) == [x \in DOMAIN table \cup {k} |-> IF x = k THEN row ELSE table[x]]

EmptyModel ==
  [tasks |-> [t \in {} |-> None], subtasks |-> [s \in {} |-> None], daily |-> [d \in {} |-> None]]
----------------------------------------------------------------------------
\* projectTask.  Whatever event comes first makes the row, with its status.
ThriftyRow(ev) == [status |-> ev.status, cost |-> 0, error |-> None]  \* mutant
NewRow(ev) == [status |-> ev.status, cost |-> ev.cost, error |-> None]

LeakyStatus(row, ev) == Or(ev.status, row.status)  \* mutant: a sub-task's status counts
NextStatus(row, ev) == IF IsTaskLevel(ev) THEN Or(ev.status, row.status) ELSE row.status

NextError(row, ev) == IF ev.kind = "error" THEN Or(ev.message, row.error) ELSE row.error

ProjectTask(tasks, ev) ==
  IF ev.task = None THEN tasks
  ELSE IF ev.task \notin DOMAIN tasks THEN Put(tasks, ev.task, NewRow(ev))
  ELSE LET row == tasks[ev.task]
       IN  Put(tasks, ev.task, [status |-> NextStatus(row, ev),
                                cost |-> row.cost + ev.cost,
                                error |-> NextError(row, ev)])

\* projectSubtask: a new row, or COALESCE(new, old).
NoCoalesce(subtasks, ev) ==  \* mutant: an event without a status clears it
  IF ev.sub = None \/ ev.task = None THEN subtasks ELSE Put(subtasks, ev.sub, ev.status)

ProjectSubtask(subtasks, ev) ==
  IF ev.sub = None \/ ev.task = None THEN subtasks
  ELSE IF ev.sub \notin DOMAIN subtasks THEN Put(subtasks, ev.sub, ev.status)
  ELSE Put(subtasks, ev.sub, Or(ev.status, subtasks[ev.sub]))

\* bumpDaily.
BumpDaily(daily, ev, done, failed) ==
  LET row == IF ev.day \in DOMAIN daily THEN daily[ev.day] ELSE [cost |-> 0, done |-> 0, failed |-> 0]
  IN  Put(daily, ev.day,
          [cost |-> row.cost + ev.cost, done |-> row.done + done, failed |-> row.failed + failed])

\* A task-level event that takes the task into a terminal status.
AlwaysSettles(tasks, ev) ==  \* mutant: what the task was before is not looked at
  ev.task # None /\ IsTaskLevel(ev) /\ ev.status \in TerminalStatus

Settles(tasks, ev) ==
  /\ ev.task # None /\ IsTaskLevel(ev)
  /\ ev.status \in TerminalStatus
  /\ ev.task \in DOMAIN tasks => tasks[ev.task].status \notin TerminalStatus

\* applyEvent, without the append to the events table.
ApplyEvent(rm, ev) ==
  LET count(status) == IF Settles(rm.tasks, ev) /\ ev.status = status THEN 1 ELSE 0
  IN  [tasks |-> ProjectTask(rm.tasks, ev),
       subtasks |-> ProjectSubtask(rm.subtasks, ev),
       daily |-> BumpDaily(rm.daily, ev, count("done"), count("failed"))]
============================================================================
