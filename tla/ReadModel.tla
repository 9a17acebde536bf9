----------------------------- MODULE ReadModel -----------------------------
(***************************************************************************)
(* The single writer: POST /api/ingest appends each event it accepts to    *)
(* the events table and folds it into the projections, in one transaction. *)
(* Its properties define every projected value anew from the whole events  *)
(* table and compare.  Events arrive in any order and any number, as they  *)
(* do when posts are lost, late or repeated by a second run of a job; of   *)
(* the shapes an event may have, Event keeps those the pipeline sends.     *)
(***************************************************************************)
EXTENDS Projection, Sequences, FiniteSetsExt

CONSTANTS
  Task, Sub,  \* ids
  Day,        \* calendar days
  MaxEvents   \* bound on the events table

ASSUME ReadModelAssumption == None \notin Task \cup Sub

VARIABLES
  events,     \* the events table
  model       \* the projections

vars == <<events, model>>

Shape(kind, sub, status, message, cost, t, d) ==
  [kind |-> kind, task |-> t, sub |-> sub, status |-> status, message |-> message,
   cost |-> cost, day |-> d]

\* What the orchestrator, the sentinel and the reviewer send.
EventsOf(t, d) ==
  {Shape("task_created", None, st, None, 0, t, d) : st \in {"queued", "awaiting_approval"}}
  \cup {Shape("status_changed", None, st, None, 0, t, d) : st \in {"running", "done", "failed"}}
  \cup {Shape("token_usage", None, None, None, 1, t, d)}
  \cup UNION {
    {Shape("subtask_updated", s, "done", None, 0, t, d),
     Shape("status_changed", s, "blocked", Text, 0, t, d),
     Shape("tool_call_end", s, None, None, 1, t, d),
     Shape("error", s, None, Text, 0, t, d),
     Shape("escalation", s, None, Blank, 0, t, d)} : s \in Sub}

Event == UNION {EventsOf(t, d) : t \in Task, d \in Day}

Init == events = <<>> /\ model = EmptyModel

\* 201: the transaction commits.
Ingest(ev) ==
  /\ Accepts(ev)
  /\ events' = Append(events, ev)
  /\ model' = ApplyEvent(model, ev)

\* 400: nothing is written.
Refuse(ev) ==
  /\ ~ Accepts(ev)
  /\ UNCHANGED vars

Next == Len(events) < MaxEvents /\ \E ev \in Event : Ingest(ev) \/ Refuse(ev)

Spec == Init /\ [][Next]_vars
----------------------------------------------------------------------------
At == 1..Len(events)
CostOf(I) == SumFunction([i \in I |-> events[i].cost])

OfTask(t) == {i \in At : events[i].task = t}
OfSub(s) == {i \in At : events[i].sub = s}
OfDay(d) == {i \in At : events[i].day = d}
WithStatus(I) == {i \in I : events[i].status # None}
TaskLevel(I) == {i \in I : events[i].sub = None}

\* The status that some events of a task leave it with: that of the last
\* task-level one with a status, or of the first of all if there is none.
Standing(I) ==
  LET heard == WithStatus(TaskLevel(I))
  IN  events[IF heard # {} THEN Max(heard) ELSE Min(I)].status

TypeOK ==
  /\ \A i \in At : events[i] \in Event /\ events[i].message # Blank
  /\ DOMAIN model.tasks \subseteq Task
  /\ DOMAIN model.subtasks \subseteq Sub
  /\ DOMAIN model.daily \subseteq Day

\* A task has a row as soon as anything was heard of it, and its status is
\* what the last task-level event said; only until there is one, it is what
\* the event that made the row said - which may be a sub-task's.
TaskStatusIsLast ==
  /\ DOMAIN model.tasks = {t \in Task : OfTask(t) # {}}
  /\ \A t \in DOMAIN model.tasks : model.tasks[t].status = Standing(OfTask(t))

\* "task title/metadata/status/agent are taken only from task-level events": a
\* card shows no status that none of them carried.
StatusIsTaskLevel ==
  \A t \in DOMAIN model.tasks :
    model.tasks[t].status # None =>
      \E i \in TaskLevel(OfTask(t)) : events[i].status = model.tasks[t].status

\* A sub-task's status is the last one sent for it.
SubtaskStatusIsLast ==
  \A s \in DOMAIN model.subtasks :
    LET heard == WithStatus(OfSub(s))
    IN  model.subtasks[s] = IF heard = {} THEN None ELSE events[Max(heard)].status

\* No cost is counted twice or dropped: what the cost guard reads, and what
\* the cards show, are sums over the events table.
CostConserved ==
  /\ \A t \in DOMAIN model.tasks : model.tasks[t].cost = CostOf(OfTask(t))
  /\ \A d \in DOMAIN model.daily : model.daily[d].cost = CostOf(OfDay(d))
  /\ \A d \in Day : CostOf(OfDay(d)) > 0 => d \in DOMAIN model.daily

\* What the task of the i-th event was before that event.
Before(i) ==
  LET earlier == {j \in OfTask(events[i].task) : j < i}
  IN  IF earlier = {} THEN None ELSE Standing(earlier)

\* The task-level events that took their task out of an open status into this one.
Settling(status) == {i \in TaskLevel(At) : events[i].status = status /\ Before(i) \notin TerminalStatus}

\* The counters of a day are the numbers of events of that day which settled a
\* task: one that says again what is settled adds nothing, one that settles what
\* was reopened adds one - and so a task that a sub-task's event made "done"
\* adds nothing until it is reopened.
CountedOnce ==
  /\ DOMAIN model.daily = {d \in Day : OfDay(d) # {}}
  /\ \A d \in DOMAIN model.daily :
       /\ model.daily[d].done = Cardinality(OfDay(d) \cap Settling("done"))
       /\ model.daily[d].failed = Cardinality(OfDay(d) \cap Settling("failed"))
============================================================================
