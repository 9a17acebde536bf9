# Die Firma in TLA+

Die Firma takes jobs from a directory, has local models or Claude Code work on
them, and shows the progress on a local dashboard. Two programs share the file
system and one HTTP endpoint: the orchestrator
(`services/orchestrator/die_firma`, Python) and the dashboard
(`apps/dashboard`, Astro and SQLite). This directory models the parts whose
correctness depends on the order of events: threads, processes that die,
registries rewritten in place, telemetry that gets lost, fetches answered out
of order.

## 1. Inventory

| Component | State it keeps | Operations | Interacts with | Hard because | Correct when |
|---|---|---|---|---|---|
| Sub-task pool: `orchestrator.py` `_run_subtasks`, `_run_one`; `retry.py`; `sentinel.py`; `dag.py` | `done`, the batch's futures, pool threads, attempt counters | form a batch, collect, unwind; start, attempt, succeed, fail, escalate, complete | executor, telemetry, job processing | threads of a batch run on while one is given up | dependencies first, bounded, honest verdict, ends |
| Job processing: `process_job`, `cost.py`, `reviewer.py`, `delivery.py`, `_quality_gate` | working directory, outbox, branch | cost guard, gate, plan, execute, review, refine, deliver | pool, telemetry, registries | deaths between any two steps, decisions on stale reads | gate respected, spend bounded, only what passed is delivered |
| Inbox cycle and registries: `cli.py`, `watcher.py`, `lib/jobs.ts`, `lib/approvals.ts` | `inbox/`, `processed.json`, `approved.json` | submit, approve, scan, process, mark, reset | operators, job processing | files rewritten in place by several processes | every waiting job is settled, settled ones are not run again |
| Watch loop: `watch.py` | observer thread, polling | initial pass, events, safety re-scan, degrade | the cycle, on two threads | cycles overlap, threads end silently | it keeps processing |
| Telemetry: `ingest_client.py`, every `emit` | none | post one event, read the spend | pool and job threads, dashboard | posts lost, late, refused | the pipeline never waits, the board never runs ahead |
| Read model: `validate.ts`, `project.ts`, `pages/api/ingest.ts` | `events`, `tasks`, `subtasks`, `metrics_daily` | ingest | every producer | any interleaving of producers | each projection is a function of the log |
| Executors, router, fallback, `ollama_client.py` | working directory, token counts | read the context, ask, stream, fall back, write | pool, cache | failure in mid-stream, shared directory | tokens posted once, the result names its model, a step sees what it builds on |
| Result cache: `cache.py` | one directory per key, one temporary directory per key | get, put, file by file | parallel sub-tasks | two puts in one directory, a death between two operations | a hit is one complete put of the same inputs |
| Quality gate: `quality.py`, `_quality_gate` | passes, files as read, findings | critique, visual critique, refine, rewrite | working directory, models | writes after the verification, truncated reads, swallowed exceptions | what is delivered is what was judged last |
| Scheduling: `scheduling.py` | none | worker count, job order | pool, cycle | boundaries | within its bounds, a total order |
| Dispatcher, plugins, `models.py` | registry of plugins | plan, validate | job processing | a plugin that raises | its failure stops no other job (it does: section 3) |
| Limiter: `guard.ts` | token bucket | take | ingest | a clock that is set back | no more than a full bucket plus the refill of the time that went by |
| Event stream: `bus.ts`, `stream.ts` | listeners | publish, subscribe, tear down | ingest, pages | reconnection, what is under way is lost | a page with an open stream hears what is published |
| Board page: `index.astro` | lists shown, fetches under way, polling timer | refresh, poll, listen | stream, read queries | answers out of order, two sources of "error" | up to date when quiet, one poller |
| Retrieval and chat: `rag.ts`, `chat.ts` | file cache | index, search | outbox, model server | stale or failed embeddings | cache follows the files |
| Migrations: `migrate.ts` | `user_version` | apply | database | death between two | each applied once |
| Queries, i18n, markdown, zip, secrets, configuration, run log, notification, hooks, launcher | none, or files | render, read, format | | no | not modelled |

`PROJECT.json` lists every component with its status, every hazard at its line
with the properties that watch it, and for every definition the lines it
stands for.

## 2. Modules

    PlanExecution     what running a plan promises            (abstract)
    SubtaskPool       _run_subtasks, _run_one, guard, retry   implements PlanExecution
    JobCycle          inbox cycle, process_job, registries, watch loop, crashes
    StateFiles        approved.json, processed.json under all their writers
    ResultCache       the cache's directories, one file operation at a time
    QualityGate       critique, refine and rewrite
    Workshop          SubtaskPool + OllamaExecutor.run + ResultCache + QualityGate
    Projection        validateIngest and applyEvent as operators
    ReadModel         the single writer: log and projections  (uses Projection)
    Telemetry         SubtaskPool + process_job's events + network + Projection
    TokenBucket       the limiter and the clock
    LiveBoard         TokenBucket + ingest + bus + stream + one page
    SubtaskPoolProofs, JobCycleProofs, OneCycleProofs, StateFilesProofs,
    WorkshopProofs, TelemetryProofs, ReadModelProofs, LiveBoardProofs: theorems
    MC...             instances for TLC

**SubtaskPool.** `main` is the program counter of `_run_subtasks`, `batch` its
uncollected futures, `done` its set, `thread[s]` the pool thread of a sub-task
(`ok` and `raised` are resolved futures), `attempt[s]` the retry loop's
counter. `CollectRaise` is `fut.result()` raising; `Unwind` is the exit of the
`with` block, which joins the threads, and the `except RetryExhausted` of
`process_job`. A model call ends in a result or an error, whatever the
executor is; back-off is a pause. The graph is any that `validate_dag`
accepts, the worker count any `_worker_count` may return.

**PlanExecution.** Sub-tasks wait, run, succeed or fail; no batches, futures,
threads or retries. `SubtaskPool!ImplementsPlan` maps `thread` to `state` and
`main` to `verdict`.

**JobCycle.** One action per step of `_process_inbox_once` and `process_job`
between which the process can die or another thread can act. `seen` and `appr`
are the registries as the cycle loaded them; `MarkTruncate` and `MarkWrite` are
the two halves of `write_text`, and a file caught between them loads as the
empty set, as `JSONDecodeError` does in the code. `work`, `outbox` and `head`
hold content that either passes the verify command or does not. `Execute` is
the whole pool run. `shown` is what telemetry reported of the real `spent`; a
failed metrics read counts as 0 (`today_spend_usd`). The limit is positive: a
limit of 0 or less, which `evaluate` takes as none (`cost.py:30-31`), leaves
nothing to guard. `watch` and the places
`gone` and `join` are `watch_inbox`: the observer starts after the initial
pass, an exception in its thread ends it, one in the main thread makes
`watch_inbox` fall back to polling, and there the next one ends the process;
systemd restarts it. Operators approve jobs they see in the inbox. `setup` is
the installation, chosen at the start: whether `watchdog` can be imported (if
not, one thread polls), and, with the bounds of the instance, what the task
plugin of each job does: a sound one plans and judges, one that
`misplans` raises in `decompose` or returns a plan `validate_dag` refuses
(`PlanRaises`), one that `misjudges` raises in `validate` once the verify
command has passed (`ValidationRaises`). Nothing in `process_job` catches
either.

**StateFiles.** What `JobCycle` does in one step or two, in as many as the
files see: `read_text`, the truncation by `open("w")`, the write, and, from
`reset`, the removals between which everybody else may act. A file is its ids
or is malformed; ids are of one length, so a shorter text written over a longer
one leaves a tail, and the file then loads as empty (`watcher.py:90` and
`approvals.ts:44` put different blanks between the ids; that a tail may be left
by as many ids too matters only to writes that meet, which are `risky` anyway).
`removed` is a writer whose open file was unlinked under it. `approveJob` of
the dashboard and `ApprovalRegistry.approve` make the same file operations, so
they are instances of one writer, interchangeable under symmetry. A cycle is
cut down to reading both registries, two writes to a working directory, the
copy and the mark.

**ResultCache, QualityGate, Workshop.** `run[s]` is the inside of
`OllamaExecutor.run` for one sub-task: `at` is its program counter, `key` the
cache key (the model and the context it read), `asked` the model being asked,
`files` and `left` the files of the loop it is in. A file's content is who
wrote it, in which attempt and with which model, which is all the properties
tell apart. `made` counts the tokens the models asked in an attempt produced,
`since` those streamed and not yet posted, `emitted` those posted; `tout` is
what the answer counts, 0 when the stream ends without the line that counts
them. `Pool == INSTANCE SubtaskPool` supplies batches, threads and retries:
`Attempt`, `Judge` and `Raises` are joint steps with `Pool!Attempt`,
`Pool!CallSucceeds` and `Pool!CallFails`. `get` reads `meta.json`, then one
artifact after another; `put` clears its temporary directory, stores the
artifacts, stores `meta.json`, removes the old entry (file by file, `Erode`)
and renames. Both temporary and final directory are shared by everybody with
the same key. An `OSError` of any step abandons the put. `gate` is the loop of
`_quality_gate`; a critique is its verdict and whether it has findings, and
`Produced` cuts files longer than `produced_files` reads. An exception ends it,
and where a write raises, the file is cut (`SwallowWrite`): `write_text`
truncates first. `Setups` are the configurations: fallback, offline
placeholder, cache, gate, and which bounds an instance has.

**Projection, ReadModel.** `ApplyEvent` is `applyEvent` without the insert into
`events`; `ReadModel` is the transaction around it. A table is a function on
the keys that have a row. Titles, agents and tokens are left out: tokens are
summed exactly as the cost, titles and agents follow the rule of the status.

**Telemetry.** The job thread and each pool thread have a list `out[t]` of what
they still have to post; a thread does nothing else before it is empty, since
`emit` is synchronous. A future counts as resolved only when its thread has
posted everything. `Deliver`, `Lose` and `GiveUp` are the outcomes of a post;
nothing is ever posted twice. `Review` and `Gate` post what the reviewer and the
quality gate say of the job as a whole, the `log` and `token_usage` events
without a status (`Note`) included, since such an event can be the first of the
job to arrive. Left out are the events of a sub-task that bring neither a cost
nor a status: its log, `tool_call_start`, streamed tokens.

**TokenBucket, LiveBoard.** A token is `Cost` units and one step of the clock
refills `Rate` of them, so the fractions of the code are whole numbers.
`stored` counts the events in the database; `pipe` is what was published to the
page's stream and not yet dispatched; `flying` the refreshes under way; `shown`
how many events each of the page's two lists takes into account, somewhere
between the request and the answer. `handle` is `pollTimer`, `timers` the
intervals that really run, which differ exactly if one is lost. `Break` is the
end of a connection or of an attempt at one; its handler is torn down and what
it had sent is gone, since `stream.ts` keeps no backlog. The page has two
listeners for `error`: one starts the polling, the other, registered with those
of all kinds of events, is `refresh`.

## 3. Runs

| Run | Instance | States | Shows |
|---|---|---|---|
| `subtask_pool` | 4 sub-tasks, every two-level graph, 1 to 3 workers, 2 attempts | 201 024 | dependencies, bound, no spinning, honest verdict, nothing begins after a failure, termination, refinement of `PlanExecution` |
| `job_cycle` | 2 jobs (one gated and more urgent, one `git_branch`), polled: a kill; a blind dispatch and a dearer day; a kill and a plugin that misplans; under watchdog, one job on main and handler thread, its plugin sound or misjudging | 406 441 | gate, registry, spend bound, at most one run per process, everything waiting is settled unless the queue stops for good |
| `state_files` | 2 jobs (one gated), command and dashboard with 3 approvals, a cycle, one reset, one kill | 5 486 979 | approvals are kept, marks match the outbox |
| `workshop` | 2 sub-tasks, 2 attempts, 2 workers, 2 paths, 3 configurations, one refine pass, one kill | 3918040 | whole hits, honest model, complete context, tokens, the gate |
| `live_board` | bucket of 1 token, clock to 2 with 4 steps forward, 2 messages and 2 refreshes under way, 1 failed | 567 228 | rate, freshness, one poller, catching up |
| `read_model` | 1 task with 1 sub-task, 2 days, 4 events of 20 shapes | 168 421 | each projection and counter equals its definition over the log |
| `telemetry` | 2 sub-tasks, 2 attempts, 2 workers; one outage or late post while running, one more from the review on | 688 379 | the board agrees, never runs ahead, never delays the job |
| `blocked_hidden` | 1 sub-task, dashboard always answers | | violation, see section 5 |
| `card_seeded` | 1 event | | violation |
| `git_redelivery` | a `git_branch` job and one behind it, one kill | | violation |
| `overlapping_cycles` | 1 job, main and handler thread | | violation |
| `refine_after_verify` | 1 job | | violation |

Why the bounds are enough. Four sub-tasks give a batch cut off by the worker
bound, two roots with a common dependent, and a failure beside a sibling that
runs on while a third has not begun. Two attempts separate "failed once" from
"given up". Two jobs give a job behind another; one kill suffices since every
kill forgets everything but the files, and it may come at any step, in the
middle of a registry write included. A limit of one and a cost of one make the
guard's boundary the common case. The bound `spend` of a setup limits what one
day explores, and so how many reports can be lost in a day; the setups with a
blind dispatch allow more of it, so that a day goes over the limit by that
dispatch and by reports that were lost. A plugin that raises is checked with
one job in front of another, the handler thread with one job, whose two runs
meet at every step. An outage lasts for as many posts as it likes; two of them
lose every status of the job before its review and then the one of its end
(`NeverAhead`). Four events are one more than the shortest history that settles
a task, reopens it and settles it again.

Three approvals are a first one that is acknowledged and two that overlap; one
reset meets every step of every writer. Two sub-tasks with the same action meet
at one key when they run beside each other, and write over each other's paths;
one path is longer than `produced_files` reads. Two attempts bring in the
second model, one kill leaves every partial state of a put to a later run. One
refine pass has a critique before and after it. A bucket of one token is empty
half the time, and four steps forward on a clock of three values set it back
and let the refill overlap. Two refreshes under way are enough for one to be
overtaken, two messages for one to be lost behind another.

Stopping. `subtask_pool`, `telemetry` and `workshop` end with the job,
`read_model` with the bound on the log, so deadlock is not checked there;
termination is a property of the first two. `JobCycle`, `StateFiles` and
`LiveBoard` never stop, and deadlock is checked.

Properties that may surprise:

- `SpendBound`. The limit is not a limit on the real cost. The guard is read
  before an execution, so one execution per cycling thread goes over it, one
  more for every dispatch decided on a failed read, and what telemetry lost is
  not seen at all. The bound states exactly that.
- `RunsOnce` allows a second run of a marked job after a death in the middle
  of a registry write (`forgot`): the file is then torn and loads as empty.
- `TaskStatusIsLast` and `NeverAhead`. The first event of a task makes its
  row, with its status, even when it is a sub-task's. Until a task-level event
  *with a status* arrives (`heard`) the card can show what the job is not: the
  reviewer's `log` events do not correct it, so a failed job whose statuses
  were all lost may keep the `done` of a sub-task. The two properties say how
  far this goes; that comments of the code rule it out is the finding
  `card_seeded`.
- `EscalationRecorded` covers the sub-tasks whose last error has a text. For
  the others the dashboard refuses the escalation, which is part of
  `blocked_hidden`.
- `CountedOnce` is an equation: a day's counters are the numbers of events of
  that day that took a task from an open status to a terminal one. A task whose
  row a sub-task's `done` made counts as settled, so the `done` of the task
  itself adds nothing.
- `EventuallySettled` excepts two jobs that stop the queue (`Stops`): one whose
  branch was committed by a run that was killed before its mark, the finding
  `git_redelivery`, and one that nothing holds back and whose plugin raises.
  The exception counts only if from some moment on such a job stands in the way
  for ever; a commit that is marked in the next steps, or a registry that is
  torn for the length of a rewrite, excuses nothing. It may be a job behind the
  one that waits: its executions use up the budget of each day, and an
  exception ends the cycle before anything later is looked at. The comment at
  `dispatcher.py:3-6` calls rule-based decomposition "the guaranteed fallback
  if a plugin or the LLM dispatcher fails"; the code falls back only when no
  plugin is registered (`dispatcher.py:43-46`), so the exception leaves the
  cycle and the jobs behind it wait until the plugin is repaired.
- `ApprovalsKept`. An approval can be lost: when another writer is between its
  read and its write, or dies between truncating and writing. The property says
  that nothing else loses one, and that none appears out of nothing, except
  one that was in some writer's memory when a reset removed the file.
- `MarksMatchOutbox`. A reset during a cycle can leave a mark for a job whose
  deliverable it removed; only jobs under way or in the cycle's memory at that
  time are concerned (`unsafe`).
- `HitsAreWhole` allows mixed hits while two sub-tasks are at one key (`torn`):
  `get` reads the artifacts one by one, and the two puts share a temporary
  directory. Without that overlap no death and no failure leaves anything but
  whole entries to be found. A key stays excused for good, since its mixed entry
  stays where it is: that `put` stores "atomically (write to a temp dir, then
  swap)" (`cache.py:105-106`) and that "a botched write can never poison future
  runs" (`cache.py:82-83`) hold where one sub-task at a time is at the key.
- `HonestModel` holds although the answer of the fallback model is stored under
  the key of the model that was routed to: the entry names its author, so a
  later hit does as well. The better model is then not asked again. Once two
  sub-tasks met at any key, the property says nothing of any result.
- `TokensAccounted`. What a model streamed before it failed is posted and stays
  posted; the remainder reported at the end is computed against it, so an
  attempt may post fewer tokens than the two models produced together, never
  fewer than its result counts, and never more than was produced. A stream
  that breaks off without its last line counts 0 and is a result all the same
  (`executor.py:681-689`): then what was streamed in the last second is not
  posted at all. An empty answer makes a file all the same, and
  the file stays when the attempt fails.
- `CutOnlyWithoutReply`. `refine` "returns the existing files unchanged if the
  model emits nothing parseable" (`quality.py:201`), but these are the files as
  `produced_files` read them, 20000 characters of each, and the loop writes
  them over the originals: the tail of a longer file is lost. The other way to
  lose a part of a file is a write that fails, which ends the gate.
- `JudgedAsDelivered` is about the files handed to the critique, which is shown
  the first 24000 characters of them (`quality.py:126-129`).
- `RateBounded` counts the time the clock went forward, not the time that
  passed: after a step back the same interval is refilled twice.
- `FreshWhenQuiet`. A quiet page may be stale for one of three reasons, each
  until the next message: something was published while no handler listened,
  and `onopen` does not refresh (`missed`); the newest refresh failed
  (`failed`); an older one was answered after it (`overtaken`). What is lost in
  a connection that breaks is no excuse: the refresh of its failure brings it.
  `CatchesUp` says that polling repairs all three.
- `OnePoller` lets a page poll beside an open stream: an event of the kind
  "error" reaches the listener for the stream's own errors.

## 4. Fairness

`SubtaskPool`: every thread goes on. A call returns, since the executors put a
timeout on it, and a back-off is finite. `Telemetry` adds that a post ends
within the client's timeout of ten seconds; the dashboard never has to come
back. `JobCycle`: the main thread's loop runs on, the observer's thread
finishes a cycle it began but no file system event has to reach it, systemd
restarts a dead process (`Restart=on-failure`), days pass, and among the files
being written one gets written, which is enough for finitely many. Nobody has
to submit or approve anything, and no kill has to happen. `LiveBoard`: an
interval that runs fires, a fetch is answered (a failed one counts as an answer
of its own, and failures are bounded), an attempt to connect opens or fails;
nothing says that events are posted, that a stream opens, or that it breaks.
`StateFiles`, `Workshop` and `ReadModel` state no fairness and are checked for
safety only. Weak fairness is enough everywhere: no action waits for a
condition that others can switch off again and again, except the cost guard,
and a paused day ends.

## 5. Findings

- `blocked_hidden`: `sentinel.py` posts `blocked` with a `subtask_id`, which
  the projection rightly keeps from the task row, and `process_job` returns
  without posting for the task. The card of a blocked job stays on running. If
  the last error has no text, as after an empty answer of a model, the
  dashboard refuses the escalation too, and nothing of what `sentinel.py:3-4`
  promises ("marks the task blocked, emits an escalation event (red flag in the
  dashboard)") is shown.
- `card_seeded`: "never seed task metadata from a stray sub-task event"
  (`project.ts:79-80`) and "title/metadata/status/agent are taken only from
  task-level events" (`project.ts:109`); the row's `status` and `agent` are
  nevertheless those of the first event, whatever its level
  (`project.ts:94-95`).
- `git_redelivery`: killed between the commit and the mark, a job is run again,
  its second commit is empty, `git commit` exits 1, `check=True` raises through
  the cycle; after each restart it happens again, and the jobs behind it wait.
- `overlapping_cycles`: handler thread and safety re-scan both call the cycle
  without a lock, each with its own copy of the registry.
- `refine_after_verify`: the quality gate rewrites files after the verify
  command and nothing verifies them again.

## 6. Proofs

`SubtaskPoolProofs` proves for every number of sub-tasks, attempts and workers,
from `PoolAssumption` alone (all three are positive): `TypeOK`,
`DependenciesFirst`, `ParallelBound`, `NeverSpins`, `OutcomeIsHonest`, the
action property `NoStartAfterGivingUp`, and that `SafeSpec` implies
`Plan!PlanSafeSpec`, the safety part of `ImplementsPlan`.

None of these is inductive by itself. The inductive invariant `Inv` joins
`TypeOK` with three facts about how the variables go together:

- `Bookkeeping` ties `batch`, `done` and `thread`: what is done has returned,
  what is active or raised is in the batch, a batch is within the worker bound
  and its members have everything they depend on done. `DependenciesFirst` and
  `ParallelBound` follow, and so does that nothing is submitted while a
  raised future is uncollected.
- `AttemptsOfThread` ties the counter to the thread: below the maximum while
  another attempt is possible, at the maximum once exhausted. It makes
  `TypeOK` inductive and gives the second half of `OutcomeIsHonest`.
- `Exits` says what holds where the loop has left: all done, or one raised and,
  after the join, none active.

`NeverSpins` needs the graph: of what is left, something has no dependency
left, as two levels allow no cycle. The refinement proof maps each action:
`Schedule` with a non-empty batch to `Begin`, `Complete` and `Escalate` to
`End`, `ReturnResults` and `Unwind` to `Settle`, everything else to a stutter.

`JobCycleProofs` proves `TypeOK`, `GateRespected` and `SpendBound` of
`JobCycle` for any finite set of cycling threads, any jobs, prices and limits,
from `CycleAssumption` (one thread is the main one; the limit is positive).

- `GateRespected` compares a running job with the approvals of now, the code
  with a copy from the start of the cycle. `CopyLags` closes the gap: approvals
  are never taken back, so a copy is a subset. It is the fact a `reject`
  command would break.
- `SpendBound` is not inductive: a thread between the guard and the end of its
  execution has cost still to come. `Budget` charges `MaxCost` in advance for
  each such thread (`Dispatched`), within a room of one `MaxCost` per thread
  and per blind dispatch. The guard adds a thread to `Dispatched` (below the
  limit there is room for all threads; otherwise the dispatch is blind and the
  room grows), `Execute` removes one and pays, midnight resets with every
  thread possibly in flight, and every other step is `Quiet`. `SpendBound`
  follows because what was not reported is on both sides.

`OneCycleProofs` proves `RegistryComplete`, `MarkedIsSettled` and `RunsOnce`
for any number of jobs and deaths where one thread runs all cycles
(without watchdog, which is the guard of each of the three; with two threads
`overlapping_cycles` refutes their intent). The inductive invariant
`OneInv` says what the cycle knows: outside the write the file holds what
`seen` holds (`KnowsTheFile`), the job being processed is not in it (`Fresh`),
file and `seen` hold all marks unless a death tore the file (`KeepsMarks`),
what this process began is marked or being processed (`KnowsTheBegun`), and
what is marked is settled and stays so (`Settles`), because only the job being
processed, which is not marked, has its directories rewritten. A death keeps
the file and empties the memory; a torn file loads as empty, which is why
`forgot` is the only exception.

`LiveBoardProofs` proves `RateBounded`, `OnePoller` and `FreshWhenQuiet` for
any capacity, rate, cost and bounds. `RateBounded` is an accounting argument:
tokens in the bucket, tokens taken, and the refill the next request will find
(`Rate` times the time since `last`) never exceed the capacity and the refill
of all forward time (`BucketInv`). A step back makes the due refill smaller, a
step forward adds to both sides, a request turns what is due into tokens and
cuts off what does not fit. `FreshWhenQuiet` follows from `OnItsWay`: either
one of the excuses holds, or a message is in the pipe, or the newest refresh
was begun when everything stored was stored, or no newest refresh is under way
and both lists are current. At most one refresh is the newest (`OneNewest`),
which `Finish` needs to conclude that nothing newer will be overtaken.

`TelemetryProofs` proves `NeverAhead`, `SpendNotOverstated`,
`EscalationRecorded` and `BoardAgrees`, and that `Telemetry` without its
fairness implements `SubtaskPool` without its own, for any number of sub-tasks
and attempts and any amount of `trouble`. The threads' lists make the
invariant: for each state of a thread there are a few lists it can still have
to post (`LinesInv`). No event, posted, late or to come, claims a `done` that
did not happen (`TruthInv`), which is the whole of `NeverAhead`. Each charge is
on the board, at the head of one list, or late, and each of these at most once
(`SpendInv`). `BoardAgrees` and `EscalationRecorded` say where the board is when
every list is empty; `SyncedInv` says how far behind it is until then: the row
shows the last status posted, or the list still holds the status it will show
with only notes behind it. `NeverAhead` needs that a status of the job was
heard, not just any event of it: a note leaves the row as a sub-task made it.

`StateFilesProofs` proves `ApprovalsKept` and `MarksMatchOutbox` for any finite
set of jobs and any approvers, approvals and resets. That the file has every
acknowledged approval not in `risky` (`KeptUnlessRisky`) is kept by a write
because of `AloneOrRisky`: of the writers between read and write, either one is
alone, and then its copy has them all, or everything that could be lost is
already in `risky`. `HoldsInForce` gives the other half, that no file and no
copy holds an id nobody approved. For the marks, `KnowsFile` says that the
cycle's copy has all the file has, `Progress` what each step of a job has left
on the disk for the next, and `ResetSeen` that while a reset runs everything in
its way is `unsafe`.

`WorkshopProofs` proves all seven properties of `Workshop` and `QualityGate`
for any configurations, paths, sub-tasks, attempts, workers, passes and kills.

- `DiskInv` and `ResultInv` give `BuildsOnDependencies`: a result that is there
  has its files on the disk, nothing removes a path while the job runs, and a
  sub-task that runs has dependencies that are done (`PoolInv`), so `Context`
  has their paths.
- `TokensOK` follows `emitted`, `since`, `spent` and `made` through the places
  of a run: what is posted and what waits to be is part of what was produced.
- `GateInv` remembers what was judged while the loop is between critique and
  rewrite; `CutInv` that only a refine without reply writes back cut files, and
  that a failed write ends the gate.
- `HitsAreWhole` is the long one. An entry is some part of what one put was
  given, and its `meta.json`, when it is there, names all files of that put
  (`EntryInv`), whatever a kill left of a put or of the removal of an old entry.
  That holds because the temporary directory it is renamed from is that of the
  put under way (`TempInv`). A get holds exactly the files it has read so far of
  those named, as the entry has them (`FetchInv`), so a get that ends has them
  all; a file that is gone makes it a miss. Where two runs are at one key, the
  key is `torn` (`Apart`).
- `HonestInv` gives `HonestModel`: all files of a run that is past its answer
  have one author, and so have those of an entry.

`ReadModelProofs` proves the five properties of `ReadModel` for any sets of
tasks, sub-tasks and days and a log of any length. These compare a row with a
maximum, a sum or a number of elements of the whole log. `IngestAbout` says
which parts of the log one more event joins, `IngestRows` which rows it
changes; with `LogInv`, that there is a row for exactly what the log is about,
the properties are inductive together. For `CountedOnce` the log is cut at each
event: `Before(i)` is the status the task of the i-th event had until then. One
more event leaves what was before the others (`BeforeStays`, from
`StandingStays`), and before the new one is what the row shows now, so
`SettlingStep` adds it to the settling events exactly when `Settles` raises the
counter. The sums are a recursive function over a finite set; instead
of an induction over the set, `SmallestSet` takes the smallest subset on which
a claim would fail.

Assumptions on the constants, each evaluated by TLC on every run that uses the
module: the numbers of sub-tasks, attempts and workers are positive
(`PoolAssumption`, `TelemetryAssumption`, `WorkshopAssumption`); SQL's NULL is
no status, text, id, number or result (`NoneAssumption`, `ReadModelAssumption`,
`TelemetryAssumption`, `NoResultAssumption`); a configuration is one of those
`Setups` allows, the placeholder's path is a path, and the run after a kill has
no more workers than the pool may have (`WorkshopAssumption`); jobs and threads
are finitely many, a setup is one of those `Setup` describes, limits and bounds
are numbers (`CycleAssumption`, `StateFilesAssumption`, `GateAssumption`,
`TokenBucketAssumption`, `LiveBoardAssumption`).

Every invariant and action property of the runs is so stated by a theorem, and
every inductive invariant was checked by TLC on the run's instance first. Only
model-checked: liveness (`Terminates`, `EventuallySettled`, `JobEnds`,
`CatchesUp`, the fairness part of `ImplementsPlan` and `RunsThePool`), which
the prover does not handle.

## 7. Not modelled, and plan

What is left of the plan, in this order:

1. Retrieval: `rag.ts` refreshing its file cache over an outbox that changes,
   with an embedding server that does not always answer.
2. Theorems: that `JobCycle`'s writes to the registries are what `StateFiles`
   allows one cycle, and the safety properties of two cycling threads that do
   hold side by side, beyond `GateRespected` and `SpendBound`.
3. In `JobCycle`: two job files with one id, a job file that never parses (it
   stops the queue until it is removed), a resubmission over an existing file,
   single git commands that fail for other reasons than an empty commit.
4. In `LiveBoard`: a listener that outlives its page, heartbeats.

Not modelled, and why:

- `migrate.ts`: numbered steps, each one transaction with its version number;
  its atomicity is SQLite's, and a single process opens the database.
- `dayOf`: an event that carries a local time with an offset is booked on
  another day than `today_spend` asks for. The pipeline never sends a time, so
  the server's own clock fills it in; `ReadModel` gives each event its day.
- `adaptive_worker_count` and the dates `job_priority_key` compares: pure
  arithmetic on the load average and the calendar. `SubtaskPool` takes any
  worker count, `JobCycle` numbers the jobs in their order.
- The rule tables of `plugins.py`: constants. `SubtaskPool` takes every graph
  that `validate_dag` accepts.
- `MockExecutor` and `ClaudeExecutor`: they keep no state; in `SubtaskPool` any
  executor is a call that ends in a result or an error.
- Read queries: SELECTs without state; what they return is `shown` in
  `JobCycle` and the projections in `ReadModel`.
- Ranking in retrieval: arithmetic on reals. What a model answers: any answer.
- Rendering, wording, formatting, configuration, secrets, prompts, run log,
  notification, hooks, launcher: input and output without an order to get
  wrong.
