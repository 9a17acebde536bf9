------------------------------ MODULE JobCycle -----------------------------
(***************************************************************************)
(* The orchestrator's inbox cycle: _process_inbox_once takes every job     *)
(* file of the inbox through Orchestrator.process_job - cost guard,        *)
(* approval gate, execution, review, quality gate, delivery - and records  *)
(* the settled ones in state/processed.json, while operators submit and    *)
(* approve jobs and the process may die and be restarted at any point.     *)
(*                                                                         *)
(* Cycler is the set of threads that can run cycles: the main thread and,  *)
(* where watchdog is installed, the Handler thread of its observer; the    *)
(* main thread then only re-scans from time to time.  The execution of a   *)
(* plan is one action here; SubtaskPool is its detail.  Jobs are numbered  *)
(* by job_priority_key (1 is the most urgent); each has a file of its own  *)
(* and a verify command.  What a job's files hold is either "good" - the   *)
(* verify command and the plugin accept them - or "bad".                   *)
(***************************************************************************)
EXTENDS Integers, FiniteSets

CONSTANTS
  NumJobs,     \* jobs that can be submitted
  Gated,       \* jobs with Job.gated
  Git,         \* jobs with deliverable_format git_branch
  Refines,     \* the quality gate is enabled and the executor is ollama's
  Cycler,      \* the threads that can run cycles
  Handler,     \* those of them that are the observer's: one or none
  Setups,      \* the installations, and the bounds of each, see Setup
  Limit,       \* daily_usd_limit, positive
  MaxCost      \* most a single execution can cost

Job == 1..NumJobs

\* What a task plugin does: no plan, or none that validate_dag accepts; or a
\* plan, but no verdict on the result.
Plugin == {"sound", "misplans", "misjudges"}

\* setup.plugin[j] is the plugin of j's type; watchdog, whether it can be imported.
\* The rest are bounds: on the jobs submitted, the kills from outside and, in
\* one day, the spend and the dispatches on a failed metrics read.
Setup ==
  [plugin : [Job -> Plugin], watchdog : BOOLEAN,
   jobs : SUBSET Job, kills : Nat, spend : Nat, blind : Nat]

ASSUME CycleAssumption ==
  /\ NumJobs \in Nat
  /\ Gated \subseteq Job /\ Git \subseteq Job
  /\ Refines \in BOOLEAN
  /\ IsFiniteSet(Cycler)
  /\ Handler \subseteq Cycler /\ Cardinality(Cycler \ Handler) = 1
  /\ Setups \subseteq Setup
  /\ Limit \in Nat \ {0}
  /\ MaxCost \in Nat

\* processed.json as open(..., "w") leaves it, before the write: json.loads
\* refuses it.  0 is no job, so this is no set of jobs.
Torn == {0}

Nothing == "nothing"
Content == {"good", "bad"}
Files == Content \cup {Nothing}

VARIABLES
  inbox,      \* jobs whose file is in inbox/
  partial,    \* those of them whose file is created and not yet written
  processed,  \* state/processed.json: a set of jobs, or Torn
  approved,   \* state/approved.json
  work,       \* work[j]: the job's working directory
  outbox,     \* outbox[j]: the delivered copy
  head,       \* head[j]: what branch feature/task-<j> holds
  spent,      \* real cost of the day
  shown,      \* today_spend of /api/metrics: what telemetry reported of it
  blind,      \* dispatches of the day let through by a failed metrics read
  verdict,    \* verdict[j]: the last JobOutcome of j
  up,         \* the orchestrator process runs
  watch,      \* watch_inbox: the initial pass, the observer, or polling
  crashes,    \* kills so far
  setup,      \* the installation
  pc,         \* pc[c]: where the cycle of c stands
  cur,        \* cur[c]: the job c is processing
  todo,       \* todo[c]: jobs of c's inbox scan still to be looked at
  seen,       \* seen[c]: ProcessedRegistry._ids of the cycle
  appr,       \* appr[c]: ApprovalRegistry._ids of the cycle
  marked,     \* history: jobs whose mark was written completely
  forgot,     \* history: the process died while it wrote processed.json
  begun       \* history: jobs executed since the process started

disk == <<inbox, partial, processed, approved, work, outbox, head>>
money == <<spent, shown, blind>>
cycle == <<pc, cur, todo, seen, appr>>
history == <<marked, forgot, begun>>
process == <<up, watch, crashes, setup>>
vars == <<disk, money, verdict, process, cycle, history>>

\* execute .. report are inside process_job, past the gates.
Executing == {"execute", "review", "refine", "copy", "commit", "report"}
Marking == {"truncate", "write"}
\* gone: a handler's thread that does not run; join: the main thread waits
\* for the observer's thread to end.
Place == {"idle", "gone", "join", "pick", "guard", "gate"} \cup Executing \cup Marking
Main == Cycler \ Handler

Outcome == {"queued", "awaiting_approval", "done", "failed", "blocked"}

Terminal == {"done", "failed", "blocked"}

LoadNothing(file) == {}  \* mutant: the file is not read at the start

\* What ProcessedRegistry loads from the file.
Load(file) == IF file = Torn THEN {} ELSE file

\* A process starts in watch_inbox's initial pass, without an observer;
\* without watchdog nothing tells that pass from the polls after it.
FirstPlace(c) == IF c \in Handler THEN "gone" ELSE "idle"
FirstWatch == IF setup.watchdog THEN "initial" ELSE "poll"

Init ==
  /\ inbox = {} /\ partial = {} /\ processed = {} /\ approved = {}
  /\ work = [j \in Job |-> Nothing]
  /\ outbox = [j \in Job |-> Nothing]
  /\ head = [j \in Job |-> Nothing]
  /\ spent = 0 /\ shown = 0 /\ blind = 0
  /\ verdict = [j \in Job |-> Nothing]
  /\ setup \in Setups
  /\ up = TRUE /\ watch = FirstWatch /\ crashes = 0
  /\ pc = [c \in Cycler |-> FirstPlace(c)]
  /\ cur = [c \in Cycler |-> 0]
  /\ todo = [c \in Cycler |-> {}]
  /\ seen = [c \in Cycler |-> {}]
  /\ appr = [c \in Cycler |-> {}]
  /\ marked = {} /\ forgot = FALSE /\ begun = {}
----------------------------------------------------------------------------
(* The operators, the calendar and the machine.                            *)

\* cmd_submit, cmd_new and the dashboard's writeJob put the file in the inbox
\* and then write it: until then it does not parse.
Submit(j) ==
  /\ j \in setup.jobs \ inbox
  /\ inbox' = inbox \cup {j}
  /\ partial' = partial \cup {j}
  /\ UNCHANGED <<processed, approved, work, outbox, head, money, verdict, process, cycle, history>>

FinishSubmit(j) ==
  /\ j \in partial
  /\ partial' = partial \ {j}
  /\ UNCHANGED <<inbox, processed, approved, work, outbox, head, money, verdict, process, cycle, history>>

\* ApprovalRegistry.approve, from the command line or the dashboard, of a job
\* the operator sees in the inbox.
Approve(j) ==
  /\ j \in inbox \ approved
  /\ approved' = approved \cup {j}
  /\ UNCHANGED <<inbox, partial, processed, work, outbox, head, money, verdict, process, cycle, history>>

\* Midnight: today_spend starts from zero.
NewDay ==
  /\ spent > 0
  /\ spent' = 0 /\ shown' = 0 /\ blind' = 0
  /\ UNCHANGED <<disk, verdict, process, cycle, history>>

\* The process ends, whatever its threads were doing.
Die ==
  /\ up' = FALSE /\ watch' = FirstWatch
  /\ pc' = [c \in Cycler |-> FirstPlace(c)]
  /\ cur' = [c \in Cycler |-> 0]
  /\ todo' = [c \in Cycler |-> {}]
  /\ seen' = [c \in Cycler |-> {}]
  /\ appr' = [c \in Cycler |-> {}]
  /\ begun' = {}
  /\ forgot' = (forgot \/ \E c \in Cycler : pc[c] = "write")
  /\ UNCHANGED <<disk, money, verdict, setup, marked>>

Crash ==
  /\ up
  /\ crashes < setup.kills
  /\ crashes' = crashes + 1
  /\ Die

\* systemd, Restart=on-failure.
Restart ==
  /\ ~ up
  /\ up' = TRUE
  /\ UNCHANGED <<disk, money, verdict, watch, crashes, setup, cycle, history>>
----------------------------------------------------------------------------
(* watch_inbox around the cycles.                                          *)

\* The initial pass is over: the observer is started, unless that fails.
StartObserver ==
  \/ watch' = "observer" /\ pc' = [t \in Cycler |-> "idle"]
  \/ watch' = "poll" /\ pc' = [t \in Cycler |-> FirstPlace(t)]

\* The thread leaves its cycle by an exception.
Leave(c, place) ==
  /\ pc' = [pc EXCEPT ![c] = place]
  /\ cur' = [cur EXCEPT ![c] = 0]
  /\ todo' = [todo EXCEPT ![c] = {}]
  /\ seen' = [seen EXCEPT ![c] = {}]
  /\ appr' = [appr EXCEPT ![c] = {}]
  /\ UNCHANGED <<disk, money, verdict, process, history>>

\* An exception of a cycle ends the handler's thread, or makes the main
\* thread give the observer up, or, where it polls, ends the process.
Raise(c) ==
  IF c \in Handler THEN Leave(c, "gone")
  ELSE IF watch = "observer" THEN Leave(c, "join")
  ELSE Die /\ UNCHANGED crashes

DegradeUnstopped(c) ==  \* mutant: the observer is joined without being stopped
  /\ pc[c] = "join"
  /\ \A h \in Handler : pc[h] = "gone"
  /\ pc' = [t \in Cycler |-> FirstPlace(t)]
  /\ watch' = "poll"
  /\ UNCHANGED <<disk, money, verdict, up, crashes, setup, cur, todo, seen, appr, history>>

\* observer.stop(), observer.join(), and on to poll_loop.
Degrade(c) ==
  /\ pc[c] = "join"
  /\ \A h \in Handler : pc[h] \in {"idle", "gone"}
  /\ pc' = [t \in Cycler |-> FirstPlace(t)]
  /\ watch' = "poll"
  /\ UNCHANGED <<disk, money, verdict, up, crashes, setup, cur, todo, seen, appr, history>>
----------------------------------------------------------------------------
(* _process_inbox_once.                                                    *)

\* Every job file of the inbox is parsed before the first job is looked at.
BeginCycle(c) ==
  /\ up
  /\ pc[c] = "idle"
  /\ partial = {}
  /\ seen' = [seen EXCEPT ![c] = Load(processed)]
  /\ appr' = [appr EXCEPT ![c] = approved]
  /\ todo' = [todo EXCEPT ![c] = inbox]
  /\ pc' = [pc EXCEPT ![c] = "pick"]
  /\ UNCHANGED <<disk, money, verdict, process, cur, history>>

\* load_job_file raises.
CycleRaises(c) ==
  /\ up
  /\ pc[c] = "idle"
  /\ partial # {}
  /\ Raise(c)

\* The next job in order_jobs' order; one already in the registry is skipped.
Pick(c) ==
  /\ pc[c] = "pick"
  /\ \E j \in todo[c] :
       /\ \A k \in todo[c] : j <= k
       /\ todo' = [todo EXCEPT ![c] = @ \ {j}]
       /\ IF j \in seen[c]
          THEN UNCHANGED <<pc, cur>>
          ELSE pc' = [pc EXCEPT ![c] = "guard"] /\ cur' = [cur EXCEPT ![c] = j]
  /\ UNCHANGED <<disk, money, verdict, process, seen, appr, history>>

\* The registries are locals of the cycle.
EndCycle(c) ==
  /\ pc[c] = "pick"
  /\ todo[c] = {}
  /\ IF watch = "initial"
     THEN StartObserver
     ELSE pc' = [pc EXCEPT ![c] = "idle"] /\ UNCHANGED watch
  /\ cur' = [cur EXCEPT ![c] = 0]
  /\ seen' = [seen EXCEPT ![c] = {}]
  /\ appr' = [appr EXCEPT ![c] = {}]
  /\ UNCHANGED <<disk, money, verdict, up, crashes, setup, todo, history>>

\* process_job returns o; a terminal outcome goes on to processed.mark.
Return(c, o) ==
  /\ verdict' = [verdict EXCEPT ![cur[c]] = o]
  /\ pc' = [pc EXCEPT ![c] = IF o \in Terminal THEN "truncate" ELSE "pick"]
  /\ UNCHANGED <<process, cur, todo, seen, appr, history>>

Goto(c, place) ==
  /\ pc' = [pc EXCEPT ![c] = place]
  /\ UNCHANGED <<verdict, process, cur, todo, seen, appr>>

\* processed.mark rewrites the whole file from the cycle's own set, in place.
MarkTruncate(c) ==
  /\ pc[c] = "truncate"
  /\ processed' = Torn
  /\ Goto(c, "write")
  /\ UNCHANGED <<inbox, partial, approved, work, outbox, head, money, history>>

MarkOnlyThis(c) ==  \* mutant: the file is rewritten with the new job alone
  /\ pc[c] = "write"
  /\ processed' = {cur[c]}
  /\ seen' = [seen EXCEPT ![c] = @ \cup {cur[c]}]
  /\ marked' = marked \cup {cur[c]}
  /\ pc' = [pc EXCEPT ![c] = "pick"]
  /\ UNCHANGED <<inbox, partial, approved, work, outbox, head, money, verdict, process, cur, todo, appr,
                 forgot, begun>>

MarkWrite(c) ==
  /\ pc[c] = "write"
  /\ processed' = seen[c] \cup {cur[c]}
  /\ seen' = [seen EXCEPT ![c] = @ \cup {cur[c]}]
  /\ marked' = marked \cup {cur[c]}
  /\ pc' = [pc EXCEPT ![c] = "pick"]
  /\ UNCHANGED <<inbox, partial, approved, work, outbox, head, money, verdict, process, cur, todo, appr,
                 forgot, begun>>
----------------------------------------------------------------------------
(* Orchestrator.process_job.                                               *)

AllowedAlways(reading) == TRUE  \* mutant: the guard is skipped
Allowed(reading) == reading < Limit

\* today_spend_usd answers 0 when the dashboard cannot be read.
CostGuard(c) ==
  /\ pc[c] = "guard"
  /\ \E failed \in BOOLEAN :
       LET reading == IF failed THEN 0 ELSE shown
           astray == failed /\ ~ Allowed(shown)
       IN  /\ astray => blind < setup.blind
           /\ blind' = IF astray THEN blind + 1 ELSE blind
           /\ IF Allowed(reading)
              THEN Goto(c, "gate") /\ UNCHANGED history
              ELSE Return(c, "queued")
  /\ UNCHANGED <<disk, spent, shown>>

AwaitsApproval(c) == cur[c] \in Gated /\ cur[c] \notin appr[c]

GateOpen(c) ==  \* mutant: the approval is not looked up
  /\ pc[c] = "gate" /\ setup.plugin[cur[c]] # "misplans"
  /\ Goto(c, "execute")
  /\ begun' = begun \cup {cur[c]}
  /\ UNCHANGED <<disk, money, marked, forgot>>

\* job.gated and not approved, on the approvals read when the cycle began;
\* past it the job is planned, announced as running and executed.
Gate(c) ==
  /\ pc[c] = "gate"
  /\ IF AwaitsApproval(c)
     THEN Return(c, "awaiting_approval")
     ELSE /\ setup.plugin[cur[c]] # "misplans"
          /\ Goto(c, "execute")
          /\ begun' = begun \cup {cur[c]} /\ UNCHANGED <<marked, forgot>>
  /\ UNCHANGED <<disk, money>>

\* The plugin's decompose raises, or validate_dag does on its plan: there is
\* no other plan, and nothing catches it.
PlanRaises(c) ==
  /\ pc[c] = "gate" /\ ~ AwaitsApproval(c)
  /\ setup.plugin[cur[c]] = "misplans"
  /\ Raise(c)

ChargeTwice(cost, reported) ==  \* mutant: streamed usage is reported again at the end
  /\ spent + cost <= setup.spend
  /\ reported <= cost
  /\ spent' = spent + cost
  /\ shown' = shown + reported + reported
  /\ UNCHANGED blind

\* An execution costs something; telemetry may lose part of the report.
Charge(cost, reported) ==
  /\ spent + cost <= setup.spend
  /\ reported <= cost
  /\ spent' = spent + cost
  /\ shown' = shown + reported
  /\ UNCHANGED blind

\* _run_subtasks: it leaves what it leaves in the working directory, and
\* either returns its results or exhausts a sub-task's attempts.
Execute(c) ==
  /\ pc[c] = "execute"
  /\ \E files \in Content, cost \in 0..MaxCost, reported \in 0..MaxCost :
       /\ work' = [work EXCEPT ![cur[c]] = files]
       /\ Charge(cost, reported)
  /\ \/ Goto(c, "review") /\ UNCHANGED history
     \/ Return(c, "blocked")
  /\ UNCHANGED <<inbox, partial, processed, approved, outbox, head>>

\* The verify command and the plugin's validation.
Review(c) ==
  /\ pc[c] = "review"
  /\ \/ /\ work[cur[c]] = "good" /\ setup.plugin[cur[c]] # "misjudges"
        /\ Goto(c, "refine") /\ UNCHANGED history
     \/ /\ work[cur[c]] = "bad"
        /\ Return(c, "failed")
  /\ UNCHANGED <<disk, money>>

\* The plugin's validate raises, once the verify command has passed.
ValidationRaises(c) ==
  /\ pc[c] = "review"
  /\ work[cur[c]] = "good" /\ setup.plugin[cur[c]] = "misjudges"
  /\ Raise(c)

\* The quality gate may rewrite the files it criticises; nothing verifies
\* them again.
Refine(c) ==
  /\ pc[c] = "refine"
  /\ \/ UNCHANGED work
     \/ Refines /\ \E files \in Content : work' = [work EXCEPT ![cur[c]] = files]
  /\ Goto(c, "copy")
  /\ UNCHANGED <<inbox, partial, processed, approved, outbox, head, money, history>>

DeliverCopyOnce(c) ==  \* mutant: the copy of an earlier run is kept
  /\ pc[c] = "copy"
  /\ outbox' = [outbox EXCEPT ![cur[c]] = IF @ = Nothing THEN work[cur[c]] ELSE @]
  /\ Goto(c, IF cur[c] \in Git THEN "commit" ELSE "report")
  /\ UNCHANGED <<inbox, partial, processed, approved, work, head, money, history>>

\* deliver: the copy to the outbox, then the branch.
DeliverCopy(c) ==
  /\ pc[c] = "copy"
  /\ outbox' = [outbox EXCEPT ![cur[c]] = work[cur[c]]]
  /\ Goto(c, IF cur[c] \in Git THEN "commit" ELSE "report")
  /\ UNCHANGED <<inbox, partial, processed, approved, work, head, money, history>>

DeliverCommit(c) ==
  /\ pc[c] = "commit"
  /\ head[cur[c]] # work[cur[c]]
  /\ head' = [head EXCEPT ![cur[c]] = work[cur[c]]]
  /\ Goto(c, "report")
  /\ UNCHANGED <<inbox, partial, processed, approved, work, outbox, money, history>>

\* `git commit' with nothing to commit exits 1; check=True makes it raise.
CommitRaises(c) ==
  /\ pc[c] = "commit"
  /\ head[cur[c]] = work[cur[c]]
  /\ Raise(c)

\* status_changed done, return.
Report(c) ==
  /\ pc[c] = "report"
  /\ Return(c, "done")
  /\ UNCHANGED <<disk, money>>
----------------------------------------------------------------------------
CycleStep(c) ==
  \/ BeginCycle(c) \/ CycleRaises(c) \/ Pick(c) \/ EndCycle(c)
  \/ CostGuard(c) \/ Gate(c) \/ PlanRaises(c) \/ Execute(c)
  \/ Review(c) \/ ValidationRaises(c) \/ Refine(c)
  \/ DeliverCopy(c) \/ DeliverCommit(c) \/ CommitRaises(c) \/ Report(c)
  \/ MarkTruncate(c) \/ MarkWrite(c) \/ Degrade(c)

Environment ==
  \/ \E j \in Job : Submit(j) \/ FinishSubmit(j) \/ Approve(j)
  \/ NewDay
  \/ Crash

Next == Environment \/ Restart \/ \E c \in Cycler : CycleStep(c)

\* The main thread's cycles run on, a handler finishes what it began, the
\* service manager restarts the process, days pass, and a file that is being
\* written is written.  Nobody has to submit or approve anything, and no
\* file system event has to reach the handler.
Fairness ==
  /\ \A c \in Main : WF_vars(CycleStep(c))
  /\ \A c \in Handler : WF_vars(pc[c] # "idle" /\ CycleStep(c))
  /\ WF_vars(Restart)
  /\ WF_vars(NewDay)
  /\ WF_vars(\E j \in Job : FinishSubmit(j))

SafeSpec == Init /\ [][Next]_vars
Spec == SafeSpec /\ Fairness
----------------------------------------------------------------------------
TypeOK ==
  /\ inbox \subseteq Job /\ partial \subseteq inbox
  /\ processed = Torn \/ processed \subseteq Job
  /\ approved \subseteq Job
  /\ work \in [Job -> Files] /\ outbox \in [Job -> Files] /\ head \in [Job -> Files]
  /\ spent \in 0..setup.spend /\ shown \in 0..spent /\ blind \in 0..setup.blind
  /\ verdict \in [Job -> Outcome \cup {Nothing}]
  /\ up \in BOOLEAN /\ watch \in {"initial", "observer", "poll"} /\ crashes \in 0..setup.kills
  /\ setup \in Setups
  /\ pc \in [Cycler -> Place]
  /\ cur \in [Cycler -> Job \cup {0}]
  /\ todo \in [Cycler -> SUBSET Job]
  /\ seen \in [Cycler -> SUBSET Job]
  /\ appr \in [Cycler -> SUBSET Job]
  /\ marked \subseteq Job /\ forgot \in BOOLEAN /\ begun \subseteq Job
  /\ \A c \in Cycler : pc[c] \notin {"idle", "gone", "join", "pick"} => cur[c] \in Job

\* Nothing past the gate ever happens to a gated job nobody approved, stale
\* as the cycle's copy of the approvals may be.
GateRespected ==
  \A c \in Cycler : pc[c] \in Executing \cup Marking /\ cur[c] \in Gated => cur[c] \in approved

\* A job in the registry is settled: its outcome was terminal, and if it was
\* done, the outbox - and the branch - hold what its working directory held;
\* while one thread runs all cycles.
MarkedIsSettled ==
  ~ setup.watchdog => \A j \in Load(processed) :
    /\ verdict[j] \in Terminal
    /\ verdict[j] = "done" => /\ outbox[j] = work[j]
                              /\ j \in Git => head[j] = work[j]

\* While one thread runs all cycles, processed.json holds every job ever
\* marked, except while it is being rewritten or after a death during a
\* rewrite.
RegistryComplete ==
  ~ setup.watchdog => forgot \/ processed = marked \/ \E c \in Cycler : pc[c] = "write"

\* What a day really costs: beyond the limit one execution of each thread that
\* may run a cycle, one more for every dispatch decided on a failed read, and
\* whatever was not reported.
Crew == IF setup.watchdog THEN Cycler ELSE Main
SpendBound ==
  spent < Limit + MaxCost * (Cardinality(Crew) + blind) + (spent - shown)

\* A job passes the gate at most once in a process's life, and after it was
\* marked never again, unless a death tore the registry; while one thread runs
\* all cycles.
Begins(c, j) == pc[c] = "gate" /\ pc'[c] = "execute" /\ cur[c] = j
RunsOnce ==
  [][\A c \in Cycler, j \in Job :
       ~ setup.watchdog /\ Begins(c, j) => j \notin begun /\ (j \in marked => forgot)]_vars

\* The strict form of it: what was marked as processed is not run again.
SettledStaysSettled ==
  [][\A c \in Cycler, j \in Job : Begins(c, j) => j \notin marked]_vars

Waiting(j) == j \in inbox /\ (j \in Gated => j \in approved)

\* What stops the queue: a branch that a killed run committed and did not
\* mark, and a job nothing holds back whose plugin raises.
CommittedUnmarked(k) == crashes > 0 /\ k \in Git /\ head[k] # Nothing
Stops(k) ==
  /\ k \notin Load(processed)
  /\ CommittedUnmarked(k) \/ (setup.plugin[k] # "sound" /\ Waiting(k))

\* Everything submitted, and approved where it must be, is settled in the
\* end - after crashes, cost pauses, unapproved jobs before it in the order
\* and a torn registry - unless jobs stop the queue, and that for good.
EventuallySettled ==
  \A j \in Job : Waiting(j) ~> (j \in Load(processed) \/ [](\E k \in Job : Stops(k)))

\* The same without the exception.
AlwaysSettled == \A j \in Job : Waiting(j) ~> j \in Load(processed)

\* What is delivered passed the verify command.
DeliveryVerified == \A j \in Job : verdict[j] = "done" => outbox[j] = "good"
============================================================================
