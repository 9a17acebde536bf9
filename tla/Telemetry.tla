----------------------------- MODULE Telemetry -----------------------------
(***************************************************************************)
(* One run of a job and what the dashboard shows of it: SubtaskPool, the   *)
(* rest of process_job around it, the events each of its threads posts     *)
(* (IngestClient.emit) and the read model they are folded into.            *)
(*                                                                         *)
(* emit is synchronous: a thread goes on only when its post was answered   *)
(* or given up.  A post is lost while the dashboard is down, and may be    *)
(* refused, or given up and applied later; it is never repeated.  The job  *)
(* has passed the cost guard and the approval gate (JobCycle), it has one  *)
(* task row, "job", and all happens on one day.  Left out are the events   *)
(* of a sub-task that carry neither a cost nor a status: its log,          *)
(* tool_call_start and streamed token counts.                              *)
(***************************************************************************)
EXTENDS Projection, FiniteSets, SequencesExt

CONSTANTS
  NumSubtasks, MaxAttempts, MaxWorkers,  \* as in SubtaskPool
  EarlyTrouble, MaxTrouble  \* bounds on the outages of the dashboard and the late posts:
                            \* up to the review, and in all

ASSUME TelemetryAssumption ==
  /\ {NumSubtasks, MaxAttempts, MaxWorkers} \subseteq Nat \ {0}  \* as in SubtaskPool
  /\ {EarlyTrouble, MaxTrouble} \subseteq Nat
  /\ None \notin Int \cup {"job"}  \* no sub-task, and no task, is NULL

Subtask == 1..NumSubtasks
JobThread == 0
Thread == Subtask \cup {JobThread}

VARIABLES
  deps, workers, main, batch, done, thread, attempt,  \* SubtaskPool's
  stage,      \* where process_job stands: "planned", "running", "review", "gate" or "ended"
  outcome,    \* the JobOutcome it returns
  blank,      \* sub-tasks whose last error has no text
  charged,    \* cost of the results the executor returned
  out,        \* out[t]: what thread t still has to post before it goes on
  down,       \* the dashboard does not answer
  trouble,    \* how often it went down or answered too late
  late,       \* posts given up by the client and not yet applied
  escalated,  \* sub-tasks with an escalation in the events table
  heard,      \* history: a status of the job as a whole reached the events table
  model       \* the projections

poolVars == <<deps, workers, main, batch, done, thread, attempt>>
job == <<stage, outcome>>
board == <<escalated, heard, model>>
net == <<down, trouble, late>>
vars == <<poolVars, job, blank, charged, out, net, board>>

Pool == INSTANCE SubtaskPool

TaskEvent(kind, status) ==
  [kind |-> kind, task |-> "job", sub |-> None, status |-> status, message |-> None, cost |-> 0, day |-> 1]
SubEvent(kind, s, status, message, cost) ==
  [kind |-> kind, task |-> "job", sub |-> s, status |-> status, message |-> message, cost |-> cost, day |-> 1]

\* The reviewer's log and token_usage events: about the job, without a status.
Note == TaskEvent("log", None)
Reviewing == TaskEvent("status_changed", "review")

Init ==
  /\ Pool!Init
  /\ stage = "planned" /\ outcome = None
  /\ blank = {} /\ charged = 0
  /\ out = [t \in Thread |-> <<>>]
  /\ down = FALSE /\ trouble = 0 /\ late = <<>>
  /\ escalated = {} /\ heard = FALSE /\ model = EmptyModel

\* The dashboard may fail to answer once more.
MayFail == trouble < IF stage \in {"planned", "running"} THEN EarlyTrouble ELSE MaxTrouble

\* Thread t has nothing under way; a step of it ends in posting these events.
Free(t) == out[t] = <<>>
Says(t, evs) == Free(t) /\ out' = [out EXCEPT ![t] = evs]
Quiet == UNCHANGED out
----------------------------------------------------------------------------
(* process_job.                                                            *)

Announce ==
  /\ stage = "planned"
  /\ stage' = "running"
  /\ Says(JobThread,
       <<TaskEvent("task_created", "queued"), TaskEvent("agent_assigned", "planning")>>
       \o [s \in Subtask |-> SubEvent("subtask_created", s, "queued", None, 0)]
       \o <<TaskEvent("status_changed", "running")>>)
  /\ UNCHANGED <<poolVars, outcome, blank, charged, net, board>>

\* The scheduling loop.  A future is resolved, and a pool thread joined, only
\* when that thread has nothing left to post.
RunPool ==
  /\ stage = "running" /\ Free(JobThread)
  /\ Pool!MainStep
  /\ \A s \in Subtask : ~ Free(s) =>
       ~ Pool!CollectResult(s) /\ ~ Pool!CollectRaise(s) /\ ~ Pool!Unwind
  /\ UNCHANGED <<job, blank, charged, out, net, board>>

\* except RetryExhausted: a line in the run log, and return.
Blocked ==
  /\ stage = "running" /\ main = "blocked"
  /\ stage' = "ended" /\ outcome' = "blocked"
  /\ Quiet
  /\ UNCHANGED <<poolVars, blank, charged, net, board>>

Review ==
  /\ stage = "running" /\ main = "done"
  /\ stage' = "review"
  /\ Says(JobThread, <<Reviewing, Note>>)
  /\ UNCHANGED <<poolVars, outcome, blank, charged, net, board>>

\* The quality gate of a job that passed the verify command and the plugin.  It
\* may be off, and a critique that raises ends it; one note stands for all.
Gate ==
  /\ stage = "review"
  /\ stage' = "gate"
  /\ \E posts \in {<<Reviewing>>, <<Reviewing, Note>>} : Says(JobThread, posts)
  /\ UNCHANGED <<poolVars, outcome, blank, charged, net, board>>

\* A job that passes the verify command and the plugin is delivered.
Conclude ==
  /\ stage \in {"review", "gate"}
  /\ stage' = "ended"
  /\ \E verdict \in {"done", "failed"} :
       /\ stage = "gate" => verdict = "done"
       /\ outcome' = verdict
       /\ Says(JobThread, <<TaskEvent("status_changed", verdict)>>)
  /\ UNCHANGED <<poolVars, blank, charged, net, board>>
----------------------------------------------------------------------------
(* _run_one and Sentinel.guard.                                            *)

Start(s) ==
  /\ Pool!Start(s)
  /\ Says(s, <<SubEvent("subtask_updated", s, "running", None, 0)>>)
  /\ UNCHANGED <<job, blank, charged, net, board>>

Attempt(s) ==
  /\ Pool!Attempt(s)
  /\ Free(s) /\ Quiet
  /\ UNCHANGED <<job, blank, charged, net, board>>

Succeed(s) ==
  /\ Pool!CallSucceeds(s)
  /\ charged' = charged + 1
  /\ Says(s, <<SubEvent("tool_call_end", s, None, None, 1)>>)
  /\ UNCHANGED <<job, blank, net, board>>

FailUnreported(s) ==  \* mutant: a result that is not ok raises before it is reported
  /\ Pool!CallFails(s)
  /\ charged' = charged + 1
  /\ Says(s, <<SubEvent("error", s, None, Text, 0)>>)
  /\ UNCHANGED <<job, blank, net, board>>

\* A result that is not ok is accounted for before it fails the attempt; the
\* text of the failure is the result's output.  Only the last failure's text
\* is used again.
Fail(s) ==
  /\ Pool!CallFails(s)
  /\ LET error == <<SubEvent("error", s, None, Text, 0)>>
     IN  \/ /\ charged' = charged + 1
            /\ Says(s, <<SubEvent("tool_call_end", s, None, None, 1)>> \o error)
         \/ Says(s, error) /\ UNCHANGED charged
  /\ \/ UNCHANGED blank
     \/ attempt[s] = MaxAttempts /\ blank' = blank \cup {s}
  /\ UNCHANGED <<job, net, board>>

EscalateQuietly(s) ==  \* mutant: the escalation is not posted
  /\ Pool!Escalate(s)
  /\ Says(s, <<SubEvent("status_changed", s, "blocked", Text, 0)>>)
  /\ UNCHANGED <<job, blank, charged, net, board>>

Escalate(s) ==
  /\ Pool!Escalate(s)
  /\ Says(s, <<SubEvent("status_changed", s, "blocked", Text, 0),
               SubEvent("escalation", s, None, IF s \in blank THEN Blank ELSE Text, 0)>>)
  /\ UNCHANGED <<job, blank, charged, net, board>>

Complete(s) ==
  /\ Pool!Complete(s)
  /\ Says(s, <<SubEvent("subtask_updated", s, "done", None, 0)>>)
  /\ UNCHANGED <<job, blank, charged, net, board>>
----------------------------------------------------------------------------
(* The post of the next event of thread t, and the dashboard.              *)

\* POST /api/ingest; a refusal (400) is swallowed by the client.
Apply(ev) ==
  IF Accepts(ev)
  THEN /\ model' = ApplyEvent(model, ev)
       /\ escalated' = IF ev.kind = "escalation" THEN escalated \cup {ev.sub} ELSE escalated
       /\ heard' = (heard \/ (IsTaskLevel(ev) /\ ev.status # None))
  ELSE UNCHANGED board

Sent(t) ==
  /\ out[t] # <<>>
  /\ out' = [out EXCEPT ![t] = Tail(@)]
  /\ UNCHANGED <<poolVars, job, blank, charged>>

Deliver(t) ==
  /\ ~ down
  /\ Sent(t)
  /\ Apply(Head(out[t]))
  /\ UNCHANGED net

LoseRetrying(t) ==  \* mutant: the client posts again until it is answered
  /\ down
  /\ out[t] # <<>>
  /\ UNCHANGED vars

LoseRaises(t) ==  \* mutant: the client's exception ends the thread
  /\ down
  /\ out[t] # <<>>
  /\ out' = [out EXCEPT ![t] = <<>>]
  /\ thread' = IF t \in Subtask THEN [thread EXCEPT ![t] = "raised"] ELSE thread
  /\ UNCHANGED <<deps, workers, main, batch, done, attempt, job, blank, charged, net, board>>

\* emit returns -1 and the thread carries on.
Lose(t) ==
  /\ down
  /\ Sent(t)
  /\ UNCHANGED <<net, board>>

GiveUpRetrying(t) ==  \* mutant: after a timeout the client posts the event again
  /\ ~ down
  /\ MayFail
  /\ out[t] # <<>>
  /\ late' = Append(late, Head(out[t]))
  /\ trouble' = trouble + 1
  /\ UNCHANGED <<poolVars, job, blank, charged, out, down, board>>

\* The client's timeout passes first: the dashboard applies it all the same.
GiveUp(t) ==
  /\ ~ down
  /\ MayFail
  /\ Sent(t)
  /\ late' = Append(late, Head(out[t]))
  /\ trouble' = trouble + 1
  /\ UNCHANGED <<down, board>>

Arrive(i) ==
  /\ Apply(late[i])
  /\ late' = RemoveAt(late, i)
  /\ UNCHANGED <<poolVars, job, blank, charged, out, down, trouble>>

GoDown ==
  /\ ~ down /\ MayFail
  /\ down' = TRUE
  /\ trouble' = trouble + 1
  /\ UNCHANGED <<poolVars, job, blank, charged, out, late, board>>

ComeBack ==
  /\ down
  /\ down' = FALSE
  /\ UNCHANGED <<poolVars, job, blank, charged, out, trouble, late, board>>
----------------------------------------------------------------------------
JobStep == Announce \/ RunPool \/ Blocked \/ Review \/ Gate \/ Conclude
SubStep(s) == Start(s) \/ Attempt(s) \/ Succeed(s) \/ Fail(s) \/ Escalate(s) \/ Complete(s)
Post(t) == Deliver(t) \/ Lose(t) \/ GiveUp(t)

Next ==
  \/ JobStep
  \/ \E s \in Subtask : SubStep(s)
  \/ \E t \in Thread : Post(t)
  \/ \E i \in DOMAIN late : Arrive(i)
  \/ GoDown \/ ComeBack

\* The threads run on, and every post ends within the client's timeout.  The
\* dashboard need not come back.
Fairness ==
  /\ WF_vars(JobStep)
  /\ \A s \in Subtask : WF_vars(SubStep(s))
  /\ \A t \in Thread : WF_vars(Post(t))

Spec == Init /\ [][Next]_vars /\ Fairness
----------------------------------------------------------------------------
Ended == stage = "ended" /\ \A t \in Thread : Free(t)
Status == IF "job" \in DOMAIN model.tasks THEN model.tasks["job"].status ELSE None
AllAnswered == trouble = 0
StatusOf(s) == IF s \in DOMAIN model.subtasks THEN model.subtasks[s] ELSE None
ShownCost == IF 1 \in DOMAIN model.daily THEN model.daily[1].cost ELSE 0

\* While the dashboard answered every post, a job that went through review
\* ends with a card, a row for each sub-task and a cost that say just what
\* happened, whatever the order its threads posted in.
BoardAgrees ==
  Ended /\ AllAnswered /\ outcome # "blocked" =>
    /\ Status = outcome
    /\ \A s \in Subtask : StatusOf(s) = "done"
    /\ ShownCost = charged

\* Lost and late posts never make the board ahead of the work: a sub-task
\* shown as done has its result, and a card is in the done column, mid-run or
\* later, only of a delivered job - or of one whose own statuses were all lost
\* so far, when a sub-task's event made the card.
NeverAhead ==
  /\ \A s \in Subtask : StatusOf(s) = "done" => thread[s] = "ok"
  /\ Status = "done" => outcome = "done" \/ ~ heard

\* The spend the cost guard reads is never more than was charged.
SpendNotOverstated == ShownCost <= charged

\* A sub-task given up is shown as blocked, and one whose last error has a text
\* is flagged by an escalation.  (What becomes of the others is for
\* ExhaustionIsShown.)
EscalationRecorded ==
  \A s \in Subtask :
    thread[s] = "raised" /\ Free(s) /\ AllAnswered =>
      StatusOf(s) = "blocked" /\ (s \notin blank => s \in escalated)

\* Whatever becomes of its telemetry, the job ends.
JobEnds == <>Ended

\* Telemetry only watches: the threads run as they do in SubtaskPool alone.
RunsThePool == Pool!Spec

\* "On exhaustion it marks the task blocked, emits an escalation event (red flag
\* in the dashboard)": the dashboard shows at least one of the two.
ExhaustionIsShown ==
  Ended /\ AllAnswered /\ outcome = "blocked" => Status = "blocked" \/ escalated # {}
============================================================================
