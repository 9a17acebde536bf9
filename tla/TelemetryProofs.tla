-------------------------- MODULE TelemetryProofs --------------------------
(***************************************************************************)
(* Proofs about the telemetry of a job, for every number of sub-tasks,     *)
(* attempts and workers and any amount of trouble with the dashboard.      *)
(*                                                                         *)
(* Inv is the inductive invariant: what the pool and the stage of the job  *)
(* are (PoolInv, StageInv), what each thread has left to post in each of   *)
(* its states (LinesInv), that no event says more than what happened       *)
(* (TruthInv), that every charge is on the board, in a line or under way   *)
(* (SpendInv), and, while the dashboard answered every post, how far the   *)
(* board can be behind (SyncedInv).                                        *)
(***************************************************************************)
EXTENDS Telemetry, FiniteSetTheorems, SequenceTheorems, TLAPS

\* The events of a sub-task, by the call of process_job that emits them.
RunningEvent(s) == SubEvent("subtask_updated", s, "running", None, 0)
CostEvent(s) == SubEvent("tool_call_end", s, None, None, 1)
ErrorEvent(s) == SubEvent("error", s, None, Text, 0)
DoneEvent(s) == SubEvent("subtask_updated", s, "done", None, 0)
BlockedEvent(s) == SubEvent("status_changed", s, "blocked", Text, 0)
EscalationEvent(s) == SubEvent("escalation", s, None, IF s \in blank THEN Blank ELSE Text, 0)
CreatedEvent(s) == SubEvent("subtask_created", s, "queued", None, 0)

\* What is scheduled and what is done, as the pool keeps it.
PoolInv ==
  /\ thread \in [Subtask -> Pool!ThreadState]
  /\ batch \in SUBSET Subtask /\ done \in SUBSET Subtask
  /\ main = "schedule" => batch = {}
  /\ \A s \in done : thread[s] = "ok" /\ s \notin batch
  /\ \A s \in Subtask : thread[s] # "none" <=> s \in done \cup batch
  /\ main = "done" => done = Subtask

\* The outcome is open until the job has ended, and a job reaches its review
\* only after the pool has returned.
StageInv ==
  /\ stage \in {"planned", "running", "review", "gate", "ended"}
  /\ stage = "planned" => \A s \in Subtask : thread[s] = "none"
  /\ stage # "ended" => outcome = None
  /\ stage = "ended" => outcome \in {"done", "failed", "blocked"}
  /\ stage \in {"review", "gate"} \/ outcome \in {"done", "failed"} => main = "done"

\* What the thread of s may still have to post in each of its states.
Line(s) ==
  /\ thread[s] \in {"none", "queued", "calling"} => out[s] = <<>>
  /\ thread[s] = "trying" =>
       out[s] \in {<<>>, <<RunningEvent(s)>>, <<CostEvent(s), ErrorEvent(s)>>, <<ErrorEvent(s)>>}
  /\ thread[s] = "passed" => out[s] \in {<<>>, <<CostEvent(s)>>}
  /\ thread[s] = "exhausted" =>
       out[s] \in {<<>>, <<CostEvent(s), ErrorEvent(s)>>, <<ErrorEvent(s)>>}
  /\ thread[s] = "ok" => out[s] \in {<<>>, <<DoneEvent(s)>>}
  /\ thread[s] = "raised" =>
       out[s] \in {<<>>, <<BlockedEvent(s), EscalationEvent(s)>>, <<EscalationEvent(s)>>}

\* The events the pipeline emits.
Kind ==
  {"log", "task_created", "agent_assigned", "status_changed", "subtask_created", "subtask_updated",
   "tool_call_end", "error", "escalation"}
Event ==
  [kind : Kind, task : {"job"}, sub : Subtask \cup {None}, status : Statuses \cup {None},
   message : {None, Text, Blank}, cost : {0, 1}, day : {1}]

\* What the job's own thread posts.
JobEvent == {ev \in Event : ev.kind # "escalation" /\ ev.cost = 0 /\ Accepts(ev)}

\* Each thread has posts to make that fit what it did.
LinesInv ==
  /\ DOMAIN out = Thread
  /\ \A s \in Subtask : Line(s)
  /\ out[JobThread] \in Seq(JobEvent)
  /\ late \in Seq(Event)

\* An event that says done is about a job or a sub-task that is.
Truthful(ev) ==
  ev.status = "done" => IF IsTaskLevel(ev) THEN outcome = "done" ELSE thread[ev.sub] = "ok"

\* No post under way, and no row of the board, says more than what happened.
TruthInv ==
  /\ \A k \in DOMAIN out[JobThread] : Truthful(out[JobThread][k])
  /\ \A k \in DOMAIN late : Truthful(late[k])
  /\ \A s \in Subtask : StatusOf(s) = "done" => thread[s] = "ok"
  /\ heard => "job" \in DOMAIN model.tasks
  /\ heard /\ Status = "done" => outcome = "done"

\* The threads that have a charge to post, and the late posts that carry one.
Owing == {s \in Subtask : out[s] # <<>> /\ Head(out[s]).cost = 1}
CostsIn(posts) == {i \in DOMAIN posts : posts[i].cost = 1}

\* What was charged is on the board, or has yet to get there, or was lost; and
\* nothing is lost while the dashboard answers.
SpendInv ==
  /\ ShownCost \in Nat /\ charged \in Nat
  /\ ShownCost + Cardinality(Owing) + Cardinality(CostsIn(late)) <= charged
  /\ trouble = 0 => ShownCost + Cardinality(Owing) = charged

\* The status a card would have if every post had arrived.
Expected == IF stage = "ended" THEN outcome ELSE IF stage = "gate" THEN "review" ELSE stage

\* None of these posts carries a status; the last status in them is this.
Silent(posts) == \A k \in DOMAIN posts : posts[k].status = None
EndsWith(posts, status) ==
  \E k \in DOMAIN posts :
    /\ IsTaskLevel(posts[k]) /\ posts[k].status = status
    /\ \A i \in DOMAIN posts : i > k => posts[i].status = None

\* The card shows the status the job has come to, or the job has still to post
\* it; the events after it say nothing of a status.
JobSynced ==
  stage # "planned" /\ outcome # "blocked" =>
    \/ Status = Expected /\ Silent(out[JobThread])
    \/ EndsWith(out[JobThread], Expected)

\* The row of s is there once s was scheduled, and shows how s ended once its
\* thread has nothing left to post.
SubSynced(s) ==
  /\ thread[s] # "none" =>
       /\ "job" \in DOMAIN model.tasks
       /\ \A k \in DOMAIN out[JobThread] : IsTaskLevel(out[JobThread][k])
  /\ thread[s] = "ok" => ~ Free(s) \/ StatusOf(s) = "done"
  /\ thread[s] # "raised" => s \notin escalated
  /\ thread[s] = "raised" =>
       /\ Len(out[s]) < 2 => StatusOf(s) = "blocked"
       /\ s \in escalated <=> Free(s) /\ s \notin blank

\* How far the board may be behind while every post was answered.
SyncedInv ==
  /\ trouble \in Nat
  /\ trouble = 0 =>
       /\ ~ down /\ late = <<>>
       /\ JobSynced
       /\ \A s \in Subtask : SubSynced(s)

\* Telemetry without its fairness.
SafeSpec == Init /\ [][Next]_vars
----------------------------------------------------------------------------
\* What each step is to the pool.
LEMMA StepOfPool ==
  ASSUME Next
  PROVE  \/ UNCHANGED poolVars
         \/ RunPool
         \/ \E s \in Subtask : Pool!ThreadStep(s) /\ stage' = stage /\ outcome' = outcome
BY DEF Next, JobStep, SubStep, Announce, Blocked, Review, Gate, Conclude, Start, Attempt, Succeed, Fail,
  Escalate, Complete, Post, Deliver, Lose, GiveUp, Sent, Arrive, GoDown, ComeBack, Pool!ThreadStep, job

\* Emitting never gets in the way of the work: whatever becomes of the posts of
\* IngestClient.emit, the sub-tasks run as the pool of _run_subtasks runs them.
THEOREM RunsThePoolSafely == SafeSpec => Pool!SafeSpec
<1>1. Init => Pool!Init
  BY DEF Init
<1>2. [Next]_vars => [Pool!Next]_(Pool!vars)
  <2>2. Pool!Subtask = Subtask
    BY DEF Pool!Subtask, Subtask
  <2> SUFFICES ASSUME [Next]_vars PROVE Pool!Next \/ UNCHANGED poolVars
    BY DEF Pool!vars, poolVars
  <2>3. CASE Next
    BY <2>2, <2>3, StepOfPool DEF RunPool, Pool!Next
  <2>4. CASE UNCHANGED vars
    BY <2>4 DEF vars
  <2>5. QED
    BY <2>3, <2>4
<1>3. QED
  BY <1>1, <1>2, PTL DEF SafeSpec, Pool!SafeSpec

\* A planned job has no thread and no outcome.
LEMMA InitPool == Init => PoolInv /\ StageInv
<1> SUFFICES ASSUME Init PROVE PoolInv /\ StageInv
  OBVIOUS
<1>1. PoolInv
  BY DEF Init, Pool!Init, Pool!Subtask, Subtask, PoolInv, Pool!ThreadState
<1>2. outcome = None /\ None \notin {"done", "failed", "blocked"} 
  BY NoneAssumption DEF Init, Statuses
<1>3. StageInv
  BY <1>2 DEF Init, Pool!Init, Pool!Subtask, Subtask, StageInv
<1>4. QED
  BY <1>1, <1>3

\* A step of a thread changes that thread alone, and none that has ended.
LEMMA ThreadStepPool ==
  ASSUME PoolInv, NEW s \in Subtask, Pool!ThreadStep(s)
  PROVE  /\ PoolInv' /\ UNCHANGED main
         /\ thread[s] \notin {"none", "ok", "raised"} /\ thread' = [thread EXCEPT ![s] = thread'[s]]
BY DEF PoolInv, Pool!ThreadStep, Pool!Start, Pool!Attempt, Pool!CallSucceeds, Pool!CallFails,
  Pool!Escalate, Pool!Complete, Pool!Move, Pool!ThreadState

\* A step of the main thread queues threads and touches no running one.
LEMMA RunPoolInv ==
  ASSUME PoolInv, RunPool
  PROVE  /\ PoolInv'
         /\ main = "done" => main' = "done"
         /\ \A s \in Subtask : thread[s] # "none" => thread'[s] = thread[s]
         /\ \A s \in Subtask : thread[s] = "none" => thread'[s] \in {"none", "queued"}
         /\ \A s \in Subtask : thread[s] \in {"none", "queued"} => thread'[s] \in {"none", "queued"}
<1>0. Pool!Subtask = Subtask
  BY DEF Pool!Subtask, Subtask
<1>1. CASE Pool!Schedule
  BY <1>0, <1>1 DEF PoolInv, Pool!Schedule, Pool!Ready, Pool!ThreadState
<1>2. CASE \E s \in Subtask : Pool!CollectResult(s)
  BY <1>0, <1>2 DEF PoolInv, Pool!CollectResult, Pool!FirstPending
<1>3. CASE Pool!ReturnResults \/ Pool!Unwind \/ \E s \in Subtask : Pool!CollectRaise(s)
  BY <1>0, <1>3 DEF PoolInv, Pool!ReturnResults, Pool!Unwind, Pool!CollectRaise
<1>4. QED
  BY <1>0, <1>1, <1>2, <1>3 DEF RunPool, Pool!MainStep

\* The pool runs within a stage of the job.
LEMMA RunPoolStage ==
  ASSUME PoolInv, StageInv, RunPool
  PROVE  StageInv'
BY RunPoolInv DEF StageInv, RunPool, job

\* The stages of the job leave the pool alone.
LEMMA JobStage ==
  ASSUME PoolInv, StageInv, Announce \/ Blocked \/ Review \/ Gate \/ Conclude
  PROVE  PoolInv' /\ StageInv' /\ UNCHANGED poolVars
<1>1. UNCHANGED poolVars
  BY DEF Announce, Blocked, Review, Gate, Conclude
<1>2. None \notin {"done", "failed", "blocked"}
  BY NoneAssumption DEF Statuses
<1>3. StageInv'
  BY <1>1, <1>2 DEF poolVars, StageInv, Announce, Blocked, Review, Gate, Conclude
<1>4. QED
  BY <1>1, <1>3 DEF poolVars, PoolInv

\* The threads and the outcome only go on.
Onwards ==
  /\ \A s \in Subtask : thread[s] = "ok" => thread'[s] = "ok"
  /\ outcome = "done" => outcome' = "done"

\* The pool and the stage keep their invariants, and nothing done is undone.
LEMMA PoolAndStage ==
  ASSUME PoolInv, StageInv, [Next]_vars
  PROVE  PoolInv' /\ StageInv' /\ Onwards
<1>1. CASE RunPool
  BY <1>1, RunPoolInv, RunPoolStage DEF Onwards, RunPool, job
<1>2. CASE Announce \/ Blocked \/ Review \/ Gate \/ Conclude
  <2>1. outcome = "done" => outcome' = "done"
    BY <1>2, NoneAssumption DEF Announce, Blocked, Review, Gate, Conclude, StageInv, Statuses
  <2>2. QED
    BY <1>2, <2>1, JobStage DEF Onwards, poolVars
<1>3. CASE \E s \in Subtask : SubStep(s)
  <2>1. PICK s \in Subtask : SubStep(s)
    BY <1>3
  <2>2. Pool!ThreadStep(s) /\ UNCHANGED job
    BY <2>1 DEF SubStep, Start, Attempt, Succeed, Fail, Escalate, Complete, Pool!ThreadStep
  <2>3. PoolInv' /\ UNCHANGED main
        /\ thread[s] \notin {"none", "ok", "raised"} /\ thread' = [thread EXCEPT ![s] = thread'[s]]
    BY <2>2, ThreadStepPool
  <2>4. StageInv' /\ Onwards
    BY <2>2, <2>3 DEF StageInv, Onwards, job, PoolInv
  <2>5. QED
    BY <2>3, <2>4
<1>4. CASE UNCHANGED <<poolVars, job>>
  BY <1>4 DEF PoolInv, StageInv, Onwards, poolVars, job
<1>5. CASE UNCHANGED vars
  BY <1>4, <1>5 DEF vars
<1>6. CASE \/ \E t \in Thread : Post(t)
           \/ \E i \in DOMAIN late : Arrive(i)
           \/ GoDown \/ ComeBack
  BY <1>4, <1>6 DEF Post, Deliver, Lose, GiveUp, Sent, Arrive, GoDown, ComeBack
<1>7. QED
  BY <1>1, <1>2, <1>3, <1>5, <1>6 DEF Next, JobStep
----------------------------------------------------------------------------
\* The events are events.
LEMMA EventTypes ==
  ASSUME NEW s \in Subtask
  PROVE  /\ RunningEvent(s) \in Event /\ CostEvent(s) \in Event /\ ErrorEvent(s) \in Event
         /\ DoneEvent(s) \in Event /\ BlockedEvent(s) \in Event /\ EscalationEvent(s) \in Event
         /\ CreatedEvent(s) \in Event
<1>1. s # None
  BY TelemetryAssumption DEF Subtask
<1>2. QED
  BY <1>1 DEF Event, IsTaskLevel, RunningEvent, CostEvent, ErrorEvent, DoneEvent, BlockedEvent,
    EscalationEvent, CreatedEvent, SubEvent, Statuses, Kind, Text, Blank

\* What each event of a sub-task says, and which of them a dashboard accepts.
LEMMA EventFields ==
  ASSUME NEW s \in Subtask
  PROVE  /\ \A ev \in {RunningEvent(s), CostEvent(s), ErrorEvent(s), DoneEvent(s), BlockedEvent(s),
                       EscalationEvent(s)} : ev.sub = s /\ s # None
         /\ RunningEvent(s).status = "running" /\ DoneEvent(s).status = "done"
         /\ BlockedEvent(s).status = "blocked"
         /\ \A ev \in {CostEvent(s), ErrorEvent(s), EscalationEvent(s)} : ev.status = None /\ None # "done"
         /\ CostEvent(s).cost = 1
         /\ \A ev \in {RunningEvent(s), ErrorEvent(s), DoneEvent(s), BlockedEvent(s),
                       EscalationEvent(s)} : ev.cost = 0
         /\ EscalationEvent(s).kind = "escalation"
         /\ \A ev \in {RunningEvent(s), CostEvent(s), ErrorEvent(s), DoneEvent(s), BlockedEvent(s)} :
              ev.kind # "escalation" /\ Accepts(ev)
         /\ Accepts(EscalationEvent(s)) <=> s \notin blank
<1>1. s # None /\ None # "done" /\ None # "job" /\ None # Blank
  BY NoneAssumption, TelemetryAssumption DEF Subtask, Statuses
<1>2. QED
  BY <1>1 DEF RunningEvent, CostEvent, ErrorEvent, DoneEvent, BlockedEvent, EscalationEvent,
    SubEvent, Accepts, RequiresTaskId, RequiresSubtaskId, Text, Blank

\* Lines of one and of two posts.
LEMMA Tails ==
  ASSUME NEW a, NEW b
  PROVE  Tail(<<a>>) = <<>> /\ Tail(<<a, b>>) = <<b>>
OBVIOUS

\* The same with their heads and lengths.
LEMMA ShortLines ==
  ASSUME NEW a, NEW b
  PROVE  /\ Head(<<a>>) = a /\ Tail(<<a>>) = <<>>
         /\ Head(<<a, b>>) = a /\ Tail(<<a, b>>) = <<b>>
         /\ <<a>> # <<>> /\ <<a, b>> # <<>>
         /\ Len(<<a>>) = 1 /\ Len(<<a, b>>) = 2 /\ Len(<<>>) = 0
OBVIOUS

\* Two posts, one after the other.
LEMMA Pair ==
  ASSUME NEW a, NEW b
  PROVE  <<a>> \o <<b>> = <<a, b>>
<1>1. /\ <<a>> \in Seq({a, b}) /\ Len(<<a>>) = 1 /\ <<a>>[1] = a
      /\ <<b>> \in Seq({a, b}) /\ Len(<<b>>) = 1 /\ <<b>>[1] = b
      /\ <<a, b>> \in Seq({a, b}) /\ Len(<<a, b>>) = 2 /\ <<a, b>>[1] = a /\ <<a, b>>[2] = b
  OBVIOUS
<1>2. /\ <<a>> \o <<b>> \in Seq({a, b}) /\ Len(<<a>> \o <<b>>) = 2
      /\ (<<a>> \o <<b>>)[1] = a /\ (<<a>> \o <<b>>)[2] = b
  BY <1>1, ConcatProperties
<1>3. \A i \in 1..Len(<<a, b>>) : (<<a>> \o <<b>>)[i] = <<a, b>>[i]
  BY <1>1, <1>2
<1>4. QED
  BY <1>1, <1>2, <1>3, SeqEqual

\* What is left in the line of thread s fits its state.
LEMMA LineGoesOn ==
  ASSUME NEW s \in Subtask, PoolInv, LinesInv, Sent(s)
  PROVE  Line(s)'
<1>1. UNCHANGED <<thread, blank>> /\ out[s] # <<>> /\ out'[s] = Tail(out[s])
  BY DEF Sent, poolVars, LinesInv, Thread
<1> HIDE DEF Sent
<1>2. Line(s)
  BY DEF LinesInv
<1>3. EscalationEvent(s)' = EscalationEvent(s)
  BY <1>1 DEF EscalationEvent, SubEvent
<1>0. /\ Tail(<<CostEvent(s), ErrorEvent(s)>>) = <<ErrorEvent(s)>>
      /\ Tail(<<BlockedEvent(s), EscalationEvent(s)>>) = <<EscalationEvent(s)>>
      /\ \A ev : Tail(<<ev>>) = <<>>
  BY Tails
<1>4. CASE thread[s] \in {"trying", "exhausted"}
  <2>1. out'[s] \in {<<>>, <<ErrorEvent(s)>>}
    BY <1>0, <1>1, <1>2, <1>4 DEF Line
  <2>2. QED
    BY <1>1, <1>4, <2>1 DEF Line
<1>5. CASE thread[s] \in {"passed", "ok"}
  <2>1. out'[s] = <<>>
    BY <1>0, <1>1, <1>2, <1>5 DEF Line
  <2>2. QED
    BY <1>1, <1>5, <2>1 DEF Line
<1>6. CASE thread[s] = "raised"
  <2>1. out'[s] \in {<<>>, <<EscalationEvent(s)>>}
    BY <1>0, <1>1, <1>2, <1>6 DEF Line
  <2>2. QED
    BY <1>1, <1>3, <1>6, <2>1 DEF Line
<1>7. thread[s] \notin {"none", "queued", "calling"}
  BY <1>1, <1>2 DEF Line
<1>8. QED
  BY <1>4, <1>5, <1>6, <1>7 DEF PoolInv, Pool!ThreadState

\* What thread s posts next, and what it will have left to post.
Posts(s, head, rest) ==
  Head(out[s]) = head /\ Tail(out[s]) = rest /\ Len(out[s]) = Len(rest) + 1

\* One post, and nothing after it.
LEMMA OneInLine ==
  ASSUME NEW s, NEW a, out[s] = <<a>>
  PROVE  Posts(s, a, <<>>)
BY DEF Posts

\* Two posts.
LEMMA TwoInLine ==
  ASSUME NEW s, NEW a, NEW b, out[s] = <<a, b>>
  PROVE  Posts(s, a, <<b>>)
BY DEF Posts

\* The posts a thread of a sub-task can make next, by the state it is in.
LEMMA ThreadPosts ==
  ASSUME NEW s \in Subtask, PoolInv, LinesInv, out[s] # <<>>
  PROVE  \/ thread[s] = "trying" /\ Posts(s, RunningEvent(s), <<>>)
         \/ thread[s] \in {"trying", "exhausted"} /\ Posts(s, CostEvent(s), <<ErrorEvent(s)>>)
         \/ thread[s] \in {"trying", "exhausted"} /\ Posts(s, ErrorEvent(s), <<>>)
         \/ thread[s] = "passed" /\ Posts(s, CostEvent(s), <<>>)
         \/ thread[s] = "ok" /\ Posts(s, DoneEvent(s), <<>>)
         \/ thread[s] = "raised" /\ Posts(s, BlockedEvent(s), <<EscalationEvent(s)>>)
         \/ thread[s] = "raised" /\ Posts(s, EscalationEvent(s), <<>>)
<1>1. Line(s)
  BY DEF LinesInv
<1>2. CASE thread[s] \in {"trying", "exhausted"}
  <2>1. \/ out[s] = <<CostEvent(s), ErrorEvent(s)>>
        \/ out[s] = <<ErrorEvent(s)>>
        \/ thread[s] = "trying" /\ out[s] = <<RunningEvent(s)>>
    BY <1>1, <1>2 DEF Line
  <2>2. QED
    BY <1>2, <2>1, OneInLine, TwoInLine
<1>3. CASE thread[s] = "passed"
  BY <1>1, <1>3, OneInLine DEF Line
<1>4. CASE thread[s] = "ok"
  BY <1>1, <1>4, OneInLine DEF Line
<1>5. CASE thread[s] = "raised"
  BY <1>1, <1>5, OneInLine, TwoInLine DEF Line
<1>6. thread[s] \notin {"none", "queued", "calling"}
  BY <1>1 DEF Line
<1>7. QED
  BY <1>2, <1>3, <1>4, <1>5, <1>6 DEF PoolInv, Pool!ThreadState

\* Whatever is posted is an event.
LEMMA HeadIsEvent ==
  ASSUME NEW t \in Thread, PoolInv, LinesInv, out[t] # <<>>
  PROVE  Head(out[t]) \in Event
<1>1. CASE t \in Subtask
  BY <1>1, ThreadPosts, EventTypes DEF Posts
<1>2. CASE t = JobThread
  <2>1. out[t] \in Seq(JobEvent) /\ Head(out[t]) \in JobEvent
    BY <1>2 DEF LinesInv
  <2>2. QED
    BY <2>1 DEF JobEvent
<1>3. QED
  BY <1>1, <1>2 DEF Thread

\* The job's thread is no sub-task's.
LEMMA ThreadsDiffer == JobThread \notin Subtask
BY TelemetryAssumption DEF JobThread, Subtask

\* A line that nothing touches.
LEMMA LineStays ==
  ASSUME NEW s \in Subtask, Line(s), thread'[s] = thread[s], out'[s] = out[s],
         s \in blank' <=> s \in blank
  PROVE  Line(s)'
<1>1. EscalationEvent(s)' = EscalationEvent(s)
  BY DEF EscalationEvent, SubEvent
<1>2. QED
  BY <1>1 DEF Line

\* A post that left its line leaves all lines in order.
LEMMA SentLines ==
  ASSUME NEW t \in Thread, PoolInv, LinesInv, Sent(t), late' \in Seq(Event)
  PROVE  LinesInv'
<1>1. /\ out[t] # <<>> /\ DOMAIN out = Thread /\ DOMAIN out' = Thread
      /\ out'[t] = Tail(out[t]) /\ \A r \in Thread \ {t} : out'[r] = out[r]
      /\ UNCHANGED <<thread, blank>>
  BY DEF Sent, LinesInv, poolVars
<1>2. ASSUME NEW s \in Subtask PROVE Line(s)'
  <2>1. CASE s = t
    BY <2>1, LineGoesOn
  <2>2. CASE s # t
    BY <1>1, <2>2, LineStays DEF LinesInv, Thread
  <2>3. QED
    BY <2>1, <2>2
<1>3. out'[JobThread] \in Seq(JobEvent)
  <2>1. CASE t = JobThread
    <3>1. out[t] \in Seq(JobEvent) /\ out[t] # <<>>
      BY <1>1, <2>1 DEF LinesInv
    <3>2. Tail(out[t]) \in Seq(JobEvent)
      BY <3>1, HeadTailProperties
    <3>3. QED
      BY <1>1, <2>1, <3>2
  <2>2. CASE t # JobThread
    BY <1>1, <2>2 DEF LinesInv, Thread
  <2>3. QED
    BY <2>1, <2>2
<1>4. QED
  BY <1>1, <1>2, <1>3 DEF LinesInv

\* A sequence without its i-th element.
LEMMA RemoveAtProperties ==
  ASSUME NEW S, NEW s \in Seq(S), NEW i \in 1..Len(s)
  PROVE  /\ RemoveAt(s, i) \in Seq(S)
         /\ Len(RemoveAt(s, i)) = Len(s) - 1
         /\ \A k \in 1..(Len(s) - 1) : RemoveAt(s, i)[k] = IF k < i THEN s[k] ELSE s[k + 1]
<1> DEFINE front == SubSeq(s, 1, i - 1)
           back == SubSeq(s, i + 1, Len(s))
<1>1. /\ front \in Seq(S) /\ Len(front) = i - 1
      /\ \A k \in 1..(i - 1) : front[k] = s[k]
  <2>1. \A k \in 1..(i - 1) : s[k] \in S
    OBVIOUS
  <2>2. QED
    BY <2>1, SubSeqProperties
<1>2. /\ back \in Seq(S) /\ Len(back) = Len(s) - i
      /\ \A k \in 1..(Len(s) - i) : back[k] = s[k + i]
  <2>1. \A k \in (i + 1)..Len(s) : s[k] \in S
    OBVIOUS
  <2>2. QED
    BY <2>1, SubSeqProperties
<1> HIDE DEF front, back
<1>3. /\ front \o back \in Seq(S)
      /\ Len(front \o back) = Len(front) + Len(back)
      /\ \A k \in 1..(Len(front) + Len(back)) :
           (front \o back)[k] = IF k <= Len(front) THEN front[k] ELSE back[k - Len(front)]
  BY <1>1, <1>2, ConcatProperties
<1>4. Len(s) \in Nat /\ Len(front) + Len(back) = Len(s) - 1
  BY <1>1, <1>2
<1>5. RemoveAt(s, i) = front \o back
  BY DEF RemoveAt, front, back
<1>6. ASSUME NEW k \in 1..(Len(s) - 1)
      PROVE  (front \o back)[k] = IF k < i THEN s[k] ELSE s[k + 1]
  <2>1. CASE k < i
    <3>1. k \in 1..(i - 1) /\ k <= Len(front) /\ k \in 1..(Len(front) + Len(back))
      BY <1>1, <1>4, <2>1
    <3>2. QED
      BY <1>1, <1>3, <2>1, <3>1
  <2>2. CASE ~ (k < i)
    <3>1. /\ k - (i - 1) \in 1..(Len(s) - i) /\ k \in 1..(Len(front) + Len(back))
          /\ ~ (k <= Len(front)) /\ k - (i - 1) + i = k + 1
      BY <1>1, <1>4, <2>2
    <3>2. (front \o back)[k] = back[k - (i - 1)]
      BY <1>1, <1>3, <3>1
    <3>3. back[k - (i - 1)] = s[k - (i - 1) + i]
      BY <1>2, <3>1
    <3>4. QED
      BY <2>2, <3>1, <3>2, <3>3
  <2>3. QED
    BY <2>1, <2>2
<1>7. QED
  BY <1>3, <1>4, <1>5, <1>6

\* A step of a sub-task's thread, which posts nothing while it has posts to
\* make, leaves its line in order.
LEMMA SubStepLines ==
  ASSUME NEW s \in Subtask, PoolInv, LinesInv, SubStep(s)
  PROVE  LinesInv' /\ Free(s)
<1>1. /\ Free(s) /\ late' = late
      /\ \A r \in Subtask \ {s} : thread'[r] = thread[r] /\ (r \in blank' <=> r \in blank)
  <2>1. Free(s) /\ late' = late
    BY DEF SubStep, Start, Attempt, Succeed, Fail, Escalate, Complete, Says, net
  <2>2. blank' \in {blank, blank \cup {s}}
    BY DEF SubStep, Start, Attempt, Succeed, Fail, Escalate, Complete
  <2>3. \A r \in Subtask \ {s} : thread'[r] = thread[r]
    BY DEF SubStep, Start, Attempt, Succeed, Fail, Escalate, Complete, PoolInv,
      Pool!Start, Pool!Attempt, Pool!CallSucceeds, Pool!CallFails, Pool!Escalate, Pool!Complete, Pool!Move
  <2>4. QED
    BY <2>1, <2>2, <2>3
<1>3. DOMAIN out' = Thread /\ \A r \in Thread \ {s} : out'[r] = out[r]
  BY DEF SubStep, Start, Attempt, Succeed, Fail, Escalate, Complete, Says, Quiet, LinesInv
<1>4. Line(s)'
  <2>1. CASE Start(s)
    BY <2>1 DEF Start, Pool!Start, Pool!Move, PoolInv, LinesInv, Says, Line, RunningEvent
  <2>2. CASE Attempt(s)
    BY <2>2 DEF Attempt, Pool!Attempt, Pool!Move, PoolInv, LinesInv, Quiet, Free, Line
  <2>3. CASE Succeed(s)
    BY <2>3 DEF Succeed, Pool!CallSucceeds, Pool!Move, PoolInv, LinesInv, Says, Line, CostEvent
  <2>4. CASE Fail(s)
    <3>1. <<CostEvent(s)>> \o <<ErrorEvent(s)>> = <<CostEvent(s), ErrorEvent(s)>>
      BY Pair
    <3>2. out'[s] \in {<<CostEvent(s), ErrorEvent(s)>>, <<ErrorEvent(s)>>}
      BY <2>4, <3>1 DEF Fail, LinesInv, Says, CostEvent, ErrorEvent, Thread
    <3>3. thread'[s] \in {"trying", "exhausted"}
      BY <2>4 DEF Fail, Pool!CallFails, Pool!Move, PoolInv
    <3>4. QED
      BY <3>2, <3>3 DEF Line
  <2>5. CASE Escalate(s)
    <3>1. thread'[s] = "raised" /\ blank' = blank
      BY <2>5 DEF Escalate, Pool!Escalate, Pool!Move, PoolInv
    <3>2. EscalationEvent(s)' = EscalationEvent(s)
      BY <3>1 DEF EscalationEvent, SubEvent
    <3>3. out'[s] = <<BlockedEvent(s), EscalationEvent(s)>>
      BY <2>5 DEF Escalate, LinesInv, Says, BlockedEvent, EscalationEvent, Thread
    <3>4. QED
      BY <3>1, <3>2, <3>3 DEF Line
  <2>6. CASE Complete(s)
    <3>1. thread'[s] = "ok" /\ out'[s] = <<DoneEvent(s)>>
      BY <2>6 DEF Complete, Pool!Complete, Pool!Move, PoolInv, LinesInv, Says, DoneEvent, Thread
    <3>2. QED
      BY <3>1 DEF Line
  <2>7. QED
    BY <2>1, <2>2, <2>3, <2>4, <2>5, <2>6 DEF SubStep
<1>5. ASSUME NEW r \in Subtask, r # s PROVE Line(r)'
  BY <1>1, <1>3, <1>5, LineStays DEF LinesInv, Thread
<1>6. out'[JobThread] = out[JobThread]
  BY <1>3, ThreadsDiffer DEF Thread
<1>7. QED
  BY <1>1, <1>3, <1>4, <1>5, <1>6 DEF LinesInv

\* An event about the task is one of the job's.
LEMMA TaskEventTypes ==
  ASSUME NEW kind \in {"log", "task_created", "agent_assigned", "status_changed"},
         NEW status \in Statuses \cup {None}
  PROVE  TaskEvent(kind, status) \in JobEvent
BY NoneAssumption, TelemetryAssumption
DEF TaskEvent, JobEvent, Event, IsTaskLevel, Accepts, RequiresSubtaskId, Kind

\* No task is done while it is announced.
OpenEvent == {ev \in JobEvent : ev.status # "done"}

\* The announcement: the job, its sub-tasks, and the job again.
Announcement ==
  <<TaskEvent("task_created", "queued"), TaskEvent("agent_assigned", "planning")>>
  \o [s \in Subtask |-> CreatedEvent(s)]
  \o <<TaskEvent("status_changed", "running")>>

\* The announcement ends with the job running, and says of nothing it is done.
LEMMA AnnouncementLine ==
  /\ Announcement \in Seq(OpenEvent)
  /\ Len(Announcement) \in Nat \ {0}
  /\ Announcement[Len(Announcement)] = TaskEvent("status_changed", "running")
<1> DEFINE first == <<TaskEvent("task_created", "queued"), TaskEvent("agent_assigned", "planning")>>
           created == [s \in Subtask |-> CreatedEvent(s)]
           last == <<TaskEvent("status_changed", "running")>>
<1>1. first \in Seq(OpenEvent) /\ last \in Seq(OpenEvent) /\ Len(last) = 1
      /\ last[1] = TaskEvent("status_changed", "running")
  <2>1. /\ TaskEvent("task_created", "queued") \in OpenEvent
        /\ TaskEvent("agent_assigned", "planning") \in OpenEvent
        /\ TaskEvent("status_changed", "running") \in OpenEvent
    BY TaskEventTypes DEF Statuses, OpenEvent, TaskEvent
  <2>2. QED
    BY <2>1
<1>2. created \in Seq(OpenEvent)
  <2>1. \A s \in Subtask : CreatedEvent(s) \in OpenEvent
    <3> SUFFICES ASSUME NEW s \in Subtask PROVE CreatedEvent(s) \in OpenEvent
      OBVIOUS
    <3>1. s # None /\ None # "job" /\ None # Blank
      BY NoneAssumption, TelemetryAssumption DEF Subtask
    <3>2. Accepts(CreatedEvent(s))
      BY <3>1 DEF CreatedEvent, SubEvent, Accepts
    <3>3. QED
      BY <3>2, EventTypes DEF CreatedEvent, SubEvent, JobEvent, OpenEvent
  <2>2. QED
    BY <2>1, TelemetryAssumption DEF Subtask
<1> HIDE DEF first, created, last
<1>3. first \o created \in Seq(OpenEvent)
  BY <1>1, <1>2
<1>4. /\ (first \o created) \o last \in Seq(OpenEvent)
      /\ Len((first \o created) \o last) = Len(first \o created) + Len(last)
      /\ \A i \in 1..Len(first \o created) + Len(last) :
           ((first \o created) \o last)[i] = IF i <= Len(first \o created) THEN (first \o created)[i]
                                             ELSE last[i - Len(first \o created)]
  BY <1>1, <1>3, ConcatProperties
<1>5. Announcement = (first \o created) \o last
  BY DEF Announcement, first, created, last
<1>6. Len(first \o created) \in Nat
  BY <1>3
<1> HIDE DEF Announcement
<1> DEFINE n == Len(first \o created) + 1
<1>7. n \in 1..Len(first \o created) + Len(last) /\ ~ (n <= Len(first \o created))
      /\ n - Len(first \o created) = 1 /\ Len((first \o created) \o last) = n
  BY <1>1, <1>4, <1>6
<1>8. ((first \o created) \o last)[n] = last[1]
  BY <1>4, <1>7
<1>9. QED
  BY <1>1, <1>4, <1>5, <1>6, <1>7, <1>8

\* What the review and the quality gate post.
LEMMA ReviewPosts ==
  ASSUME LinesInv, Review \/ Gate
  PROVE  out'[JobThread] \in {<<Reviewing>>, <<Reviewing, Note>>}
BY DEF Review, Gate, Says, LinesInv, Thread

\* A step of the job's thread leaves the lines in order.
LEMMA JobStepLines ==
  ASSUME PoolInv, LinesInv, JobStep
  PROVE  LinesInv' /\ (Free(JobThread) \/ Blocked)
<1>1. /\ late' = late /\ blank' = blank
      /\ Blocked \/ Free(JobThread)
      /\ DOMAIN out' = Thread /\ \A r \in Thread \ {JobThread} : out'[r] = out[r]
  BY DEF JobStep, Announce, RunPool, Blocked, Review, Gate, Conclude, Says, Quiet, net, LinesInv
<1>2. ASSUME NEW s \in Subtask PROVE Line(s)'
  <2>1. out'[s] = out[s]
    BY <1>1, ThreadsDiffer DEF Thread
  <2>2. CASE UNCHANGED poolVars
    BY <1>1, <2>1, <2>2, LineStays DEF LinesInv, poolVars
  <2>3. CASE RunPool
    <3>1. Line(s)
      BY DEF LinesInv
    <3>2. CASE thread[s] = "none"
      BY <2>1, <2>3, <3>1, <3>2, RunPoolInv DEF Line
    <3>3. CASE thread[s] # "none"
      <4>1. thread'[s] = thread[s]
        BY <2>3, <3>3, RunPoolInv
      <4>2. QED
        BY <1>1, <2>1, <3>1, <4>1, LineStays
    <3>4. QED
      BY <3>2, <3>3
  <2>4. QED
    BY <2>2, <2>3 DEF JobStep, Announce, Blocked, Review, Gate, Conclude
<1>3. out'[JobThread] \in Seq(JobEvent)
  <2>1. CASE Announce
    <3>1. out'[JobThread] = Announcement
      BY <2>1 DEF Announce, Says, LinesInv, Thread, Announcement, CreatedEvent
    <3>2. QED
      BY <3>1, AnnouncementLine DEF OpenEvent
  <2>2. CASE Review \/ Gate
    <3>1. out'[JobThread] \in {<<Reviewing>>, <<Reviewing, Note>>}
      BY <2>2, ReviewPosts
    <3>2. Reviewing \in JobEvent /\ Note \in JobEvent
      BY TaskEventTypes DEF Statuses, Reviewing, Note
    <3>3. <<Reviewing>> \in Seq(JobEvent) /\ <<Reviewing, Note>> \in Seq(JobEvent)
      BY <3>2
    <3>4. QED
      BY <3>1, <3>3
  <2>3. CASE Conclude
    <3>1. PICK verdict \in {"done", "failed"} : Says(JobThread, <<TaskEvent("status_changed", verdict)>>)
      BY <2>3 DEF Conclude
    <3>2. out'[JobThread] = <<TaskEvent("status_changed", verdict)>>
      BY <3>1 DEF Says, LinesInv, Thread
    <3>3. TaskEvent("status_changed", verdict) \in JobEvent
      BY TaskEventTypes DEF Statuses
    <3>4. QED
      BY <3>2, <3>3
  <2>4. CASE UNCHANGED out
    BY <2>4 DEF LinesInv
  <2>5. QED
    BY <2>1, <2>2, <2>3, <2>4 DEF JobStep, RunPool, Blocked, Quiet
<1>4. QED
  BY <1>1, <1>2, <1>3 DEF LinesInv

\* Every step leaves the lines in order.
LEMMA LinesStep ==
  ASSUME PoolInv, LinesInv, [Next]_vars
  PROVE  LinesInv'
<1>1. CASE JobStep
  BY <1>1, JobStepLines
<1>2. CASE \E s \in Subtask : SubStep(s)
  BY <1>2, SubStepLines
<1>3. ASSUME NEW t \in Thread, Post(t) PROVE LinesInv'
  <2>1. Sent(t) /\ out[t] # <<>>
    BY <1>3 DEF Post, Deliver, Lose, GiveUp, Sent
  <2>2. Head(out[t]) \in Event
    BY <2>1, HeadIsEvent
  <2>3. late' \in Seq(Event)
    BY <1>3, <2>2 DEF Post, Deliver, Lose, GiveUp, net, LinesInv
  <2>4. QED
    BY <2>1, <2>3, SentLines
<1>4. ASSUME late' \in Seq(Event), UNCHANGED <<thread, blank, out>> PROVE LinesInv'
  <2>1. \A s \in Subtask : Line(s)'
    BY <1>4, LineStays DEF LinesInv
  <2>2. QED
    BY <1>4, <2>1 DEF LinesInv
<1>5. ASSUME NEW i \in DOMAIN late, Arrive(i) PROVE LinesInv'
  <2>1. late' \in Seq(Event)
    <3>1. late \in Seq(Event) /\ i \in 1..Len(late)
      BY DEF LinesInv
    <3>2. QED
      BY <1>5, <3>1, RemoveAtProperties DEF Arrive
  <2>2. QED
    BY <1>4, <1>5, <2>1 DEF Arrive, poolVars
<1>6. CASE GoDown \/ ComeBack \/ UNCHANGED vars
  BY <1>4, <1>6 DEF GoDown, ComeBack, vars, poolVars, net, LinesInv
<1>7. QED
  BY <1>1, <1>2, <1>3, <1>5, <1>6 DEF Next
----------------------------------------------------------------------------
\* What an event the dashboard accepts does to what it shows.
LEMMA ApplyEffect ==
  ASSUME NEW ev \in Event, model' = ApplyEvent(model, ev), ShownCost \in Nat
  PROVE  /\ "job" \in DOMAIN model'.tasks
         /\ Status' = IF IsTaskLevel(ev) \/ "job" \notin DOMAIN model.tasks
                      THEN Or(ev.status, Status) ELSE Status
         /\ \A s \in Subtask :
              StatusOf(s)' = IF ev.sub = s THEN Or(ev.status, StatusOf(s)) ELSE StatusOf(s)
         /\ ShownCost' = ShownCost + ev.cost
<1>1. ev.task = "job" /\ ev.task # None /\ ev.day = 1 /\ ev.cost \in {0, 1} /\ ev.sub \in Subtask \cup {None}
  BY TelemetryAssumption DEF Event
<1>2. /\ model'.tasks = ProjectTask(model.tasks, ev)
      /\ model'.subtasks = ProjectSubtask(model.subtasks, ev)
      /\ model'.daily[1].cost = (IF 1 \in DOMAIN model.daily THEN model.daily[1].cost ELSE 0) + ev.cost
      /\ 1 \in DOMAIN model'.daily
  BY <1>1 DEF ApplyEvent, BumpDaily, Put
<1>3. /\ "job" \in DOMAIN model'.tasks
      /\ model'.tasks["job"].status =
            IF "job" \in DOMAIN model.tasks THEN NextStatus(model.tasks["job"], ev) ELSE ev.status
  BY <1>1, <1>2 DEF ProjectTask, Put, NewRow
<1>4. Status' = IF IsTaskLevel(ev) \/ "job" \notin DOMAIN model.tasks
                THEN Or(ev.status, Status) ELSE Status
  BY <1>3 DEF Status, NextStatus, Or
<1>5. ASSUME NEW s \in Subtask
      PROVE  StatusOf(s)' = IF ev.sub = s THEN Or(ev.status, StatusOf(s)) ELSE StatusOf(s)
  <2>1. s # None
    BY TelemetryAssumption DEF Subtask
  <2>2. CASE ev.sub = None
    BY <1>1, <1>2, <2>1, <2>2 DEF ProjectSubtask, StatusOf
  <2>3. CASE ev.sub # None
    BY <1>1, <1>2, <2>1, <2>3 DEF ProjectSubtask, StatusOf, Put, Or
  <2>4. QED
    BY <2>2, <2>3
<1>6. ShownCost' = ShownCost + ev.cost
  BY <1>2 DEF ShownCost
<1>7. QED
  BY <1>3, <1>4, <1>5, <1>6

\* A step posts an event, or none; what an event does to the board.
LEMMA BoardOf ==
  ASSUME NEW ev \in Event, Apply(ev), ShownCost \in Nat
  PROVE  \/ /\ ~ Accepts(ev) /\ UNCHANGED <<Status, ShownCost, escalated, heard>>
            /\ \A s \in Subtask : UNCHANGED StatusOf(s)
            /\ UNCHANGED <<model>>
         \/ /\ Accepts(ev) /\ model' = ApplyEvent(model, ev)
            /\ escalated' = IF ev.kind = "escalation" THEN escalated \cup {ev.sub} ELSE escalated
            /\ heard' = (heard \/ (IsTaskLevel(ev) /\ ev.status # None))
BY DEF Apply, board, Status, ShownCost, StatusOf

\* A true event keeps the board true.
LEMMA TrueBoard ==
  ASSUME TruthInv, NEW ev \in Event, Truthful(ev), Apply(ev), ShownCost \in Nat,
         UNCHANGED <<thread, outcome>>
  PROVE  /\ \A s \in Subtask : StatusOf(s)' = "done" => thread'[s] = "ok"
         /\ heard' => "job" \in DOMAIN model'.tasks
         /\ heard' /\ Status' = "done" => outcome' = "done"
<1>1. CASE ~ Accepts(ev)
  BY <1>1, BoardOf DEF TruthInv
<1>2. CASE Accepts(ev)
  <2>1. model' = ApplyEvent(model, ev) /\ heard' = (heard \/ (IsTaskLevel(ev) /\ ev.status # None))
    BY <1>2, BoardOf
  <2>2. ASSUME NEW s \in Subtask, StatusOf(s)' = "done" PROVE thread[s] = "ok"
    <3>1. s # None
      BY TelemetryAssumption DEF Subtask
    <3>2. StatusOf(s) = "done" \/ (ev.sub = s /\ ev.status = "done")
      BY <2>1, <2>2, ApplyEffect DEF Or
    <3>3. QED
      BY <3>1, <3>2 DEF TruthInv, Truthful, IsTaskLevel
  <2>3. ASSUME heard', Status' = "done" PROVE outcome = "done"
    <3>1. CASE IsTaskLevel(ev) /\ ev.status # None
      <4>1. ev.status = "done"
        BY <2>1, <2>3, <3>1, ApplyEffect DEF Or
      <4>2. QED
        BY <3>1, <4>1 DEF Truthful
    <3>2. CASE ~ (IsTaskLevel(ev) /\ ev.status # None)
      <4>1. heard /\ "job" \in DOMAIN model.tasks
        BY <2>1, <2>3, <3>2 DEF TruthInv
      <4>2. Status' = Status
        BY <2>1, <3>2, <4>1, ApplyEffect DEF Or
      <4>3. QED
        BY <2>3, <4>1, <4>2 DEF TruthInv
    <3>3. QED
      BY <3>1, <3>2
  <2>4. QED
    BY <2>1, <2>2, <2>3, ApplyEffect
<1>3. QED
  BY <1>1, <1>2

\* What is true stays true.
LEMMA TruthfulStays ==
  ASSUME NEW ev \in Event, Truthful(ev), Onwards
  PROVE  Truthful(ev)'
BY DEF Truthful, Onwards, Event, IsTaskLevel

\* What a thread posts is true when it is posted.
LEMMA ThreadsPostTruth ==
  ASSUME NEW t \in Thread, PoolInv, LinesInv, TruthInv, out[t] # <<>>
  PROVE  Truthful(Head(out[t]))
<1>1. CASE t \in Subtask
  <2>1. t # None
    BY <1>1, TelemetryAssumption DEF Subtask
  <2>2. QED
    BY <1>1, <2>1, ThreadPosts, EventFields DEF Posts, Truthful, IsTaskLevel
<1>2. CASE t = JobThread
  <2>1. out[t] \in Seq(JobEvent)
    BY <1>2 DEF LinesInv
  <2>2. Head(out[t]) = out[t][1] /\ 1 \in DOMAIN out[t]
    BY <2>1
  <2>3. QED
    BY <1>2, <2>2 DEF TruthInv
<1>3. QED
  BY <1>1, <1>2 DEF Thread

\* What the job's thread has to post is true of the job.
LEMMA JobTruth ==
  ASSUME PoolInv, StageInv, LinesInv, TruthInv, JobStep
  PROVE  (\A k \in DOMAIN out[JobThread] : Truthful(out[JobThread][k]))'
<1> SUFFICES ASSUME NEW k \in DOMAIN out'[JobThread]
             PROVE  Truthful(out[JobThread][k])'
  OBVIOUS
<1>1. CASE Announce
  <2>1. out'[JobThread] = Announcement
    BY <1>1 DEF Announce, Says, LinesInv, Thread, Announcement, CreatedEvent
  <2>2. out'[JobThread][k] \in OpenEvent
    BY <2>1, AnnouncementLine
  <2>3. QED
    BY <2>2 DEF OpenEvent, Truthful
<1>2. CASE Review \/ Gate
  <2>1. out'[JobThread] \in {<<Reviewing>>, <<Reviewing, Note>>}
    BY <1>2, ReviewPosts
  <2>2. out'[JobThread][k].status \in {"review", None}
    BY <2>1 DEF TaskEvent, Reviewing, Note
  <2>3. QED
    BY <2>2, NoneAssumption DEF Truthful, Statuses
<1>3. CASE Conclude
  <2>1. PICK verdict \in {"done", "failed"} :
          outcome' = verdict /\ Says(JobThread, <<TaskEvent("status_changed", verdict)>>)
    BY <1>3 DEF Conclude
  <2>2. out'[JobThread] = <<TaskEvent("status_changed", verdict)>>
    BY <2>1 DEF Says, LinesInv, Thread
  <2>3. out'[JobThread][k].status = verdict /\ IsTaskLevel(out'[JobThread][k])
    BY <2>2 DEF TaskEvent, IsTaskLevel
  <2>4. QED
    BY <2>1, <2>3 DEF Truthful, IsTaskLevel
<1>4. CASE RunPool \/ Blocked
  <2>1. UNCHANGED out /\ Onwards
    BY <1>4, PoolAndStage DEF RunPool, Blocked, Quiet, Next, JobStep
  <2>2. out[JobThread][k] \in Event
    BY <2>1 DEF LinesInv, JobEvent
  <2>3. QED
    BY <2>1, <2>2, TruthfulStays DEF TruthInv
<1>5. QED
  BY <1>1, <1>2, <1>3, <1>4 DEF JobStep

\* A step that leaves the board alone.
LEMMA BoardStays ==
  ASSUME TruthInv, Onwards, UNCHANGED <<model, heard>>
  PROVE  /\ \A s \in Subtask : StatusOf(s)' = "done" => thread'[s] = "ok"
         /\ heard' => "job" \in DOMAIN model'.tasks
         /\ heard' /\ Status' = "done" => outcome' = "done"
BY DEF TruthInv, Onwards, StatusOf, Status

\* The two ways an event can be taken out of the posts under way.
LEMMA TruthOfPost ==
  ASSUME NEW t \in Thread, PoolInv, LinesInv, TruthInv, Onwards, Sent(t)
  PROVE  (\A k \in DOMAIN out[JobThread] : Truthful(out[JobThread][k]))'
<1>1. out[JobThread] \in Seq(JobEvent)
  BY DEF LinesInv
<1>2. CASE t = JobThread
  <2>1. out'[JobThread] = Tail(out[JobThread]) /\ out[JobThread] # <<>>
    BY <1>2 DEF Sent, LinesInv
  <2>2. /\ Len(out'[JobThread]) = Len(out[JobThread]) - 1 /\ out'[JobThread] \in Seq(JobEvent)
        /\ \A k \in 1..Len(out'[JobThread]) : out'[JobThread][k] = out[JobThread][k + 1]
    BY <1>1, <2>1
  <2>3. \A k \in DOMAIN out'[JobThread] :
          k + 1 \in DOMAIN out[JobThread] /\ out'[JobThread][k] = out[JobThread][k + 1]
    BY <1>1, <2>2
  <2>4. \A k \in DOMAIN out[JobThread] : out[JobThread][k] \in Event
    BY <1>1 DEF JobEvent
  <2>5. QED
    BY <2>3, <2>4, TruthfulStays DEF TruthInv
<1>3. CASE t # JobThread
  <2>1. out'[JobThread] = out[JobThread]
    BY <1>3 DEF Sent, LinesInv, Thread
  <2>2. \A k \in DOMAIN out[JobThread] : out[JobThread][k] \in Event
    BY <1>1 DEF JobEvent
  <2>3. QED
    BY <2>1, <2>2, TruthfulStays DEF TruthInv
<1>4. QED
  BY <1>2, <1>3

\* A post that is late does not become false.
LEMMA LateStaysTrue ==
  ASSUME LinesInv, TruthInv, Onwards, UNCHANGED late
  PROVE  (\A k \in DOMAIN late : Truthful(late[k]))'
<1>1. \A k \in DOMAIN late : late[k] \in Event
  BY DEF LinesInv
<1>2. QED
  BY <1>1, TruthfulStays DEF TruthInv

\* Every step keeps the posts and the board true.
LEMMA TruthStep ==
  ASSUME PoolInv, StageInv, LinesInv, TruthInv, ShownCost \in Nat, [Next]_vars
  PROVE  TruthInv'
<1>1. Onwards
  BY PoolAndStage
<1>2. CASE JobStep
  <2>1. UNCHANGED <<model, heard, late>>
    BY <1>2 DEF JobStep, Announce, RunPool, Blocked, Review, Gate, Conclude, board, net
  <2>2. QED
    BY <1>1, <1>2, <2>1, JobTruth, BoardStays, LateStaysTrue DEF TruthInv
<1>3. ASSUME UNCHANGED <<model, heard, late>>, out'[JobThread] = out[JobThread] PROVE TruthInv'
  <2>1. \A k \in DOMAIN out[JobThread] : out[JobThread][k] \in Event
    BY DEF LinesInv, JobEvent
  <2>2. (\A k \in DOMAIN out[JobThread] : Truthful(out[JobThread][k]))'
    BY <1>1, <1>3, <2>1, TruthfulStays DEF TruthInv
  <2>3. QED
    BY <1>1, <1>3, <2>2, BoardStays, LateStaysTrue DEF TruthInv
<1>4. ASSUME NEW s \in Subtask, SubStep(s) PROVE TruthInv'
  <2>1. UNCHANGED <<model, heard, late>>
    BY <1>4 DEF SubStep, Start, Attempt, Succeed, Fail, Escalate, Complete, board, net
  <2>2. out'[JobThread] = out[JobThread]
    BY <1>4, ThreadsDiffer
    DEF SubStep, Start, Attempt, Succeed, Fail, Escalate, Complete, Says, Quiet, LinesInv, Thread
  <2>3. QED
    BY <1>3, <2>1, <2>2
<1>5. ASSUME NEW t \in Thread, Post(t) PROVE TruthInv'
  <2>1. Sent(t) /\ out[t] # <<>> /\ UNCHANGED <<thread, outcome>>
    BY <1>5 DEF Post, Deliver, Lose, GiveUp, Sent, poolVars, job
  <2>2. Head(out[t]) \in Event /\ Truthful(Head(out[t]))
    BY <2>1, HeadIsEvent, ThreadsPostTruth
  <2>3. (\A k \in DOMAIN out[JobThread] : Truthful(out[JobThread][k]))'
    BY <1>1, <2>1, TruthOfPost
  <2>4. CASE Deliver(t)
    <3>1. Apply(Head(out[t])) /\ late' = late
      BY <2>4 DEF Deliver, net
    <3>2. QED
      BY <1>1, <2>1, <2>2, <2>3, <3>1, TrueBoard, LateStaysTrue DEF TruthInv
  <2>5. CASE Lose(t)
    <3>1. UNCHANGED <<model, heard, late>>
      BY <2>5 DEF Lose, net, board
    <3>2. QED
      BY <1>1, <2>3, <3>1, BoardStays, LateStaysTrue DEF TruthInv
  <2>6. CASE GiveUp(t)
    <3>1. late' = Append(late, Head(out[t])) /\ UNCHANGED <<model, heard>>
      BY <2>6 DEF GiveUp, board
    <3>2. \A k \in DOMAIN late' : late'[k] = Head(out[t]) \/ (k \in DOMAIN late /\ late'[k] = late[k])
      BY <2>2, <3>1 DEF LinesInv
    <3>3. (\A k \in DOMAIN late : Truthful(late[k]))'
      BY <2>1, <2>2, <3>2 DEF TruthInv, Truthful
    <3>4. QED
      BY <1>1, <2>3, <3>1, <3>3, BoardStays DEF TruthInv
  <2>7. QED
    BY <1>5, <2>4, <2>5, <2>6 DEF Post
<1>6. ASSUME NEW i \in DOMAIN late, Arrive(i) PROVE TruthInv'
  <2>1. /\ late \in Seq(Event) /\ i \in 1..Len(late) /\ late[i] \in Event
        /\ Truthful(late[i]) /\ Apply(late[i]) /\ late' = RemoveAt(late, i)
        /\ UNCHANGED <<thread, outcome, out>>
    BY <1>6 DEF Arrive, LinesInv, TruthInv, poolVars, job
  <2>2. \A k \in DOMAIN late' : \E m \in DOMAIN late : late'[k] = late[m]
    <3> DEFINE n == Len(late)
    <3>1. /\ late' \in Seq(Event) /\ Len(late') = n - 1
          /\ \A k \in 1..(n - 1) : late'[k] = IF k < i THEN late[k] ELSE late[k + 1]
      BY <2>1, RemoveAtProperties
    <3>2. DOMAIN late = 1..n /\ DOMAIN late' = 1..(n - 1) /\ n \in Nat
      BY <2>1, <3>1
    <3> HIDE DEF n
    <3>3. \A k \in 1..(n - 1) : k \in 1..n /\ k + 1 \in 1..n
      BY <3>2
    <3>4. QED
      BY <3>1, <3>2, <3>3
  <2>3. (\A k \in DOMAIN late : Truthful(late[k]))'
    BY <2>1, <2>2 DEF Truthful, TruthInv
  <2>4. (\A k \in DOMAIN out[JobThread] : Truthful(out[JobThread][k]))'
    BY <2>1 DEF TruthInv, Truthful
  <2>5. QED
    BY <2>1, <2>3, <2>4, TrueBoard DEF TruthInv
<1>7. CASE GoDown \/ ComeBack \/ UNCHANGED vars
  BY <1>3, <1>7 DEF GoDown, ComeBack, vars, board, net
<1>8. QED
  BY <1>2, <1>4, <1>5, <1>6, <1>7 DEF Next

\* A job that is planned has posted nothing.
LEMMA InitTruth == Init => LinesInv /\ TruthInv
<1> SUFFICES ASSUME Init PROVE LinesInv /\ TruthInv
  OBVIOUS
<1>1. \A t \in Thread : out[t] = <<>>
  BY DEF Init
<1>2. DOMAIN out = Thread /\ late = <<>> /\ ~ heard
  BY DEF Init
<1>3. \A s \in Subtask : thread[s] = "none"
  BY DEF Init, Pool!Init, Pool!Subtask, Subtask
<1>4. LinesInv
  <2>1. \A s \in Subtask : Line(s)
    BY <1>1, <1>3 DEF Line, Thread
  <2>2. out[JobThread] = <<>>
    BY <1>1 DEF Thread
  <2>3. QED
    BY <1>2, <2>1, <2>2, EmptySeq DEF LinesInv
<1>5. \A s \in Subtask : StatusOf(s) = None /\ None # "done"
  BY NoneAssumption DEF Init, EmptyModel, StatusOf, Statuses
<1>6. TruthInv
  BY <1>1, <1>2, <1>5 DEF TruthInv, Thread
<1>7. QED
  BY <1>4, <1>6
----------------------------------------------------------------------------
\* Counting what is owed to the board.
LEMMA SubtaskSets ==
  ASSUME NEW S \in SUBSET Subtask, NEW s \in Subtask
  PROVE  /\ Cardinality(S) \in Nat
         /\ Cardinality(S \ {s}) = IF s \in S THEN Cardinality(S) - 1 ELSE Cardinality(S)
         /\ Cardinality(S \cup {s}) = IF s \in S THEN Cardinality(S) ELSE Cardinality(S) + 1
<1>1. IsFiniteSet(Subtask)
  <2>1. 1 \in Int /\ NumSubtasks \in Int
    BY TelemetryAssumption
  <2>2. IsFiniteSet(1..NumSubtasks)
    BY <2>1, FS_Interval
  <2>3. QED
    BY <2>2 DEF Subtask
<1>2. IsFiniteSet(S)
  BY <1>1, FS_Subset
<1>3. QED
  BY <1>2, FS_CardinalityType, FS_AddElement, FS_RemoveElement

\* The threads that owe a charge can be counted.
LEMMA OwingCounted == Cardinality(Owing) \in Nat
<1>1. IsFiniteSet(Subtask)
  BY TelemetryAssumption, FS_Interval DEF Subtask
<1>2. QED
  BY <1>1, FS_Subset, FS_CardinalityType DEF Owing

\* So can the late posts that carry one.
LEMMA CostsFinite ==
  ASSUME NEW posts \in Seq(Event)
  PROVE  IsFiniteSet(CostsIn(posts)) /\ Cardinality(CostsIn(posts)) \in Nat
<1>1. IsFiniteSet(1..Len(posts))
  BY FS_Interval
<1>2. CostsIn(posts) \subseteq 1..Len(posts)
  BY DEF CostsIn
<1>3. QED
  BY <1>1, <1>2, FS_Subset, FS_CardinalityType

\* A post more that is late.
LEMMA CostsAppend ==
  ASSUME NEW posts \in Seq(Event), NEW ev \in Event
  PROVE  Cardinality(CostsIn(Append(posts, ev))) = Cardinality(CostsIn(posts)) + ev.cost
<1> DEFINE n == Len(posts) + 1
<1>1. /\ DOMAIN Append(posts, ev) = 1..n /\ Append(posts, ev)[n] = ev
      /\ \A i \in 1..Len(posts) : Append(posts, ev)[i] = posts[i]
      /\ DOMAIN posts = 1..Len(posts) /\ Len(posts) \in Nat
  OBVIOUS
<1>2. ev.cost \in {0, 1}
  BY DEF Event
<1>3. CostsIn(Append(posts, ev)) = IF ev.cost = 1 THEN CostsIn(posts) \cup {n} ELSE CostsIn(posts)
  BY <1>1 DEF CostsIn
<1>4. n \notin CostsIn(posts)
  BY <1>1 DEF CostsIn
<1>5. IsFiniteSet(CostsIn(posts)) /\ Cardinality(CostsIn(posts)) \in Nat
  BY CostsFinite
<1>6. Cardinality(CostsIn(posts) \cup {n}) = Cardinality(CostsIn(posts)) + 1
  BY <1>4, <1>5, FS_AddElement
<1>7. QED
  BY <1>2, <1>3, <1>5, <1>6

\* A late post less.
LEMMA CostsRemove ==
  ASSUME NEW posts \in Seq(Event), NEW i \in 1..Len(posts)
  PROVE  Cardinality(CostsIn(RemoveAt(posts, i))) = Cardinality(CostsIn(posts)) - posts[i].cost
<1> DEFINE rest == RemoveAt(posts, i)
           old(k) == IF k < i THEN k ELSE k + 1
           f == [k \in CostsIn(rest) |-> old(k)]
           T == CostsIn(posts) \ {i}
<1>1. /\ rest \in Seq(Event) /\ Len(rest) = Len(posts) - 1
      /\ \A k \in 1..(Len(posts) - 1) : rest[k] = posts[old(k)]
  BY RemoveAtProperties
<1>2. DOMAIN rest = 1..(Len(posts) - 1) /\ DOMAIN posts = 1..Len(posts) /\ Len(posts) \in Nat
  BY <1>1
<1> HIDE DEF rest
<1>3. f \in [CostsIn(rest) -> T]
  BY <1>1, <1>2 DEF CostsIn
<1>4. \A k, l \in CostsIn(rest) : f[k] = f[l] => k = l
  BY <1>2 DEF CostsIn
<1>5. \A m \in T : \E k \in CostsIn(rest) : f[k] = m
  <2> SUFFICES ASSUME NEW m \in T PROVE \E k \in CostsIn(rest) : f[k] = m
    OBVIOUS
  <2> DEFINE k == IF m < i THEN m ELSE m - 1
  <2>1. m \in 1..Len(posts) /\ posts[m].cost = 1 /\ m # i
    BY <1>2 DEF CostsIn
  <2>2. k \in 1..(Len(posts) - 1) /\ old(k) = m
    BY <1>2, <2>1
  <2>3. k \in CostsIn(rest)
    BY <1>1, <1>2, <2>1, <2>2 DEF CostsIn
  <2>4. QED
    BY <2>2, <2>3
<1>6. f \in Bijection(CostsIn(rest), T)
  BY <1>3, <1>4, <1>5 DEF Bijection, Injection, Surjection, IsInjective
<1>7. Cardinality(CostsIn(rest)) = Cardinality(T)
  BY <1>1, <1>6, CostsFinite, FS_Bijection DEF ExistsBijection
<1>8. posts[i].cost \in {0, 1} /\ (i \in CostsIn(posts) <=> posts[i].cost = 1)
  <2>1. posts[i] \in Event
    OBVIOUS
  <2>2. QED
    BY <1>2, <2>1 DEF Event, CostsIn
<1>9. Cardinality(T) = Cardinality(CostsIn(posts)) - posts[i].cost
  <2>1. IsFiniteSet(CostsIn(posts)) /\ Cardinality(CostsIn(posts)) \in Nat
    BY CostsFinite
  <2>2. CASE posts[i].cost = 1
    BY <1>8, <2>1, <2>2, FS_RemoveElement
  <2>3. CASE posts[i].cost = 0
    <3>1. T = CostsIn(posts)
      BY <1>8, <2>3
    <3>2. Cardinality(T) = Cardinality(CostsIn(posts))
      BY <3>1
    <3> HIDE DEF T
    <3>3. QED
      BY <2>1, <2>3, <3>2
  <2>4. QED
    BY <1>8, <2>2, <2>3
<1>10. QED
  BY <1>7, <1>9 DEF rest

\* A step of a sub-task's thread owes what it charges.
LEMMA SubStepOwes ==
  ASSUME NEW s \in Subtask, PoolInv, LinesInv, SpendInv, SubStep(s)
  PROVE  \/ charged' = charged /\ Cardinality(Owing') = Cardinality(Owing)
         \/ charged' = charged + 1 /\ Cardinality(Owing') = Cardinality(Owing) + 1
<1>1. out[s] = <<>> /\ s \notin Owing
  BY SubStepLines DEF Free, Owing
<1>2. \A r \in Subtask \ {s} : out'[r] = out[r]
  BY DEF SubStep, Start, Attempt, Succeed, Fail, Escalate, Complete, Says, Quiet, LinesInv, Thread
<1>3. \/ charged' = charged /\ (out'[s] = <<>> \/ Head(out'[s]).cost = 0)
      \/ charged' = charged + 1 /\ out'[s] # <<>> /\ Head(out'[s]).cost = 1
  <2>1. DOMAIN out = Thread /\ s \in Thread
    BY DEF LinesInv, Thread
  <2>2. CASE Start(s) \/ Complete(s)
    BY <2>1, <2>2 DEF Start, Complete, Says, SubEvent
  <2>3. CASE Attempt(s)
    BY <1>1, <2>1, <2>3 DEF Attempt, Quiet
  <2>4. CASE Succeed(s)
    BY <2>1, <2>4 DEF Succeed, Says, SubEvent
  <2>5. CASE Fail(s)
    <3>1. <<CostEvent(s)>> \o <<ErrorEvent(s)>> = <<CostEvent(s), ErrorEvent(s)>>
      BY Pair
    <3>2. \/ charged' = charged /\ out'[s] = <<ErrorEvent(s)>>
          \/ charged' = charged + 1 /\ out'[s] = <<CostEvent(s), ErrorEvent(s)>>
      BY <2>1, <2>5, <3>1 DEF Fail, Says, CostEvent, ErrorEvent
    <3>3. /\ Head(<<CostEvent(s), ErrorEvent(s)>>) = CostEvent(s)
          /\ Head(<<ErrorEvent(s)>>) = ErrorEvent(s)
          /\ <<CostEvent(s), ErrorEvent(s)>> # <<>>
      OBVIOUS
    <3>4. CostEvent(s).cost = 1 /\ ErrorEvent(s).cost = 0
      BY EventFields
    <3>5. QED
      BY <3>2, <3>3, <3>4
  <2>6. CASE Escalate(s)
    <3>1. charged' = charged /\ out'[s] = <<BlockedEvent(s), EscalationEvent(s)>>
      BY <2>1, <2>6 DEF Escalate, Says, BlockedEvent, EscalationEvent
    <3>2. QED
      BY <3>1, EventFields
  <2>7. QED
    BY <2>2, <2>3, <2>4, <2>5, <2>6 DEF SubStep
<1>4. Owing' = IF charged' = charged THEN Owing ELSE Owing \cup {s}
  BY <1>1, <1>2, <1>3 DEF Owing, SpendInv
<1>5. Owing \in SUBSET Subtask /\ Owing' \in SUBSET Subtask
  BY DEF Owing
<1> HIDE DEF Owing
<1>6. /\ Cardinality(Owing) \in Nat
      /\ Cardinality(Owing \cup {s}) = Cardinality(Owing) + 1
  BY <1>1, <1>5, SubtaskSets
<1>7. /\ charged \in Nat
      /\ Cardinality(Owing') =
           IF charged' = charged THEN Cardinality(Owing) ELSE Cardinality(Owing) + 1
  BY <1>4, <1>6 DEF SpendInv
<1>8. QED
  BY <1>3, <1>6, <1>7

\* A post settles what it carries.
LEMMA PostSettles ==
  ASSUME NEW t \in Thread, PoolInv, LinesInv, Sent(t)
  PROVE  /\ Cardinality(Owing') = Cardinality(Owing) - Head(out[t]).cost
         /\ Cardinality(Owing') \in Nat
         /\ Head(out[t]).cost \in {0, 1}
         /\ ~ Accepts(Head(out[t])) => Head(out[t]).cost = 0
<1>1. out[t] # <<>> /\ out'[t] = Tail(out[t]) /\ \A r \in Thread \ {t} : out'[r] = out[r]
  BY DEF Sent, LinesInv
<1>2. Owing \in SUBSET Subtask /\ Owing' \in SUBSET Subtask
  BY DEF Owing
<1>3. CASE t = JobThread
  <2>1. Head(out[t]) \in JobEvent
    BY <1>1, <1>3 DEF LinesInv
  <2>2. Owing' = Owing
    BY <1>1, <1>3, ThreadsDiffer DEF Owing, Thread
  <2>3. QED
    BY <2>1, <2>2, OwingCounted DEF JobEvent
<1>4. CASE t \in Subtask
  <2>1. Head(out[t]) \in {RunningEvent(t), CostEvent(t), ErrorEvent(t), DoneEvent(t), BlockedEvent(t),
                          EscalationEvent(t)}
    BY <1>1, <1>4, ThreadPosts DEF Posts
  <2>2. out'[t] \in {<<>>, <<ErrorEvent(t)>>, <<EscalationEvent(t)>>}
    BY <1>1, <1>4, ThreadPosts DEF Posts
  <2>3. Head(out[t]).cost \in {0, 1} /\ (~ Accepts(Head(out[t])) => Head(out[t]).cost = 0)
    BY <1>4, <2>1, EventFields
  <2>4. out'[t] # <<>> => Head(out'[t]).cost = 0
    <3>1. /\ Head(<<ErrorEvent(t)>>) = ErrorEvent(t)
          /\ Head(<<EscalationEvent(t)>>) = EscalationEvent(t)
      OBVIOUS
    <3>2. ErrorEvent(t).cost = 0 /\ EscalationEvent(t).cost = 0
      BY <1>4, EventFields
    <3>3. QED
      BY <2>2, <3>1, <3>2
  <2>5. t \in Owing <=> Head(out[t]).cost = 1
    BY <1>1, <1>4 DEF Owing
  <2>6. t \notin Owing' /\ \A r \in Subtask \ {t} : r \in Owing' <=> r \in Owing
    <3>1. t \notin Owing'
      BY <2>4 DEF Owing
    <3>2. \A r \in Subtask \ {t} : out'[r] = out[r]
      BY <1>1 DEF Thread
    <3>3. QED
      BY <3>1, <3>2 DEF Owing
  <2>7. Owing' = Owing \ {t}
    BY <1>2, <2>6
  <2>8. /\ Cardinality(Owing) \in Nat /\ Cardinality(Owing') \in Nat
        /\ Cardinality(Owing') = IF t \in Owing THEN Cardinality(Owing) - 1 ELSE Cardinality(Owing)
    <3>1. /\ Cardinality(Owing \ {t}) \in Nat
          /\ Cardinality(Owing \ {t}) = IF t \in Owing THEN Cardinality(Owing) - 1 ELSE Cardinality(Owing)
          /\ Cardinality(Owing) \in Nat
      BY <1>2, <1>4, <2>7, SubtaskSets
    <3>2. QED
      BY <2>7, <3>1
  <2>9. QED
    BY <2>3, <2>5, <2>8
<1>5. QED
  BY <1>3, <1>4 DEF Thread

\* Every step accounts for every charge.
LEMMA SpendStep ==
  ASSUME PoolInv, LinesInv, SpendInv, SyncedInv, [Next]_vars
  PROVE  SpendInv'
<1> DEFINE owed == Cardinality(Owing)
           lateCost == Cardinality(CostsIn(late))
<1>1. /\ ShownCost \in Nat /\ charged \in Nat /\ owed \in Nat /\ lateCost \in Nat /\ trouble \in Nat
      /\ ShownCost + owed + lateCost <= charged
      /\ trouble = 0 => ShownCost + owed = charged
  BY OwingCounted, CostsFinite DEF SpendInv, LinesInv, SyncedInv
<1>2. ASSUME UNCHANGED <<model, charged, late, trouble>>, \A s \in Subtask : out'[s] = out[s]
      PROVE  SpendInv'
  <2>1. Owing' = Owing /\ UNCHANGED ShownCost
    BY <1>2 DEF Owing, ShownCost
  <2>2. QED
    BY <1>2, <2>1 DEF SpendInv, CostsIn
<1>3. CASE JobStep
  <2>1. UNCHANGED <<model, charged, late, trouble>>
    BY <1>3 DEF JobStep, Announce, RunPool, Blocked, Review, Gate, Conclude, board, net
  <2>2. \A s \in Subtask : out'[s] = out[s]
    BY <1>3, ThreadsDiffer
    DEF JobStep, Announce, RunPool, Blocked, Review, Gate, Conclude, Says, Quiet, LinesInv, Thread
  <2>3. QED
    BY <1>2, <2>1, <2>2
<1>4. ASSUME NEW s \in Subtask, SubStep(s) PROVE SpendInv'
  <2>1. UNCHANGED <<model, late, trouble>>
    BY <1>4 DEF SubStep, Start, Attempt, Succeed, Fail, Escalate, Complete, board, net
  <2>2. ShownCost' = ShownCost
    BY <2>1 DEF ShownCost
  <2>3. (charged' = charged /\ owed' = owed) \/ (charged' = charged + 1 /\ owed' = owed + 1)
    BY <1>4, SubStepOwes
  <2> HIDE DEF owed, lateCost
  <2>4. /\ charged' \in Nat /\ ShownCost' + owed' + lateCost <= charged'
        /\ trouble = 0 => ShownCost' + owed' = charged'
    BY <1>1, <2>2, <2>3
  <2>5. lateCost' = lateCost
    BY <2>1 DEF CostsIn, lateCost
  <2>6. QED
    BY <1>1, <2>1, <2>2, <2>3, <2>4, <2>5 DEF SpendInv, owed, lateCost
<1>5. ASSUME NEW t \in Thread, Post(t) PROVE SpendInv'
  <2> DEFINE ev == Head(out[t])
  <2>1. Sent(t) /\ out[t] # <<>> /\ UNCHANGED charged
    BY <1>5 DEF Post, Deliver, Lose, GiveUp, Sent
  <2>2. ev \in Event
    BY <2>1, HeadIsEvent
  <2>3. owed' = owed - ev.cost /\ owed' \in Nat /\ ev.cost \in {0, 1} /\ (~ Accepts(ev) => ev.cost = 0)
    BY <2>1, PostSettles
  <2>4. CASE Deliver(t)
    <3>1. ShownCost' = ShownCost + ev.cost
      <4>1. Apply(ev)
        BY <2>4 DEF Deliver
      <4>2. CASE Accepts(ev)
        BY <1>1, <2>2, <4>1, <4>2, BoardOf, ApplyEffect
      <4>3. CASE ~ Accepts(ev)
        BY <1>1, <2>2, <2>3, <4>1, <4>3, BoardOf
      <4>4. QED
        BY <4>2, <4>3
    <3>2. UNCHANGED <<late, trouble>>
      BY <2>4 DEF Deliver, net
    <3> HIDE DEF owed, ev
    <3>3. ShownCost' \in Nat /\ ShownCost' + owed' + lateCost <= charged
          /\ (trouble = 0 => ShownCost' + owed' = charged)
      BY <1>1, <2>3, <3>1
    <3>4. QED
      BY <1>1, <2>1, <3>2, <3>3 DEF SpendInv, owed
  <2>5. CASE Lose(t)
    <3>1. UNCHANGED <<ShownCost, late, trouble>> /\ trouble # 0
      BY <2>5 DEF Lose, net, board, ShownCost, SyncedInv
    <3> HIDE DEF owed, ev
    <3>2. ShownCost + owed' + lateCost <= charged
      BY <1>1, <2>3
    <3>3. QED
      BY <1>1, <2>1, <3>1, <3>2 DEF SpendInv, owed
  <2>6. CASE GiveUp(t)
    <3>1. UNCHANGED ShownCost /\ late' = Append(late, ev) /\ trouble' # 0
      BY <1>1, <2>6 DEF GiveUp, board, ShownCost
    <3>2. lateCost' = lateCost + ev.cost
      BY <2>2, <3>1, CostsAppend DEF LinesInv
    <3> HIDE DEF owed, ev, lateCost
    <3>3. ShownCost + owed' + lateCost' <= charged
      BY <1>1, <2>3, <3>2
    <3>4. QED
      BY <1>1, <2>1, <3>1, <3>3 DEF SpendInv, owed, lateCost
  <2>7. QED
    BY <1>5, <2>4, <2>5, <2>6 DEF Post
<1>6. ASSUME NEW i \in DOMAIN late, Arrive(i) PROVE SpendInv'
  <2> DEFINE ev == late[i]
  <2>1. late \in Seq(Event) /\ i \in 1..Len(late) /\ ev \in Event /\ late # <<>>
    BY <1>6 DEF LinesInv
  <2>2. Apply(ev) /\ late' = RemoveAt(late, i) /\ UNCHANGED <<charged, out, trouble>>
    BY <1>6 DEF Arrive
  <2>3. lateCost' = lateCost - ev.cost /\ ev.cost \in {0, 1}
    BY <2>1, <2>2, CostsRemove DEF Event
  <2>4. ShownCost' \in {ShownCost, ShownCost + ev.cost}
    BY <1>1, <2>1, <2>2, BoardOf, ApplyEffect
  <2>5. trouble # 0 /\ owed' = owed
    BY <2>1, <2>2 DEF SyncedInv, Owing
  <2> HIDE DEF owed, ev, lateCost
  <2>6. ShownCost' \in Nat /\ ShownCost' + owed' + lateCost' <= charged
    BY <1>1, <2>3, <2>4, <2>5
  <2>7. QED
    BY <1>1, <2>2, <2>5, <2>6 DEF SpendInv, owed, lateCost
<1>7. CASE ComeBack \/ UNCHANGED vars
  BY <1>2, <1>7 DEF ComeBack, vars, board, net
<1>8. CASE GoDown
  <2>1. UNCHANGED <<ShownCost, Owing, charged, late>> /\ trouble' # 0
    BY <1>1, <1>8 DEF GoDown, board, ShownCost, Owing
  <2>2. QED
    BY <2>1 DEF SpendInv, CostsIn
<1>9. QED
  BY <1>3, <1>4, <1>5, <1>6, <1>7, <1>8 DEF Next
----------------------------------------------------------------------------
\* The board of a job whose dashboard answered so far.
Answered == trouble = 0 /\ ~ down /\ late = <<>> /\ JobSynced /\ \A s \in Subtask : SubSynced(s)

\* What SubSynced says of s does not change when its parts do not.
LEMMA SubSyncedStays ==
  ASSUME NEW s \in Subtask, SubSynced(s), thread'[s] = thread[s], out'[s] = out[s],
         StatusOf(s)' = StatusOf(s), s \in escalated' <=> s \in escalated,
         s \in blank' <=> s \in blank,
         thread[s] # "none" =>
           /\ "job" \in DOMAIN model.tasks => "job" \in DOMAIN model'.tasks
           /\ \A k \in DOMAIN out'[JobThread] : IsTaskLevel(out'[JobThread][k])
  PROVE  SubSynced(s)'
BY DEF SubSynced, Free, IsTaskLevel

\* A line of an event about the task, with or without a note.
LEMMA TaskPosts ==
  ASSUME NEW status, NEW kind,
         out'[JobThread] \in {<<TaskEvent(kind, status)>>, <<TaskEvent(kind, status), Note>>}
  PROVE  /\ EndsWith(out'[JobThread], status)
         /\ \A k \in DOMAIN out'[JobThread] : IsTaskLevel(out'[JobThread][k])
<1> DEFINE posts == out'[JobThread]
<1>1. /\ TaskEvent(kind, status).sub = None /\ TaskEvent(kind, status).status = status
      /\ Note.sub = None /\ Note.status = None
  BY DEF TaskEvent, Note
<1>2. CASE posts = <<TaskEvent(kind, status)>>
  BY <1>1, <1>2 DEF EndsWith, IsTaskLevel
<1>3. CASE posts = <<TaskEvent(kind, status), Note>>
  BY <1>1, <1>3 DEF EndsWith, IsTaskLevel
<1>4. QED
  BY <1>2, <1>3

\* A step of the job's thread, while the dashboard answers.
LEMMA JobStepSynced ==
  ASSUME PoolInv, StageInv, LinesInv, Answered, JobStep
  PROVE  JobSynced' /\ \A s \in Subtask : SubSynced(s)'
<1> USE DEF Answered
<1>1. /\ UNCHANGED <<model, escalated, blank>>
      /\ \A s \in Subtask : out'[s] = out[s]
  BY ThreadsDiffer DEF JobStep, Announce, RunPool, Blocked, Review, Gate, Conclude, board, Says, Quiet,
     LinesInv, Thread
<1>2. Status' = Status /\ \A s \in Subtask : StatusOf(s)' = StatusOf(s)
  BY <1>1 DEF Status, StatusOf
<1>3. JobThread \in DOMAIN out
  BY DEF LinesInv, Thread
<1>4. CASE Announce
  <2>1. out'[JobThread] = Announcement
    BY <1>3, <1>4 DEF Announce, Says, Announcement, CreatedEvent
  <2>2. stage' = "running" /\ thread' = thread /\ stage = "planned"
    BY <1>4 DEF Announce, poolVars
  <2>3. JobSynced'
    <3>1. TaskEvent("status_changed", "running").status = "running"
          /\ IsTaskLevel(TaskEvent("status_changed", "running"))
      BY DEF TaskEvent, IsTaskLevel
    <3>2. EndsWith(Announcement, "running")
      <4>1. /\ Len(Announcement) \in DOMAIN Announcement
            /\ \A i \in DOMAIN Announcement : ~ (i > Len(Announcement))
        BY AnnouncementLine
      <4>2. QED
        BY <3>1, <4>1, AnnouncementLine DEF EndsWith
    <3>3. QED
      BY <2>1, <2>2, <3>2 DEF JobSynced, Expected, EndsWith, IsTaskLevel
  <2>4. \A s \in Subtask : SubSynced(s)'
    BY <1>1, <1>2, <2>2, SubSyncedStays DEF StageInv
  <2>5. QED
    BY <2>3, <2>4
<1>5. ASSUME thread' = thread, NEW status, status = Expected',
             out'[JobThread] \in {<<TaskEvent("status_changed", status)>>,
                                  <<TaskEvent("status_changed", status), Note>>}
      PROVE  JobSynced' /\ \A s \in Subtask : SubSynced(s)'
  <2>0. /\ EndsWith(out'[JobThread], status)
        /\ \A k \in DOMAIN out'[JobThread] : IsTaskLevel(out'[JobThread][k])
    BY <1>5, TaskPosts
  <2>1. JobSynced'
    BY <1>5, <2>0 DEF JobSynced, EndsWith, IsTaskLevel
  <2>2. \A s \in Subtask : SubSynced(s)'
    BY <1>1, <1>2, <1>5, <2>0, SubSyncedStays
  <2>3. QED
    BY <2>1, <2>2
<1>6. CASE Review \/ Gate
  <2>1. out'[JobThread] \in {<<Reviewing>>, <<Reviewing, Note>>}
    BY <1>6, ReviewPosts
  <2>2. thread' = thread /\ Expected' = "review"
    BY <1>6 DEF Review, Gate, Expected, poolVars
  <2>3. QED
    BY <1>5, <2>1, <2>2 DEF Reviewing
<1>7. CASE Conclude
  <2>1. PICK verdict \in {"done", "failed"} :
          outcome' = verdict /\ Says(JobThread, <<TaskEvent("status_changed", verdict)>>)
    BY <1>7 DEF Conclude
  <2>2. out'[JobThread] = <<TaskEvent("status_changed", verdict)>> /\ thread' = thread /\ stage' = "ended"
    BY <1>3, <1>7, <2>1 DEF Conclude, Says, poolVars
  <2>3. QED
    BY <1>5, <2>1, <2>2 DEF Expected
<1>8. CASE Blocked
  <2>1. thread' = thread /\ out' = out /\ outcome' = "blocked"
    BY <1>8 DEF Blocked, Quiet, poolVars
  <2>2. \A s \in Subtask : SubSynced(s)'
    BY <1>1, <1>2, <2>1, SubSyncedStays DEF SubSynced
  <2>3. QED
    BY <2>1, <2>2 DEF JobSynced
<1>9. CASE RunPool
  <2>1. UNCHANGED <<stage, outcome, out>> /\ stage = "running" /\ Free(JobThread)
    BY <1>9 DEF RunPool, job
  <2>2. JobSynced'
    BY <1>2, <2>1 DEF JobSynced, Expected, Silent, EndsWith, IsTaskLevel
  <2>3. outcome = None /\ None # "blocked" /\ None # "running"
    BY <2>1, NoneAssumption DEF StageInv, Statuses
  <2>4. "job" \in DOMAIN model.tasks
    BY <2>1, <2>3 DEF JobSynced, Expected, Status, EndsWith, Free
  <2>5. ASSUME NEW s \in Subtask PROVE SubSynced(s)'
    <3>1. CASE thread[s] # "none"
      BY <1>1, <1>2, <1>9, <2>1, <3>1, RunPoolInv, SubSyncedStays DEF SubSynced
    <3>2. CASE thread[s] = "none"
      <4>1. thread'[s] \in {"none", "queued"}
        BY <1>9, <3>2, RunPoolInv
      <4>2. s \notin escalated'
        BY <1>1, <3>2 DEF SubSynced
      <4>3. \A k \in DOMAIN out'[JobThread] : IsTaskLevel(out'[JobThread][k])
        BY <2>1 DEF Free
      <4>4. QED
        BY <1>1, <2>4, <4>1, <4>2, <4>3 DEF SubSynced, IsTaskLevel
    <3>3. QED
      BY <3>1, <3>2
  <2>6. QED
    BY <2>2, <2>5
<1>10. QED
  BY <1>4, <1>6, <1>7, <1>8, <1>9 DEF JobStep

\* A step of a sub-task's thread, while the dashboard answers.
LEMMA SubStepSynced ==
  ASSUME PoolInv, StageInv, LinesInv, Answered, NEW s \in Subtask, SubStep(s)
  PROVE  JobSynced' /\ \A r \in Subtask : SubSynced(r)'
<1> USE DEF Answered
<1>1. /\ UNCHANGED <<stage, outcome, model, escalated>>
      /\ blank' \in {blank, blank \cup {s}}
      /\ Pool!ThreadStep(s)
  BY DEF SubStep, Start, Attempt, Succeed, Fail, Escalate, Complete, board, job, Pool!ThreadStep
<1>2. \A r \in Thread \ {s} : out'[r] = out[r]
  BY DEF SubStep, Start, Attempt, Succeed, Fail, Escalate, Complete, Says, Quiet, LinesInv
<1>3. Status' = Status /\ \A r \in Subtask : StatusOf(r)' = StatusOf(r)
  BY <1>1 DEF Status, StatusOf
<1>4. out'[JobThread] = out[JobThread]
  BY <1>2, ThreadsDiffer DEF Thread
<1>5. JobSynced'
  BY <1>1, <1>3, <1>4 DEF JobSynced, Expected, Silent, EndsWith, IsTaskLevel
<1>6. thread[s] \notin {"none", "ok", "raised"} /\ \A r \in Subtask \ {s} : thread'[r] = thread[r]
  BY <1>1, ThreadStepPool DEF PoolInv
<1>7. ASSUME NEW r \in Subtask \ {s} PROVE SubSynced(r)'
  BY <1>1, <1>2, <1>3, <1>4, <1>6, SubSyncedStays DEF SubSynced, Thread
<1>8. SubSynced(s)'
  <2>1. s \notin escalated' /\ "job" \in DOMAIN model'.tasks
        /\ (\A k \in DOMAIN out[JobThread] : IsTaskLevel(out[JobThread][k]))'
    BY <1>1, <1>4, <1>6 DEF SubSynced, IsTaskLevel
  <2>2. CASE Escalate(s)
    <3>1. thread'[s] = "raised" /\ out'[s] = <<BlockedEvent(s), EscalationEvent(s)>>
      BY <2>2 DEF Escalate, Pool!Escalate, Pool!Move, PoolInv, LinesInv, Says, Thread,
                  BlockedEvent, EscalationEvent
    <3>2. Len(out'[s]) = 2 /\ ~ Free(s)'
      BY <3>1 DEF Free
    <3>3. QED
      BY <2>1, <3>1, <3>2 DEF SubSynced
  <2>3. CASE Complete(s)
    <3>1. thread'[s] = "ok" /\ out'[s] = <<DoneEvent(s)>>
      BY <2>3 DEF Complete, Pool!Complete, Pool!Move, PoolInv, LinesInv, Says, Thread, DoneEvent
    <3>2. ~ Free(s)'
      BY <3>1 DEF Free
    <3>3. QED
      BY <2>1, <3>1, <3>2 DEF SubSynced
  <2>4. CASE Start(s) \/ Attempt(s) \/ Succeed(s) \/ Fail(s)
    <3>1. thread'[s] \notin {"ok", "raised"}
      BY <2>4 DEF Start, Attempt, Succeed, Fail, Pool!Start, Pool!Attempt, Pool!CallSucceeds,
                  Pool!CallFails, Pool!Move, PoolInv
    <3>2. QED
      BY <2>1, <3>1 DEF SubSynced
  <2>5. QED
    BY <2>2, <2>3, <2>4 DEF SubStep
<1>9. QED
  BY <1>5, <1>7, <1>8

\* A job that is not blocked has come to a status.
LEMMA ExpectedStatus ==
  ASSUME StageInv, stage # "planned", outcome # "blocked"
  PROVE  Expected # None
BY NoneAssumption DEF StageInv, Expected, Statuses

\* The event thread t posts reaches the board.
LEMMA JobDeliverySynced ==
  ASSUME PoolInv, StageInv, LinesInv, SpendInv, Answered, Deliver(JobThread)
  PROVE  JobSynced' /\ \A s \in Subtask : SubSynced(s)'
<1> USE DEF Answered
<1> DEFINE ev == Head(out[JobThread])
<1>1. /\ out[JobThread] # <<>> /\ out'[JobThread] = Tail(out[JobThread])
      /\ \A s \in Subtask : out'[s] = out[s]
      /\ UNCHANGED <<thread, stage, outcome, blank>>
      /\ Apply(ev)
  BY ThreadsDiffer DEF Deliver, Sent, LinesInv, Thread, poolVars, job
<1>2. out[JobThread] \in Seq(JobEvent) /\ ev \in JobEvent
  BY <1>1 DEF LinesInv
<1>3. /\ Len(out[JobThread]) \in Nat \ {0} /\ ev = out[JobThread][1]
      /\ out'[JobThread] \in Seq(JobEvent) /\ Len(out'[JobThread]) = Len(out[JobThread]) - 1
      /\ \A k \in 1..Len(out'[JobThread]) : out'[JobThread][k] = out[JobThread][k + 1]
  BY <1>1, <1>2
<1>4. ev \in Event /\ ev.kind # "escalation" /\ Accepts(ev)
  BY <1>2 DEF JobEvent
<1>5. model' = ApplyEvent(model, ev) /\ escalated' = escalated
  BY <1>1, <1>4 DEF Apply
<1>6. /\ "job" \in DOMAIN model'.tasks
      /\ IsTaskLevel(ev) => Status' = Or(ev.status, Status)
      /\ ev.status = None => Status' = Status
      /\ \A s \in Subtask :
           StatusOf(s)' = IF ev.sub = s THEN Or(ev.status, StatusOf(s)) ELSE StatusOf(s)
  BY <1>4, <1>5, ApplyEffect DEF SpendInv, Or
<1> HIDE DEF ev
<1>7. JobSynced'
  <2> SUFFICES ASSUME stage # "planned", outcome # "blocked"
               PROVE  JobSynced'
    BY <1>1 DEF JobSynced
  <2> DEFINE was == out[JobThread]   is == out'[JobThread]
  <2>1. /\ DOMAIN was = 1..Len(was) /\ DOMAIN is = 1..Len(is)
        /\ Len(was) \in Nat \ {0} /\ Len(is) = Len(was) - 1 /\ ev = was[1]
        /\ \A k \in 1..Len(is) : is[k] = was[k + 1]
    BY <1>2, <1>3
  <2>2. (Status = Expected /\ Silent(was)) \/ EndsWith(was, Expected)
    BY <1>1 DEF JobSynced
  <2>3. Expected' = Expected
    BY <1>1 DEF Expected
  <2> HIDE DEF was, is
  <2>7. /\ 1 \in DOMAIN was
        /\ \A i \in DOMAIN is : i \in Int /\ i + 1 \in DOMAIN was /\ is[i] = was[i + 1]
    BY <2>1
  <2>4. CASE Status = Expected /\ Silent(was)
    <3>1. ev.status = None /\ Silent(is)
      BY <2>1, <2>4, <2>7 DEF Silent
    <3>2. Status' = Status
      BY <1>6, <3>1
    <3>3. QED
      BY <2>3, <2>4, <3>1, <3>2 DEF JobSynced, Silent, is
  <2>5. ASSUME NEW k \in DOMAIN was, IsTaskLevel(was[k]), was[k].status = Expected,
               \A i \in DOMAIN was : i > k => was[i].status = None
        PROVE  JobSynced'
    <3>1. CASE k = 1
      <4>0. \A i \in DOMAIN is : i + 1 > 1
        BY <2>1
      <4>1. Silent(is)
        BY <2>5, <2>7, <3>1, <4>0 DEF Silent
      <4>2. IsTaskLevel(ev) /\ ev.status = Expected
        BY <2>1, <2>5, <3>1
      <4>3. Status' = Expected
        BY <1>6, <4>2, ExpectedStatus DEF Or
      <4>4. QED
        BY <2>3, <4>1, <4>3 DEF JobSynced, Silent, is
    <3>2. CASE k # 1
      <4>1. k - 1 \in DOMAIN is /\ is[k - 1] = was[k]
        BY <2>1, <3>2
      <4>2. \A i \in DOMAIN is : i > k - 1 => is[i].status = None
        <5>1. \A i \in DOMAIN is : i > k - 1 => i + 1 > k
          BY <2>1, <2>7, <2>5
        <5>2. QED
          BY <2>5, <2>7, <5>1
      <4>3. EndsWith(is, Expected)
        BY <2>5, <4>1, <4>2 DEF EndsWith
      <4>4. QED
        BY <2>3, <4>3 DEF JobSynced, EndsWith, IsTaskLevel, is
    <3>3. QED
      BY <3>1, <3>2
  <2>6. QED
    BY <2>2, <2>4, <2>5 DEF EndsWith
<1>8. ASSUME NEW s \in Subtask PROVE SubSynced(s)'
  <2>1. CASE thread[s] = "none"
    BY <1>1, <1>5, <2>1 DEF SubSynced
  <2>2. CASE thread[s] # "none"
    <3>1. \A k \in DOMAIN out[JobThread] : IsTaskLevel(out[JobThread][k])
      BY <2>2 DEF SubSynced
    <3>2. IsTaskLevel(ev) /\ ev.sub # s
      <4>1. s # None
        BY TelemetryAssumption DEF Subtask
      <4>2. 1 \in DOMAIN out[JobThread]
        BY <1>2, <1>3
      <4>3. QED
        BY <1>3, <3>1, <4>1, <4>2 DEF IsTaskLevel
    <3>3. \A k \in DOMAIN out'[JobThread] : IsTaskLevel(out'[JobThread][k])
      <4> DEFINE was == out[JobThread]   is == out'[JobThread]
      <4>1. was \in Seq(JobEvent) /\ is \in Seq(JobEvent) /\ Len(is) = Len(was) - 1
        BY <1>2, <1>3
      <4>2. \A k \in 1..Len(is) : is[k] = was[k + 1]
        BY <1>3
      <4>3. \A k \in DOMAIN was : IsTaskLevel(was[k])
        BY <3>1
      <4> HIDE DEF was, is
      <4>4. \A k \in DOMAIN is : k + 1 \in DOMAIN was /\ is[k] = was[k + 1]
        BY <4>1, <4>2
      <4>5. \A k \in DOMAIN is : IsTaskLevel(is[k])
        BY <4>3, <4>4
      <4>6. QED
        BY <4>5 DEF is
    <3>4. StatusOf(s)' = StatusOf(s)
      BY <1>6, <3>2
    <3>5. QED
      BY <1>1, <1>5, <1>6, <3>3, <3>4, SubSyncedStays
  <2>3. QED
    BY <2>1, <2>2
<1>9. QED
  BY <1>7, <1>8

\* A post of a sub-task's thread that is answered.
LEMMA SubDeliverySynced ==
  ASSUME PoolInv, StageInv, LinesInv, SpendInv, Answered, NEW s \in Subtask, Deliver(s)
  PROVE  JobSynced' /\ \A r \in Subtask : SubSynced(r)'
<1> USE DEF Answered
<1> DEFINE ev == Head(out[s])
<1>1. /\ out[s] # <<>> /\ out'[s] = Tail(out[s])
      /\ \A r \in Thread \ {s} : out'[r] = out[r]
      /\ UNCHANGED <<thread, stage, outcome, blank>>
      /\ Apply(ev)
  BY DEF Deliver, Sent, LinesInv, Thread, poolVars, job
<1>2. ev \in {RunningEvent(s), CostEvent(s), ErrorEvent(s), DoneEvent(s), BlockedEvent(s), EscalationEvent(s)}
  BY <1>1, ThreadPosts DEF Posts
<1>3. ev \in Event /\ ev.sub = s /\ s # None
  BY <1>2, EventTypes, EventFields
<1>4. out'[JobThread] = out[JobThread]
  BY <1>1, ThreadsDiffer DEF Thread
<1>5. thread[s] # "none"
  BY <1>1, ThreadPosts
<1>6. /\ Status' = Status
      /\ \A r \in Subtask \ {s} : StatusOf(r)' = StatusOf(r) /\ (r \in escalated' <=> r \in escalated)
      /\ "job" \in DOMAIN model'.tasks
  <2>1. "job" \in DOMAIN model.tasks
    BY <1>5 DEF SubSynced
  <2>2. CASE ~ Accepts(ev)
    BY <1>1, <2>1, <2>2 DEF Apply, board, Status, StatusOf
  <2>3. CASE Accepts(ev)
    <3>1. model' = ApplyEvent(model, ev) /\ escalated' \in {escalated, escalated \cup {s}}
      BY <1>1, <1>3, <2>3 DEF Apply
    <3>2. ~ IsTaskLevel(ev) /\ \A r \in Subtask \ {s} : ev.sub # r
      BY <1>3 DEF IsTaskLevel
    <3> HIDE DEF ev
    <3>3. QED
      BY <1>3, <2>1, <3>1, <3>2, ApplyEffect DEF SpendInv
  <2>4. QED
    BY <2>2, <2>3
<1>7. JobSynced'
  BY <1>1, <1>4, <1>6 DEF JobSynced, Expected, Silent, EndsWith, IsTaskLevel
<1>8. ASSUME NEW r \in Subtask \ {s} PROVE SubSynced(r)'
  BY <1>1, <1>4, <1>6, <1>8, SubSyncedStays DEF SubSynced, Thread, IsTaskLevel
<1>9. SubSynced(s)'
  <2>1. \A k \in DOMAIN out'[JobThread] : IsTaskLevel(out'[JobThread][k])
    BY <1>4, <1>5 DEF SubSynced, IsTaskLevel
  <2>2. Accepts(ev) => /\ StatusOf(s)' = Or(ev.status, StatusOf(s))
                       /\ escalated' = IF ev.kind = "escalation" THEN escalated \cup {s} ELSE escalated
    <3> SUFFICES ASSUME Accepts(ev)
                 PROVE  /\ StatusOf(s)' = Or(ev.status, StatusOf(s))
                        /\ escalated' = IF ev.kind = "escalation" THEN escalated \cup {s} ELSE escalated
      OBVIOUS
    <3>1. model' = ApplyEvent(model, ev)
      BY <1>1 DEF Apply
    <3>2. escalated' = IF ev.kind = "escalation" THEN escalated \cup {s} ELSE escalated
      BY <1>1, <1>3 DEF Apply
    <3> HIDE DEF ev
    <3>3. QED
      BY <1>3, <3>1, <3>2, ApplyEffect DEF SpendInv
  <2>3. ~ Accepts(ev) => StatusOf(s)' = StatusOf(s) /\ escalated' = escalated
    BY <1>1 DEF Apply, board, StatusOf
  <2> HIDE DEF ev
  <2>4. CASE thread[s] \notin {"ok", "raised"}
    <3>1. ev \in {RunningEvent(s), CostEvent(s), ErrorEvent(s)}
      BY <1>1, <2>4, ThreadPosts DEF Posts, ev
    <3>2. ev.kind # "escalation" /\ Accepts(ev)
      BY <3>1, EventFields
    <3>3. QED
      BY <1>1, <1>6, <2>1, <2>2, <2>4, <3>2 DEF SubSynced, IsTaskLevel
  <2>5. CASE thread[s] = "ok"
    <3>1. ev = DoneEvent(s)
      BY <1>1, <2>5, ThreadPosts DEF Posts, ev
    <3>2. ev.kind # "escalation" /\ Accepts(ev) /\ ev.status = "done" /\ "done" # None
      BY <3>1, EventFields
    <3>3. QED
      BY <1>1, <1>6, <2>1, <2>2, <2>5, <3>2 DEF SubSynced, IsTaskLevel, Or
  <2>6. CASE thread[s] = "raised"
    <3>1. \/ ev = BlockedEvent(s) /\ out'[s] = <<EscalationEvent(s)>> /\ Len(out[s]) = 2
          \/ ev = EscalationEvent(s) /\ out'[s] = <<>> /\ Len(out[s]) = 1
      BY <1>1, <2>6, ThreadPosts DEF Posts, ev
    <3>2. s \notin escalated
      BY <1>1, <2>6 DEF SubSynced, Free
    <3>3. CASE ev = BlockedEvent(s)
      <4>1. Accepts(ev) /\ ev.status = "blocked" /\ ev.kind # "escalation" /\ None # "blocked"
        BY <3>3, EventFields, NoneAssumption DEF Statuses
      <4>2. ~ Free(s)'
        BY <3>1, <3>3, EventFields DEF Free
      <4>3. StatusOf(s)' = "blocked" /\ s \notin escalated'
        BY <2>2, <3>2, <4>1 DEF Or
      <4>4. QED
        BY <1>1, <1>6, <2>1, <2>6, <4>2, <4>3 DEF SubSynced, IsTaskLevel
    <3>4. CASE ev = EscalationEvent(s)
      <4>1. Free(s)' /\ StatusOf(s) = "blocked"
        <5>1. ev # BlockedEvent(s)
          BY <3>4, EventFields
        <5>2. out'[s] = <<>> /\ Len(out[s]) = 1
          BY <3>1, <5>1
        <5>4. Len(out[s]) < 2
          BY <5>2
        <5>3. QED
          BY <2>6, <5>2, <5>4 DEF Free, SubSynced
      <4>2. (Accepts(ev) <=> s \notin blank) /\ ev.status = None /\ ev.kind = "escalation"
        BY <3>4, EventFields
      <4>3. StatusOf(s)' = "blocked" /\ (s \in escalated' <=> s \notin blank)
        BY <2>2, <2>3, <3>2, <4>1, <4>2 DEF Or
      <4>4. QED
        BY <1>1, <1>6, <2>1, <2>6, <4>1, <4>3 DEF SubSynced, IsTaskLevel
    <3>5. QED
      BY <3>1, <3>3, <3>4
  <2>7. QED
    BY <2>4, <2>5, <2>6
<1>10. QED
  BY <1>7, <1>8, <1>9

\* Every step leaves the board as far behind as SyncedInv says.
LEMMA SyncedStep ==
  ASSUME PoolInv, StageInv, LinesInv, SpendInv, SyncedInv, [Next]_vars
  PROVE  SyncedInv'
<1>1. CASE trouble' # 0
  <2>1. trouble' \in Nat
    <3>1. trouble' \in {trouble, trouble + 1}
      BY DEF Next, vars, JobStep, SubStep, Announce, RunPool, Blocked, Review, Gate, Conclude, Start,
        Attempt, Succeed, Fail, Escalate, Complete, Post, Deliver, Lose, GiveUp, Arrive, GoDown,
        ComeBack, net
    <3>2. QED
      BY <3>1 DEF SyncedInv
  <2>2. QED
    BY <1>1, <2>1 DEF SyncedInv
<1>2. ASSUME trouble' = 0, UNCHANGED net, Answered => JobSynced' /\ \A s \in Subtask : SubSynced(s)'
      PROVE  SyncedInv'
  BY <1>2 DEF SyncedInv, Answered, net
<1>3. CASE trouble' = 0 /\ JobStep
  <2>1. UNCHANGED net
    BY <1>3 DEF JobStep, Announce, RunPool, Blocked, Review, Gate, Conclude
  <2>2. QED
    BY <1>2, <1>3, <2>1, JobStepSynced
<1>4. CASE trouble' = 0 /\ \E s \in Subtask : SubStep(s)
  <2>1. PICK s \in Subtask : SubStep(s)
    BY <1>4
  <2>2. UNCHANGED net
    BY <2>1 DEF SubStep, Start, Attempt, Succeed, Fail, Escalate, Complete
  <2>3. QED
    BY <1>2, <1>4, <2>1, <2>2, SubStepSynced
<1>5. CASE trouble' = 0 /\ \E t \in Thread : Deliver(t)
  <2>1. PICK t \in Thread : Deliver(t)
    BY <1>5
  <2>2. UNCHANGED net
    BY <2>1 DEF Deliver
  <2>3. CASE t = JobThread
    BY <1>2, <1>5, <2>1, <2>2, <2>3, JobDeliverySynced
  <2>4. CASE t \in Subtask
    BY <1>2, <1>5, <2>1, <2>2, <2>4, SubDeliverySynced
  <2>5. QED
    BY <2>3, <2>4 DEF Thread
<1>6. ASSUME trouble' = 0,
             \/ \E t \in Thread : Lose(t) \/ GiveUp(t)
             \/ \E i \in DOMAIN late : Arrive(i)
             \/ GoDown \/ ComeBack
      PROVE  FALSE
  BY <1>6 DEF Lose, GiveUp, Arrive, GoDown, ComeBack, SyncedInv, net
<1>7. CASE trouble' = 0 /\ UNCHANGED vars
  <2>1. ASSUME Answered, NEW s \in Subtask PROVE SubSynced(s)'
    BY <1>7, <2>1 DEF Answered, SubSynced, vars, board, poolVars, Free, StatusOf, IsTaskLevel
  <2>2. ASSUME Answered PROVE JobSynced'
    BY <1>7, <2>2 DEF Answered, JobSynced, Expected, vars, board, job, Silent, EndsWith, Status, IsTaskLevel
  <2>3. UNCHANGED net
    BY <1>7 DEF vars
  <2>4. QED
    BY <1>2, <1>7, <2>1, <2>2, <2>3
<1>8. QED
  BY <1>1, <1>3, <1>4, <1>5, <1>6, <1>7 DEF Next, Post

\* The board of a job that is planned.
LEMMA InitBoard == Init => SpendInv /\ SyncedInv
<1> SUFFICES ASSUME Init PROVE SpendInv /\ SyncedInv
  OBVIOUS
<1>1. /\ stage = "planned" /\ charged = 0 /\ late = <<>> /\ ~ down /\ trouble = 0 /\ escalated = {}
      /\ \A t \in Thread : out[t] = <<>>
      /\ model = EmptyModel
  BY DEF Init
<1>2. \A s \in Subtask : thread[s] = "none"
  BY DEF Init, Pool!Init, Pool!Subtask, Subtask
<1>3. ShownCost = 0
  BY <1>1 DEF ShownCost, EmptyModel
<1>4. Owing = {} /\ CostsIn(late) = {}
  BY <1>1 DEF Owing, CostsIn, Thread
<1>5. SpendInv
  BY <1>1, <1>3, <1>4, FS_EmptySet DEF SpendInv
<1>6. SyncedInv
  BY <1>1, <1>2 DEF SyncedInv, JobSynced, SubSynced
<1>7. QED
  BY <1>5, <1>6

\* The inductive invariant.
Inv == PoolInv /\ StageInv /\ LinesInv /\ TruthInv /\ SpendInv /\ SyncedInv

\* Every step keeps it.
LEMMA InvAlways == SafeSpec => []Inv
<1>1. Init => Inv
  BY InitPool, InitTruth, InitBoard DEF Inv
<1>2. Inv /\ [Next]_vars => Inv'
  <2> SUFFICES ASSUME Inv, [Next]_vars PROVE Inv'
    OBVIOUS
  <2>1. PoolInv /\ StageInv /\ LinesInv /\ TruthInv /\ SpendInv /\ SyncedInv /\ ShownCost \in Nat
    BY DEF Inv, SpendInv
  <2>2. PoolInv' /\ StageInv' /\ LinesInv'
    BY <2>1, PoolAndStage, LinesStep
  <2>3. TruthInv' /\ SpendInv' /\ SyncedInv'
    BY <2>1, TruthStep, SpendStep, SyncedStep
  <2>4. QED
    BY <2>2, <2>3 DEF Inv
<1>3. QED
  BY <1>1, <1>2, PTL DEF SafeSpec
----------------------------------------------------------------------------
\* The board is never ahead of the work: whatever is lost, applied too late or
\* reordered between IngestClient.emit and applyEvent, a row that says done is of
\* a sub-task that is, and so is the card once a status of the job itself was
\* applied (process_job's notes, which carry none, do not count).
THEOREM NeverAheadAlways == SafeSpec => []NeverAhead
<1>1. Inv => NeverAhead
  BY DEF Inv, TruthInv, NeverAhead
<1>2. QED
  BY <1>1, InvAlways, PTL

\* The cost the dashboard sums never exceeds what the executor charged, however
\* many posts were lost or came late.
THEOREM SpendAlwaysCovered == SafeSpec => []SpendNotOverstated
<1>1. Inv => SpendNotOverstated
  BY OwingCounted, CostsFinite DEF Inv, LinesInv, SpendInv, SpendNotOverstated
<1>2. QED
  BY <1>1, InvAlways, PTL

\* A dashboard that answered every post shows every sub-task that was given up
\* as blocked, and has its escalation if its last error has a text.
THEOREM EscalationAlwaysRecorded == SafeSpec => []EscalationRecorded
<1>1. Inv => EscalationRecorded
  BY DEF Inv, SyncedInv, SubSynced, EscalationRecorded, AllAnswered, Free
<1>2. QED
  BY <1>1, InvAlways, PTL

\* A dashboard that answered every post shows a job that was reviewed, its
\* sub-tasks and its cost just as process_job left them.
THEOREM BoardAlwaysAgrees == SafeSpec => []BoardAgrees
<1>1. Inv => BoardAgrees
  <2> SUFFICES ASSUME Inv, Ended, AllAnswered, outcome # "blocked"
               PROVE  /\ Status = outcome
                      /\ \A s \in Subtask : StatusOf(s) = "done"
                      /\ ShownCost = charged
    BY DEF BoardAgrees
  <2>1. stage = "ended" /\ \A t \in Thread : Free(t)
    BY DEF Ended
  <2>2. Status = outcome
    BY <2>1 DEF Inv, SyncedInv, JobSynced, Expected, EndsWith, Free, AllAnswered, Thread
  <2>3. \A s \in Subtask : thread[s] = "ok"
    BY <2>1 DEF Inv, StageInv, PoolInv
  <2>4. \A s \in Subtask : StatusOf(s) = "done"
    BY <2>1, <2>3 DEF Inv, SyncedInv, SubSynced, AllAnswered, Thread
  <2>5. Owing = {}
    BY <2>1 DEF Owing, Free, Thread
  <2>6. ShownCost = charged
    BY <2>5, FS_EmptySet DEF Inv, SpendInv, AllAnswered
  <2>7. QED
    BY <2>2, <2>4, <2>6
<1>2. QED
  BY <1>1, InvAlways, PTL
============================================================================
