------------------------- MODULE SubtaskPoolProofs -------------------------
(***************************************************************************)
(* Proofs about SubtaskPool, for every number of sub-tasks, attempts and   *)
(* workers and every valid plan.                                           *)
(***************************************************************************)
EXTENDS SubtaskPool, FiniteSetTheorems, TLAPS

\* The loop's bookkeeping: what is submitted is either collected or in the
\* current batch, the batch fits the pool, and its dependencies are collected.
Bookkeeping ==
  /\ main = "schedule" => batch = {}
  /\ \A s \in done : thread[s] = "ok" /\ s \notin batch
  /\ \A s \in Subtask : thread[s] # "none" <=> s \in done \cup batch
  /\ \A s \in done \cup batch : deps[s] \subseteq done
  /\ Cardinality(batch) <= workers

\* How far each thread's attempts have got.
AttemptsOfThread ==
  \A s \in Subtask :
    /\ thread[s] \in {"none", "queued"} => attempt[s] = 0
    /\ thread[s] = "trying" => attempt[s] < MaxAttempts
    /\ thread[s] \in {"exhausted", "raised"} => attempt[s] = MaxAttempts

\* What the loop's exits stand on.
Exits ==
  /\ main \in {"unwind", "blocked"} => Raised # {}
  /\ main = "blocked" => Active = {}
  /\ main = "done" => done = Subtask

Inv == TypeOK /\ Bookkeeping /\ AttemptsOfThread /\ Exits
----------------------------------------------------------------------------
\* Sets of sub-tasks are finite, so their cardinalities are numbers.
LEMMA SubtaskSetsFinite ==
  ASSUME NEW S \in SUBSET Subtask
  PROVE  IsFiniteSet(S) /\ Cardinality(S) \in Nat
<1>1. IsFiniteSet(Subtask)
  BY PoolAssumption, FS_Interval DEF Subtask
<1>2. QED
  BY <1>1, FS_Subset, FS_CardinalityType

\* Removing a sub-task from a batch does not make it larger.
LEMMA SubsetNotLarger ==
  ASSUME NEW S \in SUBSET Subtask, NEW T \in SUBSET S
  PROVE  Cardinality(T) <= Cardinality(S)
<1>1. IsFiniteSet(S)
  BY SubtaskSetsFinite
<1>2. QED
  BY <1>1, FS_Subset

LEMMA InitInv == Init => Inv
<1> SUFFICES ASSUME Init PROVE Inv
  OBVIOUS
<1> USE PoolAssumption DEF Init
<1>1. TypeOK
  BY DEF TypeOK, MainState, ThreadState
<1>2. Bookkeeping
  <2>1. Cardinality(batch) = 0
    BY FS_EmptySet
  <2>2. QED
    BY <2>1 DEF Bookkeeping
<1>3. AttemptsOfThread
  BY DEF AttemptsOfThread
<1>4. Exits
  BY DEF Exits
<1>5. QED
  BY <1>1, <1>2, <1>3, <1>4 DEF Inv

\* A step of a pool thread leaves the loop alone.
LEMMA ThreadStepInv ==
  ASSUME Inv, NEW s \in Subtask, ThreadStep(s)
  PROVE  Inv'
<1> USE PoolAssumption DEF Inv
<1>1. /\ UNCHANGED <<deps, workers, main, batch, done>>
      /\ thread[s] \notin Idle
      /\ \E st \in ThreadState \ {"none", "queued"} : thread' = [thread EXCEPT ![s] = st]
  BY DEF ThreadStep, Start, Attempt, CallSucceeds, CallFails, Escalate, Complete, Move,
         ThreadState, Idle
<1>2. AttemptsOfThread' /\ attempt' \in [Subtask -> 0..MaxAttempts]
  BY DEF TypeOK, ThreadStep, Start, Attempt, CallSucceeds, CallFails, Escalate, Complete, Move,
         AttemptsOfThread
<1>3. TypeOK'
  BY <1>1, <1>2 DEF TypeOK, ValidGraph
<1>4. Bookkeeping'
  BY <1>1 DEF TypeOK, Bookkeeping, Idle
<1>5. Exits'
  <2>1. Raised \subseteq Raised'
    BY <1>1 DEF TypeOK, Raised, Idle
  <2>2. s \in Active
    BY <1>1 DEF Active
  <2>3. QED
    BY <1>1, <2>1, <2>2 DEF Exits
<1>6. QED
  BY <1>2, <1>3, <1>4, <1>5

LEMMA ScheduleInv ==
  ASSUME Inv, Schedule
  PROVE  Inv'
<1> USE PoolAssumption DEF Inv
<1>1. PICK B \in SUBSET Ready :
        /\ IsBatch(B)
        /\ batch' = B
        /\ thread' = [t \in Subtask |-> IF t \in B THEN "queued" ELSE thread[t]]
        /\ main' = IF B = {} THEN "schedule" ELSE "collect"
  BY DEF Schedule
<1>2. main = "schedule" /\ UNCHANGED <<deps, workers, done, attempt>>
  BY DEF Schedule
<1>3. B \subseteq Subtask \ done /\ \A t \in B : deps[t] \subseteq done
  BY DEF Ready
<1>4. Cardinality(B) <= workers
  <2>1. Cardinality(Ready) \in Nat
    BY SubtaskSetsFinite DEF Ready
  <2>2. QED
    BY <1>1, <2>1 DEF IsBatch, Smaller, TypeOK
<1>5. TypeOK'
  BY <1>1, <1>2, <1>3 DEF TypeOK, ThreadState, MainState, ValidGraph
<1>6. Bookkeeping'
  BY <1>1, <1>2, <1>3, <1>4 DEF Bookkeeping, TypeOK
<1>7. AttemptsOfThread'
  BY <1>1, <1>2, <1>3 DEF AttemptsOfThread, Bookkeeping, TypeOK
<1>8. Exits'
  BY <1>1, <1>2 DEF Exits
<1>9. QED
  BY <1>5, <1>6, <1>7, <1>8

LEMMA CollectInv ==
  ASSUME Inv, NEW s \in Subtask, CollectResult(s)
  PROVE  Inv'
<1> USE PoolAssumption DEF Inv, CollectResult, FirstPending
<1>1. TypeOK'
  BY DEF TypeOK, MainState, ValidGraph
<1>2. Bookkeeping'
  <2>1. Cardinality(batch \ {s}) <= workers
    <3>1. Cardinality(batch \ {s}) <= Cardinality(batch)
      BY SubsetNotLarger DEF TypeOK
    <3>2. Cardinality(batch \ {s}) \in Nat /\ Cardinality(batch) \in Nat
      BY SubtaskSetsFinite DEF TypeOK
    <3>3. QED
      BY <3>1, <3>2 DEF Bookkeeping, TypeOK
  <2>2. QED
    BY <2>1 DEF Bookkeeping
<1>3. AttemptsOfThread'
  BY DEF AttemptsOfThread
<1>4. Exits'
  BY DEF Exits
<1>5. QED
  BY <1>1, <1>2, <1>3, <1>4

LEMMA ExitInv ==
  ASSUME Inv, ReturnResults \/ Unwind \/ \E s \in Subtask : CollectRaise(s)
  PROVE  Inv'
<1> USE PoolAssumption DEF Inv, ReturnResults, Unwind, CollectRaise, FirstPending
<1>1. TypeOK'
  BY DEF TypeOK, MainState, ValidGraph
<1>2. Bookkeeping' /\ AttemptsOfThread'
  BY DEF Bookkeeping, AttemptsOfThread
<1>3. Exits'
  BY DEF Exits, Raised, Active
<1>4. QED
  BY <1>1, <1>2, <1>3

\* The invariant is inductive.
LEMMA StepInv == Inv /\ [Next]_vars => Inv'
<1> SUFFICES ASSUME Inv, [Next]_vars PROVE Inv'
  OBVIOUS
<1>1. CASE \E s \in Subtask : ThreadStep(s)
  BY <1>1, ThreadStepInv
<1>2. CASE MainStep
  BY <1>2, ScheduleInv, CollectInv, ExitInv DEF MainStep
<1>3. CASE UNCHANGED vars
  BY <1>3 DEF vars, Inv, TypeOK, ValidGraph, Bookkeeping, AttemptsOfThread, Exits, Raised, Active
<1>4. QED
  BY <1>1, <1>2, <1>3 DEF Next

LEMMA SafeInv == SafeSpec => []Inv
BY InitInv, StepInv, PTL DEF SafeSpec
----------------------------------------------------------------------------
\* Type correctness; in particular run_with_retry never begins an attempt
\* beyond max_attempts.
THEOREM TypeCorrect == SafeSpec => []TypeOK
<1>1. Inv => TypeOK
  BY DEF Inv
<1>2. QED
  BY SafeInv, <1>1, PTL

\* A sub-task is submitted only after the results of everything it depends
\* on were collected.
THEOREM DependenciesFirstAlways == SafeSpec => []DependenciesFirst
<1>1. Inv => DependenciesFirst
  BY DEF Inv, TypeOK, Bookkeeping, DependenciesFirst
<1>2. QED
  BY SafeInv, <1>1, PTL

\* The pool never has more sub-tasks under way than workers.
THEOREM ParallelBoundAlways == SafeSpec => []ParallelBound
<1>1. Inv => ParallelBound
  <2> SUFFICES ASSUME Inv PROVE ParallelBound
    OBVIOUS
  <2>1. batch \in SUBSET Subtask /\ Active \in SUBSET batch
    BY DEF Inv, TypeOK, Bookkeeping, Active, Idle
  <2>2. Cardinality(Active) <= Cardinality(batch)
    BY <2>1, SubsetNotLarger
  <2>3. Cardinality(Active) \in Nat /\ Cardinality(batch) \in Nat
    BY <2>1, SubtaskSetsFinite
  <2>4. QED
    BY <2>2, <2>3 DEF Inv, Bookkeeping, TypeOK, ParallelBound
<1>2. QED
  BY SafeInv, <1>1, PTL

\* On a plan validate_dag accepts, the loop always finds something ready.
THEOREM NeverSpinsAlways == SafeSpec => []NeverSpins
<1>1. TypeOK => NeverSpins
  <2> SUFFICES ASSUME TypeOK, done # Subtask PROVE Ready # {}
    BY DEF NeverSpins
  <2>1. PICK s \in Subtask \ done : TRUE
    BY DEF TypeOK
  <2>2. CASE deps[s] \subseteq done
    BY <2>1, <2>2 DEF Ready
  <2>3. CASE ~ (deps[s] \subseteq done)
    <3>1. PICK d \in deps[s] \ done : d \in Subtask /\ deps[d] = {}
      BY <2>1, <2>3 DEF TypeOK, ValidGraph
    <3>2. QED
      BY <3>1 DEF Ready
  <2>4. QED
    BY <2>2, <2>3
<1>2. QED
  BY TypeCorrect, <1>1, PTL

\* The job is reviewed only with all results in hand, and "blocked" is only
\* reported after an exhausted sub-task and with every thread joined.
THEOREM OutcomeIsHonestAlways == SafeSpec => []OutcomeIsHonest
<1>1. Inv => OutcomeIsHonest
  BY DEF Inv, Bookkeeping, AttemptsOfThread, Exits, Raised, OutcomeIsHonest
<1>2. QED
  BY SafeInv, <1>1, PTL

\* Nothing new begins once a sub-task was given up.
THEOREM NoStartAfterGivingUpAlways == SafeSpec => NoStartAfterGivingUp
<1> DEFINE Kept == Raised # {} => \A s \in Subtask : thread[s] \in Idle => thread'[s] = thread[s]
<1>1. ASSUME Inv, [Next]_vars PROVE [Kept]_vars
  <2>1. CASE Schedule
    <3>1. \A s \in Subtask : thread[s] # "raised"
      BY <1>1, <2>1 DEF Inv, Bookkeeping, Schedule
    <3>2. QED
      BY <3>1 DEF Raised
  <2>2. CASE UNCHANGED thread
    BY <2>2
  <2>3. ASSUME NEW t \in Subtask, ThreadStep(t) PROVE Kept
    BY <1>1, <2>3 DEF Inv, TypeOK, ThreadStep, Start, Attempt, CallSucceeds, CallFails, Escalate,
                      Complete, Move, Idle
  <2>4. QED
    BY <1>1, <2>1, <2>2, <2>3
       DEF Next, MainStep, ReturnResults, CollectResult, CollectRaise, Unwind, vars
<1>2. QED
  BY <1>1, SafeInv, PTL DEF SafeSpec, NoStartAfterGivingUp
----------------------------------------------------------------------------
\* The initial states are those of the account without threads.
LEMMA PlanInitial == Init => Plan!PlanInit
BY PoolAssumption DEF PlanState, Init, Plan!PlanInit

\* Forming a batch begins a set of sub-tasks.
LEMMA ScheduleBegins ==
  ASSUME Inv, Schedule
  PROVE  [Plan!PlanNext]_(Plan!planVars)
<1> USE DEF Inv, PlanState
<1>1. PICK B \in SUBSET Ready :
        /\ IsBatch(B)
        /\ batch' = B
        /\ thread' = [t \in Subtask |-> IF t \in B THEN "queued" ELSE thread[t]]
        /\ main' = IF B = {} THEN "schedule" ELSE "collect"
  BY DEF Schedule
<1>2. main = "schedule" /\ UNCHANGED <<deps, workers, done, attempt>>
  BY DEF Schedule
<1>3. B \subseteq Subtask \ done /\ \A t \in B : deps[t] \subseteq done
  BY DEF Ready
<1>4. \A t \in Subtask : thread[t] = IF t \in done THEN "ok" ELSE "none"
  BY <1>2 DEF Bookkeeping
<1>5. CASE B = {}
  <2>1. thread' = thread
    BY <1>1, <1>5 DEF TypeOK
  <2>2. QED
    BY <1>1, <1>2, <1>5, <2>1 DEF Plan!planVars
<1>6. CASE B # {}
  <2>1. Plan!In("failed") = {} /\ Plan!In("running") = {} /\ Plan!In("succeeded") = done
    BY <1>4 DEF Plan!In, TypeOK
  <2>2. B \subseteq Plan!In("waiting")
    BY <1>3, <1>4 DEF Plan!In
  <2>3. Plan!Cardinality(Plan!In("running") \cup B) <= workers
    <3>1. Cardinality(B) <= workers
      BY <1>1, <1>2, ScheduleInv DEF Bookkeeping
    <3>2. Plan!Cardinality(B) = Cardinality(B)
      BY Zenon DEF Cardinality, Plan!Cardinality
    <3>3. Plan!In("running") \cup B = B
      BY <2>1
    <3>4. QED
      BY <3>1, <3>2, <3>3
  <2>4. Plan!Begin(B)
    BY <1>1, <1>2, <1>3, <1>4, <1>6, <2>1, <2>2, <2>3 DEF Plan!Begin
  <2>5. QED
    BY <1>6, <1>3, <2>4 DEF Plan!PlanNext
<1>7. QED
  BY <1>5, <1>6

\* A pool thread's step ends its sub-task or goes unnoticed.
LEMMA ThreadStepEnds ==
  ASSUME Inv, NEW s \in Subtask, ThreadStep(s)
  PROVE  [Plan!PlanNext]_(Plan!planVars)
<1> USE DEF Inv, TypeOK, PlanState
<1>1. main \notin {"done", "blocked"}
  <2>1. s \in Active
    BY DEF ThreadStep, Start, Attempt, CallSucceeds, CallFails, Escalate, Complete, Move, Active, Idle
  <2>2. QED
    BY <2>1 DEF Bookkeeping, Exits, Active, Idle
<1>2. CASE Escalate(s)
  <2>1. Plan!End(s, "failed")
    BY <1>2 DEF Escalate, Move, Plan!End
  <2>2. QED
    BY <2>1 DEF Plan!PlanNext
<1>3. CASE Complete(s)
  <2>1. Plan!End(s, "succeeded")
    BY <1>3 DEF Complete, Move, Plan!End
  <2>2. QED
    BY <2>1 DEF Plan!PlanNext
<1>4. CASE Start(s) \/ Attempt(s) \/ CallSucceeds(s) \/ CallFails(s)
  BY <1>4 DEF Start, Attempt, CallSucceeds, CallFails, Move, Plan!planVars
<1>5. QED
  BY <1>2, <1>3, <1>4 DEF ThreadStep

\* Leaving the loop is the verdict; collecting a result goes unnoticed.
LEMMA LoopStepSettles ==
  ASSUME Inv, ReturnResults \/ Unwind \/ \E s \in Subtask : CollectResult(s) \/ CollectRaise(s)
  PROVE  [Plan!PlanNext]_(Plan!planVars)
<1> USE DEF Inv, TypeOK, PlanState
<1>1. CASE ReturnResults
  <2>1. Plan!In("succeeded") = Subtask
    BY <1>1 DEF ReturnResults, Bookkeeping, Plan!In
  <2>2. Plan!Settle
    BY <1>1, <2>1 DEF ReturnResults, Plan!Settle
  <2>3. QED
    BY <2>2 DEF Plan!PlanNext
<1>2. CASE Unwind
  <2>1. Plan!In("failed") # {} /\ Plan!In("running") = {}
    BY <1>2 DEF Unwind, Exits, Raised, Active, Idle, Plan!In
  <2>2. Plan!Settle
    BY <1>2, <2>1 DEF Unwind, Plan!Settle
  <2>3. QED
    BY <2>2 DEF Plan!PlanNext
<1>3. CASE \E s \in Subtask : CollectResult(s) \/ CollectRaise(s)
  BY <1>3 DEF CollectResult, CollectRaise, Plan!planVars
<1>4. QED
  BY <1>1, <1>2, <1>3

\* The thread pool implements the safety part of PlanExecution: every step
\* of the loop or of a pool thread is a step of it, or changes nothing it
\* speaks of.
THEOREM PoolImplementsPlan == SafeSpec => Plan!PlanSafeSpec
<1>1. ASSUME Inv, [Next]_vars PROVE [Plan!PlanNext]_(Plan!planVars)
  <2>1. CASE UNCHANGED vars
    BY <2>1 DEF vars, Plan!planVars
  <2>2. CASE Next
    BY <1>1, <2>2, ScheduleBegins, ThreadStepEnds, LoopStepSettles DEF Next, MainStep
  <2>3. QED
    BY <1>1, <2>1, <2>2
<1>2. QED
  BY <1>1, PlanInitial, SafeInv, PTL DEF SafeSpec, Plan!PlanSafeSpec
============================================================================
