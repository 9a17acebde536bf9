--------------------------- MODULE JobCycleProofs --------------------------
(***************************************************************************)
(* Proofs about JobCycle, for every number of jobs, every choice of gated  *)
(* and git_branch jobs, with and without a watchdog, and for every bound.  *)
(***************************************************************************)
EXTENDS JobCycle, FiniteSetTheorems, TLAPS

\* Approvals are never taken back, so a cycle's copy of them only lags.
CopyLags == \A c \in Cycler : appr[c] \subseteq approved

\* Without a watchdog the inbox is polled, and only the main thread cycles.
Polls ==
  ~ setup.watchdog => /\ watch = "poll"
                      /\ \A h \in Handler : pc[h] = "gone"
                      /\ \A c \in Main : pc[c] \notin {"gone", "join"}

Basic == TypeOK /\ CopyLags /\ GateRespected
Inv == Basic /\ Polls
----------------------------------------------------------------------------
LEMMA Bounds == setup \in Setups => setup.kills \in Nat /\ setup.spend \in Nat /\ setup.blind \in Nat
BY CycleAssumption DEF Setup

LEMMA InitInv == Init => Inv
<1> SUFFICES ASSUME Init PROVE Inv
  OBVIOUS
<1> USE CycleAssumption DEF Init
<1>1. TypeOK
  <2>1. /\ inbox \subseteq Job /\ partial \subseteq inbox /\ approved \subseteq Job
        /\ processed = Torn \/ processed \subseteq Job
        /\ marked \subseteq Job /\ forgot \in BOOLEAN /\ begun \subseteq Job
    OBVIOUS
  <2>2. /\ work \in [Job -> Files] /\ outbox \in [Job -> Files] /\ head \in [Job -> Files]
        /\ verdict \in [Job -> Outcome \cup {Nothing}]
    BY DEF Files
  <2>3. /\ setup \in Setups
        /\ spent \in 0..setup.spend /\ shown \in 0..spent /\ blind \in 0..setup.blind
        /\ crashes \in 0..setup.kills
    BY DEF Setup
  <2>4. up \in BOOLEAN /\ watch \in {"initial", "observer", "poll"}
    BY DEF FirstWatch
  <2>5. /\ cur \in [Cycler -> Job \cup {0}] /\ todo \in [Cycler -> SUBSET Job]
        /\ seen \in [Cycler -> SUBSET Job] /\ appr \in [Cycler -> SUBSET Job]
    OBVIOUS
  <2>6. /\ pc \in [Cycler -> Place]
        /\ \A c \in Cycler : pc[c] \notin {"idle", "gone", "join", "pick"} => cur[c] \in Job
    BY DEF FirstPlace, Place
  <2>7. QED
    BY <2>1, <2>2, <2>3, <2>4, <2>5, <2>6 DEF TypeOK
<1>2. CopyLags /\ GateRespected
  BY DEF CopyLags, GateRespected, FirstPlace, Executing, Marking
<1>3. Polls
  BY DEF Polls, FirstPlace, FirstWatch, Main
<1>4. QED
  BY <1>1, <1>2, <1>3 DEF Inv, Basic

\* The end of the process, whatever its threads were doing.
LEMMA DieInv ==
  ASSUME Basic, Die, crashes' \in 0..setup.kills
  PROVE  Basic'
<1>1. TypeOK'
  BY CycleAssumption DEF Basic, TypeOK, Die, FirstPlace, FirstWatch, Place, disk, money
<1>2. (CopyLags /\ GateRespected)'
  BY DEF CopyLags, GateRespected, Die, FirstPlace, Executing, Marking, disk
<1>3. QED
  BY <1>1, <1>2 DEF Basic

\* An exception in a cycle, whichever thread runs it.
LEMMA RaiseInv ==
  ASSUME Basic, NEW c \in Cycler, Raise(c)
  PROVE  Basic'
<1>1. CASE Die /\ UNCHANGED crashes
  BY <1>1, DieInv DEF Basic, TypeOK
<1>2. ASSUME NEW place \in {"gone", "join"}, Leave(c, place) PROVE Basic'
  <2> USE <1>2 DEF Basic, Leave, disk, money, process, history
  <2>1. TypeOK'
    BY DEF TypeOK, Place
  <2>2. (CopyLags /\ GateRespected)'
    BY DEF TypeOK, CopyLags, GateRespected, Executing, Marking
  <2>3. QED
    BY <2>1, <2>2
<1>3. QED
  BY <1>1, <1>2 DEF Raise

LEMMA EnvironmentInv == Basic /\ (Environment \/ Restart) => Basic'
<1> SUFFICES ASSUME Basic, Environment \/ Restart PROVE Basic'
  OBVIOUS
<1> USE DEF Basic, TypeOK, CopyLags, GateRespected, cycle, history, money, process
<1>1. ASSUME NEW j \in Job, Submit(j) PROVE Basic'
  BY <1>1 DEF Submit
<1>2. ASSUME NEW j \in Job, FinishSubmit(j) PROVE Basic'
  BY <1>2 DEF FinishSubmit
<1>3. ASSUME NEW j \in Job, Approve(j) PROVE Basic'
  BY <1>3 DEF Approve
<1>4. CASE NewDay
  BY <1>4, Bounds DEF NewDay, disk
<1>5. CASE Crash
  BY <1>5, DieInv, Bounds DEF Crash
<1>6. CASE Restart
  BY <1>6 DEF Restart, disk
<1>7. QED
  BY <1>1, <1>2, <1>3, <1>4, <1>5, <1>6 DEF Environment
----------------------------------------------------------------------------
(* The steps of a cycle outside process_job.                               *)

LEMMA OuterInv ==
  ASSUME Basic, NEW c \in Cycler,
         BeginCycle(c) \/ CycleRaises(c) \/ Pick(c) \/ EndCycle(c) \/ Degrade(c)
         \/ MarkTruncate(c) \/ MarkWrite(c)
  PROVE  Basic'
<1> USE DEF Basic, TypeOK, CopyLags, GateRespected, Place, Executing, Marking, history, money, process
<1>1. CASE BeginCycle(c)
  BY <1>1 DEF BeginCycle, Load, disk
<1>2. CASE CycleRaises(c)
  BY <1>2, RaiseInv DEF CycleRaises
<1>3. CASE Pick(c)
  BY <1>3 DEF Pick, disk
<1>4. CASE EndCycle(c)
  BY <1>4 DEF EndCycle, StartObserver, FirstPlace, disk
<1>5. CASE Degrade(c)
  BY <1>5 DEF Degrade, FirstPlace, disk
<1>6. CASE MarkTruncate(c)
  BY <1>6 DEF MarkTruncate, Goto
<1>7. CASE MarkWrite(c)
  BY <1>7 DEF MarkWrite
<1>8. QED
  BY <1>1, <1>2, <1>3, <1>4, <1>5, <1>6, <1>7
----------------------------------------------------------------------------
(* The steps of process_job.                                               *)

\* Where a step of process_job leaves its thread.
LEMMA InnerInv ==
  ASSUME Basic, NEW c \in Cycler,
         CostGuard(c) \/ Gate(c) \/ PlanRaises(c) \/ Execute(c)
         \/ Review(c) \/ ValidationRaises(c) \/ Refine(c)
         \/ DeliverCopy(c) \/ DeliverCommit(c) \/ CommitRaises(c) \/ Report(c)
  PROVE  Basic'
<1> USE DEF Basic, TypeOK, CopyLags, GateRespected, Place, Executing, Marking, history, money, process,
        Goto, Return, Terminal, Outcome
<1>1. CASE CostGuard(c)
  <2>1. blind' \in 0..setup.blind /\ UNCHANGED <<disk, spent, shown>>
    BY <1>1, Bounds DEF CostGuard
  <2>2. (Goto(c, "gate") /\ UNCHANGED history) \/ Return(c, "queued")
    BY <1>1 DEF CostGuard
  <2>3. cur[c] \in Job
    BY <1>1 DEF CostGuard
  <2>4. CASE Goto(c, "gate") /\ UNCHANGED history
    BY <2>1, <2>4, <2>3 DEF disk
  <2>5. CASE Return(c, "queued")
    BY <2>1, <2>5, <2>3 DEF disk
  <2>6. QED
    BY <2>2, <2>4, <2>5
<1>2. CASE Gate(c)
  BY <1>2 DEF Gate, AwaitsApproval, disk
<1>3. CASE Execute(c)
  BY <1>3 DEF Execute, Charge, Content, Files
<1>4. CASE Review(c)
  BY <1>4 DEF Review, disk
<1>5. CASE Refine(c)
  BY <1>5 DEF Refine, Content, Files
<1>6. CASE DeliverCopy(c)
  BY <1>6 DEF DeliverCopy
<1>7. CASE DeliverCommit(c)
  BY <1>7 DEF DeliverCommit
<1>8. CASE PlanRaises(c) \/ ValidationRaises(c) \/ CommitRaises(c)
  BY <1>8, RaiseInv DEF PlanRaises, ValidationRaises, CommitRaises
<1>9. CASE Report(c)
  BY <1>9 DEF Report, disk
<1>10. QED
  BY <1>1, <1>2, <1>3, <1>4, <1>5, <1>6, <1>7, <1>8, <1>9

LEMMA StepBasic == Basic /\ [Next]_vars => Basic'
<1> SUFFICES ASSUME Basic, [Next]_vars PROVE Basic'
  OBVIOUS
<1>1. CASE UNCHANGED vars
  BY <1>1 DEF Basic, TypeOK, CopyLags, GateRespected, vars, disk, money, process, cycle, history
<1>2. CASE Environment \/ Restart
  BY <1>2, EnvironmentInv
<1>3. ASSUME NEW c \in Cycler, CycleStep(c) PROVE Basic'
  BY <1>3, OuterInv, InnerInv DEF CycleStep
<1>4. QED
  BY <1>1, <1>2, <1>3 DEF Next
----------------------------------------------------------------------------
(* Without a watchdog.                                                     *)

\* A thread that is gone does nothing.
LEMMA GoneRests ==
  ASSUME NEW c \in Cycler, CycleStep(c)
  PROVE  pc[c] # "gone"
BY DEF CycleStep, BeginCycle, CycleRaises, Pick, EndCycle, CostGuard, Gate, PlanRaises, Execute, Review,
       ValidationRaises, Refine, DeliverCopy, DeliverCommit, CommitRaises, Report, MarkTruncate,
       MarkWrite, Degrade

LEMMA DiePolls ==
  ASSUME Die
  PROVE  Polls'
BY CycleAssumption DEF Die, Polls, FirstPlace, FirstWatch, Main, disk, money

\* The main thread's own steps.
LEMMA MainPolls ==
  ASSUME Inv, ~ setup.watchdog, NEW c \in Main, CycleStep(c)
  PROVE  Polls'
<1>1. ASSUME Raise(c) PROVE Polls'
  BY <1>1, DiePolls DEF Raise, Inv, Polls, Main
<1>2. CASE CycleRaises(c) \/ PlanRaises(c) \/ ValidationRaises(c) \/ CommitRaises(c)
  BY <1>1, <1>2 DEF CycleRaises, PlanRaises, ValidationRaises, CommitRaises
<1>3. ASSUME UNCHANGED <<setup, watch>>, NEW p \in Place \ {"gone", "join"}, pc' = [pc EXCEPT ![c] = p]
      PROVE  Polls'
  BY <1>3 DEF Inv, Basic, TypeOK, Polls, Main
<1> USE DEF process, history, Place, Executing, Marking, Goto
<1>4. CASE BeginCycle(c)
  BY <1>3, <1>4 DEF BeginCycle
<1>5. CASE Pick(c)
  <2>1. pc' = pc \/ pc' = [pc EXCEPT ![c] = "guard"]
    BY <1>5 DEF Pick
  <2>2. UNCHANGED <<setup, watch>>
    BY <1>5 DEF Pick
  <2>3. QED
    BY <1>3, <2>1, <2>2 DEF Inv, Polls
<1>6. CASE EndCycle(c)
  BY <1>3, <1>6 DEF EndCycle, Inv, Polls
<1>7. CASE MarkTruncate(c)
  BY <1>3, <1>7 DEF MarkTruncate
<1>8. CASE MarkWrite(c)
  BY <1>3, <1>8 DEF MarkWrite
<1>9. CASE Refine(c)
  BY <1>3, <1>9 DEF Refine
<1>10. CASE DeliverCopy(c)
  BY <1>3, <1>10 DEF DeliverCopy
<1>11. CASE DeliverCommit(c)
  BY <1>3, <1>11 DEF DeliverCommit
<1>12. ASSUME NEW o \in Outcome, Return(c, o) PROVE Polls'
  <2>1. CASE o \in Terminal
    BY <1>3, <1>12, <2>1 DEF Return
  <2>2. CASE o \notin Terminal
    BY <1>3, <1>12, <2>2 DEF Return
  <2>3. QED
    BY <2>1, <2>2
<1>13. ASSUME NEW p \in Executing \cup {"gate"}, Goto(c, p) PROVE Polls'
  BY <1>3, <1>13
<1>14. CASE CostGuard(c) \/ Gate(c) \/ Execute(c) \/ Review(c) \/ Report(c)
  BY <1>12, <1>13, <1>14 DEF CostGuard, Gate, Execute, Review, Report, Outcome
<1>15. QED
  BY <1>2, <1>4, <1>5, <1>6, <1>7, <1>8, <1>9, <1>10, <1>11, <1>14 DEF CycleStep, Degrade, Inv, Polls, Main

LEMMA StepPolls == Inv /\ [Next]_vars => Polls'
<1> SUFFICES ASSUME Inv, [Next]_vars PROVE Polls'
  OBVIOUS
<1> USE DEF Inv, Basic
<1>1. ASSUME UNCHANGED <<watch, pc, setup>> PROVE Polls'
  BY <1>1 DEF Polls
<1>2. CASE UNCHANGED vars
  BY <1>1, <1>2 DEF vars, process, cycle
<1>3. ASSUME NEW j \in Job, Submit(j) \/ FinishSubmit(j) \/ Approve(j) PROVE Polls'
  BY <1>1, <1>3 DEF Submit, FinishSubmit, Approve, process, cycle
<1>4. CASE NewDay \/ Restart
  BY <1>1, <1>4 DEF NewDay, Restart, process, cycle
<1>5. CASE Crash
  BY <1>5, DiePolls DEF Crash
<1>6. ASSUME NEW c \in Cycler, CycleStep(c) PROVE Polls'
  <2>1. CASE setup.watchdog
    <3>1. UNCHANGED setup
      BY <1>6 DEF CycleStep, BeginCycle, CycleRaises, Pick, EndCycle, CostGuard, Gate, PlanRaises,
                  Execute, Review, ValidationRaises, Refine, DeliverCopy, DeliverCommit, CommitRaises,
                  Report, MarkTruncate, MarkWrite, Degrade, Raise, Leave, Die, Goto, Return, process
    <3>2. QED
      BY <2>1, <3>1 DEF Polls
  <2>2. CASE ~ setup.watchdog
    <3>1. c \in Main
      BY <1>6, <2>2, GoneRests DEF Polls, Main
    <3>2. QED
      BY <1>6, <2>2, <3>1, MainPolls
  <2>3. QED
    BY <2>1, <2>2
<1>7. QED
  BY <1>2, <1>3, <1>4, <1>5, <1>6 DEF Next, Environment

LEMMA StepInv == Inv /\ [Next]_vars => Inv'
BY StepBasic, StepPolls DEF Inv

LEMMA SafeInv == SafeSpec => []Inv
BY InitInv, StepInv, PTL DEF SafeSpec

\* Type correctness; in particular the reported spend never passes the real
\* one, and every thread past the guard is processing a job.
THEOREM CycleTypeCorrect == SafeSpec => []TypeOK
<1>1. Inv => TypeOK
  BY DEF Inv, Basic
<1>2. QED
  BY SafeInv, <1>1, PTL

\* No gated job is executed, delivered or marked without an approval.
THEOREM GateAlwaysRespected == SafeSpec => []GateRespected
<1>1. Inv => GateRespected
  BY DEF Inv, Basic
<1>2. QED
  BY SafeInv, <1>1, PTL
----------------------------------------------------------------------------
(* What a day costs.  The bound itself is not inductive: a thread past the *)
(* guard has its execution's cost still to come.  Budget counts one        *)
(* MaxCost for each such thread before it is spent.                        *)

Past == {"gate", "execute"}
Dispatched == {c \in Crew : pc[c] \in Past}

Room == Limit + MaxCost * (Cardinality(Crew) + blind)
Budget == shown + MaxCost * Cardinality(Dispatched) < Room

\* A step that dispatches nothing and reports nothing.
Quiet ==
  /\ UNCHANGED <<shown, blind>>
  /\ \A c \in Cycler : pc'[c] \in Past => pc[c] \in Past

LEMMA DispatchedSize ==
  /\ Crew \subseteq Cycler /\ IsFiniteSet(Crew) /\ Cardinality(Crew) \in Nat
  /\ IsFiniteSet(Dispatched) /\ Cardinality(Dispatched) \in Nat
  /\ Cardinality(Dispatched) <= Cardinality(Crew)
<1>1. Crew \subseteq Cycler /\ Dispatched \subseteq Crew
  BY DEF Crew, Main, Dispatched
<1>2. QED
  BY <1>1, FS_Subset, FS_CardinalityType, CycleAssumption

LEMMA DispatchedNext ==
  ASSUME UNCHANGED setup
  PROVE  /\ Crew' = Crew
         /\ IsFiniteSet(Dispatched') /\ Cardinality(Dispatched') \in Nat
         /\ Cardinality(Dispatched') <= Cardinality(Crew)
<1>1. Crew' = Crew /\ Dispatched' \subseteq Crew
  BY DEF Crew, Main, Dispatched
<1>2. QED
  BY <1>1, DispatchedSize, FS_Subset, FS_CardinalityType

\* Whoever acts is of the crew.
LEMMA ActsInCrew ==
  ASSUME Inv, NEW c \in Cycler, CycleStep(c)
  PROVE  c \in Crew
BY GoneRests DEF Inv, Polls, Crew, Main

LEMMA SetupFixed ==
  ASSUME [Next]_vars
  PROVE  UNCHANGED setup
<1>1. ASSUME NEW c \in Cycler, Raise(c) PROVE UNCHANGED setup
  BY <1>1 DEF Raise, Leave, Die, process
<1>2. ASSUME NEW c \in Cycler, CycleStep(c) PROVE UNCHANGED setup
  BY <1>1, <1>2 DEF CycleStep, BeginCycle, CycleRaises, Pick, EndCycle, CostGuard, Gate, PlanRaises,
       Execute, Review, ValidationRaises, Refine, DeliverCopy, DeliverCommit, CommitRaises,
       Report, MarkTruncate, MarkWrite, Degrade, Goto, Return, process
<1>3. QED
  BY <1>2 DEF Next, Environment, Submit, FinishSubmit, Approve, NewDay, Crash, Die, Restart, vars, process

\* The only arithmetic the bound needs of products.
LEMMA Products ==
  ASSUME NEW m \in Nat, NEW a \in Nat, NEW b \in Nat
  PROVE  /\ m * a \in Nat
         /\ m * (a + b) = m * a + m * b
         /\ m * (a + 1) = m * a + m
         /\ a <= b => m * a <= m * b
<1>1. /\ m * a \in Nat /\ m * (a + b) = m * a + m * b /\ m * (a + 1) = m * a + m
  BY SMT
<1>2. ASSUME a <= b PROVE m * a <= m * b
  <2>1. PICK d \in Nat : b = a + d
    <3>1. b - a \in Nat /\ b = a + (b - a)
      BY <1>2
    <3>2. QED
      BY <3>1
  <2>2. m * b = m * a + m * d /\ m * d \in Nat /\ m * a \in Nat
    BY <2>1, SMT
  <2>3. QED
    BY <2>2
<1>3. QED
  BY <1>1, <1>2

LEMMA QuietBudget ==
  ASSUME Inv, Budget, Quiet, UNCHANGED setup
  PROVE  Budget'
<1>1. Dispatched' \subseteq Dispatched
  BY DispatchedSize, DispatchedNext DEF Quiet, Dispatched
<1>2. Cardinality(Dispatched') <= Cardinality(Dispatched)
  BY <1>1, DispatchedSize, DispatchedNext, FS_Subset
<1>3. MaxCost * Cardinality(Dispatched') <= MaxCost * Cardinality(Dispatched)
  BY <1>2, DispatchedSize, DispatchedNext, Products, CycleAssumption
<1>4. /\ MaxCost * Cardinality(Dispatched') \in Nat
      /\ MaxCost * Cardinality(Dispatched) \in Nat
      /\ MaxCost * (Cardinality(Crew) + blind) \in Nat
      /\ shown \in Nat /\ Limit \in Nat
  <2>1. MaxCost \in Nat /\ Limit \in Nat /\ shown \in Nat /\ blind \in Nat
    BY CycleAssumption, Bounds DEF Inv, Basic, TypeOK
  <2>2. Cardinality(Crew) + blind \in Nat
    BY <2>1, DispatchedSize, DispatchedNext
  <2>3. QED
    BY <2>1, <2>2, DispatchedSize, DispatchedNext, Products
<1>5. Room' = Room /\ shown' = shown
  BY DispatchedNext DEF Quiet, Room
<1>6. QED
  BY <1>3, <1>4, <1>5 DEF Budget, Room

\* At midnight every thread may still be past the guard.
LEMMA NewDayBudget ==
  ASSUME Inv, NewDay, UNCHANGED setup
  PROVE  Budget'
<1>1. MaxCost * Cardinality(Dispatched') <= MaxCost * Cardinality(Crew)
  BY DispatchedSize, DispatchedNext, Products, CycleAssumption
<1>2. /\ MaxCost * Cardinality(Dispatched') \in Nat
      /\ MaxCost * Cardinality(Crew) \in Nat
  BY DispatchedSize, DispatchedNext, Products, CycleAssumption
<1>3. shown' = 0 /\ Room' = Limit + MaxCost * Cardinality(Crew)
  BY DispatchedSize, DispatchedNext DEF NewDay, Room
<1>4. QED
  BY <1>1, <1>2, <1>3, CycleAssumption DEF Budget

\* A dispatch is counted among the threads, or among the blind ones.
LEMMA GuardBudget ==
  ASSUME Inv, Budget, NEW c \in Crew, CostGuard(c), UNCHANGED setup
  PROVE  Budget'
<1> DEFINE k == Cardinality(Dispatched)
           n == Cardinality(Crew)
<1>1. /\ MaxCost \in Nat /\ Limit \in Nat /\ blind \in Nat /\ shown \in Nat
      /\ k \in Nat /\ n \in Nat
  BY CycleAssumption, DispatchedSize, DispatchedNext, Bounds DEF Inv, Basic, TypeOK
<1>2. UNCHANGED shown
  BY DEF CostGuard
<1>3. CASE Return(c, "queued")
  <2>1. pc'[c] = "pick" /\ pc'[c] # "gate"
    BY <1>3, DispatchedSize DEF Return, Terminal, Inv, Basic, TypeOK
  <2>2. ~ Goto(c, "gate")
    BY <2>1, DispatchedSize DEF Goto, Inv, Basic, TypeOK
  <2>3. UNCHANGED blind
    BY <2>2, CycleAssumption DEF CostGuard, Allowed
  <2>4. QED
    BY <1>2, <1>3, <2>3, QuietBudget DEF Quiet, Return, Terminal, Past, Inv, Basic, TypeOK
<1>4. CASE Goto(c, "gate")
  <2>1. /\ Dispatched' = Dispatched \cup {c}
        /\ c \notin Dispatched
    BY <1>4, DispatchedSize, DispatchedNext DEF Dispatched, Past, Goto, CostGuard, Inv, Basic, TypeOK
  <2>2. Cardinality(Dispatched') = k + 1 /\ k + 1 <= n
    BY <2>1, DispatchedSize, DispatchedNext, FS_AddElement
  <2>3. MaxCost * Cardinality(Dispatched') = MaxCost * k + MaxCost
    BY <2>2, <1>1, Products
  <2>4. CASE shown < Limit /\ UNCHANGED blind
    <3>1. MaxCost * Cardinality(Dispatched') <= MaxCost * (n + blind)
      <4>1. k + 1 <= n + blind /\ k + 1 \in Nat /\ n + blind \in Nat
        BY <1>1, <2>2
      <4>2. QED
        BY <4>1, <2>2, <1>1, Products
    <3>2. MaxCost * Cardinality(Dispatched') \in Nat /\ MaxCost * (n + blind) \in Nat
      <4>1. k + 1 \in Nat /\ n + blind \in Nat
        BY <1>1
      <4>2. QED
        BY <4>1, <2>2, <1>1, Products
    <3>3. QED
      BY <3>1, <3>2, <2>4, <1>1, <1>2, DispatchedNext DEF Budget, Room
  <2>5. CASE blind' = blind + 1
    <3>1. n + (blind + 1) = (n + blind) + 1 /\ n + blind \in Nat
      BY <1>1
    <3>2. MaxCost * (n + (blind + 1)) = MaxCost * (n + blind) + MaxCost
      BY <3>1, <1>1, Products
    <3>3. MaxCost * (n + blind) \in Nat /\ MaxCost * k \in Nat
      BY <3>1, <1>1, Products
    <3>4. QED
      BY <3>2, <3>3, <2>3, <2>5, <1>1, <1>2, DispatchedNext DEF Budget, Room
  <2>6. (shown < Limit /\ UNCHANGED blind) \/ blind' = blind + 1
    <3>1. PICK failed \in BOOLEAN :
            LET reading == IF failed THEN 0 ELSE shown
                astray == failed /\ ~ Allowed(shown)
            IN  /\ blind' = IF astray THEN blind + 1 ELSE blind
                /\ IF Allowed(reading)
                   THEN Goto(c, "gate") /\ UNCHANGED history
                   ELSE Return(c, "queued")
      BY DEF CostGuard
    <3>2. CASE failed
      BY <3>1, <3>2 DEF Allowed
    <3>3. CASE ~ failed
      <4>1. Allowed(shown) \/ Return(c, "queued")
        BY <3>1, <3>3
      <4>2. ~ Return(c, "queued")
        BY <1>4, DispatchedSize DEF Return, Goto, Terminal, Inv, Basic, TypeOK
      <4>3. QED
        BY <4>1, <4>2, <3>1, <3>3 DEF Allowed
    <3>4. QED
      BY <3>2, <3>3
  <2>7. QED
    BY <2>4, <2>5, <2>6
<1>5. QED
  BY <1>3, <1>4 DEF CostGuard

\* A thread that executes pays with what was counted for it.
LEMMA ExecuteBudget ==
  ASSUME Inv, Budget, NEW c \in Crew, Execute(c), UNCHANGED setup
  PROVE  Budget'
<1> DEFINE k == Cardinality(Dispatched')
<1>1. PICK reported \in 0..MaxCost : shown' = shown + reported /\ UNCHANGED blind
  BY DEF Execute, Charge
<1>2. /\ MaxCost \in Nat /\ Limit \in Nat /\ blind \in Nat /\ shown \in Nat
      /\ k \in Nat /\ Cardinality(Crew) + blind \in Nat
      /\ reported \in Nat /\ reported <= MaxCost
  BY <1>1, CycleAssumption, DispatchedSize, DispatchedNext, Bounds DEF Inv, Basic, TypeOK
<1>3. Dispatched = Dispatched' \cup {c} /\ c \notin Dispatched'
  BY DispatchedSize, DispatchedNext DEF Dispatched, Past, Execute, Goto, Return, Terminal, Inv, Basic, TypeOK
<1>4. Cardinality(Dispatched) = k + 1
  BY <1>3, DispatchedSize, DispatchedNext, FS_AddElement
<1>5. MaxCost * Cardinality(Dispatched) = MaxCost * k + MaxCost
  BY <1>2, <1>4, Products
<1>6. MaxCost * k \in Nat /\ MaxCost * (Cardinality(Crew) + blind) \in Nat
  BY <1>2, Products
<1>7. QED
  BY <1>1, <1>2, <1>5, <1>6, DispatchedNext DEF Budget, Room

LEMMA OtherStepsQuiet ==
  ASSUME Inv, NEW c \in Cycler, CycleStep(c), ~ CostGuard(c), ~ Execute(c)
  PROVE  Quiet
<1> USE DEF Quiet, Past, Inv, Basic, TypeOK, money
<1>1. ASSUME Raise(c) PROVE Quiet
  BY <1>1 DEF Raise, Leave, Die, FirstPlace
<1>2. CASE BeginCycle(c)
  BY <1>2 DEF BeginCycle
<1>3. CASE CycleRaises(c) \/ PlanRaises(c) \/ ValidationRaises(c) \/ CommitRaises(c)
  BY <1>1, <1>3 DEF CycleRaises, PlanRaises, ValidationRaises, CommitRaises
<1>4. CASE Pick(c)
  BY <1>4 DEF Pick
<1>5. CASE EndCycle(c)
  BY <1>5 DEF EndCycle, StartObserver, FirstPlace
<1>6. CASE Gate(c)
  BY <1>6 DEF Gate, Goto, Return, Terminal
<1>7. CASE Review(c)
  BY <1>7 DEF Review, Goto, Return, Terminal
<1>8. CASE Refine(c) \/ DeliverCopy(c) \/ DeliverCommit(c) \/ MarkTruncate(c)
  BY <1>8 DEF Refine, DeliverCopy, DeliverCommit, MarkTruncate, Goto
<1>9. CASE Report(c) \/ MarkWrite(c)
  BY <1>9 DEF Report, MarkWrite, Return, Terminal
<1>10. CASE Degrade(c)
  BY <1>10 DEF Degrade, FirstPlace
<1>11. QED
  BY <1>2, <1>3, <1>4, <1>5, <1>6, <1>7, <1>8, <1>9, <1>10 DEF CycleStep

LEMMA StepBudget == Inv /\ Budget /\ [Next]_vars => Budget'
<1> SUFFICES ASSUME Inv, Budget, [Next]_vars PROVE Budget'
  OBVIOUS
<1>1. UNCHANGED setup
  BY SetupFixed
<1>2. ASSUME Quiet PROVE Budget'
  BY <1>1, <1>2, QuietBudget
<1>3. CASE UNCHANGED vars
  BY <1>2, <1>3 DEF Quiet, vars, money, cycle
<1>4. ASSUME NEW j \in Job, Submit(j) \/ FinishSubmit(j) \/ Approve(j) PROVE Budget'
  BY <1>2, <1>4 DEF Quiet, Submit, FinishSubmit, Approve, money, cycle
<1>5. CASE NewDay
  BY <1>1, <1>5, NewDayBudget
<1>6. CASE Crash \/ Restart
  BY <1>2, <1>6 DEF Quiet, Crash, Restart, Die, FirstPlace, Past, money, cycle
<1>7. ASSUME NEW c \in Cycler, CycleStep(c) PROVE Budget'
  <2>1. c \in Crew
    BY <1>7, ActsInCrew
  <2>2. QED
    BY <1>1, <1>2, <1>7, <2>1, GuardBudget, ExecuteBudget, OtherStepsQuiet
<1>8. QED
  BY <1>3, <1>4, <1>5, <1>6, <1>7 DEF Next, Environment

LEMMA InitBudget == Init => Budget
<1> SUFFICES ASSUME Init PROVE Budget
  OBVIOUS
<1>1. Dispatched = {}
  BY DispatchedSize DEF Init, Dispatched, Past, FirstPlace
<1>2. Cardinality(Dispatched) = 0
  BY <1>1, FS_EmptySet
<1>3. MaxCost * (Cardinality(Crew) + 0) \in Nat /\ MaxCost * 0 = 0
  BY CycleAssumption, DispatchedSize, SMT
<1>4. QED
  BY <1>2, <1>3, CycleAssumption DEF Init, Budget, Room

\* What a day costs is bounded, however many threads dispatch at once and
\* whatever the metrics endpoint answers: every thread can overshoot the
\* limit by one execution, every blind dispatch adds one, and the rest is
\* what telemetry lost.
THEOREM DayCostBounded == SafeSpec => []SpendBound
<1>1. Inv /\ Budget => SpendBound
  <2> SUFFICES ASSUME Inv, Budget PROVE SpendBound
    OBVIOUS
  <2>1. MaxCost * Cardinality(Dispatched) \in Nat
    BY DispatchedSize, Products, CycleAssumption
  <2>2. MaxCost * (Cardinality(Crew) + blind) \in Nat
    <3>1. Cardinality(Crew) + blind \in Nat
      BY DispatchedSize, CycleAssumption, Bounds DEF Inv, Basic, TypeOK
    <3>2. QED
      BY <3>1, Products, CycleAssumption
  <2>3. spent \in Int /\ shown \in Int /\ Limit \in Int
    BY CycleAssumption, Bounds DEF Inv, Basic, TypeOK
  <2>4. QED
    BY <2>1, <2>2, <2>3 DEF Budget, Room, SpendBound
<1>2. QED
  BY InitInv, StepInv, InitBudget, StepBudget, <1>1, PTL DEF SafeSpec
============================================================================
