--------------------------- MODULE OneCycleProofs --------------------------
(***************************************************************************)
(* Proofs about JobCycle where the main thread runs all cycles, as it does *)
(* without watchdog: what the registry of processed jobs promises then,    *)
(* for every number of jobs and any deaths in between.  The overlapping    *)
(* cycles of two threads break every one of these promises.                *)
(***************************************************************************)
EXTENDS JobCycleProofs

Working(c) == pc[c] \notin {"idle", "gone", "join", "pick"}

\* In a cycle the file holds what the cycle knows, but for the time between
\* the two halves of its rewriting.
KnowsTheFile ==
  \A c \in Main :
    /\ pc[c] = "idle" => seen[c] = {}
    /\ pc[c] = "write" => processed = Torn
    /\ pc[c] \notin {"idle", "write"} => seen[c] = Load(processed)

\* The job being processed is not in the registry.
Fresh == \A c \in Main : Working(c) => cur[c] \notin seen[c]

\* Unless a death tore the file, it holds all marks ever made.
KeepsMarks ==
  forgot \/ \A c \in Main :
              /\ pc[c] # "write" => processed = marked
              /\ pc[c] # "idle" => seen[c] = marked

\* What this process executed is in the registry, or being processed.
KnowsTheBegun ==
  \A c \in Main :
    \A j \in begun : \/ j \in Load(processed) \/ j \in seen[c]
                     \/ pc[c] \in Executing \cup Marking /\ j = cur[c]

Settled(j) ==
  /\ verdict[j] \in Terminal
  /\ verdict[j] = "done" => outbox[j] = work[j] /\ (j \in Git => head[j] = work[j])

\* Delivery goes step by step towards a settled job, and the settled stay so.
Settles ==
  \A c \in Main :
    /\ pc[c] \in {"commit", "report"} => outbox[cur[c]] = work[cur[c]]
    /\ pc[c] = "report" /\ cur[c] \in Git => head[cur[c]] = work[cur[c]]
    /\ pc[c] \in Marking => Settled(cur[c])
    /\ \A j \in Load(processed) \cup seen[c] : Settled(j)

OneInv == KnowsTheFile /\ Fresh /\ KeepsMarks /\ KnowsTheBegun /\ Settles
----------------------------------------------------------------------------
LEMMA OnlyOne ==
  /\ \A c, d \in Main : c = d
  /\ \E c \in Main : TRUE
  /\ Main \subseteq Cycler
<1>1. \E c : Main = {c}
  BY CycleAssumption, FS_Singleton, FS_Subset DEF Main
<1>2. QED
  BY <1>1 DEF Main

LEMMA InitOne == Init => OneInv
<1> SUFFICES ASSUME Init PROVE OneInv
  OBVIOUS
<1> USE DEF Init, FirstPlace, Main
<1>1. Fresh
  BY DEF Fresh, Working
<1>2. Load(processed) = {}
  BY DEF Load, Torn
<1>3. KnowsTheFile /\ KeepsMarks /\ KnowsTheBegun /\ Settles
  BY <1>2 DEF KnowsTheFile, KeepsMarks, KnowsTheBegun, Settles, Marking
<1>4. QED
  BY <1>1, <1>3 DEF OneInv

\* The end of the process: what the file held it holds, unless it is torn.
LEMMA DieOne ==
  ASSUME ~ setup.watchdog, Inv, OneInv, Die
  PROVE  OneInv'
<1> USE DEF OneInv, Die, FirstPlace, Main, disk, money
<1>1. KnowsTheFile' /\ Fresh' /\ KnowsTheBegun'
  BY DEF KnowsTheFile, Fresh, Working, KnowsTheBegun
<1>2. KeepsMarks'
  BY DEF KeepsMarks
<1>3. Settles'
  <2>1. \A c \in Main : pc'[c] = "idle" /\ seen'[c] = {}
    OBVIOUS
  <2>2. Load(processed)' = Load(processed)
    BY DEF Load
  <2>3. \A c \in Main : \A j \in Load(processed) : Settled(j)'
    BY DEF Settles, Settled
  <2>4. QED
    BY <2>1, <2>2, <2>3 DEF Settles, Marking
<1>4. QED
  BY <1>1, <1>2, <1>3

\* Without an observer an exception is the end of the process.
LEMMA RaiseOne ==
  ASSUME ~ setup.watchdog, Inv, OneInv, NEW c \in Main, Raise(c)
  PROVE  OneInv'
<1>1. Die
  BY DEF Raise, Inv, Polls, Main
<1>2. QED
  BY <1>1, DieOne

LEMMA EnvironmentOne ==
  ASSUME ~ setup.watchdog, Inv, OneInv, Environment \/ Restart
  PROVE  OneInv'
<1>1. CASE Crash
  BY <1>1, DieOne DEF Crash
<1>2. ASSUME UNCHANGED <<processed, work, outbox, head, verdict, watch, cycle, history>>
      PROVE  OneInv'
  <2>1. KnowsTheFile' /\ Fresh' /\ KeepsMarks' /\ KnowsTheBegun'
    BY <1>2 DEF OneInv, KnowsTheFile, Fresh, Working, KeepsMarks, KnowsTheBegun, Load,
                cycle, history
  <2>2. Settles'
    BY <1>2 DEF OneInv, Settles, Settled, Load, cycle, history
  <2>3. QED
    BY <2>1, <2>2 DEF OneInv
<1>3. CASE Restart \/ NewDay \/ \E j \in Job : Submit(j) \/ FinishSubmit(j) \/ Approve(j)
  BY <1>2, <1>3 DEF Restart, NewDay, Submit, FinishSubmit, Approve, disk, process
<1>4. QED
  BY <1>1, <1>3 DEF Environment
----------------------------------------------------------------------------
\* Marks are sets of jobs, and a torn file is none.
LEMMA MarksAreNotTorn == TypeOK => marked # Torn
<1>1. 0 \notin Job /\ (TypeOK => marked \subseteq Job)
  BY CycleAssumption DEF Job, TypeOK
<1>2. QED
  BY <1>1 DEF Torn

\* The steps of a cycle outside process_job.
LEMMA BeginOne ==
  ASSUME ~ setup.watchdog, Inv, OneInv, NEW c \in Main, BeginCycle(c)
  PROVE  OneInv'
<1> USE OnlyOne DEF OneInv, BeginCycle, disk, process, history
<1>1. pc' = [pc EXCEPT ![c] = "pick"] /\ seen' = [seen EXCEPT ![c] = Load(processed)]
      /\ pc \in [Cycler -> Place] /\ seen \in [Cycler -> SUBSET Job]
  BY DEF Inv, Basic, TypeOK, Main
<1>2. pc'[c] = "pick" /\ seen'[c] = Load(processed) /\ \A d \in Main : d = c
  BY <1>1
<1>3. Load(processed)' = Load(processed)
  BY DEF Load
<1>4. KnowsTheFile' /\ Fresh'
  BY <1>2, <1>3 DEF KnowsTheFile, Fresh, Working
<1>5. KeepsMarks'
  <2>1. Inv => marked # Torn
    BY MarksAreNotTorn DEF Inv, Basic
  <2>2. QED
    BY <1>2, <2>1 DEF KeepsMarks, Load
<1>6. KnowsTheBegun' /\ Settles'
  <2>1. \A j \in begun : j \in Load(processed)
    BY <1>2 DEF KnowsTheBegun, KnowsTheFile, Executing, Marking
  <2>2. \A j \in Load(processed) : Settled(j)'
    BY DEF Settles, Settled
  <2>3. QED
    BY <1>2, <1>3, <2>1, <2>2 DEF KnowsTheBegun, Settles, Marking
<1>7. QED
  BY <1>4, <1>5, <1>6

LEMMA PickOne ==
  ASSUME ~ setup.watchdog, Inv, OneInv, NEW c \in Main, Pick(c)
  PROVE  OneInv'
<1> USE OnlyOne DEF OneInv, Pick, disk, money, process, history, Main, Inv, Basic, TypeOK
<1>1. pc[c] = "pick" /\ pc'[c] \in {"pick", "guard"} /\ \A d \in Main : d = c
  OBVIOUS
<1>2. UNCHANGED <<processed, verdict, work, outbox, head, watch, seen, marked, forgot, begun>>
  OBVIOUS
<1>3. pc'[c] = "guard" => cur'[c] \notin seen[c]
  OBVIOUS
<1>4. KnowsTheFile' /\ Fresh' /\ KeepsMarks' /\ KnowsTheBegun'
  BY <1>1, <1>2, <1>3 DEF KnowsTheFile, Fresh, Working, KeepsMarks, KnowsTheBegun,
                          Executing, Marking, Load
<1>5. Settles'
  BY <1>1, <1>2 DEF Settles, Settled, Marking, Load
<1>6. QED
  BY <1>4, <1>5

LEMMA EndOne ==
  ASSUME ~ setup.watchdog, Inv, OneInv, NEW c \in Main, EndCycle(c) \/ Degrade(c)
  PROVE  OneInv'
<1> USE OnlyOne DEF OneInv, disk, money, history, Main, Inv, Basic, TypeOK
<1>1. EndCycle(c) /\ pc[c] = "pick" /\ watch = "poll"
  BY DEF Degrade, EndCycle, Polls, Inv
<1>2. pc'[c] = "idle" /\ seen'[c] = {} /\ \A d \in Main : d = c
  BY <1>1 DEF EndCycle
<1>3. UNCHANGED <<processed, verdict, work, outbox, head, watch, marked, forgot, begun>>
  BY <1>1 DEF EndCycle
<1>4. seen[c] = Load(processed)
  BY <1>1 DEF KnowsTheFile
<1>5. KnowsTheFile' /\ Fresh'
  BY <1>2, <1>3 DEF KnowsTheFile, Fresh, Working
<1>6. KeepsMarks' /\ KnowsTheBegun'
  BY <1>1, <1>2, <1>3, <1>4 DEF KeepsMarks, KnowsTheBegun, Executing, Marking, Load
<1>7. Settles'
  BY <1>2, <1>3 DEF Settles, Settled, Marking, Load
<1>8. QED
  BY <1>5, <1>6, <1>7

LEMMA MarkOne ==
  ASSUME ~ setup.watchdog, Inv, OneInv, NEW c \in Main, MarkTruncate(c) \/ MarkWrite(c)
  PROVE  OneInv'
<1> USE OnlyOne DEF OneInv, money, process, history, Main, Inv, Basic, TypeOK
<1>1. \A d \in Main : d = c
  OBVIOUS
<1>2. CASE MarkTruncate(c)
  <2>1. pc[c] = "truncate" /\ pc'[c] = "write" /\ processed' = Torn
        /\ UNCHANGED <<verdict, work, outbox, head, watch, cur, seen, marked, forgot, begun>>
    BY <1>2 DEF MarkTruncate, Goto
  <2>2. Load(processed)' = {} /\ seen[c] = Load(processed)
    BY <2>1 DEF Load, KnowsTheFile
  <2>3. KnowsTheFile' /\ Fresh' /\ KeepsMarks' /\ KnowsTheBegun'
    BY <1>1, <2>1, <2>2 DEF KnowsTheFile, Fresh, Working, KeepsMarks, KnowsTheBegun,
                            Executing, Marking
  <2>4. Settles'
    BY <1>1, <2>1, <2>2 DEF Settles, Settled, Marking
  <2>5. QED
    BY <2>3, <2>4
<1>3. CASE MarkWrite(c)
  <2>1. /\ pc[c] = "write" /\ pc'[c] = "pick"
        /\ processed' = seen[c] \cup {cur[c]} /\ seen'[c] = seen[c] \cup {cur[c]}
        /\ marked' = marked \cup {cur[c]}
        /\ UNCHANGED <<verdict, work, outbox, head, watch, cur, forgot, begun>>
    BY <1>3 DEF MarkWrite
  <2>2. Load(processed)' = seen'[c] /\ Load(processed) = {}
    <3>1. processed' # Torn
      <4>1. cur[c] \in Job
        BY <2>1
      <4>2. \A j \in Job : j # 0
        BY CycleAssumption DEF Job
      <4>3. cur[c] \in processed'
        BY <2>1
      <4>4. QED
        BY <4>1, <4>2, <4>3 DEF Torn
    <3>2. processed = Torn
      BY <2>1 DEF KnowsTheFile
    <3>3. QED
      BY <2>1, <3>1, <3>2 DEF Load
  <2>3. KnowsTheFile' /\ Fresh' /\ KeepsMarks'
    <3>1. KnowsTheFile' /\ Fresh'
      BY <1>1, <2>1, <2>2 DEF KnowsTheFile, Fresh, Working
    <3>2. forgot \/ seen[c] = marked
      BY <2>1 DEF KeepsMarks
    <3>3. KeepsMarks'
      BY <1>1, <2>1, <3>2 DEF KeepsMarks
    <3>4. QED
      BY <3>1, <3>3
  <2>4. KnowsTheBegun'
    <3>1. \A j \in begun : j \in seen[c] \cup {cur[c]}
      BY <2>2 DEF KnowsTheBegun
    <3>2. \A j \in begun' : j \in seen'[c]
      BY <2>1, <3>1
    <3>3. QED
      BY <1>1, <3>2 DEF KnowsTheBegun
  <2>5. Settles'
    <3>1. \A j \in seen[c] \cup {cur[c]} : Settled(j)
      BY <2>1 DEF Settles, Marking
    <3>2. \A j \in seen'[c] : Settled(j)'
      BY <2>1, <3>1 DEF Settled
    <3>3. QED
      BY <1>1, <2>1, <2>2, <3>2 DEF Settles, Marking
  <2>6. QED
    BY <2>3, <2>4, <2>5
<1>4. QED
  BY <1>2, <1>3
----------------------------------------------------------------------------
(* The steps of process_job.                                               *)

\* What they have in common: they touch the current job alone, and on leaving
\* process_job it is settled, or it was not executed.
ProcessStep(c) ==
  /\ pc[c] \in {"guard", "gate"} \cup Executing
  /\ pc'[c] \in {"pick", "gate", "truncate"} \cup Executing
  /\ UNCHANGED <<processed, watch, cur, seen, marked, forgot>>
  /\ \A j \in Job \ {cur[c]} : /\ verdict'[j] = verdict[j] /\ work'[j] = work[j]
                               /\ outbox'[j] = outbox[j] /\ head'[j] = head[j]
  /\ begun' = begun \/ (begun' = begun \cup {cur[c]} /\ pc'[c] \in Executing)
  /\ pc[c] \in Executing => pc'[c] \in Executing \cup Marking
  /\ pc'[c] \in {"commit", "report"} => outbox'[cur[c]] = work'[cur[c]]
  /\ pc'[c] = "report" /\ cur[c] \in Git => head'[cur[c]] = work'[cur[c]]
  /\ pc'[c] \in Marking => /\ verdict'[cur[c]] \in Terminal
                           /\ verdict'[cur[c]] = "done" =>
                                /\ outbox'[cur[c]] = work'[cur[c]]
                                /\ cur[c] \in Git => head'[cur[c]] = work'[cur[c]]

LEMMA ProcessStepOne ==
  ASSUME ~ setup.watchdog, Inv, OneInv, NEW c \in Main, ProcessStep(c)
  PROVE  OneInv'
<1> USE OnlyOne DEF OneInv, ProcessStep
<1>1. \A d \in Main : d = c
  OBVIOUS
<1>2. pc[c] \notin {"idle", "write"} /\ pc'[c] \notin {"idle", "write", "gone", "join"} /\ Working(c)
  BY DEF Executing, Working
<1>3. Load(processed)' = Load(processed) /\ seen[c] = Load(processed) /\ cur[c] \notin seen[c]
  BY <1>2 DEF Load, KnowsTheFile, Fresh
<1>4. KnowsTheFile' /\ Fresh' /\ KeepsMarks'
  BY <1>1, <1>2, <1>3 DEF KnowsTheFile, Fresh, Working, KeepsMarks
<1>5. KnowsTheBegun'
  BY <1>1, <1>2, <1>3 DEF KnowsTheBegun, Marking
<1>6. Settles'
  <2>1. \A j \in seen[c] : Settled(j)'
    <3>1. seen[c] \subseteq Job
      BY OnlyOne DEF Inv, Basic, TypeOK
    <3>2. QED
      BY <3>1, <1>3 DEF Settles, Settled
  <2>2. pc'[c] \in Marking => Settled(cur[c])'
    BY DEF Settled
  <2>3. QED
    BY <1>1, <1>3, <2>1, <2>2 DEF Settles
<1>7. QED
  BY <1>4, <1>5, <1>6

\* Each of them is such a step.
LEMMA InnerOne ==
  ASSUME ~ setup.watchdog, Inv, OneInv, NEW c \in Main,
         CostGuard(c) \/ Gate(c) \/ Execute(c) \/ Review(c) \/ Refine(c)
         \/ DeliverCopy(c) \/ DeliverCommit(c) \/ Report(c)
  PROVE  OneInv'
<1> SUFFICES ProcessStep(c)
  BY ProcessStepOne
<1>0. /\ pc \in [Cycler -> Place] /\ verdict \in [Job -> Outcome \cup {Nothing}]
      /\ work \in [Job -> Files] /\ outbox \in [Job -> Files] /\ head \in [Job -> Files]
      /\ pc[c] \notin {"idle", "gone", "join", "pick"} => cur[c] \in Job
  BY OnlyOne DEF Inv, Basic, TypeOK
<1> USE <1>0, OnlyOne DEF ProcessStep, Goto, Return, Terminal, Executing, Marking, process, history
<1>1. CASE CostGuard(c)
  <2>1. (Goto(c, "gate") /\ UNCHANGED history) \/ Return(c, "queued")
    BY <1>1 DEF CostGuard
  <2>2. pc[c] = "guard" /\ UNCHANGED disk
    BY <1>1 DEF CostGuard
  <2>3. QED
    BY <2>1, <2>2 DEF disk
<1>2. CASE Gate(c)
  BY <1>2 DEF Gate, disk
<1>3. CASE Execute(c)
  BY <1>3 DEF Execute
<1>4. CASE Review(c)
  BY <1>4 DEF Review, disk
<1>5. CASE Refine(c)
  BY <1>5 DEF Refine
<1>6. CASE DeliverCopy(c)
  BY <1>6 DEF DeliverCopy
<1>7. CASE DeliverCommit(c)
  BY <1>7 DEF DeliverCommit, OneInv, Settles
<1>8. CASE Report(c)
  BY <1>8 DEF Report, OneInv, Settles, disk
<1>9. QED
  BY <1>1, <1>2, <1>3, <1>4, <1>5, <1>6, <1>7, <1>8

LEMMA StepOne ==
  ASSUME ~ setup.watchdog, Inv, OneInv, [Next]_vars
  PROVE  OneInv'
<1>1. CASE UNCHANGED vars
  <2>1. UNCHANGED <<processed, verdict, work, outbox, head, watch, cycle, history>>
    BY <1>1 DEF vars, disk, process
  <2>2. KnowsTheFile' /\ Fresh' /\ KeepsMarks' /\ KnowsTheBegun'
    BY <2>1 DEF OneInv, KnowsTheFile, Fresh, Working, KeepsMarks, KnowsTheBegun, Load,
                cycle, history
  <2>3. Settles'
    BY <2>1 DEF OneInv, Settles, Settled, Load, cycle, history
  <2>4. QED
    BY <2>2, <2>3 DEF OneInv
<1>2. CASE Environment \/ Restart
  BY <1>2, EnvironmentOne
<1>3. ASSUME NEW c \in Main, CycleStep(c) PROVE OneInv'
  <2>1. CASE CycleRaises(c) \/ PlanRaises(c) \/ ValidationRaises(c) \/ CommitRaises(c)
    BY <2>1, RaiseOne DEF CycleRaises, PlanRaises, ValidationRaises, CommitRaises
  <2>2. QED
    BY <1>3, <2>1, BeginOne, PickOne, EndOne, MarkOne, InnerOne DEF CycleStep
<1>4. ASSUME NEW c \in Cycler, CycleStep(c) PROVE c \in Main
  BY <1>4, GoneRests DEF Inv, Polls, Main
<1>5. QED
  BY <1>1, <1>2, <1>3, <1>4 DEF Next
----------------------------------------------------------------------------
\* Without a watchdog the invariant holds in every reachable state.
LEMMA OneInvAlways == SafeSpec => [](Inv /\ (~ setup.watchdog => OneInv))
<1>1. Init => OneInv
  BY InitOne
<1>2. Inv /\ (~ setup.watchdog => OneInv) /\ [Next]_vars => (~ setup.watchdog => OneInv)'
  BY StepOne, SetupFixed
<1>3. QED
  BY <1>1, <1>2, InitInv, StepInv, PTL DEF SafeSpec

\* One cycling thread: processed.json never loses a mark, but to a death in
\* the middle of rewriting it.
THEOREM RegistryAlwaysComplete == SafeSpec => []RegistryComplete
<1>1. (~ setup.watchdog => OneInv) => RegistryComplete
  BY OnlyOne DEF OneInv, KeepsMarks, RegistryComplete
<1>2. QED
  BY <1>1, OneInvAlways, PTL

\* One cycling thread: whatever is in the registry came to a terminal outcome,
\* and what was done is delivered as the working directory has it, also after
\* deaths and runs that repeat what a torn registry forgot.
THEOREM MarkedAlwaysSettled == SafeSpec => []MarkedIsSettled
<1>1. (~ setup.watchdog => OneInv) => MarkedIsSettled
  BY OnlyOne DEF OneInv, Settles, Settled, MarkedIsSettled
<1>2. QED
  BY <1>1, OneInvAlways, PTL

\* One cycling thread: no process executes a job twice, and no marked job is
\* executed again before a death tore the registry.
THEOREM RunsOnceAlways == SafeSpec => RunsOnce
<1>1. ASSUME Inv, ~ setup.watchdog => OneInv
      PROVE  [\A c \in Cycler, j \in Job :
                ~ setup.watchdog /\ Begins(c, j) => j \notin begun /\ (j \in marked => forgot)]_vars
  <2> SUFFICES ASSUME NEW c \in Cycler, NEW j \in Job, ~ setup.watchdog, Begins(c, j)
               PROVE  j \notin begun /\ (j \in marked => forgot)
    OBVIOUS
  <2>1. pc[c] = "gate" /\ cur[c] = j /\ c \in Main
    BY <1>1 DEF Begins, Inv, Polls, Main
  <2>2. j \notin seen[c] /\ seen[c] = Load(processed) /\ (forgot \/ seen[c] = marked)
    BY <1>1, <2>1 DEF OneInv, Fresh, Working, KnowsTheFile, KeepsMarks
  <2>3. QED
    BY <1>1, <2>1, <2>2 DEF OneInv, KnowsTheBegun, Executing, Marking
<1>2. QED
  BY <1>1, OneInvAlways, PTL DEF SafeSpec, RunsOnce
============================================================================
