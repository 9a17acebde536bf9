-------------------------- MODULE ReadModelProofs --------------------------
(***************************************************************************)
(* Proofs about the read model, for any sets of tasks, sub-tasks and days, *)
(* finite or not, and an events table of any length.                       *)
(*                                                                         *)
(* The properties compare the rows with maxima, minima, sums and numbers   *)
(* of elements of the whole table, so each proof is about one more event:  *)
(* which parts of the table it belongs to (IngestAbout), which rows it     *)
(* changes (IngestRows), and what it adds to a maximum or a sum.  Their    *)
(* conjunction is inductive once the log is one of accepted events and the *)
(* tables have a row for exactly what it is about (LogInv).  CountedOnce   *)
(* needs TaskStatusIsLast: whether an event settles its task is decided by *)
(* the row, and stated by what was logged before the event.                *)
(*                                                                         *)
(* A sum over a finite set is taken from a recursive function.  That it is *)
(* well defined, and what one more term does to it, is shown by looking at *)
(* a smallest subset for which it would fail.                              *)
(***************************************************************************)
EXTENDS ReadModel, FiniteSetTheorems, WellFoundedInduction, TLAPS

----------------------------------------------------------------------------
(* Sums.                                                                   *)

\* Of a non-empty set of subsets of a finite set, one contains no other of them.
LEMMA SmallestSet ==
  ASSUME NEW S, IsFiniteSet(S), NEW T \in SUBSET (SUBSET S), T # {}
  PROVE  \E m \in T : \A u \in SUBSET m : u # m => u \notin T
<1>1. IsWellFoundedOn(StrictSubsetOrdering(S), FiniteSubsetsOf(S))
  BY FS_StrictSubsetOrderingWellFounded
<1>2. T \subseteq FiniteSubsetsOf(S)
  BY FS_Subset DEF FiniteSubsetsOf
<1>3. \E m \in T : \A u \in T : ~ (<<u, m>> \in StrictSubsetOrdering(S))
  BY <1>1, <1>2, WFMin
<1>4. QED
  BY <1>2, <1>3 DEF StrictSubsetOrdering, FiniteSubsetsOf

\* The function SumFunctionOnSet takes its value from: it solves this equation.
Pick(s) == CHOOSE x \in s : TRUE
Sums(g, f, S) == g = [s \in SUBSET S |-> IF s = {} THEN 0 ELSE f[Pick(s)] + g[s \ {Pick(s)}]]

\* What is picked is a member.
LEMMA PickIn == ASSUME NEW s, s # {} PROVE Pick(s) \in s
BY DEF Pick

\* All solutions agree.
LEMMA SumsUnique ==
  ASSUME NEW f, NEW A, NEW B, NEW g, NEW h, Sums(g, f, A), Sums(h, f, B),
         NEW S, IsFiniteSet(S), S \subseteq A, S \subseteq B
  PROVE  g[S] = h[S]
<1> DEFINE T == {s \in SUBSET S : g[s] # h[s]}
<1>1. SUFFICES T = {}
  OBVIOUS
<1>2. SUFFICES ASSUME T # {} PROVE FALSE
  OBVIOUS
<1>3. PICK m \in T : \A u \in SUBSET m : u # m => u \notin T
  <2>1. T \in SUBSET (SUBSET S)
    OBVIOUS
  <2> HIDE DEF T
  <2>2. QED
    BY <1>2, <2>1, SmallestSet
<1>4. /\ g[m] = IF m = {} THEN 0 ELSE f[Pick(m)] + g[m \ {Pick(m)}]
      /\ h[m] = IF m = {} THEN 0 ELSE f[Pick(m)] + h[m \ {Pick(m)}]
  BY DEF Sums
<1>5. m # {} => m \ {Pick(m)} \in SUBSET m /\ m \ {Pick(m)} # m
  BY PickIn
<1>6. m # {} => g[m \ {Pick(m)}] = h[m \ {Pick(m)}]
  BY <1>3, <1>5
<1>7. QED
  BY <1>3, <1>4, <1>6

\* There is one on every finite set.
LEMMA SumsExist == ASSUME NEW f, NEW S, IsFiniteSet(S) PROVE \E g : Sums(g, f, S)
<1> DEFINE T == {s \in SUBSET S : ~ \E g : Sums(g, f, s)}
<1>1. SUFFICES ASSUME T # {} PROVE FALSE
  OBVIOUS
<1>2. PICK m \in T : \A u \in SUBSET m : u # m => u \notin T
  <2>1. T \in SUBSET (SUBSET S)
    OBVIOUS
  <2> HIDE DEF T
  <2>2. QED
    BY <1>1, <2>1, SmallestSet
<1> DEFINE Of(u) == CHOOSE g : Sums(g, f, u)
           G == [u \in SUBSET m |-> IF u = {} THEN 0
                                    ELSE f[Pick(u)] + Of(u \ {Pick(u)})[u \ {Pick(u)}]]
<1>3. \A u \in SUBSET m : u # m => Sums(Of(u), f, u)
  BY <1>2
<1>4. \A u \in SUBSET m : u # m => G[u] = Of(u)[u]
  <2> SUFFICES ASSUME NEW u \in SUBSET m, u # m PROVE G[u] = Of(u)[u]
    OBVIOUS
  <2>1. Sums(Of(u), f, u)
    BY <1>3
  <2> DEFINE r == u \ {Pick(u)}
  <2>2. Of(u)[u] = IF u = {} THEN 0 ELSE f[Pick(u)] + Of(u)[r]
    <3> HIDE DEF Of
    <3>1. QED
      BY <2>1 DEF Sums
  <2>3. u # {} => Of(u)[r] = Of(r)[r]
    <3> SUFFICES ASSUME u # {} PROVE Of(u)[r] = Of(r)[r]
      OBVIOUS
    <3>1. r \subseteq u /\ r \in SUBSET m /\ r # m /\ IsFiniteSet(r)
      BY FS_Subset
    <3>2. Sums(Of(r), f, r)
      BY <1>3, <3>1
    <3> HIDE DEF Of, r
    <3>3. QED
      BY <2>1, <3>1, <3>2, SumsUnique
  <2>4. G[u] = IF u = {} THEN 0 ELSE f[Pick(u)] + Of(r)[r]
    OBVIOUS
  <2> HIDE DEF G, Of, r
  <2>5. QED
    BY <2>2, <2>3, <2>4
<1>5. \A u \in SUBSET m : u # {} => G[u \ {Pick(u)}] = Of(u \ {Pick(u)})[u \ {Pick(u)}]
  BY <1>4, PickIn
<1>6. Sums(G, f, m)
  <2>1. G = [u \in SUBSET m |-> IF u = {} THEN 0 ELSE f[Pick(u)] + G[u \ {Pick(u)}]]
    <3> DEFINE H == [u \in SUBSET m |-> IF u = {} THEN 0 ELSE f[Pick(u)] + G[u \ {Pick(u)}]]
    <3>1. ASSUME NEW u \in SUBSET m PROVE G[u] = H[u]
      <4>1. G[u] = IF u = {} THEN 0 ELSE f[Pick(u)] + Of(u \ {Pick(u)})[u \ {Pick(u)}]
        OBVIOUS
      <4>2. H[u] = IF u = {} THEN 0 ELSE f[Pick(u)] + G[u \ {Pick(u)}]
        OBVIOUS
      <4> HIDE DEF G, H, Of
      <4>3. QED
        BY <1>5, <4>1, <4>2
    <3>2. G = [u \in SUBSET m |-> G[u]]
      OBVIOUS
    <3> HIDE DEF G
    <3>3. QED
      BY <3>1, <3>2
  <2> HIDE DEF G
  <2>2. QED
    BY <2>1 DEF Sums
<1>7. QED
  BY <1>6

\* So a sum is the value of a solution.
LEMMA SumValue ==
  ASSUME NEW f, NEW S, IsFiniteSet(S)
  PROVE  \E g : /\ Sums(g, f, S)
                /\ \A I \in SUBSET S : SumFunctionOnSet(f, I) = g[I]
<1>1. PICK g : Sums(g, f, S)
  BY SumsExist
<1>2. ASSUME NEW I \in SUBSET S PROVE SumFunctionOnSet(f, I) = g[I]
  <2> DEFINE h == CHOOSE k : Sums(k, f, I)
  <2>1. SumFunctionOnSet(f, I) = h[I]
    BY Zenon DEF SumFunctionOnSet, FoldFunctionOnSet, MapThenFoldSet, Sums, Pick
  <2>2. IsFiniteSet(I)
    BY <1>2, FS_Subset
  <2>3. Sums(h, f, I)
    BY <2>2, SumsExist
  <2> HIDE DEF h
  <2>4. QED
    BY <1>1, <1>2, <2>1, <2>2, <2>3, SumsUnique
<1>3. QED
  BY <1>1, <1>2

\* Sums of whole numbers, taken apart at any member.
LEMMA SumSteps ==
  ASSUME NEW S, IsFiniteSet(S), NEW f, \A x \in S : f[x] \in Int
  PROVE  /\ SumFunctionOnSet(f, {}) = 0
         /\ SumFunctionOnSet(f, S) \in Int
         /\ \A x \in S : SumFunctionOnSet(f, S) = f[x] + SumFunctionOnSet(f, S \ {x})
<1>1. PICK g : Sums(g, f, S) /\ \A I \in SUBSET S : SumFunctionOnSet(f, I) = g[I]
  BY SumValue
<1>2. \A s \in SUBSET S : g[s] = IF s = {} THEN 0 ELSE f[Pick(s)] + g[s \ {Pick(s)}]
  BY <1>1 DEF Sums
<1> DEFINE Fine(s) == g[s] \in Int /\ \A x \in s : g[s] = f[x] + g[s \ {x}]
           T == {s \in SUBSET S : ~ Fine(s)}
<1>3. T = {}
  <2> SUFFICES ASSUME T # {} PROVE FALSE
    OBVIOUS
  <2>1. PICK m \in T : \A u \in SUBSET m : u # m => u \notin T
    <3>1. T \in SUBSET (SUBSET S)
      OBVIOUS
    <3> HIDE DEF T
    <3>2. QED
      BY <3>1, SmallestSet
  <2>2. \A u \in SUBSET m : u # m => Fine(u)
    BY <2>1
  <2> DEFINE p == Pick(m)
  <2>3. m # {} => p \in m
    BY PickIn
  <2>4. CASE m = {}
    <3>1. g[m] = 0
      BY <1>2, <2>4
    <3>2. Fine(m)
      BY <2>4, <3>1
    <3>3. QED
      BY <3>2
  <2>5. CASE m # {}
    <3>1. g[m] = f[p] + g[m \ {p}] /\ Fine(m \ {p}) /\ f[p] \in Int
      BY <1>2, <2>2, <2>3, <2>5
    <3>2. g[m] \in Int
      BY <3>1
    <3>3. ASSUME NEW x \in m PROVE g[m] = f[x] + g[m \ {x}]
      <4>1. CASE x = p
        BY <3>1, <4>1
      <4>2. CASE x # p
        <5> DEFINE r == (m \ {x}) \ {p}
        <5>1. (m \ {p}) \ {x} = r /\ r \in SUBSET m /\ r # m
          OBVIOUS
        <5>2. g[m \ {p}] = f[x] + g[r]
          BY <3>1, <4>2, <5>1
        <5>3. g[m \ {x}] = f[p] + g[r]
          BY <2>2, <2>3, <2>5, <3>3, <4>2
        <5>4. f[x] \in Int /\ f[p] \in Int /\ g[r] \in Int
          BY <2>2, <3>1, <3>3, <5>1
        <5>5. g[m] = f[p] + g[m \ {p}]
          BY <3>1
        <5> HIDE DEF p, r
        <5>6. QED
          BY <5>2, <5>3, <5>4, <5>5
      <4>3. QED
        BY <4>1, <4>2
    <3>4. Fine(m)
      BY <3>2, <3>3
    <3>5. QED
      BY <3>4
  <2>6. QED
    BY <2>4, <2>5
<1>4. Fine(S)
  BY <1>3
<1>5. g[{}] = 0
  BY <1>2
<1>6. \A x \in S : S \ {x} \in SUBSET S
  OBVIOUS
<1>7. QED
  BY <1>1, <1>4, <1>5, <1>6

\* Terms that agree have the same sum, and smaller ones no greater one.
LEMMA SumMonotone ==
  ASSUME NEW S, IsFiniteSet(S), NEW f, NEW h,
         \A x \in S : f[x] \in Int /\ h[x] \in Int /\ f[x] <= h[x]
  PROVE  SumFunctionOnSet(f, S) <= SumFunctionOnSet(h, S)
<1> DEFINE Le(s) == SumFunctionOnSet(f, s) <= SumFunctionOnSet(h, s)
           T == {s \in SUBSET S : ~ Le(s)}
<1>1. SUFFICES ASSUME T # {} PROVE FALSE
  OBVIOUS
<1>2. PICK m \in T : \A u \in SUBSET m : u # m => u \notin T
  <2>1. T \in SUBSET (SUBSET S)
    OBVIOUS
  <2> HIDE DEF T
  <2>2. QED
    BY <1>1, <2>1, SmallestSet
<1>3. IsFiniteSet(m) /\ m \subseteq S
  BY FS_Subset
<1>4. m # {}
  <2>1. SumFunctionOnSet(f, {}) = 0 /\ SumFunctionOnSet(h, {}) = 0
    BY SumSteps
  <2>2. QED
    BY <2>1
<1>5. PICK x \in m : TRUE
  BY <1>4
<1> DEFINE r == m \ {x}
<1>6. Le(r) /\ IsFiniteSet(r) /\ r \subseteq S
  BY <1>2, <1>3, <1>5, FS_Subset
<1>7. /\ SumFunctionOnSet(f, m) = f[x] + SumFunctionOnSet(f, r)
      /\ SumFunctionOnSet(h, m) = h[x] + SumFunctionOnSet(h, r)
  BY <1>3, <1>5, SumSteps
<1>8. SumFunctionOnSet(f, r) \in Int /\ SumFunctionOnSet(h, r) \in Int
  BY <1>6, SumSteps
<1>9. f[x] \in Int /\ h[x] \in Int /\ f[x] <= h[x]
  BY <1>3, <1>5
<1> HIDE DEF r
<1>10. Le(m)
  BY <1>6, <1>7, <1>8, <1>9
<1>11. QED
  BY <1>10

\* Functions that agree on their domain have one sum.
LEMMA SumSame ==
  ASSUME NEW S, IsFiniteSet(S), NEW f, NEW h, \A x \in S : f[x] \in Int /\ f[x] = h[x]
  PROVE  SumFunctionOnSet(f, S) = SumFunctionOnSet(h, S)
<1>1. \A x \in S : h[x] \in Int /\ f[x] <= h[x] /\ h[x] <= f[x]
  OBVIOUS
<1>2. SumFunctionOnSet(f, S) <= SumFunctionOnSet(h, S) /\ SumFunctionOnSet(h, S) <= SumFunctionOnSet(f, S)
  BY <1>1, SumMonotone
<1>3. SumFunctionOnSet(f, S) \in Int /\ SumFunctionOnSet(h, S) \in Int
  BY <1>1, SumSteps
<1>4. QED
  BY <1>2, <1>3

\* One more term, or one that has become another.
LEMMA SumPut ==
  ASSUME NEW f, IsFiniteSet(DOMAIN f), NEW h, NEW x, DOMAIN h = DOMAIN f \cup {x},
         \A y \in DOMAIN f : f[y] \in Int, h[x] \in Int,
         \A y \in DOMAIN f \ {x} : h[y] = f[y]
  PROVE  /\ SumFunction(f) \in Int
         /\ SumFunction(h) = SumFunction(f) + h[x] - (IF x \in DOMAIN f THEN f[x] ELSE 0)
<1> DEFINE D == DOMAIN f   E == DOMAIN h   r == DOMAIN f \ {x}
<1>1. IsFiniteSet(E) /\ IsFiniteSet(r) /\ r = E \ {x} /\ x \in E
  BY FS_AddElement, FS_Subset
<1>2. \A y \in E : h[y] \in Int
  OBVIOUS
<1>3. SumFunctionOnSet(h, E) = h[x] + SumFunctionOnSet(h, r)
  BY <1>1, <1>2, SumSteps
<1>4. SumFunctionOnSet(h, r) = SumFunctionOnSet(f, r) /\ SumFunctionOnSet(f, r) \in Int
  BY <1>1, SumSame, SumSteps
<1>5. SumFunctionOnSet(f, D) = SumFunctionOnSet(f, r) + (IF x \in D THEN f[x] ELSE 0)
  <2>1. CASE x \in D
    BY <1>4, <2>1, SumSteps
  <2>2. CASE x \notin D
    <3>1. r = D
      BY <2>2
    <3>2. QED
      BY <1>4, <2>2, <3>1
  <2>3. QED
    BY <2>1, <2>2
<1>6. x \in D => f[x] \in Int
  OBVIOUS
<1> HIDE DEF D, E, r
<1>7. SumFunctionOnSet(h, E) = SumFunctionOnSet(f, D) + h[x] - (IF x \in D THEN f[x] ELSE 0)
      /\ SumFunctionOnSet(f, D) \in Int
  BY <1>3, <1>4, <1>5, <1>6
<1> USE DEF D, E, r
<1>8. QED
  BY <1>7 DEF SumFunction
----------------------------------------------------------------------------
(* The log and the tables.                                                 *)

\* The log holds events, none refused, and the tables have a row each for what
\* it is about.
LogInv ==
  /\ events \in Seq(Event)
  /\ \A i \in At : events[i].message # Blank
  /\ DOMAIN model.tasks = {t \in Task : OfTask(t) # {}}
  /\ DOMAIN model.subtasks = {s \in Sub : OfSub(s) # {}}
  /\ DOMAIN model.daily = {d \in Day : OfDay(d) # {}}
  /\ IsFiniteSet(DOMAIN model.tasks) /\ IsFiniteSet(DOMAIN model.daily)
  /\ \A t \in DOMAIN model.tasks :
       model.tasks[t] = [status |-> model.tasks[t].status, cost |-> model.tasks[t].cost,
                         error |-> model.tasks[t].error]
  /\ \A d \in DOMAIN model.daily : model.daily[d] \in [cost : Int, done : Int, failed : Int]

\* The rows an event leads to.
TaskRow(ev) ==
  IF ev.task \notin DOMAIN model.tasks THEN NewRow(ev)
  ELSE [status |-> NextStatus(model.tasks[ev.task], ev),
        cost |-> model.tasks[ev.task].cost + ev.cost,
        error |-> NextError(model.tasks[ev.task], ev)]
SubRow(ev) ==
  IF ev.sub \notin DOMAIN model.subtasks THEN ev.status ELSE Or(ev.status, model.subtasks[ev.sub])
Counted(ev, status) == IF Settles(model.tasks, ev) /\ ev.status = status THEN 1 ELSE 0
DayRow(ev) ==
  IF ev.day \in DOMAIN model.daily
  THEN [cost |-> model.daily[ev.day].cost + ev.cost,
        done |-> model.daily[ev.day].done + Counted(ev, "done"),
        failed |-> model.daily[ev.day].failed + Counted(ev, "failed")]
  ELSE [cost |-> ev.cost, done |-> Counted(ev, "done"), failed |-> Counted(ev, "failed")]

\* The fields of an event.
LEMMA EventForm ==
  ASSUME NEW ev \in Event
  PROVE  /\ ev.task \in Task /\ ev.task # None /\ ev.day \in Day
         /\ ev.sub \in Sub \cup {None} /\ ev.status \in Statuses \cup {None}
         /\ ev.cost \in {0, 1}
<1>1. PICK t \in Task, d \in Day : ev \in EventsOf(t, d)
  BY DEF Event
<1>2. ev.task = t /\ ev.day = d /\ ev.cost \in {0, 1}
  BY <1>1 DEF EventsOf, Shape
<1>3. ev.sub \in Sub \cup {None} /\ ev.status \in Statuses \cup {None}
  BY <1>1 DEF EventsOf, Shape, Statuses
<1>4. QED
  BY <1>2, <1>3, ReadModelAssumption

\* A row is put beside the others.
LEMMA PutRow ==
  ASSUME NEW table, NEW k, NEW row
  PROVE  /\ DOMAIN Put(table, k, row) = DOMAIN table \cup {k}
         /\ Put(table, k, row)[k] = row
         /\ \A x \in DOMAIN table \ {k} : Put(table, k, row)[x] = table[x]
BY DEF Put

\* What ingesting an event does to the tables.
LEMMA IngestPuts ==
  ASSUME LogInv, NEW ev \in Event, Ingest(ev)
  PROVE  /\ model'.tasks = Put(model.tasks, ev.task, TaskRow(ev))
         /\ model'.subtasks = IF ev.sub = None THEN model.subtasks
                              ELSE Put(model.subtasks, ev.sub, SubRow(ev))
         /\ model'.daily = Put(model.daily, ev.day, DayRow(ev))
<1>1. /\ model'.tasks = ProjectTask(model.tasks, ev)
      /\ model'.subtasks = ProjectSubtask(model.subtasks, ev)
      /\ model'.daily = BumpDaily(model.daily, ev, Counted(ev, "done"), Counted(ev, "failed"))
  BY DEF Ingest, ApplyEvent, Counted
<1>2. ev.task # None
  BY EventForm
<1>3. model'.tasks = Put(model.tasks, ev.task, TaskRow(ev))
  BY <1>1, <1>2 DEF ProjectTask, TaskRow
<1>4. model'.subtasks = IF ev.sub = None THEN model.subtasks ELSE Put(model.subtasks, ev.sub, SubRow(ev))
  BY <1>1, <1>2 DEF ProjectSubtask, SubRow
<1>5. BumpDaily(model.daily, ev, Counted(ev, "done"), Counted(ev, "failed"))
        = Put(model.daily, ev.day, DayRow(ev))
  <2> DEFINE d == Counted(ev, "done")   f == Counted(ev, "failed")
  <2>1. d \in Int /\ f \in Int /\ ev.cost \in Int
    BY EventForm DEF Counted
  <2> HIDE DEF d, f
  <2>2. BumpDaily(model.daily, ev, d, f) = Put(model.daily, ev.day,
          IF ev.day \in DOMAIN model.daily
          THEN [cost |-> model.daily[ev.day].cost + ev.cost,
                done |-> model.daily[ev.day].done + d, failed |-> model.daily[ev.day].failed + f]
          ELSE [cost |-> ev.cost, done |-> d, failed |-> f])
    <3>1. CASE ev.day \in DOMAIN model.daily
      BY <3>1 DEF BumpDaily
    <3>2. CASE ev.day \notin DOMAIN model.daily
      BY <2>1, <3>2 DEF BumpDaily
    <3>3. QED
      BY <3>1, <3>2
  <2>3. QED
    BY <2>2 DEF DayRow, d, f
<1>6. QED
  BY <1>1, <1>3, <1>4, <1>5

\* What is in them afterwards.
LEMMA IngestRows ==
  ASSUME LogInv, NEW ev \in Event, Ingest(ev)
  PROVE  /\ DOMAIN model'.tasks = DOMAIN model.tasks \cup {ev.task}
         /\ model'.tasks[ev.task] = TaskRow(ev)
         /\ \A t \in DOMAIN model.tasks \ {ev.task} : model'.tasks[t] = model.tasks[t]
         /\ DOMAIN model'.subtasks = DOMAIN model.subtasks \cup (IF ev.sub = None THEN {} ELSE {ev.sub})
         /\ ev.sub # None => model'.subtasks[ev.sub] = SubRow(ev)
         /\ \A s \in DOMAIN model.subtasks \ {ev.sub} : model'.subtasks[s] = model.subtasks[s]
         /\ DOMAIN model'.daily = DOMAIN model.daily \cup {ev.day}
         /\ model'.daily[ev.day] = DayRow(ev)
         /\ \A d \in DOMAIN model.daily \ {ev.day} : model'.daily[d] = model.daily[d]
<1>1. /\ DOMAIN model'.tasks = DOMAIN model.tasks \cup {ev.task}
      /\ model'.tasks[ev.task] = TaskRow(ev)
      /\ \A t \in DOMAIN model.tasks \ {ev.task} : model'.tasks[t] = model.tasks[t]
  <2>1. model'.tasks = Put(model.tasks, ev.task, TaskRow(ev))
    BY IngestPuts
  <2>2. QED
    BY <2>1 DEF Put
<1>2. /\ DOMAIN model'.daily = DOMAIN model.daily \cup {ev.day}
      /\ model'.daily[ev.day] = DayRow(ev)
      /\ \A d \in DOMAIN model.daily \ {ev.day} : model'.daily[d] = model.daily[d]
  <2>1. model'.daily = Put(model.daily, ev.day, DayRow(ev))
    BY IngestPuts
  <2>2. QED
    BY <2>1, Zenon DEF Put
<1>3. CASE ev.sub = None
  BY <1>1, <1>2, <1>3, IngestPuts
<1>4. CASE ev.sub # None
  <2>1. model'.subtasks = Put(model.subtasks, ev.sub, SubRow(ev))
    BY <1>4, IngestPuts
  <2>2. /\ DOMAIN model'.subtasks = DOMAIN model.subtasks \cup {ev.sub}
        /\ model'.subtasks[ev.sub] = SubRow(ev)
        /\ \A s \in DOMAIN model.subtasks \ {ev.sub} : model'.subtasks[s] = model.subtasks[s]
    BY <2>1 DEF Put
  <2>3. QED
    BY <1>1, <1>2, <1>4, <2>2
<1>5. QED
  BY <1>3, <1>4

\* The log grows by one.
LEMMA IngestAppends ==
  ASSUME events \in Seq(Event), NEW ev \in Event, Ingest(ev)
  PROVE  /\ Len(events) \in Nat
         /\ events' \in Seq(Event) /\ At' = At \cup {Len(events) + 1} /\ Len(events) + 1 \notin At
         /\ events'[Len(events) + 1] = ev
         /\ \A i \in At : events'[i] = events[i] /\ events[i] \in Event
         /\ \A i \in At : i \in Int /\ i < Len(events) + 1
BY DEF Ingest, At

\* So what is about a task, a sub-task or a day grows by that or not at all.
New(is) == IF is THEN {Len(events) + 1} ELSE {}
LEMMA IngestAbout ==
  ASSUME events \in Seq(Event), NEW ev \in Event, Ingest(ev)
  PROVE  /\ \A t : OfTask(t)' = OfTask(t) \cup New(ev.task = t)
         /\ \A s : OfSub(s)' = OfSub(s) \cup New(ev.sub = s)
         /\ \A d : OfDay(d)' = OfDay(d) \cup New(ev.day = d)
         /\ \A t : WithStatus(TaskLevel(OfTask(t)))'
                    = WithStatus(TaskLevel(OfTask(t)))
                        \cup New(ev.task = t /\ ev.sub = None /\ ev.status # None)
         /\ \A s : WithStatus(OfSub(s))' = WithStatus(OfSub(s)) \cup New(ev.sub = s /\ ev.status # None)
BY IngestAppends DEF OfTask, OfSub, OfDay, WithStatus, TaskLevel, New

\* Ingesting keeps log and tables in step: the row of an event is made or
\* updated in the same transaction that appends it.
LEMMA LogStep == ASSUME LogInv, NEW ev \in Event, Ingest(ev) PROVE LogInv'
<1> DEFINE n == Len(events) + 1
<1>0. events \in Seq(Event)
  BY DEF LogInv
<1>1. /\ events' \in Seq(Event) /\ At' = At \cup {n} /\ events'[n] = ev
      /\ \A i \in At : events'[i] = events[i]
  BY <1>0, IngestAppends
<1>2. /\ ev.task \in Task /\ ev.day \in Day /\ ev.sub \in Sub \cup {None} /\ ev.cost \in Int
  BY EventForm
<1>4. \A i \in At' : events'[i].message # Blank
  BY <1>1 DEF LogInv, Ingest, Accepts
<1>5. /\ \A t : OfTask(t)' = OfTask(t) \cup New(ev.task = t)
      /\ \A s : OfSub(s)' = OfSub(s) \cup New(ev.sub = s)
      /\ \A d : OfDay(d)' = OfDay(d) \cup New(ev.day = d)
  BY <1>0, IngestAbout
<1>6. /\ DOMAIN model'.tasks = DOMAIN model.tasks \cup {ev.task}
      /\ DOMAIN model'.daily = DOMAIN model.daily \cup {ev.day}
      /\ DOMAIN model'.subtasks = DOMAIN model.subtasks \cup (IF ev.sub = None THEN {} ELSE {ev.sub})
  BY IngestRows
<1>7. DOMAIN model'.tasks = {t \in Task : OfTask(t)' # {}}
  BY <1>2, <1>5, <1>6 DEF LogInv, New
<1>8. DOMAIN model'.subtasks = {s \in Sub : OfSub(s)' # {}}
  <2>1. \A s \in Sub : s # None
    BY ReadModelAssumption
  <2>2. \A s : New(ev.sub = s) # {} <=> ev.sub = s
    BY DEF New
  <2>3. \A s \in Sub : OfSub(s)' # {} <=> OfSub(s) # {} \/ ev.sub = s
    BY <1>5, <2>2
  <2>4. DOMAIN model.subtasks = {s \in Sub : OfSub(s) # {}}
    BY DEF LogInv
  <2>5. \A s : s \in DOMAIN model'.subtasks <=> s \in DOMAIN model.subtasks \/ (s = ev.sub /\ s \in Sub)
    BY <1>2, <1>6, <2>1
  <2>6. QED
    BY <2>3, <2>4, <2>5
<1>9. DOMAIN model'.daily = {d \in Day : OfDay(d)' # {}}
  BY <1>2, <1>5, <1>6 DEF LogInv, New
<1>10. IsFiniteSet(DOMAIN model'.tasks) /\ IsFiniteSet(DOMAIN model'.daily)
  <2>1. IsFiniteSet(DOMAIN model.tasks) /\ IsFiniteSet(DOMAIN model.daily)
    BY DEF LogInv
  <2>2. /\ IsFiniteSet(DOMAIN model.tasks \cup {ev.task})
        /\ IsFiniteSet(DOMAIN model.daily \cup {ev.day})
    BY <2>1, FS_AddElement
  <2>3. QED
    BY <1>6, <2>2
<1>11. ASSUME NEW t \in DOMAIN model'.tasks
       PROVE  model'.tasks[t] = [status |-> model'.tasks[t].status, cost |-> model'.tasks[t].cost,
                                 error |-> model'.tasks[t].error]
  <2>1. CASE t = ev.task
    <3>1. TaskRow(ev) = [status |-> TaskRow(ev).status, cost |-> TaskRow(ev).cost,
                         error |-> TaskRow(ev).error]
      <4>1. CASE ev.task \in DOMAIN model.tasks
        BY <4>1 DEF TaskRow
      <4>2. CASE ev.task \notin DOMAIN model.tasks
        BY <4>2 DEF TaskRow, NewRow
      <4>3. QED
        BY <4>1, <4>2
    <3>2. model'.tasks[t] = TaskRow(ev)
      BY <2>1, IngestRows
    <3>3. QED
      BY <3>1, <3>2
  <2>2. CASE t # ev.task
    BY <1>6, <2>2, IngestRows DEF LogInv
  <2>3. QED
    BY <2>1, <2>2
<1>12. ASSUME NEW d \in DOMAIN model'.daily PROVE model'.daily[d] \in [cost : Int, done : Int, failed : Int]
  <2>1. DayRow(ev) \in [cost : Int, done : Int, failed : Int]
    <3>1. Counted(ev, "done") \in Int /\ Counted(ev, "failed") \in Int
      BY DEF Counted
    <3>2. QED
      BY <1>2, <3>1 DEF DayRow, LogInv
  <2>2. QED
    BY <1>6, <2>1, IngestRows DEF LogInv
<1>13. QED
  BY <1>1, <1>4, <1>7, <1>8, <1>9, <1>10, <1>11, <1>12 DEF LogInv

----------------------------------------------------------------------------
(* What the tables say of the log.                                         *)

\* The last of some events, and the last after one more.
LEMMA MaxIs == ASSUME NEW S, NEW m \in S, S \subseteq Int, \A x \in S : m >= x PROVE Max(S) = m
<1>1. Max(S) \in S /\ \A y \in S : Max(S) >= y
  BY DEF Max
<1>2. Max(S) \in Int /\ m \in Int /\ m >= Max(S) /\ Max(S) >= m
  BY <1>1
<1> DEFINE k == Max(S)
<1> HIDE DEF k
<1>3. QED
  BY <1>2 DEF k

\* And the first of some.
LEMMA MinIs == ASSUME NEW S, NEW m \in S, S \subseteq Int, \A x \in S : m =< x PROVE Min(S) = m
<1>1. Min(S) \in S /\ \A y \in S : Min(S) =< y
  BY DEF Min
<1>2. Min(S) \in Int /\ m \in Int /\ m =< Min(S) /\ Min(S) =< m
  BY <1>1
<1> DEFINE k == Min(S)
<1> HIDE DEF k
<1>3. QED
  BY <1>2 DEF k

\* The last and the first of a finite, non-empty part of the log are in it, and
\* nothing in it is after, or before.
LEMMA EndsIn ==
  ASSUME NEW S, IsFiniteSet(S), S \subseteq Int, S # {}
  PROVE  /\ Max(S) \in S /\ \A x \in S : Max(S) >= x
         /\ Min(S) \in S /\ \A x \in S : Min(S) =< x
<1> DEFINE Top(s) == \E m \in s : \A x \in s : m >= x
           Bottom(s) == \E m \in s : \A x \in s : m =< x
           T == {s \in SUBSET S : s # {} /\ ~ (Top(s) /\ Bottom(s))}
<1>1. T = {}
  <2> SUFFICES ASSUME T # {} PROVE FALSE
    OBVIOUS
  <2>1. PICK m \in T : \A u \in SUBSET m : u # m => u \notin T
    <3>1. T \in SUBSET (SUBSET S)
      OBVIOUS
    <3> HIDE DEF T
    <3>2. QED
      BY <3>1, SmallestSet
  <2>2. PICK x \in m : TRUE
    OBVIOUS
  <2>3. m \ {x} = {} \/ (Top(m \ {x}) /\ Bottom(m \ {x}))
    BY <2>1, <2>2
  <2>4. \A z \in m : z \in Int
    OBVIOUS
  <2>5. CASE m \ {x} = {}
    <3>1. \A y \in m : y = x
      BY <2>5
    <3>2. Top(m) /\ Bottom(m)
      BY <2>2, <2>4, <3>1
    <3>3. QED
      BY <3>2
  <2>6. CASE m \ {x} # {}
    <3>1. PICK y \in m \ {x} : \A z \in m \ {x} : y >= z
      BY <2>3, <2>6
    <3>2. Top(m)
      <4>1. y >= x \/ \A z \in m : x >= z
        BY <2>2, <2>4, <3>1
      <4>2. QED
        BY <2>2, <2>4, <3>1, <4>1
    <3>3. PICK w \in m \ {x} : \A z \in m \ {x} : w =< z
      BY <2>3, <2>6
    <3>4. Bottom(m)
      <4>1. w =< x \/ \A z \in m : x =< z
        BY <2>2, <2>4, <3>3
      <4>2. QED
        BY <2>2, <2>4, <3>3, <4>1
    <3>5. QED
      BY <3>2, <3>4
  <2>7. QED
    BY <2>5, <2>6
<1>2. Top(S) /\ Bottom(S)
  BY <1>1
<1>3. QED
  BY <1>2, MaxIs, MinIs

\* The members of a part of the log are places of it.
LEMMA InLog ==
  ASSUME events \in Seq(Event), NEW I \in SUBSET At
  PROVE  /\ IsFiniteSet(I) /\ I \subseteq Int
         /\ I # {} => Max(I) \in I /\ Min(I) \in I /\ \A x \in I : Min(I) =< x
<1>1. IsFiniteSet(At) /\ At \subseteq Int
  BY FS_Interval DEF At
<1>2. IsFiniteSet(I) /\ I \subseteq Int
  BY <1>1, FS_Subset
<1>3. QED
  BY <1>2, EndsIn

\* After a task-level event with a status its row shows that status, and after
\* any other what it showed: NextStatus always has the last one heard.
LEMMA TaskStatusStep ==
  ASSUME LogInv, TaskStatusIsLast, NEW ev \in Event, Ingest(ev)
  PROVE  TaskStatusIsLast'
<1> DEFINE n == Len(events) + 1
           Heard(t) == WithStatus(TaskLevel(OfTask(t)))
           Last(t) == IF Heard(t) # {} THEN Max(Heard(t)) ELSE Min(OfTask(t))
<1>0. events \in Seq(Event) /\ n \in Int
  BY DEF LogInv
<1>1. events'[n] = ev /\ (\A i \in At : events'[i] = events[i] /\ i \in Int /\ i < n)
  BY <1>0, IngestAppends
<1>2. \A t : OfTask(t) \in SUBSET At /\ Heard(t) \in SUBSET OfTask(t)
  BY DEF OfTask, TaskLevel, WithStatus
<1>3. \A t : /\ OfTask(t)' = OfTask(t) \cup New(ev.task = t)
             /\ Heard(t)' = Heard(t) \cup New(ev.task = t /\ ev.sub = None /\ ev.status # None)
  <2>1. \A t : OfTask(t)' = OfTask(t) \cup New(ev.task = t)
    BY <1>0, IngestAbout
  <2>2. \A t : Heard(t)' = Heard(t) \cup New(ev.task = t /\ ev.sub = None /\ ev.status # None)
    BY <1>0, IngestAbout
  <2>3. QED
    BY <2>1, <2>2
<1>4. \A t \in DOMAIN model.tasks : OfTask(t) # {} /\ model.tasks[t].status = events[Last(t)].status
  BY DEF LogInv, TaskStatusIsLast, Standing
<1>5. \A t \in DOMAIN model.tasks : Last(t) \in At
  <2> SUFFICES ASSUME NEW t \in DOMAIN model.tasks PROVE Last(t) \in At
    OBVIOUS
  <2>1. OfTask(t) # {} /\ OfTask(t) \in SUBSET At /\ Heard(t) \in SUBSET At
    BY <1>2, <1>4
  <2> HIDE DEF Heard
  <2>2. QED
    BY <1>0, <2>1, InLog
<1>6. ASSUME NEW t \in DOMAIN model'.tasks
      PROVE  model'.tasks[t].status = events'[Last(t)'].status
  <2>1. CASE t # ev.task
    <3>1. t \in DOMAIN model.tasks /\ model'.tasks[t] = model.tasks[t]
      BY <1>6, <2>1, IngestRows
    <3>2. OfTask(t)' = OfTask(t) /\ Heard(t)' = Heard(t)
      BY <1>3, <2>1 DEF New
    <3>3. Last(t)' = Last(t)
      BY <3>2
    <3> HIDE DEF Last
    <3>4. QED
      BY <1>1, <1>4, <1>5, <3>1, <3>3
  <2>2. CASE t = ev.task /\ t \notin DOMAIN model.tasks
    <3>1. OfTask(t) = {} /\ Heard(t) = {}
      BY <1>2, <2>2, EventForm DEF LogInv
    <3>2. OfTask(t)' = {n} /\ Heard(t)' \in {{}, {n}}
      BY <1>3, <2>2, <3>1 DEF New
    <3>3. Max({n}) = n /\ Min({n}) = n
      <4> HIDE DEF n
      <4>1. Max({n}) = n
        <5>1. n \in {n} /\ {n} \subseteq Int /\ \A x \in {n} : n >= x
          BY <1>0
        <5>2. QED
          BY <5>1, MaxIs
      <4>2. Min({n}) = n
        <5>1. n \in {n} /\ {n} \subseteq Int /\ \A x \in {n} : n =< x
          BY <1>0
        <5>2. QED
          BY <5>1, MinIs
      <4>3. QED
        BY <4>1, <4>2
    <3>4. Last(t)' = n
      BY <3>2, <3>3
    <3>5. model'.tasks[t].status = ev.status
      <4>1. model'.tasks[t] = TaskRow(ev)
        BY <2>2, IngestRows
      <4>2. QED
        BY <2>2, <4>1 DEF TaskRow, NewRow
    <3> HIDE DEF Last
    <3>6. QED
      BY <1>1, <3>4, <3>5
  <2>3. CASE t = ev.task /\ t \in DOMAIN model.tasks
    <3>1. model'.tasks[t].status = NextStatus(model.tasks[t], ev)
      <4>1. model'.tasks[t] = TaskRow(ev)
        BY <2>3, IngestRows
      <4>2. QED
        BY <2>3, <4>1 DEF TaskRow
    <3>2. CASE ev.sub = None /\ ev.status # None
      <4>1. Heard(t)' = Heard(t) \cup {n}
        BY <1>3, <2>3, <3>2 DEF New
      <4>2. Heard(t) \subseteq At
        BY <1>2
      <4> HIDE DEF Heard
      <4>3. Max(Heard(t) \cup {n}) = n
        <5>1. /\ n \in Heard(t) \cup {n} /\ Heard(t) \cup {n} \subseteq Int
              /\ \A x \in Heard(t) \cup {n} : n >= x
          BY <1>0, <1>1, <4>2
        <5>2. QED
          BY <5>1, MaxIs
      <4>4. Last(t)' = n
        BY <4>1, <4>3
      <4> HIDE DEF Last
      <4>5. QED
        BY <1>1, <3>1, <3>2, <4>4 DEF NextStatus, IsTaskLevel, Or
    <3>3. CASE ~ (ev.sub = None /\ ev.status # None)
      <4>1. model'.tasks[t].status = model.tasks[t].status
        BY <3>1, <3>3 DEF NextStatus, IsTaskLevel, Or
      <4>2. Heard(t)' = Heard(t) /\ OfTask(t)' = OfTask(t) \cup {n}
        BY <1>3, <2>3, <3>3 DEF New
      <4>3. Min(OfTask(t) \cup {n}) = Min(OfTask(t))
        <5>1. OfTask(t) # {} /\ OfTask(t) \in SUBSET At
          BY <1>2, <1>4, <2>3
        <5>2. Min(OfTask(t)) \in OfTask(t) /\ \A x \in OfTask(t) : Min(OfTask(t)) =< x
          BY <1>0, <5>1, InLog
        <5> DEFINE m == Min(OfTask(t))
        <5> HIDE DEF m
        <5>3. /\ m \in OfTask(t) \cup {n} /\ OfTask(t) \cup {n} \subseteq Int
              /\ \A x \in OfTask(t) \cup {n} : m =< x
          BY <1>0, <1>1, <5>1, <5>2 DEF m
        <5>4. QED
          BY <5>3, MinIs DEF m
      <4>4. Last(t)' = Last(t)
        BY <4>2, <4>3
      <4> HIDE DEF Last
      <4>5. QED
        BY <1>1, <1>4, <1>5, <2>3, <4>1, <4>4
    <3>4. QED
      BY <3>2, <3>3
  <2>4. QED
    BY <2>1, <2>2, <2>3
<1>7. DOMAIN model'.tasks = {t \in Task : OfTask(t)' # {}}
  BY LogStep DEF LogInv
<1>8. QED
  BY <1>6, <1>7 DEF TaskStatusIsLast, Standing

\* The same for a sub-task's row, of which every event has a say.
LEMMA SubtaskStatusStep ==
  ASSUME LogInv, SubtaskStatusIsLast, NEW ev \in Event, Ingest(ev)
  PROVE  SubtaskStatusIsLast'
<1> DEFINE n == Len(events) + 1
           Heard(s) == WithStatus(OfSub(s))
<1>0. events \in Seq(Event) /\ n \in Int
  BY DEF LogInv
<1>1. events'[n] = ev /\ (\A i \in At : events'[i] = events[i] /\ i \in Int /\ i < n)
  BY <1>0, IngestAppends
<1>2. \A s : OfSub(s) \in SUBSET At /\ Heard(s) \in SUBSET At /\ Heard(s) \subseteq OfSub(s)
  BY DEF OfSub, WithStatus
<1>3. \A s : Heard(s)' = Heard(s) \cup New(ev.sub = s /\ ev.status # None)
  BY <1>0, IngestAbout
<1>4. \A s \in DOMAIN model.subtasks :
        model.subtasks[s] = IF Heard(s) = {} THEN None ELSE events[Max(Heard(s))].status
  BY DEF SubtaskStatusIsLast
<1>5. \A s : Heard(s) # {} => Max(Heard(s)) \in At
  <2> SUFFICES ASSUME NEW s, Heard(s) # {} PROVE Max(Heard(s)) \in At
    OBVIOUS
  <2>1. Heard(s) \in SUBSET At
    BY <1>2
  <2> HIDE DEF Heard
  <2>2. QED
    BY <1>0, <2>1, InLog
<1>6. ASSUME NEW s \in DOMAIN model'.subtasks
      PROVE  model'.subtasks[s] = IF Heard(s)' = {} THEN None ELSE events'[Max(Heard(s)')].status
  <2>1. CASE Heard(s)' = Heard(s) /\ s \in DOMAIN model.subtasks /\ model'.subtasks[s] = model.subtasks[s]
    <3> HIDE DEF Heard
    <3>1. QED
      BY <1>1, <1>4, <1>5, <2>1
  <2>2. CASE s # ev.sub
    <3>1. s \in DOMAIN model.subtasks /\ model'.subtasks[s] = model.subtasks[s]
      BY <1>6, <2>2, IngestRows
    <3>2. Heard(s)' = Heard(s)
      BY <1>3, <2>2 DEF New
    <3>3. QED
      BY <2>1, <3>1, <3>2
  <2>3. CASE s = ev.sub
    <3>1. s \in Sub /\ ev.sub # None
      <4>1. s \in Sub
        BY <1>6, LogStep DEF LogInv
      <4>2. QED
        BY <2>3, <4>1, ReadModelAssumption
    <3>2. model'.subtasks[s] = SubRow(ev)
      BY <2>3, <3>1, IngestRows
    <3>3. CASE ev.status # None
      <4>1. Heard(s)' = Heard(s) \cup {n}
        BY <1>3, <2>3, <3>3 DEF New
      <4>2. Heard(s) \subseteq At
        BY <1>2
      <4> HIDE DEF Heard
      <4>3. Max(Heard(s) \cup {n}) = n
        <5>1. /\ n \in Heard(s) \cup {n} /\ Heard(s) \cup {n} \subseteq Int
              /\ \A x \in Heard(s) \cup {n} : n >= x
          BY <1>0, <1>1, <4>2
        <5>2. QED
          BY <5>1, MaxIs
      <4>4. SubRow(ev) = ev.status
        BY <3>3 DEF SubRow, Or
      <4>5. QED
        BY <1>1, <3>2, <4>1, <4>3, <4>4
    <3>4. CASE ev.status = None
      <4>1. Heard(s)' = Heard(s)
        BY <1>3, <3>4 DEF New
      <4>2. CASE s \in DOMAIN model.subtasks
        BY <2>1, <2>3, <3>2, <3>4, <4>1, <4>2 DEF SubRow, Or
      <4>3. CASE s \notin DOMAIN model.subtasks
        <5>1. Heard(s) = {}
          BY <1>2, <3>1, <4>3 DEF LogInv
        <5>2. SubRow(ev) = None
          BY <2>3, <3>4, <4>3 DEF SubRow
        <5>3. QED
          BY <3>2, <4>1, <5>1, <5>2
      <4>4. QED
        BY <4>2, <4>3
    <3>5. QED
      BY <3>3, <3>4
  <2>4. QED
    BY <2>2, <2>3
<1>7. QED
  BY <1>6 DEF SubtaskStatusIsLast

\* What a part of the log costs, before and after an event.
LEMMA CostStep ==
  ASSUME events \in Seq(Event), NEW ev \in Event, Ingest(ev), NEW I \in SUBSET At
  PROVE  /\ CostOf(I) \in Int /\ (I = {} => CostOf(I) = 0)
         /\ SumFunction([i \in I |-> events'[i].cost]) = CostOf(I)
         /\ SumFunction([i \in I \cup {Len(events) + 1} |-> events'[i].cost]) = CostOf(I) + ev.cost
<1> DEFINE n == Len(events) + 1
           f == [i \in I |-> events[i].cost]
           h == [i \in I \cup {n} |-> events'[i].cost]
<1>1. events'[n] = ev /\ n \notin At /\ \A i \in At : events'[i] = events[i] /\ events[i] \in Event
  BY IngestAppends
<1>2. IsFiniteSet(DOMAIN f)
  BY InLog
<1>3. (\A i \in DOMAIN f : f[i] \in Int) /\ ev.cost \in Int
  BY <1>1, EventForm
<1>4. /\ DOMAIN h = DOMAIN f \cup {n} /\ n \notin DOMAIN f /\ h[n] = ev.cost
      /\ \A i \in DOMAIN f \ {n} : h[i] = f[i]
  BY <1>1
<1>5. [i \in I |-> events'[i].cost] = f
  BY <1>1
<1> HIDE DEF f, h
<1>6. SumFunction(f) \in Int /\ SumFunction(h) = SumFunction(f) + ev.cost
  <2>1. h[n] \in Int
    BY <1>3, <1>4
  <2>2. SumFunction(f) \in Int /\ SumFunction(h) = SumFunction(f) + h[n] - 0
    BY <1>2, <1>3, <1>4, <2>1, SumPut
  <2>3. QED
    BY <1>3, <1>4, <2>2
<1>7. DOMAIN f = {} => SumFunction(f) = 0
  BY FS_EmptySet, SumSteps DEF SumFunction
<1> USE DEF f
<1>8. QED
  BY <1>5, <1>6, <1>7 DEF CostOf, h

\* Each row grows by the event's cost exactly when the event is about it.
LEMMA CostConservedStep ==
  ASSUME LogInv, CostConserved, NEW ev \in Event, Ingest(ev)
  PROVE  CostConserved'
<1> DEFINE n == Len(events) + 1
<1>0. events \in Seq(Event)
  BY DEF LogInv
<1>1. \A x : OfTask(x) \in SUBSET At /\ OfDay(x) \in SUBSET At
  BY DEF OfTask, OfDay
<1>2. /\ \A t : OfTask(t)' = OfTask(t) \cup New(ev.task = t)
      /\ \A d : OfDay(d)' = OfDay(d) \cup New(ev.day = d)
  <2>1. \A t : OfTask(t)' = OfTask(t) \cup New(ev.task = t)
    BY <1>0, IngestAbout
  <2>2. \A d : OfDay(d)' = OfDay(d) \cup New(ev.day = d)
    BY <1>0, IngestAbout
  <2>3. QED
    BY <2>1, <2>2
<1>3. \A t : CostOf(OfTask(t))' = CostOf(OfTask(t)) + (IF ev.task = t THEN ev.cost ELSE 0)
  <2> SUFFICES ASSUME NEW t
               PROVE  CostOf(OfTask(t))' = CostOf(OfTask(t)) + (IF ev.task = t THEN ev.cost ELSE 0)
    OBVIOUS
  <2>1. CostOf(OfTask(t))' = SumFunction([i \in OfTask(t)' |-> events'[i].cost])
    BY DEF CostOf
  <2> DEFINE I == OfTask(t)
  <2>2. I \in SUBSET At /\ CostOf(I) \in Int
    BY <1>0, <1>1, CostStep
  <2>3. CASE ev.task = t
    <3>1. OfTask(t)' = I \cup {n}
      BY <1>2, <2>3 DEF New
    <3>2. CostOf(OfTask(t))' = SumFunction([i \in I \cup {n} |-> events'[i].cost])
      BY <2>1, <3>1
    <3> HIDE DEF I
    <3>3. SumFunction([i \in I \cup {n} |-> events'[i].cost]) = CostOf(I) + ev.cost
      BY <1>0, <2>2, CostStep
    <3>4. QED
      BY <2>3, <3>2, <3>3 DEF I
  <2>4. CASE ev.task # t
    <3>1. OfTask(t)' = I
      BY <1>2, <2>4 DEF New
    <3>2. CostOf(OfTask(t))' = SumFunction([i \in I |-> events'[i].cost])
      BY <2>1, <3>1
    <3> HIDE DEF I
    <3>3. SumFunction([i \in I |-> events'[i].cost]) = CostOf(I)
      BY <1>0, <2>2, CostStep
    <3>4. CostOf(OfTask(t))' = CostOf(I) + 0
      BY <2>2, <3>2, <3>3
    <3>5. QED
      BY <2>4, <3>4 DEF I
  <2>5. QED
    BY <2>3, <2>4
<1>4. \A d : CostOf(OfDay(d))' = CostOf(OfDay(d)) + (IF ev.day = d THEN ev.cost ELSE 0)
  <2> SUFFICES ASSUME NEW d
               PROVE  CostOf(OfDay(d))' = CostOf(OfDay(d)) + (IF ev.day = d THEN ev.cost ELSE 0)
    OBVIOUS
  <2>1. CostOf(OfDay(d))' = SumFunction([i \in OfDay(d)' |-> events'[i].cost])
    BY DEF CostOf
  <2> DEFINE I == OfDay(d)
  <2>2. I \in SUBSET At /\ CostOf(I) \in Int
    BY <1>0, <1>1, CostStep
  <2>3. CASE ev.day = d
    <3>1. OfDay(d)' = I \cup {n}
      BY <1>2, <2>3 DEF New
    <3>2. CostOf(OfDay(d))' = SumFunction([i \in I \cup {n} |-> events'[i].cost])
      BY <2>1, <3>1
    <3> HIDE DEF I
    <3>3. SumFunction([i \in I \cup {n} |-> events'[i].cost]) = CostOf(I) + ev.cost
      BY <1>0, <2>2, CostStep
    <3>4. QED
      BY <2>3, <3>2, <3>3 DEF I
  <2>4. CASE ev.day # d
    <3>1. OfDay(d)' = I
      BY <1>2, <2>4 DEF New
    <3>2. CostOf(OfDay(d))' = SumFunction([i \in I |-> events'[i].cost])
      BY <2>1, <3>1
    <3> HIDE DEF I
    <3>3. SumFunction([i \in I |-> events'[i].cost]) = CostOf(I)
      BY <1>0, <2>2, CostStep
    <3>4. CostOf(OfDay(d))' = CostOf(I) + 0
      BY <2>2, <3>2, <3>3
    <3>5. QED
      BY <2>4, <3>4 DEF I
  <2>5. QED
    BY <2>3, <2>4
<1>5. \A x : /\ CostOf(OfTask(x)) \in Int /\ CostOf(OfDay(x)) \in Int
             /\ (OfTask(x) = {} => CostOf(OfTask(x)) = 0) /\ (OfDay(x) = {} => CostOf(OfDay(x)) = 0)
  BY <1>0, <1>1, CostStep
<1>6. ev.task \in Task /\ ev.day \in Day /\ ev.cost \in Int
  BY EventForm
<1>7. ASSUME NEW t \in DOMAIN model'.tasks PROVE model'.tasks[t].cost = CostOf(OfTask(t))'
  <2>1. CASE t # ev.task
    <3>1. t \in DOMAIN model.tasks /\ model'.tasks[t] = model.tasks[t]
      BY <1>7, <2>1, IngestRows
    <3>2. QED
      BY <1>3, <1>5, <2>1, <3>1 DEF CostConserved
  <2>2. CASE t = ev.task
    <3>1. model'.tasks[t] = TaskRow(ev)
      BY <2>2, IngestRows
    <3>2. CASE t \in DOMAIN model.tasks
      <4>1. model'.tasks[t].cost = model.tasks[t].cost + ev.cost
        BY <2>2, <3>1, <3>2 DEF TaskRow
      <4>2. QED
        BY <1>3, <2>2, <3>2, <4>1 DEF CostConserved
    <3>3. CASE t \notin DOMAIN model.tasks
      <4>1. model'.tasks[t].cost = ev.cost
        BY <2>2, <3>1, <3>3 DEF TaskRow, NewRow
      <4>2. OfTask(t) = {}
        BY <1>6, <2>2, <3>3 DEF LogInv
      <4>3. QED
        BY <1>3, <1>5, <1>6, <2>2, <4>1, <4>2
    <3>4. QED
      BY <3>2, <3>3
  <2>3. QED
    BY <2>1, <2>2
<1>8. ASSUME NEW d \in DOMAIN model'.daily PROVE model'.daily[d].cost = CostOf(OfDay(d))'
  <2>1. CASE d # ev.day
    <3>1. d \in DOMAIN model.daily /\ model'.daily[d] = model.daily[d]
      BY <1>8, <2>1, IngestRows
    <3>2. QED
      BY <1>4, <1>5, <2>1, <3>1 DEF CostConserved
  <2>2. CASE d = ev.day
    <3>1. model'.daily[d] = DayRow(ev)
      BY <2>2, IngestRows
    <3>2. CASE d \in DOMAIN model.daily
      <4>1. model'.daily[d].cost = model.daily[d].cost + ev.cost
        BY <2>2, <3>1, <3>2 DEF DayRow
      <4>2. QED
        BY <1>4, <2>2, <3>2, <4>1 DEF CostConserved
    <3>3. CASE d \notin DOMAIN model.daily
      <4>1. model'.daily[d].cost = ev.cost
        BY <2>2, <3>1, <3>3 DEF DayRow
      <4>2. OfDay(d) = {}
        BY <1>6, <2>2, <3>3 DEF LogInv
      <4>3. QED
        BY <1>4, <1>5, <1>6, <2>2, <4>1, <4>2
    <3>4. QED
      BY <3>2, <3>3
  <2>3. QED
    BY <2>1, <2>2
<1>9. ASSUME NEW d \in Day, CostOf(OfDay(d))' > 0 PROVE d \in DOMAIN model'.daily
  <2>1. CASE d = ev.day
    BY <2>1, IngestRows
  <2>2. CASE d # ev.day
    <3>1. CostOf(OfDay(d)) > 0
      BY <1>4, <1>5, <1>9, <2>2
    <3>2. QED
      BY <3>1, IngestRows DEF CostConserved
  <2>3. QED
    BY <2>1, <2>2
<1>10. QED
  BY <1>7, <1>8, <1>9 DEF CostConserved

----------------------------------------------------------------------------
(* The daily counters.                                                     *)

\* What some events of a task leave it with does not depend on what comes after.
LEMMA StandingStays ==
  ASSUME events \in Seq(Event), NEW ev \in Event, Ingest(ev), NEW I \in SUBSET At, I # {}
  PROVE  Standing(I)' = Standing(I)
<1> DEFINE H == WithStatus(TaskLevel(I))
<1>1. \A i \in At : events'[i] = events[i]
  BY IngestAppends
<1>2. H' = H /\ H \in SUBSET At
  BY <1>1 DEF WithStatus, TaskLevel
<1>3. Min(I) \in At /\ (H # {} => Max(H) \in At)
  <2> HIDE DEF H
  <2>1. QED
    BY <1>2, InLog
<1> HIDE DEF H
<1>4. QED
  BY <1>1, <1>2, <1>3 DEF Standing, H

\* Nor does what a task was before an event.
LEMMA BeforeStays ==
  ASSUME events \in Seq(Event), NEW ev \in Event, Ingest(ev), NEW i \in At
  PROVE  Before(i)' = Before(i)
<1>1. PICK E : E = {j \in OfTask(events[i].task) : j < i}
  OBVIOUS
<1>2. E \in SUBSET At
  BY <1>1 DEF OfTask
<1>3. events'[i] = events[i] /\ i < Len(events) + 1 /\ i \in Int /\ Len(events) + 1 \in Int
  BY IngestAppends
<1>4. {j \in OfTask(events[i].task)' : j < i} = E
  <2>1. OfTask(events[i].task)' = OfTask(events[i].task) \cup New(ev.task = events[i].task)
    BY <1>3, IngestAbout
  <2>2. ~ (Len(events) + 1 < i)
    BY <1>3
  <2>3. QED
    BY <1>1, <2>1, <2>2 DEF New
<1>5. E # {} => Standing(E)' = Standing(E)
  BY <1>2, StandingStays
<1>6. QED
  BY <1>1, <1>3, <1>4, <1>5 DEF Before

\* Before a new event its task was what its row says.
LEMMA BeforeNew ==
  ASSUME LogInv, TaskStatusIsLast, NEW ev \in Event, Ingest(ev), NEW n, n = Len(events) + 1
  PROVE  Before(n)' = IF ev.task \in DOMAIN model.tasks THEN model.tasks[ev.task].status ELSE None
<1>0. events \in Seq(Event)
  BY DEF LogInv
<1>1. PICK E : E = OfTask(ev.task)
  OBVIOUS
<1>2. E \in SUBSET At
  BY <1>1 DEF OfTask
<1>3. events'[n] = ev /\ n \in Int /\ ~ (n < n) /\ \A i \in At : i \in Int /\ i < n
  BY <1>0, IngestAppends
<1>4. {j \in OfTask(ev.task)' : j < n} = E
  <2>1. OfTask(ev.task)' = E \cup {n}
    BY <1>0, <1>1, IngestAbout DEF New
  <2>2. QED
    BY <1>2, <1>3, <2>1
<1>5. E # {} => Standing(E)' = Standing(E)
  BY <1>0, <1>2, StandingStays
<1>6. ev.task \in DOMAIN model.tasks <=> E # {}
  BY <1>1, EventForm DEF LogInv
<1>7. Before(n)' = IF E = {} THEN None ELSE Standing(E)
  BY <1>3, <1>4, <1>5 DEF Before
<1>8. QED
  BY <1>1, <1>6, <1>7 DEF TaskStatusIsLast

\* So exactly the events that applyEvent counts are added to the settling ones.
LEMMA SettlingStep ==
  ASSUME LogInv, TaskStatusIsLast, NEW ev \in Event, Ingest(ev), NEW status \in TerminalStatus
  PROVE  Settling(status)' = Settling(status) \cup New(Settles(model.tasks, ev) /\ ev.status = status)
<1>0. events \in Seq(Event)
  BY DEF LogInv
<1> PICK n : n = Len(events) + 1
  OBVIOUS
<1>1. /\ events'[n] = ev /\ At' = At \cup {n} /\ n \notin At
      /\ \A i \in At : events'[i] = events[i]
  BY <1>0, IngestAppends
<1>2. \A i \in At : Before(i)' = Before(i)
  BY <1>0, BeforeStays
<1>3. \A i \in At : i \in Settling(status)' <=> i \in Settling(status)
  BY <1>1, <1>2 DEF Settling, TaskLevel
<1>4. n \in Settling(status)' <=> Settles(model.tasks, ev) /\ ev.status = status
  <2>1. None \notin TerminalStatus
    BY NoneAssumption DEF TerminalStatus, Statuses
  <2>2. Before(n)' \notin TerminalStatus
          <=> (ev.task \in DOMAIN model.tasks => model.tasks[ev.task].status \notin TerminalStatus)
    BY <2>1, BeforeNew
  <2>3. n \in Settling(status)' <=>
          ev.sub = None /\ ev.status = status /\ Before(n)' \notin TerminalStatus
    <3>1. Settling(status)' = {i \in TaskLevel(At)' : events'[i].status = status /\ Before(i)' \notin TerminalStatus}
      BY DEF Settling
    <3>2. n \in TaskLevel(At)' <=> ev.sub = None
      BY <1>1 DEF TaskLevel
    <3>3. QED
      BY <1>1, <3>1, <3>2
  <2>4. ev.task # None
    BY EventForm
  <2>5. QED
    BY <2>2, <2>3, <2>4 DEF Settles, IsTaskLevel
<1>5. Settling(status) \subseteq At /\ Settling(status)' \subseteq At'
  BY DEF Settling, TaskLevel
<1>6. QED
  BY <1>1, <1>3, <1>4, <1>5 DEF New

\* The number of settling events of a day grows by what bumpDaily adds.
LEMMA SettledStep ==
  ASSUME LogInv, TaskStatusIsLast, NEW ev \in Event, Ingest(ev), NEW status \in TerminalStatus, NEW d
  PROVE  /\ Cardinality(OfDay(d) \cap Settling(status)) \in Nat
         /\ Cardinality(OfDay(d) \cap Settling(status))'
              = Cardinality(OfDay(d) \cap Settling(status)) + (IF ev.day = d THEN Counted(ev, status) ELSE 0)
<1> DEFINE n == Len(events) + 1
           Of == OfDay(d) \cap Settling(status)
           adds == ev.day = d /\ Settles(model.tasks, ev) /\ ev.status = status
<1>0. events \in Seq(Event)
  BY DEF LogInv
<1>1. Of \in SUBSET At /\ n \notin At
  BY <1>0, IngestAppends DEF OfDay
<1>2. Of' = Of \cup New(adds)
  <2>1. OfDay(d)' = OfDay(d) \cup New(ev.day = d)
    BY <1>0, IngestAbout
  <2>2. Settling(status)' = Settling(status) \cup New(Settles(model.tasks, ev) /\ ev.status = status)
    BY SettlingStep
  <2>3. n \notin OfDay(d) /\ n \notin Settling(status)
    BY <1>1 DEF OfDay, Settling, TaskLevel
  <2>4. QED
    BY <2>1, <2>2, <2>3 DEF New
<1> HIDE DEF Of
<1>3. IsFiniteSet(Of) /\ Cardinality(Of) \in Nat
  BY <1>0, <1>1, InLog, FS_CardinalityType
<1>4. CASE adds
  <2>1. Of' = Of \cup {n} /\ n \notin Of
    BY <1>1, <1>2, <1>4 DEF New
  <2>2. Cardinality(Of') = Cardinality(Of) + 1
    BY <1>3, <2>1, FS_AddElement
  <2>3. QED
    BY <1>3, <1>4, <2>2 DEF Of, Counted
<1>5. CASE ~ adds
  <2>1. Of' = Of
    BY <1>2, <1>5 DEF New
  <2>2. Cardinality(Of') = Cardinality(Of) + 0
    BY <1>3, <2>1
  <2>3. QED
    BY <1>3, <1>5, <2>2 DEF Of, Counted
<1>6. QED
  BY <1>4, <1>5

\* A day that nothing is logged of has no settling event.
LEMMA NothingSettled ==
  ASSUME NEW status, NEW d, OfDay(d) = {}
  PROVE  Cardinality(OfDay(d) \cap Settling(status)) = 0
<1>1. OfDay(d) \cap Settling(status) = {}
  OBVIOUS
<1>2. QED
  BY <1>1, FS_EmptySet

\* The counters follow.
LEMMA CountedOnceStep ==
  ASSUME LogInv, TaskStatusIsLast, CountedOnce, NEW ev \in Event, Ingest(ev)
  PROVE  CountedOnce'
<1> DEFINE Done(d) == Cardinality(OfDay(d) \cap Settling("done"))
           Failed(d) == Cardinality(OfDay(d) \cap Settling("failed"))
<1>1. DOMAIN model'.daily = {d \in Day : OfDay(d)' # {}}
  BY LogStep DEF LogInv
<1>2. ASSUME NEW d \in DOMAIN model'.daily
      PROVE  model'.daily[d].done = Done(d)' /\ model'.daily[d].failed = Failed(d)'
  <2>1. "done" \in TerminalStatus /\ "failed" \in TerminalStatus
    BY DEF TerminalStatus
  <2>2. /\ Done(d) \in Nat /\ Failed(d) \in Nat
        /\ Done(d)' = Done(d) + (IF ev.day = d THEN Counted(ev, "done") ELSE 0)
        /\ Failed(d)' = Failed(d) + (IF ev.day = d THEN Counted(ev, "failed") ELSE 0)
    BY <2>1, SettledStep
  <2>3. d \in DOMAIN model.daily => model.daily[d].done = Done(d) /\ model.daily[d].failed = Failed(d)
    BY DEF CountedOnce
  <2>4. d \notin DOMAIN model.daily => d = ev.day /\ Done(d) = 0 /\ Failed(d) = 0
    <3> SUFFICES ASSUME d \notin DOMAIN model.daily PROVE d = ev.day /\ Done(d) = 0 /\ Failed(d) = 0
      OBVIOUS
    <3>1. d = ev.day
      BY <1>2, IngestRows
    <3>2. OfDay(d) = {}
      BY <3>1, EventForm DEF LogInv
    <3>3. QED
      BY <3>1, <3>2, NothingSettled
  <2>5. Counted(ev, "done") \in Nat /\ Counted(ev, "failed") \in Nat
    BY DEF Counted
  <2> HIDE DEF Done, Failed
  <2>6. CASE d = ev.day
    <3>1. model'.daily[d] = DayRow(ev)
      BY <2>6, IngestRows
    <3>2. CASE d \in DOMAIN model.daily
      BY <2>2, <2>3, <2>6, <3>1, <3>2 DEF DayRow
    <3>3. CASE d \notin DOMAIN model.daily
      BY <2>2, <2>4, <2>5, <2>6, <3>1, <3>3 DEF DayRow
    <3>4. QED
      BY <3>2, <3>3
  <2>7. CASE d # ev.day
    <3>1. d \in DOMAIN model.daily /\ model'.daily[d] = model.daily[d]
      BY <1>2, <2>7, IngestRows
    <3>2. QED
      BY <2>2, <2>3, <2>7, <3>1
  <2>8. QED
    BY <2>6, <2>7
<1>3. QED
  BY <1>1, <1>2 DEF CountedOnce

----------------------------------------------------------------------------
(* The theorems.                                                           *)

\* What holds of log and tables together.
Inv == LogInv /\ TaskStatusIsLast /\ SubtaskStatusIsLast /\ CostConserved /\ CountedOnce

\* The empty model agrees with the empty log.
LEMMA InvInit == Init => Inv
<1> SUFFICES ASSUME Init PROVE Inv
  OBVIOUS
<1>1. /\ events = <<>> /\ At = {} /\ DOMAIN model.tasks = {} /\ DOMAIN model.subtasks = {}
      /\ DOMAIN model.daily = {}
  BY DEF Init, EmptyModel, At
<1>2. \A x : OfTask(x) = {} /\ OfSub(x) = {} /\ OfDay(x) = {}
  BY <1>1 DEF OfTask, OfSub, OfDay
<1>3. LogInv
  BY <1>1, <1>2, FS_EmptySet DEF LogInv
<1>4. TaskStatusIsLast /\ SubtaskStatusIsLast
  BY <1>1, <1>2 DEF TaskStatusIsLast, SubtaskStatusIsLast
<1>5. \A f : DOMAIN f = {} => SumFunction(f) = 0
  BY FS_EmptySet, SumSteps DEF SumFunction
<1>6. CostConserved
  <2>1. \A d : CostOf(OfDay(d)) = 0
    BY <1>2, <1>5 DEF CostOf
  <2>2. QED
    BY <1>1, <2>1 DEF CostConserved
<1>7. CountedOnce
  BY <1>1, <1>2 DEF CountedOnce
<1>8. QED
  BY <1>3, <1>4, <1>6, <1>7 DEF Inv

\* An accepted event keeps them in agreement, a refused one changes nothing.
LEMMA InvNext == Inv /\ [Next]_vars => Inv'
<1> SUFFICES ASSUME Inv, [Next]_vars PROVE Inv'
  OBVIOUS
<1>1. ASSUME NEW ev \in Event, Ingest(ev) PROVE Inv'
  <2>1. LogInv' /\ TaskStatusIsLast' /\ SubtaskStatusIsLast' /\ CostConserved'
    BY <1>1, LogStep, TaskStatusStep, SubtaskStatusStep, CostConservedStep DEF Inv
  <2>2. CountedOnce'
    BY <1>1, CountedOnceStep DEF Inv
  <2>3. QED
    BY <2>1, <2>2 DEF Inv
<1>2. CASE UNCHANGED vars
  <2>1. UNCHANGED <<events, model>>
    BY <1>2 DEF vars
  <2>2. LogInv'
    <3>1. /\ \A t : OfTask(t)' = OfTask(t)
          /\ \A s : OfSub(s)' = OfSub(s)
          /\ \A d : OfDay(d)' = OfDay(d)
          /\ At' = At
      BY <2>1 DEF At, OfTask, OfSub, OfDay
    <3>2. LogInv
      BY DEF Inv
    <3>3. QED
      BY <2>1, <3>1, <3>2 DEF LogInv
  <2>3. TaskStatusIsLast'
    <3>1. \A t : /\ OfTask(t)' = OfTask(t)
                  /\ Standing(OfTask(t))' = Standing(OfTask(t))
      BY <2>1 DEF At, OfTask, WithStatus, TaskLevel, Standing
    <3>2. TaskStatusIsLast
      BY DEF Inv
    <3>3. QED
      BY <2>1, <3>1, <3>2 DEF TaskStatusIsLast
  <2>4. SubtaskStatusIsLast'
    BY <2>1 DEF Inv, SubtaskStatusIsLast, At, OfSub, WithStatus
  <2>5. CostConserved'
    BY <2>1 DEF Inv, CostConserved, At, OfTask, OfDay, CostOf
  <2>6. CountedOnce'
    <3>1. /\ \A d : OfDay(d)' = OfDay(d)
          /\ \A status : Settling(status)' = Settling(status)
      BY <2>1 DEF OfDay, Settling, Before, Standing, WithStatus, TaskLevel, OfTask, At
    <3>2. CountedOnce
      BY DEF Inv
    <3>3. QED
      BY <2>1, <3>1, <3>2 DEF CountedOnce
  <2>7. QED
    BY <2>2, <2>3, <2>4, <2>5, <2>6 DEF Inv
<1>3. QED
  BY <1>1, <1>2 DEF Next, Refuse

\* So they agree after any sequence of events.
LEMMA InvHolds == Spec => []Inv
<1>1. QED
  BY InvInit, InvNext, PTL DEF Spec

\* The events table holds only accepted events - none with a blank message,
\* which validate.ts refuses - and the projections have rows only for tasks,
\* sub-tasks and days.
THEOREM TypesAlwaysHold == Spec => []TypeOK
<1>1. Inv => TypeOK
  BY DEF Inv, LogInv, TypeOK, At
<1>2. QED
  BY <1>1, InvHolds, PTL

\* However events of a job and of its parallel sub-tasks interleave, repeat or
\* get lost, the task row's status is that of the last task-level event with
\* one; until there is one, that of the event that made the row (projectTask).
THEOREM TaskStatusAlwaysLast == Spec => []TaskStatusIsLast
<1>1. Inv => TaskStatusIsLast
  BY DEF Inv
<1>2. QED
  BY <1>1, InvHolds, PTL

\* The status of a sub-task is the last one sent for it, in whatever order the
\* posts came (projectSubtask).
THEOREM SubtaskStatusAlwaysLast == Spec => []SubtaskStatusIsLast
<1>1. Inv => SubtaskStatusIsLast
  BY DEF Inv
<1>2. QED
  BY <1>1, InvHolds, PTL

\* What a card shows for a task, and what the cost guard reads for a day, is the
\* sum of the costs in the events table: the incremental additions of
\* projectTask and bumpDaily count no cost twice and drop none.
THEOREM CostAlwaysConserved == Spec => []CostConserved
<1>1. Inv => CostConserved
  BY DEF Inv
<1>2. QED
  BY <1>1, InvHolds, PTL

\* tasks_done and tasks_failed of a day are the numbers of its task-level done
\* and failed events before which the task was not settled: applyEvent compares
\* with the row as it was before the event, so a repeated done is not counted and
\* one after a reopening is.
THEOREM AlwaysCountedOnce == Spec => []CountedOnce
<1>1. Inv => CountedOnce
  BY DEF Inv
<1>2. QED
  BY <1>1, InvHolds, PTL
=============================================================================
