--------------------------- MODULE WorkshopProofs ---------------------------
(***************************************************************************)
(* Proofs about the workshop, for any numbers of sub-tasks, attempts,      *)
(* workers, tokens, passes and kills, any paths and any configurations.    *)
(*                                                                         *)
(* The invariant has two halves.  Inv follows each run through its places  *)
(* (PlaceOK, TokensOK), what of its files is on disk (DiskInv), which      *)
(* results there are (ResultInv) and where the gate stands (GateInv).      *)
(* CacheInv is about two threads in one cache: an entry is part of what    *)
(* one put was given (EntryInv), the temporary directory is that of the    *)
(* put under way (TempInv), a get has what the entry holds (FetchInv), and *)
(* two runs at one key know it (Apart).  None of these is inductive alone: *)
(* a rename leaves an entry whole because the temporary directory was, and *)
(* that because nobody else was there.                                     *)
(***************************************************************************)
EXTENDS Workshop, TLAPS

\* The pool's bookkeeping, as far as the workshop stands on it.
PoolInv ==
  /\ Pool!TypeOK
  /\ main = "schedule" => batch = {}
  /\ \A s \in done : thread[s] = "ok" /\ s \notin batch
  /\ \A s \in Subtask : thread[s] # "none" <=> s \in done \cup batch
  /\ \A s \in done \cup batch : deps[s] \subseteq done
  /\ \A s \in Subtask : thread[s] \in {"none", "queued"} => attempt[s] = 0
  /\ \A s \in Subtask : thread[s] = "trying" => attempt[s] < MaxAttempts
  /\ main = "done" => done = Subtask

\* What a model wrote: a placeholder is not work.
Work == [by : Subtask, n : Nat, model : Model, cut : {FALSE}]

\* A tree has paths, and contents of C.
IsTree(f, C) == DOMAIN f \in SUBSET Path /\ f \in [DOMAIN f -> C]
\* What is on disk was written by a sub-task or the gate.
OnDisk(f) ==
  /\ DOMAIN f \in SUBSET Path
  /\ f = [p \in DOMAIN f |-> f[p]]
  /\ \A p \in DOMAIN f :
       f[p] \in [by : {f[p].by}, n : {f[p].n}, model : Model \cup {"offline"}, cut : BOOLEAN]

\* The places of executor.run; those within put once it has begun, and those
\* from which on every file is on disk.
Place ==
  {"idle", "read", "lookup", "fetch", "ask", "write", "report", "judge"} \cup Putting
Started == {"store", "meta", "drop", "rename"}
Through == Putting \cup {"report", "judge"}

\* The record of a run.
RunOK(r) ==
  /\ r \in [at : Place, key : {r.key}, asked : Model \cup {None}, files : {r.files},
            left : SUBSET Path, model : Model \cup {"offline", None}, ok : BOOLEAN,
            source : {None, "cache", "model", "offline"}, tout : Nat,
            emitted : Nat, since : Nat, made : Nat, spent : Nat]
  /\ IsTree(r.files, Content)

\* What a run is like at each place.
PlaceOK(r) ==
  /\ r.at \in {"lookup", "fetch", "ask"} => r.asked \in Model
  /\ r.at \in {"read", "lookup", "fetch", "ask"} => IsTree(r.files, Work)
  /\ r.at \in {"read", "lookup"} => DOMAIN r.files = {}
  /\ r.at = "fetch" => r.model \in Model
  /\ r.at \in {"idle", "read", "judge"} => r.key = None
  /\ r.at \in {"write", "store"} => r.left \subseteq DOMAIN r.files
  /\ r.at \in Putting => r.source = "model"
  /\ r.source # "offline" => IsTree(r.files, Work)
  /\ r.at \in {"write"} \cup Through => r.model \in Model \cup {"offline"}
  /\ r.at \in {"write"} \cup Through /\ r.source \in {"model", "cache"} => r.model \in Model

\* The tokens produced, posted and counted.
TokensOK(s, r) ==
  /\ r.emitted + r.since <= r.made /\ r.tout <= r.made
  /\ r.spent <= r.made /\ r.made <= r.spent + setup.tokens /\ r.spent <= setup.tokens
  /\ r.at = "ask" /\ r.asked = ModelFor(s) => r.spent = 0
  /\ r.at \in {"idle", "read", "lookup", "fetch"} =>
       r.emitted = 0 /\ r.made = 0 /\ r.spent = 0 /\ r.tout = 0
  /\ r.at # "ask" => r.since = 0
  /\ r.at = "judge" => r.tout <= r.emitted

\* Every run is such a record, and none exists outside a call.
RunInv ==
  /\ run = [s \in Subtask |-> run[s]]
  /\ \A s \in Subtask : RunOK(run[s]) /\ PlaceOK(run[s]) /\ TokensOK(s, run[s])
  /\ setup \in Setups
  /\ \A s \in Subtask : run[s].at = "idle" <=> thread[s] # "calling"

\* What was written is on disk.
DiskInv ==
  /\ OnDisk(disk)
  /\ \A s \in Subtask :
       /\ run[s].at = "write" => DOMAIN run[s].files \ run[s].left \subseteq DOMAIN disk
       /\ run[s].at \in Through => DOMAIN run[s].files \subseteq DOMAIN disk
  /\ \A s \in Subtask : result[s] # None => DOMAIN result[s].files \subseteq DOMAIN disk

\* A result is kept for who has passed, and a context read has every file of
\* the results below it.
ResultInv ==
  /\ DOMAIN result = Subtask
  /\ \A s \in Subtask : result[s] # None =>
       /\ result[s] \in [files : {result[s].files}, model : Model \cup {"offline"}]
       /\ IsTree(result[s].files, Content)
  /\ \A s \in Subtask : result[s] # None <=> thread[s] \in {"passed", "ok"}
  /\ \A s \in Subtask : run[s].key # None =>
       \A d \in deps[s] : DOMAIN result[d].files \subseteq DOMAIN run[s].key.context

\* Who is at the same key of the cache.
Key(s) == run[s].key

\* What the put of run s was given.
PutOf(s) == [key |-> run[s].key, files |-> run[s].files, model |-> run[s].model]

\* A directory of the cache holds work, and what names it.
DirOK(dir) ==
  /\ dir = [files |-> dir.files, meta |-> dir.meta]
  /\ IsTree(dir.files, Work)
  /\ dir.meta # None => dir.meta \in [names : SUBSET Path, model : Model]

\* All of the cache: such directories, at keys something was put at.
DirsOK(dirs) == dirs = [k \in DOMAIN dirs |-> dirs[k]] /\ \A k \in DOMAIN dirs : DirOK(dirs[k])

\* The two directories of each key, and the history of puts.
CacheTypes ==
  /\ DirsOK(entry) /\ DirsOK(temp)
  /\ DOMAIN entry \cup DOMAIN temp \subseteq {put.key : put \in puts}
  /\ \A put \in puts :
       /\ put = [key |-> put.key, files |-> put.files, model |-> put.model]
       /\ IsTree(put.files, Work) /\ put.model \in Model
  /\ \A s \in Subtask : run[s].at \in Started => run[s].key \in {put.key : put \in puts}

\* An entry is what some put left of its own files.
LeftOf(dir, put) ==
  /\ DOMAIN dir.files \subseteq DOMAIN put.files
  /\ \A p \in DOMAIN dir.files : dir.files[p] = put.files[p]
  /\ dir.meta \in {None, Meta(put.files, put.model)}
EntryInv ==
  \A k \in DOMAIN entry \ torn :
    \E put \in puts : put.key = k /\ LeftOf(entry[k], put)
\* A put under way has its own files in the temporary directory.
TempInv ==
  \A s \in Subtask : run[s].at \in Started /\ Key(s) \notin torn =>
    /\ PutOf(s) \in puts
    /\ Key(s) \in DOMAIN temp => LeftOf(temp[Key(s)], PutOf(s))
\* A get has what the entry holds.
Fetched(s) ==
  /\ Key(s) \in DOMAIN entry
  /\ entry[Key(s)].meta # None
  /\ entry[Key(s)].meta.model = run[s].model
  /\ run[s].left \subseteq entry[Key(s)].meta.names
  /\ DOMAIN run[s].files = entry[Key(s)].meta.names \ run[s].left
  /\ \A p \in DOMAIN run[s].files :
       p \in DOMAIN entry[Key(s)].files /\ run[s].files[p] = entry[Key(s)].files[p]

\* It holds for every get at a key nobody found torn.
FetchInv ==
  \A s \in Subtask : run[s].at = "fetch" /\ Key(s) \notin torn => Fetched(s)
\* What a hit writes is one put.
HitInv ==
  \A s \in Subtask : run[s].source = "cache" /\ run[s].at = "write" => Key(s) \in torn \/ PutOf(s) \in puts
\* No two at one key that nobody found torn.
Apart ==
  \A s, t \in Subtask :
    s # t /\ run[s].at \in Started /\ run[t].at \in Started \cup {"fetch"} /\ Key(s) = Key(t)
      => Key(s) \in torn

\* What is known of the cache, while two threads share it.
CacheInv == EntryInv /\ TempInv /\ FetchInv /\ HitInv /\ Apart

\* Model and files of a run, a put, a result.
Honest(files, model) == \A p \in DOMAIN files : files[p].model = model

\* A run past its loading, a put and a result name the model of all their
\* files; with a torn key, none that came from the cache need to.
HonestInv ==
  /\ \A s \in Subtask :
       run[s].at \in {"write"} \cup Through /\ (run[s].source # "cache" \/ torn = {})
         => Honest(run[s].files, run[s].model)
  /\ \A put \in puts : torn = {} => Honest(put.files, put.model)
  /\ \A s \in Subtask : result[s] # None /\ torn = {} => Honest(result[s].files, result[s].model)

\* The record of the gate.
GateFields ==
  gate \in [at : {"closed", "critique", "look", "decide", "refine", "rewrite", "over"}, pass : Nat,
            seen : {gate.seen}, passed : BOOLEAN, findings : BOOLEAN, visual : BOOLEAN,
            fix : {gate.fix}, judged : {gate.judged}, blanks : Nat, failed : BOOLEAN]

\* Where the gate stands relative to its passes, and to what is on disk.
GateInv ==
  /\ GateFields
  /\ OnDisk(gate.seen) /\ OnDisk(gate.fix)
  /\ gate.at # "closed" => main = "done"
  /\ gate.pass <= MaxPasses
  /\ gate.at \in {"refine", "rewrite"} => gate.pass < MaxPasses
  /\ gate.blanks <= IF gate.at \in {"rewrite", "over"} THEN gate.pass + 1 ELSE gate.pass
  /\ gate.blanks <= MaxPasses
  /\ gate.at \in {"critique", "look", "decide", "refine"} => gate.seen = Produced(disk)
  /\ gate.at \in {"look", "decide"} => gate.judged = gate.seen
  /\ gate.at = "over" /\ ~ gate.failed => gate.judged = Produced(disk)
  /\ gate.failed => gate.at = "over"

\* Whatever has lost its tail is long, and on disk or about to be written only
\* after a call without a usable reply, but for a write that failed.
CutInv ==
  /\ \A p \in DOMAIN disk : disk[p].cut => (p \in Long /\ gate.blanks > 0) \/ gate.failed
  /\ \A p \in DOMAIN gate.seen : gate.seen[p].cut => p \in Long
  /\ \A p \in DOMAIN gate.fix : gate.fix[p].cut => p \in Long /\ gate.blanks > 0

----------------------------------------------------------------------------
\* Trees of contents.
LEMMA EmptyTree == ASSUME NEW C PROVE IsTree(<<>>, C)
BY DEF IsTree

\* One more file makes a tree again.
LEMMA TreeWith ==
  ASSUME NEW C, NEW f, IsTree(f, C), NEW p \in Path, NEW c \in C
  PROVE  IsTree(With(f, p, c), C)
BY DEF IsTree, With

\* Work is content.
LEMMA WorkIsContent == ASSUME NEW f, IsTree(f, Work) PROVE IsTree(f, Content)
BY DEF IsTree, Work, Content

\* What a sub-task writes may be on disk.
LEMMA ContentIsOnDisk == ASSUME NEW f, IsTree(f, Content) PROVE OnDisk(f)
BY DEF IsTree, OnDisk, Content

\* A result is never taken for the absence of one.
LEMMA Resulting ==
  ASSUME NEW f, IsTree(f, Content), NEW model \in Model \cup {"offline"}
  PROVE  [files |-> f, model |-> model] # None
<1>1. [files |-> f, model |-> model] \in Result
  BY DEF IsTree, Result, Files
<1>2. QED
  BY <1>1, NoResultAssumption
----------------------------------------------------------------------------
(* The pool.                                                               *)

\* Between the calls of the pool's thread the executor is alone.
LEMMA ExecutorInside ==
  ASSUME NEW s \in Subtask, ExecutorStep(s), ~ ModelFails(s)
  PROVE  Inside
BY DEF ExecutorStep, ReadContext, Lookup, Fetch, Hit, Stream, Answer, FallBack, Placeholder, WriteFile,
  PutClear, PutArtifact, PutMeta, PutDrop, PutRename, PutFails, Report

\* Every step of the workshop, the kill included, keeps the bookkeeping of the
\* pool.
LEMMA PoolStep == PoolInv /\ [Next]_vars => PoolInv'
<1> SUFFICES ASSUME PoolInv, [Next]_vars PROVE PoolInv'
  OBVIOUS
<1>0. Pool!Subtask = Subtask /\ MaxAttempts \in Nat \ {0}
      /\ MaxWorkersAgain \in 0..MaxWorkers /\ MaxWorkers \in Nat
  BY WorkshopAssumption DEF Pool!Subtask, Subtask
<1>1. ASSUME NEW s \in Subtask, Pool!ThreadStep(s) PROVE PoolInv'
  <2>1. /\ UNCHANGED <<deps, workers, main, batch, done>>
        /\ thread[s] \notin {"none", "ok", "raised"}
        /\ \E st \in Pool!ThreadState \ {"none", "queued"} : thread' = [thread EXCEPT ![s] = st]
    BY <1>0, <1>1 DEF PoolInv, Pool!TypeOK, Pool!ThreadStep, Pool!Start, Pool!Attempt, Pool!CallSucceeds,
      Pool!CallFails, Pool!Escalate, Pool!Complete, Pool!Move, Pool!ThreadState
  <2>2. /\ attempt' \in [Subtask -> 0..MaxAttempts]
        /\ \A t \in Subtask : thread'[t] \in {"none", "queued"} => attempt'[t] = 0
        /\ \A t \in Subtask : thread'[t] = "trying" => attempt'[t] < MaxAttempts
    BY <1>0, <1>1 DEF PoolInv, Pool!TypeOK, Pool!ThreadStep, Pool!Start, Pool!Attempt, Pool!CallSucceeds,
      Pool!CallFails, Pool!Escalate, Pool!Complete, Pool!Move, Pool!ThreadState
  <2>3. Pool!TypeOK'
    <3>1. thread' \in [Subtask -> Pool!ThreadState]
      BY <1>0, <2>1 DEF PoolInv, Pool!TypeOK
    <3>2. QED
      BY <1>0, <2>1, <2>2, <3>1 DEF PoolInv, Pool!TypeOK, Pool!ValidGraph
  <2>4. QED
    BY <1>0, <2>1, <2>2, <2>3 DEF PoolInv, Pool!TypeOK
<1>2. CASE Pool!MainStep
  <2>1. CASE Pool!Schedule
    <3>1. Pool!TypeOK'
      BY <1>0, <2>1 DEF PoolInv, Pool!TypeOK, Pool!Schedule, Pool!Ready, Pool!ThreadState,
        Pool!MainState, Pool!ValidGraph
    <3>2. QED
      BY <1>0, <2>1, <3>1 DEF PoolInv, Pool!TypeOK, Pool!Schedule, Pool!Ready
  <2>2. CASE \E s \in Subtask : Pool!CollectResult(s)
    <3>1. Pool!TypeOK'
      BY <1>0, <2>2 DEF PoolInv, Pool!TypeOK, Pool!CollectResult, Pool!MainState, Pool!ValidGraph
    <3>2. QED
      BY <1>0, <2>2, <3>1 DEF PoolInv, Pool!CollectResult, Pool!FirstPending
  <2>3. CASE Pool!ReturnResults \/ Pool!Unwind \/ \E s \in Subtask : Pool!CollectRaise(s)
    <3>1. Pool!TypeOK'
      BY <1>0, <2>3 DEF PoolInv, Pool!TypeOK, Pool!ReturnResults, Pool!Unwind, Pool!CollectRaise,
        Pool!MainState, Pool!ValidGraph
    <3>2. QED
      BY <1>0, <2>3, <3>1 DEF PoolInv, Pool!ReturnResults, Pool!Unwind, Pool!CollectRaise
  <2>4. QED
    BY <1>0, <1>2, <2>1, <2>2, <2>3 DEF Pool!MainStep
<1>3. CASE Kill
  <2>1. Pool!TypeOK'
    <3>1. workers' \in 1..MaxWorkers
      BY <1>0, <1>3 DEF Kill
    <3>2. /\ main' = "schedule" /\ batch' = {} /\ done' = {} /\ deps' = deps
          /\ thread' = [s \in Subtask |-> "none"] /\ attempt' = [s \in Subtask |-> 0]
      BY <1>3 DEF Kill
    <3>3. QED
      BY <1>0, <3>1, <3>2 DEF PoolInv, Pool!TypeOK, Pool!MainState, Pool!ThreadState, Pool!ValidGraph
  <2>2. QED
    BY <1>0, <1>3, <2>1 DEF PoolInv, Kill
<1>4. CASE UNCHANGED poolVars
  BY <1>4 DEF poolVars, PoolInv, Pool!TypeOK, Pool!ValidGraph
<1>5. CASE UNCHANGED vars
  BY <1>4, <1>5 DEF vars
<1>6. CASE Gate
  BY <1>4, <1>6 DEF Gate
<1>7. CASE RunPool
  BY <1>0, <1>1, <1>2, <1>7 DEF RunPool, Pool!ThreadStep
<1>8. ASSUME NEW s \in Subtask, Attempt(s) \/ Judge(s) \/ ModelFails(s) PROVE PoolInv'
  BY <1>1, <1>8 DEF Attempt, Judge, ModelFails, Raises, Pool!ThreadStep
<1>9. ASSUME NEW s \in Subtask, ExecutorStep(s), ~ ModelFails(s) PROVE PoolInv'
  BY <1>4, <1>9, ExecutorInside DEF Inside
<1>10. QED
  BY <1>3, <1>5, <1>6, <1>7, <1>8, <1>9 DEF Next

----------------------------------------------------------------------------
(* The runs of the executor.                                               *)

\* What is written in an attempt is content, and work when a model wrote it.
LEMMA ByIsWork ==
  ASSUME PoolInv, kills \in Nat, NEW s \in Subtask, NEW model \in Model \cup {"offline"}
  PROVE  /\ By(s, model) \in Content
         /\ model \in Model => By(s, model) \in Work
         /\ By(s, model).model = model
<1>1. Pool!Subtask = Subtask
  BY DEF Pool!Subtask, Subtask
<1>2. attempt[s] \in Nat /\ MaxAttempts \in Nat
  BY <1>1, WorkshopAssumption DEF PoolInv, Pool!TypeOK
<1>3. MaxAttempts * kills \in Nat
  BY <1>2
<1> DEFINE prior == MaxAttempts * kills
<1>4. prior \in Nat
  BY <1>3
<1> HIDE DEF prior
<1>5. attempt[s] + prior \in Nat
  BY <1>2, <1>4
<1> USE DEF prior
<1>6. QED
  BY <1>5 DEF By, Work, Content

\* Files of one content make a tree.
LEMMA AnswerTree ==
  ASSUME NEW C, NEW c \in C, NEW paths \in SUBSET Path
  PROVE  IsTree([p \in paths |-> c], C)
BY DEF IsTree

\* An answer's files are all by the model that was asked, and some.
LEMMA AnswerFiles ==
  ASSUME PoolInv, kills \in Nat, NEW s \in Subtask, run[s].asked \in Model, NEW paths \in SUBSET Path
  PROVE  /\ IsTree(FilesOf(s, paths), Work) /\ IsTree(FilesOf(s, paths), Content)
         /\ Honest(FilesOf(s, paths), run[s].asked)
<1>1. By(s, run[s].asked) \in Work /\ By(s, run[s].asked).model = run[s].asked
  BY ByIsWork
<1>2. (IF paths = {} THEN {Stub} ELSE paths) \in SUBSET Path
  BY WorkshopAssumption
<1>3. IsTree(FilesOf(s, paths), Work)
  BY <1>1, <1>2, AnswerTree DEF FilesOf
<1>4. QED
  BY <1>1, <1>3, WorkIsContent DEF FilesOf, Honest

\* The run of s, or a record for it, is as RunInv has it.
RunFine(s) == RunOK(run[s]) /\ PlaceOK(run[s]) /\ TokensOK(s, run[s])

Fine(s, r) == RunOK(r) /\ PlaceOK(r) /\ TokensOK(s, r)

\* A step of the executor from one place to another.
Moves(s) == RunFine(s)' /\ run[s].at # "idle" /\ run'[s].at # "idle" /\ run' = [run EXCEPT ![s] = run'[s]]

\* Going on to a record like that is such a step.
LEMMA GoesFine ==
  ASSUME RunInv, NEW s \in Subtask, NEW n, Goes(s, n), UNCHANGED <<setup, attempt>>,
         Fine(s, n), run[s].at # "idle", n.at # "idle"
  PROVE  Moves(s)
<1>1. run'[s] = n /\ run' = [run EXCEPT ![s] = run'[s]]
  BY DEF Goes, RunInv
<1>2. RunOK(run[s])' /\ PlaceOK(run[s])'
  BY <1>1 DEF Fine, RunOK, PlaceOK
<1>3. TokensOK(s, run[s])'
  BY <1>1 DEF Fine, TokensOK, ModelFor
<1>4. QED
  BY <1>1, <1>2, <1>3 DEF Moves, RunFine

\* Every step of the executor goes from one place to another and leaves its
\* run as PlaceOK and TokensOK have it there.
LEMMA ExecutorRun ==
  ASSUME PoolInv, RunInv, CacheTypes, kills \in Nat, NEW s \in Subtask, ExecutorStep(s), ~ ModelFails(s)
  PROVE  Moves(s)
<1> DEFINE r == run[s]
<1>1. RunOK(r) /\ PlaceOK(r) /\ TokensOK(s, r)
  BY DEF RunInv
<1>2. /\ setup.tokens \in Nat /\ setup.fallback \in {"small", "code", None}
      /\ \A paths \in setup.answers : paths \in SUBSET Path
  BY WorkshopAssumption DEF RunInv
<1>3. UNCHANGED <<setup, attempt>>
  BY ExecutorInside DEF Inside, poolVars
<1>4. ModelFor(s) \in Model
  BY DEF ModelFor, Model
<1>5. CASE ReadContext(s)
  <2> DEFINE n == [r EXCEPT !.at = IF setup.caching THEN "lookup" ELSE "ask",
                            !.key = CacheKey(s), !.asked = ModelFor(s)]
  <2>1. r.at = "read" /\ Goes(s, n)
    BY <1>5 DEF ReadContext, At
  <2>2. RunOK(n)
    BY <1>1, <1>2, <1>4, <2>1 DEF RunOK, Place, Putting
  <2>3. PlaceOK(n)
    BY <1>1, <1>2, <1>4, <2>1 DEF RunOK, PlaceOK, Putting, Through
  <2>4. TokensOK(s, n)
    BY <1>1, <1>2, <1>4, <2>1 DEF RunOK, TokensOK, Putting, Through
  <2>5. r.at # "idle" /\ n.at # "idle"
    BY <1>1, <2>1 DEF RunOK, Putting
  <2> HIDE DEF n
  <2>6. QED
    BY <1>3, <2>1, <2>2, <2>3, <2>4, <2>5, GoesFine DEF Fine
<1>6. CASE Hit(s)
  <2> DEFINE n == [r EXCEPT !.at = "write", !.left = DOMAIN r.files, !.ok = TRUE, !.source = "cache"]
  <2>1. r.at = "fetch" /\ Goes(s, n)
    BY <1>6 DEF Hit, At
  <2>2. RunOK(n)
    BY <1>1, <1>2, <1>4, <2>1 DEF RunOK, Place, Putting, IsTree, Model
  <2>3. PlaceOK(n)
    BY <1>1, <1>2, <1>4, <2>1 DEF RunOK, PlaceOK, Putting, Through, IsTree, Model
  <2>4. TokensOK(s, n)
    BY <1>1, <1>2, <1>4, <2>1 DEF RunOK, TokensOK, Putting, Through, IsTree, Model
  <2>5. r.at # "idle" /\ n.at # "idle"
    BY <1>1, <2>1 DEF RunOK, Putting, IsTree, Model
  <2> HIDE DEF n
  <2>6. QED
    BY <1>3, <2>1, <2>2, <2>3, <2>4, <2>5, GoesFine DEF Fine
<1>7. CASE Stream(s)
  <2>0. PICK made \in Nat, since \in Nat, emitted \in Nat :
          /\ Goes(s, [r EXCEPT !.made = made, !.since = since, !.emitted = emitted])
          /\ made = r.made + 1 /\ emitted + since = r.emitted + r.since + 1
    <3>1. PICK posted \in {0, r.since + 1} :
            Goes(s, [r EXCEPT !.made = @ + 1, !.since = @ + 1 - posted, !.emitted = @ + posted])
      BY <1>7 DEF Stream
    <3>2. /\ r.made + 1 \in Nat /\ r.since + 1 - posted \in Nat /\ r.emitted + posted \in Nat
          /\ (r.emitted + posted) + (r.since + 1 - posted) = r.emitted + r.since + 1
      BY <1>1, <3>1 DEF RunOK
    <3>3. QED
      BY <3>1, <3>2
  <2> DEFINE n == [r EXCEPT !.made = made, !.since = since, !.emitted = emitted]
  <2>1. r.at = "ask" /\ r.made < r.spent + setup.tokens /\ Goes(s, n)
    BY <1>7, <2>0 DEF Stream, At
  <2>2. RunOK(n)
    BY <1>1, <1>2, <1>4, <2>0, <2>1 DEF RunOK, Place, Putting
  <2>3. PlaceOK(n)
    <3>1. /\ n.at = r.at /\ n.key = r.key /\ n.asked = r.asked /\ n.files = r.files
          /\ n.source = r.source /\ n.model = r.model /\ n.left = r.left
      BY <1>1 DEF RunOK
    <3> HIDE DEF n
    <3>2. QED
      BY <1>1, <3>1 DEF PlaceOK
  <2>4. TokensOK(s, n)
    <3>0. /\ n.at = r.at /\ n.asked = r.asked /\ n.tout = r.tout /\ n.spent = r.spent
          /\ n.made = made /\ n.emitted = emitted /\ n.since = since
      BY <1>1 DEF RunOK
    <3> HIDE DEF n
    <3>1. /\ n.at = "ask" /\ n.asked = r.asked /\ n.tout = r.tout /\ n.spent = r.spent
          /\ n.made = r.made + 1 /\ n.emitted + n.since = r.emitted + r.since + 1
      BY <2>0, <2>1, <3>0
    <3>2. QED
      BY <1>1, <1>2, <1>4, <2>1, <2>2, <3>1 DEF RunOK, TokensOK
  <2>5. r.at # "idle" /\ n.at # "idle"
    BY <1>1, <2>1 DEF RunOK, Putting
  <2> HIDE DEF n
  <2>6. QED
    BY <1>3, <2>1, <2>2, <2>3, <2>4, <2>5, GoesFine DEF Fine
<1>8. CASE FallBack(s)
  <2> DEFINE n == [r EXCEPT !.asked = setup.fallback, !.spent = r.made, !.since = 0]
  <2>1. r.at = "ask" /\ MayFallBack(s) /\ Goes(s, n)
    BY <1>8 DEF FallBack, At
  <2>2. RunOK(n)
    BY <1>1, <1>2, <1>4, <2>1 DEF RunOK, Place, Putting, MayFallBack, Model
  <2>3. PlaceOK(n)
    BY <1>1, <1>2, <1>4, <2>1 DEF RunOK, PlaceOK, Putting, Through, MayFallBack, Model
  <2>4. TokensOK(s, n)
    BY <1>1, <1>2, <1>4, <2>1 DEF RunOK, TokensOK, Putting, Through, MayFallBack, Model
  <2>5. r.at # "idle" /\ n.at # "idle"
    BY <1>1, <2>1 DEF RunOK, Putting, MayFallBack, Model
  <2> HIDE DEF n
  <2>6. QED
    BY <1>3, <2>1, <2>2, <2>3, <2>4, <2>5, GoesFine DEF Fine
<1>9. CASE PutClear(s)
  <2> DEFINE n == [r EXCEPT !.at = "store", !.left = DOMAIN r.files]
  <2>1. r.at = "clear" /\ Goes(s, n)
    BY <1>9 DEF PutClear, At
  <2>2. RunOK(n)
    BY <1>1, <1>2, <1>4, <2>1 DEF RunOK, Place, Putting, IsTree
  <2>3. PlaceOK(n)
    BY <1>1, <1>2, <1>4, <2>1 DEF RunOK, PlaceOK, Putting, Through, IsTree
  <2>4. TokensOK(s, n)
    BY <1>1, <1>2, <1>4, <2>1 DEF RunOK, TokensOK, Putting, Through, IsTree
  <2>5. r.at # "idle" /\ n.at # "idle"
    BY <1>1, <2>1 DEF RunOK, Putting, IsTree
  <2> HIDE DEF n
  <2>6. QED
    BY <1>3, <2>1, <2>2, <2>3, <2>4, <2>5, GoesFine DEF Fine
<1>10. CASE PutMeta(s)
  <2> DEFINE n == [r EXCEPT !.at = "drop"]
  <2>1. r.at = "meta" /\ Goes(s, n)
    BY <1>10 DEF PutMeta, At
  <2>2. RunOK(n)
    BY <1>1, <1>2, <1>4, <2>1 DEF RunOK, Place, Putting
  <2>3. PlaceOK(n)
    BY <1>1, <1>2, <1>4, <2>1 DEF RunOK, PlaceOK, Putting, Through
  <2>4. TokensOK(s, n)
    BY <1>1, <1>2, <1>4, <2>1 DEF RunOK, TokensOK, Putting, Through
  <2>5. r.at # "idle" /\ n.at # "idle"
    BY <1>1, <2>1 DEF RunOK, Putting
  <2> HIDE DEF n
  <2>6. QED
    BY <1>3, <2>1, <2>2, <2>3, <2>4, <2>5, GoesFine DEF Fine
<1>11. CASE PutRename(s)
  <2> DEFINE n == [r EXCEPT !.at = "report"]
  <2>1. r.at = "rename" /\ Goes(s, n)
    BY <1>11 DEF PutRename, At
  <2>2. RunOK(n)
    BY <1>1, <1>2, <1>4, <2>1 DEF RunOK, Place, Putting
  <2>3. PlaceOK(n)
    BY <1>1, <1>2, <1>4, <2>1 DEF RunOK, PlaceOK, Putting, Through
  <2>4. TokensOK(s, n)
    BY <1>1, <1>2, <1>4, <2>1 DEF RunOK, TokensOK, Putting, Through
  <2>5. r.at # "idle" /\ n.at # "idle"
    BY <1>1, <2>1 DEF RunOK, Putting
  <2> HIDE DEF n
  <2>6. QED
    BY <1>3, <2>1, <2>2, <2>3, <2>4, <2>5, GoesFine DEF Fine
<1>12. CASE PutFails(s)
  <2> DEFINE n == [r EXCEPT !.at = "report", !.left = {}]
  <2>1. r.at \in Putting /\ Goes(s, n)
    BY <1>12 DEF PutFails, At
  <2>2. RunOK(n)
    BY <1>1, <1>2, <1>4, <2>1 DEF RunOK, Place, Putting
  <2>3. PlaceOK(n)
    BY <1>1, <1>2, <1>4, <2>1 DEF RunOK, PlaceOK, Putting, Through
  <2>4. TokensOK(s, n)
    BY <1>1, <1>2, <1>4, <2>1 DEF RunOK, TokensOK, Putting, Through
  <2>5. r.at # "idle" /\ n.at # "idle"
    BY <1>1, <2>1 DEF RunOK, Putting
  <2> HIDE DEF n
  <2>6. QED
    BY <1>3, <2>1, <2>2, <2>3, <2>4, <2>5, GoesFine DEF Fine
<1>13. CASE Report(s)
  <2> DEFINE n == [r EXCEPT !.at = "judge", !.key = None, !.emitted = Larger(@, r.tout)]
  <2>1. r.at = "report" /\ Goes(s, n)
    BY <1>13 DEF Report, At
  <2>2. RunOK(n)
    BY <1>1, <1>2, <1>4, <2>1 DEF RunOK, Place, Putting, Larger
  <2>3. PlaceOK(n)
    BY <1>1, <1>2, <1>4, <2>1 DEF RunOK, PlaceOK, Putting, Through
  <2>4. TokensOK(s, n)
    <3>1. /\ n.at = "judge" /\ n.emitted = Larger(r.emitted, r.tout) /\ n.since = r.since
          /\ n.made = r.made /\ n.spent = r.spent /\ n.tout = r.tout
      BY <1>1 DEF RunOK
    <3> HIDE DEF n
    <3>2. QED
      BY <1>1, <1>2, <2>1, <3>1 DEF RunOK, TokensOK, Larger
  <2>5. r.at # "idle" /\ n.at # "idle"
    BY <1>1, <2>1 DEF RunOK, Putting
  <2> HIDE DEF n
  <2>6. QED
    BY <1>3, <2>1, <2>2, <2>3, <2>4, <2>5, GoesFine DEF Fine
<1>14. CASE Lookup(s)
  <2> DEFINE meta == MetaOf(r.key)
             n == IF meta = None THEN [r EXCEPT !.at = "ask"]
                  ELSE [r EXCEPT !.at = "fetch", !.left = meta.names, !.model = meta.model]
  <2>1. r.at = "lookup" /\ Goes(s, n)
    BY <1>14 DEF Lookup, At
  <2>2. meta # None => meta.names \in SUBSET Path /\ meta.model \in Model
    BY DEF CacheTypes, DirsOK, DirOK, MetaOf, Directory, EmptyDirectory
  <2> HIDE DEF meta
  <2>3. RunOK(n)
    <3>1. r.left \in SUBSET Path /\ IsTree(r.files, Content)
      BY <1>1 DEF RunOK
    <3>2. CASE meta = None
      BY <1>1, <3>1, <3>2 DEF RunOK, Place
    <3>3. CASE meta # None
      BY <1>1, <2>2, <3>1, <3>3 DEF RunOK, Place
    <3>4. QED
      BY <3>2, <3>3
  <2>4. PlaceOK(n)
    <3>1. r.asked \in Model /\ IsTree(r.files, Work)
      BY <1>1, <2>1 DEF PlaceOK
    <3>2. /\ n.at \in {"ask", "fetch"} /\ n.asked = r.asked /\ n.files = r.files /\ n.source = r.source
          /\ n.at = "fetch" => n.model \in Model
      BY <1>1, <2>1, <2>2 DEF RunOK
    <3> HIDE DEF n
    <3>3. QED
      BY <3>1, <3>2 DEF PlaceOK, Putting, Through
  <2>5. TokensOK(s, n)
    BY <1>1, <1>2, <2>1 DEF RunOK, TokensOK, Putting, Through
  <2>6. r.at # "idle" /\ n.at # "idle"
    BY <1>1, <2>1 DEF RunOK
  <2> HIDE DEF n
  <2>7. QED
    BY <1>3, <2>1, <2>3, <2>4, <2>5, <2>6, GoesFine DEF Fine
<1>15. CASE Fetch(s)
  <2> DEFINE arts == ArtifactsOf(r.key)
  <2>1. r.at = "fetch" /\ r.left \in SUBSET Path /\ r.model \in Model /\ IsTree(r.files, Work)
    BY <1>1, <1>15 DEF Fetch, At, PlaceOK, RunOK
  <2>2. IsTree(arts, Work)
    BY EmptyTree DEF CacheTypes, DirsOK, DirOK, ArtifactsOf, Directory, EmptyDirectory
  <2>3. PICK p \in r.left :
          Goes(s, IF p \in DOMAIN arts
                  THEN [r EXCEPT !.left = @ \ {p}, !.files = With(@, p, arts[p])]
                  ELSE [r EXCEPT !.at = "ask", !.left = {}, !.files = <<>>, !.model = None])
    BY <1>15 DEF Fetch
  <2> HIDE DEF arts
  <2>4. CASE p \in DOMAIN arts
    <3> DEFINE f == With(r.files, p, arts[p])
               n == [r EXCEPT !.left = @ \ {p}, !.files = f]
    <3>1. Goes(s, n)
      BY <2>3, <2>4, <1>1 DEF RunOK
    <3>2. IsTree(f, Work)
      BY <2>1, <2>2, <2>4, TreeWith DEF IsTree
    <3>3. IsTree(f, Content)
      BY <3>2, WorkIsContent
    <3> HIDE DEF f
    <3>4. RunOK(n)
      BY <1>1, <2>1, <3>2, <3>3 DEF RunOK, Place
    <3>5. PlaceOK(n)
      BY <1>1, <2>1, <3>2, <3>3 DEF RunOK, PlaceOK, Putting, Through
    <3>6. TokensOK(s, n)
      BY <1>1, <1>2, <2>1 DEF RunOK, TokensOK, Putting, Through
    <3>7. r.at # "idle" /\ n.at # "idle"
      BY <1>1, <2>1 DEF RunOK
    <3> HIDE DEF n
    <3>8. QED
      BY <1>3, <3>1, <3>4, <3>5, <3>6, <3>7, GoesFine DEF Fine
  <2>5. CASE p \notin DOMAIN arts
    <3> DEFINE f == <<>>
               n == [r EXCEPT !.at = "ask", !.left = {}, !.files = f, !.model = None]
    <3>1. Goes(s, n)
      BY <2>3, <2>5
    <3>2. IsTree(f, Work) /\ IsTree(f, Content)
      BY EmptyTree
    <3> HIDE DEF f
    <3>3. RunOK(n)
      BY <1>1, <2>1, <3>2 DEF RunOK, Place
    <3>4. PlaceOK(n)
      BY <1>1, <2>1, <3>2 DEF RunOK, PlaceOK, Putting, Through
    <3>5. TokensOK(s, n)
      BY <1>1, <1>2, <2>1 DEF RunOK, TokensOK, Putting, Through
    <3>6. r.at # "idle" /\ n.at # "idle"
      BY <1>1, <2>1 DEF RunOK
    <3> HIDE DEF n
    <3>7. QED
      BY <1>3, <3>1, <3>3, <3>4, <3>5, <3>6, GoesFine DEF Fine
  <2>6. QED
    BY <2>4, <2>5
<1>16. CASE Answer(s)
  <2>1. r.at = "ask" /\ r.asked \in Model
    BY <1>1, <1>16 DEF Answer, At, PlaceOK
  <2>2. r.emitted \in Nat /\ r.spent \in Nat /\ r.made \in Nat /\ Larger(r.made, r.spent) = r.made
    BY <1>1 DEF RunOK, TokensOK, Larger
  <2>3. PICK tout \in 0..setup.tokens, paths \in setup.answers \cup {{}},
             text \in BOOLEAN :
          Goes(s, Writes(s, FilesOf(s, paths), r.asked, text, "model", tout))
    BY <1>16 DEF Answer
  <2>4. tout \in Nat /\ tout <= setup.tokens
    BY <1>2, <2>2, <2>3
  <2> DEFINE f == FilesOf(s, paths)
             n == Writes(s, f, r.asked, text, "model", tout)
  <2>5. IsTree(f, Work) /\ IsTree(f, Content)
    BY <1>2, <2>1, AnswerFiles
  <2>6. Goes(s, n)
    BY <2>3
  <2> HIDE DEF f
  <2>7. n = [r EXCEPT !.at = "write", !.asked = None, !.files = f, !.left = DOMAIN f,
                      !.model = r.asked, !.ok = text, !.source = "model", !.tout = tout,
                      !.since = 0, !.made = Larger(@, r.spent + tout)]
    BY DEF Writes
  <2> HIDE DEF n
  <2>8. RunOK(n)
    <3>1. DOMAIN f \in SUBSET Path
      BY <2>5 DEF IsTree
    <3>2. n = [at |-> "write", key |-> r.key, asked |-> None, files |-> f, left |-> DOMAIN f,
               model |-> r.asked, ok |-> text, source |-> "model", tout |-> tout,
               emitted |-> r.emitted, since |-> 0, made |-> Larger(r.made, r.spent + tout),
               spent |-> r.spent]
      BY <1>1, <2>7 DEF RunOK
    <3>3. Larger(r.made, r.spent + tout) \in Nat
      BY <2>2, <2>4 DEF Larger
    <3>4. QED
      BY <2>1, <2>2, <2>4, <2>5, <3>1, <3>2, <3>3 DEF RunOK, Place
  <2>9. PlaceOK(n)
    BY <1>1, <2>1, <2>5, <2>7 DEF RunOK, PlaceOK, Putting, Through, Model
  <2>10. TokensOK(s, n)
    <3>1. /\ n.at = "write" /\ n.tout = tout /\ n.spent = r.spent /\ n.emitted = r.emitted
          /\ n.since = 0 /\ n.made = Larger(r.made, r.spent + tout)
      BY <1>1, <2>7 DEF RunOK
    <3>2. QED
      BY <1>1, <1>2, <2>1, <2>2, <2>4, <3>1 DEF RunOK, TokensOK, Putting, Through, Larger
  <2>11. r.at # "idle" /\ n.at # "idle"
    BY <1>1, <2>1, <2>7 DEF RunOK
  <2>12. QED
    BY <1>3, <2>6, <2>8, <2>9, <2>10, <2>11, GoesFine DEF Fine
<1>17. CASE Placeholder(s)
  <2> DEFINE f == [p \in {Stub} |-> By(s, "offline")]
             n == Writes(s, f, "offline", TRUE, "offline", 0)
  <2>1. r.at = "ask" /\ Goes(s, n)
    BY <1>17 DEF Placeholder, At
  <2>2. By(s, "offline") \in Content /\ {Stub} \in SUBSET Path
    BY ByIsWork, WorkshopAssumption
  <2>3. IsTree(f, Content)
    BY <2>2, AnswerTree
  <2> HIDE DEF f
  <2>4. n = [r EXCEPT !.at = "write", !.asked = None, !.files = f, !.left = DOMAIN f, !.model = "offline",
                      !.ok = TRUE, !.source = "offline", !.tout = 0, !.since = 0, !.made = r.made]
    <3>1. Larger(r.made, r.spent + 0) = r.made
      BY <1>1 DEF RunOK, TokensOK, Larger
    <3>2. QED
      BY <1>1, <3>1 DEF Writes, RunOK
  <2> HIDE DEF n
  <2>5. RunOK(n)
    <3>1. DOMAIN f \in SUBSET Path
      BY <2>3 DEF IsTree
    <3>2. n = [at |-> "write", key |-> r.key, asked |-> None, files |-> f, left |-> DOMAIN f,
               model |-> "offline", ok |-> TRUE, source |-> "offline", tout |-> 0,
               emitted |-> r.emitted, since |-> 0, made |-> r.made, spent |-> r.spent]
      BY <1>1, <2>4 DEF RunOK
    <3>3. r.emitted \in Nat /\ r.made \in Nat /\ r.spent \in Nat
      BY <1>1 DEF RunOK
    <3>4. QED
      BY <2>3, <3>1, <3>2, <3>3 DEF RunOK, Place
  <2>6. PlaceOK(n)
    BY <1>1, <2>1, <2>4 DEF RunOK, PlaceOK, Putting, Through
  <2>7. TokensOK(s, n)
    BY <1>1, <1>2, <2>1, <2>4 DEF RunOK, TokensOK, Putting, Through
  <2>8. r.at # "idle" /\ n.at # "idle"
    BY <1>1, <2>1, <2>4 DEF RunOK
  <2>9. QED
    BY <1>3, <2>1, <2>5, <2>6, <2>7, <2>8, GoesFine DEF Fine
<1>18. CASE WriteFile(s)
  <2> DEFINE to == IF r.ok /\ r.source = "model" /\ setup.caching THEN "clear" ELSE "report"
  <2>1. r.at = "write" /\ \E p \in r.left :
          Goes(s, IF r.left # {p} THEN [r EXCEPT !.left = @ \ {p}] ELSE [r EXCEPT !.left = {}, !.at = to])
    BY <1>18 DEF WriteFile, At
  <2>2. PICK left \in SUBSET r.left, at \in {"write", to} :
          Goes(s, [r EXCEPT !.left = left, !.at = at])
    <3>1. PICK p \in r.left :
            Goes(s, IF r.left # {p} THEN [r EXCEPT !.left = @ \ {p}] ELSE [r EXCEPT !.left = {}, !.at = to])
      BY <2>1
    <3>2. r.left \ {p} \in SUBSET r.left
      OBVIOUS
    <3>3. [r EXCEPT !.left = @ \ {p}] = [r EXCEPT !.left = r.left \ {p}, !.at = "write"]
      BY <1>1, <2>1 DEF RunOK
    <3> HIDE DEF to
    <3>4. CASE r.left # {p}
      BY <3>1, <3>2, <3>3, <3>4
    <3>5. CASE r.left = {p}
      BY <3>1, <3>5
    <3>6. QED
      BY <3>4, <3>5
  <2>3. at = "clear" => r.source = "model"
    BY <2>2
  <2>4. at \in {"write", "clear", "report"}
    BY <2>2
  <2> DEFINE n == [r EXCEPT !.left = left, !.at = at]
  <2>5. RunOK(n)
    BY <1>1, <2>2, <2>4 DEF RunOK, Place, Putting
  <2>6. PlaceOK(n)
    BY <1>1, <2>1, <2>2, <2>3, <2>4 DEF RunOK, PlaceOK, Putting, Through
  <2>7. TokensOK(s, n)
    BY <1>1, <1>2, <2>1, <2>4 DEF RunOK, TokensOK, Putting, Through
  <2>8. r.at # "idle" /\ n.at # "idle"
    BY <1>1, <2>1, <2>4 DEF RunOK
  <2>9. Goes(s, n)
    BY <2>2
  <2> HIDE DEF n
  <2>10. QED
    BY <1>3, <2>5, <2>6, <2>7, <2>8, <2>9, GoesFine DEF Fine
<1>19. CASE PutArtifact(s)
  <2>1. r.at = "store" /\ \E p \in r.left :
          Goes(s, [r EXCEPT !.left = @ \ {p}, !.at = IF r.left = {p} THEN "meta" ELSE @])
    BY <1>19 DEF PutArtifact, At
  <2>2. PICK p \in r.left :
          Goes(s, [r EXCEPT !.left = @ \ {p}, !.at = IF r.left = {p} THEN "meta" ELSE @])
    BY <2>1
  <2> DEFINE left == r.left \ {p}
             at == IF r.left = {p} THEN "meta" ELSE "store"
             n == [r EXCEPT !.left = left, !.at = at]
  <2>3. left \in SUBSET Path /\ left \subseteq r.left /\ at \in {"store", "meta"}
    BY <1>1 DEF RunOK
  <2>4. Goes(s, n)
    BY <1>1, <2>1, <2>2 DEF RunOK
  <2> HIDE DEF left, at
  <2>5. RunOK(n)
    BY <1>1, <2>3 DEF RunOK, Place, Putting
  <2>6. PlaceOK(n)
    BY <1>1, <2>1, <2>3 DEF RunOK, PlaceOK, Putting, Through
  <2>7. TokensOK(s, n)
    BY <1>1, <1>2, <2>1, <2>3 DEF RunOK, TokensOK, Putting, Through
  <2>8. r.at # "idle" /\ n.at # "idle"
    BY <1>1, <2>1, <2>3 DEF RunOK
  <2> HIDE DEF n
  <2>9. QED
    BY <1>3, <2>4, <2>5, <2>6, <2>7, <2>8, GoesFine DEF Fine
<1>20. CASE PutDrop(s)
  <2>1. PICK at \in {"drop", "rename"} : r.at = "drop" /\ Goes(s, [r EXCEPT !.at = at])
    <3>1. r.at = "drop" /\ (UNCHANGED run \/ Goes(s, [r EXCEPT !.at = "rename"]))
      BY <1>20 DEF PutDrop, At
    <3>2. [r EXCEPT !.at = "drop"] = r
      BY <1>1, <3>1 DEF RunOK
    <3>3. ASSUME UNCHANGED run PROVE Goes(s, r)
      <4>1. run = [t \in Subtask |-> run[t]]
        BY DEF RunInv
      <4>2. QED
        BY <3>3, <4>1 DEF Goes
    <3>4. QED
      BY <3>1, <3>2, <3>3
  <2> DEFINE n == [r EXCEPT !.at = at]
  <2>2. RunOK(n)
    BY <1>1, <2>1 DEF RunOK, Place, Putting
  <2>3. PlaceOK(n)
    BY <1>1, <2>1 DEF RunOK, PlaceOK, Putting, Through
  <2>4. TokensOK(s, n)
    BY <1>1, <1>2, <2>1 DEF RunOK, TokensOK, Putting, Through
  <2>5. r.at # "idle" /\ n.at # "idle"
    BY <1>1, <2>1 DEF RunOK
  <2>6. Goes(s, n)
    BY <2>1
  <2> HIDE DEF n
  <2>7. QED
    BY <1>3, <2>2, <2>3, <2>4, <2>5, <2>6, GoesFine DEF Fine
<1>21. QED
  BY <1>5, <1>6, <1>7, <1>8, <1>9, <1>10, <1>11, <1>12, <1>13, <1>14, <1>15, <1>16, <1>17, <1>18,
     <1>19, <1>20 DEF ExecutorStep

\* An attempt begins with a run of its own.
LEMMA FreshRun ==
  ASSUME setup \in Setups, NEW s
  PROVE  /\ Fine(s, Idle) /\ Idle.at = "idle"
         /\ Fine(s, [Idle EXCEPT !.at = "read"]) /\ [Idle EXCEPT !.at = "read"].at = "read"
<1>1. IsTree(Idle.files, Work) /\ IsTree(Idle.files, Content) /\ DOMAIN Idle.files = {}
  BY EmptyTree DEF Idle
<1>2. RunOK(Idle) /\ Idle.at = "idle" /\ Idle.key = None /\ Idle.tout = 0
      /\ Idle.emitted = 0 /\ Idle.since = 0 /\ Idle.made = 0 /\ Idle.spent = 0
  BY <1>1 DEF RunOK, Place, Idle
<1> DEFINE n == [Idle EXCEPT !.at = "read"]
<1>3. RunOK(n) /\ n.at = "read" /\ n.key = None /\ n.tout = 0 /\ n.files = Idle.files
      /\ n.emitted = 0 /\ n.since = 0 /\ n.made = 0 /\ n.spent = 0
  BY <1>2 DEF RunOK, Place
<1> HIDE DEF n
<1>4. setup.tokens \in Nat
  BY WorkshopAssumption
<1>5. Fine(s, Idle)
  BY <1>1, <1>2, <1>4 DEF Fine, PlaceOK, TokensOK, Putting, Through
<1>6. Fine(s, n)
  BY <1>1, <1>3, <1>4 DEF Fine, PlaceOK, TokensOK, Putting, Through
<1>7. QED
  BY <1>2, <1>3, <1>5, <1>6 DEF n

\* One run changes, and stands at "idle" as long as no call is under way.
LEMMA OneRun ==
  ASSUME RunInv, NEW s \in Subtask, UNCHANGED setup, \A t \in Subtask \ {s} : UNCHANGED <<thread[t], attempt[t]>>,
         run' = [run EXCEPT ![s] = run'[s]], RunFine(s)',
         run'[s].at = "idle" <=> thread'[s] # "calling"
  PROVE  RunInv'
<1>1. run' = [t \in Subtask |-> run'[t]] /\ \A t \in Subtask \ {s} : run'[t] = run[t]
  BY DEF RunInv
<1>2. \A t \in Subtask \ {s} : RunOK(run[t])' /\ PlaceOK(run[t])' /\ TokensOK(t, run[t])'
  BY <1>1 DEF RunInv, RunOK, PlaceOK, TokensOK, ModelFor
<1>3. QED
  BY <1>1, <1>2 DEF RunInv, RunFine

\* Every step keeps what is known of the runs.
LEMMA RunStep == PoolInv /\ RunInv /\ CacheTypes /\ kills \in Nat /\ [Next]_vars => RunInv'
<1> SUFFICES ASSUME PoolInv, RunInv, CacheTypes, kills \in Nat, [Next]_vars PROVE RunInv'
  OBVIOUS
<1>0. Pool!Subtask = Subtask /\ thread \in [Subtask -> Pool!ThreadState] /\ DOMAIN attempt = Subtask
  BY DEF Pool!Subtask, Subtask, PoolInv, Pool!TypeOK
<1>1. ASSUME UNCHANGED <<setup, attempt, run>>, \A s \in Subtask : thread[s] = "calling" <=> thread'[s] = "calling"
      PROVE  RunInv'
  BY <1>1 DEF RunInv, RunOK, PlaceOK, TokensOK, ModelFor
<1>2. CASE RunPool
  <2>1. UNCHANGED <<setup, attempt, run>>
    BY <1>2 DEF RunPool, Pool!MainStep, Pool!Schedule, Pool!ReturnResults, Pool!CollectResult, Pool!CollectRaise,
      Pool!Unwind, Pool!Start, Pool!Escalate, Pool!Complete
  <2>2. \A s \in Subtask : thread[s] = "calling" <=> thread'[s] = "calling"
    <3>1. CASE Pool!Schedule
      BY <1>0, <3>1 DEF Pool!Schedule, Pool!Ready, PoolInv
    <3>2. CASE UNCHANGED thread
      BY <3>2
    <3>3. CASE \E s \in Subtask : Pool!Start(s) \/ Pool!Escalate(s) \/ Pool!Complete(s)
      BY <1>0, <3>3 DEF Pool!Start, Pool!Escalate, Pool!Complete, Pool!Move
    <3>4. QED
      BY <1>0, <1>2, <3>1, <3>2, <3>3 DEF RunPool, Pool!MainStep, Pool!ReturnResults, Pool!CollectResult,
        Pool!CollectRaise, Pool!Unwind
  <2>3. QED
    BY <1>1, <2>1, <2>2
<1>3. ASSUME NEW s \in Subtask, Attempt(s) PROVE RunInv'
  <2> DEFINE n == [Idle EXCEPT !.at = "read"]
  <2>1. /\ Goes(s, n) /\ UNCHANGED setup
        /\ thread' = [thread EXCEPT ![s] = "calling"] /\ attempt' = [attempt EXCEPT ![s] = @ + 1]
    BY <1>3 DEF Attempt, Pool!Attempt, Pool!Move
  <2>2. Fine(s, n) /\ n.at = "read"
    BY FreshRun DEF RunInv
  <2> HIDE DEF n
  <2>4. run'[s] = n /\ run' = [run EXCEPT ![s] = run'[s]]
    BY <2>1 DEF Goes, RunInv
  <2>5. RunFine(s)'
    BY <2>1, <2>2, <2>4 DEF Fine, RunFine, RunOK, PlaceOK, TokensOK
  <2>6. QED
    BY <1>0, <2>1, <2>2, <2>4, <2>5, OneRun
<1>4. ASSUME NEW s \in Subtask, Judge(s) \/ ModelFails(s) PROVE RunInv'
  <2>1. /\ Goes(s, Idle) /\ UNCHANGED <<setup, attempt>>
        /\ \E to \in {"passed", "trying", "exhausted"} : thread' = [thread EXCEPT ![s] = to]
    BY <1>4 DEF Judge, ModelFails, Raises, Pool!CallSucceeds, Pool!CallFails, Pool!Move
  <2>2. Fine(s, Idle) /\ Idle.at = "idle"
    BY FreshRun DEF RunInv
  <2>3. run'[s] = Idle /\ run' = [run EXCEPT ![s] = run'[s]]
    BY <2>1 DEF Goes, RunInv
  <2>4. RunFine(s)'
    BY <2>1, <2>2, <2>3 DEF Fine, RunFine, RunOK, PlaceOK, TokensOK, ModelFor
  <2>5. QED
    BY <1>0, <2>1, <2>2, <2>3, <2>4, OneRun
<1>5. ASSUME NEW s \in Subtask, ExecutorStep(s), ~ ModelFails(s) PROVE RunInv'
  <2>1. Moves(s) /\ Inside
    BY <1>5, ExecutorRun, ExecutorInside
  <2>2. QED
    BY <2>1, OneRun DEF Inside, poolVars, Moves, RunInv
<1>6. CASE Kill
  <2>1. run' = [s \in Subtask |-> Idle] /\ UNCHANGED setup /\ \A s \in Subtask : thread'[s] # "calling"
    BY <1>6 DEF Kill
  <2>2. ASSUME NEW s \in Subtask PROVE RunFine(s)' /\ Idle.at = "idle"
    <3>1. Fine(s, Idle) /\ Idle.at = "idle"
      BY FreshRun DEF RunInv
    <3>2. run'[s] = Idle
      BY <2>1
    <3>3. QED
      BY <2>1, <3>1, <3>2 DEF Fine, RunFine, RunOK, PlaceOK, TokensOK
  <2>3. QED
    BY <2>1, <2>2 DEF RunInv, RunFine
<1>7. CASE Gate
  BY <1>1, <1>7 DEF Gate, poolVars
<1>8. CASE UNCHANGED vars
  BY <1>1, <1>8 DEF vars, poolVars
<1>9. QED
  BY <1>2, <1>3, <1>4, <1>5, <1>6, <1>7, <1>8 DEF Next
----------------------------------------------------------------------------
(* The cache.                                                              *)

\* The directory mkdir makes.
LEMMA EmptyIsOK == DirOK(EmptyDirectory)
<1>1. IsTree(EmptyDirectory.files, Work)
  BY EmptyTree DEF EmptyDirectory
<1>2. QED
  BY <1>1 DEF DirOK, EmptyDirectory

\* The directory at a key, there or not.
LEMMA DirectoryIsOK == ASSUME NEW dirs, DirsOK(dirs), NEW k PROVE DirOK(Directory(dirs, k))
BY EmptyIsOK DEF DirsOK, Directory

\* A directory put in its place leaves the others as they were.
LEMMA WithDir ==
  ASSUME NEW dirs, DirsOK(dirs), NEW k, NEW dir, DirOK(dir)
  PROVE  DirsOK(With(dirs, k, dir))
<1> DEFINE w == With(dirs, k, dir)
<1>1. /\ w = [x \in DOMAIN w |-> w[x]] /\ DOMAIN w = DOMAIN dirs \cup {k}
      /\ \A x \in DOMAIN dirs \cup {k} : w[x] = IF x = k THEN dir ELSE dirs[x]
  BY DEF With
<1> HIDE DEF w
<1>2. \A x \in DOMAIN w : w[x] = dir \/ (x \in DOMAIN dirs /\ w[x] = dirs[x])
  BY <1>1
<1>3. \A x \in DOMAIN w : DirOK(w[x])
  BY <1>2 DEF DirsOK
<1>4. DirsOK(w)
  BY <1>1, <1>3 DEF DirsOK
<1>5. QED
  BY <1>4 DEF w

\* So does one that is removed.
LEMMA WithoutDir ==
  ASSUME NEW dirs, DirsOK(dirs), NEW k
  PROVE  DirsOK(Without(dirs, k))
<1> DEFINE w == Without(dirs, k)
<1>1. /\ w = [x \in DOMAIN w |-> w[x]] /\ DOMAIN w = DOMAIN dirs \ {k}
      /\ \A x \in DOMAIN dirs \ {k} : w[x] = dirs[x]
  BY DEF Without, Restrict
<1> HIDE DEF w
<1>2. \A x \in DOMAIN w : DirOK(w[x])
  BY <1>1 DEF DirsOK
<1>3. DirsOK(w)
  BY <1>1, <1>2 DEF DirsOK
<1>4. QED
  BY <1>3 DEF w

\* The steps of a put.
PutStep(s) == PutClear(s) \/ PutArtifact(s) \/ PutMeta(s) \/ PutDrop(s) \/ PutRename(s) \/ PutFails(s)

\* Where a step of the executor that is none of a put leads to: to the model,
\* by way of the cache; to the working directory, with files to write; or,
\* these written, to the end of the attempt.
Same(s) == run'[s].files = run[s].files /\ run'[s].model = run[s].model /\ run'[s].source = run[s].source

\* A run that has not loaded its files yet: looking up, fetching or asking.
Onward(s) ==
  /\ run'[s].at \in {"lookup", "ask", "fetch"}
  /\ run'[s].at = "fetch" => Lookup(s) \/ Fetch(s)
  /\ run'[s].key = run[s].key \/ (ReadContext(s) /\ run'[s].key = CacheKey(s))

\* A run that has its files now, from a hit or from whoever wrote them.
Loaded(s) ==
  /\ run[s].at \in {"ask", "fetch"} /\ run'[s].at = "write"
  /\ run'[s].left = DOMAIN run'[s].files /\ run'[s].key = run[s].key
  /\ \/ Hit(s) /\ run'[s].source = "cache"
     \/ run'[s].source # "cache" /\ Honest(run'[s].files, run'[s].model)

\* A run that writes one of its files.
Wrote(s) ==
  /\ WriteFile(s) /\ run'[s].key = run[s].key /\ Same(s)
  /\ run[s].at = "write" /\ run'[s].at \in {"write", "clear", "report"}
  /\ \E p \in run[s].left :
       /\ disk' = With(disk, p, run[s].files[p])
       /\ run'[s].left = run[s].left \ {p}
       /\ run'[s].at # "write" => run[s].left = {p}

\* A run that has reported, and leaves its key.
Handed(s) == run[s].at = "report" /\ run'[s].at = "judge" /\ run'[s].key = None /\ Same(s)

\* Outside of put the executor does one of these four things and leaves the
\* cache as it is; a lookup alone may find its key torn.
LEMMA NoPut ==
  ASSUME PoolInv, RunInv, kills \in Nat, NEW s \in Subtask, ExecutorStep(s), ~ ModelFails(s), ~ PutStep(s)
  PROVE  /\ UNCHANGED <<entry, temp, puts>>
         /\ torn \subseteq torn' /\ (Lookup(s) \/ UNCHANGED torn)
         /\ Wrote(s) \/ (UNCHANGED disk /\ (Onward(s) \/ Loaded(s) \/ Handed(s)))
<1> DEFINE r == run[s]
<1>1. RunOK(r) /\ PlaceOK(r)
  BY DEF RunInv
<1>2. ASSUME NEW n, Goes(s, n) PROVE run'[s] = n
  BY <1>2 DEF Goes, RunInv
<1>3. CASE ReadContext(s)
  <2> DEFINE n == [r EXCEPT !.at = IF setup.caching THEN "lookup" ELSE "ask",
                            !.key = CacheKey(s), !.asked = ModelFor(s)]
  <2>1. n.at \in {"lookup", "ask"} /\ n.key = CacheKey(s)
    BY <1>1 DEF RunOK
  <2>2. Goes(s, n) /\ UNCHANGED disk /\ NoCache
    BY <1>3 DEF ReadContext
  <2> HIDE DEF n
  <2>3. QED
    BY <1>2, <1>3, <2>1, <2>2 DEF NoCache, history, Onward
<1>4. CASE Lookup(s)
  <2> DEFINE meta == MetaOf(r.key)
             n == IF meta = None THEN [r EXCEPT !.at = "ask"]
                  ELSE [r EXCEPT !.at = "fetch", !.left = meta.names, !.model = meta.model]
  <2>1. n.at \in {"ask", "fetch"} /\ n.key = r.key
    <3> HIDE DEF meta
    <3> QED
      BY <1>1 DEF RunOK
  <2>2. Goes(s, n) /\ UNCHANGED <<disk, puts, entry, temp>> /\ torn \subseteq torn'
    BY <1>4 DEF Lookup, Touches
  <2> HIDE DEF n
  <2>3. QED
    BY <1>2, <1>4, <2>1, <2>2 DEF Onward
<1>5. CASE Fetch(s)
  <2>1. PICK p, left, files : Goes(s, [r EXCEPT !.left = left, !.files = files])
                  \/ Goes(s, [r EXCEPT !.at = "ask", !.left = {}, !.files = <<>>, !.model = None])
    <3>1. PICK p \in r.left :
            Goes(s, IF p \in DOMAIN ArtifactsOf(r.key)
                    THEN [r EXCEPT !.left = @ \ {p}, !.files = With(@, p, ArtifactsOf(r.key)[p])]
                    ELSE [r EXCEPT !.at = "ask", !.left = {}, !.files = <<>>, !.model = None])
      BY <1>5 DEF Fetch
    <3>2. [r EXCEPT !.left = @ \ {p}, !.files = With(@, p, ArtifactsOf(r.key)[p])]
            = [r EXCEPT !.left = r.left \ {p}, !.files = With(r.files, p, ArtifactsOf(r.key)[p])]
      BY <1>1 DEF RunOK
    <3>3. QED
      BY <3>1, <3>2
  <2>2. [r EXCEPT !.left = left, !.files = files].at = r.at /\ [r EXCEPT !.left = left, !.files = files].key = r.key
    BY <1>1 DEF RunOK
  <2>3. /\ [r EXCEPT !.at = "ask", !.left = {}, !.files = <<>>, !.model = None].at = "ask"
        /\ [r EXCEPT !.at = "ask", !.left = {}, !.files = <<>>, !.model = None].key = r.key
    BY <1>1 DEF RunOK
  <2>4. r.at = "fetch" /\ UNCHANGED disk /\ NoCache
    BY <1>5 DEF Fetch, At
  <2>5. Onward(s)
    BY <1>2, <1>5, <2>1, <2>2, <2>3, <2>4 DEF Onward
  <2>6. QED
    BY <2>4, <2>5 DEF NoCache, history
<1>6. CASE Hit(s)
  <2> DEFINE n == [r EXCEPT !.at = "write", !.left = DOMAIN r.files, !.ok = TRUE, !.source = "cache"]
  <2>1. n.at = "write" /\ n.left = DOMAIN n.files /\ n.key = r.key /\ n.source = "cache"
    BY <1>1 DEF RunOK
  <2>2. Goes(s, n) /\ UNCHANGED disk /\ NoCache /\ r.at = "fetch"
    BY <1>6 DEF Hit, At
  <2> HIDE DEF n
  <2>3. QED
    BY <1>2, <1>6, <2>1, <2>2 DEF NoCache, history, Loaded
<1>7. CASE Stream(s)
  <2>0. PICK posted :
          Goes(s, [r EXCEPT !.made = @ + 1, !.since = @ + 1 - posted, !.emitted = @ + posted])
    BY <1>7 DEF Stream
  <2> DEFINE n == [r EXCEPT !.made = @ + 1, !.since = @ + 1 - posted, !.emitted = @ + posted]
  <2>1. n.at = r.at /\ n.key = r.key
    BY <1>1 DEF RunOK
  <2>2. Goes(s, n) /\ r.at = "ask" /\ UNCHANGED disk /\ NoCache
    BY <1>7, <2>0 DEF Stream, At
  <2> HIDE DEF n
  <2>3. QED
    BY <1>2, <2>1, <2>2 DEF NoCache, history, Onward
<1>8. ASSUME NEW f, NEW text, NEW model, NEW source, NEW tout, NEW n, r.at = "ask",
             Goes(s, n), UNCHANGED disk, NoCache, source # "cache", Honest(f, model),
             n.at = "write", n.files = f, n.left = DOMAIN f, n.model = model, n.source = source, n.key = r.key
      PROVE  Loaded(s) /\ UNCHANGED <<disk, entry, temp, puts, torn>>
  BY <1>2, <1>8 DEF Loaded, NoCache, history
<1>9. CASE Answer(s)
  <2>1. r.asked \in Model /\ \A paths \in setup.answers : paths \in SUBSET Path
    BY <1>1, <1>9, WorkshopAssumption DEF Answer, At, PlaceOK, RunInv
  <2>2. PICK tout \in 0..setup.tokens, paths \in setup.answers \cup {{}},
             text \in BOOLEAN :
          Goes(s, Writes(s, FilesOf(s, paths), r.asked, text, "model", tout))
    BY <1>9 DEF Answer
  <2> DEFINE f == FilesOf(s, paths)
             n == Writes(s, f, r.asked, text, "model", tout)
  <2>3. Honest(f, r.asked)
    BY <2>1, <2>2, AnswerFiles
  <2> HIDE DEF f
  <2>4. /\ n.at = "write" /\ n.files = f /\ n.left = DOMAIN f /\ n.model = r.asked
        /\ n.source = "model" /\ n.key = r.key
    BY <1>1 DEF RunOK, Writes
  <2>5. Goes(s, n)
    BY <2>2 DEF f
  <2>6. r.at = "ask" /\ UNCHANGED disk /\ NoCache
    BY <1>9 DEF Answer, At
  <2> HIDE DEF n
  <2>7. QED
    BY <1>8, <2>3, <2>4, <2>5, <2>6
<1>10. CASE FallBack(s)
  <2> DEFINE n == [r EXCEPT !.asked = setup.fallback, !.spent = r.made, !.since = 0]
  <2>1. n.at = r.at /\ n.key = r.key
    BY <1>1 DEF RunOK
  <2>2. Goes(s, n) /\ r.at = "ask" /\ UNCHANGED disk /\ NoCache
    BY <1>10 DEF FallBack, At
  <2> HIDE DEF n
  <2>3. QED
    BY <1>2, <2>1, <2>2 DEF NoCache, history, Onward
<1>11. CASE Placeholder(s)
  <2> DEFINE f == [p \in {Stub} |-> By(s, "offline")]
             n == Writes(s, f, "offline", TRUE, "offline", 0)
  <2>1. Honest(f, "offline")
    BY ByIsWork DEF Honest
  <2> HIDE DEF f
  <2>2. /\ n.at = "write" /\ n.files = f /\ n.left = DOMAIN f /\ n.model = "offline"
        /\ n.source = "offline" /\ n.key = r.key
    BY <1>1 DEF RunOK, Writes
  <2>3. Goes(s, n)
    BY <1>11 DEF Placeholder, f
  <2>4. r.at = "ask" /\ UNCHANGED disk /\ NoCache
    BY <1>11 DEF Placeholder, At
  <2> HIDE DEF n
  <2>5. QED
    BY <1>8, <2>1, <2>2, <2>3, <2>4
<1>12. CASE WriteFile(s)
  <2> DEFINE to == IF r.ok /\ r.source = "model" /\ setup.caching THEN "clear" ELSE "report"
  <2>1. PICK p \in r.left :
          /\ disk' = With(disk, p, r.files[p])
          /\ Goes(s, IF r.left # {p} THEN [r EXCEPT !.left = @ \ {p}] ELSE [r EXCEPT !.left = {}, !.at = to])
    BY <1>12 DEF WriteFile
  <2>2. r.at = "write" /\ NoCache
    BY <1>12 DEF WriteFile, At
  <2>3. CASE r.left # {p}
    <3> DEFINE n == [r EXCEPT !.left = @ \ {p}]
    <3>1. /\ n.at = r.at /\ n.left = r.left \ {p} /\ n.key = r.key /\ n.files = r.files
          /\ n.model = r.model /\ n.source = r.source
      BY <1>1 DEF RunOK
    <3>2. Goes(s, n)
      BY <2>1, <2>3
    <3> HIDE DEF n
    <3>3. QED
      BY <1>2, <1>12, <2>1, <2>2, <3>1, <3>2 DEF Wrote, Same, NoCache, history
  <2>4. CASE r.left = {p}
    <3> DEFINE n == [r EXCEPT !.left = {}, !.at = to]
    <3>1. /\ n.at \in {"clear", "report"} /\ n.left = {} /\ n.key = r.key /\ n.files = r.files
          /\ n.model = r.model /\ n.source = r.source
      BY <1>1 DEF RunOK
    <3>2. Goes(s, n)
      BY <2>1, <2>4
    <3> HIDE DEF n
    <3>3. QED
      BY <1>2, <1>12, <2>1, <2>2, <2>4, <3>1, <3>2 DEF Wrote, Same, NoCache, history
  <2>5. QED
    BY <2>3, <2>4
<1>13. CASE Report(s)
  <2> DEFINE n == [r EXCEPT !.at = "judge", !.key = None, !.emitted = Larger(@, r.tout)]
  <2>1. n.at = "judge" /\ n.key = None /\ n.files = r.files /\ n.model = r.model /\ n.source = r.source
    BY <1>1 DEF RunOK
  <2>2. Goes(s, n) /\ r.at = "report" /\ UNCHANGED disk /\ NoCache
    BY <1>13 DEF Report, At
  <2> HIDE DEF n
  <2>3. QED
    BY <1>2, <2>1, <2>2 DEF Handed, Same, NoCache, history
<1>14. QED
  BY <1>3, <1>4, <1>5, <1>6, <1>7, <1>9, <1>10, <1>11, <1>12, <1>13 DEF ExecutorStep, PutStep

\* All other steps leave the directories and the puts under way alone.
LEMMA Quiet ==
  ASSUME PoolInv, RunInv, CacheTypes, kills \in Nat, [Next]_vars, \A s \in Subtask : ~ PutStep(s)
  PROVE  /\ UNCHANGED <<entry, temp, puts>>
         /\ \A s \in Subtask : run'[s].at \in Started => run'[s] = run[s]
<1>1. ASSUME NEW s \in Subtask, Attempt(s) \/ Judge(s) \/ ModelFails(s)
      PROVE  UNCHANGED <<entry, temp, puts>> /\ \A t \in Subtask : run'[t].at \in Started => run'[t] = run[t]
  <2>1. Idle.at = "idle" /\ [Idle EXCEPT !.at = "read"].at = "read"
    BY FreshRun DEF RunInv
  <2>2. UNCHANGED <<entry, temp, puts>> /\ \E n \in {Idle, [Idle EXCEPT !.at = "read"]} : Goes(s, n)
    BY <1>1 DEF Attempt, Judge, ModelFails, Raises, NoCache, history
  <2>3. PICK n \in {Idle, [Idle EXCEPT !.at = "read"]} : Goes(s, n)
    BY <2>2
  <2>4. n.at \notin Started
    BY <2>1 DEF Started
  <2>5. QED
    BY <2>2, <2>3, <2>4 DEF Goes, RunInv
<1>2. ASSUME NEW s \in Subtask, ExecutorStep(s), ~ ModelFails(s)
      PROVE  UNCHANGED <<entry, temp, puts>> /\ \A t \in Subtask : run'[t].at \in Started => run'[t] = run[t]
  <2>1. UNCHANGED <<entry, temp, puts>> /\ run'[s].at \notin Started
    BY <1>2, NoPut DEF Onward, Loaded, Wrote, Handed, Started
  <2>2. Moves(s)
    BY <1>2, ExecutorRun
  <2>3. QED
    BY <2>1, <2>2 DEF Moves, RunInv
<1>3. CASE RunPool \/ Gate \/ UNCHANGED vars
  BY <1>3 DEF RunPool, Gate, vars, history
<1>4. CASE Kill
  <2>1. Idle.at \notin Started
    BY FreshRun DEF Started, RunInv
  <2>2. QED
    BY <1>4, <2>1 DEF Kill, NoCache, history
<1>5. QED
  BY <1>1, <1>2, <1>3, <1>4 DEF Next

\* A step of a put leaves the run what it was, but for its place.
LEMMA PutMoves ==
  ASSUME RunInv, NEW s \in Subtask, PutStep(s)
  PROVE  /\ run'[s].key = run[s].key /\ run'[s].files = run[s].files /\ run'[s].model = run[s].model
         /\ run'[s].source = run[s].source /\ run[s].at \in Putting
         /\ run'[s].at \in Started \cup {"report"}
         /\ \A t \in Subtask \ {s} : run'[t] = run[t]
         /\ PutClear(s) \/ (UNCHANGED <<puts, torn>> /\ (run[s].at \in Started \/ run'[s].at = "report"))
<1> DEFINE r == run[s]
<1>1. RunOK(r)
  BY DEF RunInv
<1>2. ASSUME NEW n, Goes(s, n) PROVE run'[s] = n /\ \A t \in Subtask \ {s} : run'[t] = run[t]
  BY <1>2 DEF Goes, RunInv
<1>3. PICK at \in Started \cup {"report"}, left \in SUBSET Path :
        Goes(s, [r EXCEPT !.at = at, !.left = left]) /\ r.at \in Putting
  <2>1. CASE PutClear(s)
    BY <1>1, <2>1 DEF PutClear, At, Putting, Started, RunOK, IsTree
  <2>2. CASE PutArtifact(s)
    <3>1. PICK p : Goes(s, [r EXCEPT !.left = @ \ {p}, !.at = IF r.left = {p} THEN "meta" ELSE @]) /\ r.at = "store"
      BY <2>2 DEF PutArtifact, At
    <3> DEFINE to == IF r.left = {p} THEN "meta" ELSE "store"
    <3>2. [r EXCEPT !.left = @ \ {p}, !.at = IF r.left = {p} THEN "meta" ELSE @]
            = [r EXCEPT !.at = to, !.left = r.left \ {p}]
      BY <1>1, <3>1 DEF RunOK
    <3>3. to \in Started /\ r.left \ {p} \in SUBSET Path
      BY <1>1 DEF Started, RunOK
    <3> HIDE DEF to
    <3>4. QED
      BY <3>1, <3>2, <3>3 DEF Putting
  <2>3. ASSUME NEW at \in Started \cup {"report"}, r.at \in Putting, Goes(s, [r EXCEPT !.at = at])
        PROVE  \E left \in SUBSET Path : Goes(s, [r EXCEPT !.at = at, !.left = left])
    <3>1. [r EXCEPT !.at = at] = [r EXCEPT !.at = at, !.left = r.left] /\ r.left \in SUBSET Path
      BY <1>1 DEF RunOK
    <3>2. QED
      BY <2>3, <3>1
  <2>4. CASE PutMeta(s) \/ PutRename(s)
    BY <2>3, <2>4 DEF PutMeta, PutRename, At, Started, Putting
  <2>5. CASE PutDrop(s)
    <3>1. r.at = "drop" /\ (UNCHANGED run \/ Goes(s, [r EXCEPT !.at = "rename"]))
      BY <2>5 DEF PutDrop, At
    <3>2. ASSUME UNCHANGED run PROVE Goes(s, [r EXCEPT !.at = "drop"])
      <4>1. [r EXCEPT !.at = "drop"] = r
        BY <1>1, <3>1 DEF RunOK
      <4>2. run = [t \in Subtask |-> run[t]]
        BY DEF RunInv
      <4>3. QED
        BY <3>2, <4>1, <4>2 DEF Goes
    <3>3. QED
      BY <2>3, <3>1, <3>2 DEF Started, Putting
  <2>6. CASE PutFails(s)
    BY <2>6 DEF PutFails, Started
  <2>7. QED
    BY <2>1, <2>2, <2>4, <2>5, <2>6 DEF PutStep
<1> DEFINE n == [r EXCEPT !.at = at, !.left = left]
<1>4. n.key = r.key /\ n.files = r.files /\ n.model = r.model /\ n.source = r.source /\ n.at = at
  BY <1>1 DEF RunOK
<1>5. Goes(s, n)
  BY <1>3
<1> HIDE DEF n
<1>6. PutClear(s) \/ (UNCHANGED <<puts, torn>> /\ (run[s].at \in Started \/ run'[s].at = "report"))
  <2>1. CASE PutFails(s)
    <3>1. [r EXCEPT !.at = "report", !.left = {}].at = "report"
      BY <1>1 DEF RunOK
    <3>2. QED
      BY <1>2, <2>1, <3>1 DEF PutFails, history
  <2>2. QED
    BY <2>1 DEF PutStep, PutArtifact, PutMeta, PutDrop, PutRename, history, At, Started
<1>7. QED
  BY <1>2, <1>3, <1>4, <1>5, <1>6

\* Every step of a put leaves directories of work, whose keys were put.
LEMMA PutDirs ==
  ASSUME RunInv, CacheTypes, NEW s \in Subtask, PutStep(s)
  PROVE  /\ DirsOK(entry') /\ DirsOK(temp')
         /\ DOMAIN entry' \cup DOMAIN temp' \subseteq DOMAIN entry \cup DOMAIN temp \cup {run[s].key}
<1> DEFINE r == run[s]
           k == r.key
<1>1. DirsOK(entry) /\ DirsOK(temp)
  BY DEF CacheTypes
<1>2. r.at \in Putting => IsTree(r.files, Work) /\ r.model \in Model
  BY DEF RunInv, PlaceOK, Through
<1>3. CASE PutClear(s)
  <2>1. temp' = With(temp, k, EmptyDirectory) /\ entry' = entry
    BY <1>3 DEF PutClear, ClearTemp
  <2>2. DirsOK(With(temp, k, EmptyDirectory))
    BY <1>1, EmptyIsOK, WithDir
  <2>3. DOMAIN temp' = DOMAIN temp \cup {k}
    BY <2>1 DEF With
  <2>4. QED
    BY <1>1, <2>1, <2>2, <2>3
<1>4. CASE PutArtifact(s)
  <2>1. PICK p \in r.left : StoreArtifact(k, p, r.files[p]) /\ r.at = "store"
    BY <1>4 DEF PutArtifact, At
  <2>2. p \in Path /\ r.files[p] \in Work
    BY <1>2, <2>1 DEF RunInv, PlaceOK, RunOK, Putting, IsTree
  <2> DEFINE d == Directory(temp, k)
             f == With(d.files, p, r.files[p])
             e == [d EXCEPT !.files = f]
  <2>3. DirOK(d)
    BY <1>1, DirectoryIsOK
  <2>4. IsTree(f, Work)
    BY <2>2, <2>3, TreeWith DEF DirOK
  <2>5. temp' = With(temp, k, e) /\ entry' = entry
    <3>1. temp' = With(temp, k, [d EXCEPT !.files = With(@, p, r.files[p])]) /\ entry' = entry
      BY <2>1 DEF StoreArtifact
    <3>2. [d EXCEPT !.files = With(@, p, r.files[p])] = e
      <4> HIDE DEF d
      <4> QED
        BY <2>3 DEF DirOK
    <3>3. QED
      BY <3>1, <3>2
  <2> HIDE DEF d, f
  <2>6. DirOK(e)
    BY <2>3, <2>4 DEF DirOK
  <2> HIDE DEF e
  <2>7. DOMAIN temp' = DOMAIN temp \cup {k}
    BY <2>5 DEF With
  <2>8. DirsOK(With(temp, k, e))
    BY <1>1, <2>6, WithDir
  <2>9. QED
    BY <1>1, <2>5, <2>7, <2>8
<1>5. CASE PutMeta(s)
  <2> DEFINE m == Meta(r.files, r.model)
             e == [files |-> temp[k].files, meta |-> m]
  <2>1. k \in DOMAIN temp /\ temp' = [temp EXCEPT ![k].meta = m] /\ entry' = entry /\ r.at = "meta"
    BY <1>5 DEF PutMeta, StoreMeta, At
  <2>2. m \in [names : SUBSET Path, model : Model]
    BY <1>2, <2>1 DEF Meta, Putting, IsTree
  <2> HIDE DEF m
  <2>3. DirOK(e)
    BY <1>1, <2>1, <2>2 DEF DirsOK, DirOK
  <2>4. temp[k] = [files |-> temp[k].files, meta |-> temp[k].meta] /\ temp = [x \in DOMAIN temp |-> temp[x]]
    BY <1>1, <2>1 DEF DirsOK, DirOK
  <2>5. [temp[k] EXCEPT !.meta = m] = e
    BY <2>4
  <2> HIDE DEF e
  <2>6. temp' = [temp EXCEPT ![k] = e]
    BY <2>1, <2>5
  <2>7. DirsOK(temp') /\ DOMAIN temp' = DOMAIN temp
    BY <1>1, <2>3, <2>4, <2>6 DEF DirsOK
  <2>8. QED
    BY <1>1, <2>1, <2>7
<1>6. CASE PutDrop(s)
  <2>1. CASE Erode(k)
    <3>1. PICK kept \in SUBSET DOMAIN entry[k].files, meta \in {entry[k].meta, None} :
             entry' = [entry EXCEPT ![k] = [files |-> Restrict(@.files, kept), meta |-> meta]]
      BY <2>1 DEF Erode
    <3>2. k \in DOMAIN entry /\ temp' = temp /\ DirOK(entry[k])
      BY <1>1, <2>1 DEF Erode, DirsOK
    <3> DEFINE f == Restrict(entry[k].files, kept)
               e == [files |-> f, meta |-> meta]
    <3>3. IsTree(f, Work)
      BY <3>2 DEF DirOK, IsTree, Restrict
    <3>4. entry' = [entry EXCEPT ![k] = e] /\ entry = [x \in DOMAIN entry |-> entry[x]]
      BY <1>1, <3>1 DEF DirsOK
    <3> HIDE DEF f
    <3>5. DirOK(e)
      BY <3>2, <3>3 DEF DirOK
    <3> HIDE DEF e
    <3>6. DirsOK(entry') /\ DOMAIN entry' = DOMAIN entry
      BY <1>1, <3>4, <3>5 DEF DirsOK
    <3>7. QED
      BY <1>1, <3>2, <3>6
  <2>2. CASE DropEntry(k)
    <3>1. entry' = Without(entry, k) /\ temp' = temp
      BY <2>2 DEF DropEntry
    <3>2. DirsOK(Without(entry, k))
      BY <1>1, WithoutDir
    <3>3. DOMAIN entry' \subseteq DOMAIN entry
      BY <3>1 DEF Without, Restrict
    <3>4. QED
      BY <1>1, <3>1, <3>2, <3>3
  <2>3. CASE UNCHANGED <<entry, temp>>
    BY <1>1, <2>3
  <2>4. QED
    BY <1>6, <2>1, <2>2, <2>3 DEF PutDrop
<1>7. CASE PutRename(s)
  <2>1. k \in DOMAIN temp /\ entry' = With(entry, k, temp[k]) /\ temp' = Without(temp, k)
    BY <1>7 DEF PutRename, MoveIn
  <2>2. DirOK(temp[k])
    BY <1>1, <2>1 DEF DirsOK
  <2>3. DirsOK(With(entry, k, temp[k])) /\ DirsOK(Without(temp, k))
    BY <1>1, <2>2, WithDir, WithoutDir
  <2>4. DOMAIN entry' = DOMAIN entry \cup {k} /\ DOMAIN temp' \subseteq DOMAIN temp
    BY <2>1 DEF With, Without, Restrict
  <2>5. QED
    BY <2>1, <2>3, <2>4
<1>8. CASE PutFails(s)
  <2>1. temp' = Without(temp, k) /\ entry' = entry
    BY <1>8 DEF PutFails, Abandon
  <2>2. DirsOK(Without(temp, k))
    BY <1>1, WithoutDir
  <2>3. DOMAIN temp' \subseteq DOMAIN temp
    BY <2>1 DEF Without, Restrict
  <2>4. QED
    BY <1>1, <2>1, <2>2, <2>3
<1>9. QED
  BY <1>3, <1>4, <1>5, <1>6, <1>7, <1>8 DEF PutStep

\* Every step keeps the form of the cache.
LEMMA CacheTypesStep == PoolInv /\ RunInv /\ CacheTypes /\ kills \in Nat /\ [Next]_vars => CacheTypes'
<1> SUFFICES ASSUME PoolInv, RunInv, CacheTypes, kills \in Nat, [Next]_vars PROVE CacheTypes'
  OBVIOUS
<1>1. CASE \A s \in Subtask : ~ PutStep(s)
  BY <1>1, Quiet DEF CacheTypes
<1>2. ASSUME NEW s \in Subtask, PutStep(s) PROVE CacheTypes'
  <2>1. /\ DirsOK(entry') /\ DirsOK(temp')
        /\ DOMAIN entry' \cup DOMAIN temp' \subseteq DOMAIN entry \cup DOMAIN temp \cup {run[s].key}
    BY <1>2, PutDirs
  <2>2. /\ run'[s].key = run[s].key /\ \A t \in Subtask \ {s} : run'[t] = run[t]
        /\ run[s].at \in Putting /\ run'[s].at \in Started \cup {"report"}
    BY <1>2, PutMoves
  <2>3. CASE PutClear(s)
    <3> DEFINE put == [key |-> run[s].key, files |-> run[s].files, model |-> run[s].model]
    <3>1. puts' = puts \cup {put}
      BY <2>3 DEF PutClear
    <3>2. IsTree(put.files, Work) /\ put.model \in Model /\ put.key = run[s].key
          /\ put = [key |-> put.key, files |-> put.files, model |-> put.model]
      BY <2>2 DEF RunInv, PlaceOK, Through
    <3> HIDE DEF put
    <3>3. QED
      BY <2>1, <2>2, <3>1, <3>2 DEF CacheTypes
  <2>4. CASE run[s].at \in Started /\ UNCHANGED puts
    BY <2>1, <2>2, <2>4 DEF CacheTypes
  <2>5. CASE PutFails(s)
    <3>1. UNCHANGED puts /\ DOMAIN entry' \cup DOMAIN temp' \subseteq DOMAIN entry \cup DOMAIN temp
      <4>1. temp' = Without(temp, run[s].key) /\ entry' = entry /\ UNCHANGED puts
        BY <2>5 DEF PutFails, Abandon, history
      <4>2. QED
        BY <4>1 DEF Without, Restrict
    <3>2. run'[s].at \notin Started
      <4>1. [run[s] EXCEPT !.at = "report", !.left = {}].at = "report"
        BY DEF RunInv, RunOK
      <4>2. QED
        BY <2>5, <4>1 DEF PutFails, Goes, RunInv, Started
    <3>3. QED
      BY <2>1, <2>2, <3>1, <3>2 DEF CacheTypes
  <2>6. PutClear(s) \/ PutFails(s) \/ (run[s].at \in Started /\ UNCHANGED puts)
    BY <1>2 DEF PutStep, PutArtifact, PutMeta, PutDrop, PutRename, history, At, Started
  <2>7. QED
    BY <2>3, <2>4, <2>5, <2>6
<1>3. QED
  BY <1>1, <1>2
----------------------------------------------------------------------------
(* The gate.                                                               *)

\* When the pool is done, no thread is under way: only the gate can move.
LEMMA OnlyGate ==
  ASSUME PoolInv, RunInv, CacheTypes, kills \in Nat, [Next]_vars, main = "done"
  PROVE  Gate \/ UNCHANGED vars
<1>1. \A s \in Subtask : thread[s] = "ok" /\ run[s].at = "idle"
  BY DEF PoolInv, RunInv
<1>2. ASSUME RunPool PROVE FALSE
  BY <1>1, <1>2 DEF RunPool, Pool!MainStep, Pool!Schedule, Pool!ReturnResults, Pool!CollectResult,
    Pool!CollectRaise, Pool!Unwind, Pool!Start, Pool!Escalate, Pool!Complete, Pool!Move
<1>3. ASSUME NEW s \in Subtask, Attempt(s) \/ Judge(s) \/ ModelFails(s) PROVE FALSE
  BY <1>1, <1>3 DEF Attempt, Pool!Attempt, Pool!Move, Judge, ModelFails, At
<1>4. ASSUME NEW s \in Subtask, ExecutorStep(s), ~ ModelFails(s) PROVE FALSE
  BY <1>1, <1>4, ExecutorRun DEF Moves
<1>5. ASSUME Kill PROVE FALSE
  BY <1>5 DEF Kill
<1>6. QED
  BY <1>2, <1>3, <1>4, <1>5 DEF Next

\* Outside of the gate, the files on disk change only by what sub-tasks write.
LEMMA DiskSteps ==
  ASSUME PoolInv, RunInv, CacheTypes, kills \in Nat, [Next]_vars, ~ Gate
  PROVE  \/ UNCHANGED disk
         \/ Kill /\ disk' = <<>>
         \/ \E s \in Subtask : Wrote(s)
<1>1. ASSUME NEW s \in Subtask, PutStep(s) PROVE UNCHANGED disk
  BY <1>1 DEF PutStep, PutClear, PutArtifact, PutMeta, PutDrop, PutRename, PutFails
<1>2. ASSUME NEW s \in Subtask, ExecutorStep(s), ~ ModelFails(s) PROVE UNCHANGED disk \/ Wrote(s)
  BY <1>1, <1>2, NoPut
<1>3. ASSUME NEW s \in Subtask, Attempt(s) \/ Judge(s) \/ ModelFails(s) PROVE UNCHANGED disk
  BY <1>3 DEF Attempt, Judge, ModelFails, Raises
<1>4. QED
  BY <1>2, <1>3 DEF Next, RunPool, Kill, vars

\* produced_files reads contents, and cuts only what is long.
LEMMA ProducedOnDisk ==
  ASSUME NEW f, OnDisk(f)
  PROVE  /\ OnDisk(Produced(f)) /\ DOMAIN Produced(f) = DOMAIN f
         /\ \A p \in DOMAIN f : Produced(f)[p].cut => p \in Long \/ f[p].cut
<1> DEFINE g == Produced(f)
<1>1. DOMAIN g = DOMAIN f /\ g = [p \in DOMAIN g |-> g[p]]
  BY DEF Produced
<1>2. ASSUME NEW p \in DOMAIN f
      PROVE  /\ g[p] \in [by : {g[p].by}, n : {g[p].n}, model : Model \cup {"offline"}, cut : BOOLEAN]
             /\ g[p].cut => p \in Long \/ f[p].cut
  <2>1. f[p] \in [by : {f[p].by}, n : {f[p].n}, model : Model \cup {"offline"}, cut : BOOLEAN]
    BY DEF OnDisk
  <2> DEFINE c == [f[p] EXCEPT !.cut = TRUE]
  <2>2. c \in [by : {c.by}, n : {c.n}, model : Model \cup {"offline"}, cut : BOOLEAN]
    BY <2>1
  <2>3. g[p] = IF p \in Long THEN c ELSE f[p]
    BY DEF Produced
  <2> HIDE DEF c, g
  <2>4. QED
    BY <2>1, <2>2, <2>3
<1> HIDE DEF g
<1>3. OnDisk(g)
  BY <1>1, <1>2 DEF OnDisk
<1>4. QED
  BY <1>1, <1>2, <1>3 DEF g

\* Writing one file of a tree over another tree.
LEMMA DiskWith ==
  ASSUME NEW f, OnDisk(f), NEW g, OnDisk(g), NEW p \in DOMAIN g
  PROVE  OnDisk([q \in DOMAIN f \cup {p} |-> IF q = p THEN g[p] ELSE f[q]])
<1> DEFINE w == [q \in DOMAIN f \cup {p} |-> IF q = p THEN g[p] ELSE f[q]]
<1>1. /\ DOMAIN w = DOMAIN f \cup {p} /\ w = [q \in DOMAIN w |-> w[q]]
      /\ \A q \in DOMAIN w : (q = p /\ w[q] = g[p]) \/ (q \in DOMAIN f /\ w[q] = f[q])
  OBVIOUS
<1> HIDE DEF w
<1>2. \A q \in DOMAIN w :
        w[q] \in [by : {w[q].by}, n : {w[q].n}, model : Model \cup {"offline"}, cut : BOOLEAN]
  BY <1>1 DEF OnDisk
<1>3. DOMAIN w \in SUBSET Path
  BY <1>1 DEF OnDisk
<1>4. OnDisk(w)
  BY <1>1, <1>2, <1>3 DEF OnDisk
<1>5. QED
  BY <1>4 DEF w

\* Every step of the gate keeps what is known of it: it judges what it has just
\* read, and writes only what refine returned for that.
LEMMA GateMoves ==
  ASSUME OnDisk(disk), GateInv, CutInv, GateStep, UNCHANGED main
  PROVE  (gate.at = "closed" => main = "done") =>
            GateInv' /\ CutInv' /\ OnDisk(disk)' /\ DOMAIN disk \subseteq DOMAIN disk'
<1> SUFFICES ASSUME gate.at = "closed" => main = "done"
             PROVE
            GateInv' /\ CutInv' /\ OnDisk(disk)' /\ DOMAIN disk \subseteq DOMAIN disk'
  OBVIOUS
<1>0. GateFields /\ OnDisk(gate.seen) /\ OnDisk(gate.fix) /\ main = "done" /\ MaxPasses \in Nat
  BY GateAssumption DEF GateInv, GateFields
<1>a. gate.at # "over" /\ ~ gate.failed
  <2>1. gate.at # "over"
    BY DEF GateStep, Enter, CritiqueText, CritiqueVisual, Decide, Refine, Rewrite, Loop, Swallow, SwallowWrite
  <2>2. QED
    BY <2>1 DEF GateInv
<1>b. gate'.failed => gate'.at = "over"
  BY <1>0, <1>a
  DEF GateFields, GateStep, Enter, CritiqueText, CritiqueVisual, Decide, Refine, Rewrite, Loop, Swallow,
      SwallowWrite
<1>1. ASSUME UNCHANGED disk, GateFields',
             OnDisk(gate.seen)' /\ OnDisk(gate.fix)',
             gate'.pass <= MaxPasses, gate'.at \in {"refine", "rewrite"} => gate'.pass < MaxPasses,
             gate'.blanks <= IF gate'.at \in {"rewrite", "over"} THEN gate'.pass + 1 ELSE gate'.pass,
             gate.blanks <= gate'.blanks, gate'.blanks <= MaxPasses,
             gate'.at \in {"critique", "look", "decide", "refine"} => gate'.seen = Produced(disk),
             gate'.at \in {"look", "decide"} => gate'.judged = gate'.seen,
             gate'.at = "over" /\ ~ gate'.failed => gate'.judged = Produced(disk),
             gate'.seen = gate.seen \/ gate'.seen = Produced(disk),
             gate'.fix = gate.fix \/ (gate'.fix = gate.seen /\ gate'.blanks = gate.blanks + 1)
               \/ (\A p \in DOMAIN gate'.fix : ~ gate'.fix[p].cut)
      PROVE
            GateInv' /\ CutInv' /\ OnDisk(disk)' /\ DOMAIN disk \subseteq DOMAIN disk'
  <2>1. OnDisk(disk)' /\ DOMAIN disk \subseteq DOMAIN disk'
    BY <1>1 DEF OnDisk
  <2>2. GateInv'
    BY <1>0, <1>1, <1>b DEF GateInv
  <2>3. gate.blanks \in Nat /\ gate'.blanks \in Nat
    BY <1>0, <1>1 DEF GateFields
  <2>4. \A p \in DOMAIN disk' : disk'[p].cut => p \in Long /\ gate'.blanks > 0
    BY <1>1, <1>a, <2>3 DEF CutInv
  <2>5. \A p \in DOMAIN gate'.seen : gate'.seen[p].cut => p \in Long
    <3>1. CASE gate'.seen = gate.seen
      BY <3>1 DEF CutInv
    <3>2. CASE gate'.seen = Produced(disk)
      BY <1>a, <3>2, ProducedOnDisk DEF CutInv
    <3>3. QED
      BY <1>1, <3>1, <3>2
  <2>6. \A p \in DOMAIN gate'.fix : gate'.fix[p].cut => p \in Long /\ gate'.blanks > 0
    BY <1>1, <2>3 DEF CutInv
  <2>7. QED
    BY <2>1, <2>2, <2>4, <2>5, <2>6 DEF CutInv
<1>2. CASE Enter
  <2>1. PICK visual \in BOOLEAN :
          gate' = [gate EXCEPT !.at = "critique", !.seen = Produced(disk), !.visual = visual]
    BY <1>2 DEF Enter, Installed
  <2>2. gate.at = "closed" /\ UNCHANGED disk
    BY <1>2 DEF Enter
  <2> DEFINE seen == Produced(disk)
  <2>3. OnDisk(seen)
    BY ProducedOnDisk
  <2> HIDE DEF seen
  <2>4. /\ GateFields' /\ gate'.at = "critique" /\ gate'.seen = seen /\ gate'.fix = gate.fix
        /\ gate'.pass = gate.pass /\ gate'.blanks = gate.blanks
    BY <1>0, <2>1 DEF GateFields, seen
  <2>5. OnDisk(gate.seen)' /\ OnDisk(gate.fix)'
    BY <1>0, <2>3, <2>4 DEF OnDisk
  <2>6. gate.blanks <= gate.pass /\ gate.pass <= MaxPasses /\ gate.blanks <= MaxPasses
    BY <2>2 DEF GateInv
  <2>7. gate.blanks \in Nat
    BY <1>0 DEF GateFields
  <2>8. QED
    BY <1>1, <2>2, <2>4, <2>5, <2>6, <2>7 DEF seen
<1>3. CASE CritiqueText
  <2>1. PICK verdict \in Verdict :
          gate' = [gate EXCEPT !.at = IF gate.visual THEN "look" ELSE "decide", !.judged = gate.seen,
                               !.passed = verdict.passed, !.findings = verdict.findings]
    BY <1>3 DEF CritiqueText
  <2>2. gate.at = "critique" /\ UNCHANGED disk
    BY <1>3 DEF CritiqueText
  <2>3. /\ GateFields' /\ gate'.at \in {"look", "decide"} /\ gate'.seen = gate.seen /\ gate'.fix = gate.fix
        /\ gate'.pass = gate.pass /\ gate'.blanks = gate.blanks /\ gate'.judged = gate.seen
    BY <1>0, <2>1 DEF GateFields, Verdict
  <2>4. OnDisk(gate.seen)' /\ OnDisk(gate.fix)'
    BY <1>0, <2>3 DEF OnDisk
  <2>5. /\ gate.blanks <= gate.pass /\ gate.pass <= MaxPasses /\ gate.blanks <= MaxPasses
        /\ gate.seen = Produced(disk)
    BY <2>2 DEF GateInv
  <2>6. gate.blanks \in Nat
    BY <1>0 DEF GateFields
  <2>7. QED
    BY <1>1, <2>2, <2>3, <2>4, <2>5, <2>6
<1>4. CASE CritiqueVisual
  <2>1. PICK verdict \in Verdict :
          gate' = [gate EXCEPT !.at = "decide", !.passed = @ /\ verdict.passed,
                               !.findings = @ \/ verdict.findings]
    BY <1>4 DEF CritiqueVisual
  <2>2. gate.at = "look" /\ UNCHANGED disk
    BY <1>4 DEF CritiqueVisual
  <2>3. /\ GateFields' /\ gate'.at = "decide" /\ gate'.seen = gate.seen /\ gate'.fix = gate.fix
        /\ gate'.pass = gate.pass /\ gate'.blanks = gate.blanks /\ gate'.judged = gate.judged
    <3>1. verdict.passed \in BOOLEAN /\ verdict.findings \in BOOLEAN
      BY DEF Verdict
    <3>2. (gate.passed /\ verdict.passed) \in BOOLEAN /\ (gate.findings \/ verdict.findings) \in BOOLEAN
      OBVIOUS
    <3>3. QED
      BY <1>0, <2>1, <3>1, <3>2 DEF GateFields
  <2>4. OnDisk(gate.seen)' /\ OnDisk(gate.fix)'
    BY <1>0, <2>3 DEF OnDisk
  <2>5. /\ gate.blanks <= gate.pass /\ gate.pass <= MaxPasses /\ gate.blanks <= MaxPasses
        /\ gate.seen = Produced(disk) /\ gate.judged = gate.seen
    BY <2>2 DEF GateInv
  <2>6. gate.blanks \in Nat
    BY <1>0 DEF GateFields
  <2>7. QED
    BY <1>1, <2>2, <2>3, <2>4, <2>5, <2>6
<1>5. CASE Decide
  <2> DEFINE last == gate.passed \/ ~ gate.findings \/ gate.pass >= MaxPasses
  <2>1. gate.at = "decide" /\ UNCHANGED disk /\ gate' = [gate EXCEPT !.at = IF last THEN "over" ELSE "refine"]
    BY <1>5 DEF Decide
  <2>2. ~ last => gate.pass < MaxPasses
    BY <1>0 DEF GateFields
  <2> HIDE DEF last
  <2>3. /\ GateFields' /\ gate'.at = (IF last THEN "over" ELSE "refine") /\ gate'.seen = gate.seen
        /\ gate'.fix = gate.fix /\ gate'.pass = gate.pass /\ gate'.blanks = gate.blanks
        /\ gate'.judged = gate.judged
    BY <1>0, <2>1 DEF GateFields
  <2>4. OnDisk(gate.seen)' /\ OnDisk(gate.fix)'
    BY <1>0, <2>3 DEF OnDisk
  <2>5. /\ gate.blanks <= gate.pass /\ gate.pass <= MaxPasses /\ gate.blanks <= MaxPasses
        /\ gate.seen = Produced(disk) /\ gate.judged = gate.seen
    BY <2>1 DEF GateInv
  <2>6. gate.blanks \in Nat /\ gate.pass \in Nat
    BY <1>0 DEF GateFields
  <2>7. QED
    BY <1>1, <2>1, <2>2, <2>3, <2>4, <2>5, <2>6
<1>6. CASE Refine
  <2>1. PICK paths \in SUBSET Path :
          gate' = IF paths = {}
                  THEN [gate EXCEPT !.at = "rewrite", !.fix = gate.seen, !.blanks = @ + 1]
                  ELSE [gate EXCEPT !.at = "rewrite", !.fix = [p \in paths |-> Refined(gate.pass + 1)]]
    BY <1>6 DEF Refine, Reply
  <2>2. gate.at = "refine" /\ UNCHANGED disk
    BY <1>6 DEF Refine
  <2>3. /\ gate.blanks <= gate.pass /\ gate.pass < MaxPasses
        /\ gate.seen = Produced(disk)
    BY <2>2 DEF GateInv
  <2>4. gate.blanks \in Nat /\ gate.pass \in Nat
    BY <1>0 DEF GateFields
  <2>5. CASE paths = {}
    <3>1. /\ GateFields' /\ gate'.at = "rewrite" /\ gate'.seen = gate.seen
          /\ gate'.fix = gate.seen /\ gate'.pass = gate.pass /\ gate'.blanks = gate.blanks + 1
      <4> DEFINE more == gate.blanks + 1
      <4>1. more \in Nat
        BY <2>4
      <4>2. gate' = [gate EXCEPT !.at = "rewrite", !.fix = gate.seen, !.blanks = more]
        BY <1>0, <2>1, <2>5 DEF GateFields
      <4> HIDE DEF more
      <4>3. /\ GateFields' /\ gate'.at = "rewrite" /\ gate'.seen = gate.seen
            /\ gate'.fix = gate.seen /\ gate'.pass = gate.pass /\ gate'.blanks = more
        BY <1>0, <4>1, <4>2 DEF GateFields
      <4>4. QED
        BY <4>3 DEF more
    <3>2. OnDisk(gate.seen)' /\ OnDisk(gate.fix)'
      BY <1>0, <3>1 DEF OnDisk
    <3>3. QED
      BY <1>0, <1>1, <2>2, <2>3, <2>4, <3>1, <3>2
  <2>6. CASE paths # {}
    <3> DEFINE c == Refined(gate.pass + 1)
               fix == [p \in paths |-> c]
    <3>1. OnDisk(fix) /\ \A p \in DOMAIN fix : ~ fix[p].cut
      <4>1. c \in [by : {c.by}, n : {c.n}, model : Model \cup {"offline"}, cut : BOOLEAN] /\ ~ c.cut
        BY DEF Refined, Model
      <4> HIDE DEF c
      <4>2. QED
        BY <4>1 DEF OnDisk
    <3> HIDE DEF c
    <3>2. gate' = [gate EXCEPT !.at = "rewrite", !.fix = fix]
      BY <2>1, <2>6 DEF c
    <3> HIDE DEF fix
    <3>3. /\ GateFields' /\ gate'.at = "rewrite" /\ gate'.seen = gate.seen
          /\ gate'.fix = fix /\ gate'.pass = gate.pass /\ gate'.blanks = gate.blanks
      BY <1>0, <3>2 DEF GateFields
    <3>4. OnDisk(gate.seen)' /\ OnDisk(gate.fix)'
      BY <1>0, <3>1, <3>3 DEF OnDisk
    <3>5. QED
      BY <1>0, <1>1, <2>2, <2>3, <2>4, <3>1, <3>3, <3>4
  <2>7. QED
    BY <2>5, <2>6
<1>7. CASE Rewrite
  <2>1. PICK p \in DOMAIN gate.fix :
          /\ disk' = [q \in DOMAIN disk \cup {p} |-> IF q = p THEN gate.fix[p] ELSE disk[q]]
          /\ gate' = [gate EXCEPT !.fix = [q \in DOMAIN @ \ {p} |-> @[q]]]
    BY <1>7 DEF Rewrite, Written
  <2>2. gate.at = "rewrite"
    BY <1>7 DEF Rewrite
  <2> DEFINE fix == [q \in DOMAIN gate.fix \ {p} |-> gate.fix[q]]
  <2>3. gate' = [gate EXCEPT !.fix = fix]
    BY <1>0, <2>1 DEF GateFields
  <2>4. /\ OnDisk(fix) /\ DOMAIN fix \subseteq DOMAIN gate.fix
        /\ \A q \in DOMAIN fix : fix[q] = gate.fix[q]
    BY <1>0 DEF OnDisk
  <2> HIDE DEF fix
  <2>5. /\ GateFields' /\ gate'.at = "rewrite" /\ gate'.seen = gate.seen /\ gate'.fix = fix
        /\ gate'.pass = gate.pass /\ gate'.blanks = gate.blanks
    BY <1>0, <2>2, <2>3 DEF GateFields
  <2>6. OnDisk(gate.seen)' /\ OnDisk(gate.fix)'
    BY <1>0, <2>4, <2>5 DEF OnDisk
  <2>7. GateInv'
    BY <1>0, <1>b, <2>2, <2>5, <2>6 DEF GateInv
  <2>8. OnDisk(disk') /\ DOMAIN disk \subseteq DOMAIN disk'
    BY <1>0, <2>1, DiskWith
  <2>9. \A q \in DOMAIN disk' : disk'[q].cut => q \in Long /\ gate'.blanks > 0
    <3>1. \A q \in DOMAIN disk' : (q = p /\ disk'[q] = gate.fix[p]) \/ (q \in DOMAIN disk /\ disk'[q] = disk[q])
      BY <2>1
    <3>2. QED
      BY <1>a, <2>5, <3>1 DEF CutInv
  <2>10. CutInv'
    BY <2>4, <2>5, <2>9 DEF CutInv
  <2>11. OnDisk(disk)'
    BY <2>8 DEF OnDisk
  <2>12. QED
    BY <2>7, <2>8, <2>10, <2>11
<1>8. CASE Loop
  <2>1. /\ gate.at = "rewrite" /\ UNCHANGED disk
        /\ gate' = [gate EXCEPT !.at = "critique", !.pass = @ + 1, !.seen = Produced(disk)]
    BY <1>8 DEF Loop
  <2> DEFINE seen == Produced(disk)
  <2>2. OnDisk(seen)
    BY ProducedOnDisk
  <2> HIDE DEF seen
  <2>3. /\ GateFields' /\ gate'.at = "critique" /\ gate'.seen = seen /\ gate'.fix = gate.fix
        /\ gate'.pass = gate.pass + 1 /\ gate'.blanks = gate.blanks
    <3> DEFINE next == gate.pass + 1
    <3>1. next \in Nat
      BY <1>0 DEF GateFields
    <3>2. gate' = [gate EXCEPT !.at = "critique", !.pass = next, !.seen = seen]
      BY <1>0, <2>1 DEF GateFields, seen
    <3> HIDE DEF next
    <3>3. /\ GateFields' /\ gate'.at = "critique" /\ gate'.seen = seen /\ gate'.fix = gate.fix
          /\ gate'.pass = next /\ gate'.blanks = gate.blanks
      BY <1>0, <3>1, <3>2 DEF GateFields
    <3>4. QED
      BY <3>3 DEF next
  <2>4. OnDisk(gate.seen)' /\ OnDisk(gate.fix)'
    BY <1>0, <2>2, <2>3 DEF OnDisk
  <2>5. gate.blanks <= gate.pass + 1 /\ gate.pass < MaxPasses /\ gate.blanks <= MaxPasses
    BY <2>1 DEF GateInv
  <2>6. gate.blanks \in Nat /\ gate.pass \in Nat
    BY <1>0 DEF GateFields
  <2>7. QED
    BY <1>0, <1>1, <2>1, <2>3, <2>4, <2>5, <2>6 DEF seen
<1>9. CASE Swallow
  <2>1. /\ gate.at \in {"critique", "look", "rewrite"} /\ UNCHANGED disk
        /\ gate' = [gate EXCEPT !.at = "over", !.failed = TRUE]
    BY <1>9 DEF Swallow
  <2>2. /\ GateFields' /\ gate'.at = "over" /\ gate'.seen = gate.seen /\ gate'.fix = gate.fix
        /\ gate'.pass = gate.pass /\ gate'.blanks = gate.blanks /\ gate'.failed = TRUE
    BY <1>0, <2>1 DEF GateFields
  <2>3. OnDisk(gate.seen)' /\ OnDisk(gate.fix)'
    BY <1>0, <2>2 DEF OnDisk
  <2>4. gate.blanks <= gate.pass + 1 /\ gate.pass <= MaxPasses /\ gate.blanks <= MaxPasses
    BY <1>0, <2>1 DEF GateInv, GateFields
  <2>5. gate.blanks \in Nat /\ gate.pass \in Nat
    BY <1>0 DEF GateFields
  <2>6. QED
    BY <1>0, <1>1, <2>1, <2>2, <2>3, <2>4, <2>5
<1>10. CASE SwallowWrite
  <2>1. PICK p \in DOMAIN gate.fix :
          disk' = [q \in DOMAIN disk \cup {p} |-> IF q = p THEN [gate.fix[p] EXCEPT !.cut = TRUE] ELSE disk[q]]
    BY <1>10 DEF SwallowWrite, Written
  <2>2. gate.at = "rewrite" /\ gate' = [gate EXCEPT !.at = "over", !.failed = TRUE]
    BY <1>10 DEF SwallowWrite
  <2> DEFINE spoilt == [q \in {p} |-> [gate.fix[p] EXCEPT !.cut = TRUE]]
  <2>3. OnDisk(spoilt) /\ p \in DOMAIN spoilt
    <3> DEFINE c == [gate.fix[p] EXCEPT !.cut = TRUE]
    <3>0. LET f == gate.fix[p]
          IN  f \in [by : {f.by}, n : {f.n}, model : Model \cup {"offline"}, cut : BOOLEAN]
      BY <1>0, <2>1 DEF OnDisk
    <3>1. c \in [by : {c.by}, n : {c.n}, model : Model \cup {"offline"}, cut : BOOLEAN]
      BY <3>0
    <3>2. p \in Path
      BY <1>0, <2>1 DEF OnDisk
    <3> HIDE DEF c
    <3>3. spoilt = [q \in {p} |-> c]
      BY DEF c
    <3> HIDE DEF spoilt
    <3>4. QED
      BY <3>1, <3>2, <3>3 DEF OnDisk
  <2>4. disk' = [q \in DOMAIN disk \cup {p} |-> IF q = p THEN spoilt[p] ELSE disk[q]]
    BY <2>1
  <2> HIDE DEF spoilt
  <2>5. OnDisk(disk') /\ DOMAIN disk \subseteq DOMAIN disk'
    BY <2>3, <2>4, DiskWith
  <2>6. /\ GateFields' /\ gate'.at = "over" /\ gate'.seen = gate.seen /\ gate'.fix = gate.fix
        /\ gate'.pass = gate.pass /\ gate'.blanks = gate.blanks /\ gate'.failed = TRUE
    BY <1>0, <2>2 DEF GateFields
  <2>7. OnDisk(gate.seen)' /\ OnDisk(gate.fix)'
    BY <1>0, <2>6 DEF OnDisk
  <2>8. GateInv'
    BY <1>0, <2>2, <2>6, <2>7 DEF GateInv
  <2>9. CutInv'
    BY <2>6 DEF CutInv
  <2>10. OnDisk(disk)'
    BY <2>5 DEF OnDisk
  <2>11. QED
    BY <2>5, <2>8, <2>9, <2>10
<1>11. QED
  BY <1>2, <1>3, <1>4, <1>5, <1>6, <1>7, <1>8, <1>9, <1>10 DEF GateStep

\* Disk, gate and what was cut, through any step.
LEMMA GateStays ==
  PoolInv /\ RunInv /\ CacheTypes /\ kills \in Nat /\ OnDisk(disk) /\ GateInv /\ CutInv /\ [Next]_vars
    => GateInv' /\ CutInv' /\ OnDisk(disk)' /\ (DOMAIN disk \subseteq DOMAIN disk' \/ Kill)
<1> SUFFICES ASSUME PoolInv, RunInv, CacheTypes, kills \in Nat, OnDisk(disk), GateInv, CutInv, [Next]_vars
             PROVE  GateInv' /\ CutInv' /\ OnDisk(disk)' /\ (DOMAIN disk \subseteq DOMAIN disk' \/ Kill)
  OBVIOUS
<1>1. CASE Gate
  BY <1>1, GateMoves DEF Gate, poolVars
<1>2. CASE UNCHANGED vars
  <2>1. UNCHANGED <<disk, gate, main>>
    BY <1>2 DEF vars, poolVars
  <2>2. QED
    BY <2>1 DEF GateInv, GateFields, CutInv, OnDisk
<1>3. CASE ~ Gate /\ main # "done"
  <2>1. gate.at = "closed" /\ UNCHANGED gate
    <3>1. ASSUME NEW s \in Subtask, ExecutorStep(s), ~ ModelFails(s) PROVE UNCHANGED gate
      BY <3>1, ExecutorInside DEF Inside
    <3>2. QED
      BY <1>3, <3>1 DEF GateInv, Next, RunPool, Attempt, Judge, ModelFails, Raises, Kill, vars
  <2>2. /\ OnDisk(disk') /\ (DOMAIN disk \subseteq DOMAIN disk' \/ Kill)
        /\ \A p \in DOMAIN disk' : ~ disk'[p].cut \/ (p \in DOMAIN disk /\ disk'[p] = disk[p])
    <3>1. CASE Kill /\ disk' = <<>>
      <4> DEFINE none == <<>>
      <4>1. OnDisk(none) /\ DOMAIN none = {}
        BY DEF OnDisk
      <4>2. disk' = none
        BY <3>1
      <4> HIDE DEF none
      <4>3. QED
        BY <3>1, <4>1, <4>2
    <3>2. CASE UNCHANGED disk
      BY <3>2
    <3>3. ASSUME NEW s \in Subtask, Wrote(s)
          PROVE  /\ OnDisk(disk') /\ DOMAIN disk \subseteq DOMAIN disk'
                 /\ \A p \in DOMAIN disk' : ~ disk'[p].cut \/ (p \in DOMAIN disk /\ disk'[p] = disk[p])
      <4>1. PICK p \in run[s].left : disk' = With(disk, p, run[s].files[p]) /\ run[s].at = "write"
        BY <3>3 DEF Wrote
      <4>2. p \in DOMAIN run[s].files /\ IsTree(run[s].files, Content)
        BY <4>1 DEF RunInv, PlaceOK, RunOK
      <4>3. OnDisk(run[s].files) /\ ~ run[s].files[p].cut
        BY <4>2, ContentIsOnDisk DEF IsTree, Content
      <4>4. disk' = [q \in DOMAIN disk \cup {p} |-> IF q = p THEN run[s].files[p] ELSE disk[q]]
        BY <4>1 DEF With
      <4>5. OnDisk(disk')
        BY <4>2, <4>3, <4>4, DiskWith
      <4>6. QED
        BY <4>3, <4>4, <4>5
    <3>4. QED
      BY <1>3, <3>1, <3>2, <3>3, DiskSteps
  <2>3. OnDisk(disk)'
    BY <2>2 DEF OnDisk
  <2>4. GateInv'
    BY <2>1 DEF GateInv, GateFields, OnDisk
  <2>5. CutInv'
    BY <2>1, <2>2 DEF CutInv
  <2>6. QED
    BY <2>2, <2>3, <2>4, <2>5
<1>4. QED
  BY <1>1, <1>2, <1>3, OnlyGate
----------------------------------------------------------------------------
(* Files on disk, and the results.                                         *)

\* What a step does to a run.
LEMMA RunSteps ==
  ASSUME PoolInv, RunInv, CacheTypes, kills \in Nat, [Next]_vars, NEW s \in Subtask
  PROVE  \/ run'[s] = run[s] /\ ~ Kill
         \/ run'[s].at \in {"idle", "read"} /\ run'[s].key = None
         \/ PutStep(s) /\ ~ Kill
         \/ (Onward(s) \/ Loaded(s) \/ Wrote(s) \/ Handed(s)) /\ ~ Kill
<1>1. CASE Kill
  <2>1. run'[s] = Idle
    BY <1>1 DEF Kill
  <2>2. QED
    BY <2>1 DEF Idle
<1>2. ASSUME NEW t \in Subtask, Attempt(t) \/ Judge(t) \/ ModelFails(t)
      PROVE  run'[s] = run[s] \/ (run'[s].at \in {"idle", "read"} /\ run'[s].key = None)
  <2>1. /\ Idle.at = "idle" /\ Idle.key = None
        /\ [Idle EXCEPT !.at = "read"].at = "read" /\ [Idle EXCEPT !.at = "read"].key = None
    <3>1. /\ Idle.at = "idle" /\ [Idle EXCEPT !.at = "read"].at = "read"
          /\ PlaceOK(Idle) /\ PlaceOK([Idle EXCEPT !.at = "read"])
      BY FreshRun DEF Fine, RunInv
    <3>2. QED
      BY <3>1 DEF PlaceOK
  <2>2. PICK n \in {Idle, [Idle EXCEPT !.at = "read"]} : Goes(t, n)
    BY <1>2 DEF Attempt, Judge, ModelFails, Raises
  <2>3. n.at \in {"idle", "read"} /\ n.key = None
    BY <2>1
  <2>4. QED
    BY <2>2, <2>3 DEF Goes, RunInv
<1>3. ASSUME NEW t \in Subtask, ExecutorStep(t), ~ ModelFails(t), t # s PROVE run'[s] = run[s]
  BY <1>3, ExecutorRun DEF Moves, RunInv
<1>4. ASSUME ExecutorStep(s), ~ ModelFails(s), ~ PutStep(s)
      PROVE  Onward(s) \/ Loaded(s) \/ Wrote(s) \/ Handed(s)
  BY <1>4, NoPut
<1>5. ASSUME RunPool \/ Gate \/ UNCHANGED vars PROVE run'[s] = run[s]
  BY <1>5 DEF RunPool, Gate, vars
<1>6. QED
  BY <1>1, <1>2, <1>3, <1>4, <1>5 DEF Next

\* What a step does to a result.
LEMMA ResultSteps ==
  ASSUME PoolInv, RunInv, CacheTypes, kills \in Nat, DOMAIN result = Subtask, [Next]_vars, NEW s \in Subtask
  PROVE  \/ /\ result'[s] = result[s] /\ ~ Kill
            /\ thread[s] \in {"passed", "ok"} <=> thread'[s] \in {"passed", "ok"}
         \/ result'[s] = None /\ thread'[s] = "none" /\ Kill
         \/ /\ run[s].at = "judge" /\ thread'[s] = "passed" /\ ~ Kill
            /\ result'[s] = [files |-> run[s].files, model |-> run[s].model]
<1>0. Pool!Subtask = Subtask /\ thread \in [Subtask -> Pool!ThreadState]
  BY DEF Pool!Subtask, Subtask, PoolInv, Pool!TypeOK
<1>1. CASE Kill
  BY <1>1 DEF Kill
<1>2. CASE RunPool
  <2>1. result'[s] = result[s]
    BY <1>2 DEF RunPool
  <2>2. CASE Pool!Schedule
    <3>1. PICK B \in SUBSET (Subtask \ done) :
            thread' = [t \in Pool!Subtask |-> IF t \in B THEN "queued" ELSE thread[t]]
      BY <1>0, <2>2 DEF Pool!Schedule, Pool!Ready
    <3>2. s \in B => thread[s] = "none"
      BY <2>2, <3>1 DEF Pool!Schedule, PoolInv
    <3>3. QED
      BY <1>0, <1>1, <2>1, <3>1, <3>2
  <2>3. CASE UNCHANGED thread
    BY <1>1, <2>1, <2>3
  <2>4. CASE \E t \in Subtask : Pool!Start(t) \/ Pool!Escalate(t) \/ Pool!Complete(t)
    BY <1>0, <1>1, <2>1, <2>4 DEF Pool!Start, Pool!Escalate, Pool!Complete, Pool!Move
  <2>5. QED
    BY <1>0, <1>2, <2>2, <2>3, <2>4 DEF RunPool, Pool!MainStep, Pool!ReturnResults, Pool!CollectResult,
      Pool!CollectRaise, Pool!Unwind
<1>3. ASSUME NEW t \in Subtask, Attempt(t) \/ ModelFails(t)
      PROVE  /\ result'[s] = result[s]
             /\ thread[s] \in {"passed", "ok"} <=> thread'[s] \in {"passed", "ok"}
  BY <1>0, <1>3 DEF Attempt, ModelFails, Raises, Pool!Attempt, Pool!CallFails, Pool!Move
<1>4. ASSUME NEW t \in Subtask, Judge(t)
      PROVE  \/ /\ result'[s] = result[s]
                /\ thread[s] \in {"passed", "ok"} <=> thread'[s] \in {"passed", "ok"}
             \/ /\ run[s].at = "judge" /\ thread'[s] = "passed"
                /\ result'[s] = [files |-> run[s].files, model |-> run[s].model]
  <2>1. CASE run[t].ok /\ Pool!CallSucceeds(t)
             /\ result' = [result EXCEPT ![t] = [files |-> run[t].files, model |-> run[t].model]]
    BY <1>0, <1>4, <2>1 DEF Judge, At, Pool!CallSucceeds, Pool!Move
  <2>2. CASE Pool!CallFails(t) /\ UNCHANGED result
    BY <1>0, <2>2 DEF Pool!CallFails, Pool!Move
  <2>3. QED
    BY <1>4, <2>1, <2>2 DEF Judge
<1>5. ASSUME NEW t \in Subtask, ExecutorStep(t), ~ ModelFails(t) PROVE UNCHANGED <<result, thread>>
  BY <1>5, ExecutorInside DEF Inside, poolVars
<1>6. ASSUME Gate \/ UNCHANGED vars PROVE UNCHANGED <<result, thread>>
  BY <1>6 DEF Gate, vars, poolVars
<1>7. QED
  BY <1>1, <1>2, <1>3, <1>4, <1>5, <1>6 DEF Next

\* Every step keeps what was written on disk: nothing but the kill removes a
\* file, and that removes the results with it.
LEMMA DiskStep ==
  PoolInv /\ RunInv /\ CacheTypes /\ kills \in Nat /\ GateInv /\ CutInv /\ DiskInv /\ ResultInv /\ [Next]_vars
    => DiskInv'
<1> SUFFICES ASSUME PoolInv, RunInv, CacheTypes, kills \in Nat, GateInv, CutInv, DiskInv, ResultInv, [Next]_vars
             PROVE  DiskInv'
  OBVIOUS
<1>1. OnDisk(disk)' /\ (DOMAIN disk \subseteq DOMAIN disk' \/ Kill)
  BY GateStays DEF DiskInv
<1>2. ASSUME NEW s \in Subtask
      PROVE  /\ run'[s].at = "write" => DOMAIN run'[s].files \ run'[s].left \subseteq DOMAIN disk'
             /\ run'[s].at \in Through => DOMAIN run'[s].files \subseteq DOMAIN disk'
  <2>1. CASE run'[s] = run[s] /\ ~ Kill
    BY <1>1, <2>1 DEF DiskInv
  <2>2. CASE run'[s].at \in {"idle", "read"}
    BY <2>2 DEF Through, Putting
  <2>3. CASE PutStep(s) /\ ~ Kill
    BY <1>1, <2>3, PutMoves DEF DiskInv, Through, Started, Putting
  <2>4. CASE Onward(s)
    BY <2>4 DEF Onward, Through, Putting
  <2>5. CASE Loaded(s)
    BY <2>5 DEF Loaded, Through, Putting
  <2>6. CASE Handed(s) /\ ~ Kill
    BY <1>1, <2>6 DEF Handed, Same, DiskInv, Through, Putting
  <2>7. CASE Wrote(s) /\ ~ Kill
    <3>1. PICK p \in run[s].left :
            /\ disk' = With(disk, p, run[s].files[p]) /\ run'[s].left = run[s].left \ {p}
            /\ run'[s].at # "write" => run[s].left = {p}
      BY <2>7 DEF Wrote
    <3>2. DOMAIN disk' = DOMAIN disk \cup {p}
      BY <3>1 DEF With
    <3>3. DOMAIN run[s].files \ run[s].left \subseteq DOMAIN disk /\ run'[s].files = run[s].files
      BY <2>7 DEF Wrote, Same, DiskInv
    <3>4. DOMAIN run'[s].files \ run'[s].left \subseteq DOMAIN disk'
      BY <3>1, <3>2, <3>3
    <3>5. run'[s].at \in Through => run'[s].left = {}
      BY <3>1 DEF Through, Putting
    <3>6. QED
      BY <3>4, <3>5
  <2>8. QED
    BY <2>1, <2>2, <2>3, <2>4, <2>5, <2>6, <2>7, RunSteps
<1>3. ASSUME NEW s \in Subtask, result'[s] # None PROVE DOMAIN result'[s].files \subseteq DOMAIN disk'
  <2>1. CASE result'[s] = result[s] /\ ~ Kill
    BY <1>1, <1>3, <2>1 DEF DiskInv
  <2>2. CASE run[s].at = "judge" /\ ~ Kill /\ result'[s] = [files |-> run[s].files, model |-> run[s].model]
    BY <1>1, <2>2 DEF DiskInv, Through
  <2>3. QED
    BY <1>3, <2>1, <2>2, ResultSteps DEF ResultInv
<1>4. QED
  BY <1>1, <1>2, <1>3 DEF DiskInv

\* Every step keeps the results and the contexts read from them: a dependency
\* is done before the step above it is submitted, so its result is there.
LEMMA ResultStep ==
  PoolInv /\ RunInv /\ CacheTypes /\ kills \in Nat /\ DiskInv /\ ResultInv /\ [Next]_vars => ResultInv'
<1> SUFFICES ASSUME PoolInv, RunInv, CacheTypes, kills \in Nat, DiskInv, ResultInv, [Next]_vars
             PROVE  ResultInv'
  OBVIOUS
<1>0. Pool!Subtask = Subtask
  BY DEF Pool!Subtask, Subtask
<1>1. DOMAIN result' = Subtask
  <2>1. ASSUME NEW t \in Subtask, ExecutorStep(t), ~ ModelFails(t) PROVE UNCHANGED result
    BY <2>1, ExecutorInside DEF Inside
  <2>2. QED
    BY <2>1 DEF ResultInv, Next, RunPool, Attempt, Judge, ModelFails, Raises, Gate, Kill, vars
<1>2. ASSUME NEW s \in Subtask
      PROVE  /\ result'[s] # None =>
                  /\ result'[s] \in [files : {result'[s].files}, model : Model \cup {"offline"}]
                  /\ IsTree(result'[s].files, Content)
             /\ result'[s] # None <=> thread'[s] \in {"passed", "ok"}
  <2>1. CASE result'[s] = result[s] /\ (thread[s] \in {"passed", "ok"} <=> thread'[s] \in {"passed", "ok"})
    BY <2>1 DEF ResultInv
  <2>2. CASE result'[s] = None /\ thread'[s] = "none"
    BY <2>2
  <2>3. CASE /\ run[s].at = "judge" /\ thread'[s] = "passed"
             /\ result'[s] = [files |-> run[s].files, model |-> run[s].model]
    <3>1. IsTree(run[s].files, Content) /\ run[s].model \in Model \cup {"offline"}
      BY <2>3 DEF RunInv, RunOK, PlaceOK, Through
    <3>2. result'[s] # None
      BY <2>3, <3>1, Resulting
    <3>3. QED
      BY <2>3, <3>1, <3>2
  <2>4. QED
    BY <2>1, <2>2, <2>3, ResultSteps DEF ResultInv
<1>3. ASSUME NEW s \in Subtask, run'[s].key # None, NEW d \in deps'[s]
      PROVE  DOMAIN result'[d].files \subseteq DOMAIN run'[s].key.context
  <2>1. ~ Kill
    <3>1. Kill => run'[s].key = None
      BY DEF Kill, Idle
    <3>2. QED
      BY <1>3, <3>1
  <2>2. deps' = deps
    <3>1. ASSUME NEW t \in Subtask, ExecutorStep(t), ~ ModelFails(t) PROVE UNCHANGED deps
      BY <3>1, ExecutorInside DEF Inside, poolVars
    <3>2. CASE RunPool
      BY <3>2 DEF RunPool, Pool!MainStep, Pool!Schedule, Pool!ReturnResults, Pool!CollectResult, Pool!CollectRaise,
        Pool!Unwind, Pool!Start, Pool!Escalate, Pool!Complete, Pool!Move
    <3>3. ASSUME NEW t \in Subtask, Attempt(t) \/ Judge(t) \/ ModelFails(t) PROVE UNCHANGED deps
      BY <3>3 DEF Attempt, Judge, ModelFails, Raises, Pool!Attempt, Pool!CallSucceeds, Pool!CallFails, Pool!Move
    <3>4. QED
      BY <2>1, <3>1, <3>2, <3>3 DEF Next, Gate, vars, poolVars
  <2>3. run[s].at # "idle" => d \in Subtask /\ thread[d] = "ok" /\ result[d] # None
    <3>1. run[s].at # "idle" => s \in done \cup batch
      BY DEF RunInv, PoolInv
    <3>2. run[s].at # "idle" => d \in done
      BY <1>3, <2>2, <3>1 DEF PoolInv
    <3>3. done \subseteq Subtask
      BY <1>0 DEF PoolInv, Pool!TypeOK
    <3>4. QED
      BY <3>2, <3>3 DEF PoolInv, ResultInv
  <2>4. run[s].at # "idle" => result'[d] = result[d]
    <3>1. ASSUME run[s].at # "idle" PROVE run[d].at # "judge"
      BY <2>3, <3>1 DEF RunInv
    <3>2. QED
      BY <2>1, <2>3, <3>1, ResultSteps DEF ResultInv
  <2>5. CASE run'[s].key = run[s].key
    <3>1. run[s].at # "idle"
      BY <1>3, <2>5 DEF RunInv, PlaceOK
    <3>2. QED
      BY <1>3, <2>2, <2>4, <2>5, <3>1 DEF ResultInv
  <2>6. CASE ReadContext(s) /\ run'[s].key = CacheKey(s)
    <3>1. run[s].at # "idle"
      BY <2>6 DEF ReadContext, At
    <3>2. run'[s].key.context = disk
      BY <2>6 DEF CacheKey, Context
    <3>3. QED
      BY <2>3, <2>4, <3>1, <3>2 DEF DiskInv
  <2>7. run'[s].key = run[s].key \/ (ReadContext(s) /\ run'[s].key = CacheKey(s))
    BY <1>3, RunSteps, PutMoves DEF Onward, Loaded, Wrote, Handed
  <2>8. QED
    BY <2>5, <2>6, <2>7
<1>4. QED
  BY <1>1, <1>2, <1>3 DEF ResultInv
----------------------------------------------------------------------------
(* The invariant.                                                          *)

\* The invariant, without what is only known of the cache.
Inv ==
  /\ PoolInv /\ RunInv /\ CacheTypes /\ kills \in Nat
  /\ GateInv /\ CutInv /\ DiskInv /\ ResultInv

\* It holds when the job begins.
LEMMA InvInit == Init => Inv
<1> SUFFICES ASSUME Init PROVE Inv
  OBVIOUS
<1>0. Pool!Subtask = Subtask /\ MaxAttempts \in Nat \ {0}
  BY WorkshopAssumption DEF Pool!Subtask, Subtask
<1>1. PoolInv
  <2>1. Pool!TypeOK
    BY <1>0 DEF Init, Pool!Init, Pool!TypeOK, Pool!MainState, Pool!ThreadState
  <2>2. QED
    BY <1>0, <2>1 DEF Init, Pool!Init, PoolInv
<1>2. RunInv
  <2>1. run = [s \in Subtask |-> Idle] /\ setup \in Setups /\ \A s \in Subtask : thread[s] = "none"
    BY <1>0 DEF Init, Pool!Init
  <2>2. \A s \in Subtask : Fine(s, Idle) /\ Idle.at = "idle"
    BY <2>1, FreshRun
  <2>3. QED
    BY <2>1, <2>2 DEF RunInv, Fine
<1>3. CacheTypes
  <2> DEFINE none == <<>>
  <2>1. DirsOK(none) /\ DOMAIN none = {}
    BY DEF DirsOK
  <2>2. entry = none /\ temp = none
    BY DEF Init, CacheInit, NoDirectories
  <2> HIDE DEF none
  <2>3. puts = {} /\ \A s \in Subtask : run[s].at = "idle"
    BY DEF Init, Idle
  <2>4. QED
    BY <2>1, <2>2, <2>3 DEF CacheTypes, Started
<1>4. kills \in Nat
  BY DEF Init
<1>5. OnDisk(<<>>)
  BY DEF OnDisk
<1>6. GateInv /\ CutInv
  <2> DEFINE none == <<>>
  <2>1. OnDisk(none) /\ DOMAIN none = {}
    BY <1>5
  <2>2. disk = none
    BY DEF Init
  <2>3. gate = [at |-> "closed", pass |-> 0, seen |-> none, passed |-> FALSE, findings |-> FALSE,
                visual |-> FALSE, fix |-> none, judged |-> none, blanks |-> 0, failed |-> FALSE]
    BY DEF Init, GateInit, Closed
  <2> HIDE DEF none
  <2>4. GateFields
    BY <2>3 DEF GateFields
  <2>5. GateInv
    BY <2>1, <2>3, <2>4, GateAssumption DEF GateInv
  <2>6. QED
    BY <2>1, <2>2, <2>3, <2>5 DEF CutInv
<1>7. DiskInv
  <2>1. disk = <<>> /\ \A s \in Subtask : run[s].at = "idle" /\ result[s] = None
    BY DEF Init, Idle
  <2>2. QED
    BY <1>5, <2>1 DEF DiskInv, Through, Putting
<1>8. ResultInv
  <2>1. result = [s \in Subtask |-> None] /\ \A s \in Subtask : run[s].key = None /\ thread[s] = "none"
    BY <1>0 DEF Init, Idle, Pool!Init
  <2>2. QED
    BY <2>1 DEF ResultInv
<1>9. QED
  BY <1>1, <1>2, <1>3, <1>4, <1>6, <1>7, <1>8 DEF Inv

\* Every step of the workshop keeps it.
LEMMA InvNext == Inv /\ [Next]_vars => Inv'
<1> SUFFICES ASSUME Inv, [Next]_vars PROVE Inv'
  OBVIOUS
<1>1. kills' \in Nat
  <2>1. ASSUME NEW s \in Subtask, ExecutorStep(s), ~ ModelFails(s) PROVE UNCHANGED kills
    BY <2>1, ExecutorInside DEF Inside
  <2>2. kills' \in {kills, kills + 1}
    BY <2>1 DEF Next, RunPool, Attempt, Judge, ModelFails, Raises, Gate, Kill, vars
  <2>3. QED
    BY <2>2 DEF Inv
<1>2. PoolInv' /\ RunInv' /\ CacheTypes'
  BY PoolStep, RunStep, CacheTypesStep DEF Inv
<1>3. GateInv' /\ CutInv'
  BY GateStays DEF Inv, DiskInv
<1>4. DiskInv' /\ ResultInv'
  BY DiskStep, ResultStep DEF Inv
<1>5. QED
  BY <1>1, <1>2, <1>3, <1>4 DEF Inv

\* So it always holds.
LEMMA InvHolds == Spec => []Inv
<1>1. Init => Inv
  BY InvInit
<1>2. Inv /\ [Next]_vars => Inv'
  BY InvNext
<1>3. QED
  BY <1>1, <1>2, PTL DEF Spec

\* Type correctness of the workshop: pool, gate and runs agree on who is in a
\* call and who has a result, an attempt posts at most twice the tokens of an
\* answer, and the cache holds nothing that was not put (executor.py:573-636).
THEOREM TypesAlwaysHold == Spec => []TypeOK
<1>1. Inv => TypeOK
  <2> SUFFICES ASSUME Inv PROVE TypeOK
    OBVIOUS
  <2>1. GateTypeOK
    BY GateAssumption DEF Inv, GateInv, GateFields, DiskInv, OnDisk, GateTypeOK
  <2>2. \A s \in Subtask : run[s].emitted \in 0..(2 * setup.tokens) /\ run[s].left \subseteq Path
    BY WorkshopAssumption DEF Inv, RunInv, RunOK, TokensOK
  <2>3. QED
    BY <2>1, <2>2 DEF Inv, PoolInv, RunInv, ResultInv, CacheTypes, TypeOK
<1>2. QED
  BY <1>1, InvHolds, PTL

\* What is posted for an attempt covers what its result counts and no more than
\* the models asked in it produced, across a fallback in mid-stream and an
\* answer that breaks off without a count (executor.py:644-689), for any number of tokens and sub-tasks.
THEOREM TokensAlwaysAccounted == Spec => []TokensAccounted
<1>1. Inv => TokensAccounted
  BY DEF Inv, RunInv, RunOK, TokensOK, TokensAccounted
<1>2. QED
  BY <1>1, InvHolds, PTL

\* Whoever asks a model or the cache has in its context every file of what it
\* depends on (executor.py:583-600), whatever the pool runs at the same time.
THEOREM AlwaysBuildsOnDependencies == Spec => []BuildsOnDependencies
<1>1. Inv => BuildsOnDependencies
  BY DEF Inv, ResultInv, BuildsOnDependencies
<1>2. QED
  BY <1>1, InvHolds, PTL

\* What the gate delivers is what its last critique judged, unless an exception
\* ended it (orchestrator.py:374-485), for any number of passes.
THEOREM AlwaysJudgedAsDelivered == Spec => []JudgedAsDelivered
<1>1. Inv => JudgedAsDelivered
  BY DEF Inv, GateInv, JudgedAsDelivered
<1>2. QED
  BY <1>1, InvHolds, PTL

\* A delivered file lost its tail only when it is longer than produced_files
\* reads and a refine call brought no usable reply (quality.py:191-224), or
\* when writing it failed (orchestrator.py:463-466).
THEOREM CutsAlwaysExplained == Spec => []CutOnlyWithoutReply
<1>1. Inv => CutOnlyWithoutReply
  BY DEF Inv, CutInv, CutOnlyWithoutReply
<1>2. QED
  BY <1>1, InvHolds, PTL
----------------------------------------------------------------------------
(* What the cache replays.                                                 *)

\* The history only grows.
LEMMA Grows == ASSUME Inv, [Next]_vars PROVE torn \subseteq torn' /\ puts \subseteq puts'
<1>0. PoolInv /\ RunInv /\ CacheTypes /\ kills \in Nat
  BY DEF Inv
<1>1. ASSUME NEW s \in Subtask, PutStep(s) PROVE torn \subseteq torn' /\ puts \subseteq puts'
  <2>1. CASE PutClear(s)
    BY <2>1 DEF PutClear, Touches
  <2>2. CASE UNCHANGED <<puts, torn>>
    BY <2>2
  <2>3. QED
    BY <1>0, <1>1, <2>1, <2>2, PutMoves
<1>2. ASSUME NEW s \in Subtask, ExecutorStep(s), ~ ModelFails(s), ~ PutStep(s)
      PROVE  torn \subseteq torn' /\ puts \subseteq puts'
  BY <1>0, <1>2, NoPut
<1>3. ASSUME NEW s \in Subtask, Attempt(s) \/ Judge(s) \/ ModelFails(s) PROVE UNCHANGED <<puts, torn>>
  BY <1>3 DEF Attempt, Judge, ModelFails, Raises, NoCache, history
<1>4. ASSUME RunPool \/ Gate \/ Kill \/ UNCHANGED vars PROVE UNCHANGED <<puts, torn>>
  BY <1>4 DEF RunPool, Gate, Kill, NoCache, vars, history
<1>5. QED
  BY <1>1, <1>2, <1>3, <1>4 DEF Next

\* A get in hand was found, or went on.
LEMMA FetchPlace ==
  ASSUME Inv, [Next]_vars, NEW s \in Subtask, run'[s].at = "fetch"
  PROVE  run'[s] = run[s] \/ ((Lookup(s) \/ Fetch(s)) /\ run'[s].key = run[s].key)
<1>0. PoolInv /\ RunInv /\ CacheTypes /\ kills \in Nat
  BY DEF Inv
<1>1. ASSUME Lookup(s) \/ Fetch(s) PROVE ~ ReadContext(s)
  BY <1>1 DEF Lookup, Fetch, ReadContext, At
<1>2. ASSUME PutStep(s) PROVE FALSE
  BY <1>0, <1>2, PutMoves DEF Started
<1>3. QED
  BY <1>0, <1>1, <1>2, RunSteps DEF Onward, Loaded, Wrote, Handed

\* Two runs come to the same key only by finding it torn.
LEMMA ApartStep == ASSUME Inv, CacheInv, [Next]_vars PROVE Apart'
<1>0. PoolInv /\ RunInv /\ CacheTypes /\ kills \in Nat /\ torn \subseteq torn'
  BY Grows DEF Inv
<1> SUFFICES ASSUME NEW s \in Subtask, NEW t \in Subtask, s # t, run'[s].at \in Started,
                    run'[t].at \in Started \cup {"fetch"}, run'[s].key = run'[t].key
             PROVE  run'[s].key \in torn'
  BY DEF Apart, Key
<1>1. ASSUME NEW x \in Subtask, run'[x].at \in Started
      PROVE  run'[x] = run[x] \/ (PutStep(x) /\ (PutClear(x) \/ run[x].at \in Started))
  BY <1>0, <1>1, RunSteps, PutMoves DEF Onward, Loaded, Wrote, Handed, Started
<1>2. ASSUME NEW x \in Subtask, PutClear(x), NEW y \in Subtask, x # y, run[y].at \in Putting \cup {"fetch"},
             run[x].key = run[y].key
      PROVE  run[x].key \in torn'
  BY <1>2 DEF PutClear, Touches, Others
<1>3. CASE PutStep(s)
  <2>1. run'[t] = run[t] /\ run'[s].key = run[s].key
    BY <1>0, <1>3, PutMoves
  <2>2. CASE PutClear(s)
    BY <1>2, <2>1, <2>2 DEF Started, Putting
  <2>3. CASE run[s].at \in Started
    BY <1>0, <2>1, <2>3 DEF CacheInv, Apart, Key
  <2>4. QED
    BY <1>0, <1>3, <2>2, <2>3, PutMoves DEF Started
<1>4. CASE run'[s] = run[s] /\ PutStep(t)
  <2>1. run'[t].key = run[t].key
    BY <1>0, <1>4, PutMoves
  <2>2. CASE PutClear(t)
    BY <1>2, <1>4, <2>1, <2>2 DEF Started, Putting
  <2>3. CASE run[t].at \in Started
    BY <1>0, <1>4, <2>1, <2>3 DEF CacheInv, Apart, Key
  <2>4. QED
    BY <1>0, <1>4, <2>2, <2>3, PutMoves DEF Started
<1>5. CASE run'[s] = run[s] /\ run'[t] = run[t]
  BY <1>0, <1>5 DEF CacheInv, Apart, Key
<1>6. CASE run'[s] = run[s] /\ Lookup(t) /\ run'[t].key = run[t].key
  BY <1>6 DEF Lookup, Touches, Others, Started, Putting
<1>7. CASE run'[s] = run[s] /\ Fetch(t) /\ run'[t].key = run[t].key
  <2>1. run[t].at = "fetch"
    BY <1>7 DEF Fetch, At
  <2>2. QED
    BY <1>0, <1>7, <2>1 DEF CacheInv, Apart, Key
<1>8. QED
  BY <1>1, <1>3, <1>4, <1>5, <1>6, <1>7, FetchPlace

\* A put concerns the directories of its own key.
LEMMA OtherKeys ==
  ASSUME Inv, NEW s \in Subtask, PutStep(s), NEW k, k # run[s].key
  PROVE  /\ k \in DOMAIN entry' <=> k \in DOMAIN entry
         /\ k \in DOMAIN entry => entry'[k] = entry[k]
         /\ k \in DOMAIN temp' <=> k \in DOMAIN temp
         /\ k \in DOMAIN temp => temp'[k] = temp[k]
<1> DEFINE own == run[s].key
<1>1. CASE PutClear(s) \/ PutArtifact(s)
  <2>1. UNCHANGED entry /\ \E dir : temp' = With(temp, own, dir)
    BY <1>1 DEF PutClear, PutArtifact, ClearTemp, StoreArtifact
  <2>2. QED
    BY <2>1 DEF With
<1>2. CASE PutMeta(s)
  <2>1. UNCHANGED entry /\ \E dir : temp' = [temp EXCEPT ![own] = dir]
    BY <1>2 DEF PutMeta, StoreMeta
  <2>2. QED
    BY <2>1
<1>3. CASE PutDrop(s)
  <2>1. UNCHANGED temp
    BY <1>3 DEF PutDrop, Erode, DropEntry
  <2>2. \/ \E dir : entry' = [entry EXCEPT ![own] = dir]
        \/ entry' = Without(entry, own)
        \/ UNCHANGED entry
    BY <1>3 DEF PutDrop, Erode, DropEntry
  <2>3. QED
    BY <2>1, <2>2 DEF Without, Restrict
<1>4. CASE PutRename(s)
  BY <1>4 DEF PutRename, MoveIn, With, Without, Restrict
<1>5. CASE PutFails(s)
  BY <1>5 DEF PutFails, Abandon, Without, Restrict
<1>6. QED
  BY <1>1, <1>2, <1>3, <1>4, <1>5 DEF PutStep

\* Every step of a put leaves in the entry a part of what one put was given:
\* rename replaces it whole, drop removes it.
LEMMA EntryStep == ASSUME Inv, CacheInv, [Next]_vars PROVE EntryInv'
<1>0. PoolInv /\ RunInv /\ CacheTypes /\ kills \in Nat /\ torn \subseteq torn' /\ puts \subseteq puts'
  BY Grows DEF Inv
<1> SUFFICES ASSUME NEW k \in DOMAIN entry', k \notin torn'
             PROVE  \E put \in puts' : put.key = k /\ LeftOf(entry'[k], put)
  BY DEF EntryInv, LeftOf
<1>1. ASSUME k \in DOMAIN entry, entry'[k] = entry[k] PROVE \E put \in puts' : put.key = k /\ LeftOf(entry'[k], put)
  BY <1>0, <1>1 DEF CacheInv, EntryInv
<1>2. CASE \A s \in Subtask : ~ PutStep(s)
  BY <1>0, <1>1, <1>2, Quiet
<1>3. ASSUME NEW s \in Subtask, PutStep(s)
      PROVE  \E put \in puts' : put.key = k /\ LeftOf(entry'[k], put)
  <2>1. CASE k # run[s].key
    BY <1>1, <1>3, <2>1, OtherKeys
  <2>2. CASE PutDrop(s) /\ k = run[s].key
    <3>1. CASE Erode(k)
      <4>1. PICK kept \in SUBSET DOMAIN entry[k].files, meta \in {entry[k].meta, None} :
              entry' = [entry EXCEPT ![k] = [files |-> Restrict(@.files, kept), meta |-> meta]]
        BY <3>1 DEF Erode
      <4>2. k \in DOMAIN entry
        BY <3>1 DEF Erode
      <4>3. PICK put \in puts : put.key = k /\ LeftOf(entry[k], put)
        BY <1>0, <4>2 DEF CacheInv, EntryInv
      <4>4. /\ DOMAIN entry'[k].files = kept /\ \A p \in kept : entry'[k].files[p] = entry[k].files[p]
            /\ entry'[k].meta = meta
        BY <4>1, <4>2 DEF Restrict
      <4>5. LeftOf(entry'[k], put)
        BY <4>3, <4>4 DEF LeftOf
      <4>6. QED
        BY <1>0, <4>3, <4>5
    <3>2. ~ DropEntry(k)
      BY DEF DropEntry, Without, Restrict
    <3>3. QED
      BY <1>1, <2>2, <3>1, <3>2 DEF PutDrop
  <2>3. CASE PutRename(s) /\ k = run[s].key
    <3>1. k \in DOMAIN temp /\ entry'[k] = temp[k]
      BY <2>3 DEF PutRename, MoveIn, With
    <3>2. PutOf(s) \in puts /\ LeftOf(temp[k], PutOf(s))
      BY <1>0, <2>3, <3>1 DEF CacheInv, TempInv, PutRename, At, Started, Key
    <3>3. PutOf(s).key = k
      BY <2>3 DEF PutOf
    <3>4. QED
      BY <1>0, <3>1, <3>2, <3>3
  <2>4. CASE UNCHANGED entry
    BY <1>1, <2>4
  <2>5. QED
    BY <1>3, <2>1, <2>2, <2>3, <2>4 DEF PutStep, PutClear, PutArtifact, PutMeta, PutFails, ClearTemp, StoreArtifact,
      StoreMeta, Abandon
<1>4. QED
  BY <1>2, <1>3

\* The temporary directory belongs to the put under way: it was cleared when
\* that began, whatever an earlier one had left.
LEMMA TempStep == ASSUME Inv, CacheInv, [Next]_vars PROVE TempInv'
<1>0. PoolInv /\ RunInv /\ CacheTypes /\ kills \in Nat /\ torn \subseteq torn' /\ puts \subseteq puts'
  BY Grows DEF Inv
<1> SUFFICES ASSUME NEW s \in Subtask, run'[s].at \in Started, run'[s].key \notin torn'
             PROVE  /\ PutOf(s)' \in puts'
                    /\ run'[s].key \in DOMAIN temp' => LeftOf(temp'[run'[s].key], PutOf(s)')
  BY DEF TempInv, Key, LeftOf
<1> DEFINE k == run[s].key
           put == PutOf(s)
<1>1. run'[s].key = k /\ PutOf(s)' = put
  <2>1. run'[s] = run[s] \/ PutStep(s)
    BY <1>0, RunSteps DEF Onward, Loaded, Wrote, Handed, Started
  <2>2. QED
    BY <1>0, <2>1, PutMoves DEF PutOf
<1>2. run[s].at \in Started => put \in puts /\ (k \in DOMAIN temp => LeftOf(temp[k], put))
  BY <1>0, <1>1 DEF CacheInv, TempInv, Key
<1>3. /\ put.files = run[s].files /\ put.model = run[s].model /\ put.key = k
  BY DEF PutOf
<1>4. CASE \A t \in Subtask : ~ PutStep(t)
  BY <1>0, <1>1, <1>2, <1>4, Quiet
<1>5. ASSUME NEW t \in Subtask, PutStep(t), t # s
      PROVE  put \in puts' /\ (k \in DOMAIN temp' => LeftOf(temp'[k], put))
  <2>1. run'[s] = run[s] /\ run[s].at \in Started
    BY <1>0, <1>5, PutMoves
  <2>2. CASE run[t].key # k
    <3>1. (k \in DOMAIN temp' <=> k \in DOMAIN temp) /\ (k \in DOMAIN temp => temp'[k] = temp[k])
      BY <1>5, <2>2, OtherKeys
    <3>2. QED
      BY <1>0, <1>2, <2>1, <3>1
  <2>3. CASE PutFails(t) /\ run[t].key = k
    <3>1. k \notin DOMAIN temp'
      BY <2>3 DEF PutFails, Abandon, Without, Restrict
    <3>2. QED
      BY <1>0, <1>2, <2>1, <3>1
  <2>4. CASE PutClear(t) /\ run[t].key = k
    <3>1. s \in Others(t, Putting \cup {"fetch"})
      BY <1>5, <2>1, <2>4 DEF Others, Started, Putting
    <3>2. k \in torn'
      BY <2>4, <3>1 DEF PutClear, Touches
    <3>3. QED
      BY <1>1, <3>2
  <2>5. CASE run[t].at \in Started /\ run[t].key = k
    BY <1>0, <1>1, <1>5, <2>1, <2>5 DEF CacheInv, Apart, Key
  <2>6. QED
    BY <1>5, <2>2, <2>3, <2>4, <2>5 DEF PutStep, PutArtifact, PutMeta, PutDrop, PutRename, At, Started
<1>6. CASE PutStep(s)
  <2>1. CASE PutClear(s)
    <3>1. put \in puts'
      BY <2>1 DEF PutClear, PutOf
    <3>2. temp'[k] = EmptyDirectory
      BY <2>1 DEF PutClear, ClearTemp, With
    <3>3. LeftOf(EmptyDirectory, put)
      BY DEF LeftOf, EmptyDirectory
    <3>4. QED
      BY <1>1, <3>1, <3>2, <3>3
  <2>2. CASE PutArtifact(s)
    <3>1. PICK p \in run[s].left : StoreArtifact(k, p, run[s].files[p]) /\ run[s].at = "store"
      BY <2>2 DEF PutArtifact, At
    <3>2. p \in DOMAIN put.files /\ put \in puts /\ run[s].at \in Started
      BY <1>0, <1>2, <1>3, <3>1 DEF RunInv, PlaceOK, Started
    <3> DEFINE d == Directory(temp, k)
    <3>3. LeftOf(d, put)
      BY <1>2, <3>2 DEF Directory, LeftOf, EmptyDirectory
    <3>4. DirOK(d)
      BY <1>0, DirectoryIsOK DEF CacheTypes
    <3> HIDE DEF d
    <3>5. temp'[k] = [d EXCEPT !.files = With(@, p, run[s].files[p])]
      BY <3>1 DEF StoreArtifact, With, d
    <3>6. temp'[k].files = With(d.files, p, run[s].files[p]) /\ temp'[k].meta = d.meta
      BY <3>4, <3>5 DEF DirOK
    <3>7. LeftOf(temp'[k], put)
      BY <1>3, <3>2, <3>3, <3>6 DEF LeftOf, With
    <3>8. QED
      BY <1>0, <1>1, <3>2, <3>7
  <2>3. CASE PutMeta(s)
    <3>1. run[s].at \in Started /\ k \in DOMAIN temp
          /\ temp' = [temp EXCEPT ![k].meta = Meta(run[s].files, run[s].model)]
      BY <2>3 DEF PutMeta, StoreMeta, At, Started
    <3>2. temp[k] = [files |-> temp[k].files, meta |-> temp[k].meta]
      BY <1>0, <3>1 DEF CacheTypes, DirsOK, DirOK
    <3>3. temp'[k].files = temp[k].files /\ temp'[k].meta = Meta(put.files, put.model)
      BY <1>3, <3>1, <3>2
    <3>4. QED
      BY <1>0, <1>1, <1>2, <3>1, <3>3 DEF LeftOf
  <2>4. CASE PutDrop(s)
    BY <1>0, <1>1, <1>2, <2>4 DEF PutDrop, Erode, DropEntry, At, Started
  <2>5. ~ PutRename(s) /\ ~ PutFails(s)
    <3>1. /\ [run[s] EXCEPT !.at = "report"].at = "report"
          /\ [run[s] EXCEPT !.at = "report", !.left = {}].at = "report"
      BY <1>0 DEF RunInv, RunOK
    <3>2. QED
      BY <1>0, <3>1 DEF PutRename, PutFails, Goes, RunInv, Started
  <2>6. QED
    BY <1>6, <2>1, <2>2, <2>3, <2>4, <2>5 DEF PutStep
<1>7. QED
  BY <1>1, <1>4, <1>5, <1>6

\* What a get has read is still what the entry holds: who could change it
\* meanwhile would be a put at the same key.
LEMMA FetchStep == ASSUME Inv, CacheInv, [Next]_vars PROVE FetchInv'
<1>0. PoolInv /\ RunInv /\ CacheTypes /\ kills \in Nat /\ torn \subseteq torn'
  BY Grows DEF Inv
<1> SUFFICES ASSUME NEW s \in Subtask, run'[s].at = "fetch", run'[s].key \notin torn'
             PROVE  Fetched(s)'
  BY DEF FetchInv, Key
<1> DEFINE r == run[s]
           k == r.key
<1>1. run'[s] = run[s] \/ ((Lookup(s) \/ Fetch(s)) /\ run'[s].key = k)
  BY FetchPlace
<1>2. k \notin torn /\ run'[s].key = k
  BY <1>0, <1>1
<1>3. r.at = "fetch" => Fetched(s)
  BY <1>2 DEF CacheInv, FetchInv, Key
<1>4. RunOK(r) /\ PlaceOK(r) /\ \A n : Goes(s, n) => run'[s] = n
  BY <1>0 DEF RunInv, Goes
<1>5. CASE Lookup(s)
  <2> DEFINE meta == MetaOf(k)
             n == [r EXCEPT !.at = "fetch", !.left = meta.names, !.model = meta.model]
  <2>1. r.at = "lookup" /\ UNCHANGED entry
        /\ Goes(s, IF meta = None THEN [r EXCEPT !.at = "ask"] ELSE n)
    BY <1>5 DEF Lookup, At
  <2>2. [r EXCEPT !.at = "ask"].at = "ask"
    BY <1>4 DEF RunOK
  <2>3. meta # None
    BY <1>4, <2>1, <2>2
  <2>4. run'[s] = n
    BY <1>4, <2>1, <2>3
  <2>5. k \in DOMAIN entry /\ meta = entry[k].meta
    BY <2>3 DEF MetaOf, Directory, EmptyDirectory
  <2> HIDE DEF meta
  <2>6. n.left = meta.names /\ n.model = meta.model /\ n.files = r.files /\ DOMAIN r.files = {}
    BY <1>4, <2>1 DEF RunOK, PlaceOK
  <2> HIDE DEF n
  <2>7. /\ entry'[k].meta = meta /\ run'[s].left = meta.names /\ run'[s].model = meta.model
        /\ DOMAIN run'[s].files = {} /\ k \in DOMAIN entry'
    BY <2>1, <2>4, <2>5, <2>6
  <2>8. QED
    BY <1>2, <2>3, <2>7 DEF Fetched, Key
<1>6. CASE Fetch(s)
  <2>1. r.at = "fetch" /\ UNCHANGED entry /\ Fetched(s)
    BY <1>3, <1>6 DEF Fetch, At, NoCache
  <2>2. PICK p \in r.left :
          Goes(s, IF p \in DOMAIN ArtifactsOf(k)
                  THEN [r EXCEPT !.left = @ \ {p}, !.files = With(@, p, ArtifactsOf(k)[p])]
                  ELSE [r EXCEPT !.at = "ask", !.left = {}, !.files = <<>>, !.model = None])
    BY <1>6 DEF Fetch
  <2>3. [r EXCEPT !.at = "ask", !.left = {}, !.files = <<>>, !.model = None].at = "ask"
    BY <1>4 DEF RunOK
  <2>4. ArtifactsOf(k) = entry[k].files
    BY <2>1 DEF ArtifactsOf, Directory, Fetched, Key
  <2> DEFINE f == With(r.files, p, entry[k].files[p])
             n == [r EXCEPT !.left = r.left \ {p}, !.files = f]
  <2>5. p \in DOMAIN entry[k].files /\ run'[s] = n
    <3>1. p \in DOMAIN ArtifactsOf(k)
      BY <1>4, <2>2, <2>3
    <3>2. [r EXCEPT !.left = @ \ {p}, !.files = With(@, p, ArtifactsOf(k)[p])] = n
      BY <1>4, <2>4 DEF RunOK
    <3>3. QED
      BY <1>4, <2>2, <2>4, <3>1, <3>2
  <2>6. DOMAIN f = DOMAIN r.files \cup {p} /\ f[p] = entry[k].files[p]
        /\ \A q \in DOMAIN r.files : f[q] = IF q = p THEN entry[k].files[p] ELSE r.files[q]
    BY DEF With
  <2> HIDE DEF f
  <2>7. n.left = r.left \ {p} /\ n.files = f /\ n.model = r.model
    BY <1>4 DEF RunOK
  <2> HIDE DEF n
  <2>8. run'[s].left = r.left \ {p} /\ run'[s].files = f /\ run'[s].model = r.model /\ entry' = entry
    BY <2>1, <2>5, <2>7
  <2>9. /\ k \in DOMAIN entry /\ entry[k].meta # None /\ entry[k].meta.model = r.model
        /\ r.left \subseteq entry[k].meta.names /\ DOMAIN r.files = entry[k].meta.names \ r.left
        /\ \A q \in DOMAIN r.files : q \in DOMAIN entry[k].files /\ r.files[q] = entry[k].files[q]
    BY <2>1 DEF Fetched, Key
  <2>10. /\ DOMAIN f = entry[k].meta.names \ (r.left \ {p})
         /\ \A q \in DOMAIN f : q \in DOMAIN entry[k].files /\ f[q] = entry[k].files[q]
    BY <2>2, <2>5, <2>6, <2>9
  <2>11. QED
    BY <1>2, <2>8, <2>9, <2>10 DEF Fetched, Key
<1>7. ASSUME run'[s] = run[s], k \in DOMAIN entry, k \in DOMAIN entry', entry'[k] = entry[k] PROVE Fetched(s)'
  BY <1>3, <1>7 DEF Fetched, Key
<1>8. CASE run'[s] = run[s]
  <2>1. k \in DOMAIN entry
    BY <1>3, <1>8 DEF Fetched, Key
  <2>2. CASE \A t \in Subtask : ~ PutStep(t)
    BY <1>0, <1>7, <1>8, <2>1, <2>2, Quiet
  <2>3. ASSUME NEW t \in Subtask, PutStep(t) PROVE Fetched(s)'
    <3>1. CASE run[t].key # k
      <4>1. k \in DOMAIN entry' /\ entry'[k] = entry[k]
        BY <2>1, <2>3, <3>1, OtherKeys
      <4>2. QED
        BY <1>7, <1>8, <2>1, <4>1
    <3>2. CASE UNCHANGED entry
      BY <1>7, <1>8, <2>1, <3>2
    <3>3. CASE (PutDrop(t) \/ PutRename(t)) /\ run[t].key = k
      <4>1. run[t].at \in Started /\ run[t].at # "fetch"
        BY <3>3 DEF PutDrop, PutRename, At, Started
      <4>2. QED
        BY <1>2, <1>8, <3>3, <4>1 DEF CacheInv, Apart, Key
    <3>4. QED
      BY <2>3, <3>1, <3>2, <3>3 DEF PutStep, PutClear, PutArtifact, PutMeta, PutFails, ClearTemp, StoreArtifact,
        StoreMeta, Abandon
  <2>4. QED
    BY <2>2, <2>3
<1>9. QED
  BY <1>1, <1>5, <1>6, <1>8

\* What a hit is about to write is one put, whole.
LEMMA HitFinds ==
  ASSUME Inv, CacheInv, NEW s \in Subtask, Hit(s), Key(s) \notin torn
  PROVE  [key |-> Key(s), files |-> run[s].files, model |-> run[s].model] \in puts
<1> DEFINE r == run[s]
           k == r.key
<1>1. r.at = "fetch" /\ r.left = {}
  BY DEF Hit, At
<1>2. /\ k \in DOMAIN entry /\ entry[k].meta # None /\ entry[k].meta.model = r.model
      /\ DOMAIN r.files = entry[k].meta.names
      /\ \A p \in DOMAIN r.files : p \in DOMAIN entry[k].files /\ r.files[p] = entry[k].files[p]
  BY <1>1 DEF CacheInv, FetchInv, Fetched, Key
<1>3. PICK put \in puts : put.key = k /\ LeftOf(entry[k], put)
  BY <1>2 DEF CacheInv, EntryInv, Key
<1>4. entry[k].meta = [names |-> DOMAIN put.files, model |-> put.model]
  BY <1>2, <1>3 DEF LeftOf, Meta
<1>5. DOMAIN r.files = DOMAIN put.files /\ put.model = r.model
  BY <1>2, <1>4
<1>6. \A p \in DOMAIN r.files : r.files[p] = put.files[p]
  BY <1>2, <1>3 DEF LeftOf
<1>7. /\ put = [key |-> put.key, files |-> put.files, model |-> put.model]
      /\ put.files \in [DOMAIN put.files -> Work] /\ r.files \in [DOMAIN r.files -> Content]
  BY DEF Inv, CacheTypes, RunInv, RunOK, IsTree
<1>8. r.files = put.files
  BY <1>5, <1>6, <1>7
<1>9. QED
  BY <1>3, <1>5, <1>7, <1>8 DEF Key

\* So a hit has all of the files one put was given: meta, which names them, is
\* written last.
LEMMA HitStep == ASSUME Inv, CacheInv, [Next]_vars PROVE HitInv'
<1>0. PoolInv /\ RunInv /\ CacheTypes /\ kills \in Nat /\ torn \subseteq torn' /\ puts \subseteq puts'
  BY Grows DEF Inv
<1> SUFFICES ASSUME NEW s \in Subtask, run'[s].source = "cache", run'[s].at = "write"
             PROVE  run'[s].key \in torn'
                    \/ [key |-> run'[s].key, files |-> run'[s].files, model |-> run'[s].model] \in puts'
  BY DEF HitInv, Key, PutOf
<1>1. CASE run'[s].key = run[s].key /\ Same(s) /\ run[s].at = "write"
  BY <1>0, <1>1 DEF CacheInv, HitInv, Key, PutOf, Same
<1>2. CASE Hit(s) /\ run'[s].key = run[s].key
  <2> DEFINE n == [run[s] EXCEPT !.at = "write", !.left = DOMAIN run[s].files, !.ok = TRUE, !.source = "cache"]
  <2>1. run'[s] = n
    BY <1>0, <1>2 DEF Hit, Goes, RunInv
  <2>2. n.files = run[s].files /\ n.model = run[s].model
    BY <1>0 DEF RunInv, RunOK
  <2> HIDE DEF n
  <2>3. QED
    BY <1>0, <1>2, <2>1, <2>2, HitFinds DEF Key
<1>3. CASE run'[s] = run[s]
  BY <1>1, <1>3 DEF Same
<1>4. CASE Loaded(s)
  BY <1>2, <1>4 DEF Loaded
<1>5. CASE Wrote(s)
  BY <1>1, <1>5 DEF Wrote
<1>6. ~ PutStep(s)
  BY <1>0, PutMoves DEF Started
<1>7. QED
  BY <1>0, <1>3, <1>4, <1>5, <1>6, RunSteps DEF Onward, Handed

\* The model named is the one that wrote: a put, a hit and a result pass on
\* both together.
LEMMA HonestStep == ASSUME Inv, CacheInv, HonestInv, [Next]_vars PROVE HonestInv'
<1>0. /\ PoolInv /\ RunInv /\ CacheTypes /\ kills \in Nat /\ torn \subseteq torn' /\ puts \subseteq puts'
      /\ DOMAIN result = Subtask
  BY Grows DEF Inv, ResultInv
<1>1. torn' = {} => torn = {}
  BY <1>0
<1>2. ASSUME NEW s \in Subtask, run'[s].at \in {"write"} \cup Through, run'[s].source # "cache" \/ torn' = {}
      PROVE  Honest(run'[s].files, run'[s].model)
  <2>1. CASE Same(s) /\ run[s].at \in {"write"} \cup Through
    BY <1>1, <1>2, <2>1 DEF HonestInv, Same
  <2>2. CASE run'[s] = run[s]
    BY <1>2, <2>1, <2>2 DEF Same
  <2>3. CASE PutStep(s)
    BY <1>0, <2>1, <2>3, PutMoves DEF Same, Through
  <2>4. CASE Wrote(s) \/ Handed(s)
    BY <2>1, <2>4 DEF Wrote, Handed, Through
  <2>5. CASE Loaded(s)
    <3>1. CASE Hit(s) /\ run'[s].source = "cache"
      <4>1. torn = {} /\ run'[s].at = "write"
        BY <1>1, <1>2, <2>5, <3>1 DEF Loaded
      <4> DEFINE n == [run[s] EXCEPT !.at = "write", !.left = DOMAIN run[s].files, !.ok = TRUE, !.source = "cache"]
      <4>2. run'[s] = n
        BY <1>0, <3>1 DEF Hit, Goes, RunInv
      <4>3. n.files = run[s].files /\ n.model = run[s].model
        BY <1>0 DEF RunInv, RunOK
      <4> HIDE DEF n
      <4> DEFINE put == [key |-> Key(s), files |-> run[s].files, model |-> run[s].model]
      <4>4. put \in puts /\ put.files = run[s].files /\ put.model = run[s].model
        BY <3>1, <4>1, HitFinds
      <4> HIDE DEF put
      <4>5. Honest(put.files, put.model)
        BY <4>1, <4>4 DEF HonestInv
      <4>6. QED
        BY <4>2, <4>3, <4>4, <4>5
    <3>2. QED
      BY <2>5, <3>1 DEF Loaded
  <2>6. CASE Onward(s) \/ run'[s].at \in {"idle", "read"}
    BY <1>2, <2>6 DEF Onward, Through, Putting
  <2>7. QED
    BY <1>0, <2>2, <2>3, <2>4, <2>5, <2>6, RunSteps
<1>3. ASSUME NEW put \in puts', torn' = {} PROVE Honest(put.files, put.model)
  <2>1. CASE put \in puts
    BY <1>1, <1>3, <2>1 DEF HonestInv
  <2>2. ASSUME NEW s \in Subtask, PutClear(s), put \notin puts PROVE Honest(put.files, put.model)
    <3>1. put = [key |-> run[s].key, files |-> run[s].files, model |-> run[s].model] /\ run[s].at = "clear"
      BY <2>2 DEF PutClear, At
    <3>2. Honest(run[s].files, run[s].model)
      BY <1>1, <1>3, <3>1 DEF HonestInv, Through, Putting
    <3>3. QED
      BY <3>1, <3>2
  <2>3. QED
    BY <1>0, <2>1, <2>2, Quiet, PutMoves
<1>4. ASSUME NEW s \in Subtask, result'[s] # None, torn' = {} PROVE Honest(result'[s].files, result'[s].model)
  <2>1. CASE result'[s] = result[s]
    BY <1>1, <1>4, <2>1 DEF HonestInv
  <2>2. CASE run[s].at = "judge" /\ result'[s] = [files |-> run[s].files, model |-> run[s].model]
    BY <1>1, <1>4, <2>2 DEF HonestInv, Through
  <2>3. QED
    BY <1>0, <1>4, <2>1, <2>2, ResultSteps
<1>5. QED
  BY <1>2, <1>3, <1>4 DEF HonestInv, Honest

\* With what is known of the cache.
WholeInv == Inv /\ CacheInv /\ HonestInv

\* All of it always holds.
LEMMA WholeHolds == Spec => []WholeInv
<1>1. Init => WholeInv
  <2> SUFFICES ASSUME Init PROVE WholeInv
    OBVIOUS
  <2>1. Inv
    BY InvInit
  <2>2. /\ \A s \in Subtask : run[s].at = "idle" /\ result[s] = None
        /\ puts = {} /\ DOMAIN entry = {}
    BY DEF Init, Idle, CacheInit, NoDirectories
  <2>3. CacheInv /\ HonestInv
    BY <2>2 DEF CacheInv, EntryInv, TempInv, FetchInv, HitInv, Apart, HonestInv, Started, Through, Putting
  <2>4. QED
    BY <2>1, <2>3 DEF WholeInv
<1>2. WholeInv /\ [Next]_vars => WholeInv'
  BY InvNext, EntryStep, TempStep, FetchStep, HitStep, ApartStep, HonestStep DEF WholeInv, CacheInv
<1>3. QED
  BY <1>1, <1>2, PTL DEF Spec

\* A hit replays one put of the same inputs, whole, and never a placeholder
\* (cache.py:79-131), for any number of sub-tasks, puts and kills, unless two
\* sub-tasks were at the key at a time.
THEOREM HitsAlwaysWhole == Spec => []HitsAreWhole
<1>1. WholeInv => HitsAreWhole
  <2> SUFFICES ASSUME WholeInv, NEW s \in Subtask, run[s].source = "cache", run[s].at = "write"
               PROVE  /\ \/ run[s].key \in torn
                         \/ [key |-> run[s].key, files |-> run[s].files, model |-> run[s].model] \in puts
                      /\ \A p \in DOMAIN run[s].files : run[s].files[p].model # "offline"
    BY DEF HitsAreWhole
  <2>1. IsTree(run[s].files, Work)
    BY DEF WholeInv, Inv, RunInv, PlaceOK
  <2>2. QED
    BY <2>1 DEF WholeInv, CacheInv, HitInv, Key, PutOf, IsTree, Work, Model
<1>2. QED
  BY <1>1, WholeHolds, PTL

\* A result names the model that wrote all of its files, after an escalation, a
\* fallback or a replay (executor.py:599-636), as long as no key was torn.
THEOREM ModelAlwaysHonest == Spec => []HonestModel
<1>1. WholeInv => HonestModel
  BY DEF WholeInv, HonestInv, Honest, HonestModel
<1>2. QED
  BY <1>1, WholeHolds, PTL
=============================================================================
