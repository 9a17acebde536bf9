----------------------------- MODULE Workshop -----------------------------
(***************************************************************************)
(* The sub-tasks of a job at work in its directory: SubtaskPool with the   *)
(* inside of OllamaExecutor.run, the result cache its threads share, the   *)
(* routing of models, and the quality gate that follows.  The process may  *)
(* be killed and the job, after a reset, run again in an empty directory;  *)
(* the cache outlives both.                                                *)
(*                                                                         *)
(* A file's content is who wrote it, in which of its attempts, with which  *)
(* model.  Every sub-task has the same action, so the inputs of two differ *)
(* in the files they find and in the model.                                *)
(***************************************************************************)
EXTENDS ResultCache, QualityGate, FiniteSets

CONSTANTS
  NumSubtasks, MaxAttempts, MaxWorkers,  \* as in SubtaskPool
  Stub,       \* path of a placeholder, and of an answer without file blocks
  Setups,     \* configurations, see below
  MaxWorkersAgain  \* bound on the workers of the run after a kill

\* A configuration: fallback model, offline placeholder, result cache, gate;
\* with it the sets of paths the file blocks of an answer may have, and the
\* bounds on the output tokens of an answer and on the kills.
ASSUME WorkshopAssumption ==
  /\ Stub \in Path
  /\ Setups \subseteq [fallback : {"small", "code", None}, offline : BOOLEAN,
                       caching : BOOLEAN, quality : BOOLEAN,
                       answers : SUBSET ((SUBSET Path) \ {{}}), tokens : Nat, kills : Nat]
  /\ {NumSubtasks, MaxAttempts, MaxWorkers} \subseteq Nat \ {0}
  /\ MaxWorkersAgain \in 0..MaxWorkers

Subtask == 1..NumSubtasks
Model == {"code", "reason", "small"}

\* A content, and the files and the model of a result.
Content == [by : Subtask, n : Nat, model : Model \cup {"offline"}, cut : {FALSE}]
Files(C) == UNION {[paths -> C] : paths \in SUBSET Path}
Result == [files : Files(Content), model : Model \cup {"offline"}]
ASSUME NoResultAssumption == None \notin Result

VARIABLES
  deps, workers, main, batch, done, thread, attempt,  \* SubtaskPool's
  setup,   \* the configuration
  run,     \* run[s]: where executor.run of s stands
  result,  \* result[s]: holder["res"]
  kills,   \* how often the process was killed
  puts,    \* history: what each put was given
  torn     \* history: keys with two puts, or a put and a get, at a time

poolVars == <<deps, workers, main, batch, done, thread, attempt>>
history == <<puts, torn>>
vars == <<poolVars, disk, gate, entry, temp, setup, run, result, kills, history>>

Pool == INSTANCE SubtaskPool

\* at: the step of executor.run; key: of the cache, the context read
\* included; asked: the model asked; files, left: what the present loop over
\* files works on, and has still to do; model, ok, tout: of the ExecResult;
\* source: where the files come from; emitted: output tokens posted in this
\* attempt; since: streamed, not yet posted.  History: made, the tokens the
\* models asked in this attempt produced; spent, of these a failed one's.
Idle ==
  [at |-> "idle", key |-> None, asked |-> None, files |-> <<>>, left |-> {}, model |-> None,
   ok |-> FALSE, source |-> None, tout |-> 0,
   emitted |-> 0, since |-> 0, made |-> 0, spent |-> 0]

Putting == {"clear", "store", "meta", "drop", "rename"}

Init ==
  /\ Pool!Init
  /\ disk = <<>>
  /\ GateInit
  /\ CacheInit
  /\ setup \in Setups
  /\ run = [s \in Subtask |-> Idle]
  /\ result = [s \in Subtask |-> None]
  /\ kills = 0
  /\ puts = {} /\ torn = {}

\* What a step of the executor alone leaves as it was.
Inside == UNCHANGED <<poolVars, gate, setup, result, kills>>
NoCache == UNCHANGED <<entry, temp, history>>

At(s, place) == run[s].at = place
Goes(s, changed) == run' = [run EXCEPT ![s] = changed]
----------------------------------------------------------------------------
(* _run_one around the executor.                                           *)

RunPool ==
  /\ \/ Pool!MainStep
     \/ \E s \in Subtask : Pool!Start(s) \/ Pool!Escalate(s) \/ Pool!Complete(s)
  /\ UNCHANGED <<disk, gate, entry, temp, setup, run, result, kills, history>>

Attempt(s) ==
  /\ Pool!Attempt(s)
  /\ Goes(s, [Idle EXCEPT !.at = "read"])
  /\ UNCHANGED <<disk, gate, setup, result, kills>> /\ NoCache

\* executor.run raises.
Raises(s) ==
  /\ Pool!CallFails(s)
  /\ Goes(s, Idle)
  /\ UNCHANGED <<disk, gate, setup, result, kills>> /\ NoCache

Larger(a, b) == IF a < b THEN b ELSE a

ReportWhole(s) ==  \* mutant: the streamed tokens are posted again
  /\ At(s, "report")
  /\ Goes(s, [run[s] EXCEPT !.at = "judge", !.key = None, !.emitted = @ + run[s].tout])
  /\ UNCHANGED disk /\ Inside /\ NoCache

\* tool_call_end: the remainder, max(0, tokens_out - emitted).
Report(s) ==
  /\ At(s, "report")
  /\ Goes(s, [run[s] EXCEPT !.at = "judge", !.key = None,
                            !.emitted = Larger(@, run[s].tout)])
  /\ UNCHANGED disk /\ Inside /\ NoCache

\* A result that is not ok fails the attempt.
Judge(s) ==
  /\ At(s, "judge")
  /\ Goes(s, Idle)
  /\ \/ /\ run[s].ok
        /\ Pool!CallSucceeds(s)
        /\ result' = [result EXCEPT ![s] = [files |-> run[s].files, model |-> run[s].model]]
     \/ /\ ~ run[s].ok
        /\ Pool!CallFails(s)
        /\ UNCHANGED result
  /\ UNCHANGED <<disk, gate, setup, kills>> /\ NoCache
----------------------------------------------------------------------------
(* executor.run: the model and the context.                                *)

\* Router.model_for: the reasoning model from the second attempt on.
ModelFor(s) == IF attempt[s] >= 2 THEN "reason" ELSE "code"

\* _read_workdir: what the prompt shows of the working directory.
Context == disk

CacheKey(s) == [model |-> ModelFor(s), context |-> Context]

\* The context is read, and the key made of it.
ReadContext(s) ==
  /\ At(s, "read")
  /\ Goes(s, [run[s] EXCEPT !.at = IF setup.caching THEN "lookup" ELSE "ask",
                            !.key = CacheKey(s), !.asked = ModelFor(s)])
  /\ UNCHANGED disk /\ Inside /\ NoCache
----------------------------------------------------------------------------
(* executor.run: the cache.                                                *)

Others(s, places) == {t \in Subtask \ {s} : run[t].at \in places /\ run[t].key = run[s].key}
Touches(s, places) == torn' = IF Others(s, places) # {} THEN torn \cup {run[s].key} ELSE torn

\* get: meta.json; the entry is missing, or its names are read from it.
Lookup(s) ==
  /\ At(s, "lookup")
  /\ LET meta == MetaOf(run[s].key)
     IN  Goes(s, IF meta = None THEN [run[s] EXCEPT !.at = "ask"]
                 ELSE [run[s] EXCEPT !.at = "fetch", !.left = meta.names, !.model = meta.model])
  /\ Touches(s, Putting)
  /\ UNCHANGED <<disk, puts, entry, temp>> /\ Inside

\* get: an artifact that cannot be read makes it a miss.
FetchSome(s) ==  \* mutant: what cannot be read is left out
  /\ At(s, "fetch")
  /\ \E p \in run[s].left :
       Goes(s, [run[s] EXCEPT !.left = @ \ {p},
                              !.files = Restrict(ArtifactsOf(run[s].key),
                                                 {p} \cap DOMAIN ArtifactsOf(run[s].key)) @@ @])
  /\ UNCHANGED disk /\ Inside /\ NoCache

Fetch(s) ==
  /\ At(s, "fetch")
  /\ \E p \in run[s].left :
       Goes(s, IF p \in DOMAIN ArtifactsOf(run[s].key)
               THEN [run[s] EXCEPT !.left = @ \ {p}, !.files = With(@, p, ArtifactsOf(run[s].key)[p])]
               ELSE [run[s] EXCEPT !.at = "ask", !.left = {}, !.files = <<>>, !.model = None])
  /\ UNCHANGED disk /\ Inside /\ NoCache

\* A hit: no model is asked and no tokens are counted.
HitUnwritten(s) ==  \* mutant: the artifacts of a hit are not written
  /\ At(s, "fetch") /\ run[s].left = {}
  /\ Goes(s, [run[s] EXCEPT !.at = "report", !.ok = TRUE, !.source = "cache"])
  /\ UNCHANGED disk /\ Inside /\ NoCache

Hit(s) ==
  /\ At(s, "fetch") /\ run[s].left = {}
  /\ Goes(s, [run[s] EXCEPT !.at = "write", !.left = DOMAIN run[s].files, !.ok = TRUE, !.source = "cache"])
  /\ UNCHANGED disk /\ Inside /\ NoCache

\* put, one file operation at a time; puts and torn keep the history.
PutClear(s) ==
  /\ At(s, "clear")
  /\ ClearTemp(run[s].key)
  /\ Goes(s, [run[s] EXCEPT !.at = "store", !.left = DOMAIN run[s].files])
  /\ puts' = puts \cup {[key |-> run[s].key, files |-> run[s].files, model |-> run[s].model]}
  /\ Touches(s, Putting \cup {"fetch"})
  /\ UNCHANGED disk /\ Inside

PutArtifact(s) ==
  /\ At(s, "store")
  /\ \E p \in run[s].left :
       /\ StoreArtifact(run[s].key, p, run[s].files[p])
       /\ Goes(s, [run[s] EXCEPT !.left = @ \ {p}, !.at = IF run[s].left = {p} THEN "meta" ELSE @])
  /\ UNCHANGED <<disk, history>> /\ Inside

PutMeta(s) ==
  /\ At(s, "meta")
  /\ StoreMeta(run[s].key, Meta(run[s].files, run[s].model))
  /\ Goes(s, [run[s] EXCEPT !.at = "drop"])
  /\ UNCHANGED <<disk, history>> /\ Inside

PutDrop(s) ==
  /\ At(s, "drop")
  /\ \/ Erode(run[s].key) /\ UNCHANGED run
     \/ DropEntry(run[s].key) /\ Goes(s, [run[s] EXCEPT !.at = "rename"])
     \/ /\ run[s].key \notin DOMAIN entry
        /\ Goes(s, [run[s] EXCEPT !.at = "rename"])
        /\ UNCHANGED <<entry, temp>>
  /\ UNCHANGED <<disk, history>> /\ Inside

PutRename(s) ==
  /\ At(s, "rename")
  /\ MoveIn(run[s].key)
  /\ Goes(s, [run[s] EXCEPT !.at = "report"])
  /\ UNCHANGED <<disk, history>> /\ Inside

\* An OSError of any of these, another put's interference included, is
\* swallowed: the result is the same.
PutFails(s) ==
  /\ run[s].at \in Putting
  /\ Abandon(run[s].key)
  /\ Goes(s, [run[s] EXCEPT !.at = "report", !.left = {}])
  /\ UNCHANGED <<disk, history>> /\ Inside
----------------------------------------------------------------------------
(* executor.run: the model.                                                *)

\* Another piece; a progress callback posts what came since the last one,
\* unless that was less than a second ago.
Stream(s) ==
  /\ At(s, "ask")
  /\ run[s].made < run[s].spent + setup.tokens
  /\ \E posted \in {0, run[s].since + 1} :
       Goes(s, [run[s] EXCEPT !.made = @ + 1, !.since = @ + 1 - posted, !.emitted = @ + posted])
  /\ UNCHANGED disk /\ Inside /\ NoCache

\* The files are on the way to the working directory.
Writes(s, files, model, ok, source, tout) ==
  [run[s] EXCEPT !.at = "write", !.asked = None, !.files = files, !.left = DOMAIN files,
                 !.model = model, !.ok = ok, !.source = source, !.tout = tout, !.since = 0,
                 !.made = Larger(@, run[s].spent + tout)]

By(s, model) == [by |-> s, n |-> attempt[s] + MaxAttempts * kills, model |-> model, cut |-> FALSE]

AnswerAsRouted(s) ==  \* mutant: the result names the model that was routed to
  /\ At(s, "ask")
  /\ \E tout \in 0..setup.tokens, paths \in setup.answers :
       Goes(s, Writes(s, [p \in paths |-> By(s, run[s].asked)], ModelFor(s), TRUE, "model", tout))
  /\ UNCHANGED disk /\ Inside /\ NoCache

\* The answer's file blocks, or one file made of its text.
FilesOf(s, paths) == [p \in IF paths = {} THEN {Stub} ELSE paths |-> By(s, run[s].asked)]

\* Of an empty text a file is made too, and the answer is then not ok.  The
\* stream's last line counts the tokens; without that line tout stays 0.
Answer(s) ==
  /\ At(s, "ask")
  /\ \E tout \in 0..setup.tokens, paths \in setup.answers \cup {{}} :
     \E text \in {TRUE} \cup IF paths = {} THEN {FALSE} ELSE {} :
       Goes(s, Writes(s, FilesOf(s, paths), run[s].asked, text, "model", tout))
  /\ UNCHANGED disk /\ Inside /\ NoCache

\* Whether _generate_with_fallback has another model to ask.
MayFallBack(s) ==
  /\ run[s].asked = ModelFor(s)
  /\ setup.fallback \notin {None, run[s].asked}

\* A timeout or a connection error, perhaps in mid-stream: the fallback model
\* once, then the placeholder, if they are configured.
FallBack(s) ==
  /\ At(s, "ask")
  /\ MayFallBack(s)
  /\ Goes(s, [run[s] EXCEPT !.asked = setup.fallback, !.spent = run[s].made, !.since = 0])
  /\ UNCHANGED disk /\ Inside /\ NoCache

Placeholder(s) ==
  /\ At(s, "ask")
  /\ ~ MayFallBack(s) /\ setup.offline
  /\ Goes(s, Writes(s, [p \in {Stub} |-> By(s, "offline")], "offline", TRUE, "offline", 0))
  /\ UNCHANGED disk /\ Inside /\ NoCache

\* Without either, and on any other error at once, the attempt has failed.
ModelFails(s) == At(s, "ask") /\ Raises(s)

\* _write_files: one file after the other; a put follows an answer.
WriteFile(s) ==
  /\ At(s, "write")
  /\ \E p \in run[s].left :
       /\ disk' = With(disk, p, run[s].files[p])
       /\ Goes(s, IF run[s].left # {p} THEN [run[s] EXCEPT !.left = @ \ {p}]
                  ELSE [run[s] EXCEPT !.left = {},
                                      !.at = IF run[s].ok /\ run[s].source = "model" /\ setup.caching
                                             THEN "clear" ELSE "report"])
  /\ Inside /\ NoCache
----------------------------------------------------------------------------
(* After the pool, and the death of the process.                           *)

\* The verify command and the plugin let the deliverable pass.
Gate ==
  /\ main = "done" /\ setup.quality
  /\ GateStep
  /\ UNCHANGED <<poolVars, entry, temp, setup, run, result, kills, history>>

\* The process dies, and after a reset a later cycle runs the job again.  To
\* bound the model, this happens once a put has begun, which alone outlives
\* the process, and while every sub-task is in its first attempt.
Kill ==
  /\ kills < setup.kills /\ puts # {}
  /\ \A s \in Subtask : attempt[s] <= 1
  /\ gate = Closed /\ main \notin {"done", "blocked"}
  /\ kills' = kills + 1
  /\ main' = "schedule" /\ batch' = {} /\ done' = {}
  /\ workers' \in 1..MaxWorkersAgain
  /\ thread' = [s \in Subtask |-> "none"] /\ attempt' = [s \in Subtask |-> 0]
  /\ run' = [s \in Subtask |-> Idle] /\ result' = [s \in Subtask |-> None]
  /\ disk' = <<>>
  /\ UNCHANGED <<deps, setup, gate>> /\ NoCache

ExecutorStep(s) ==
  \/ ReadContext(s)
  \/ Lookup(s) \/ Fetch(s) \/ Hit(s)
  \/ Stream(s) \/ Answer(s) \/ FallBack(s) \/ Placeholder(s) \/ ModelFails(s)
  \/ WriteFile(s)
  \/ PutClear(s) \/ PutArtifact(s) \/ PutMeta(s) \/ PutDrop(s) \/ PutRename(s) \/ PutFails(s)
  \/ Report(s)

Next ==
  \/ RunPool
  \/ \E s \in Subtask : Attempt(s) \/ ExecutorStep(s) \/ Judge(s)
  \/ Gate
  \/ Kill

Spec == Init /\ [][Next]_vars
----------------------------------------------------------------------------
TypeOK ==
  /\ Pool!TypeOK
  /\ GateTypeOK
  /\ \A s \in Subtask : (run[s].at = "idle") = (thread[s] # "calling")
  /\ \A s \in Subtask : (result[s] # None) = (thread[s] \in {"passed", "ok"})
  /\ \A s \in Subtask : run[s].emitted \in 0..(2 * setup.tokens) /\ run[s].left \subseteq Path
  /\ DOMAIN entry \cup DOMAIN temp \subseteq {put.key : put \in puts}

\* Whatever a put was interrupted by, its own process dying included, a hit
\* replays the files and the model of one put of the very same inputs, whole;
\* only where two sub-tasks were at the same key at a time may it mix them.
\* And what it replays is always work, never a placeholder.
HitsAreWhole ==
  \A s \in Subtask : run[s].source = "cache" /\ run[s].at = "write" =>
    /\ \/ run[s].key \in torn
       \/ [key |-> run[s].key, files |-> run[s].files, model |-> run[s].model] \in puts
    /\ \A p \in DOMAIN run[s].files : run[s].files[p].model # "offline"

\* A result names the model that wrote all of its files, after an escalation,
\* a fallback or a replay from the cache as well; of no result is this said
\* once two sub-tasks were at one key at a time, which may mix its entry.
HonestModel ==
  \A s \in Subtask : result[s] # None /\ torn = {} =>
    \A p \in DOMAIN result[s].files : result[s].files[p].model = result[s].model

\* A model is asked, or the cache, only with every file its dependencies
\* delivered in the context, wherever these came from.
BuildsOnDependencies ==
  \A s \in Subtask : run[s].key # None =>
    \A d \in deps[s] : DOMAIN result[d].files \subseteq DOMAIN run[s].key.context

\* What is posted for an attempt that returns is at least what its result
\* counts, and no token more than the models asked in it produced: neither
\* what a model streamed before it failed, nor what was streamed in an answer
\* that then is counted, or breaks off without a count, is posted twice.
TokensAccounted ==
  \A s \in Subtask : run[s].at = "judge" =>
    run[s].tout <= run[s].emitted /\ run[s].emitted <= run[s].made
============================================================================
