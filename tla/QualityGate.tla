---------------------------- MODULE QualityGate ----------------------------
(***************************************************************************)
(* The quality gate of one job: the loop of Orchestrator._quality_gate     *)
(* over critique_text, critique_visual and refine.  A critique is reduced  *)
(* to whether it passes (the score against min_score included) and whether *)
(* it has findings to act on; both are the models' to choose, as is the    *)
(* answer of the refining model.                                           *)
(***************************************************************************)
EXTENDS Integers, TLC

CONSTANTS
  Path,       \* paths a deliverable may have
  Long,       \* those whose content is longer than what produced_files reads
  MaxPasses   \* max_refine_passes

ASSUME GateAssumption == Long \subseteq Path /\ MaxPasses \in Nat

VARIABLES
  disk,  \* disk[p]: content of the file at p in the working directory
  gate   \* where the gate stands

\* A content knows who wrote it; `cut' once its tail was lost.
Refined(pass) == [by |-> "refine", n |-> pass, model |-> "code", cut |-> FALSE]

\* produced_files: every file, of each no more than max_bytes.
Produced(files) ==
  [p \in DOMAIN files |-> IF p \in Long THEN [files[p] EXCEPT !.cut = TRUE] ELSE files[p]]

\* A model's JSON object, if its answer holds one, as pass, score and
\* findings; an answer that holds none counts as passed without findings.
Verdict == [passed : BOOLEAN, findings : BOOLEAN]

\* The paths of the files in a model's answer: none of it is usable if {}.
Reply == SUBSET Path

\* has_model, of a web page's vision model.
Installed == BOOLEAN

\* pass: the loop's p; seen: `files'; passed, findings: of this round's
\* critiques; visual: visual_ok; fix: new_files still to be written.
\* History: judged, what the last critique was given; blanks, the refine
\* calls without a usable reply; failed, the loop was left by an exception.
Closed ==
  [at |-> "closed", pass |-> 0, seen |-> <<>>, passed |-> FALSE, findings |-> FALSE,
   visual |-> FALSE, fix |-> <<>>, judged |-> <<>>, blanks |-> 0, failed |-> FALSE]

GateInit == gate = Closed
----------------------------------------------------------------------------
Enter ==
  /\ gate.at = "closed"
  /\ DOMAIN disk # {}
  /\ \E visual \in Installed :
       gate' = [gate EXCEPT !.at = "critique", !.seen = Produced(disk), !.visual = visual]
  /\ UNCHANGED disk

\* critique_text on the files read before; a model that does not answer
\* passes by default.
CritiqueText ==
  /\ gate.at = "critique"
  /\ \E verdict \in Verdict :
       gate' = [gate EXCEPT !.at = IF gate.visual THEN "look" ELSE "decide", !.judged = gate.seen,
                            !.passed = verdict.passed, !.findings = verdict.findings]
  /\ UNCHANGED disk

\* critique_visual adds to it, unless the page does not render.
CritiqueVisual ==
  /\ gate.at = "look"
  /\ \E verdict \in Verdict :
       gate' = [gate EXCEPT !.at = "decide", !.passed = @ /\ verdict.passed,
                            !.findings = @ \/ verdict.findings]
  /\ UNCHANGED disk

DecideLate ==  \* mutant: one refine pass more than critiques
  /\ gate.at = "decide"
  /\ LET last == gate.passed \/ ~ gate.findings \/ gate.pass > MaxPasses
     IN  gate' = [gate EXCEPT !.at = IF last THEN "over" ELSE "refine"]
  /\ UNCHANGED disk

Decide ==
  /\ gate.at = "decide"
  /\ LET last == gate.passed \/ ~ gate.findings \/ gate.pass >= MaxPasses
     IN  gate' = [gate EXCEPT !.at = IF last THEN "over" ELSE "refine"]
  /\ UNCHANGED disk

RefineMerging ==  \* mutant: what the reply leaves out is written back as it was read
  /\ gate.at = "refine"
  /\ \E paths \in Reply :
       gate' = [gate EXCEPT !.at = "rewrite", !.fix = [p \in paths |-> Refined(gate.pass + 1)] @@ gate.seen,
                            !.blanks = IF paths = {} THEN @ + 1 ELSE @]
  /\ UNCHANGED disk

\* refine: the files of the reply, or without a usable one `files'.
Refine ==
  /\ gate.at = "refine"
  /\ \E paths \in Reply :
       LET reply == [p \in paths |-> Refined(gate.pass + 1)]
       IN  gate' = IF paths = {}
                   THEN [gate EXCEPT !.at = "rewrite", !.fix = gate.seen, !.blanks = @ + 1]
                   ELSE [gate EXCEPT !.at = "rewrite", !.fix = reply]
  /\ UNCHANGED disk

Written(p, content) ==
  disk' = [q \in DOMAIN disk \cup {p} |-> IF q = p THEN content ELSE disk[q]]

Rewrite ==
  /\ gate.at = "rewrite"
  /\ \E p \in DOMAIN gate.fix :
       /\ Written(p, gate.fix[p])
       /\ gate' = [gate EXCEPT !.fix = [q \in DOMAIN @ \ {p} |-> @[q]]]

LoopWithoutReading ==  \* mutant: `files' is not read again
  /\ gate.at = "rewrite"
  /\ gate.fix = <<>>
  /\ gate' = [gate EXCEPT !.at = "critique", !.pass = @ + 1]
  /\ UNCHANGED disk

Loop ==
  /\ gate.at = "rewrite"
  /\ gate.fix = <<>>
  /\ gate' = [gate EXCEPT !.at = "critique", !.pass = @ + 1, !.seen = Produced(disk)]
  /\ UNCHANGED disk

\* except Exception: an answer of the wrong shape, a file that cannot be
\* opened.  What was rewritten by then stays.
Swallow ==
  /\ gate.at \in {"critique", "look", "rewrite"}
  /\ gate' = [gate EXCEPT !.at = "over", !.failed = TRUE]
  /\ UNCHANGED disk

\* A write that fails has truncated its file by then.
SwallowWrite ==
  /\ gate.at = "rewrite"
  /\ \E p \in DOMAIN gate.fix : Written(p, [gate.fix[p] EXCEPT !.cut = TRUE])
  /\ gate' = [gate EXCEPT !.at = "over", !.failed = TRUE]

GateStep ==
  \/ Enter \/ CritiqueText \/ CritiqueVisual \/ Decide
  \/ Refine \/ Rewrite \/ Loop \/ Swallow \/ SwallowWrite
----------------------------------------------------------------------------
GateTypeOK ==
  /\ gate.at \in {"closed", "critique", "look", "decide", "refine", "rewrite", "over"}
  /\ gate.pass \in 0..MaxPasses
  /\ DOMAIN disk \subseteq Path /\ DOMAIN gate.seen \subseteq Path /\ DOMAIN gate.fix \subseteq Path
  /\ gate.blanks \in 0..MaxPasses

\* What is delivered is what the last critique judged, to the last refined
\* file, unless an exception ended the loop: no refine pass goes unjudged,
\* whatever the models answered.
JudgedAsDelivered ==
  gate.at = "over" /\ ~ gate.failed => gate.judged = Produced(disk)

\* A deliverable loses the tail of a file only when it is longer than what
\* produced_files reads and a refine call brought no usable reply: refine then
\* returns `files', which the loop writes over the originals.  Else a write
\* failed, which ends the loop.
CutOnlyWithoutReply ==
  \A p \in DOMAIN disk : disk[p].cut => (p \in Long /\ gate.blanks > 0) \/ gate.failed
============================================================================
