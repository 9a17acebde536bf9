---------------------------- MODULE StateFiles ----------------------------
(***************************************************************************)
(* state/approved.json and state/processed.json under everybody who writes *)
(* them: the approve command and the dashboard's approve endpoint, the     *)
(* inbox cycle that marks jobs, and the reset command, which also empties  *)
(* the working directories and the outbox.  There is no lock; each writer  *)
(* reads a file whole, later opens it, which truncates it, and writes it   *)
(* again from the start.  Whatever is left out of a cycle here, its gates  *)
(* and outcomes, is in JobCycle.                                           *)
(***************************************************************************)
EXTENDS Integers, FiniteSets

CONSTANTS
  Job,
  NoJob,      \* a value that is no job
  Gated,      \* jobs that need an approval
  Rank,       \* a cycle takes jobs of a lower rank first
  Approver,   \* the dashboard and the approve commands that may run beside it
  Cycle,      \* the orchestrator's process
  MaxWrites,  \* bound on the approvals begun
  MaxResets,  \* bound on the reset commands
  MaxKills    \* bound on processes killed

ASSUME StateFilesAssumption ==
  /\ IsFiniteSet(Job) /\ NoJob \notin Job /\ Gated \subseteq Job
  /\ Rank \in [Job -> Nat]
  /\ Cycle \notin Approver
  /\ MaxWrites \in Nat /\ MaxResets \in Nat /\ MaxKills \in Nat

Writer == Approver \cup {Cycle}
Part == {1, 2}  \* what a job's deliverable consists of

VARIABLES
  approved, processed,  \* the two files
  at,      \* at[w]: the next step of writer w
  hold,    \* hold[w]: the ids w has in memory to write
  job,     \* job[w]: the job w is about
  copy,    \* the approvals the cycle has read
  todo,    \* jobs the cycle has still to look at
  work, outbox,  \* work[j], outbox[j]: the parts in its directories
  reset,   \* the next step of the reset command
  bounds,  \* how many approvals, resets and kills there were
  granted, marked,  \* history: acknowledged since the last reset
  risky,   \* history: approvals that another writer came across
  stale,   \* history: ids in the memory of a writer during a reset
  unsafe   \* history: jobs under way during a reset

files == <<approved, processed>>
dirs == <<work, outbox>>
cycle == <<copy, todo>>
history == <<granted, marked, risky, stale, unsafe>>
vars == <<files, at, hold, job, cycle, dirs, reset, bounds, history>>

\* A file has the ids of its JSON array, or is not well-formed; an id is as
\* long as any other, so a length is a number of ids.  A file that is not
\* there reads like an empty one.
Empty == [size |-> 0, ids |-> {}]
Malformed(size) == [size |-> size, ids |-> {}]
Holds(ids) == [size |-> Cardinality(ids), ids |-> ids]

\* json.loads, and the empty set if it raises.
Load(file) == file.ids

\* Writing from the start: what a longer text leaves behind it is not JSON.
\* The two programs put different blanks between the ids, so texts of as many
\* ids may differ in length as well; writes that meet are risky in any case.
Overwrite(file, ids) ==
  IF file.size <= Cardinality(ids) THEN Holds(ids) ELSE Malformed(file.size)

Init ==
  /\ approved = Empty /\ processed = Empty
  /\ at = [w \in Writer |-> "idle"]
  /\ hold = [w \in Writer |-> {}]
  /\ job = [w \in Writer |-> NoJob]
  /\ copy = {} /\ todo = {}
  /\ work = [j \in Job |-> {}] /\ outbox = [j \in Job |-> {}]
  /\ reset = "idle"
  /\ bounds = [writes |-> 0, resets |-> 0, kills |-> 0]
  /\ granted = {} /\ marked = {} /\ risky = {} /\ stale = {} /\ unsafe = {}

Goes(w, place) == at' = [at EXCEPT ![w] = place]
Ends(w) == Goes(w, "idle") /\ hold' = [hold EXCEPT ![w] = {}] /\ job' = [job EXCEPT ![w] = NoJob]
InWindow == {w \in Approver : at[w] # "idle"}
Adding(ws) == {job[w] : w \in ws}
----------------------------------------------------------------------------
(* approve: ApprovalRegistry.__init__ and approve, approveJob.             *)

\* The file is read.  From here to the write no one else may come across:
\* those who do put everything at risk that is approved or being approved.
BeginApprove(w, j) ==
  /\ at[w] = "idle"
  /\ bounds.writes < MaxWrites
  /\ bounds' = [bounds EXCEPT !.writes = @ + 1]
  /\ Goes(w, "truncate")
  /\ job' = [job EXCEPT ![w] = j]
  /\ hold' = [hold EXCEPT ![w] = Load(approved) \cup {j}]
  /\ risky' = IF InWindow = {} THEN risky ELSE risky \cup granted \cup Adding(InWindow) \cup {j}
  /\ UNCHANGED <<files, cycle, dirs, reset, granted, marked, stale, unsafe>>

TruncateApproved(w) ==
  /\ w \in Approver /\ at[w] = "truncate"
  /\ approved' = Empty
  /\ Goes(w, "write")
  /\ UNCHANGED <<processed, hold, job, cycle, dirs, reset, bounds, history>>

ReplaceApproved(w) ==  \* mutant: the file is rewritten with the new id alone
  /\ w \in Approver /\ at[w] = "write"
  /\ approved' = Overwrite(approved, {job[w]})
  /\ Ends(w)
  /\ granted' = granted \cup {job[w]}
  /\ UNCHANGED <<processed, cycle, dirs, reset, bounds, marked, risky, stale, unsafe>>

\* The write, and the command or the request ends.
WriteApproved(w) ==
  /\ w \in Approver /\ at[w] = "write"
  /\ approved' = Overwrite(approved, hold[w])
  /\ Ends(w)
  /\ granted' = granted \cup {job[w]}
  /\ UNCHANGED <<processed, cycle, dirs, reset, bounds, marked, risky, stale, unsafe>>

\* The same on a file reset has removed meanwhile.
WriteRemoved(w) ==
  /\ w \in Approver /\ at[w] = "removed"
  /\ Ends(w)
  /\ UNCHANGED <<files, cycle, dirs, reset, bounds, history>>
----------------------------------------------------------------------------
(* The inbox cycle.                                                        *)

BeginCycle ==
  /\ at[Cycle] = "idle"
  /\ hold' = [hold EXCEPT ![Cycle] = Load(processed)]
  /\ Goes(Cycle, "approvals")
  /\ UNCHANGED <<files, job, cycle, dirs, reset, bounds, history>>

ReadApprovals ==
  /\ at[Cycle] = "approvals"
  /\ copy' = Load(approved)
  /\ todo' = Job
  /\ Goes(Cycle, "pick")
  /\ UNCHANGED <<files, hold, job, dirs, reset, bounds, history>>

\* Where the cycle stands while a job's sub-tasks write its parts.
Writing == <<"first", "second">>

\* processed.seen, and process_job as far as its gate.
Pick(j) ==
  /\ at[Cycle] = "pick" /\ j \in todo
  /\ \A k \in todo : Rank[j] <= Rank[k]
  /\ todo' = todo \ {j}
  /\ IF j \in hold[Cycle] \/ j \in Gated \ copy
     THEN UNCHANGED <<at, job, unsafe>>
     ELSE /\ Goes(Cycle, Writing[1])
          /\ job' = [job EXCEPT ![Cycle] = j]
          /\ unsafe' = IF reset = "idle" THEN unsafe \ {j} ELSE unsafe \cup {j}
  /\ UNCHANGED <<files, hold, copy, dirs, reset, bounds, granted, marked, risky, stale>>

EndCycle ==
  /\ at[Cycle] = "pick" /\ todo = {}
  /\ Ends(Cycle)
  /\ copy' = {}
  /\ UNCHANGED <<files, todo, dirs, reset, bounds, history>>

\* One sub-task after the other writes its part, over what may be there.
Work(p) ==
  /\ at[Cycle] = Writing[p]
  /\ work' = [work EXCEPT ![job[Cycle]] = @ \cup {p}]
  /\ Goes(Cycle, IF p = 2 THEN "deliver" ELSE Writing[p + 1])
  /\ UNCHANGED <<files, hold, job, cycle, outbox, reset, bounds, history>>

MarkBeforeDelivery ==  \* mutant: a job is marked when its sub-tasks are through
  /\ at[Cycle] = "deliver"
  /\ Goes(Cycle, "truncate")
  /\ UNCHANGED <<files, hold, job, cycle, dirs, reset, bounds, history>>

\* deliver copies what it finds over what is there.
Deliver ==
  /\ at[Cycle] = "deliver"
  /\ outbox' = [outbox EXCEPT ![job[Cycle]] = @ \cup work[job[Cycle]]]
  /\ Goes(Cycle, "truncate")
  /\ UNCHANGED <<files, hold, job, cycle, work, reset, bounds, history>>

TruncateProcessed ==
  /\ at[Cycle] = "truncate"
  /\ processed' = Empty
  /\ hold' = [hold EXCEPT ![Cycle] = @ \cup {job[Cycle]}]
  /\ Goes(Cycle, "write")
  /\ UNCHANGED <<approved, job, cycle, dirs, reset, bounds, history>>

WriteProcessed ==
  /\ at[Cycle] = "write"
  /\ processed' = Overwrite(processed, hold[Cycle])
  /\ marked' = marked \cup {job[Cycle]}
  /\ Goes(Cycle, "pick") /\ job' = [job EXCEPT ![Cycle] = NoJob]
  /\ UNCHANGED <<approved, hold, cycle, dirs, reset, bounds, granted, risky, stale, unsafe>>

WriteRemovedProcessed ==
  /\ at[Cycle] = "removed"
  /\ Goes(Cycle, "pick") /\ job' = [job EXCEPT ![Cycle] = NoJob]
  /\ UNCHANGED <<files, hold, cycle, dirs, reset, bounds, history>>

CycleStep ==
  \/ BeginCycle \/ ReadApprovals \/ EndCycle
  \/ \E j \in Job : Pick(j)
  \/ \E p \in Part : Work(p)
  \/ Deliver \/ TruncateProcessed \/ WriteProcessed \/ WriteRemovedProcessed
----------------------------------------------------------------------------
(* reset.                                                                  *)

\* The file goes; who has it open writes to what is no longer there.
Unlinked(ws) == [w \in Writer |-> IF w \in ws /\ at[w] = "write" THEN "removed" ELSE at[w]]

UnlinkProcessed ==
  /\ reset = "idle"
  /\ bounds.resets < MaxResets
  /\ bounds' = [bounds EXCEPT !.resets = @ + 1]
  /\ reset' = "approved"
  /\ processed' = Empty
  /\ at' = Unlinked({Cycle})
  /\ marked' = {}
  /\ unsafe' = unsafe \cup hold[Cycle] \cup ({job[Cycle]} \ {NoJob})
  /\ UNCHANGED <<approved, hold, job, cycle, dirs, granted, risky, stale>>

UnlinkApproved ==
  /\ reset = "approved"
  /\ reset' = "work"
  /\ approved' = Empty
  /\ at' = Unlinked(Approver)
  /\ granted' = {}
  /\ risky' = Adding(InWindow)
  /\ stale' = stale \cup copy \cup UNION {hold[w] : w \in Approver}
  /\ UNCHANGED <<processed, hold, job, cycle, dirs, bounds, marked, unsafe>>

\* rmtree of one job's directory after the other, in the order they have
\* here; one in use may raise, and the command ends.
ClearWork ==
  /\ reset = "work"
  /\ \/ work' = [j \in Job |-> {}] /\ reset' = "outbox"
     \/ \E js \in SUBSET Job :
          work' = [j \in Job |-> IF j \in js THEN {} ELSE work[j]] /\ reset' = "idle"
  /\ UNCHANGED <<files, at, hold, job, cycle, outbox, bounds, history>>

ClearOutbox ==
  /\ reset = "outbox"
  /\ \/ outbox' = [j \in Job |-> {}]
     \/ \E js \in SUBSET Job : outbox' = [j \in Job |-> IF j \in js THEN {} ELSE outbox[j]]
  /\ reset' = "idle"
  /\ UNCHANGED <<files, at, hold, job, cycle, work, bounds, history>>
----------------------------------------------------------------------------
\* A process dies; the file it had truncated stays as it is.
Kill(w) ==
  /\ at[w] # "idle"
  /\ bounds.kills < MaxKills
  /\ bounds' = [bounds EXCEPT !.kills = @ + 1]
  /\ Ends(w)
  /\ IF w = Cycle
     THEN /\ copy' = {} /\ todo' = {}
          /\ marked' = IF at[w] = "write" THEN {} ELSE marked
          /\ UNCHANGED risky
     ELSE /\ risky' = IF at[w] = "write" THEN risky \cup granted ELSE risky
          /\ UNCHANGED <<cycle, marked>>
  /\ UNCHANGED <<files, dirs, reset, granted, stale, unsafe>>

ApproverStep(w) == TruncateApproved(w) \/ WriteApproved(w) \/ WriteRemoved(w)
ResetStep == UnlinkProcessed \/ UnlinkApproved \/ ClearWork \/ ClearOutbox

Next ==
  \/ \E w \in Approver : ApproverStep(w) \/ \E j \in Job : BeginApprove(w, j)
  \/ CycleStep
  \/ ResetStep
  \/ \E w \in Writer : Kill(w)

Spec == Init /\ [][Next]_vars
----------------------------------------------------------------------------
\* An acknowledged approval stays in the file until a reset, whoever else
\* approves what, unless another writer came across it - then it may be
\* lost - and the file never holds, nor does the cycle act on, an approval
\* that is not in force, except one somebody had read before a reset.
ApprovalsKept ==
  /\ (\A w \in Approver : at[w] # "write") => granted \ risky \subseteq Load(approved)
  /\ Load(approved) \cup copy \subseteq granted \cup stale

\* A job in processed.json has its whole deliverable in the outbox, unless it
\* was under way, or in the memory of a cycle, during a reset; and what the
\* cycle marked stays marked until a reset or a death in the middle of a mark.
MarksMatchOutbox ==
  /\ \A j \in Load(processed) \ unsafe : outbox[j] = Part
  /\ at[Cycle] # "write" => marked \subseteq Load(processed)
============================================================================
