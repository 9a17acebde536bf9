-------------------------- MODULE StateFilesProofs --------------------------
(***************************************************************************)
(* Proofs about the two registry files, for any finite set of jobs, any    *)
(* set of approvers and any number of approvals, resets and deaths.        *)
(*                                                                         *)
(* Neither property is inductive.  A write keeps what is approved only if  *)
(* its writer read the file after everyone before it had finished, or all  *)
(* it can lose is known to be at risk (AloneOrRisky), and it adds nothing  *)
(* that is not in force because no writer holds such an id (HoldsInForce). *)
(* What the cycle marks is delivered because each step of a job has what   *)
(* the one before it left (Progress), and a reset can take none of it away *)
(* unnoticed because all there is to mark is unsafe while one runs         *)
(* (ResetSeen).                                                            *)
(***************************************************************************)
EXTENDS StateFiles, FiniteSetTheorems, TLAPS

File == [size : Nat, ids : SUBSET Job]
ApproverPlace == {"idle", "truncate", "write", "removed"}
CyclePlace ==
  {"idle", "approvals", "pick", "first", "second", "deliver", "truncate", "write", "removed"}

\* Every writer is somewhere in its command or cycle, and has a job where
\* that is about one.
TypeInv ==
  /\ approved \in File /\ processed \in File
  /\ at \in [Writer -> ApproverPlace \cup CyclePlace]
  /\ \A w \in Approver : at[w] \in ApproverPlace
  /\ hold \in [Writer -> SUBSET Job]
  /\ job \in [Writer -> Job \cup {NoJob}]
  /\ \A w \in Approver : at[w] # "idle" => job[w] \in Job
  /\ at[Cycle] \notin {"idle", "approvals", "pick"} => job[Cycle] \in Job
  /\ at[Cycle] \in {"idle", "approvals", "pick"} => job[Cycle] = NoJob
  /\ copy \subseteq Job /\ todo \subseteq Job
  /\ work \in [Job -> SUBSET Part] /\ outbox \in [Job -> SUBSET Part]

\* What is approved is in the file while no one has it truncated.
KeptUnlessRisky ==
  (\A w \in Approver : at[w] # "write") => granted \ risky \subseteq Load(approved)

\* Approver w read the file after all others had finished with it.
Alone(w) ==
  /\ InWindow = {w}
  /\ job[w] \in hold[w]
  /\ granted \ risky \subseteq hold[w]
  /\ at[w] = "write" => approved = Empty
AloneOrRisky ==
  \/ InWindow = {}
  \/ granted \cup Adding(InWindow) \subseteq risky
  \/ \E w \in Approver : Alone(w)

\* Nothing is in the file, in the cycle's copy or in an approver's memory but
\* what is in force, or was before a reset, or is just being approved.
HoldsInForce ==
  /\ Load(approved) \cup copy \subseteq granted \cup stale
  /\ \A w \in Approver : hold[w] \subseteq granted \cup stale \cup {job[w]}

ApprovedInv == KeptUnlessRisky /\ AloneOrRisky /\ HoldsInForce

\* Only the cycle adds to processed.json, and it knows all that is in it.
KnowsFile ==
  /\ at[Cycle] # "idle" => Load(processed) \subseteq hold[Cycle]
  /\ at[Cycle] = "write" =>
       processed = Empty /\ marked \subseteq hold[Cycle] /\ job[Cycle] \in hold[Cycle]
  /\ at[Cycle] # "write" => marked \subseteq Load(processed)

\* How far the job under way is, and that all jobs marked are delivered.
Progress ==
  /\ job[Cycle] \notin unsafe =>
       /\ at[Cycle] = "second" => 1 \in work[job[Cycle]]
       /\ at[Cycle] = "deliver" => work[job[Cycle]] = Part
       /\ at[Cycle] \in {"truncate", "write", "removed"} => outbox[job[Cycle]] = Part
  /\ \A j \in (Load(processed) \cup hold[Cycle]) \ unsafe : outbox[j] = Part

\* While a reset runs, what is marked or under way is unsafe.
ResetSeen ==
  reset # "idle" => Load(processed) \cup hold[Cycle] \cup ({job[Cycle]} \ {NoJob}) \subseteq unsafe

ProcessedInv == KnowsFile /\ Progress /\ ResetSeen

Inv == TypeInv /\ ApprovedInv /\ ProcessedInv
----------------------------------------------------------------------------
\* A set of ids has a length, and a file written from the start over nothing
\* has what was written.
LEMMA Written ==
  ASSUME NEW file \in File, NEW ids \in SUBSET Job
  PROVE  /\ Overwrite(file, ids) \in File /\ Empty \in File
         /\ Load(Overwrite(file, ids)) \subseteq ids
         /\ Overwrite(Empty, ids) = Holds(ids) /\ Load(Holds(ids)) = ids
<1>1. Cardinality(ids) \in Nat
  BY StateFilesAssumption, FS_Subset, FS_CardinalityType
<1>2. QED
  BY <1>1 DEF File, Overwrite, Holds, Malformed, Empty, Load

\* The cycle is no approver, and both are writers.
LEMMA Writers == Cycle \in Writer /\ Approver \subseteq Writer /\ Cycle \notin Approver
BY StateFilesAssumption DEF Writer

\* No file, no writer, no job.
LEMMA InitInv == Init => Inv
<1> SUFFICES ASSUME Init PROVE Inv
  OBVIOUS
<1>1. TypeInv
  BY Writers DEF Init, TypeInv, File, Empty, ApproverPlace, CyclePlace
<1>2. ApprovedInv
  BY Writers DEF Init, ApprovedInv, KeptUnlessRisky, AloneOrRisky, HoldsInForce, InWindow, Load, Empty
<1>3. ProcessedInv
  BY Writers DEF Init, ProcessedInv, KnowsFile, Progress, ResetSeen, Load, Empty
<1>4. QED
  BY <1>1, <1>2, <1>3 DEF Inv

\* Every step keeps the types.
LEMMA TypeStep == TypeInv /\ [Next]_vars => TypeInv'
<1> SUFFICES ASSUME TypeInv, [Next]_vars PROVE TypeInv'
  OBVIOUS
<1> USE Writers
<1>1. ASSUME NEW w \in Approver, ApproverStep(w) PROVE TypeInv'
  <2>1. CASE TruncateApproved(w)
    BY <2>1 DEF TruncateApproved, TypeInv, Goes, File, Empty,
      ApproverPlace, CyclePlace, cycle, dirs, history
  <2>2. CASE WriteApproved(w)
    BY <2>2, Written DEF WriteApproved, TypeInv, Ends, Goes, ApproverPlace, CyclePlace, cycle, dirs
  <2>3. CASE WriteRemoved(w)
    BY <2>3 DEF WriteRemoved, TypeInv, Ends, Goes,
      ApproverPlace, CyclePlace, files, cycle, dirs, history
  <2>4. QED
    BY <1>1, <2>1, <2>2, <2>3 DEF ApproverStep
<1>2. ASSUME NEW w \in Approver, NEW j \in Job, BeginApprove(w, j) PROVE TypeInv'
  BY <1>2 DEF BeginApprove, TypeInv, Goes, File, Load, ApproverPlace, CyclePlace, files, cycle, dirs
<1>3. CASE CycleStep
  <2>1. CASE BeginCycle
    BY <2>1 DEF BeginCycle, TypeInv, Goes, File, Load,
      ApproverPlace, CyclePlace, files, cycle, dirs, history
  <2>2. CASE ReadApprovals
    BY <2>2 DEF ReadApprovals, TypeInv, Goes, File, Load,
      ApproverPlace, CyclePlace, files, dirs, history
  <2>3. CASE EndCycle
    BY <2>3 DEF EndCycle, TypeInv, Ends, Goes,
      ApproverPlace, CyclePlace, files, dirs, history
  <2>4. ASSUME NEW j \in Job, Pick(j) PROVE TypeInv'
    <3>1. todo' \subseteq Job /\ UNCHANGED <<files, hold, copy, dirs>> /\ at[Cycle] = "pick"
      BY <2>4 DEF Pick, TypeInv
    <3>2. CASE UNCHANGED <<at, job>>
      BY <3>1, <3>2 DEF TypeInv, files, dirs
    <3>3. CASE at' = [at EXCEPT ![Cycle] = "first"] /\ job' = [job EXCEPT ![Cycle] = j]
      BY <3>1, <3>3 DEF TypeInv, files, dirs, ApproverPlace, CyclePlace
    <3>4. QED
      BY <2>4, <3>2, <3>3 DEF Pick, Goes, Writing
  <2>5. ASSUME NEW p \in Part, Work(p) PROVE TypeInv'
    BY <2>5 DEF Work, Part, TypeInv, Goes, Writing,
      ApproverPlace, CyclePlace, files, cycle, history
  <2>6. CASE Deliver
    BY <2>6 DEF Deliver, TypeInv, Goes,
      ApproverPlace, CyclePlace, files, cycle, history
  <2>7. CASE TruncateProcessed
    BY <2>7 DEF TruncateProcessed, TypeInv, Goes, File, Empty,
      ApproverPlace, CyclePlace, cycle, dirs, history
  <2>8. CASE WriteProcessed
    BY <2>8, Written DEF WriteProcessed, TypeInv, Goes, ApproverPlace, CyclePlace, cycle, dirs
  <2>9. CASE WriteRemovedProcessed
    BY <2>9 DEF WriteRemovedProcessed, TypeInv, Goes,
      ApproverPlace, CyclePlace, files, cycle, dirs, history
  <2>10. QED
    BY <1>3, <2>1, <2>2, <2>3, <2>4, <2>5, <2>6, <2>7, <2>8, <2>9 DEF CycleStep
<1>4. CASE ResetStep
  <2>1. CASE UnlinkProcessed
    BY <2>1 DEF UnlinkProcessed, TypeInv, Unlinked, File, Empty, ApproverPlace, CyclePlace, cycle, dirs
  <2>2. CASE UnlinkApproved
    BY <2>2 DEF UnlinkApproved, TypeInv, Unlinked, File, Empty, ApproverPlace, CyclePlace, cycle, dirs
  <2>3. CASE ClearWork
    BY <2>3 DEF ClearWork, TypeInv, files, cycle
  <2>4. CASE ClearOutbox
    BY <2>4 DEF ClearOutbox, TypeInv, files, cycle
  <2>5. QED
    BY <1>4, <2>1, <2>2, <2>3, <2>4 DEF ResetStep
<1>5. ASSUME NEW w \in Writer, Kill(w) PROVE TypeInv'
  BY <1>5 DEF Kill, TypeInv, Ends, Goes, ApproverPlace, CyclePlace, files, cycle, dirs
<1>6. CASE UNCHANGED vars
  BY <1>6 DEF vars, TypeInv, files, cycle, dirs
<1>7. QED
  BY <1>1, <1>2, <1>3, <1>4, <1>5, <1>6 DEF Next

----------------------------------------------------------------------------
(* The approvals.                                                          *)

\* Only the approvers, the reading of approvals and reset touch what the
\* invariant is about.
LEMMA ApprovedFrame ==
  ASSUME TypeInv, ApprovedInv,
         UNCHANGED <<approved, granted, risky, stale>>,
         copy' \in {copy, {}, Load(approved)},
         \A w \in Approver : at'[w] = at[w] /\ hold'[w] = hold[w] /\ job'[w] = job[w]
  PROVE  ApprovedInv'
<1>1. InWindow' = InWindow /\ Adding(InWindow)' = Adding(InWindow)
  BY DEF InWindow, Adding
<1>2. \A w \in Approver : Alone(w) => Alone(w)'
  BY <1>1 DEF Alone
<1>3. QED
  BY <1>1, <1>2 DEF ApprovedInv, KeptUnlessRisky, AloneOrRisky, HoldsInForce

\* An approver that ends leaves the window to the others.
LEMMA LeavesWindow ==
  ASSUME NEW w \in Approver, TypeInv, Ends(w)
  PROVE  /\ InWindow' = InWindow \ {w}
         /\ Adding(InWindow)' \subseteq Adding(InWindow)
         /\ at'[w] = "idle" /\ hold'[w] = {}
         /\ \A v \in Approver \ {w} : hold'[v] = hold[v] /\ job'[v] = job[v] /\ at'[v] = at[v]
  BY Writers DEF Ends, Goes, TypeInv, InWindow, Adding

\* A write keeps what was approved: its writer was alone since it read the
\* file, or all of it is at risk.
LEMMA WriteKeeps ==
  ASSUME NEW w \in Approver, TypeInv, ApprovedInv, WriteApproved(w)
  PROVE  ApprovedInv'
<1>1. /\ at[w] = "write" /\ w \in InWindow /\ job[w] \in Adding(InWindow)
      /\ approved' = Overwrite(approved, hold[w])
      /\ granted' = granted \cup {job[w]} /\ UNCHANGED <<copy, risky, stale>>
  BY DEF WriteApproved, InWindow, Adding, cycle
<1>2. /\ InWindow' = InWindow \ {w} /\ Adding(InWindow)' \subseteq Adding(InWindow)
      /\ hold'[w] = {} /\ \A v \in Approver \ {w} : hold'[v] = hold[v] /\ job'[v] = job[v]
  BY LeavesWindow DEF WriteApproved
<1>3. hold[w] \in SUBSET Job /\ approved \in File
  BY Writers DEF TypeInv
<1>4. KeptUnlessRisky' /\ AloneOrRisky'
  <2>1. CASE granted \cup Adding(InWindow) \subseteq risky
    BY <1>1, <1>2, <2>1 DEF KeptUnlessRisky, AloneOrRisky
  <2>2. CASE Alone(w)
    <3>1. Load(approved)' = hold[w]
      BY <1>1, <1>3, <2>2, Written DEF Alone
    <3>2. QED
      BY <1>1, <1>2, <2>2, <3>1 DEF Alone, KeptUnlessRisky, AloneOrRisky
  <2>3. QED
    BY <1>1, <2>1, <2>2 DEF ApprovedInv, AloneOrRisky, Alone
<1>5. HoldsInForce'
  <2>1. Load(approved)' \subseteq hold[w]
    BY <1>1, <1>3, Written
  <2>2. QED
    BY <1>1, <1>2, <2>1 DEF ApprovedInv, HoldsInForce
<1>6. QED
  BY <1>4, <1>5 DEF ApprovedInv

\* Who begins alone knows all that is approved; who does not puts it at risk.
LEMMA BeginKeeps ==
  ASSUME NEW w \in Approver, NEW j \in Job, TypeInv, ApprovedInv, BeginApprove(w, j)
  PROVE  ApprovedInv'
<1>1. /\ at[w] = "idle" /\ at'[w] = "truncate" /\ job'[w] = j /\ hold'[w] = Load(approved) \cup {j}
      /\ \A v \in Approver \ {w} : at'[v] = at[v] /\ job'[v] = job[v] /\ hold'[v] = hold[v]
      /\ UNCHANGED <<approved, copy, granted, stale>>
      /\ risky' = IF InWindow = {} THEN risky ELSE risky \cup granted \cup Adding(InWindow) \cup {j}
  BY Writers DEF BeginApprove, TypeInv, Goes, files, cycle
<1>2. InWindow' = InWindow \cup {w} /\ w \notin InWindow
  BY <1>1 DEF InWindow
<1>3. Adding(InWindow)' = Adding(InWindow) \cup {j}
  BY <1>1, <1>2 DEF Adding, InWindow
<1>4. KeptUnlessRisky'
  BY <1>1 DEF ApprovedInv, KeptUnlessRisky
<1>5. AloneOrRisky'
  <2>1. CASE InWindow = {}
    <3>1. granted \ risky \subseteq Load(approved)
      BY <2>1 DEF ApprovedInv, KeptUnlessRisky, InWindow
    <3>2. Alone(w)'
      BY <1>1, <1>2, <2>1, <3>1 DEF Alone
    <3>3. QED
      BY <3>2 DEF AloneOrRisky
  <2>2. CASE InWindow # {}
    BY <1>1, <1>3, <2>2 DEF AloneOrRisky
  <2>3. QED
    BY <2>1, <2>2
<1>6. HoldsInForce'
  BY <1>1 DEF ApprovedInv, HoldsInForce
<1>7. QED
  BY <1>4, <1>5, <1>6 DEF ApprovedInv

\* Emptying the file takes nothing from who will write it.
LEMMA TruncateKeeps ==
  ASSUME NEW w \in Approver, TypeInv, ApprovedInv, TruncateApproved(w)
  PROVE  ApprovedInv'
<1>1. /\ at[w] = "truncate" /\ at'[w] = "write" /\ approved' = Empty
      /\ \A v \in Approver \ {w} : at'[v] = at[v]
      /\ UNCHANGED <<hold, job, copy, granted, risky, stale>>
  BY Writers DEF TruncateApproved, TypeInv, Goes, cycle, history
<1>2. InWindow' = InWindow /\ w \in InWindow
  BY <1>1 DEF InWindow
<1>3. Adding(InWindow)' = Adding(InWindow)
  BY <1>1, <1>2 DEF Adding
<1>4. \A v \in Approver : Alone(v) => Alone(v)'
  BY <1>1, <1>2 DEF Alone
<1>5. KeptUnlessRisky'
  BY <1>1 DEF KeptUnlessRisky
<1>6. AloneOrRisky'
  BY <1>1, <1>2, <1>3, <1>4 DEF ApprovedInv, AloneOrRisky
<1>7. HoldsInForce'
  BY <1>1 DEF ApprovedInv, HoldsInForce, Load, Empty
<1>8. QED
  BY <1>5, <1>6, <1>7 DEF ApprovedInv

\* A command that ends without a write, or dies.
LEMMA EndKeeps ==
  ASSUME NEW w \in Approver, TypeInv, ApprovedInv, Ends(w),
         UNCHANGED <<approved, copy, granted, stale>>, risky \subseteq risky',
         at[w] = "write" => granted \subseteq risky'
  PROVE  ApprovedInv'
<1>1. /\ InWindow' = InWindow \ {w} /\ Adding(InWindow)' \subseteq Adding(InWindow)
      /\ hold'[w] = {}
      /\ \A v \in Approver \ {w} : hold'[v] = hold[v] /\ job'[v] = job[v] /\ at'[v] = at[v]
  BY LeavesWindow
<1>2. KeptUnlessRisky'
  BY <1>1 DEF ApprovedInv, KeptUnlessRisky
<1>3. AloneOrRisky'
  <2>1. CASE InWindow = {} \/ granted \cup Adding(InWindow) \subseteq risky
    BY <1>1, <2>1 DEF AloneOrRisky
  <2>2. ASSUME NEW v \in Approver, Alone(v) PROVE AloneOrRisky'
    <3>1. CASE v = w
      BY <1>1, <2>2, <3>1 DEF Alone, AloneOrRisky
    <3>2. CASE v # w
      BY <1>1, <2>2, <3>2 DEF Alone, AloneOrRisky
    <3>3. QED
      BY <3>1, <3>2
  <2>3. QED
    BY <2>1, <2>2 DEF ApprovedInv, AloneOrRisky
<1>4. HoldsInForce'
  BY <1>1 DEF ApprovedInv, HoldsInForce
<1>5. QED
  BY <1>2, <1>3, <1>4 DEF ApprovedInv

\* A reset revokes everything, what is being approved included.
LEMMA ResetKeeps ==
  ASSUME TypeInv, ApprovedInv, UnlinkApproved
  PROVE  ApprovedInv'
<1>1. /\ approved' = Empty /\ granted' = {} /\ risky' = Adding(InWindow)
      /\ UNCHANGED <<hold, job, copy>>
      /\ stale' = stale \cup copy \cup UNION {hold[w] : w \in Approver}
  BY DEF UnlinkApproved, cycle
<1>2. InWindow' = InWindow
  BY Writers DEF UnlinkApproved, Unlinked, InWindow
<1>3. Adding(InWindow)' = Adding(InWindow)
  BY <1>1, <1>2 DEF Adding
<1>4. KeptUnlessRisky' /\ AloneOrRisky'
  BY <1>1, <1>3 DEF KeptUnlessRisky, AloneOrRisky
<1>5. HoldsInForce'
  BY <1>1 DEF HoldsInForce, Load, Empty
<1>6. QED
  BY <1>4, <1>5 DEF ApprovedInv

\* Every step keeps the approvals.
LEMMA ApprovedStep == TypeInv /\ ApprovedInv /\ [Next]_vars => ApprovedInv'
<1> SUFFICES ASSUME TypeInv, ApprovedInv, [Next]_vars PROVE ApprovedInv'
  OBVIOUS
<1>1. ASSUME NEW w \in Approver, ApproverStep(w) PROVE ApprovedInv'
  <2>1. CASE WriteRemoved(w)
    BY <2>1, EndKeeps DEF WriteRemoved, files, cycle, history
  <2>2. QED
    BY <1>1, <2>1, TruncateKeeps, WriteKeeps DEF ApproverStep
<1>2. ASSUME NEW w \in Approver, NEW j \in Job, BeginApprove(w, j) PROVE ApprovedInv'
  BY <1>2, BeginKeeps
<1>3. CASE CycleStep
  <2>1. \A w \in Approver : at'[w] = at[w] /\ hold'[w] = hold[w] /\ job'[w] = job[w]
    BY <1>3, Writers DEF CycleStep, BeginCycle, ReadApprovals, EndCycle, Pick, Work, Deliver,
      TruncateProcessed, WriteProcessed, WriteRemovedProcessed, Ends, Goes, TypeInv
  <2>2. UNCHANGED <<approved, granted, risky, stale>>
    BY <1>3 DEF CycleStep, BeginCycle, ReadApprovals, EndCycle, Pick, Work, Deliver,
      TruncateProcessed, WriteProcessed, WriteRemovedProcessed, files, history
  <2>3. copy' \in {copy, {}, Load(approved)}
    BY <1>3 DEF CycleStep, BeginCycle, ReadApprovals, EndCycle, Pick, Work, Deliver,
      TruncateProcessed, WriteProcessed, WriteRemovedProcessed, cycle
  <2>4. QED
    BY <2>1, <2>2, <2>3, ApprovedFrame
<1>4. CASE ResetStep
  <2>1. CASE UnlinkProcessed
    BY <2>1, ApprovedFrame, Writers DEF UnlinkProcessed, Unlinked, TypeInv, cycle
  <2>2. CASE ClearWork \/ ClearOutbox
    BY <2>2, ApprovedFrame DEF ClearWork, ClearOutbox, files, cycle, history
  <2>3. QED
    BY <1>4, <2>1, <2>2, ResetKeeps DEF ResetStep
<1>5. ASSUME NEW w \in Writer, Kill(w) PROVE ApprovedInv'
  <2>1. CASE w = Cycle
    <3>1. \A v \in Approver : at'[v] = at[v] /\ hold'[v] = hold[v] /\ job'[v] = job[v]
      BY <1>5, <2>1, Writers DEF Kill, Ends, Goes, TypeInv
    <3>2. QED
      BY <1>5, <2>1, <3>1, ApprovedFrame DEF Kill, files
  <2>2. CASE w \in Approver
    BY <1>5, <2>2, EndKeeps, Writers DEF Kill, files, cycle
  <2>3. QED
    BY <2>1, <2>2 DEF Writer
<1>6. CASE UNCHANGED vars
  BY <1>6, ApprovedFrame DEF vars, files, cycle, history
<1>7. QED
  BY <1>1, <1>2, <1>3, <1>4, <1>5, <1>6 DEF Next

----------------------------------------------------------------------------
(* The marks.                                                              *)

\* What the approvers do is no concern of the cycle.
LEMMA ProcessedFrame ==
  ASSUME ProcessedInv, UNCHANGED <<processed, dirs, reset, marked, unsafe>>,
         at'[Cycle] = at[Cycle], hold'[Cycle] = hold[Cycle], job'[Cycle] = job[Cycle]
  PROVE  ProcessedInv'
BY DEF ProcessedInv, KnowsFile, Progress, ResetSeen, dirs

\* The cycle begins, ends, or its process dies.
LEMMA CycleEnds ==
  ASSUME TypeInv, ProcessedInv, Ends(Cycle), UNCHANGED <<processed, dirs, reset, unsafe>>,
         marked' = IF at[Cycle] = "write" THEN {} ELSE marked
  PROVE  ProcessedInv'
<1>1. at'[Cycle] = "idle" /\ hold'[Cycle] = {} /\ job'[Cycle] = NoJob
  BY Writers DEF Ends, Goes, TypeInv
<1>2. QED
  BY <1>1 DEF ProcessedInv, KnowsFile, Progress, ResetSeen, dirs

\* A cycle begins with what the file holds.
LEMMA BeginCycleKeeps ==
  ASSUME TypeInv, ProcessedInv, BeginCycle
  PROVE  ProcessedInv'
<1>1. /\ at'[Cycle] = "approvals" /\ hold'[Cycle] = Load(processed)
      /\ job'[Cycle] = NoJob /\ at[Cycle] = "idle" /\ job[Cycle] = NoJob
      /\ UNCHANGED <<processed, dirs, reset, marked, unsafe>>
  BY Writers DEF BeginCycle, Goes, TypeInv, files, history
<1>2. QED
  BY <1>1 DEF ProcessedInv, KnowsFile, Progress, ResetSeen, dirs

\* A job the cycle takes is not in the file, and not unsafe unless it is
\* taken while a reset runs.
LEMMA PickKeeps ==
  ASSUME NEW j \in Job, TypeInv, ProcessedInv, Pick(j)
  PROVE  ProcessedInv'
<1>1. at[Cycle] = "pick" /\ job[Cycle] = NoJob /\ NoJob \notin Job
      /\ UNCHANGED <<processed, hold, dirs, reset, marked>>
  BY StateFilesAssumption DEF Pick, TypeInv, files
<1>2. CASE UNCHANGED <<at, job, unsafe>>
  BY <1>1, <1>2, ProcessedFrame
<1>3. CASE /\ j \notin hold[Cycle]
           /\ at'[Cycle] = "first" /\ job'[Cycle] = j
           /\ unsafe' = IF reset = "idle" THEN unsafe \ {j} ELSE unsafe \cup {j}
  <2>1. j \notin Load(processed)
    BY <1>1, <1>3 DEF ProcessedInv, KnowsFile
  <2>2. QED
    BY <1>1, <1>3, <2>1 DEF ProcessedInv, KnowsFile, Progress, ResetSeen, dirs
<1>4. QED
  BY <1>2, <1>3, Writers DEF Pick, TypeInv, Goes, Writing

\* The steps of a job change its own directories, and only add to them.
LEMMA WorkKeeps ==
  ASSUME TypeInv, ProcessedInv, Deliver \/ \E p \in Part : Work(p)
  PROVE  ProcessedInv'
<1>1. /\ job[Cycle] \in Job
      /\ UNCHANGED <<processed, hold, job, reset, marked, unsafe>>
      /\ at[Cycle] \in {"first", "second", "deliver"}
      /\ at'[Cycle] \in {"second", "deliver", "truncate"}
  BY Writers DEF Deliver, Work, Writing, Part, Goes, TypeInv, files, history
<1>2. \A j \in Job : outbox[j] = Part => outbox'[j] = Part
  <2>1. \A j \in Job : work[j] \subseteq Part /\ outbox[j] \subseteq Part
    BY DEF TypeInv
  <2>2. outbox \in [Job -> SUBSET Part]
    BY DEF TypeInv
  <2>3. outbox' = outbox \/ outbox' = [outbox EXCEPT ![job[Cycle]] = @ \cup work[job[Cycle]]]
    BY DEF Deliver, Work
  <2>4. QED
    BY <1>1, <2>1, <2>2, <2>3
<1>3. ASSUME job[Cycle] \notin unsafe
      PROVE  /\ at'[Cycle] = "second" => 1 \in work'[job[Cycle]]
             /\ at'[Cycle] = "deliver" => work'[job[Cycle]] = Part
             /\ at'[Cycle] = "truncate" => outbox'[job[Cycle]] = Part
  <2>1. CASE Deliver
    <3>1. work[job[Cycle]] = Part /\ outbox[job[Cycle]] \subseteq Part
      BY <1>1, <1>3, <2>1 DEF Deliver, ProcessedInv, Progress, TypeInv
    <3>2. at'[Cycle] = "truncate" /\ outbox'[job[Cycle]] = Part
      BY <1>1, <2>1, <3>1, Writers DEF Deliver, Goes, TypeInv
    <3>3. QED
      BY <3>2
  <2>2. CASE Work(1)
    BY <1>1, <2>2, Writers DEF Work, Writing, Goes, TypeInv
  <2>3. CASE Work(2)
    <3>1. 1 \in work[job[Cycle]] /\ work[job[Cycle]] \subseteq Part
      BY <1>1, <1>3, <2>3 DEF Work, Writing, ProcessedInv, Progress, TypeInv
    <3>2. at'[Cycle] = "deliver" /\ work'[job[Cycle]] = Part
      BY <1>1, <2>3, <3>1, Writers DEF Work, Writing, Goes, TypeInv, Part
    <3>3. QED
      BY <3>2
  <2>4. QED
    BY <2>1, <2>2, <2>3 DEF Part
<1>4. Progress'
  <2>1. Load(processed) \cup hold[Cycle] \subseteq Job
    BY Writers DEF TypeInv, File, Load
  <2>2. QED
    BY <1>1, <1>2, <1>3, <2>1 DEF ProcessedInv, Progress
<1>5. QED
  BY <1>1, <1>4 DEF ProcessedInv, KnowsFile, ResetSeen

\* A job is marked when it is delivered, or unsafe, with all the cycle knows.
LEMMA MarkKeeps ==
  ASSUME TypeInv, ProcessedInv, TruncateProcessed \/ WriteProcessed \/ WriteRemovedProcessed
  PROVE  ProcessedInv'
<1>1. CASE TruncateProcessed
  <2>1. /\ at[Cycle] = "truncate" /\ at'[Cycle] = "write" /\ processed' = Empty
        /\ hold'[Cycle] = hold[Cycle] \cup {job[Cycle]} /\ job[Cycle] \in Job
        /\ UNCHANGED <<job, dirs, reset, marked, unsafe>>
    BY <1>1, Writers DEF TruncateProcessed, Goes, TypeInv, history
  <2>2. job[Cycle] # NoJob
    BY <2>1, StateFilesAssumption
  <2>3. QED
    BY <2>1, <2>2 DEF ProcessedInv, KnowsFile, Progress, ResetSeen, dirs, Load, Empty
<1>2. CASE WriteProcessed
  <2>1. /\ at[Cycle] = "write" /\ at'[Cycle] = "pick" /\ job'[Cycle] = NoJob
        /\ processed' = Overwrite(processed, hold[Cycle])
        /\ marked' = marked \cup {job[Cycle]}
        /\ UNCHANGED <<hold, dirs, reset, unsafe>>
    BY <1>2, Writers DEF WriteProcessed, Goes, TypeInv
  <2>2. Load(processed)' = hold[Cycle]
    <3>1. hold[Cycle] \in SUBSET Job /\ processed \in File
      BY Writers DEF TypeInv
    <3>2. QED
      BY <2>1, <3>1, Written DEF ProcessedInv, KnowsFile
  <2>3. QED
    BY <2>1, <2>2 DEF ProcessedInv, KnowsFile, Progress, ResetSeen, dirs
<1>3. CASE WriteRemovedProcessed
  <2>1. /\ at[Cycle] = "removed" /\ at'[Cycle] = "pick" /\ job'[Cycle] = NoJob
        /\ UNCHANGED <<processed, hold, dirs, reset, marked, unsafe>>
    BY <1>3, Writers DEF WriteRemovedProcessed, Goes, TypeInv, files, history
  <2>2. QED
    BY <2>1 DEF ProcessedInv, KnowsFile, Progress, ResetSeen, dirs
<1>4. QED
  BY <1>1, <1>2, <1>3

\* Reset empties the outbox only after it saw what it takes away.
LEMMA ResetKeepsMarks ==
  ASSUME TypeInv, ProcessedInv, ResetStep
  PROVE  ProcessedInv'
<1>1. CASE UnlinkProcessed
  <2>1. /\ processed' = Empty /\ marked' = {} /\ UNCHANGED <<hold, job, dirs>>
        /\ at'[Cycle] = IF at[Cycle] = "write" THEN "removed" ELSE at[Cycle]
        /\ unsafe' = unsafe \cup hold[Cycle] \cup ({job[Cycle]} \ {NoJob})
    BY <1>1, Writers DEF UnlinkProcessed, Unlinked, TypeInv
  <2>2. job[Cycle] \notin unsafe' => at[Cycle] \in {"idle", "approvals", "pick"}
    BY <2>1, StateFilesAssumption DEF TypeInv
  <2>3. QED
    BY <2>1, <2>2 DEF ProcessedInv, KnowsFile, Progress, ResetSeen, dirs, Load, Empty
<1>2. CASE UnlinkApproved
  <2>1. at'[Cycle] = at[Cycle]
    BY <1>2, Writers DEF UnlinkApproved, Unlinked, TypeInv
  <2>2. QED
    BY <1>2, <2>1 DEF UnlinkApproved, ProcessedInv, KnowsFile, Progress, ResetSeen, dirs, cycle
<1>3. CASE ClearWork \/ ClearOutbox
  <2>1. /\ reset # "idle" /\ UNCHANGED <<processed, at, hold, job, marked, unsafe>>
    BY <1>3 DEF ClearWork, ClearOutbox, files, history
  <2>2. Load(processed) \cup hold[Cycle] \cup ({job[Cycle]} \ {NoJob}) \subseteq unsafe
    BY <2>1 DEF ProcessedInv, ResetSeen
  <2>3. job[Cycle] \notin unsafe => at[Cycle] \in {"idle", "approvals", "pick"}
    BY <2>2, StateFilesAssumption DEF TypeInv
  <2>4. QED
    BY <2>1, <2>2, <2>3 DEF ProcessedInv, KnowsFile, Progress, ResetSeen
<1>4. QED
  BY <1>1, <1>2, <1>3 DEF ResetStep

\* Every step keeps the marks.
LEMMA ProcessedStep == TypeInv /\ ProcessedInv /\ [Next]_vars => ProcessedInv'
<1> SUFFICES ASSUME TypeInv, ProcessedInv, [Next]_vars PROVE ProcessedInv'
  OBVIOUS
<1>1. ASSUME NEW w \in Approver, ApproverStep(w) \/ \E j \in Job : BeginApprove(w, j)
      PROVE  ProcessedInv'
  <2>1. at'[Cycle] = at[Cycle] /\ hold'[Cycle] = hold[Cycle] /\ job'[Cycle] = job[Cycle]
    BY <1>1, Writers DEF ApproverStep, TruncateApproved, WriteApproved, WriteRemoved, BeginApprove,
      Ends, Goes, TypeInv
  <2>2. UNCHANGED <<processed, dirs, reset, marked, unsafe>>
    BY <1>1 DEF ApproverStep, TruncateApproved, WriteApproved, WriteRemoved, BeginApprove, files, history
  <2>3. QED
    BY <2>1, <2>2, ProcessedFrame
<1>2. CASE CycleStep
  <2>1. CASE ReadApprovals
    <3>1. at[Cycle] = "approvals" /\ at'[Cycle] = "pick"
      BY <2>1, Writers DEF ReadApprovals, Goes, TypeInv
    <3>2. QED
      BY <2>1, <3>1 DEF ReadApprovals, ProcessedInv, KnowsFile, Progress, ResetSeen, files, dirs, history
  <2>2. CASE EndCycle
    BY <2>2, CycleEnds DEF EndCycle, files, history
  <2>3. QED
    BY <1>2, <2>1, <2>2, BeginCycleKeeps, PickKeeps, WorkKeeps, MarkKeeps DEF CycleStep
<1>3. CASE ResetStep
  BY <1>3, ResetKeepsMarks
<1>4. ASSUME NEW w \in Writer, Kill(w) PROVE ProcessedInv'
  <2>1. CASE w = Cycle
    BY <1>4, <2>1, CycleEnds DEF Kill, files
  <2>2. CASE w # Cycle
    <3>1. at'[Cycle] = at[Cycle] /\ hold'[Cycle] = hold[Cycle] /\ job'[Cycle] = job[Cycle]
      BY <1>4, <2>2, Writers DEF Kill, Ends, Goes, TypeInv
    <3>2. QED
      BY <1>4, <2>2, <3>1, ProcessedFrame DEF Kill, files
  <2>3. QED
    BY <2>1, <2>2
<1>5. CASE UNCHANGED vars
  BY <1>5, ProcessedFrame DEF vars, files, history
<1>6. QED
  BY <1>1, <1>2, <1>3, <1>4, <1>5 DEF Next
----------------------------------------------------------------------------
\* The inductive invariant holds throughout.
LEMMA InvAlways == Spec => []Inv
<1>1. Inv /\ [Next]_vars => Inv'
  BY TypeStep, ApprovedStep, ProcessedStep DEF Inv
<1>2. QED
  BY <1>1, InitInv, PTL DEF Spec

\* Whatever approve commands, dashboard, cycle and reset do between the read
\* and the write of approved.json, an acknowledged approval is lost only if
\* another writer came across it, and nothing is taken for approved that is
\* not in force, but for what was read before a reset.
THEOREM ApprovalsAlwaysKept == Spec => []ApprovalsKept
<1>1. Inv => ApprovalsKept
  BY DEF Inv, ApprovedInv, KeptUnlessRisky, HoldsInForce, ApprovalsKept
<1>2. QED
  BY <1>1, InvAlways, PTL

\* A job that processed.json names was delivered whole, but for one a reset
\* ran across, and what a cycle marked stays marked.
THEOREM MarksAlwaysMatchOutbox == Spec => []MarksMatchOutbox
<1>1. Inv => MarksMatchOutbox
  BY DEF Inv, ProcessedInv, KnowsFile, Progress, MarksMatchOutbox
<1>2. QED
  BY <1>1, InvAlways, PTL
============================================================================
