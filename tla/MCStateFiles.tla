--------------------------- MODULE MCStateFiles ---------------------------
(***************************************************************************)
(* Two jobs, one of them gated, an approve command beside the dashboard,   *)
(* which do the same; one reset and one death at any point.                *)
(***************************************************************************)
EXTENDS StateFiles, TLC

GatedFirst == [j \in Job |-> IF j \in Gated THEN 1 ELSE 2]
ApproversAlike == Permutations(Approver)
============================================================================
