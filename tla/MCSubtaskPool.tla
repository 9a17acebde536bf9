--------------------------- MODULE MCSubtaskPool ---------------------------
(***************************************************************************)
(* SubtaskPool on every two-level plan of four sub-tasks and every worker  *)
(* count from one to three.                                                *)
(***************************************************************************)
EXTENDS SubtaskPool
============================================================================
