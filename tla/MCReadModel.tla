---------------------------- MODULE MCReadModel ----------------------------
(***************************************************************************)
(* ReadModel on every sequence of a few events of a task with one sub-task *)
(* on two days.                                                            *)
(***************************************************************************)
EXTENDS ReadModel
============================================================================
