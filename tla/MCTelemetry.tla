---------------------------- MODULE MCTelemetry ----------------------------
(***************************************************************************)
(* Telemetry of a job of two sub-tasks, with and without a dashboard that  *)
(* fails to answer.                                                        *)
(***************************************************************************)
EXTENDS Telemetry
============================================================================
