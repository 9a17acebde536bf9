---------------------------- MODULE MCWorkshop ----------------------------
(***************************************************************************)
(* Two sub-tasks that write the same page, with a cache and a fallback, or *)
(* with the offline placeholder and the quality gate, or with a kill.      *)
(***************************************************************************)
EXTENDS Workshop

MCSetups ==
  { [fallback |-> "small", offline |-> TRUE, caching |-> TRUE, quality |-> FALSE,
     answers |-> {{"page", "notes"}}, tokens |-> 0, kills |-> 0],
    [fallback |-> "code", offline |-> TRUE, caching |-> FALSE, quality |-> TRUE,
     answers |-> {{"page", "notes"}}, tokens |-> 1, kills |-> 0],
    [fallback |-> None, offline |-> FALSE, caching |-> TRUE, quality |-> FALSE,
     answers |-> {{"page"}}, tokens |-> 0, kills |-> 1] }
============================================================================
