-------------------------- MODULE MCPressOverrides --------------------------
(* Values of the constants of PressOverrides for TLC. *)
EXTENDS PressOverrides

MCPriority ==
  [c \in Class |->
     IF c \in {"JobChangeover", "WebBreak", "UnplannedStop"}
     THEN "state_changing" ELSE "non_state_changing"]

=============================================================================
