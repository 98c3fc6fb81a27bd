---------------------------- MODULE MCPressLine ----------------------------
(***************************************************************************)
(* Constants for TLC.  A step stands for about five minutes where timers   *)
(* and scenarios are compared: the Setup timer draws 3-10 minutes and the  *)
(* Fault timer 1-10, a changeover keeps the press in Setup for 10.5-31, a  *)
(* stop lasts 5-60, a web break 15-60 and a handover 5-15.                 *)
(***************************************************************************)
EXTENDS PressLine

MCPriority ==
  [c \in Class |->
     CASE c \in {"ShiftChange", "MaterialSplice"} -> "non_state_changing"
       [] c = "MicroStop" -> "micro"
       [] c = "BearingWear" -> "background"
       [] OTHER -> "state_changing"]

MCLength ==
  [c \in Class |->
     IF c = "JobChangeover" THEN {5, 6}
     ELSE IF c = "WebBreak" THEN {4, 5}
     ELSE IF c = "MaterialSplice" THEN {4}
     ELSE IF c = "UnplannedStop" THEN {3, 4} ELSE {3}]

=============================================================================
