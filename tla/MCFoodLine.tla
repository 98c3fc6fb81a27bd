----------------------------- MODULE MCFoodLine -----------------------------
(* Values of the constants of FoodLine for TLC. *)
EXTENDS FoodLine

MCPriority ==
  [c \in Class |->
     IF c \in {"CipCycle", "ColdChainBreak", "SealIntegrityFailure"}
     THEN "state_changing" ELSE "non_state_changing"]

\* The generators run every second tick, and a batch loads for one tick more.
MCEarliest == <<3, 4, 5, 6>>

\* Batches with no time to spare and with a tick more; a CIP cycle that times out in the
\* acid wash of the skid, and one that does not; a failure that outlasts the
\* minimum gap of its class.
MCDurations ==
  [c \in Class |->
     CASE c = "CipCycle" -> {4, 7}
       [] c = "BatchCycle" -> {6, 7}
       [] c = "ColdChainBreak" -> {4, 7}
       [] c = "OvenThermalExcursion" -> {4}
       [] OTHER -> {6}]

=============================================================================
