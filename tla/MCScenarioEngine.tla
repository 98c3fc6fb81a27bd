-------------------------- MODULE MCScenarioEngine --------------------------
(* Values of the constants of ScenarioEngine and Evaluation for TLC. *)
EXTENDS Evaluation

\* Each way a scenario takes part in conflict resolution, and two classes that
\* change the state: instances of one class do not start close together.  A
\* background class is treated like a micro one.
MCClass == {"UnplannedStop", "WebBreak", "DryerDrift", "MicroStop"}

MCPriority ==
  [c \in MCClass |->
     CASE c \in {"UnplannedStop", "WebBreak"} -> StateChanging
       [] c = "DryerDrift" -> NonStateChanging
       [] c = "MicroStop" -> "micro"]

MCSeverity ==
  [c \in MCClass |->
     CASE c = "WebBreak" -> 10 [] c = "UnplannedStop" -> 5 [] c = "DryerDrift" -> 3 [] OTHER -> 1]

=============================================================================
