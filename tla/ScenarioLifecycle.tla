------------------------- MODULE ScenarioLifecycle -------------------------
(***************************************************************************)
(* What the scenario engine promises to everybody downstream of it (the    *)
(* equipment generators, the ground truth file and the evaluator):         *)
(*                                                                         *)
(*   - every scenario instance is pending, then active, then completed,    *)
(*     and never goes back;                                                *)
(*   - as long as the ground truth file can be written, each start and     *)
(*     each end is written once, at the moment it happens;                 *)
(*   - a scenario that only disturbs signals never runs beside one that    *)
(*     changes the machine state.                                          *)
(*                                                                         *)
(* Ticks, deadlines, the order of the timeline, preemption and deferral    *)
(* are not visible here; ScenarioEngine implements this specification.     *)
(***************************************************************************)
EXTENDS Naturals, Sequences

CONSTANTS Scenario,       \* the scenario instances of one simulation
          Class,          \* the scenario classes (UnplannedStop, WebBreak, ...)
          Priority        \* Priority[c]: the priority attribute of class c

StateChanging == "state_changing"
NonStateChanging == "non_state_changing"
Priorities == {StateChanging, NonStateChanging, "background", "micro"}

VARIABLES class,          \* class[s]: the class of instance s, fixed for a run
          phase,          \* phase[s]: ScenarioPhase of instance s
          log,            \* scenario records of the ground truth file
          logging         \* whether the ground truth file can be written

vars == <<class, phase, log, logging>>

Phase == {"PENDING", "ACTIVE", "COMPLETED"}

Entry(event, s) == [event |-> event, scenario |-> s]
Entries == [event : {"scenario_start", "scenario_end"}, scenario : Scenario]

ActiveOf(prio) == {s \in Scenario : phase[s] = "ACTIVE" /\ Priority[class[s]] = prio}

(***************************************************************************)
(* A state-changing and a non-state-changing scenario exclude each other.  *)
(* Two of the same priority may overlap, and background and micro          *)
(* scenarios may run beside anything.                                      *)
(***************************************************************************)
MayRun(s) ==
  /\ Priority[class[s]] = StateChanging => ActiveOf(NonStateChanging) = {}
  /\ Priority[class[s]] = NonStateChanging => ActiveOf(StateChanging) = {}

Written(entries) == IF logging THEN log \o entries ELSE log

Init ==
  /\ class \in [Scenario -> Class]
  /\ phase = [s \in Scenario |-> "PENDING"]
  /\ log = <<>>
  /\ logging \in BOOLEAN

Start(s) ==
  /\ phase[s] = "PENDING"
  /\ MayRun(s)
  /\ phase' = [phase EXCEPT ![s] = "ACTIVE"]
  /\ log' = Written(<<Entry("scenario_start", s)>>)
  /\ UNCHANGED <<class, logging>>

Finish(s) ==
  /\ phase[s] = "ACTIVE"
  /\ phase' = [phase EXCEPT ![s] = "COMPLETED"]
  /\ log' = Written(<<Entry("scenario_end", s)>>)
  /\ UNCHANGED <<class, logging>>

\* A scenario shorter than a tick, or whose equipment the profile lacks.
Flash(s) ==
  /\ phase[s] = "PENDING"
  /\ MayRun(s)
  /\ phase' = [phase EXCEPT ![s] = "COMPLETED"]
  /\ log' = Written(<<Entry("scenario_start", s), Entry("scenario_end", s)>>)
  /\ UNCHANGED <<class, logging>>

\* A write error closes the ground truth file for the rest of the run.
LoseLog ==
  /\ logging
  /\ logging' = FALSE
  /\ UNCHANGED <<class, phase, log>>

Next ==
  \/ \E s \in Scenario : Start(s) \/ Finish(s) \/ Flash(s)
  \/ LoseLog

Spec == Init /\ [][Next]_vars

=============================================================================
