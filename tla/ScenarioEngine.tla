--------------------------- MODULE ScenarioEngine ---------------------------
(***************************************************************************)
(* ScenarioEngine.tick (engine/scenario_engine.py) over the lifecycle of   *)
(* scenarios/base.py.                                                      *)
(*                                                                         *)
(* One call of tick() runs to its end without yielding to the event loop.  *)
(* It is modelled as the sequence of its loop iterations, in their order:  *)
(* Arbitrate (the priority pass), one Preempt per scenario that is cut     *)
(* short, one Evaluate per scenario of the list, then FinishTick.  Nothing *)
(* else can happen between them (pc), except that a write to the ground    *)
(* truth file may fail.                                                    *)
(*                                                                         *)
(* Data abstracted: times are counted in ticks, and what a scenario does   *)
(* to the equipment while it is active is left to the equipment modules.   *)
(***************************************************************************)
EXTENDS Naturals, Sequences

CONSTANTS N,              \* scenario instances of a run (bound of the model)
          Class,          \* scenario classes
          Priority,       \* Priority[c]: priority attribute of class c
          MinDuration,    \* shortest configured duration, and minimum gap, in ticks
          MaxDuration,    \* longest configured duration, in ticks
          Horizon,        \* last start time; the clock stops counting there
          MaxAdded,       \* scenarios added by hand (bound of the model)
          Watching        \* classes that wait for a condition of their equipment

Scenario == 1..N

StateChanging == "state_changing"
NonStateChanging == "non_state_changing"
Priorities == {StateChanging, NonStateChanging, "background", "micro"}

ASSUME EngineAssumption ==
  /\ N \in Nat
  /\ MinDuration \in Nat
  /\ MaxDuration \in Nat
  /\ Horizon \in Nat
  /\ MaxAdded \in 0..N
  /\ Priority \in [Class -> Priorities]
  /\ Watching \subseteq Class

VARIABLES class,          \* class[s]: class of the s-th scenario of the list
          start,          \* start[s]: its start_time
          duration,       \* duration[s]: drawn duration; 0 when its equipment is absent
          listed,         \* the first `listed` scenarios are in the engine's list
          phase,          \* phase[s]: ScenarioPhase
          elapsed,        \* elapsed[s]: ticks since activation, but those spent waiting
          now,            \* sim_time
          pc,             \* where tick() is
          cursor,         \* next scenario of the main evaluate loop
          due,            \* pending_due of this tick
          scActive,       \* active_state_changing at the end of the priority pass
          skip,           \* skip_ids of this tick
          victims,        \* active scenarios still to be preempted in this tick
          log,            \* scenario records of the ground truth file
          logging         \* whether the ground truth file can be written

timeline == <<class, start, duration>>
locals == <<due, scActive, skip>>
truth == <<log, logging>>
vars == <<timeline, listed, phase, elapsed, now, pc, cursor, locals, victims, truth>>

Prio(s) == Priority[class[s]]
Listed == 1..listed
InPhase(p) == {s \in Listed : phase[s] = p}
OfPriority(S, prio) == {s \in S : Prio(s) = prio}

Entry(event, s) == [event |-> event, scenario |-> s]
Entries == [event : {"scenario_start", "scenario_end"}, scenario : Scenario]

Written(entries) == IF logging THEN log \o entries ELSE log

-----------------------------------------------------------------------------
(***************************************************************************)
(* The generated timeline is sorted by start time, and consecutive         *)
(* instances of a class start at least the minimum duration apart          *)
(* (_poisson_starts).  Scenarios added by hand obey neither.               *)
(***************************************************************************)
GeneratedTimeline ==
  \A i, j \in Listed : i < j =>
    /\ start[i] <= start[j]
    /\ class[i] = class[j] => start[j] - start[i] >= MinDuration

\* A class whose equipment the profile lacks lacks it for every instance.
EquipmentOfClass ==
  \A s, t \in Scenario : class[s] = class[t] => (duration[s] = 0 <=> duration[t] = 0)

Init ==
  /\ class \in [Scenario -> Class]
  /\ start \in [Scenario -> 1..Horizon]
  /\ duration \in [Scenario -> {0} \union (MinDuration..MaxDuration)]
  /\ listed \in (N - MaxAdded)..N
  /\ GeneratedTimeline
  /\ EquipmentOfClass
  /\ phase = [s \in Scenario |-> "PENDING"]
  /\ elapsed = [s \in Scenario |-> 0]
  /\ now = 0
  /\ pc = "idle"
  /\ cursor = 1
  /\ due = {}
  /\ scActive = FALSE
  /\ skip = {}
  /\ victims = {}
  /\ log = <<>>
  /\ logging \in BOOLEAN

\* add_scenario: a scenario is appended to the list between two ticks.
AddScenario ==
  /\ pc = "idle"
  /\ listed < N
  /\ listed' = listed + 1
  /\ UNCHANGED <<timeline, phase, elapsed, now, pc, cursor, locals, victims, truth>>

-----------------------------------------------------------------------------
(***************************************************************************)
(* The priority pass.  pending_due is sorted by priority, ties in list     *)
(* order, so the state-changing scenario let through is the first due one  *)
(* of the list; the others due in this tick are deferred.  It preempts the *)
(* non-state-changing scenarios that were active when the tick began.      *)
(* A non-state-changing scenario is deferred while a state-changing one is *)
(* active or is let through; background and micro ones are never deferred. *)
(***************************************************************************)
DueAt(t) == {s \in InPhase("PENDING") : t >= start[s]}

First(S) == {s \in S : \A t \in S : s <= t}

Changing(D) == OfPriority(D, StateChanging)

\* Mutants of Blocked: the scenario let through in this tick is overlooked;
\* the active ones are; a completed state-changing scenario goes on blocking.
BlockedByActiveOnly(D) == OfPriority(InPhase("ACTIVE"), StateChanging) # {}
BlockedByDueOnly(D) == Changing(D) # {}
BlockedByCompleted(D) ==
  \/ Changing(D) # {}
  \/ OfPriority(InPhase("ACTIVE") \union InPhase("COMPLETED"), StateChanging) # {}

Blocked(D) == Changing(D) # {} \/ OfPriority(InPhase("ACTIVE"), StateChanging) # {}

\* Mutant of Deferred: two state changes in one tick.
DeferredWithoutFlag(D) ==
  IF Blocked(D) THEN OfPriority(D, NonStateChanging) ELSE {}

Deferred(D) ==
  (Changing(D) \ First(Changing(D)))
    \union (IF Blocked(D) THEN OfPriority(D, NonStateChanging) ELSE {})

\* Mutant of PreemptedBy: nothing is.
PreemptedNone(D) == {}

PreemptedBy(D) ==
  IF Changing(D) = {} THEN {} ELSE OfPriority(InPhase("ACTIVE"), NonStateChanging)

Arbitrate ==
  /\ pc = "idle"
  /\ now' = IF now < Horizon THEN now + 1 ELSE now
  /\ due' = DueAt(now')
  /\ scActive' = Blocked(due')
  /\ skip' = Deferred(due')
  /\ victims' = PreemptedBy(due')
  /\ cursor' = 1
  /\ pc' = "preempt"
  /\ UNCHANGED <<timeline, listed, phase, elapsed, truth>>

\* Mutant of Preempt: the scenario_end record is forgotten.
PreemptUnlogged ==
  /\ pc = "preempt"
  /\ \E s \in First(victims) :
       /\ phase' = [phase EXCEPT ![s] = "COMPLETED"]
       /\ victims' = victims \ {s}
  /\ UNCHANGED <<timeline, listed, elapsed, now, pc, cursor, locals, truth>>

\* complete() of the next preempted scenario, and its scenario_end record.
Preempt ==
  /\ pc = "preempt"
  /\ \E s \in First(victims) :
       /\ phase' = [phase EXCEPT ![s] = "COMPLETED"]
       /\ log' = Written(<<Entry("scenario_end", s)>>)
       /\ victims' = victims \ {s}
  /\ UNCHANGED <<timeline, listed, elapsed, now, pc, cursor, locals, logging>>

EndPreemption ==
  /\ pc = "preempt"
  /\ victims = {}
  /\ pc' = "evaluate"
  /\ UNCHANGED <<timeline, listed, phase, elapsed, now, cursor, locals, victims, truth>>

-----------------------------------------------------------------------------
(***************************************************************************)
(* The main evaluate loop: Scenario.evaluate() of the scenario at the      *)
(* cursor, and the records for the phase change that tick() observes.      *)
(***************************************************************************)
AtCursor(s) == pc = "evaluate" /\ s = cursor /\ cursor \in Listed

\* Mutant of Advance: the loop steps over the element after the current one.
AdvanceTwice ==
  /\ cursor' = cursor + 2
  /\ UNCHANGED <<timeline, listed, now, pc, locals, victims, logging>>

Advance ==
  /\ cursor' = cursor + 1
  /\ UNCHANGED <<timeline, listed, now, pc, locals, victims, logging>>

\* Completed, deferred, or not yet due: evaluate() leaves it alone; or its
\* _on_tick finds that what it waits for has not come about.
PassOver(s) ==
  /\ AtCursor(s)
  /\ \/ phase[s] = "COMPLETED"
     \/ s \in skip
     \/ phase[s] = "PENDING" /\ now < start[s]
     \/ phase[s] = "ACTIVE" /\ class[s] \in Watching
  /\ UNCHANGED <<phase, elapsed, log>>
  /\ Advance

\* _on_activate, then the first _on_tick of the same call.
Activate(s) ==
  /\ AtCursor(s)
  /\ s \notin skip
  /\ phase[s] = "PENDING"
  /\ now >= start[s]
  /\ duration[s] > 1
  /\ phase' = [phase EXCEPT ![s] = "ACTIVE"]
  /\ elapsed' = [elapsed EXCEPT ![s] = 1]
  /\ log' = Written(<<Entry("scenario_start", s)>>)
  /\ Advance

\* complete() is called within the activating evaluate(): the equipment is
\* absent, or the duration is over at the first tick.
ActivateAndComplete(s) ==
  /\ AtCursor(s)
  /\ s \notin skip
  /\ phase[s] = "PENDING"
  /\ now >= start[s]
  /\ duration[s] <= 1
  /\ phase' = [phase EXCEPT ![s] = "COMPLETED"]
  /\ elapsed' = [elapsed EXCEPT ![s] = duration[s]]
  /\ log' = Written(<<Entry("scenario_start", s), Entry("scenario_end", s)>>)
  /\ Advance

Continue(s) ==
  /\ AtCursor(s)
  /\ phase[s] = "ACTIVE"
  /\ elapsed[s] + 1 < duration[s]
  /\ elapsed' = [elapsed EXCEPT ![s] = @ + 1]
  /\ UNCHANGED <<phase, log>>
  /\ Advance

RunOut(s) ==
  /\ AtCursor(s)
  /\ phase[s] = "ACTIVE"
  /\ elapsed[s] + 1 >= duration[s]
  /\ elapsed' = [elapsed EXCEPT ![s] = @ + 1]
  /\ phase' = [phase EXCEPT ![s] = "COMPLETED"]
  /\ log' = Written(<<Entry("scenario_end", s)>>)
  /\ Advance

Evaluate(s) ==
  PassOver(s) \/ Activate(s) \/ ActivateAndComplete(s) \/ Continue(s) \/ RunOut(s)

TickDone == pc = "evaluate" /\ cursor = listed + 1

\* tick() returns; its locals are gone.
FinishTick ==
  /\ TickDone
  /\ pc' = "idle"
  /\ cursor' = 1
  /\ due' = {}
  /\ scActive' = FALSE
  /\ skip' = {}
  /\ UNCHANGED <<timeline, listed, phase, elapsed, now, victims, truth>>

\* _write_line: an OSError disables the logger for good.
LoseLog ==
  /\ logging
  /\ logging' = FALSE
  /\ UNCHANGED <<timeline, listed, phase, elapsed, now, pc, cursor, locals, victims, log>>

-----------------------------------------------------------------------------
TickStep ==
  \/ Arbitrate
  \/ Preempt
  \/ EndPreemption
  \/ \E s \in Scenario : Evaluate(s)
  \/ FinishTick

Next == TickStep \/ AddScenario \/ LoseLog

Spec == Init /\ [][Next]_vars

\* DataEngine.run() calls tick() for ever: the steps of a tick are never put off.
FairSpec == Spec /\ WF_vars(TickStep)

-----------------------------------------------------------------------------
TypeOK ==
  /\ class \in [Scenario -> Class]
  /\ start \in [Scenario -> 0..Horizon]
  /\ duration \in [Scenario -> Nat]
  /\ listed \in 0..N
  /\ phase \in [Scenario -> {"PENDING", "ACTIVE", "COMPLETED"}]
  /\ elapsed \in [Scenario -> Nat]
  /\ now \in 0..Horizon
  /\ pc \in {"idle", "preempt", "evaluate"}
  /\ cursor \in 1..N+1
  /\ due \in SUBSET Scenario
  /\ scActive \in BOOLEAN
  /\ skip \in SUBSET Scenario
  /\ victims \in SUBSET Scenario
  /\ log \in Seq(Entries)
  /\ logging \in BOOLEAN

\* A scenario that disturbs signals is never active beside one that changes
\* the machine state, whatever the order in which they fall due, are added,
\* are preempted and end (tick, conflict resolution).
Exclusion ==
  \A s, t \in InPhase("ACTIVE") :
    ~ (Prio(s) = StateChanging /\ Prio(t) = NonStateChanging)

\* Of the state-changing scenarios due in a tick exactly one starts: the
\* first of the list.  The others wait, none is lost (activated_sc_this_tick).
OneStateChangePerTick ==
  TickDone => \A s \in Changing(due) : phase[s] # "PENDING" <=> s \in First(Changing(due))

\* Only a non-state-changing scenario is ever cut short of its duration;
\* every other scenario that completes has run to its own end.
OnlyDisturbancesCutShort ==
  \A s \in InPhase("COMPLETED") : elapsed[s] >= duration[s] \/ Prio(s) = NonStateChanging

\* Background and micro scenarios start in the tick they fall due, and a
\* scenario that is left waiting waits for a state change.
WaitsOnlyForStateChange ==
  TickDone => \A s \in due : phase[s] = "PENDING" =>
    /\ Prio(s) \in {StateChanging, NonStateChanging}
    /\ \E t \in Listed \ {s} : Prio(t) = StateChanging /\ phase[t] # "PENDING"

\* The ground truth file tells the truth: a record is written at most once,
\* no record runs ahead of the scenario, an end comes after its start, and
\* nothing is missing while the file can be written.
WrittenOnce == \A i, j \in DOMAIN log : log[i] = log[j] => i = j

NoneAhead ==
  \A i \in DOMAIN log :
    /\ phase[log[i].scenario] # "PENDING"
    /\ log[i].event = "scenario_end" => phase[log[i].scenario] = "COMPLETED"

EndAfterStart ==
  \A i \in DOMAIN log : log[i].event = "scenario_end" =>
    \E j \in DOMAIN log : j < i /\ log[j] = Entry("scenario_start", log[i].scenario)

NothingMissing ==
  logging => \A s \in Scenario :
    /\ phase[s] # "PENDING" => \E i \in DOMAIN log : log[i] = Entry("scenario_start", s)
    /\ phase[s] = "COMPLETED" => \E i \in DOMAIN log : log[i] = Entry("scenario_end", s)

LogFaithful == WrittenOnce /\ NoneAhead /\ EndAfterStart /\ NothingMissing

\* Every scenario of the list is eventually run to completion: deferral and
\* preemption starve nobody while the tick loop keeps running, whatever the
\* scenarios that wait for their equipment do; those may wait for ever.
EveryScenarioCompletes ==
  \A s \in Scenario :
    (s \in Listed /\ class[s] \notin Watching) ~> (phase[s] = "COMPLETED")

\* The engine implements the lifecycle promised to its readers.
Lifecycle == INSTANCE ScenarioLifecycle
ImplementsLifecycle == Lifecycle!Spec

=============================================================================
