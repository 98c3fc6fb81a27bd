----------------------------- MODULE CoderLine ------------------------------
(***************************************************************************)
(* The coder (generators/coder.py), which follows the state of the press,  *)
(* under the two scenarios that concern it: the replacement of its ink     *)
(* cartridge (scenarios/coder_depletion.py) and an anomaly that is         *)
(* injected into the store while a machine is in a state that contradicts  *)
(* it (scenarios/contextual_anomaly.py).                                   *)
(*                                                                         *)
(* A tick is: perhaps a state change begins and cuts the active scenarios  *)
(* short; each scenario is evaluated; the press and then the coder run if  *)
(* they are due; the anomaly is injected.  The press moves as it likes     *)
(* (PressLine); start times and timers are nondeterministic.               *)
(***************************************************************************)
EXTENDS Naturals

CONSTANTS K,                         \* cartridge scenarios of a run (bound)
          Full, Low, RefillAt, Empty, \* ink levels: initial, flagged, refilled, fault
          Moves,                     \* states the press moves to
          InitialPress,              \* states the press starts in
          MaxWait                    \* ticks an anomaly waits or lasts (bound)

ASSUME CoderAssumption ==
  /\ K \in Nat /\ MaxWait \in Nat
  /\ Empty \in Nat \ {0} /\ RefillAt \in Nat /\ Low \in Nat /\ Full \in Nat
  /\ Empty < RefillAt /\ RefillAt < Low /\ Low < Full

Cartridges == 1..K
Anomaly == K + 1
Scenarios == 1..Anomaly
Never == 0                           \* refill_threshold None
CoderStates == {"Off", "Ready", "Printing", "Fault", "Standby"}

VARIABLES press,       \* press.machine_state in the store
          coder,       \* current_state of the coder's state machine
          stored,      \* coder.state in the store
          ink,         \* _ink_level
          refillAt,    \* its _refill_threshold
          locked,      \* whether Fault -> Ready has its timer set to 1e9 s
          uncertain,   \* the quality override of ink_level
          phase,       \* phase[s]: phase of the scenario, with its internal one
          flagged,     \* flagged[s]: _low_ink_flagged
          savedRefill, \* savedRefill[s]: _saved_refill_threshold
          savedLock,   \* savedLock[s]: the timer of Fault -> Ready it saved
          kind,        \* type of the anomaly
          waited,      \* ticks the anomaly has waited, or injected
          told,        \* whether its ground truth record is written
          shown,       \* whether the store holds the injected value
          pc, cursor, victims,
          overlapped   \* whether two cartridge scenarios have been active at once

machine == <<coder, ink, refillAt, locked, uncertain>>
copies == <<flagged, savedRefill, savedLock, overlapped>>
anomaly == <<waited, told>>
storeEntries == <<press, stored, shown>>
loop == <<pc, cursor, victims>>
coderVars == <<machine, phase, copies, kind, anomaly, storeEntries, loop>>

IsActive(s) == phase[s] \notin {"pending", "completed"}
ActiveCartridges == {s \in Cartridges : IsActive(s)}

CoderInit ==
  /\ press \in InitialPress
  /\ coder = "Ready" /\ stored = "Ready"
  /\ ink = Full /\ refillAt = RefillAt
  /\ locked = FALSE /\ uncertain = FALSE
  /\ phase = [s \in Scenarios |-> "pending"]
  /\ flagged = [s \in Cartridges |-> FALSE]
  /\ savedRefill = [s \in Cartridges |-> Never]
  /\ savedLock = [s \in Cartridges |-> FALSE]
  /\ kind \in {"heater_stuck", "pressure_bleed", "counter_false_trigger"}
  /\ waited = 0 /\ told = FALSE /\ shown = FALSE
  /\ pc = "begin" /\ cursor = 1 /\ victims = {}
  /\ overlapped = FALSE

-----------------------------------------------------------------------------
(***************************************************************************)
(* CoderDepletion.  It disables the refill of the ink model and watches    *)
(* the level: a low level is flagged, an empty cartridge faults the coder  *)
(* and locks the fault until the cartridge is replaced.  However it ends,  *)
(* the cartridge is replaced and the coder forced to Ready.                *)
(***************************************************************************)
BeginMonitoring(s) ==
  /\ savedRefill' = [savedRefill EXCEPT ![s] = refillAt]
  /\ refillAt' = Never
  /\ overlapped' = (overlapped \/ ActiveCartridges # {})

LevelFine(s) ==
  /\ ink > Empty
  /\ ink > Low \/ flagged[s]
  /\ phase' = [phase EXCEPT ![s] = "monitoring"]
  /\ UNCHANGED <<coder, locked, uncertain, flagged, savedLock>>

LevelLow(s) ==
  /\ ink > Empty /\ ink <= Low /\ ~ flagged[s]
  /\ phase' = [phase EXCEPT ![s] = "monitoring"]
  /\ uncertain' = TRUE
  /\ flagged' = [flagged EXCEPT ![s] = TRUE]
  /\ UNCHANGED <<coder, locked, savedLock>>

\* Mutant of EnterDepleted: the timer of the fault is left alone.
EnterDepletedUnlocked(s) ==
  /\ ink <= Empty
  /\ phase' = [phase EXCEPT ![s] = "depleted"]
  /\ uncertain' = TRUE
  /\ flagged' = [flagged EXCEPT ![s] = TRUE]
  /\ coder' = "Fault"
  /\ UNCHANGED <<locked, savedLock>>

EnterDepleted(s) ==
  /\ ink <= Empty
  /\ phase' = [phase EXCEPT ![s] = "depleted"]
  /\ uncertain' = (uncertain \/ ~ flagged[s])
  /\ flagged' = [flagged EXCEPT ![s] = TRUE]
  /\ coder' = "Fault"
  /\ savedLock' = [savedLock EXCEPT ![s] = locked]
  /\ locked' = TRUE

MonitoringTick(s) == (LevelFine(s) \/ LevelLow(s) \/ EnterDepleted(s)) /\ UNCHANGED ink

Replace(s) ==
  /\ phase' = [phase EXCEPT ![s] = "completed"]
  /\ ink' = Full
  /\ uncertain' = FALSE
  /\ refillAt' = savedRefill[s]
  /\ locked' = IF phase[s] = "depleted" THEN savedLock[s] ELSE locked
  /\ coder' = "Ready"
  /\ UNCHANGED copies

StartCartridge(s) ==
  /\ phase[s] = "pending"
  /\ BeginMonitoring(s)
  /\ MonitoringTick(s)

WatchCartridge(s) ==
  /\ phase[s] = "monitoring"
  /\ MonitoringTick(s)
  /\ UNCHANGED <<refillAt, savedRefill, overlapped>>

AwaitReplacement(s) ==
  /\ phase[s] = "depleted"
  /\ UNCHANGED <<machine, phase, copies>>

EndReplacement(s) == phase[s] = "depleted" /\ Replace(s)

-----------------------------------------------------------------------------
(***************************************************************************)
(* ContextualAnomaly.  The state it looks at is that of the store, which   *)
(* the generators of the previous ticks wrote.                             *)
(***************************************************************************)
InTarget ==
  CASE kind = "heater_stuck" -> stored \in {"Off", "Standby"}
    [] kind = "pressure_bleed" -> stored = "Off"
    [] kind = "counter_false_trigger" -> press = "Idle"

EndAnomaly ==
  /\ phase' = [phase EXCEPT ![Anomaly] = "completed"]
  /\ UNCHANGED anomaly

\* The ground truth record, before anything is injected.
LogGtStart == told' = TRUE

StartAnomaly ==
  /\ phase[Anomaly] = "pending"
  /\ phase' = [phase EXCEPT ![Anomaly] = IF InTarget THEN "injecting" ELSE "waiting"]
  /\ IF InTarget THEN LogGtStart ELSE UNCHANGED told
  /\ waited' = 0

GiveUp == phase[Anomaly] = "waiting" /\ waited = MaxWait /\ EndAnomaly

StartInjecting ==
  /\ phase[Anomaly] = "waiting"
  /\ waited < MaxWait
  /\ InTarget
  /\ phase' = [phase EXCEPT ![Anomaly] = "injecting"]
  /\ LogGtStart
  /\ waited' = 0

WaitOn ==
  /\ phase[Anomaly] = "waiting"
  /\ waited < MaxWait
  /\ ~ InTarget
  /\ waited' = waited + 1
  /\ UNCHANGED <<phase, told>>

StateLeft == phase[Anomaly] = "injecting" /\ ~ InTarget /\ EndAnomaly

InjectOn ==
  /\ phase[Anomaly] = "injecting"
  /\ InTarget
  /\ waited < MaxWait
  /\ waited' = waited + 1
  /\ UNCHANGED <<phase, told>>

InjectedEnough ==
  /\ phase[Anomaly] = "injecting"
  /\ InTarget
  /\ EndAnomaly

-----------------------------------------------------------------------------
(***************************************************************************)
(* ScenarioEngine.tick: a state change preempts what is active, in list    *)
(* order; then every scenario is evaluated, those not due, deferred or     *)
(* completed being left alone.                                             *)
(***************************************************************************)
Begin ==
  /\ pc = "begin"
  /\ pc' = "scenarios" /\ cursor' = 1
  /\ \/ victims' = {}
     \/ victims' = {s \in Scenarios : IsActive(s)}
  /\ UNCHANGED <<machine, phase, copies, kind, anomaly, storeEntries>>

Preempt ==
  /\ pc = "scenarios"
  /\ \E s \in victims :
       /\ \A t \in victims : s <= t
       /\ victims' = victims \ {s}
       /\ \/ s \in Cartridges /\ Replace(s) /\ UNCHANGED anomaly
          \/ s = Anomaly /\ EndAnomaly /\ UNCHANGED <<machine, copies>>
  /\ UNCHANGED <<kind, storeEntries, pc, cursor>>

Evaluating(s) ==
  /\ pc = "scenarios" /\ victims = {} /\ cursor = s
  /\ cursor' = cursor + 1
  /\ UNCHANGED <<pc, victims, kind, storeEntries>>

EvaluateCartridge(s) ==
  /\ Evaluating(s)
  /\ StartCartridge(s) \/ WatchCartridge(s) \/ AwaitReplacement(s) \/ EndReplacement(s)
  /\ UNCHANGED anomaly

EvaluateAnomaly ==
  /\ Evaluating(Anomaly)
  /\ \/ StartAnomaly \/ GiveUp \/ StartInjecting \/ WaitOn
     \/ StateLeft \/ InjectOn \/ InjectedEnough
  /\ UNCHANGED <<machine, copies>>

LeaveAlone(s) ==
  /\ Evaluating(s)
  /\ ~ IsActive(s)
  /\ UNCHANGED <<machine, phase, copies, anomaly>>

-----------------------------------------------------------------------------
(***************************************************************************)
(* The generators, and the injection after them.                           *)
(***************************************************************************)
\* What a run of the press overwrites in the store.
PressRuns ==
  /\ pc = "scenarios" /\ victims = {} /\ cursor = Anomaly + 1
  /\ pc' = "coder"
  /\ \/ press' \in Moves /\ shown' = (shown /\ kind # "counter_false_trigger")
     \/ UNCHANGED <<press, shown>>
  /\ UNCHANGED <<machine, phase, copies, kind, anomaly, stored, cursor, victims>>

\* The first transition that fires, from state c.
NextStates(c) ==
  CASE c = "Off" -> IF press = "Setup" THEN {"Ready"} ELSE {"Off"}
    [] c = "Ready" ->
         CASE press = "Running" -> {"Printing"}
           [] press = "Idle" -> {"Standby"}
           [] press = "Off" -> {"Off"}
           [] OTHER -> {"Ready"}
    [] c = "Standby" ->
         CASE press \in {"Running", "Setup"} -> {"Ready"}
           [] press = "Off" -> {"Off"}
           [] OTHER -> {"Standby"}
    [] c = "Printing" -> IF press = "Running" THEN {"Printing", "Fault"} ELSE {"Ready"}
    [] c = "Fault" -> IF locked THEN {"Fault"} ELSE {"Fault", "Ready"}

\* DepletionModel.generate; the level is not followed below 0 (bound).
Refilled(level) == IF refillAt # Never /\ level <= refillAt THEN Full ELSE level

CoderRuns ==
  /\ coder' \in NextStates(coder)
  /\ stored' = coder'
  /\ ink' \in {Refilled(IF coder' = "Printing" /\ ink > 0 THEN ink - use ELSE ink) : use \in 0..1}
  /\ shown' = (shown /\ kind = "counter_false_trigger")

CoderTurn ==
  /\ pc = "coder"
  /\ pc' = "inject"
  /\ CoderRuns \/ UNCHANGED <<coder, stored, ink, shown>>
  /\ UNCHANGED <<refillAt, locked, uncertain, phase, copies, kind, anomaly, press, cursor, victims>>

\* Mutant of Inject: the state is not looked at again after the generators.
InjectBlindly ==
  /\ pc = "inject"
  /\ pc' = "begin"
  /\ shown' = (shown \/ phase[Anomaly] = "injecting")
  /\ UNCHANGED <<machine, phase, copies, kind, anomaly, press, stored, cursor, victims>>

Inject ==
  /\ pc = "inject"
  /\ pc' = "begin"
  /\ shown' = (shown \/ (phase[Anomaly] = "injecting" /\ InTarget))
  /\ UNCHANGED <<machine, phase, copies, kind, anomaly, press, stored, cursor, victims>>

CoderNext ==
  \/ Begin
  \/ Preempt
  \/ \E s \in Cartridges : EvaluateCartridge(s)
  \/ EvaluateAnomaly
  \/ \E s \in Scenarios : LeaveAlone(s)
  \/ PressRuns
  \/ CoderTurn
  \/ Inject

CoderSpec == CoderInit /\ [][CoderNext]_coderVars

-----------------------------------------------------------------------------
\* The variables keep their types.
CoderTypeOK ==
  /\ press \in InitialPress \union Moves
  /\ coder \in CoderStates /\ stored \in CoderStates
  /\ ink \in 0..Full /\ refillAt \in {Never, RefillAt} /\ locked \in BOOLEAN
  /\ phase \in [Scenarios -> {"pending", "monitoring", "depleted", "waiting", "injecting", "completed"}]
  /\ savedRefill \in [Cartridges -> {Never, RefillAt}]
  /\ flagged \in [Cartridges -> BOOLEAN] /\ savedLock \in [Cartridges -> BOOLEAN]
  /\ kind \in {"heater_stuck", "pressure_bleed", "counter_false_trigger"}
  /\ waited \in 0..MaxWait
  /\ pc \in {"begin", "scenarios", "coder", "inject"}
  /\ cursor \in 1..Anomaly + 1
  /\ victims \subseteq Scenarios

\* The ink never runs below the level at which the coder is stopped, a coder
\* without ink stays in Fault until the cartridge is replaced, and when no
\* cartridge scenario is active the automatic refill, the timer of the fault
\* and the quality are as configured: whether the scenario ran its course or
\* was preempted while it watched or waited.  Overlapping ones are left aside.
CartridgeKept ==
  ~ overlapped =>
    /\ ink >= Empty
    /\ \A s \in Cartridges : phase[s] = "depleted" => coder = "Fault"
    /\ ActiveCartridges = {} => refillAt = RefillAt /\ ~ locked /\ ~ uncertain

\* An injected value is in the store only beside a state that it contradicts,
\* and only after its ground truth record, although the state that decides on
\* the injection is read before the generators run and may change under it.
InjectionTruthful == shown => InTarget /\ told

=============================================================================
