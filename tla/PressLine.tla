----------------------------- MODULE PressLine -----------------------------
(***************************************************************************)
(* The press (generators/press.py, models/state.py) under the scenarios    *)
(* that drive it: JobChangeover, UnplannedStop, WebBreak, ShiftChange,     *)
(* MaterialSplice, MicroStop, and BearingWear, which may culminate in a    *)
(* failure.  Scenarios start, are deferred, preempted and end as the       *)
(* ScenarioEngine module says; here each of these steps has its effect on  *)
(* the press, and after every engine tick the press generator runs once.   *)
(*                                                                         *)
(* Time is counted in steps that are not of equal length: what is kept is  *)
(* the order of the durations, a timer of the state machine against the    *)
(* phases of a scenario.  Speeds are levels: 0 is standstill, Low the dip  *)
(* of a micro-stop, and Targets the possible target speeds.  The ground    *)
(* truth file and what scenarios do to other signals are left out.         *)
(***************************************************************************)
EXTENDS ScenarioEngine

CONSTANTS Length,         \* Length[c]: drawn durations of class c, in steps
          SetupTimer,     \* drawn durations of the Setup -> Running timer
          FaultTimer,     \* drawn durations of the Fault -> Idle timer
          Targets         \* target speeds

Low == 1
Speeds == 0..(CHOOSE v \in Targets : \A w \in Targets : w <= v)

ASSUME PressAssumption ==
  /\ Targets \subseteq Nat \ {0, Low}
  /\ \E v \in Targets : \A w \in Targets : w <= v
  /\ SetupTimer \subseteq Nat \ {0} /\ SetupTimer # {}
  /\ FaultTimer \subseteq Nat \ {0} /\ FaultTimer # {}
  /\ \A c \in Class : Length[c] \subseteq 3..MaxDuration
  /\ Class \subseteq {"JobChangeover", "UnplannedStop", "WebBreak", "ShiftChange",
                     "MaterialSplice", "MicroStop", "BearingWear"}
  /\ \A c \in Class :
       Priority[c] = CASE c \in {"ShiftChange", "MaterialSplice"} -> NonStateChanging
                       [] c = "MicroStop" -> "micro"
                       [] c = "BearingWear" -> "background"
                       [] OTHER -> StateChanging
  /\ Watching \subseteq {"MaterialSplice"}

VARIABLES machine,        \* _current_state of the press state machine
          timer,          \* steps before a transition out of it may fire
          failed,         \* history: a failed bearing has put it into that state
          prev,           \* _prev_state; "none" before the first tick
          speed,          \* value of the line speed ramp
          rampEnd,        \* its end value
          astray,         \* history: neither the cascade nor a web break started it last
          target,         \* _target_speed
          saved,          \* saved[s]: speed s saved, or drew, when it started
          faultActive,    \* press.fault_active in the store
          faultCode,      \* whether press.fault_code is not 0
          webBreak,       \* press.web_break in the store
          turn            \* what the data engine runs next

state == <<machine, timer, failed>>
ramp == <<speed, rampEnd, astray>>
coils == <<faultActive, faultCode, webBreak>>
press == <<state, prev, ramp, target, saved, coils>>
allVars == <<vars, press, turn>>

IsOf(s, c) == class[s] = c

-----------------------------------------------------------------------------
\* The transitions that fire on a timer.  Those that wait for a condition
\* never fire: nothing sets a condition of the press.
Timed == [Setup |-> "Running", Fault |-> "Idle", Maintenance |-> "Idle"]

\* _draw_timer_durations; in Running it is the gate of the random fault.
Drawn(st) ==
  IF st = "Setup" THEN SetupTimer
  ELSE IF st = "Fault" THEN FaultTimer
  ELSE IF st = "Running" THEN {2} ELSE {1}

\* _enter_state, which force_state calls.
EnterState(st) == machine' = st /\ timer' \in Drawn(st) /\ failed' = FALSE

\* start_ramp by a micro-stop or a splice, which look at no state by then.
StartRamp(from, to) == speed' = from /\ rampEnd' = to /\ astray' = TRUE

\* A ramp to standstill is started only when the line moves.
EndOfSlowDown == IF speed > 0 THEN 0 ELSE rampEnd
SlowDown == rampEnd' = EndOfSlowDown /\ astray' = (astray /\ speed = 0)

\* A level is reached from below as soon as it is approached.
Toward(from, to) == IF from < to THEN from + 1..to ELSE to..from

-----------------------------------------------------------------------------
(***************************************************************************)
(* _on_activate of each class.                                             *)
(***************************************************************************)
StartChangeover(s) ==
  /\ IsOf(s, "JobChangeover")
  /\ \E new \in Targets : saved' = [saved EXCEPT ![s] = new]
  /\ EnterState("Setup")
  /\ UNCHANGED <<prev, ramp, target, coils>>

StartStop(s) ==
  /\ IsOf(s, "UnplannedStop")
  /\ EnterState("Fault")
  /\ faultActive' = TRUE
  /\ faultCode' = TRUE
  /\ UNCHANGED <<prev, ramp, target, saved, webBreak>>

\* Only the tension spikes.
StartBreak(s) ==
  /\ IsOf(s, "WebBreak")
  /\ UNCHANGED press

StartShift(s) ==
  /\ IsOf(s, "ShiftChange")
  /\ saved' = [saved EXCEPT ![s] = target]
  /\ EnterState("Idle")
  /\ UNCHANGED <<prev, ramp, target, coils>>

StartDip(s) ==
  /\ IsOf(s, "MicroStop")
  /\ saved' = [saved EXCEPT ![s] = target]
  /\ StartRamp(speed, Low)
  /\ UNCHANGED <<state, prev, target, coils>>

\* A splice watches the reel at first, and wear shows in the vibration only.
StartWatch(s) ==
  /\ class[s] \in {"MaterialSplice", "BearingWear"}
  /\ UNCHANGED press

OnActivate(s) ==
  \/ StartChangeover(s) \/ StartStop(s) \/ StartBreak(s) \/ StartShift(s)
  \/ StartDip(s) \/ StartWatch(s)

(***************************************************************************)
(* _on_tick, in the step in which a phase of the scenario ends.            *)
(***************************************************************************)
ChangeoverResumes(s) == IsOf(s, "JobChangeover") /\ elapsed[s] + 1 = duration[s] - 2
WebParts(s) == IsOf(s, "WebBreak") /\ elapsed[s] + 1 = 2
DipEnds(s) == IsOf(s, "MicroStop") /\ elapsed[s] + 1 = duration[s] - 1
ReelIsLow(s) == IsOf(s, "MaterialSplice") /\ elapsed[s] + 1 = duration[s] - 2
SpliceIsMade(s) == IsOf(s, "MaterialSplice") /\ elapsed[s] + 1 = duration[s] - 1

\* Setup is over: the new target speed, and Running.
Resume(s) ==
  /\ ChangeoverResumes(s)
  /\ target' = saved[s]
  /\ EnterState("Running")
  /\ UNCHANGED <<prev, ramp, saved, coils>>

\* Mutant of PartWeb: the press is told that it already is in Fault, but the
\* scenario starts no deceleration of its own.
PartWebNoDecel(s) ==
  /\ WebParts(s)
  /\ EnterState("Fault")
  /\ prev' = "Fault"
  /\ webBreak' = TRUE
  /\ faultActive' = TRUE
  /\ UNCHANGED <<ramp, target, saved, faultCode>>

\* _enter_deceleration: the scenario sets _prev_state itself, so that the
\* press does not start its own, slower ramp to standstill.
PartWeb(s) ==
  /\ WebParts(s)
  /\ EnterState("Fault")
  /\ prev' = "Fault"
  /\ SlowDown
  /\ webBreak' = TRUE
  /\ faultActive' = TRUE
  /\ UNCHANGED <<speed, target, saved, faultCode>>

EndDip(s) ==
  /\ DipEnds(s)
  /\ StartRamp(Low, saved[s])
  /\ UNCHANGED <<state, prev, target, saved, coils>>

\* _monitor_tick: a reel that runs low waits for the press to be Running.
\* _start_splice: a line that moves is slowed down by a tenth at most, which
\* is no level of its own.
ReelWaits(s) == ReelIsLow(s) /\ machine # "Running"

Splice(s) ==
  /\ ReelIsLow(s)
  /\ machine = "Running"
  /\ IF speed > 0 THEN StartRamp(speed, speed) ELSE UNCHANGED ramp
  /\ saved' = [saved EXCEPT ![s] = speed]
  /\ UNCHANGED <<state, prev, target, coils>>

\* _splice_tick: back to the target speed if the line was slowed down,
\* whatever the state of the press is by then.
Recover(s) ==
  /\ SpliceIsMade(s)
  /\ IF saved[s] > 0 THEN StartRamp(speed, target) ELSE UNCHANGED ramp
  /\ UNCHANGED <<state, prev, target, saved, coils>>

Wait(s) ==
  /\ ~ (\/ ChangeoverResumes(s) \/ WebParts(s) \/ DipEnds(s)
        \/ ReelIsLow(s) \/ SpliceIsMade(s))
  /\ UNCHANGED press

OnTick(s) ==
  Resume(s) \/ PartWeb(s) \/ EndDip(s) \/ Splice(s) \/ Recover(s) \/ Wait(s)

(***************************************************************************)
(* The last _on_tick and _on_complete of each class.                       *)
(***************************************************************************)
EndChangeover(s) ==
  /\ IsOf(s, "JobChangeover")
  /\ UNCHANGED press

EndStop(s) ==
  /\ IsOf(s, "UnplannedStop")
  /\ EnterState("Idle")
  /\ faultActive' = FALSE
  /\ faultCode' = FALSE
  /\ UNCHANGED <<prev, ramp, target, saved, webBreak>>

\* Mutants of EndBreak: one coil is left on; the press is left Idle.
EndBreakCoilOn(s) ==
  /\ IsOf(s, "WebBreak")
  /\ EnterState("Setup")
  /\ webBreak' = FALSE
  /\ UNCHANGED <<prev, ramp, target, saved, faultActive, faultCode>>

EndBreakIdle(s) ==
  /\ IsOf(s, "WebBreak")
  /\ EnterState("Idle")
  /\ webBreak' = FALSE
  /\ faultActive' = FALSE
  /\ UNCHANGED <<prev, ramp, target, saved, faultCode>>

EndBreak(s) ==
  /\ IsOf(s, "WebBreak")
  /\ EnterState("Setup")
  /\ webBreak' = FALSE
  /\ faultActive' = FALSE
  /\ UNCHANGED <<prev, ramp, target, saved, faultCode>>

\* The saved speed times the bias of the shift is some target speed.
EndShift(s) ==
  /\ IsOf(s, "ShiftChange")
  /\ target' \in Targets
  /\ EnterState("Running")
  /\ UNCHANGED <<prev, ramp, saved, coils>>

\* A ramp back to the saved speed, unless the line is within 1 m/min of it.
EndMicroStop(s) ==
  /\ IsOf(s, "MicroStop")
  /\ \/ StartRamp(speed, saved[s])
     \/ speed = saved[s] /\ UNCHANGED ramp
  /\ UNCHANGED <<state, prev, target, saved, coils>>

\* A splice that is cut short does not speed the line up again.
EndSplice(s) ==
  /\ IsOf(s, "MaterialSplice")
  /\ UNCHANGED press

\* Wear ends at the latest when its time is over, without a failure.
EndWear(s) ==
  /\ IsOf(s, "BearingWear")
  /\ UNCHANGED press

\* _trigger_failure: the press is told that it already is in Fault, so that it
\* does not slow down.
Fail(s) ==
  /\ IsOf(s, "BearingWear")
  /\ machine' = "Fault" /\ timer' \in Drawn("Fault") /\ failed' = TRUE
  /\ prev' = "Fault"
  /\ astray' = (astray \/ rampEnd > 0)
  /\ UNCHANGED <<speed, rampEnd, target, saved, coils>>

OnComplete(s) ==
  \/ EndChangeover(s) \/ EndStop(s) \/ EndBreak(s) \/ EndShift(s)
  \/ EndMicroStop(s) \/ EndSplice(s) \/ EndWear(s) \/ Fail(s)

-----------------------------------------------------------------------------
(***************************************************************************)
(* The engine's steps with their effect on the press.  A preempted         *)
(* ShiftChange or MaterialSplice does nothing to it.                       *)
(***************************************************************************)
Scenarios(s) ==
  /\ \/ PassOver(s) /\ (phase[s] = "ACTIVE" => ReelWaits(s)) /\ UNCHANGED press
     \/ Activate(s) /\ OnActivate(s)
     \/ Continue(s) /\ OnTick(s)
     \/ RunOut(s) /\ OnComplete(s)
  /\ UNCHANGED turn

BeginTick ==
  /\ turn = "engine"
  /\ Arbitrate
  /\ UNCHANGED <<press, turn>>

CutShort == Preempt /\ UNCHANGED <<press, turn>>

BeginEvaluation == EndPreemption /\ UNCHANGED <<press, turn>>

EndTick ==
  /\ FinishTick
  /\ turn' = "press"
  /\ UNCHANGED press

-----------------------------------------------------------------------------
(***************************************************************************)
(* PressGenerator.generate: the state machine, then the cascade if the     *)
(* state is not the one of the previous tick, then the line speed.         *)
(***************************************************************************)
\* _evaluate_transitions.
Transit ==
  \/ timer > 1 /\ timer' = timer - 1 /\ UNCHANGED <<machine, failed>>
  \/ timer = 1 /\ machine \in DOMAIN Timed /\ EnterState(Timed[machine])
  \/ timer = 1 /\ machine = "Running" /\ EnterState("Fault")
  \/ timer = 1 /\ machine \notin DOMAIN Timed /\ UNCHANGED state

\* Mutant of Cascade: a line that still moves is not sped up again.
CascadeFromStandstill ==
  \/ machine' = prev /\ UNCHANGED <<rampEnd, astray>>
  \/ machine' # prev /\ machine' = "Running" /\ speed = 0 /\ rampEnd' = target /\ astray' = FALSE
  \/ machine' # prev /\ ~ (machine' = "Running" /\ speed = 0) /\ SlowDown

\* _handle_state_transition: the ramp that a change of state starts.
Cascade ==
  \/ machine' = prev /\ UNCHANGED <<rampEnd, astray>>
  \/ machine' # prev /\ machine' = "Running" /\ rampEnd' = target /\ astray' = FALSE
  \/ machine' # prev /\ machine' # "Running" /\ SlowDown

Generate ==
  /\ turn = "press"
  /\ Transit
  /\ Cascade
  /\ speed' \in Toward(speed, rampEnd')
  /\ prev' = machine'
  /\ turn' = "engine"
  /\ UNCHANGED <<vars, target, saved, coils>>

-----------------------------------------------------------------------------
(***************************************************************************)
(* The generated timeline.  The gap between two starts of a class is the   *)
(* shortest setup of a changeover, the shortest recovery of a web break,   *)
(* and the shortest duration of a stop and a micro-stop: two changeovers,  *)
(* or two breaks, may be due while the first still ramps up.  Shift        *)
(* changes and reels are due hours apart: a run is too short for a second  *)
(* one of either.  Wear is scheduled once.                                 *)
(***************************************************************************)
Shortest(c) == CHOOSE d \in Length[c] : \A e \in Length[c] : d <= e

StartGap(c) == IF c \in {"JobChangeover", "WebBreak"} THEN Shortest(c) - 2 ELSE Shortest(c)

Spaced(c) ==
  \A s, t \in Scenario :
    IsOf(s, c) /\ IsOf(t, c) /\ s < t => start[s] + StartGap(c) <= start[t]

OneOf(c) == \A s, t \in Scenario : IsOf(s, c) /\ IsOf(t, c) => s = t

OneHandover == OneOf("ShiftChange")
OneReel == OneOf("MaterialSplice")
OneBearing == OneOf("BearingWear")

PressTimeline ==
  /\ \A c \in Class \ {"ShiftChange", "MaterialSplice", "BearingWear"} : Spaced(c)
  /\ OneHandover
  /\ OneReel
  /\ OneBearing

\* The press is part of the profile: no scenario lacks its equipment.
PressInit ==
  /\ Init
  /\ logging = FALSE
  /\ \A s \in Scenario : duration[s] \in Length[class[s]]
  /\ PressTimeline
  /\ machine = "Idle"
  /\ timer = 1
  /\ failed = FALSE
  /\ prev = "none"
  /\ speed = 0
  /\ rampEnd = 0
  /\ astray = FALSE
  /\ target \in Targets
  /\ saved = [s \in Scenario |-> 0]
  /\ faultActive = FALSE
  /\ faultCode = FALSE
  /\ webBreak = FALSE
  /\ turn = "engine"

PressNext ==
  \/ BeginTick
  \/ CutShort
  \/ BeginEvaluation
  \/ \E s \in Scenario : Scenarios(s)
  \/ EndTick
  \/ Generate

PressSpec == PressInit /\ [][PressNext]_allVars

\* The tick loop goes on; a timer that keeps running down does expire.
FairPressSpec == PressSpec /\ WF_allVars(PressNext)

-----------------------------------------------------------------------------
PressTypeOK ==
  /\ machine \in {"Off", "Setup", "Running", "Idle", "Fault", "Maintenance"}
  /\ timer \in Nat \ {0}
  /\ failed \in BOOLEAN
  /\ prev \in {"none", "Off", "Setup", "Running", "Idle", "Fault", "Maintenance"}
  /\ speed \in Speeds
  /\ rampEnd \in {0, Low} \union Speeds
  /\ astray \in BOOLEAN
  /\ target \in Targets
  /\ saved \in [Scenario -> Speeds]
  /\ faultActive \in BOOLEAN
  /\ faultCode \in BOOLEAN
  /\ webBreak \in BOOLEAN
  /\ turn \in {"engine", "press"}

Active(c) == {s \in InPhase("ACTIVE") : IsOf(s, c)}
Begun(c) == {s \in Listed : IsOf(s, c) /\ phase[s] # "PENDING"}
BetweenTicks == pc = "idle" /\ turn = "engine"
Quiet == InPhase("ACTIVE") = {}

\* However stops and web breaks overlap, none of their fault indicators
\* outlives the last of them (_on_complete of both).
IndicatorsCleared ==
  /\ faultCode => Active("UnplannedStop") # {}
  /\ webBreak => Active("WebBreak") # {}
  /\ faultActive => Active("UnplannedStop") \union Active("WebBreak") # {}

\* The press stands Idle throughout a shift handover, or in the Fault of a
\* bearing that has failed since it began: nothing else moves it until the
\* handover ends or is preempted.
HandoverIsIdle ==
  Active("ShiftChange") # {} => machine = "Idle" \/ (failed /\ machine = "Fault")

\* In every state but Running the line stands or is being slowed down to a
\* standstill, whoever put the press there and in whatever order.  Only a
\* micro-stop or a splice that has meddled with the ramp since, and a bearing
\* that failed at speed, keep it moving, and not beyond the next state change
\* that finds it in motion.
StoppedUnlessRunning ==
  BetweenTicks /\ machine # "Running" /\ ~ astray => rampEnd = 0

\* A press left Running with no scenario active heads for its target speed,
\* or for the one that a micro-stop remembered, however often and however
\* early in a ramp it was stopped.  A changeover sets a target of its own.
SpeedFollowsTarget ==
  BetweenTicks /\ Quiet /\ machine = "Running" /\ Begun("JobChangeover") = {} =>
    rampEnd = target \/ \E s \in Begun("MicroStop") : rampEnd = saved[s]

\* After a web break the press is back in production: Setup, then Running,
\* whatever else happens, unless an unplanned stop or a bearing failure, after
\* which it is left Idle, comes in between.
BreakRestarts ==
  \A s \in Scenario :
    s \in Active("WebBreak") ~>
      /\ phase[s] = "COMPLETED"
      /\ \/ machine = "Running"
         \/ Begun("UnplannedStop") # {}
         \/ \E b \in Begun("BearingWear") : phase[b] = "COMPLETED"

=============================================================================
