--------------------------- MODULE PressOverrides ---------------------------
(***************************************************************************)
(* The model parameters of the press that scenarios override for as long   *)
(* as they are active: the rate of the waste counter, the base of the web  *)
(* tension, the target of the ink viscosity, and the drift and reversion   *)
(* rates of the registration error.  A scenario saves the current values,  *)
(* sets its own, and later writes the saved values back, whatever the      *)
(* values are by then.                                                     *)
(* Scenarios start, wait, are preempted and end as in ScenarioEngine.      *)
(*                                                                         *)
(* A parameter is represented by the set of scenarios whose factor (or     *)
(* offset) it contains: {} is the configured value.  The element Zero      *)
(* stands for a value of 0.0.  The two axes of the registration error are  *)
(* one; the gain and the clamp of the web tension go with its base.        *)
(***************************************************************************)
EXTENDS ScenarioEngine

Zero == 0

Params == {"waste", "tension", "ink", "drift", "reversion"}

Drifts == {"DryerDrift", "InkExcursion"}
Overriding == Drifts \union
  {"RegistrationDrift", "MaterialSplice", "JobChangeover", "ShiftChange", "WebBreak"}

\* Every phase of a splice has its tick: the reel runs low after the first.
ASSUME OverridesAssumption ==
  /\ Class \subseteq Overriding \union {"UnplannedStop"}
  /\ \A c \in Class :
       Priority[c] = IF c \in {"JobChangeover", "WebBreak", "UnplannedStop"}
                     THEN StateChanging ELSE NonStateChanging
  /\ MinDuration >= 4

VARIABLES param,          \* param[p]: the current value of parameter p
          saved,          \* saved[s][p]: the copy of p that s made last, 0.0 at first
          order,          \* history: order[p][s]: who held a copy of p to be written back
                          \* when s made its own, s too; {} when s holds none
          crossed         \* history: the parameters written by another scenario than
                          \* the last that has made a copy
copies == <<saved, order>>
overrides == <<param, copies, crossed>>
allVars == <<vars, overrides>>

IsOf(s, c) == class[s] = c

Holders(p) == {s \in Scenario : order[p][s] # {}}
Latest(s, p) == s \in Holders(p) /\ \A t \in Holders(p) \ {s} : s \notin order[p][t]

Keep(s, P) ==
  /\ saved' = [saved EXCEPT ![s] = [p \in Params |-> IF p \in P THEN param[p] ELSE @[p]]]
  /\ order' = [p \in Params |-> IF p \in P THEN [order[p] EXCEPT ![s] = Holders(p) \union {s}]
                                 ELSE order[p]]

\* The parameters that f names get its values.
Override(f) == param' = [p \in Params |-> IF p \in DOMAIN f THEN f[p] ELSE param[p]]

\* A copy is made and its parameter set; and a parameter is set again.
SaveAndSet(s, f) == Keep(s, DOMAIN f) /\ Override(f) /\ UNCHANGED crossed
Cross(s, P) == crossed' = crossed \union {p \in P : ~ Latest(s, p)}
Reset(s, f) == Override(f) /\ Cross(s, DOMAIN f) /\ UNCHANGED copies

WriteBack(s, P) ==
  /\ Override([p \in P |-> saved[s][p]])
  /\ Cross(s, P)
  /\ order' = [p \in Params |-> IF p \in P THEN [order[p] EXCEPT ![s] = {}] ELSE order[p]]
  /\ UNCHANGED saved

-----------------------------------------------------------------------------
(***************************************************************************)
(* _on_activate of each class.                                             *)
(***************************************************************************)
StartDrift(s) ==
  /\ IsOf(s, "DryerDrift")
  /\ SaveAndSet(s, [waste |-> param["waste"] \union {s}])

\* The viscosity follows in the first tick, which is part of the activation.
StartExcursion(s) ==
  /\ IsOf(s, "InkExcursion")
  /\ SaveAndSet(s, [p \in {"waste", "drift", "ink"} |-> param[p] \union {s}])

\* The registration error no longer reverts to its center; the waste rate is
\* saved, but raised only when the error passes the waste threshold.
StartRegistration(s) ==
  /\ IsOf(s, "RegistrationDrift")
  /\ SaveAndSet(s, [waste |-> param["waste"], reversion |-> {Zero}])

\* Tension spikes: the base is the spike, whatever it was.
StartBreak(s) ==
  /\ IsOf(s, "WebBreak")
  /\ SaveAndSet(s, [tension |-> {s}])

\* A splice only watches the unwind diameter at first; a changeover and a
\* shift change save nothing here, and a stop has no override.
StartOther(s) ==
  /\ class[s] \in {"MaterialSplice", "JobChangeover", "ShiftChange", "UnplannedStop"}
  /\ UNCHANGED overrides

OnActivate(s) ==
  \/ StartDrift(s) \/ StartExcursion(s) \/ StartRegistration(s)
  \/ StartBreak(s) \/ StartOther(s)

(***************************************************************************)
(* _on_tick, in the step in which a phase of the scenario begins or ends.  *)
(* A splice is over two ticks after it begins.                             *)
(***************************************************************************)
ThresholdPassed(s) == IsOf(s, "RegistrationDrift") /\ elapsed[s] + 1 = 2
WebParts(s) == IsOf(s, "WebBreak") /\ elapsed[s] + 1 = 2
ReelIsLow(s) == IsOf(s, "MaterialSplice") /\ elapsed[s] + 1 = duration[s] - 2
SpikeEnds(s) == IsOf(s, "MaterialSplice") /\ elapsed[s] + 1 = duration[s] - 1
StartupWaste(s) == IsOf(s, "JobChangeover") /\ elapsed[s] + 1 = duration[s] - 1

\* The viscosity is computed from the saved target at every tick.
ShiftInk(s) ==
  /\ IsOf(s, "InkExcursion")
  /\ Reset(s, [ink |-> saved[s]["ink"] \union {s}])

\* Mutant of RaiseRate: the multiplier is applied to the configured rate.
RaiseConfigured(s) ==
  /\ ThresholdPassed(s)
  /\ Reset(s, [waste |-> {s}])

RaiseRate(s) ==
  /\ ThresholdPassed(s)
  /\ Reset(s, [waste |-> saved[s]["waste"] \union {s}])

PartWeb(s) ==
  /\ WebParts(s)
  /\ Reset(s, [tension |-> {Zero}])

\* _start_splice, which comes no sooner than the press is Running: a splice
\* may watch for as long as it is active.
Splice(s) ==
  /\ ReelIsLow(s)
  /\ SaveAndSet(s, [waste |-> param["waste"] \union {s},
                    tension |-> param["tension"] \union {s},
                    reversion |-> {Zero}])

\* Mutant of EndSpike: what the spike saved is forgotten.
EndSpikeKept(s) ==
  /\ SpikeEnds(s)
  /\ UNCHANGED overrides

\* The registration error lasts longer than the spike.
EndSpike(s) ==
  /\ SpikeEnds(s)
  /\ WriteBack(s, {"tension"})

\* _boost_waste_rate.
BoostWaste(s) ==
  /\ StartupWaste(s)
  /\ SaveAndSet(s, [waste |-> param["waste"] \union {s}])

Hold(s) ==
  /\ ~ (\/ ThresholdPassed(s) \/ WebParts(s) \/ ReelIsLow(s)
        \/ SpikeEnds(s) \/ StartupWaste(s) \/ IsOf(s, "InkExcursion"))
  /\ UNCHANGED overrides

OnTick(s) ==
  \/ ShiftInk(s) \/ RaiseRate(s) \/ PartWeb(s) \/ Splice(s) \/ EndSpike(s)
  \/ BoostWaste(s) \/ Hold(s)

(***************************************************************************)
(* _on_complete of each class, on its own or by preemption.                *)
(***************************************************************************)
EndDrift(s) ==
  /\ IsOf(s, "DryerDrift")
  /\ WriteBack(s, {"waste"})

EndExcursion(s) ==
  /\ IsOf(s, "InkExcursion")
  /\ WriteBack(s, {"waste", "drift", "ink"})

EndRegistration(s) ==
  /\ IsOf(s, "RegistrationDrift")
  /\ WriteBack(s, {"waste", "reversion"})

\* _restore_waste_rate: nothing is written back before startup waste is set.
EndChangeover(s) ==
  /\ IsOf(s, "JobChangeover")
  /\ \/ elapsed[s] < duration[s] - 1 /\ UNCHANGED overrides
     \/ elapsed[s] >= duration[s] - 1 /\ WriteBack(s, {"waste"})

EndBreak(s) ==
  /\ IsOf(s, "WebBreak")
  /\ WriteBack(s, {"tension"})

\* The tension base is written back unless EndSpike already did; so is what
\* a splice that was still watching has never saved.
EndSplice(s) ==
  /\ IsOf(s, "MaterialSplice")
  /\ WriteBack(s, {"waste", "reversion"} \union
                  IF elapsed[s] < duration[s] - 1 THEN {"tension"} ELSE {})

EndOther(s) ==
  /\ class[s] \in {"ShiftChange", "UnplannedStop"}
  /\ UNCHANGED overrides

OnComplete(s) ==
  \/ EndDrift(s) \/ EndExcursion(s) \/ EndRegistration(s)
  \/ EndChangeover(s) \/ EndBreak(s) \/ EndSplice(s) \/ EndOther(s)

\* A shift change that runs its course multiplies the rate by its bias, for
\* good (_apply_waste_bias); _on_complete itself restores nothing.
ApplyBias(s) ==
  /\ IsOf(s, "ShiftChange")
  /\ Override([waste |-> param["waste"] \union {s}])
  /\ UNCHANGED <<copies, crossed>>

-----------------------------------------------------------------------------
\* The generated timeline keeps two starts of a class apart: by the shortest
\* duration, which leaves out the ramp of a changeover and of a web break.
MinGap(c) == IF c \in {"JobChangeover", "WebBreak"} THEN MinDuration - 2 ELSE MinDuration

Spaced ==
  \A s, t \in Scenario :
    s < t /\ class[s] = class[t] => start[s] + MinGap(class[s]) <= start[t]

OverridesInit ==
  /\ Init
  /\ logging = FALSE
  /\ \A s \in Scenario : duration[s] >= MinDuration
  /\ Spaced
  /\ param = [p \in Params |-> {}]
  /\ saved = [s \in Scenario |-> [p \in Params |-> {Zero}]]
  /\ order = [p \in Params |-> [s \in Scenario |-> {}]]
  /\ crossed = {}

CutShort == Preempt /\ \E s \in First(victims) : OnComplete(s)

Scenarios(s) ==
  \/ PassOver(s) /\ (phase[s] = "ACTIVE" => ReelIsLow(s)) /\ UNCHANGED overrides
  \/ Activate(s) /\ OnActivate(s)
  \/ Continue(s) /\ OnTick(s)
  \/ RunOut(s) /\ IsOf(s, "ShiftChange") /\ ApplyBias(s)
  \/ RunOut(s) /\ ~ IsOf(s, "ShiftChange") /\ OnComplete(s)

OverridesNext ==
  \/ Arbitrate /\ UNCHANGED overrides
  \/ CutShort
  \/ EndPreemption /\ UNCHANGED overrides
  \/ \E s \in Scenario : Scenarios(s)
  \/ FinishTick /\ UNCHANGED overrides

OverridesSpec == OverridesInit /\ [][OverridesNext]_allVars

-----------------------------------------------------------------------------
OverridesTypeOK ==
  /\ param \in [Params -> SUBSET (Scenario \union {Zero})]
  /\ saved \in [Scenario -> [Params -> SUBSET (Scenario \union {Zero})]]
  /\ order \in [Params -> [Scenario -> SUBSET Scenario]]
  /\ crossed \subseteq Params

\* The parameters that a class overrides.
Overrides(c) ==
  CASE c \in {"DryerDrift", "JobChangeover"} -> {"waste"}
    [] c = "InkExcursion" -> {"waste", "drift", "ink"}
    [] c = "RegistrationDrift" -> {"waste", "reversion"}
    [] c = "MaterialSplice" -> {"waste", "tension", "reversion"}
    [] c = "WebBreak" -> {"tension"}
    [] OTHER -> {}

\* A parameter that no active scenario overrides has its configured value
\* again, but for the biases of the shifts that have begun, however many
\* scenarios have overridden it one upon the other and in whatever order they
\* started, were preempted and ended; unless one of them has ever written it
\* while a copy made later than its own was still to be written back, or
\* without having a copy at all, as a splice that was cut short watching does.
OverridesEnd ==
  \A p \in Params \ crossed :
    (\A s \in InPhase("ACTIVE") : p \notin Overrides(class[s])) =>
      \A s \in param[p] : p = "waste" /\ s \in InPhase("COMPLETED") /\ IsOf(s, "ShiftChange")

\* A drift that the ground truth file reports as running shows in the data,
\* in the waste, and that of the ink in viscosity and registration as well,
\* whatever has begun and ended on top of it or below it; with the same
\* exception.
DriftShows ==
  \A s \in InPhase("ACTIVE") : \A p \in Params \ crossed :
    \/ class[s] \in Drifts /\ p = "waste"
    \/ IsOf(s, "InkExcursion") /\ p \in {"ink", "drift"}
    => s \in param[p]

=============================================================================
