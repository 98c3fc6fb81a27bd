-------------------------- MODULE PressLineProofs --------------------------
(***************************************************************************)
(* Theorems about PressLine, for every timeline, every draw of the timers  *)
(* and every number of scenarios.  They rest on the exclusion proved for   *)
(* the engine: the press module only adds effects to the engine's steps.   *)
(***************************************************************************)
EXTENDS PressLine, ScenarioEngineProofs

\* A step of the press is a step of the engine, or leaves the engine alone.
LEMMA PressStepIsEngineStep == [PressNext]_allVars => [Next]_vars
<1> SUFFICES ASSUME [PressNext]_allVars PROVE [Next]_vars OBVIOUS
<1>1. CASE \E s \in Scenario : Scenarios(s)
  <2>1. PICK s \in Scenario : Scenarios(s) BY <1>1
  <2>2. Evaluate(s) BY <2>1 DEF Scenarios, Evaluate
  <2>3. QED BY <2>2 DEF Next, TickStep
<1>2. CASE BeginTick \/ CutShort \/ BeginEvaluation \/ EndTick
  BY <1>2 DEF BeginTick, CutShort, BeginEvaluation, EndTick, Next, TickStep
<1>3. CASE Generate \/ UNCHANGED allVars
  BY <1>3 DEF Generate, allVars
<1>4. QED BY <1>1, <1>2, <1>3 DEF PressNext

\* The press module restricts the engine and adds nothing to it: what is
\* proved of ScenarioEngine holds in PressLine.
THEOREM PressRunsTheEngine == PressSpec => Spec
<1>1. PressInit => Init BY DEF PressInit
<1>2. QED BY <1>1, PressStepIsEngineStep, PTL DEF PressSpec, Spec

-----------------------------------------------------------------------------
\* A scenario of another class that moves along leaves the active scenarios
\* of class c alone.
LEMMA OthersActive ==
  ASSUME TypeOK, NEW s \in Scenario, NEW p \in {"ACTIVE", "COMPLETED"}, NEW c, class[s] # c,
         phase' = [phase EXCEPT ![s] = p], class' = class, listed' = listed
  PROVE  Active(c)' = Active(c)
BY DEF TypeOK, Active, InPhase, Listed, IsOf

\* The scenarios of the list are scenarios.
LEMMA ListedAreScenarios == TypeOK => Listed \subseteq Scenario
BY EngineAssumption DEF TypeOK, Listed, Scenario

Disturbances == {"ShiftChange", "MaterialSplice", "MicroStop", "BearingWear"}

\* While a state-changing scenario is active, no shift change is.
StateChangeAlone ==
  \A s \in Listed :
    phase[s] = "ACTIVE" /\ class[s] \notin Disturbances =>
      Active("ShiftChange") = {}

\* The engine's exclusion, in terms of the classes of the press.
LEMMA NoHandover == TypeOK /\ Exclusion => StateChangeAlone
<1> SUFFICES ASSUME TypeOK, Exclusion, NEW s \in Listed, phase[s] = "ACTIVE",
                    class[s] \notin Disturbances,
                    NEW t \in Active("ShiftChange")
             PROVE FALSE
  BY DEF StateChangeAlone
<1>0. s \in Scenario /\ class[s] \in Class
  BY ListedAreScenarios DEF TypeOK
<1>1. t \in Listed /\ phase[t] = "ACTIVE" /\ class[t] = "ShiftChange"
  BY DEF Active, InPhase, IsOf
<1>2. class[t] \in Class BY <1>1, ListedAreScenarios DEF TypeOK
<1>3. Prio(s) = StateChanging /\ Prio(t) = NonStateChanging
  BY <1>0, <1>1, <1>2, PressAssumption DEF Prio, Disturbances
<1>4. s \in InPhase("ACTIVE") /\ t \in InPhase("ACTIVE") BY <1>1 DEF InPhase
<1>5. QED BY <1>3, <1>4 DEF Exclusion

\* The timeline of a run has one shift change at most, and never changes.
OneShift ==
  \A s, t \in Scenario : IsOf(s, "ShiftChange") /\ IsOf(t, "ShiftChange") => s = t

HandoverInv == OneShift /\ HandoverIsIdle

\* An engine iteration together with its effect keeps the press Idle, or in
\* the Fault of its bearing, during a handover.
LEMMA ScenariosKeepHandover ==
  ASSUME IInv, IInv', HandoverInv, NEW s \in Scenario, Scenarios(s)
  PROVE  HandoverInv'
<1>0. /\ s \in Listed /\ class' = class /\ listed' = listed
      /\ TypeOK /\ TypeOK' /\ Exclusion /\ Exclusion'
      /\ class[s] \in Class
  BY DEF Scenarios, PassOver, Activate, Continue, RunOut, AtCursor, Advance, timeline, IInv, TypeOK
<1>1. OneShift' BY <1>0 DEF HandoverInv, OneShift, IsOf
<1>2. CASE PassOver(s) /\ UNCHANGED press
  <2>1. phase' = phase /\ UNCHANGED state BY <1>2 DEF PassOver, press
  <2>2. QED BY <1>0, <1>1, <2>1 DEF HandoverInv, HandoverIsIdle, Active, InPhase, Listed, IsOf, state
<1>3. CASE Activate(s) /\ OnActivate(s)
  <2>1. phase' = [phase EXCEPT ![s] = "ACTIVE"] BY <1>3 DEF Activate
  <2>2. CASE class[s] \in {"ShiftChange"}
    <3>1. StartShift(s)
      BY <1>3, <2>2 DEF OnActivate, StartChangeover, StartStop, StartBreak, StartDip, StartWatch, IsOf
    <3>2. QED BY <1>1, <3>1 DEF StartShift, EnterState, HandoverInv, HandoverIsIdle
  <2>3. CASE class[s] \in {"MaterialSplice", "MicroStop", "BearingWear"}
    <3>1. UNCHANGED state
      BY <1>3, <2>3 DEF OnActivate, StartChangeover, StartStop, StartBreak, StartShift, StartDip, StartWatch, IsOf, press
    <3>2. Active("ShiftChange")' = Active("ShiftChange") BY <1>0, <2>1, <2>3, OthersActive
    <3>3. QED BY <1>1, <3>1, <3>2 DEF HandoverInv, HandoverIsIdle, state
  <2>4. CASE class[s] \notin Disturbances
    <3>1. s \in Listed' /\ phase'[s] = "ACTIVE" /\ class'[s] = class[s]
      BY <1>0, <2>1 DEF TypeOK, Listed
    <3>2. StateChangeAlone' BY <1>0, NoHandover, PTL
    <3>3. Active("ShiftChange")' = {} BY <2>4, <3>1, <3>2 DEF StateChangeAlone, Disturbances
    <3>4. QED BY <1>1, <3>3 DEF HandoverInv, HandoverIsIdle
  <2>5. QED BY <2>2, <2>3, <2>4 DEF Disturbances
<1>4. CASE Continue(s) /\ OnTick(s)
  <2>1. phase' = phase /\ phase[s] = "ACTIVE" BY <1>4 DEF Continue
  <2>2. Active("ShiftChange")' = Active("ShiftChange")
    BY <1>0, <2>1 DEF Active, InPhase, Listed, IsOf
  <2>3. CASE UNCHANGED state BY <1>1, <2>2, <2>3 DEF HandoverInv, HandoverIsIdle, state
  <2>4. CASE ~ UNCHANGED state
    <3>1. class[s] \in {"JobChangeover", "WebBreak"}
      BY <1>4, <2>4 DEF OnTick, Resume, PartWeb, EndDip, Splice, Recover, Wait, ChangeoverResumes, WebParts, IsOf, press
    <3>2. Active("ShiftChange") = {} BY <1>0, <2>1, <3>1, NoHandover DEF StateChangeAlone, Disturbances
    <3>3. QED BY <1>1, <2>2, <3>2 DEF HandoverInv, HandoverIsIdle
  <2>5. QED BY <2>3, <2>4
<1>5. CASE RunOut(s) /\ OnComplete(s)
  <2>1. phase' = [phase EXCEPT ![s] = "COMPLETED"] /\ phase[s] = "ACTIVE" BY <1>5 DEF RunOut
  <2>2. CASE class[s] = "ShiftChange"
    <3>1. SUFFICES ASSUME NEW t \in Active("ShiftChange")' PROVE FALSE
      BY <1>1 DEF HandoverInv, HandoverIsIdle
    <3>2. t \in Listed /\ class[t] = "ShiftChange" /\ phase'[t] = "ACTIVE"
      BY <1>0 DEF Active, InPhase, Listed, IsOf
    <3>3. t = s BY <1>0, <2>2, <3>2, ListedAreScenarios DEF HandoverInv, OneShift, IsOf
    <3>4. QED BY <1>0, <2>1, <3>2, <3>3 DEF TypeOK
  <2>3. CASE class[s] \in {"MaterialSplice", "MicroStop", "BearingWear"}
    <3>1. UNCHANGED state \/ Fail(s)
      BY <1>5, <2>3 DEF OnComplete, EndChangeover, EndStop, EndBreak, EndShift, EndMicroStop,
                        EndSplice, EndWear, IsOf, press
    <3>2. Active("ShiftChange")' = Active("ShiftChange") BY <1>0, <2>1, <2>3, OthersActive
    <3>3. CASE UNCHANGED state BY <1>1, <3>2, <3>3 DEF HandoverInv, HandoverIsIdle, state
    <3>4. CASE Fail(s) BY <1>1, <3>4 DEF HandoverInv, HandoverIsIdle, Fail
    <3>5. QED BY <3>1, <3>3, <3>4
  <2>4. CASE class[s] \notin Disturbances
    <3>1. Active("ShiftChange") = {} BY <1>0, <2>1, <2>4, NoHandover DEF StateChangeAlone, Disturbances
    <3>2. class[s] # "ShiftChange" BY <2>4 DEF Disturbances
    <3>3. Active("ShiftChange")' = Active("ShiftChange") BY <1>0, <2>1, <3>2, OthersActive
    <3>4. QED BY <1>1, <3>1, <3>3 DEF HandoverInv, HandoverIsIdle
  <2>5. QED BY <2>2, <2>3, <2>4 DEF Disturbances
<1>6. QED BY <1>2, <1>3, <1>4, <1>5 DEF Scenarios

\* The press is Idle throughout every shift handover, or in the Fault of a
\* bearing that failed in it.
THEOREM HandoverHolds == PressSpec => []HandoverIsIdle
<1>1. PressInit => HandoverInv
  <2> SUFFICES ASSUME PressInit PROVE HandoverInv OBVIOUS
  <2>1. ASSUME NEW s \in Scenario, NEW t \in Scenario, IsOf(s, "ShiftChange"), IsOf(t, "ShiftChange")
        PROVE  s = t
    <3>1. OneOf("ShiftChange") BY DEF PressInit, PressTimeline, OneHandover
    <3>2. QED BY <2>1, <3>1 DEF OneOf
  <2>2. HandoverIsIdle
    BY DEF PressInit, Init, HandoverIsIdle, Active, InPhase, Listed, Scenario
  <2>3. QED BY <2>1, <2>2 DEF HandoverInv, OneShift
<1>2. IInv /\ IInv' /\ HandoverInv /\ [PressNext]_allVars => HandoverInv'
  <2> SUFFICES ASSUME IInv, IInv', HandoverInv, [PressNext]_allVars PROVE HandoverInv' OBVIOUS
  <2>1. CASE \E s \in Scenario : Scenarios(s) BY <2>1, ScenariosKeepHandover
  <2>2. CASE BeginTick \/ BeginEvaluation \/ EndTick \/ UNCHANGED allVars
    <3>1. phase' = phase /\ UNCHANGED state /\ class' = class /\ listed' = listed
      BY <2>2 DEF BeginTick, BeginEvaluation, EndTick, Arbitrate, EndPreemption, FinishTick,
                  allVars, vars, timeline, press
    <3>2. QED BY <3>1 DEF HandoverInv, OneShift, HandoverIsIdle, Active, InPhase, Listed, IsOf, state
  <2>3. CASE CutShort
    <3>1. UNCHANGED state /\ class' = class /\ listed' = listed
      BY <2>3 DEF CutShort, Preempt, timeline, press
    <3>2. Active("ShiftChange")' \subseteq Active("ShiftChange")
      BY <2>3, <3>1 DEF CutShort, Preempt, Active, InPhase, Listed, IsOf, IInv, TypeOK
    <3>3. QED BY <3>1, <3>2 DEF HandoverInv, OneShift, HandoverIsIdle, IsOf, state
  <2>4. CASE Generate
    <3>1. phase' = phase /\ class' = class /\ listed' = listed
      BY <2>4 DEF Generate, vars, timeline
    <3>2. Active("ShiftChange")' = Active("ShiftChange") /\ OneShift'
      BY <3>1 DEF Active, InPhase, Listed, IsOf, OneShift, HandoverInv
    <3>3. machine = "Idle" \/ (failed /\ machine = "Fault")
            => machine' = "Idle" \/ (failed' /\ machine' = "Fault")
      BY <2>4 DEF Generate, Transit, Timed, EnterState, state
    <3>4. QED BY <3>2, <3>3 DEF HandoverInv, HandoverIsIdle
  <2>5. QED BY <2>1, <2>2, <2>3, <2>4 DEF PressNext
<1>3. QED BY <1>1, <1>2, PressRunsTheEngine, Inductive, PTL DEF PressSpec, HandoverInv

-----------------------------------------------------------------------------
\* An engine iteration together with its effect leaves no indicator on
\* without the scenario it speaks of.
LEMMA ScenariosKeepIndicators ==
  ASSUME IInv, IndicatorsCleared, NEW s \in Scenario, Scenarios(s)
  PROVE  IndicatorsCleared'
<1>0. /\ s \in Listed /\ class' = class /\ listed' = listed /\ TypeOK /\ class[s] \in Class
  BY DEF Scenarios, PassOver, Activate, Continue, RunOut, AtCursor, Advance, timeline, IInv, TypeOK
<1> DEFINE Stops == Active("UnplannedStop")
           Breaks == Active("WebBreak")
<1>1. SUFFICES /\ faultCode' => Stops' # {}
               /\ webBreak' => Breaks' # {}
               /\ faultActive' => Stops' # {} \/ Breaks' # {}
  BY DEF IndicatorsCleared
<1>2. /\ faultCode => Stops # {}
      /\ webBreak => Breaks # {}
      /\ faultActive => Stops # {} \/ Breaks # {}
  BY DEF IndicatorsCleared
<1>3. CASE (PassOver(s) /\ UNCHANGED press) \/ (Continue(s) /\ OnTick(s))
  <2>1. phase' = phase BY <1>3 DEF PassOver, Continue
  <2>2. Stops' = Stops /\ Breaks' = Breaks
    BY <1>0, <2>1 DEF Active, InPhase, Listed, IsOf
  <2>3. CASE UNCHANGED coils BY <1>2, <2>2, <2>3 DEF coils
  <2>4. CASE PartWeb(s) /\ Continue(s)
    <3>1. s \in Breaks BY <1>0, <2>4 DEF PartWeb, WebParts, Continue, Active, InPhase, IsOf
    <3>2. faultCode' => Stops' # {} BY <1>2, <2>2, <2>4 DEF PartWeb
    <3>3. Breaks' # {} BY <2>2, <3>1
    <3>4. QED BY <3>2, <3>3
  <2>5. QED BY <1>3, <2>3, <2>4 DEF OnTick, Resume, EndDip, Splice, Recover, Wait, press
<1>4. CASE Activate(s) /\ OnActivate(s)
  <2>1. phase' = [phase EXCEPT ![s] = "ACTIVE"] /\ phase[s] = "PENDING" BY <1>4 DEF Activate
  <2>2. Stops \subseteq Stops' /\ Breaks \subseteq Breaks'
    BY <1>0, <2>1 DEF Active, InPhase, Listed, IsOf, TypeOK
  <2>3. CASE UNCHANGED coils BY <1>2, <2>2, <2>3 DEF coils
  <2>4. CASE StartStop(s)
    <3>1. s \in Stops'
      BY <1>0, <2>1, <2>4 DEF StartStop, Active, InPhase, Listed, IsOf, TypeOK
    <3>2. webBreak' = webBreak BY <2>4 DEF StartStop
    <3>3. QED BY <1>2, <2>2, <3>1, <3>2
  <2>5. QED
    BY <1>4, <2>3, <2>4 DEF OnActivate, StartChangeover, StartBreak, StartShift, StartDip, StartWatch, press
<1>5. CASE RunOut(s) /\ OnComplete(s)
  <2>1. phase' = [phase EXCEPT ![s] = "COMPLETED"] BY <1>5 DEF RunOut
  <2>2. \A c : class[s] # c => Active(c)' = Active(c) BY <1>0, <2>1, OthersActive
  <2>3. CASE EndStop(s)
    <3>1. Breaks' = Breaks BY <2>2, <2>3 DEF EndStop, IsOf
    <3>2. ~ faultCode' /\ ~ faultActive' /\ webBreak' = webBreak BY <2>3 DEF EndStop
    <3>3. QED BY <1>2, <3>1, <3>2
  <2>4. CASE EndBreak(s)
    <3>1. Stops' = Stops BY <2>2, <2>4 DEF EndBreak, IsOf
    <3>2. ~ webBreak' /\ ~ faultActive' /\ faultCode' = faultCode BY <2>4 DEF EndBreak
    <3>3. QED BY <1>2, <3>1, <3>2
  <2>5. CASE \/ EndChangeover(s) \/ EndShift(s) \/ EndMicroStop(s) \/ EndSplice(s)
             \/ EndWear(s) \/ Fail(s)
    <3>1. Stops' = Stops /\ Breaks' = Breaks
      BY <2>2, <2>5 DEF EndChangeover, EndShift, EndMicroStop, EndSplice, EndWear, Fail, IsOf
    <3>2. UNCHANGED coils
      BY <2>5 DEF EndChangeover, EndShift, EndMicroStop, EndSplice, EndWear, Fail, press
    <3>3. QED BY <1>2, <3>1, <3>2 DEF coils
  <2>6. QED BY <1>5, <2>3, <2>4, <2>5 DEF OnComplete
<1>6. QED BY <1>3, <1>4, <1>5 DEF Scenarios

\* No fault indicator outlives the last stop or web break it speaks of,
\* however many of them overlap.
THEOREM IndicatorsHold == PressSpec => []IndicatorsCleared
<1>1. PressInit => IndicatorsCleared BY DEF PressInit, IndicatorsCleared
<1>2. IInv /\ IndicatorsCleared /\ [PressNext]_allVars => IndicatorsCleared'
  <2> SUFFICES ASSUME IInv, IndicatorsCleared, [PressNext]_allVars PROVE IndicatorsCleared'
    OBVIOUS
  <2>1. CASE \E s \in Scenario : Scenarios(s) BY <2>1, ScenariosKeepIndicators
  <2>2. CASE BeginTick \/ BeginEvaluation \/ EndTick \/ Generate \/ UNCHANGED allVars
    <3>1. phase' = phase /\ class' = class /\ listed' = listed /\ coils' = coils
      BY <2>2 DEF BeginTick, BeginEvaluation, EndTick, Arbitrate, EndPreemption, FinishTick,
                  Generate, allVars, vars, timeline, press
    <3>2. QED BY <3>1 DEF coils, IndicatorsCleared, Active, InPhase, Listed, IsOf
  <2>3. CASE CutShort
    <3>1. PICK s \in victims :
            /\ phase' = [phase EXCEPT ![s] = "COMPLETED"]
            /\ class' = class /\ listed' = listed /\ coils' = coils
      BY <2>3 DEF CutShort, Preempt, First, timeline, press
    <3>2. TypeOK /\ s \in Scenario /\ Prio(s) = NonStateChanging /\ class[s] \in Class
      BY <3>1 DEF IInv, VictimsInv, TypeOK
    <3>3. class[s] # "UnplannedStop" /\ class[s] # "WebBreak"
      BY <3>2, PressAssumption, PrioritiesDiffer DEF Prio
    <3>4. /\ Active("UnplannedStop")' = Active("UnplannedStop")
          /\ Active("WebBreak")' = Active("WebBreak")
      BY <3>1, <3>2, <3>3, OthersActive
    <3>5. QED BY <3>1, <3>4 DEF coils, IndicatorsCleared
  <2>4. QED BY <2>1, <2>2, <2>3 DEF PressNext
<1>3. QED BY <1>1, <1>2, PressRunsTheEngine, Inductive, PTL DEF PressSpec

-----------------------------------------------------------------------------
(***************************************************************************)
(* Types.  A changeover draws one of the target speeds before it sets it.  *)
(***************************************************************************)
ChangeoversDraw == \A s \in Begun("JobChangeover") : saved[s] \in Targets

PressTypeInv == PressTypeOK /\ ChangeoversDraw

\* Standstill, the dip and every target are speeds.
LEMMA SpeedRange ==
  /\ Speeds \subseteq Nat
  /\ 0 \in Speeds /\ Low \in Speeds /\ Targets \subseteq Speeds
<1>1. PICK top \in Targets : \A w \in Targets : w <= top BY PressAssumption
<1> DEFINE top2 == CHOOSE v \in Targets : \A w \in Targets : w <= v
<1>2. top2 \in Targets /\ \A w \in Targets : w <= top2 BY <1>1
<1>3. Speeds = 0..top2 BY DEF Speeds
<1>4. top2 \in Nat /\ top2 >= Low
  <2> HIDE DEF top2
  <2>1. QED BY <1>2, PressAssumption DEF Low
<1> HIDE DEF top2
<1>5. Targets \subseteq 0..top2 BY <1>2, <1>4, PressAssumption
<1>6. QED BY <1>3, <1>4, <1>5 DEF Low

\* On its way the ramp passes only speeds, and leaves standstill at once.
LEMMA TowardRange ==
  ASSUME NEW from \in Speeds, NEW to \in Speeds, NEW v \in Toward(from, to)
  PROVE  v \in Speeds /\ (v = 0 => to = 0)
<1>1. PICK top \in Nat : Speeds = 0..top BY SpeedRange, PressAssumption DEF Speeds
<1>2. QED BY <1>1 DEF Toward

\* The speed at which a slow-down ends.
LEMMA EndOfSlowDownType ==
  ASSUME speed \in Speeds, rampEnd \in Speeds PROVE EndOfSlowDown \in Speeds
BY SpeedRange DEF EndOfSlowDown

\* The variables of the press that are flags, and the others.
PressFlags ==
  /\ failed \in BOOLEAN
  /\ astray \in BOOLEAN
  /\ faultActive \in BOOLEAN
  /\ faultCode \in BOOLEAN
  /\ webBreak \in BOOLEAN

PressValues ==
  /\ machine \in {"Off", "Setup", "Running", "Idle", "Fault", "Maintenance"}
  /\ timer \in Nat \ {0}
  /\ prev \in {"none", "Off", "Setup", "Running", "Idle", "Fault", "Maintenance"}
  /\ speed \in Speeds
  /\ rampEnd \in {0, Low} \union Speeds
  /\ target \in Targets
  /\ saved \in [Scenario -> Speeds]
  /\ turn \in {"engine", "press"}

States == {"Off", "Setup", "Running", "Idle", "Fault", "Maintenance"}

\* A state that is entered is one of the machine, for a positive time.
LEMMA EnterStateType ==
  ASSUME NEW st \in States, EnterState(st)
  PROVE  machine' \in States /\ timer' \in Nat \ {0}
BY PressAssumption DEF EnterState, Drawn, States

\* What an iteration of the engine's loop is to the rest of the list.
LEMMA OneAtATime ==
  ASSUME TypeOK, NEW s \in Scenario, Scenarios(s)
  PROVE  /\ s \in Listed /\ s = cursor /\ cursor' = cursor + 1
         /\ pc = "evaluate" /\ pc' = pc /\ turn' = turn
         /\ UNCHANGED <<class, start, duration, listed, now, due, skip, victims>>
         /\ \A t \in Scenario : t # s => phase'[t] = phase[t] /\ elapsed'[t] = elapsed[t]
         /\ \A c : Begun(c)' = IF Activate(s) /\ class[s] = c THEN Begun(c) \union {s} ELSE Begun(c)
<1>1. /\ s \in Listed /\ s = cursor /\ cursor' = cursor + 1
      /\ pc = "evaluate" /\ pc' = pc /\ turn' = turn
      /\ UNCHANGED <<class, start, duration, listed, now, due, skip, victims>>
  BY DEF Scenarios, PassOver, Activate, Continue, RunOut, AtCursor, Advance, timeline, locals
<1>2. \A t \in Scenario : t # s => phase'[t] = phase[t] /\ elapsed'[t] = elapsed[t]
  BY DEF Scenarios, PassOver, Activate, Continue, RunOut, TypeOK
<1>3. \/ Activate(s) /\ phase[s] = "PENDING" /\ phase'[s] = "ACTIVE"
      \/ ~ Activate(s) /\ (phase'[s] = "PENDING" <=> phase[s] = "PENDING")
  BY DEF Scenarios, PassOver, Activate, Continue, RunOut, TypeOK
<1>4. Listed \subseteq Scenario BY ListedAreScenarios
<1>5. \A c : Begun(c)' = IF Activate(s) /\ class[s] = c THEN Begun(c) \union {s} ELSE Begun(c)
  BY <1>1, <1>2, <1>3, <1>4 DEF Begun, Listed, IsOf
<1>6. QED BY <1>1, <1>2, <1>5

\* Each step of a scenario has the effect that belongs to it.
LEMMA EffectOfStep ==
  ASSUME TypeOK, NEW s \in Scenario, Scenarios(s)
  PROVE  /\ PassOver(s) => UNCHANGED press
         /\ Activate(s) => OnActivate(s)
         /\ Continue(s) => OnTick(s)
         /\ RunOut(s) => OnComplete(s)
<1>1. Activate(s) => ~ PassOver(s) /\ ~ Continue(s) /\ ~ RunOut(s)
  BY DEF TypeOK, Activate, PassOver, Continue, RunOut
<1>2. Continue(s) => ~ PassOver(s) /\ ~ RunOut(s)
  BY DEF TypeOK, PassOver, Continue, RunOut
<1>3. RunOut(s) => ~ PassOver(s)
  BY DEF TypeOK, PassOver, RunOut
<1>4. QED BY <1>1, <1>2, <1>3 DEF Scenarios

\* Every effect of a scenario on the press keeps its flags true or false.
LEMMA EffectsFlags ==
  ASSUME PressTypeOK, NEW s \in Scenario, Scenarios(s)
  PROVE  PressFlags'
<1>1. PressFlags BY DEF PressTypeOK, PressFlags
<1>2. CASE UNCHANGED press BY <1>1, <1>2 DEF press, state, ramp, coils, PressFlags
<1>3. CASE OnActivate(s)
  BY <1>1, <1>3 DEF OnActivate, StartChangeover, StartStop, StartBreak, StartShift, StartDip,
         StartWatch, EnterState, StartRamp, press, state, ramp, coils, PressFlags
<1>4. CASE OnTick(s)
  BY <1>1, <1>4 DEF OnTick, Resume, PartWeb, EndDip, Splice, Recover, Wait, SlowDown,
         EnterState, StartRamp, press, state, ramp, coils, PressFlags
<1>5. CASE OnComplete(s)
  BY <1>1, <1>5 DEF OnComplete, EndChangeover, EndStop, EndBreak, EndShift, EndMicroStop,
         EndSplice, EndWear, Fail, EnterState, StartRamp, press, state, ramp, coils, PressFlags
<1>6. QED BY <1>2, <1>3, <1>4, <1>5 DEF Scenarios

\* Every effect of a scenario on the press keeps the types.
LEMMA EffectsType ==
  ASSUME PressTypeInv, TypeOK, NEW s \in Scenario, Scenarios(s)
  PROVE  PressTypeOK'
<1>p. PressValues /\ ChangeoversDraw BY DEF PressTypeInv, PressTypeOK, PressValues
<1>q. PressFlags' BY EffectsFlags DEF PressTypeInv
<1>r. SUFFICES PressValues' BY <1>q DEF PressFlags, PressValues, PressTypeOK
<1> USE DEF PressValues
<1>0. turn' \in {"engine", "press"} BY <1>p, OneAtATime
<1>a. 0 \in Speeds /\ Low \in Speeds /\ Targets \subseteq Speeds /\ EndOfSlowDown \in Speeds
  BY <1>p, SpeedRange, EndOfSlowDownType
<1>b. \A st \in States : EnterState(st) => machine' \in States /\ timer' \in Nat \ {0}
  BY EnterStateType
<1>c. rampEnd \in Speeds /\ speed \in Speeds BY <1>p, <1>a
<1>1. CASE UNCHANGED press
  BY <1>p, <1>0, <1>1 DEF press, state, ramp, coils
<1>2. CASE StartChangeover(s)
  <2>1. saved' \in [Scenario -> Speeds] BY <1>p, <1>2, <1>a DEF StartChangeover
  <2>2. QED BY <1>p, <1>0, <1>2, <1>b, <2>1 DEF StartChangeover, ramp, coils, States
<1>3. CASE StartStop(s) BY <1>p, <1>0, <1>3, <1>b DEF StartStop, ramp, States
<1>4. CASE StartShift(s)
  <2>1. saved' \in [Scenario -> Speeds] BY <1>p, <1>4, <1>a DEF StartShift
  <2>2. QED BY <1>p, <1>0, <1>4, <1>b, <2>1 DEF StartShift, ramp, coils, States
<1>5. CASE StartDip(s)
  <2>1. saved' \in [Scenario -> Speeds] BY <1>p, <1>5, <1>a DEF StartDip
  <2>2. QED BY <1>p, <1>0, <1>5, <1>a, <2>1 DEF StartDip, StartRamp, state, coils
<1>6. CASE Resume(s) /\ Continue(s)
  <2>1. s \in Begun("JobChangeover")
    BY <1>p, <1>6, OneAtATime DEF Resume, ChangeoverResumes, Continue, Begun
  <2>2. target' \in Targets BY <1>p, <1>6, <2>1 DEF Resume, ChangeoversDraw
  <2>3. QED BY <1>p, <1>0, <1>6, <1>b, <2>2 DEF Resume, ramp, coils, States
<1>7. CASE PartWeb(s)
  <2>1. rampEnd' \in Speeds BY <1>p, <1>7, <1>a DEF PartWeb, SlowDown
  <2>2. QED BY <1>p, <1>0, <1>7, <1>b, <2>1 DEF PartWeb, States
<1>8. CASE EndDip(s) BY <1>p, <1>0, <1>8, <1>a DEF EndDip, StartRamp, state, coils
<1>9. CASE Splice(s)
  <2>1. saved' \in [Scenario -> Speeds] BY <1>p, <1>9 DEF Splice
  <2>2. speed' \in Speeds /\ rampEnd' \in Speeds BY <1>p, <1>9, <1>c DEF Splice, StartRamp, ramp
  <2>3. QED BY <1>p, <1>0, <1>9, <2>1, <2>2 DEF Splice, state, coils
<1>10. CASE Recover(s)
  <2>1. speed' \in Speeds /\ rampEnd' \in Speeds BY <1>p, <1>10, <1>a, <1>c DEF Recover, StartRamp, ramp
  <2>2. QED BY <1>p, <1>0, <1>10, <2>1 DEF Recover, state, coils
<1>11. CASE EndStop(s) BY <1>p, <1>0, <1>11, <1>b DEF EndStop, ramp, States
<1>12. CASE EndBreak(s) BY <1>p, <1>0, <1>12, <1>b DEF EndBreak, ramp, States
<1>13. CASE EndShift(s) BY <1>p, <1>0, <1>13, <1>b DEF EndShift, ramp, coils, States
<1>14. CASE EndMicroStop(s)
  <2>1. speed' \in Speeds /\ rampEnd' \in Speeds BY <1>p, <1>14, <1>c DEF EndMicroStop, StartRamp, ramp
  <2>2. QED BY <1>p, <1>0, <1>14, <2>1 DEF EndMicroStop, state, coils
<1>15. CASE Fail(s)
  <2>1. machine' \in States /\ timer' \in Nat \ {0}
    BY <1>15, PressAssumption DEF Fail, Drawn, States
  <2>2. QED BY <1>p, <1>0, <1>15, <2>1 DEF Fail, coils, States
<1>16. QED
  BY <1>1, <1>2, <1>3, <1>4, <1>5, <1>6, <1>7, <1>8, <1>9, <1>10, <1>11, <1>12, <1>13, <1>14, <1>15
  DEF Scenarios, OnActivate, OnTick, OnComplete, StartBreak, StartWatch, Wait, EndChangeover,
      EndSplice, EndWear

\* A changeover that begins has drawn its speed; nobody else writes it.
LEMMA ChangeoversKeepDraw ==
  ASSUME PressTypeInv, TypeOK, NEW s \in Scenario, Scenarios(s)
  PROVE  ChangeoversDraw'
<1> USE DEF PressTypeInv, PressTypeOK
<1> SUFFICES ASSUME NEW t \in Begun("JobChangeover")' PROVE saved'[t] \in Targets
  BY DEF ChangeoversDraw
<1>0. t \in Scenario /\ class[t] = "JobChangeover"
  BY OneAtATime, ListedAreScenarios DEF Begun, Listed, IsOf
<1>1. CASE Activate(s) /\ OnActivate(s) /\ t = s
  <2>1. StartChangeover(s)
    BY <1>0, <1>1 DEF OnActivate, StartStop, StartBreak, StartShift, StartDip, StartWatch, IsOf
  <2>2. QED BY <1>1, <2>1 DEF StartChangeover
<1>2. CASE ~ (Activate(s) /\ t = s)
  <2>1. t \in Begun("JobChangeover") BY <1>2, OneAtATime
  <2>2. saved[t] \in Targets BY <2>1 DEF ChangeoversDraw
  <2>3. saved'[t] = saved[t]
    <3>1. \/ UNCHANGED saved \/ StartDip(s) \/ Splice(s) \/ StartShift(s)
          \/ Activate(s) /\ StartChangeover(s)
      BY DEF Scenarios, OnActivate, OnTick, OnComplete, StartStop, StartBreak, StartWatch, Resume,
             PartWeb, EndDip, Recover, Wait, EndChangeover, EndStop, EndBreak, EndShift,
             EndMicroStop, EndSplice, EndWear, Fail, press
    <3>2. CASE StartDip(s) \/ Splice(s) \/ StartShift(s)
      <4>1. t # s BY <1>0, <3>2 DEF StartDip, Splice, ReelIsLow, StartShift, IsOf
      <4>2. QED BY <1>0, <3>2, <4>1 DEF StartDip, Splice, StartShift
    <3>3. CASE Activate(s) /\ StartChangeover(s)
      BY <1>0, <1>2, <3>3 DEF StartChangeover
    <3>4. QED BY <3>1, <3>2, <3>3
  <2>4. QED BY <2>2, <2>3
<1>3. QED BY <1>1, <1>2, EffectOfStep

\* What the steps that are no iteration of the loop leave alone.
LEMMA BetweenIterations ==
  ASSUME IInv, BeginTick \/ CutShort \/ BeginEvaluation \/ EndTick \/ Generate \/ UNCHANGED allVars
  PROVE  /\ UNCHANGED <<class, start, duration, listed, elapsed>>
         /\ Generate \/ UNCHANGED press
         /\ UNCHANGED <<target, saved>>
         /\ \A c : Begun(c)' = Begun(c)
<1>1. /\ UNCHANGED <<class, start, duration, listed, elapsed>>
      /\ Generate \/ UNCHANGED press
      /\ UNCHANGED <<target, saved>>
  BY DEF BeginTick, CutShort, BeginEvaluation, EndTick, Generate, Arbitrate, Preempt,
         EndPreemption, FinishTick, allVars, vars, timeline, press
<1>2. CASE phase' = phase
  BY <1>1, <1>2 DEF Begun, Listed, IsOf
<1>3. CASE CutShort
  <2>1. PICK v \in victims : phase' = [phase EXCEPT ![v] = "COMPLETED"]
    BY <1>3 DEF CutShort, Preempt, First
  <2>2. v \in Scenario /\ phase[v] = "ACTIVE" BY DEF IInv, VictimsInv, Running, TypeOK
  <2>3. \A t \in Scenario : phase'[t] = "PENDING" <=> phase[t] = "PENDING"
    BY <2>1, <2>2 DEF IInv, TypeOK
  <2>4. Listed \subseteq Scenario BY ListedAreScenarios DEF IInv
  <2>5. QED BY <1>1, <2>3, <2>4 DEF Begun, Listed, IsOf
<1>4. QED
  BY <1>1, <1>2, <1>3 DEF BeginTick, BeginEvaluation, EndTick, Generate, Arbitrate,
         EndPreemption, FinishTick, allVars, vars

\* The state machine moves only between states of the press.
LEMMA TransitType ==
  ASSUME PressTypeOK, Transit
  PROVE  machine' \in States /\ timer' \in Nat \ {0}
<1>1. ASSUME timer > 1, timer' = timer - 1 PROVE timer' \in Nat \ {0}
  BY <1>1 DEF PressTypeOK
<1>2. CASE timer = 1 /\ machine \in DOMAIN Timed /\ EnterState(Timed[machine])
  <2>1. Timed[machine] \in States BY <1>2 DEF Timed, States
  <2>2. QED BY <1>2, <2>1, EnterStateType
<1>3. CASE EnterState("Fault") BY <1>3, EnterStateType DEF States
<1>4. QED BY <1>1, <1>2, <1>3 DEF Transit, PressTypeOK, States, state

\* Whether the state is that of a failed bearing is true or false.
LEMMA TransitFailed ==
  ASSUME PressTypeOK, Transit PROVE failed' \in BOOLEAN
BY DEF Transit, EnterState, state, PressTypeOK

\* A tick of the press generator keeps the types.
LEMMA GenerateType ==
  ASSUME PressTypeOK, Generate
  PROVE  PressTypeOK'
<1> USE DEF PressTypeOK
<1>1. machine' \in States /\ timer' \in Nat \ {0} BY TransitType DEF Generate
<1>2. rampEnd \in Speeds /\ target \in Speeds /\ EndOfSlowDown \in Speeds
  BY SpeedRange, EndOfSlowDownType
<1>3. rampEnd' \in Speeds BY <1>2 DEF Generate, Cascade, SlowDown
<1>4. speed' \in Speeds BY <1>3, TowardRange DEF Generate
<1>5. failed' \in BOOLEAN /\ astray' \in BOOLEAN
  BY TransitFailed DEF Generate, Cascade, SlowDown
<1>6. QED BY <1>1, <1>3, <1>4, <1>5 DEF Generate, States, coils

\* Every variable of the press keeps its type, for every timeline; a speed
\* is never above the highest target.
THEOREM PressTypeCorrect == PressSpec => []PressTypeInv
<1>1. ASSUME PressInit PROVE PressTypeInv
  <2>0. /\ \A s \in Scenario : phase[s] = "PENDING"
        /\ Listed \subseteq Scenario
    BY <1>1, EngineAssumption DEF PressInit, Init, Listed, Scenario
  <2>1. \A c : Begun(c) = {} BY <2>0 DEF Begun
  <2>2. PressTypeOK
    <3>1. /\ speed \in Speeds /\ rampEnd \in Speeds
          /\ saved \in [Scenario -> Speeds]
      BY <1>1, SpeedRange DEF PressInit
    <3>2. /\ faultActive \in BOOLEAN /\ faultCode \in BOOLEAN /\ webBreak \in BOOLEAN
          /\ failed \in BOOLEAN /\ astray \in BOOLEAN
      BY <1>1 DEF PressInit
    <3>3. /\ machine = "Idle" /\ timer = 1 /\ prev = "none" /\ target \in Targets
          /\ turn = "engine"
      BY <1>1 DEF PressInit
    <3>4. QED BY <3>1, <3>2, <3>3 DEF PressTypeOK
  <2>3. QED BY <2>1, <2>2 DEF PressTypeInv, ChangeoversDraw
<1>2. ASSUME IInv, PressTypeInv, [PressNext]_allVars PROVE PressTypeInv'
  <2>1. CASE \E s \in Scenario : Scenarios(s)
    BY <1>2, <2>1, EffectsType, ChangeoversKeepDraw DEF PressTypeInv, IInv
  <2>2. CASE BeginTick \/ CutShort \/ BeginEvaluation \/ EndTick \/ Generate \/ UNCHANGED allVars
    <3>1. ChangeoversDraw'
      BY <1>2, <2>2, BetweenIterations DEF PressTypeInv, ChangeoversDraw
    <3>2. CASE Generate BY <1>2, <3>1, <3>2, GenerateType DEF PressTypeInv
    <3>3. CASE ~ Generate
      <4>1. UNCHANGED press BY <1>2, <2>2, <3>3, BetweenIterations
      <4>2. turn' \in {"engine", "press"}
        BY <1>2, <2>2, <3>3 DEF BeginTick, CutShort, BeginEvaluation, EndTick, allVars,
                                PressTypeInv, PressTypeOK
      <4>3. QED
        BY <1>2, <3>1, <4>1, <4>2 DEF PressTypeInv, PressTypeOK, press, state, ramp, coils
    <3>4. QED BY <3>2, <3>3
  <2>3. QED BY <1>2, <2>1, <2>2 DEF PressNext
<1>3. QED BY <1>1, <1>2, PressRunsTheEngine, Inductive, PTL DEF PressSpec

-----------------------------------------------------------------------------
(***************************************************************************)
(* A ramp that nobody has meddled with is a ramp of the production that    *)
(* the press was in at its last tick.                                      *)
(***************************************************************************)
Straight == (prev # "Running" => rampEnd = 0) /\ (speed = 0 => rampEnd = 0)

Observed == BetweenTicks => prev = machine \/ rampEnd = 0

StandstillInv == ~ astray => Straight /\ Observed

\* A slow-down ends at standstill, and nobody has meddled with it, if the line
\* moved or had been left alone before.
LEMMA SlowDownStops ==
  ASSUME PressTypeOK, ~ astray => Straight, SlowDown
  PROVE  ~ astray' => rampEnd' = 0
<1>1. speed \in Nat BY SpeedRange DEF PressTypeOK
<1>2. CASE speed > 0 BY <1>2 DEF SlowDown, EndOfSlowDown
<1>3. CASE speed = 0
  <2>1. rampEnd' = rampEnd BY <1>3 DEF SlowDown, EndOfSlowDown
  <2>2. ~ astray' => ~ astray BY <1>3 DEF SlowDown
  <2>3. QED BY <1>3, <2>1, <2>2 DEF Straight
<1>4. QED BY <1>1, <1>2, <1>3

\* A scenario leaves ramps alone, slows the line down, or is known to have
\* meddled with its ramp.
LEMMA ScenariosKeepStraight ==
  ASSUME TypeOK, PressTypeOK, ~ astray => Straight, NEW s \in Scenario, Scenarios(s)
  PROVE  ~ astray' => Straight'
<1>1. CASE UNCHANGED <<prev, ramp>> BY <1>1 DEF ramp, Straight
<1>2. CASE astray' = TRUE BY <1>2
<1>3. CASE PartWeb(s)
  <2>1. ~ astray' => rampEnd' = 0 BY <1>3, SlowDownStops DEF PartWeb
  <2>2. QED BY <2>1 DEF Straight
<1>4. CASE Fail(s)
  <2>1. rampEnd \in Nat BY SpeedRange DEF PressTypeOK
  <2>2. ~ astray' => ~ (rampEnd > 0) BY <1>4 DEF Fail
  <2>3. ~ astray' => rampEnd' = 0 BY <1>4, <2>1, <2>2 DEF Fail
  <2>4. QED BY <2>3 DEF Straight
<1>5. CASE UNCHANGED press BY <1>1, <1>5 DEF press
<1>6. CASE OnActivate(s)
  BY <1>1, <1>2, <1>6 DEF OnActivate, StartChangeover, StartStop, StartBreak, StartShift,
         StartDip, StartWatch, StartRamp, press
<1>7. CASE OnTick(s)
  BY <1>1, <1>2, <1>3, <1>7 DEF OnTick, Resume, EndDip, Splice, Recover, Wait, StartRamp, press
<1>8. CASE OnComplete(s)
  BY <1>1, <1>2, <1>4, <1>8 DEF OnComplete, EndChangeover, EndStop, EndBreak, EndShift,
         EndMicroStop, EndSplice, EndWear, StartRamp, press
<1>9. QED BY <1>5, <1>6, <1>7, <1>8 DEF Scenarios

\* A tick of the press starts a ramp that fits the state it finds.
LEMMA GenerateKeepsStraight ==
  ASSUME PressTypeOK, ~ astray => Straight, Generate
  PROVE  ~ astray' => Straight'
<1>1. speed \in Speeds /\ rampEnd' \in Speeds
  <2>1. PressTypeOK' BY GenerateType
  <2>2. QED BY <2>1, SpeedRange DEF PressTypeOK
<1>2. speed' = 0 => rampEnd' = 0 BY <1>1, TowardRange DEF Generate
<1>3. prev' = machine' BY DEF Generate
<1>4. CASE machine' = prev /\ UNCHANGED <<rampEnd, astray>>
  BY <1>2, <1>3, <1>4 DEF Straight
<1>5. CASE machine' = "Running" BY <1>2, <1>3, <1>5 DEF Straight
<1>6. CASE SlowDown
  <2>1. ~ astray' => rampEnd' = 0 BY <1>6, SlowDownStops
  <2>2. QED BY <2>1 DEF Straight
<1>7. QED BY <1>4, <1>5, <1>6 DEF Generate, Cascade

\* However the states follow one another, a line outside production stands
\* or is being slowed down to a standstill, unless a micro-stop, a splice or
\* a bearing failure has meddled with its ramp since it last came to a stop.
THEOREM StandstillHolds == PressSpec => []StoppedUnlessRunning
<1>1. PressInit => StandstillInv BY DEF PressInit, StandstillInv, Straight, Observed
<1>2. ASSUME IInv, PressTypeInv, StandstillInv, [PressNext]_allVars PROVE StandstillInv'
  <2>0. TypeOK /\ PressTypeOK /\ (~ astray => Straight)
    BY <1>2 DEF IInv, PressTypeInv, StandstillInv
  <2>1. ASSUME NEW s \in Scenario, Scenarios(s) PROVE StandstillInv'
    <3>1. ~ BetweenTicks' BY <2>0, <2>1, OneAtATime DEF BetweenTicks
    <3>2. ~ astray' => Straight' BY <2>0, <2>1, ScenariosKeepStraight
    <3>3. QED BY <3>1, <3>2 DEF StandstillInv, Observed
  <2>2. CASE Generate
    <3>1. ~ astray' => Straight' BY <2>0, <2>2, GenerateKeepsStraight
    <3>2. prev' = machine' BY <2>2 DEF Generate
    <3>3. QED BY <3>1, <3>2 DEF StandstillInv, Observed
  <2>3. CASE BeginTick \/ CutShort \/ BeginEvaluation \/ EndTick \/ UNCHANGED allVars
    <3>1. UNCHANGED press \/ Generate BY <1>2, <2>3, BetweenIterations
    <3>2. BetweenTicks' => BetweenTicks
      BY <2>3 DEF BetweenTicks, BeginTick, Arbitrate, CutShort, Preempt, BeginEvaluation,
                  EndPreemption, EndTick, allVars, vars
    <3>3. QED BY <1>2, <2>2, <3>1, <3>2 DEF StandstillInv, Straight, Observed, press, ramp, state
  <2>4. QED BY <1>2, <2>1, <2>2, <2>3 DEF PressNext
<1>3. StandstillInv => StoppedUnlessRunning
  BY DEF StandstillInv, Straight, Observed, StoppedUnlessRunning
<1>4. QED BY <1>1, <1>2, <1>3, PressRunsTheEngine, Inductive, PressTypeCorrect, PTL DEF PressSpec

-----------------------------------------------------------------------------
(***************************************************************************)
(* Who still owes the line a speed.  While the press stays in production,  *)
(* the ramp leads to the target or to what a micro-stop remembered, unless *)
(* a scenario is under way that will set the ramp, or stop the press, by   *)
(* itself: a micro-stop in its dip, a splice that is being made, a web     *)
(* break before the web parts, a state change the priority pass has let    *)
(* through, or one that has just put the press in Fault.                   *)
(***************************************************************************)
InDip(s) == s \in Active("MicroStop") /\ elapsed[s] <= duration[s] - 2

InSplice(s) ==
  s \in Active("MaterialSplice") /\ elapsed[s] = duration[s] - 2 /\ saved[s] > 0

InBreak(s) == s \in Active("WebBreak") /\ elapsed[s] = 1

Halting ==
  /\ pc # "idle"
  /\ \E c \in First(Changing(due)) : phase[c] = "PENDING"
  /\ OfPriority(InPhase("ACTIVE"), StateChanging) = {}

Halted ==
  /\ machine = "Fault"
  /\ Active("UnplannedStop") # {}
  /\ \/ turn = "press"
     \/ pc = "evaluate" /\ \A s \in OfPriority(InPhase("ACTIVE"), StateChanging) : s < cursor

Heading ==
  \/ rampEnd = target
  \/ \E s \in Begun("MicroStop") : rampEnd = saved[s]
  \/ \E s \in Scenario : InDip(s) \/ InSplice(s) \/ InBreak(s)
  \/ Halting
  \/ Halted

HeadingInv == Begun("JobChangeover") = {} /\ prev = "Running" => Heading

TurnInv == turn = "press" => pc = "idle"

LengthInv == \A s \in Scenario : duration[s] >= 3

\* A shift handover is seen by the press in the tick in which it starts.
HandoverSeen ==
  \A s \in Active("ShiftChange") :
    prev # "Running" \/ turn = "press" \/ (pc = "evaluate" /\ s < cursor)

StateSeen == BetweenTicks => prev = machine \/ machine = "Idle"

FollowInv ==
  TurnInv /\ LengthInv /\ VictimsDue /\ HandoverSeen /\ StateSeen /\ HeadingInv

\* The priorities of the seven classes.
LEMMA ClassPriority ==
  ASSUME TypeOK, NEW s \in Scenario
  PROVE  /\ class[s] \in {"JobChangeover", "UnplannedStop", "WebBreak", "ShiftChange",
                          "MaterialSplice", "MicroStop", "BearingWear"}
         /\ Prio(s) = StateChanging <=> class[s] \in {"JobChangeover", "UnplannedStop", "WebBreak"}
         /\ Prio(s) = NonStateChanging <=> class[s] \in {"ShiftChange", "MaterialSplice"}
<1>1. class[s] \in Class BY DEF TypeOK
<1>2. /\ "micro" # StateChanging /\ "micro" # NonStateChanging
      /\ "background" # StateChanging /\ "background" # NonStateChanging
  BY DEF StateChanging, NonStateChanging
<1>3. QED BY <1>1, <1>2, PressAssumption, PrioritiesDiffer DEF Prio

\* No handover goes on beside a scenario that changes the state.
LEMMA NoHandoverBeside ==
  ASSUME TypeOK, Exclusion, NEW s \in InPhase("ACTIVE"),
         class[s] \in {"JobChangeover", "UnplannedStop", "WebBreak"}
  PROVE  Active("ShiftChange") = {}
<1> SUFFICES ASSUME NEW t \in Active("ShiftChange") PROVE FALSE OBVIOUS
<1>1. s \in Scenario /\ t \in Scenario /\ t \in InPhase("ACTIVE") /\ class[t] = "ShiftChange"
  BY ListedAreScenarios DEF InPhase, Active, IsOf
<1>2. QED BY <1>1, ClassPriority DEF Exclusion

\* The scenarios that are active after an iteration: those before, less the
\* one at the cursor if it ended, and that one if it started.
LEMMA ActiveAfter ==
  ASSUME TypeOK, NEW s \in Scenario, Scenarios(s)
  PROVE  /\ \A t \in Scenario : t # s => (t \in InPhase("ACTIVE")' <=> t \in InPhase("ACTIVE"))
         /\ \A t \in Scenario, c \in Class :
              t # s => (t \in Active(c)' <=> t \in Active(c))
         /\ s \in InPhase("ACTIVE")' <=> Activate(s) \/ (phase[s] = "ACTIVE" /\ ~ RunOut(s))
         /\ \A t \in Scenario : Prio(t)' = Prio(t)
         /\ First(Changing(due))' = First(Changing(due))
         /\ InPhase("ACTIVE")' \subseteq Scenario
<1>1. /\ s \in Listed /\ UNCHANGED <<class, listed, due>>
      /\ \A t \in Scenario : t # s => phase'[t] = phase[t]
  BY OneAtATime
<1>2. Listed' = Listed /\ \A t \in Scenario : Prio(t)' = Prio(t) BY <1>1 DEF Listed, Prio
<1>3. phase'[s] = "ACTIVE" <=> Activate(s) \/ (phase[s] = "ACTIVE" /\ ~ RunOut(s))
  <2>1. CASE PassOver(s)
    <3>1. ~ Activate(s) /\ ~ RunOut(s)
      BY <2>1 DEF TypeOK, PassOver, Activate, RunOut
    <3>2. QED BY <2>1, <3>1 DEF PassOver
  <2>2. CASE Activate(s) BY <2>2 DEF Activate, TypeOK
  <2>3. CASE Continue(s)
    <3>1. ~ Activate(s) /\ ~ RunOut(s) BY <2>3 DEF TypeOK, Continue, Activate, RunOut
    <3>2. QED BY <2>3, <3>1 DEF Continue
  <2>4. CASE RunOut(s) BY <2>4 DEF RunOut, Activate, TypeOK
  <2>5. QED BY <2>1, <2>2, <2>3, <2>4 DEF Scenarios
<1>4. Listed \subseteq Scenario BY ListedAreScenarios
<1>5. First(Changing(due))' = First(Changing(due))
  BY <1>1 DEF First, Changing, OfPriority, Prio
<1>6. QED BY <1>1, <1>2, <1>3, <1>4, <1>5 DEF InPhase, Active, IsOf

\* What keeps the line heading for its speed when the ramp, the target and
\* what the others remember are left alone.
LEMMA HeadingKept ==
  ASSUME TypeOK, NEW s \in Scenario, Scenarios(s), Heading,
         rampEnd' = rampEnd, target' = target,
         \A t \in Scenario : t # s => saved'[t] = saved[t],
         class[s] = "MicroStop" => saved'[s] = saved[s],
         InDip(s) => InDip(s)', InSplice(s) => InSplice(s)', InBreak(s) => InBreak(s)',
         Halting => Heading', Halted => Heading'
  PROVE  Heading'
<1>1. CASE rampEnd = target BY <1>1 DEF Heading
<1>2. CASE \E t \in Begun("MicroStop") : rampEnd = saved[t]
  <2>1. PICK t \in Begun("MicroStop") : rampEnd = saved[t] BY <1>2
  <2>2. t \in Scenario /\ class[t] = "MicroStop"
    BY ListedAreScenarios DEF Begun, IsOf
  <2>3. saved'[t] = saved[t] BY <2>2
  <2>4. t \in Begun("MicroStop")' BY OneAtATime
  <2>5. QED BY <2>1, <2>3, <2>4 DEF Heading
<1>3. CASE \E t \in Scenario : InDip(t) \/ InSplice(t) \/ InBreak(t)
  <2>1. PICK t \in Scenario : InDip(t) \/ InSplice(t) \/ InBreak(t) BY <1>3
  <2>2. CASE t = s BY <2>1, <2>2 DEF Heading
  <2>3. CASE t # s
    <3>1. /\ phase'[t] = phase[t] /\ elapsed'[t] = elapsed[t] /\ saved'[t] = saved[t]
          /\ UNCHANGED <<class, listed, duration>>
      BY <2>3, OneAtATime
    <3>2. InDip(t)' \/ InSplice(t)' \/ InBreak(t)'
      BY <2>1, <3>1 DEF InDip, InSplice, InBreak, Active, InPhase, Listed, IsOf
    <3>3. QED BY <3>2 DEF Heading
  <2>4. QED BY <2>2, <2>3
<1>4. QED BY <1>1, <1>2, <1>3 DEF Heading

\* While a state change is about to start, or another scenario moves along
\* beside it, it still is: only its own start ends this.
LEMMA HaltingKept ==
  ASSUME TypeOK, NEW s \in Scenario, Scenarios(s), Halting,
         Activate(s) => Prio(s) # StateChanging
  PROVE  Heading'
<1>1. PICK c \in First(Changing(due)) : phase[c] = "PENDING" BY DEF Halting
<1>2. c \in Scenario /\ Prio(c) = StateChanging BY <1>1 DEF First, Changing, OfPriority, TypeOK
<1>3. phase'[c] = "PENDING"
  <2>1. CASE c # s BY <1>1, <1>2, <2>1, OneAtATime
  <2>2. CASE c = s
    <3>1. PassOver(s) BY <1>1, <1>2, <2>2 DEF Scenarios, Continue, RunOut
    <3>2. QED BY <1>1, <2>2, <3>1 DEF PassOver
  <2>3. QED BY <2>1, <2>2
<1>4. OfPriority(InPhase("ACTIVE"), StateChanging)' = {}
  <2> SUFFICES ASSUME NEW t \in InPhase("ACTIVE")', Prio(t)' = StateChanging PROVE FALSE
    BY DEF OfPriority
  <2>1. t \in Scenario /\ Prio(t) = StateChanging BY ActiveAfter
  <2>2. t \in InPhase("ACTIVE")
    <3>1. CASE t # s BY <2>1, <3>1, ActiveAfter
    <3>2. CASE t = s
      <4>1. phase[s] = "ACTIVE" BY <2>1, <3>2, ActiveAfter
      <4>2. QED BY <3>2, <4>1, OneAtATime DEF InPhase
    <3>3. QED BY <3>1, <3>2
  <2>3. QED BY <2>1, <2>2 DEF Halting, OfPriority
<1>5. pc' # "idle" BY OneAtATime
<1>6. c \in First(Changing(due))' BY <1>1, ActiveAfter
<1>7. QED BY <1>3, <1>4, <1>5, <1>6 DEF Heading, Halting

\* A press that has just been stopped stays in Fault until its next tick.
LEMMA HaltedKept ==
  ASSUME TypeOK, TurnInv, NEW s \in Scenario, Scenarios(s), Halted, machine' = "Fault",
         RunOut(s) => class[s] # "UnplannedStop"
  PROVE  Heading'
<1>1. PICK c \in Active("UnplannedStop") : TRUE BY DEF Halted
<1>2. c \in Scenario /\ "UnplannedStop" \in Class
  BY <1>1, ListedAreScenarios DEF Active, InPhase, IsOf, TypeOK
<1>3. c \in Active("UnplannedStop")'
  <2>1. CASE c # s BY <1>1, <1>2, <2>1, ActiveAfter
  <2>2. CASE c = s
    <3>1. class[s] = "UnplannedStop" /\ phase[s] = "ACTIVE"
      BY <1>1, <2>2 DEF Active, InPhase, IsOf
    <3>2. s \in InPhase("ACTIVE")' BY <3>1, ActiveAfter
    <3>3. QED BY <2>2, <3>1, <3>2, OneAtATime DEF Active, IsOf
  <2>3. QED BY <2>1, <2>2
<1>4. pc = "evaluate" /\ \A t \in OfPriority(InPhase("ACTIVE"), StateChanging) : t < cursor
  BY OneAtATime DEF Halted, TurnInv
<1>5. pc' = "evaluate" /\ s = cursor /\ cursor' = cursor + 1 /\ cursor \in Nat
  BY OneAtATime, EngineAssumption DEF TypeOK
<1>6. ASSUME NEW t \in OfPriority(InPhase("ACTIVE"), StateChanging)' PROVE t < cursor'
  <2>1. t \in Scenario /\ t \in InPhase("ACTIVE")' /\ Prio(t) = StateChanging
    BY ActiveAfter DEF OfPriority
  <2>2. t \in Nat BY <2>1 DEF Scenario
  <2>3. CASE t = s BY <1>5, <2>3
  <2>4. CASE t # s
    <3>1. t \in OfPriority(InPhase("ACTIVE"), StateChanging)
      BY <2>1, <2>4, ActiveAfter DEF OfPriority
    <3>2. QED BY <1>4, <1>5, <2>2, <3>1
  <2>5. QED BY <2>3, <2>4
<1>7. QED BY <1>3, <1>5, <1>6 DEF Heading, Halted

\* The start of a scenario leaves somebody in charge of the speed.
LEMMA StartsKeepHeading ==
  ASSUME IInv, IInv', PressTypeInv, FollowInv, Heading, NEW s \in Scenario, Scenarios(s),
         Activate(s), class[s] # "JobChangeover"
  PROVE  Heading'
<1>0. TypeOK /\ TypeOK' /\ Exclusion' /\ TurnInv /\ LengthInv BY DEF IInv, FollowInv
<1>1. /\ s \in Listed /\ UNCHANGED <<class, duration, listed>> /\ pc' = "evaluate"
      /\ phase[s] = "PENDING" /\ s \in InPhase("ACTIVE")' /\ elapsed'[s] = 1
  <2>1. s \in Listed /\ UNCHANGED <<class, duration, listed>> /\ pc' = "evaluate"
    BY <1>0, OneAtATime
  <2>2. s \in InPhase("ACTIVE")' BY <1>0, ActiveAfter
  <2>3. phase[s] = "PENDING" /\ elapsed'[s] = 1 BY <1>0 DEF Activate, TypeOK
  <2>4. QED BY <2>1, <2>2, <2>3
<1>2. ~ InDip(s) /\ ~ InSplice(s) /\ ~ InBreak(s)
  BY <1>1 DEF InDip, InSplice, InBreak, Active, InPhase
<1>3. \A c : class[s] = c => s \in Active(c)' BY <1>1 DEF Active, IsOf
<1>4. OnActivate(s) BY <1>0, EffectOfStep
<1>5. CASE StartStop(s)
  <2>1. class[s] = "UnplannedStop" /\ machine' = "Fault" /\ UNCHANGED <<ramp, target, saved>>
    BY <1>5 DEF StartStop, EnterState, IsOf
  <2>2. Halting => Heading'
    <3> SUFFICES ASSUME Halting PROVE Heading' OBVIOUS
    <3>1. ASSUME NEW t \in OfPriority(InPhase("ACTIVE"), StateChanging)' PROVE t < cursor'
      <4>1. t \in Scenario /\ t \in InPhase("ACTIVE")' /\ Prio(t) = StateChanging
        BY <1>0, ActiveAfter DEF OfPriority
      <4>2. t = s BY <1>0, <4>1, ActiveAfter DEF Halting, OfPriority
      <4>3. s = cursor /\ cursor' = cursor + 1 BY <1>0, OneAtATime
      <4>4. s \in Nat BY DEF Scenario
      <4>5. QED BY <4>2, <4>3, <4>4
    <3>2. QED BY <1>1, <1>3, <2>1, <3>1 DEF Heading, Halted
  <2>3. Halted => Heading'
    BY <1>0, <2>1, HaltedKept DEF RunOut, Activate
  <2>4. QED BY <1>0, <1>2, <2>1, <2>2, <2>3, HeadingKept DEF ramp
<1>6. CASE StartBreak(s)
  <2>1. InBreak(s)' BY <1>1, <1>3, <1>6 DEF InBreak, StartBreak, IsOf
  <2>2. QED BY <2>1 DEF Heading
<1>7. CASE StartShift(s)
  <2>1. class[s] = "ShiftChange" /\ saved' = [saved EXCEPT ![s] = target] /\ UNCHANGED <<ramp, target>>
    BY <1>7 DEF StartShift, IsOf
  <2>2. \A t \in Scenario : t # s => saved'[t] = saved[t]
    BY <2>1 DEF PressTypeInv, PressTypeOK
  <2>3. Halting => Heading' BY <1>0, <2>1, HaltingKept, ClassPriority
  <2>4. ASSUME Halted PROVE FALSE
    <3>1. PICK c \in Active("UnplannedStop") : TRUE BY <2>4 DEF Halted
    <3>2. c \in Scenario /\ c # s /\ class[c] = "UnplannedStop" /\ c \in InPhase("ACTIVE")
      BY <1>0, <2>1, <3>1, ListedAreScenarios DEF Active, InPhase, IsOf
    <3>3. c \in InPhase("ACTIVE")' /\ class'[c] = "UnplannedStop"
      BY <1>0, <1>1, <3>2, ActiveAfter
    <3>4. /\ Prio(c)' = StateChanging /\ Prio(s)' = NonStateChanging
      BY <1>0, <2>1, <3>2, ClassPriority, ActiveAfter
    <3>5. QED BY <1>0, <1>1, <3>3, <3>4 DEF Exclusion
  <2>5. QED BY <1>0, <1>2, <2>1, <2>2, <2>3, <2>4, HeadingKept DEF ramp
<1>8. CASE StartDip(s)
  <2>1. class[s] = "MicroStop" BY <1>8 DEF StartDip, IsOf
  <2>2. elapsed'[s] <= duration'[s] - 2 BY <1>0, <1>1 DEF LengthInv, TypeOK
  <2>3. InDip(s)' BY <1>3, <2>1, <2>2 DEF InDip
  <2>4. QED BY <2>3 DEF Heading
<1>9. CASE StartWatch(s)
  <2>1. /\ class[s] \in {"MaterialSplice", "BearingWear"}
        /\ UNCHANGED <<ramp, target, saved, machine>>
    BY <1>9 DEF StartWatch, press, state
  <2>2. Halting => Heading' BY <1>0, <2>1, HaltingKept, ClassPriority
  <2>3. Halted => Heading' BY <1>0, <2>1, HaltedKept DEF Halted
  <2>4. QED BY <1>0, <1>2, <2>1, <2>2, <2>3, HeadingKept DEF ramp
<1>10. QED
  BY <1>4, <1>5, <1>6, <1>7, <1>8, <1>9 DEF OnActivate, StartChangeover, IsOf

\* A phase that ends hands the speed on: the end of a dip remembers one, a
\* splice under way will restore the target, web that parts stops the press.
LEMMA PhasesKeepHeading ==
  ASSUME IInv, PressTypeInv, FollowInv, Heading, NEW s \in Scenario, Scenarios(s),
         Continue(s), class[s] # "JobChangeover", prev' = "Running"
  PROVE  Heading'
<1>0. TypeOK /\ TurnInv /\ LengthInv BY DEF IInv, FollowInv
<1>1. /\ s \in Listed /\ UNCHANGED <<class, duration, listed>> /\ phase' = phase
      /\ elapsed'[s] = elapsed[s] + 1 /\ elapsed[s] \in Nat /\ duration[s] \in Nat
  BY <1>0, OneAtATime DEF Continue, TypeOK
<1>2. \A c : class[s] = c <=> s \in Active(c)'
  BY <1>0, <1>1, OneAtATime DEF Active, InPhase, Listed, IsOf, Continue
<1>3. OnTick(s) /\ ~ Activate(s) /\ ~ RunOut(s)
  BY <1>0, EffectOfStep DEF Continue, Activate, RunOut, TypeOK
<1>4. Halting => Heading' BY <1>0, <1>3, HaltingKept
<1>5. machine' = machine => (Halted => Heading')
  BY <1>0, <1>3, HaltedKept DEF Halted
<1>6. CASE PartWeb(s) BY <1>6 DEF PartWeb
<1>7. CASE EndDip(s)
  <2>1. s \in Begun("MicroStop")'
    BY <1>1, <1>2, <1>7 DEF EndDip, DipEnds, IsOf, Begun, Active, InPhase
  <2>2. rampEnd' = saved'[s] BY <1>7 DEF EndDip, StartRamp
  <2>3. QED BY <2>1, <2>2 DEF Heading
<1>8. CASE Splice(s)
  <2>1. /\ class[s] = "MaterialSplice" /\ elapsed[s] + 1 = duration[s] - 2
        /\ saved' = [saved EXCEPT ![s] = speed] /\ UNCHANGED <<target, machine>>
    BY <1>8 DEF Splice, ReelIsLow, IsOf, state
  <2>2. saved'[s] = speed /\ \A t \in Scenario : t # s => saved'[t] = saved[t]
    BY <2>1 DEF PressTypeInv, PressTypeOK
  <2>3. CASE speed > 0
    <3>1. InSplice(s)' BY <1>1, <1>2, <2>1, <2>2, <2>3 DEF InSplice
    <3>2. QED BY <3>1 DEF Heading
  <2>4. CASE ~ (speed > 0)
    <3>1. rampEnd' = rampEnd BY <1>8, <2>4 DEF Splice, ramp
    <3>2. ~ InDip(s) /\ ~ InBreak(s) /\ ~ InSplice(s)
      BY <1>1, <2>1 DEF InDip, InBreak, InSplice, Active, IsOf
    <3>3. QED BY <1>0, <1>4, <1>5, <2>1, <2>2, <3>1, <3>2, HeadingKept
  <2>5. QED BY <2>3, <2>4
<1>9. CASE Recover(s)
  <2>1. class[s] = "MaterialSplice" /\ UNCHANGED <<target, machine, saved>>
    BY <1>9 DEF Recover, SpliceIsMade, IsOf, state
  <2>2. CASE saved[s] > 0 BY <1>9, <2>1, <2>2 DEF Recover, StartRamp, Heading
  <2>3. CASE ~ (saved[s] > 0)
    <3>1. rampEnd' = rampEnd BY <1>9, <2>3 DEF Recover, ramp
    <3>2. ~ InDip(s) /\ ~ InBreak(s) /\ ~ InSplice(s)
      BY <1>1, <2>1, <2>3 DEF InDip, InBreak, InSplice, Active, IsOf
    <3>3. QED BY <1>0, <1>4, <1>5, <2>1, <3>1, <3>2, HeadingKept
  <2>4. QED BY <2>2, <2>3
<1>10. CASE Wait(s)
  <2>1. UNCHANGED <<rampEnd, target, machine, saved>> BY <1>10 DEF Wait, press, state, ramp
  <2>2. InDip(s) => InDip(s)'
    <3> SUFFICES ASSUME InDip(s) PROVE InDip(s)' OBVIOUS
    <3>1. class[s] = "MicroStop" /\ elapsed[s] <= duration[s] - 2 BY DEF InDip, Active, IsOf
    <3>2. elapsed[s] + 1 # duration[s] - 1 BY <1>10, <3>1 DEF Wait, DipEnds, IsOf
    <3>3. elapsed'[s] <= duration'[s] - 2 BY <1>1, <3>1, <3>2
    <3>4. QED BY <1>2, <3>1, <3>3 DEF InDip
  <2>3. ~ InSplice(s)
    <3> SUFFICES ASSUME InSplice(s) PROVE FALSE OBVIOUS
    <3>1. class[s] = "MaterialSplice" /\ elapsed[s] = duration[s] - 2 BY DEF InSplice, Active, IsOf
    <3>2. elapsed[s] + 1 # duration[s] - 1 BY <1>10, <3>1 DEF Wait, SpliceIsMade, IsOf
    <3>3. QED BY <1>1, <3>1, <3>2
  <2>4. ~ InBreak(s) BY <1>10 DEF Wait, WebParts, InBreak, Active, IsOf
  <2>5. QED BY <1>0, <1>4, <1>5, <2>1, <2>2, <2>3, <2>4, HeadingKept
<1>11. QED
  BY <1>3, <1>6, <1>7, <1>8, <1>9, <1>10 DEF OnTick, Resume, ChangeoverResumes, IsOf

\* A scenario that ends owes the line nothing any more.
LEMMA EndsKeepHeading ==
  ASSUME IInv, PressTypeInv, FollowInv, Heading, NEW s \in Scenario, Scenarios(s),
         RunOut(s), class[s] # "JobChangeover", prev = "Running", prev' = "Running"
  PROVE  Heading'
<1>0. TypeOK /\ TurnInv /\ LengthInv BY DEF IInv, FollowInv
<1>1. /\ s \in Listed /\ phase[s] = "ACTIVE" /\ s \in InPhase("ACTIVE") /\ s = cursor
      /\ elapsed[s] + 1 >= duration[s] /\ elapsed[s] \in Nat /\ duration[s] \in Nat
      /\ duration[s] >= 3 /\ s \in Nat
  BY <1>0, OneAtATime DEF RunOut, TypeOK, InPhase, LengthInv, Scenario
<1>2. ~ InDip(s) /\ ~ InSplice(s) /\ ~ InBreak(s) BY <1>1 DEF InDip, InSplice, InBreak
<1>3. OnComplete(s) /\ ~ Activate(s)
  BY <1>0, EffectOfStep DEF RunOut, Activate, TypeOK
<1>4. Halting => Heading' BY <1>0, <1>3, HaltingKept
<1>5. CASE EndStop(s) \/ EndBreak(s)
  <2>1. class[s] \in {"UnplannedStop", "WebBreak"} /\ UNCHANGED <<rampEnd, target, saved>>
    BY <1>5 DEF EndStop, EndBreak, IsOf, ramp
  <2>2. s \in OfPriority(InPhase("ACTIVE"), StateChanging)
    BY <1>0, <1>1, <2>1, ClassPriority DEF OfPriority
  <2>3. ~ Halted BY <1>0, <1>1, <2>2, OneAtATime DEF Halted, TurnInv
  <2>4. QED BY <1>0, <1>2, <1>4, <2>1, <2>3, HeadingKept
<1>6. CASE EndShift(s)
  <2>1. s \in Active("ShiftChange") BY <1>1, <1>6 DEF EndShift, Active
  <2>2. prev # "Running" BY <1>0, <1>1, <2>1, OneAtATime DEF FollowInv, HandoverSeen, TurnInv
  <2>3. QED BY <2>2
<1>7. CASE EndMicroStop(s)
  <2>1. class[s] = "MicroStop" /\ UNCHANGED <<target, machine, saved>>
    BY <1>7 DEF EndMicroStop, IsOf, state
  <2>2. CASE rampEnd' = saved[s]
    <3>1. s \in Begun("MicroStop") BY <1>1, <2>1 DEF Begun, IsOf
    <3>2. s \in Begun("MicroStop")' BY <1>0, <3>1, OneAtATime
    <3>3. QED BY <2>1, <2>2, <3>2 DEF Heading
  <2>3. CASE rampEnd' = rampEnd
    <3>1. Halted => Heading' BY <1>0, <2>1, HaltedKept DEF Halted
    <3>2. QED BY <1>0, <1>2, <1>4, <2>1, <2>3, <3>1, HeadingKept
  <2>4. QED BY <1>7, <2>2, <2>3 DEF EndMicroStop, StartRamp, ramp
<1>8. CASE EndSplice(s) \/ EndWear(s)
  <2>1. /\ class[s] \in {"MaterialSplice", "BearingWear"}
        /\ UNCHANGED <<rampEnd, target, machine, saved>>
    BY <1>8 DEF EndSplice, EndWear, IsOf, press, state, ramp
  <2>2. Halted => Heading' BY <1>0, <2>1, HaltedKept DEF Halted
  <2>3. QED BY <1>0, <1>2, <1>4, <2>1, <2>2, HeadingKept
<1>9. QED BY <1>3, <1>5, <1>6, <1>7, <1>8 DEF OnComplete, EndChangeover, Fail, IsOf

\* Whatever an iteration of the engine's loop does to the press, the line
\* goes on heading for its speed.
LEMMA ScenariosKeepHeading ==
  ASSUME IInv, IInv', PressTypeInv, FollowInv, NEW s \in Scenario, Scenarios(s)
  PROVE  HeadingInv'
<1> SUFFICES ASSUME Begun("JobChangeover")' = {}, prev' = "Running" PROVE Heading'
  BY DEF HeadingInv
<1>0. TypeOK BY DEF IInv
<1>1. Begun("JobChangeover") = {} BY <1>0, OneAtATime
<1>2. prev = "Running"
  BY DEF Scenarios, OnActivate, OnTick, OnComplete, StartChangeover, StartStop, StartBreak, StartShift,
         StartDip, StartWatch, Resume, PartWeb, EndDip, Splice, Recover, Wait, EndChangeover,
         EndStop, EndBreak, EndShift, EndMicroStop, EndSplice, EndWear, Fail, press
<1>3. Heading BY <1>1, <1>2 DEF FollowInv, HeadingInv
<1>4. ~ PassOver(s) => class[s] # "JobChangeover"
  BY <1>0, <1>1, OneAtATime DEF Scenarios, Continue, RunOut, Begun, IsOf
<1>5. CASE PassOver(s)
  <2>1. UNCHANGED press /\ phase' = phase /\ elapsed' = elapsed
    BY <1>0, <1>5, EffectOfStep DEF PassOver
  <2>2. ~ Activate(s) /\ ~ RunOut(s)
    BY <1>0, <1>5 DEF TypeOK, PassOver, Activate, RunOut
  <2>3. Halting => Heading' BY <1>0, <2>2, HaltingKept
  <2>4. Halted => Heading'
    BY <1>0, <2>1, <2>2, HaltedKept DEF FollowInv, Halted, press, state
  <2>5. UNCHANGED <<rampEnd, target, saved, class, duration, listed>>
    BY <1>0, <2>1, OneAtATime DEF press, ramp
  <2>6. (InDip(s) => InDip(s)') /\ (InSplice(s) => InSplice(s)') /\ (InBreak(s) => InBreak(s)')
    BY <2>1, <2>5 DEF InDip, InSplice, InBreak, Active, InPhase, Listed, IsOf
  <2>7. QED BY <1>0, <1>3, <2>3, <2>4, <2>5, <2>6, HeadingKept
<1>6. CASE Activate(s) /\ ~ PassOver(s) BY <1>3, <1>4, <1>6, StartsKeepHeading
<1>7. CASE Continue(s) /\ ~ PassOver(s) BY <1>3, <1>4, <1>7, PhasesKeepHeading
<1>8. CASE RunOut(s) /\ ~ PassOver(s) BY <1>2, <1>3, <1>4, <1>8, EndsKeepHeading
<1>9. QED BY <1>5, <1>6, <1>7, <1>8 DEF Scenarios

\* A handover that has gone through a tick of the press was seen by it.
LEMMA ScenariosKeepSeen ==
  ASSUME IInv, FollowInv, NEW s \in Scenario, Scenarios(s)
  PROVE  HandoverSeen'
<1> SUFFICES ASSUME NEW t \in Active("ShiftChange")'
             PROVE  prev' # "Running" \/ (pc' = "evaluate" /\ t < cursor')
  BY DEF HandoverSeen
<1>0. TypeOK /\ Exclusion /\ TurnInv BY DEF IInv, FollowInv
<1>1. t \in Scenario /\ class[t] = "ShiftChange" /\ t \in InPhase("ACTIVE")'
  BY <1>0, OneAtATime, ActiveAfter DEF Active, IsOf
<1>2. pc' = "evaluate" /\ s = cursor /\ cursor' = cursor + 1 /\ t \in Nat /\ cursor \in Nat
  <2>1. pc' = "evaluate" /\ s = cursor /\ cursor' = cursor + 1 BY <1>0, OneAtATime
  <2>2. t \in Nat /\ s \in Nat BY <1>1 DEF Scenario
  <2>3. QED BY <2>1, <2>2
<1>3. CASE t = s BY <1>2, <1>3
<1>4. CASE t # s
  <2>1. t \in Active("ShiftChange") BY <1>0, <1>1, <1>4, ActiveAfter, OneAtATime DEF Active, IsOf
  <2>2. prev # "Running" \/ t < cursor
    BY <1>0, <2>1, OneAtATime DEF FollowInv, HandoverSeen, TurnInv
  <2>3. prev' = prev \/ prev' = "Fault"
    BY DEF Scenarios, OnActivate, OnTick, OnComplete, StartChangeover, StartStop, StartBreak,
         StartShift, StartDip, StartWatch, Resume, PartWeb, EndDip, Splice, Recover, Wait,
         EndChangeover, EndStop, EndBreak, EndShift, EndMicroStop, EndSplice, EndWear, Fail, press
  <2>4. QED BY <1>2, <2>2, <2>3
<1>5. QED BY <1>3, <1>4

\* Cutting a splice short leaves the line to the state change that does so.
LEMMA CutShortKeepsHeading ==
  ASSUME IInv, ProgressInv, PressTypeInv, FollowInv, Heading, CutShort
  PROVE  Heading'
<1>0. TypeOK /\ Exclusion /\ VictimsDue BY DEF IInv, FollowInv
<1>1. PICK v \in victims : phase' = [phase EXCEPT ![v] = "COMPLETED"]
  BY DEF CutShort, Preempt, First
<1>2. /\ UNCHANGED <<class, duration, listed, elapsed, due, rampEnd, target, saved>>
      /\ pc = "preempt" /\ pc' = "preempt"
  BY DEF CutShort, Preempt, timeline, locals, press, ramp
<1>3. /\ v \in Scenario /\ phase[v] = "ACTIVE" /\ Prio(v) = NonStateChanging
      /\ v \in InPhase("ACTIVE")
  BY <1>0, <1>1 DEF IInv, VictimsInv, Running, TypeOK, InPhase
<1>4. class[v] \in {"ShiftChange", "MaterialSplice"} BY <1>0, <1>3, ClassPriority
<1>5. /\ \A t \in Scenario : t # v => phase'[t] = phase[t]
      /\ phase'[v] = "COMPLETED"
  BY <1>0, <1>1, <1>3 DEF TypeOK
<1>6. Halting'
  <2>1. PICK c \in First(Changing(due)) : TRUE
    BY <1>0, <1>1, HasFirst DEF VictimsDue, Changing, OfPriority, TypeOK
  <2>2. c \in due /\ c \in Scenario BY <1>0, <2>1 DEF First, Changing, OfPriority, TypeOK
  <2>3. phase[c] = "PENDING" BY <1>2, <2>2 DEF ProgressInv
  <2>4. phase'[c] = "PENDING" BY <1>3, <1>5, <2>2, <2>3
  <2>5. First(Changing(due))' = First(Changing(due))
    BY <1>2 DEF First, Changing, OfPriority, Prio
  <2>6. ASSUME NEW t \in OfPriority(InPhase("ACTIVE"), StateChanging)' PROVE FALSE
    <3>1. t \in Listed /\ t \in Scenario /\ phase'[t] = "ACTIVE" /\ Prio(t) = StateChanging
      BY <1>0, <1>2, <2>6, ListedAreScenarios DEF OfPriority, InPhase, Listed, Prio
    <3>2. t # v BY <1>3, <3>1, PrioritiesDiffer
    <3>3. t \in InPhase("ACTIVE") BY <1>5, <3>1, <3>2 DEF InPhase
    <3>4. QED BY <1>0, <1>3, <3>1, <3>3 DEF Exclusion
  <2>7. QED BY <1>2, <2>1, <2>4, <2>5, <2>6 DEF Halting
<1>7. QED BY <1>6 DEF Heading

\* A tick of the press answers for the speed of a line that enters, or stays
\* in, production.
LEMMA GenerateKeepsHeading ==
  ASSUME IInv, PressTypeInv, FollowInv, Generate
  PROVE  HeadingInv'
<1> SUFFICES ASSUME Begun("JobChangeover")' = {}, prev' = "Running" PROVE Heading'
  BY DEF HeadingInv
<1>1. /\ machine' = "Running" /\ Cascade /\ turn = "press"
      /\ UNCHANGED <<class, duration, listed, phase, elapsed, target, saved>>
  BY DEF Generate, vars, timeline
<1>2. Begun("JobChangeover") = {} BY BetweenIterations
<1>3. CASE prev # "Running" BY <1>1, <1>3 DEF Cascade, Heading
<1>4. CASE prev = "Running"
  <2>1. Heading BY <1>2, <1>4 DEF FollowInv, HeadingInv
  <2>2. rampEnd' = rampEnd BY <1>1, <1>4 DEF Cascade
  <2>3. ~ Halting BY <1>1 DEF Halting, FollowInv, TurnInv
  <2>4. ~ Halted
    <3>1. machine # "Fault" BY <1>1 DEF Generate, Transit, Timed, EnterState, state
    <3>2. QED BY <3>1 DEF Halted
  <2>5. \/ rampEnd' = target'
        \/ \E s \in Begun("MicroStop")' : rampEnd' = saved'[s]
        \/ \E s \in Scenario : InDip(s)' \/ InSplice(s)' \/ InBreak(s)'
    BY <1>1, <2>1, <2>2, <2>3, <2>4
    DEF Heading, InDip, InSplice, InBreak, Begun, Active, InPhase, Listed, IsOf
  <2>6. QED BY <2>5 DEF Heading
<1>5. QED BY <1>3, <1>4

\* The other steps of a tick change neither the ramp nor who owes it.
LEMMA TickKeepsHeading ==
  ASSUME IInv, PressTypeInv, FollowInv, OneStateChangePerTick, Heading,
         BeginTick \/ BeginEvaluation \/ EndTick \/ UNCHANGED allVars
  PROVE  Heading'
<1>1. /\ UNCHANGED <<class, duration, listed, phase, elapsed, rampEnd, target, saved, machine>>
  BY DEF BeginTick, BeginEvaluation, EndTick, Arbitrate, EndPreemption, FinishTick,
         allVars, vars, timeline, press, state, ramp
<1>2. \/ rampEnd = target
      \/ \E s \in Begun("MicroStop") : rampEnd = saved[s]
      \/ \E s \in Scenario : InDip(s) \/ InSplice(s) \/ InBreak(s)
      => Heading'
  BY <1>1 DEF Heading, InDip, InSplice, InBreak, Begun, Active, InPhase, Listed, IsOf
<1>3. ASSUME Halting PROVE Heading'
  <2>1. PICK c \in First(Changing(due)) : phase[c] = "PENDING" BY <1>3 DEF Halting
  <2>2. ~ BeginTick /\ ~ EndTick
    BY <1>3, <2>1 DEF Halting, BeginTick, Arbitrate, EndTick, FinishTick, OneStateChangePerTick, First
  <2>3. pc' # "idle" /\ UNCHANGED <<class, due, phase, listed>>
    BY <1>1, <1>3, <2>2 DEF Halting, BeginEvaluation, EndPreemption, locals, allVars, vars
  <2>4. Halting'
    BY <1>3, <2>3 DEF Halting, First, Changing, OfPriority, Prio, InPhase, Listed
  <2>5. QED BY <2>4 DEF Heading
<1>4. ASSUME Halted PROVE Heading'
  <2>1. Active("UnplannedStop")' # {} /\ machine' = "Fault"
    BY <1>1, <1>4 DEF Halted, Active, InPhase, Listed, IsOf
  <2>2. ~ BeginTick /\ ~ BeginEvaluation
    BY <1>4 DEF Halted, FollowInv, TurnInv, BeginTick, Arbitrate, BeginEvaluation, EndPreemption
  <2>3. CASE EndTick BY <2>1, <2>3 DEF EndTick, Heading, Halted
  <2>4. CASE UNCHANGED allVars
    <3>1. UNCHANGED <<class, pc, turn, cursor, listed, phase>> BY <2>4 DEF allVars, vars, timeline
    <3>2. Halted' BY <1>4, <2>1, <3>1 DEF Halted, OfPriority, Prio, InPhase, Listed
    <3>3. QED BY <3>2 DEF Heading
  <2>5. QED BY <2>2, <2>3, <2>4
<1>5. QED BY <1>2, <1>3, <1>4 DEF Heading

\* A press left in production heads for its target speed, or for one that a
\* micro-stop remembered, however the scenarios overlapped before.
THEOREM SpeedFollowsHolds == PressSpec => []SpeedFollowsTarget
<1>1. ASSUME PressInit PROVE FollowInv
  <2>1. \A s \in Scenario : phase[s] = "PENDING" BY <1>1 DEF PressInit, Init
  <2>2. Listed \subseteq Scenario BY <1>1, EngineAssumption DEF PressInit, Init, Listed, Scenario
  <2>3. Active("ShiftChange") = {} BY <2>1, <2>2 DEF Active, InPhase
  <2>4. LengthInv
    <3>1. \A s \in Scenario : class[s] \in Class /\ duration[s] \in Length[class[s]]
      BY <1>1 DEF PressInit, Init
    <3>2. \A c \in Class : \A d \in Length[c] : d >= 3
      <4>1. \A c \in Class : Length[c] \subseteq 3..MaxDuration BY PressAssumption
      <4>2. \A d \in 3..MaxDuration : d >= 3 BY EngineAssumption
      <4>3. QED BY <4>1, <4>2
    <3>3. QED BY <3>1, <3>2 DEF LengthInv
  <2>5. QED
    BY <1>1, <2>3, <2>4 DEF PressInit, Init, FollowInv, TurnInv, VictimsDue, HandoverSeen,
                            StateSeen, HeadingInv
<1>2. ASSUME IInv, IInv', ProgressInv, PressTypeInv, HandoverIsIdle, OneStateChangePerTick,
             FollowInv, [PressNext]_allVars
      PROVE  FollowInv'
  <2>1. CASE \E s \in Scenario : Scenarios(s)
    <3>1. PICK s \in Scenario : Scenarios(s) BY <2>1
    <3>2. /\ UNCHANGED <<duration, victims, due, class, pc, turn>> /\ pc = "evaluate"
      BY <1>2, <3>1, OneAtATime DEF IInv
    <3>3. TurnInv' /\ LengthInv' /\ VictimsDue' /\ StateSeen'
      BY <1>2, <3>2 DEF FollowInv, TurnInv, LengthInv, VictimsDue, StateSeen, BetweenTicks,
                        Changing, OfPriority, Prio
    <3>4. HandoverSeen' BY <1>2, <3>1, ScenariosKeepSeen
    <3>5. HeadingInv' BY <1>2, <3>1, ScenariosKeepHeading
    <3>6. QED BY <3>3, <3>4, <3>5 DEF FollowInv
  <2>2. CASE BeginTick \/ CutShort \/ BeginEvaluation \/ EndTick \/ Generate \/ UNCHANGED allVars
    <3>1. /\ UNCHANGED <<class, start, duration, listed, elapsed>>
          /\ Begun("JobChangeover")' = Begun("JobChangeover")
          /\ Generate \/ UNCHANGED press
      BY <1>2, <2>2, BetweenIterations
    <3>2. TurnInv'
      BY <1>2, <2>2 DEF FollowInv, TurnInv, BeginTick, CutShort, BeginEvaluation, EndTick, Generate,
             Arbitrate, Preempt, EndPreemption, FinishTick, allVars, vars
    <3>3. LengthInv' BY <1>2, <3>1 DEF FollowInv, LengthInv
    <3>4. VictimsDue'
      <4>1. CASE BeginTick
        <5>1. victims' = PreemptedBy(due') /\ class' = class
          BY <4>1 DEF BeginTick, Arbitrate, timeline
        <5>2. Changing(due)' = Changing(due') BY <5>1 DEF Changing, OfPriority, Prio
        <5>3. QED BY <5>1, <5>2 DEF VictimsDue, PreemptedBy
      <4>2. CASE EndTick
        <5>1. victims' = victims /\ pc = "evaluate"
          BY <4>2 DEF EndTick, FinishTick, TickDone
        <5>2. victims = {} BY <1>2, <5>1 DEF IInv, VictimsInv
        <5>3. QED BY <5>1, <5>2 DEF VictimsDue
      <4>3. CASE CutShort \/ BeginEvaluation \/ Generate \/ UNCHANGED allVars
        <5>1. victims' \subseteq victims /\ due' = due /\ class' = class
          BY <4>3 DEF CutShort, Preempt, BeginEvaluation, EndPreemption, Generate, allVars, vars,
                      timeline, locals
        <5>2. QED BY <1>2, <5>1 DEF FollowInv, VictimsDue, Changing, OfPriority, Prio
      <4>4. QED BY <2>2, <4>1, <4>2, <4>3
    <3>5. HandoverSeen'
      <4> SUFFICES ASSUME NEW t \in Active("ShiftChange")'
                   PROVE  prev' # "Running" \/ turn' = "press" \/ (pc' = "evaluate" /\ t < cursor')
        BY DEF HandoverSeen
      <4>1. t \in Active("ShiftChange")
        <5>1. CASE phase' = phase BY <3>1, <5>1 DEF Active, InPhase, Listed, IsOf
        <5>2. CASE CutShort
          BY <1>2, <3>1, <5>2, ListedAreScenarios
          DEF CutShort, Preempt, Active, InPhase, Listed, IsOf, IInv, TypeOK
        <5>3. QED
          BY <2>2, <5>1, <5>2 DEF BeginTick, BeginEvaluation, EndTick, Generate, Arbitrate,
                                  EndPreemption, FinishTick, allVars, vars
      <4>2. prev # "Running" \/ turn = "press" \/ (pc = "evaluate" /\ t < cursor)
        BY <1>2, <4>1 DEF FollowInv, HandoverSeen
      <4>3. CASE Generate
        <5>1. machine \in {"Idle", "Fault"} BY <1>2, <4>1 DEF HandoverIsIdle
        <5>2. QED BY <4>3, <5>1 DEF Generate, Transit, Timed, EnterState, state
      <4>4. CASE EndTick BY <4>4 DEF EndTick
      <4>5. CASE BeginTick \/ CutShort \/ BeginEvaluation
        <5>1. pc # "evaluate" /\ turn # "press" /\ prev' = prev
          BY <1>2, <4>5 DEF BeginTick, Arbitrate, CutShort, Preempt, BeginEvaluation, EndPreemption,
                            FollowInv, TurnInv, press
        <5>2. QED BY <4>2, <5>1
      <4>6. CASE UNCHANGED allVars BY <4>2, <4>6 DEF allVars, vars, press
      <4>7. QED BY <2>2, <4>3, <4>4, <4>5, <4>6
    <3>6. StateSeen'
      <4>1. CASE Generate BY <4>1 DEF Generate, StateSeen
      <4>2. CASE ~ Generate
        <5>1. BetweenTicks' => BetweenTicks
          BY <2>2, <4>2 DEF BetweenTicks, BeginTick, Arbitrate, CutShort, Preempt, BeginEvaluation,
                      EndPreemption, EndTick, allVars, vars
        <5>2. QED BY <1>2, <3>1, <4>2, <5>1 DEF FollowInv, StateSeen, press, state
      <4>3. QED BY <4>1, <4>2
    <3>7. HeadingInv'
      <4>1. CASE Generate BY <1>2, <4>1, GenerateKeepsHeading
      <4>2. CASE ~ Generate
        <5> SUFFICES ASSUME Begun("JobChangeover")' = {}, prev' = "Running" PROVE Heading'
          BY DEF HeadingInv
        <5>1. Heading BY <1>2, <3>1, <4>2 DEF FollowInv, HeadingInv, press
        <5>2. QED BY <1>2, <2>2, <4>2, <5>1, CutShortKeepsHeading, TickKeepsHeading
      <4>3. QED BY <4>1, <4>2
    <3>8. QED BY <3>2, <3>3, <3>4, <3>5, <3>6, <3>7 DEF FollowInv
  <2>3. QED BY <1>2, <2>1, <2>2 DEF PressNext
<1>3. ASSUME FollowInv PROVE SpeedFollowsTarget
  <2> SUFFICES ASSUME BetweenTicks, Quiet, machine = "Running", Begun("JobChangeover") = {}
               PROVE  rampEnd = target \/ \E s \in Begun("MicroStop") : rampEnd = saved[s]
    BY DEF SpeedFollowsTarget
  <2>1. prev = "Running" BY <1>3 DEF FollowInv, StateSeen
  <2>2. Heading BY <1>3, <2>1 DEF FollowInv, HeadingInv
  <2>3. /\ ~ Halting /\ ~ Halted
        /\ \A s \in Scenario : ~ InDip(s) /\ ~ InSplice(s) /\ ~ InBreak(s)
    BY DEF BetweenTicks, Quiet, Halting, Halted, InDip, InSplice, InBreak, Active
  <2>4. QED BY <2>2, <2>3 DEF Heading
<1>4. QED
  BY <1>1, <1>2, <1>3, PressRunsTheEngine, Progress, PressTypeCorrect, HandoverHolds,
     OneStateChangeHolds, PTL DEF PressSpec

=============================================================================
