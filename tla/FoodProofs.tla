----------------------------- MODULE FoodProofs -----------------------------
(***************************************************************************)
(* Theorems about FoodLine, for every timeline of batches, CIP cycles and  *)
(* failures, every draw of their durations, every interval of the          *)
(* generators, every set of midnights and every setting of the cold room   *)
(* and the oven.                                                           *)
(*                                                                         *)
(* FoodLine is not a refinement of ScenarioEngine: a CIP cycle may end     *)
(* before its time is over (EndEarly).  The engine's invariant is proved   *)
(* again, from the lemmas about one iteration of the evaluate loop.        *)
(***************************************************************************)
EXTENDS FoodLine, ScenarioEngineProofs

Batch == "BatchCycle"
Cip == "CipCycle"
Oven == "OvenThermalExcursion"
Failure == "ColdChainBreak"

\* The scenarios of the list are scenarios.
LEMMA ListedAreScenarios == TypeOK => Listed \subseteq Scenario
BY EngineAssumption DEF TypeOK, Listed, Scenario

-----------------------------------------------------------------------------
(***************************************************************************)
(* The engine's invariant.                                                 *)
(***************************************************************************)
\* An early end is one more iteration that admits nothing.
LEMMA EarlyEndKeeps ==
  ASSUME IInv, NEW s \in Scenario, EndEarly(s)
  PROVE  IInv'
<1> USE EngineAssumption
<1>1. /\ s = cursor /\ cursor \in 1..listed /\ pc = "evaluate" /\ s \in Listed
      /\ cursor' = cursor + 1
      /\ UNCHANGED <<class, start, duration, listed, now, pc, due, scActive, skip, victims, logging>>
      /\ phase' = [phase EXCEPT ![s] = "COMPLETED"]
      /\ elapsed' = [elapsed EXCEPT ![s] = @ + 1]
  BY DEF EndEarly, AtCursor, Advance, Listed, timeline, locals
<1>2. TypeOK'
  <2>1. log' \in Seq(Entries)
    <3>1. <<Entry("scenario_end", s)>> \in Seq(Entries) BY EntryType
    <3>2. QED BY <3>1, WrittenType DEF EndEarly, IInv, TypeOK
  <2>2. cursor' \in 1..N+1 BY <1>1 DEF IInv, TypeOK
  <2>3. elapsed' \in [Scenario -> Nat] BY <1>1 DEF IInv, TypeOK
  <2>4. phase' \in [Scenario -> {"PENDING", "ACTIVE", "COMPLETED"}] BY <1>1 DEF IInv, TypeOK
  <2>5. QED BY <1>1, <2>1, <2>2, <2>3, <2>4 DEF IInv, TypeOK
<1>3. Iteration(s)
  BY <1>1 DEF Iteration, IInv, TypeOK
<1>4. QED BY <1>2, <1>3, IterationKeeps DEF IInv

\* Every step of the line keeps the engine's invariant.
LEMMA EngineInvKept ==
  ASSUME IInv, [FoodNext]_foodVars
  PROVE  IInv'
<1>1. CASE \E s \in Scenario : Scenarios(s)
  <2>1. PICK s \in Scenario : Scenarios(s) BY <1>1
  <2>2. CASE EndEarly(s) BY <2>2, EarlyEndKeeps
  <2>3. CASE Evaluate(s)
    <3>1. Next BY <2>3 DEF Next, TickStep
    <3>2. QED BY <3>1, EngineStep
  <2>4. QED BY <2>1, <2>2, <2>3 DEF Scenarios, Evaluate
<1>2. CASE Arbitrate \/ Preempt \/ EndPreemption \/ FinishTick
  <2>1. Next BY <1>2 DEF Next, TickStep
  <2>2. QED BY <2>1, EngineStep
<1>3. CASE UNCHANGED foodVars
  <2>1. UNCHANGED vars BY <1>3 DEF foodVars
  <2>2. QED BY <2>1, EngineStep
<1>4. QED BY <1>1, <1>2, <1>3 DEF FoodNext, CutShort

\* On this line too, where a CIP cycle ends as soon as the skid is back in
\* Idle, a batch or an alarm is never active beside a CIP cycle or a failure.
THEOREM FoodExclusion == FoodSpec => []Exclusion
<1>1. FoodInit => IInv BY InitialIInv DEF FoodInit
<1>2. QED BY <1>1, EngineInvKept, PTL DEF FoodSpec, IInv

-----------------------------------------------------------------------------
(***************************************************************************)
(* What the loops of a tick keep, and the kinds of steps of the line.      *)
(***************************************************************************)
\* What waits is not active; an active scenario has had a tick, a waiting one
\* has not; the durations are drawn from those of the class.
LoopInv ==
  /\ pc # "evaluate" => cursor = 1
  /\ \A s \in skip : phase[s] = "PENDING"
  /\ \A s \in Scenario : phase[s] = "ACTIVE" => elapsed[s] >= 1
  /\ \A s \in Scenario : phase[s] = "PENDING" => elapsed[s] = 0
  /\ VictimsDue
  /\ \A s \in Scenario : duration[s] \in Durations[class[s]]

Fixed == UNCHANGED <<class, duration, listed>>
InTurn(s) == pc = "evaluate" /\ s = cursor /\ UNCHANGED <<pc, due, skip>> /\ cursor' = cursor + 1

\* The first scenario of a priority pass, the end of preemption, a scenario
\* that evaluate() leaves alone: nothing happens to the line.
Rests ==
  /\ UNCHANGED <<phase, elapsed>> /\ UNCHANGED equipment
  /\ \/ pc = "idle" /\ pc' = "preempt" /\ cursor' = 1 /\ now' >= now
     \/ pc = "preempt" /\ pc' = "evaluate" /\ UNCHANGED <<cursor, due, skip, now>>
     \/ UNCHANGED now /\ \E s \in Listed : InTurn(s) /\ phase[s] # "ACTIVE"
     \/ UNCHANGED <<pc, cursor, due, skip, now>>

Begins(s) ==
  /\ InTurn(s) /\ UNCHANGED now /\ Admitted(s)
  /\ phase' = [phase EXCEPT ![s] = "ACTIVE"]
  /\ elapsed' = [elapsed EXCEPT ![s] = 1]
  /\ OnActivate(s)

Continues(s) ==
  /\ InTurn(s) /\ UNCHANGED now
  /\ phase[s] = "ACTIVE" /\ phase' = phase
  /\ elapsed' = [elapsed EXCEPT ![s] = @ + 1]
  /\ OnTick(s)

\* A scenario ends in its turn, or is cut short.
Ends(s) ==
  /\ UNCHANGED now
  /\ phase[s] = "ACTIVE" /\ phase' = [phase EXCEPT ![s] = "COMPLETED"]
  /\ \A t \in Scenario : t # s => elapsed'[t] = elapsed[t]
  /\ OnComplete(s)
  /\ \/ InTurn(s) /\ (elapsed[s] + 1 >= duration[s] \/ CipIsBack(s))
     \/ /\ pc = "preempt" /\ s \in victims
        /\ UNCHANGED <<pc, cursor, due, skip, elapsed>>

Generates ==
  /\ UNCHANGED <<phase, elapsed, now>>
  /\ pc = "evaluate" /\ cursor = listed + 1 /\ pc' = "idle" /\ cursor' = 1
  /\ Generate

\* There is no other kind of step.
LEMMA StepKinds ==
  ASSUME IInv, LoopInv, [FoodNext]_foodVars
  PROVE  Fixed /\ (Rests \/ Generates \/ \E s \in Listed : Begins(s) \/ Continues(s) \/ Ends(s))
<1>1. CASE \E s \in Scenario : Scenarios(s)
  <2>1. PICK s \in Scenario : Scenarios(s) BY <1>1
  <2>2. /\ s \in Listed /\ Fixed /\ InTurn(s) /\ UNCHANGED now
    BY <2>1 DEF Scenarios, PassOver, Activate, Continue, RunOut, EndEarly, AtCursor, Advance,
                InTurn, Fixed, timeline, locals
  <2>3. CASE PassOver(s) /\ UNCHANGED equipment
    <3>1. phase[s] # "ACTIVE" BY <2>3, FoodAssumption DEF PassOver, LoopInv
    <3>2. Rests BY <2>2, <2>3, <3>1 DEF PassOver, Rests
    <3>3. QED BY <2>2, <3>2
  <2>4. CASE Activate(s) /\ OnActivate(s)
    BY <2>2, <2>4 DEF Activate, Begins, Admitted
  <2>5. CASE Continue(s) /\ ~ CipIsBack(s) /\ OnTick(s)
    BY <2>2, <2>5 DEF Continue, Continues
  <2>6. CASE (RunOut(s) \/ EndEarly(s)) /\ OnComplete(s)
    <3>1. \A t \in Scenario : t # s => elapsed'[t] = elapsed[t]
      BY <2>6 DEF RunOut, EndEarly, IInv, TypeOK
    <3>2. QED BY <2>2, <2>6, <3>1 DEF RunOut, EndEarly, Ends
  <2>7. QED BY <2>1, <2>3, <2>4, <2>5, <2>6 DEF Scenarios
<1>2. CASE CutShort
  <2>1. PICK s \in First(victims) : phase' = [phase EXCEPT ![s] = "COMPLETED"] /\ OnComplete(s)
    <3>1. PICK s \in First(victims) : phase' = [phase EXCEPT ![s] = "COMPLETED"]
      BY <1>2 DEF CutShort, Preempt
    <3>2. PICK t \in First(victims) : OnComplete(t)
      BY <1>2 DEF CutShort
    <3>3. s = t BY <3>1, <3>2, EngineAssumption DEF First, IInv, TypeOK, Scenario
    <3>4. QED BY <3>1, <3>2, <3>3
  <2>2. s \in Listed /\ phase[s] = "ACTIVE" /\ s \in victims
    BY <2>1 DEF First, IInv, VictimsInv, Running
  <2>3. Fixed /\ UNCHANGED <<elapsed, now, pc, cursor, due, skip>> /\ pc = "preempt"
    BY <1>2 DEF CutShort, Preempt, Fixed, timeline, locals
  <2>4. Ends(s) BY <2>1, <2>2, <2>3 DEF Ends
  <2>5. QED BY <2>2, <2>3, <2>4
<1>3. CASE Arbitrate /\ UNCHANGED equipment
  <2>1. now' >= now BY <1>3, EngineAssumption DEF Arbitrate, IInv, TypeOK
  <2>2. QED BY <1>3, <2>1 DEF Arbitrate, Rests, Fixed, timeline
<1>4. CASE EndPreemption /\ UNCHANGED equipment
  BY <1>4 DEF EndPreemption, Rests, Fixed, timeline, locals
<1>5. CASE FinishTick /\ Generate
  BY <1>5 DEF FinishTick, TickDone, Generates, Fixed, timeline
<1>6. CASE UNCHANGED foodVars
  BY <1>6 DEF foodVars, vars, Rests, Fixed, timeline, locals
<1>7. QED BY <1>1, <1>2, <1>3, <1>4, <1>5, <1>6 DEF FoodNext

\* The loops keep what they rely on.
LEMMA LoopInvKept ==
  ASSUME IInv, LoopInv, [FoodNext]_foodVars
  PROVE  LoopInv'
<1> USE EngineAssumption DEF LoopInv
<1>0. TypeOK BY DEF IInv
<1>1. (\A s \in Scenario : duration[s] \in Durations[class[s]])'
  BY StepKinds DEF Fixed
<1>2. CASE \E s \in Scenario : Scenarios(s)
  <2>1. PICK s \in Scenario : Scenarios(s) BY <1>2
  <2>2. /\ pc = "evaluate"
        /\ UNCHANGED <<class, pc, due, skip, victims>>
    BY <2>1 DEF Scenarios, PassOver, Activate, Continue, RunOut, EndEarly, AtCursor, Advance,
                timeline, locals
  <2>3. VictimsDue' BY <2>2 DEF VictimsDue, Changing, OfPriority, Prio
  <2>4. /\ \A t \in Scenario : t # s => phase'[t] = phase[t] /\ elapsed'[t] = elapsed[t]
        /\ \/ phase'[s] = phase[s] /\ elapsed'[s] = elapsed[s]
           \/ s \notin skip /\ elapsed'[s] >= 1 /\ phase'[s] # "PENDING"
    <3>1. CASE PassOver(s) BY <3>1 DEF PassOver
    <3>2. CASE Activate(s) BY <3>2, <1>0 DEF Activate, TypeOK
    <3>3. CASE Continue(s) \/ RunOut(s) \/ EndEarly(s)
      <4>1. phase[s] = "ACTIVE" /\ elapsed' = [elapsed EXCEPT ![s] = @ + 1]
        BY <3>3 DEF Continue, RunOut, EndEarly
      <4>2. phase' = phase \/ phase' = [phase EXCEPT ![s] = "COMPLETED"]
        BY <3>3 DEF Continue, RunOut, EndEarly
      <4>3. s \notin skip BY <4>1
      <4>4. elapsed'[s] = elapsed[s] + 1 /\ elapsed[s] \in Nat BY <4>1, <1>0 DEF TypeOK
      <4>5. QED BY <1>0, <4>1, <4>2, <4>3, <4>4 DEF TypeOK
    <3>4. QED BY <2>1, <3>1, <3>2, <3>3 DEF Scenarios
  <2>5. QED BY <1>0, <1>1, <2>2, <2>3, <2>4 DEF TypeOK
<1>3. CASE CutShort
  <2>1. PICK s \in victims : phase' = [phase EXCEPT ![s] = "COMPLETED"] /\ victims' = victims \ {s}
    BY <1>3 DEF CutShort, Preempt, First
  <2>2. UNCHANGED <<class, elapsed, pc, cursor, due, skip>> /\ pc = "preempt"
    BY <1>3 DEF CutShort, Preempt, timeline, locals
  <2>3. VictimsDue' BY <2>1, <2>2 DEF VictimsDue, Changing, OfPriority, Prio
  <2>4. phase[s] = "ACTIVE" BY <2>1 DEF IInv, VictimsInv, Running
  <2>5. QED BY <1>0, <1>1, <2>1, <2>2, <2>3, <2>4 DEF TypeOK
<1>4. CASE Arbitrate
  <2>1. /\ UNCHANGED <<class, listed, phase, elapsed>> /\ pc' = "preempt" /\ cursor' = 1
        /\ due' = DueAt(now') /\ skip' = Deferred(due') /\ victims' = PreemptedBy(due')
    BY <1>4 DEF Arbitrate, timeline
  <2>2. VictimsDue'
    <3>1. Changing(due)' = Changing(due') BY <2>1 DEF Changing, OfPriority, Prio
    <3>2. QED BY <2>1, <3>1 DEF VictimsDue, PreemptedBy
  <2>3. \A s \in skip' : phase[s] = "PENDING"
    BY <2>1 DEF Deferred, Changing, OfPriority, DueAt, InPhase
  <2>4. QED BY <1>1, <2>1, <2>2, <2>3
<1>5. CASE EndPreemption \/ FinishTick
  <2>1. /\ UNCHANGED <<class, phase, elapsed, victims>>
        /\ pc' # "evaluate" => cursor' = 1
        /\ skip' \subseteq skip
        /\ victims = {}
    BY <1>5 DEF EndPreemption, FinishTick, TickDone, timeline, locals, IInv, VictimsInv
  <2>2. QED BY <1>1, <2>1 DEF VictimsDue
<1>6. CASE UNCHANGED foodVars
  BY <1>1, <1>6 DEF foodVars, vars, timeline, locals, VictimsDue, Changing, OfPriority, Prio
<1>7. QED BY <1>2, <1>3, <1>4, <1>5, <1>6 DEF FoodNext

-----------------------------------------------------------------------------
(***************************************************************************)
(* What the steps do to the sets of active scenarios.                      *)
(***************************************************************************)
\* Instances of one class are active one at a time, unless it has overlapped.
OneOfClass == \A c \in Class : Apart(c) => \A s, t \in ActiveOf(c) : s = t

\* The active scenarios of a class are scenarios of the list.
LEMMA ActiveAreListed ==
  ASSUME TypeOK, NEW c
  PROVE  \A s : s \in ActiveOf(c) <=>
           s \in Listed /\ s \in Scenario /\ phase[s] = "ACTIVE" /\ class[s] = c
BY ListedAreScenarios DEF ActiveOf, InPhase, IsOf

\* A scenario that changes its phase joins or leaves the active ones of its
\* class, and the other classes are left alone.
LEMMA ActiveAfter ==
  ASSUME TypeOK, Fixed, NEW s \in Listed, NEW c
  PROVE  /\ phase' = phase => ActiveOf(c)' = ActiveOf(c)
         /\ phase' = [phase EXCEPT ![s] = "ACTIVE"] =>
              ActiveOf(c)' = IF class[s] = c THEN ActiveOf(c) \union {s} ELSE ActiveOf(c) \ {s}
         /\ phase' = [phase EXCEPT ![s] = "COMPLETED"] => ActiveOf(c)' = ActiveOf(c) \ {s}
<1>1. Listed' = Listed /\ class' = class BY DEF Fixed, Listed
<1>2. s \in Scenario /\ Listed \subseteq Scenario BY ListedAreScenarios
<1>3. ASSUME phase' = phase PROVE ActiveOf(c)' = ActiveOf(c)
  BY <1>1, <1>3 DEF ActiveOf, InPhase, IsOf
<1>5. ASSUME phase' = [phase EXCEPT ![s] = "ACTIVE"]
      PROVE  ActiveOf(c)' = IF class[s] = c THEN ActiveOf(c) \union {s} ELSE ActiveOf(c) \ {s}
  <2>1. phase'[s] = "ACTIVE" /\ \A t \in Scenario : t # s => phase'[t] = phase[t]
    BY <1>2, <1>5 DEF TypeOK
  <2>2. QED BY <1>1, <1>2, <2>1 DEF ActiveOf, InPhase, IsOf
<1>6. ASSUME phase' = [phase EXCEPT ![s] = "COMPLETED"] PROVE ActiveOf(c)' = ActiveOf(c) \ {s}
  <2>1. phase'[s] # "ACTIVE" /\ \A t \in Scenario : t # s => phase'[t] = phase[t]
    BY <1>2, <1>6 DEF TypeOK
  <2>2. QED BY <1>1, <1>2, <2>1 DEF ActiveOf, InPhase, IsOf
<1>7. QED BY <1>3, <1>5, <1>6

\* Who begins joins its own class only; who ends is active no more.
LEMMA JoinsOrLeaves ==
  ASSUME TypeOK, Fixed, NEW s \in Listed, NEW c
  PROVE  /\ Begins(s) /\ s \in ActiveOf(c)' => class[s] = c
         /\ Ends(s) => s \notin ActiveOf(c)'
<1>1. ASSUME Begins(s), s \in ActiveOf(c)' PROVE class[s] = c
  BY <1>1 DEF Fixed, ActiveOf, IsOf
<1>2. ASSUME Ends(s) PROVE s \notin ActiveOf(c)'
  <2>1. phase' = [phase EXCEPT ![s] = "COMPLETED"] BY <1>2 DEF Ends
  <2>2. ActiveOf(c)' = ActiveOf(c) \ {s} BY <2>1, ActiveAfter
  <2>3. QED BY <2>2
<1>3. QED BY <1>1, <1>2

\* Classes that have overlapped stay marked.  While its class is unmarked,
\* the scenario that begins is the only active one of its class.
LEMMA BeginsAlone ==
  ASSUME TypeOK, NEW s \in Listed, Begins(s), NEW c, Apart(c)'
  PROVE  Apart(c) /\ (class[s] = c => ActiveOf(c) = {})
BY DEF Begins, OnActivate, Apart

\* Only a scenario that begins can mark its class.
LEMMA ApartKept ==
  ASSUME TypeOK, NEW s \in Listed, Rests \/ Generates \/ Begins(s) \/ Continues(s) \/ Ends(s),
         NEW c, Apart(c)'
  PROVE  Apart(c)
<1>1. CASE Begins(s) BY <1>1, BeginsAlone
<1>2. CASE Rests \/ Generates \/ Continues(s) \/ Ends(s)
  BY <1>2 DEF Rests, Generates, Generate, RunGenerators, SkipGenerators, Continues, OnTick, Ends,
               OnComplete, Apart, equipment
<1>3. QED BY <1>1, <1>2

\* As long as its class has not overlapped, an active scenario is alone.
LEMMA OneOfClassKept ==
  ASSUME IInv, LoopInv, OneOfClass, [FoodNext]_foodVars
  PROVE  OneOfClass'
<1>0. TypeOK /\ Fixed BY StepKinds DEF IInv
<1> SUFFICES ASSUME NEW c \in Class, Apart(c)', NEW t \in ActiveOf(c)', NEW u \in ActiveOf(c)'
             PROVE  t = u
  BY DEF OneOfClass
<1>1. CASE Rests \/ Generates
  <2>1. Listed' = Listed /\ class' = class /\ phase' = phase /\ Apart(c)
    BY <1>0, <1>1 DEF Rests, Generates, Generate, RunGenerators, SkipGenerators, Apart, equipment, Fixed, Listed
  <2>2. ActiveOf(c)' = ActiveOf(c) BY <2>1 DEF ActiveOf, InPhase, IsOf
  <2>3. QED BY <2>1, <2>2 DEF OneOfClass
<1>2. ASSUME NEW s \in Listed, Begins(s) \/ Continues(s) \/ Ends(s)
      PROVE  t = u
  <2>1. Apart(c) BY <1>0, <1>2, ApartKept
  <2>2. CASE Begins(s)
    <3>1. ActiveOf(c)' = IF class[s] = c THEN ActiveOf(c) \union {s} ELSE ActiveOf(c) \ {s}
      BY <1>0, <2>2, ActiveAfter DEF Begins
    <3>2. class[s] = c => ActiveOf(c) = {} BY <1>0, <2>2, BeginsAlone
    <3>3. QED BY <2>1, <3>1, <3>2 DEF OneOfClass
  <2>3. CASE Continues(s) \/ Ends(s)
    <3>1. ActiveOf(c)' \subseteq ActiveOf(c)
      BY <1>0, <2>3, ActiveAfter DEF Continues, Ends
    <3>2. QED BY <2>1, <3>1 DEF OneOfClass
  <2>4. QED BY <1>2, <2>2, <2>3
<1>3. QED BY <1>1, <1>2, StepKinds

-----------------------------------------------------------------------------
(***************************************************************************)
(* Overrides.  While one instance of a class is active at a time, it has   *)
(* saved a parameter without any offset, and the parameter contains its    *)
(* own and no other.                                                       *)
(***************************************************************************)
KnobType == knob \in [Knobs -> SUBSET Scenario] /\ saved \in [Scenario -> SUBSET Scenario]

KnobInv ==
  \A c \in DOMAIN Knob : Apart(c) =>
    /\ knob[Knob[c]] = ActiveOf(c)
    /\ \A s \in ActiveOf(c) : saved[s] = {}

\* Different classes override different parameters.
LEMMA KnobsDiffer ==
  /\ DOMAIN Knob = {"FillWeightDrift", "SealIntegrityFailure", "ChillerDoorAlarm", "ColdChainBreak"}
  /\ \A c \in DOMAIN Knob : Knob[c] \in Knobs
  /\ \A c, d \in DOMAIN Knob : Knob[c] = Knob[d] => c = d
  /\ Batch \notin DOMAIN Knob /\ Cip \notin DOMAIN Knob /\ Oven \notin DOMAIN Knob
BY DEF Knob, Knobs, Batch, Cip, Oven

\* What the hooks of the scenarios write to the parameters.
LEMMA KnobsWritten ==
  ASSUME TypeOK, KnobType, NEW s \in Listed, class[s] \in Class
  PROVE  /\ Begins(s) =>
              \/ class[s] \notin DOMAIN Knob /\ UNCHANGED <<knob, saved>>
              \/ /\ class[s] \in DOMAIN Knob
                 /\ knob' = [knob EXCEPT ![Knob[class[s]]] = @ \union {s}]
                 /\ saved' = [saved EXCEPT ![s] = knob[Knob[class[s]]]]
         /\ Continues(s) =>
              /\ saved' = saved
              /\ \/ knob' = knob
                 \/ /\ class[s] \in DOMAIN Knob
                    /\ knob' = [knob EXCEPT ![Knob[class[s]]] = saved[s] \union {s}]
         /\ Ends(s) =>
              /\ saved' = saved
              /\ \/ class[s] \notin DOMAIN Knob /\ knob' = knob
                 \/ /\ class[s] \in DOMAIN Knob
                    /\ knob' = [knob EXCEPT ![Knob[class[s]]] = saved[s]]
<1>1. ASSUME Begins(s)
      PROVE  \/ class[s] \notin DOMAIN Knob /\ UNCHANGED <<knob, saved>>
             \/ /\ class[s] \in DOMAIN Knob
                /\ knob' = [knob EXCEPT ![Knob[class[s]]] = @ \union {s}]
                /\ saved' = [saved EXCEPT ![s] = knob[Knob[class[s]]]]
  <2>1. OnActivate(s) BY <1>1 DEF Begins
  <2>2. CASE class[s] \notin DOMAIN Knob
    BY <2>1, <2>2, KnobsDiffer DEF OnActivate, BeginOverride, OpenDoor, LockCompressor, BeginDrift,
       BeginSealFailure, BeginExcursion, IsOf
  <2>3. CASE class[s] \in DOMAIN Knob
    <3>1. BeginOverride(s)
      BY <2>1, <2>3, KnobsDiffer DEF OnActivate, BeginExcursion, IsOf, Batch, Cip, Oven
    <3>2. Keep(s, Knob[class[s]]) /\ Put(Knob[class[s]], knob[Knob[class[s]]] \union {s})
      BY <3>1 DEF BeginOverride, OpenDoor, LockCompressor, BeginDrift, BeginSealFailure, IsOf, Knob
    <3>3. QED BY <2>3, <3>2 DEF Keep, Put
  <2>4. QED BY <2>2, <2>3
<1>2. ASSUME Continues(s)
      PROVE  /\ saved' = saved
             /\ \/ knob' = knob
                \/ /\ class[s] \in DOMAIN Knob
                   /\ knob' = [knob EXCEPT ![Knob[class[s]]] = saved[s] \union {s}]
  <2>1. OnTick(s) BY <1>2 DEF Continues
  <2>2. saved' = saved BY <2>1 DEF OnTick
  <2>3. \/ knob' = knob
        \/ class[s] \in DOMAIN Knob /\ Put(Knob[class[s]], saved[s] \union {s})
    BY <2>1, KnobsDiffer DEF OnTick, TickOverride, DoorStaysOpen, LockStays, Drift, DegradeSeal, IsOf, Knob
  <2>4. QED BY <2>2, <2>3 DEF Put
<1>3. ASSUME Ends(s)
      PROVE  /\ saved' = saved
             /\ \/ class[s] \notin DOMAIN Knob /\ knob' = knob
                \/ /\ class[s] \in DOMAIN Knob
                   /\ knob' = [knob EXCEPT ![Knob[class[s]]] = saved[s]]
  <2>1. OnComplete(s) BY <1>3 DEF Ends
  <2>2. saved' = saved BY <2>1 DEF OnComplete
  <2>3. \/ class[s] \notin DOMAIN Knob /\ knob' = knob
        \/ class[s] \in DOMAIN Knob /\ EndOverride(s)
    BY <2>1, KnobsDiffer DEF OnComplete, EndOverride, CloseDoor, ReleaseLock, Recalibrate, RepairSeal,
       EndExcursion, IsOf, Batch, Cip, Oven
  <2>4. EndOverride(s) => Put(Knob[class[s]], saved[s])
    BY DEF EndOverride, CloseDoor, ReleaseLock, Recalibrate, RepairSeal, IsOf, Knob
  <2>5. QED BY <2>2, <2>3, <2>4 DEF Put
<1>4. QED BY <1>1, <1>2, <1>3

\* A parameter holds exactly the offset of its active scenario.
LEMMA KnobInvKept ==
  ASSUME IInv, LoopInv, OneOfClass, KnobType, KnobInv, [FoodNext]_foodVars
  PROVE  KnobType' /\ KnobInv'
<1>0. TypeOK /\ Fixed BY StepKinds DEF IInv
<1>1. CASE Rests \/ Generates
  <2>1. UNCHANGED <<listed, class, phase, knob, saved, overlapped>>
    BY <1>0, <1>1 DEF Rests, Generates, Generate, RunGenerators, SkipGenerators, equipment, Fixed
  <2>2. QED BY <2>1 DEF KnobType, KnobInv, ActiveOf, InPhase, Listed, IsOf, Apart
<1>2. ASSUME NEW s \in Listed, Begins(s) \/ Continues(s) \/ Ends(s)
      PROVE  KnobType' /\ KnobInv'
  <2>1. s \in Scenario /\ class[s] \in Class BY <1>0, ListedAreScenarios DEF TypeOK
  <2>2. KnobType'
    BY <1>0, <1>2, <2>1, KnobsWritten, KnobsDiffer DEF KnobType
  <2>3. ASSUME NEW c \in DOMAIN Knob, Apart(c)'
        PROVE  knob'[Knob[c]] = ActiveOf(c)' /\ \A t \in ActiveOf(c)' : saved'[t] = {}
    <3>1. Apart(c) BY <1>0, <1>2, <2>3, ApartKept
    <3>2. knob[Knob[c]] = ActiveOf(c) /\ \A t \in ActiveOf(c) : saved[t] = {}
      BY <3>1 DEF KnobInv
    <3>3. CASE class[s] # c
      <4>1. s \notin ActiveOf(c) BY <3>3 DEF ActiveOf, IsOf
      <4>2. ActiveOf(c)' = ActiveOf(c)
        BY <1>0, <1>2, <3>3, <4>1, ActiveAfter DEF Begins, Continues, Ends
      <4>3. class[s] \in DOMAIN Knob => Knob[class[s]] # Knob[c] BY <3>3, KnobsDiffer
      <4>4. knob'[Knob[c]] = knob[Knob[c]]
        BY <1>0, <1>2, <2>1, <4>3, KnobsWritten, KnobsDiffer DEF KnobType
      <4>5. \A t \in ActiveOf(c) : saved'[t] = saved[t]
        <5>1. ActiveOf(c) \subseteq Scenario BY <1>0, ActiveAreListed
        <5>2. QED BY <1>0, <1>2, <2>1, <4>1, <5>1, KnobsWritten DEF KnobType
      <4>6. QED BY <3>2, <4>2, <4>4, <4>5
    <3>4. CASE class[s] = c
      <4>1. Knob[c] \in Knobs BY KnobsDiffer
      <4>2. CASE Begins(s)
        <5>1. ActiveOf(c) = {} BY <1>0, <2>3, <3>4, <4>2, BeginsAlone
        <5>2. ActiveOf(c)' = {s} BY <1>0, <3>4, <4>2, <5>1, ActiveAfter DEF Begins
        <5>3. /\ knob' = [knob EXCEPT ![Knob[c]] = @ \union {s}]
              /\ saved' = [saved EXCEPT ![s] = knob[Knob[c]]]
          BY <1>0, <2>1, <3>4, <4>2, KnobsWritten
        <5>4. QED BY <2>1, <3>2, <4>1, <5>1, <5>2, <5>3 DEF KnobType
      <4>3. CASE Continues(s) \/ Ends(s)
        <5>1. s \in ActiveOf(c)
          BY <1>0, <2>1, <3>4, <4>3, ActiveAreListed DEF Continues, Ends
        <5>2. ActiveOf(c) = {s} /\ saved[s] = {} BY <2>1, <3>1, <3>2, <3>4, <5>1 DEF OneOfClass
        <5>3. CASE Continues(s)
          <6>1. ActiveOf(c)' = ActiveOf(c) BY <1>0, <5>3, ActiveAfter DEF Continues
          <6>2. saved' = saved /\ (knob' = knob \/ knob' = [knob EXCEPT ![Knob[c]] = saved[s] \union {s}])
            BY <1>0, <2>1, <3>4, <5>3, KnobsWritten
          <6>3. QED BY <3>2, <4>1, <5>2, <6>1, <6>2 DEF KnobType
        <5>4. CASE Ends(s)
          <6>0. ActiveOf(c)' = ActiveOf(c) \ {s} BY <1>0, <5>4, ActiveAfter DEF Ends
          <6>1. ActiveOf(c)' = {} BY <5>2, <6>0
          <6>2. knob' = [knob EXCEPT ![Knob[c]] = saved[s]]
            BY <1>0, <2>1, <2>3, <3>4, <5>4, KnobsWritten
          <6>3. QED BY <4>1, <5>2, <6>1, <6>2 DEF KnobType
        <5>5. QED BY <4>3, <5>3, <5>4
      <4>4. QED BY <1>2, <4>2, <4>3
    <3>5. QED BY <3>3, <3>4
  <2>4. QED BY <2>2, <2>3 DEF KnobInv
<1>3. QED BY <1>1, <1>2, StepKinds

-----------------------------------------------------------------------------
(***************************************************************************)
(* The zone of the oven.  Within a tick it is where the excursion has      *)
(* pushed it, once the excursion has been evaluated; the generator brings  *)
(* it back by one at most.                                                 *)
(***************************************************************************)
Evaluated(s) == pc = "evaluate" /\ s < cursor

ZoneInv ==
  Apart(Oven) => \A s \in ActiveOf(Oven) :
    /\ Evaluated(s) => zone = DriftAt(elapsed[s])
    /\ pc = "idle" => zone \in {DriftAt(elapsed[s]), DriftAt(elapsed[s]) - 1}

\* When its turn is over a scenario has been evaluated; before, it has not;
\* the others are where they were.
LEMMA TurnOver ==
  ASSUME TypeOK, NEW s \in Listed, InTurn(s)
  PROVE  /\ Evaluated(s)' /\ ~ Evaluated(s)
         /\ \A t \in Scenario : t # s => (Evaluated(t)' <=> Evaluated(t))
<1>1. s \in Nat /\ cursor \in Nat /\ \A t \in Scenario : t \in Nat
  BY EngineAssumption DEF TypeOK, InTurn, Scenario
<1>2. QED BY <1>1 DEF InTurn, Evaluated

\* Between ticks, and while scenarios are cut short, none has been evaluated.
LEMMA NoneEvaluated ==
  ASSUME pc # "evaluate" \/ cursor = 1
  PROVE  \A s \in Scenario : ~ Evaluated(s)
BY EngineAssumption DEF Evaluated, Scenario

\* What the hooks do to the zone.
LEMMA ZonePushed ==
  ASSUME NEW s \in Listed, Begins(s) \/ Continues(s) \/ Ends(s)
  PROVE  \/ zone' = zone /\ (class[s] # Oven \/ Ends(s))
         \/ zone' = DriftAt(elapsed[s] + 1) /\ class[s] = Oven
<1>1. CASE Begins(s)
  BY <1>1, KnobsDiffer DEF Begins, OnActivate, BeginOverride, OpenDoor, LockCompressor, BeginDrift,
     BeginSealFailure, BeginExcursion, PushZone, IsOf, Oven
<1>2. CASE Continues(s)
  BY <1>2 DEF Continues, OnTick, TickOverride, DoorStaysOpen, LockStays, Drift, DegradeSeal,
     Excursion, PushZone, IsOf, Oven
<1>3. CASE Ends(s)
  BY <1>3 DEF Ends, OnComplete, EndExcursion
<1>4. QED BY <1>1, <1>2, <1>3

\* An excursion drives the zone, and the generator cools it a little.
LEMMA ZoneInvKept ==
  ASSUME IInv, LoopInv, OneOfClass, ZoneInv, [FoodNext]_foodVars
  PROVE  ZoneInv'
<1>0. TypeOK /\ Fixed BY StepKinds DEF IInv
<1> SUFFICES ASSUME Apart(Oven)', NEW t \in ActiveOf(Oven)'
             PROVE  /\ Evaluated(t)' => zone' = DriftAt(elapsed'[t])
                    /\ pc' = "idle" => zone' \in {DriftAt(elapsed'[t]), DriftAt(elapsed'[t]) - 1}
  BY DEF ZoneInv, DriftAt
<1>1. CASE Rests
  <2>1. /\ UNCHANGED <<listed, class, phase, elapsed, overlapped, zone>>
        /\ pc' = "idle" => pc = "idle"
    BY <1>0, <1>1 DEF Rests, equipment, Fixed, InTurn
  <2>2. t \in ActiveOf(Oven) /\ Apart(Oven) BY <2>1 DEF ActiveOf, InPhase, Listed, IsOf, Apart
  <2>3. t \in Scenario /\ phase[t] = "ACTIVE" BY <1>0, <2>2, ActiveAreListed
  <2>4. Evaluated(t)' => Evaluated(t)
    <3>1. CASE \E s \in Listed : InTurn(s) /\ phase[s] # "ACTIVE"
      BY <1>0, <2>3, <3>1, TurnOver
    <3>2. CASE pc = "idle" /\ pc' = "preempt" /\ cursor' = 1
      BY <3>2 DEF Evaluated
    <3>3. CASE pc = "preempt" /\ pc' = "evaluate" /\ UNCHANGED cursor
      BY <2>3, <3>3, EngineAssumption DEF Evaluated, LoopInv, Scenario
    <3>4. CASE UNCHANGED <<pc, cursor>> BY <3>4 DEF Evaluated
    <3>5. QED BY <1>1, <3>1, <3>2, <3>3, <3>4 DEF Rests
  <2>5. QED BY <2>1, <2>2, <2>4 DEF ZoneInv
<1>2. CASE Generates
  <2>1. /\ UNCHANGED <<listed, class, phase, elapsed, overlapped>>
        /\ pc = "evaluate" /\ cursor = listed + 1 /\ pc' = "idle"
        /\ zone' \in {zone, zone - 1}
    BY <1>0, <1>2 DEF Generates, Generate, RunGenerators, SkipGenerators, OvenGenerates, Fixed
  <2>2. t \in ActiveOf(Oven) /\ Apart(Oven) BY <2>1 DEF ActiveOf, InPhase, Listed, IsOf, Apart
  <2>3. t \in 1..listed BY <2>2 DEF ActiveOf, InPhase, Listed
  <2>4. Evaluated(t) BY <1>0, <2>1, <2>3, EngineAssumption DEF Evaluated, TypeOK
  <2>5. zone = DriftAt(elapsed[t]) BY <2>2, <2>4 DEF ZoneInv
  <2>6. ~ Evaluated(t)' BY <2>1 DEF Evaluated
  <2>7. QED BY <2>1, <2>5, <2>6
<1>3. ASSUME NEW s \in Listed, Begins(s) \/ Continues(s) \/ Ends(s)
      PROVE  /\ Evaluated(t)' => zone' = DriftAt(elapsed'[t])
             /\ pc' = "idle" => zone' \in {DriftAt(elapsed'[t]), DriftAt(elapsed'[t]) - 1}
  <2>1. Apart(Oven) /\ pc' # "idle" /\ s \in Scenario
    BY <1>0, <1>3, ApartKept, ListedAreScenarios DEF Begins, Continues, Ends, InTurn
  <2>2. CASE class[s] # Oven
    <3>1. s \notin ActiveOf(Oven) BY <2>2 DEF ActiveOf, IsOf
    <3>2. t \in ActiveOf(Oven) /\ t # s
      BY <1>0, <1>3, <2>2, <3>1, ActiveAfter DEF Begins, Continues, Ends
    <3>3. t \in Scenario BY <1>0, <3>2, ActiveAreListed
    <3>4. zone' = zone BY <1>3, <2>2, ZonePushed
    <3>5. elapsed'[t] = elapsed[t]
      BY <1>0, <1>3, <3>2, <3>3 DEF Begins, Continues, Ends, TypeOK
    <3>6. Evaluated(t)' => Evaluated(t)
      <4>1. CASE InTurn(s) BY <1>0, <3>2, <3>3, <4>1, TurnOver
      <4>2. CASE ~ InTurn(s)
        <5>1. pc' = "preempt" BY <1>3, <4>2 DEF Begins, Continues, Ends
        <5>2. QED BY <5>1 DEF Evaluated
      <4>3. QED BY <4>1, <4>2
    <3>7. QED BY <2>1, <3>2, <3>4, <3>5, <3>6 DEF ZoneInv
  <2>3. CASE class[s] = Oven /\ Begins(s)
    <3>1. ActiveOf(Oven) = {} BY <1>0, <2>3, BeginsAlone
    <3>2. t = s BY <1>0, <2>3, <3>1, ActiveAfter DEF Begins
    <3>3. elapsed[s] = 0 /\ elapsed'[s] = 1
      BY <1>0, <2>1, <2>3 DEF Begins, Admitted, LoopInv, TypeOK
    <3>4. ~ Ends(s) BY <2>1, <2>3 DEF Begins, Ends, Admitted
    <3>5. zone' = DriftAt(1) BY <2>3, <3>3, <3>4, ZonePushed
    <3>6. QED BY <2>1, <3>2, <3>3, <3>5
  <2>4. CASE class[s] = Oven /\ Continues(s)
    <3>1. s \in ActiveOf(Oven) BY <1>0, <2>1, <2>4, ActiveAreListed DEF Continues
    <3>2. t \in ActiveOf(Oven) BY <1>0, <2>4, ActiveAfter DEF Continues
    <3>3. Oven \in Class BY <1>0, <2>1, <2>4 DEF TypeOK
    <3>4. t = s BY <2>1, <3>1, <3>2, <3>3 DEF OneOfClass
    <3>5. elapsed'[s] = elapsed[s] + 1 BY <1>0, <2>1, <2>4 DEF Continues, TypeOK
    <3>6. zone' = DriftAt(elapsed[s] + 1)
      BY <2>4 DEF Continues, OnTick, TickOverride, DoorStaysOpen, LockStays, Drift, DegradeSeal,
         Excursion, PushZone, IsOf, Oven
    <3>7. QED BY <2>1, <3>4, <3>5, <3>6
  <2>5. CASE class[s] = Oven /\ Ends(s)
    <3>1. s \in ActiveOf(Oven) BY <1>0, <2>1, <2>5, ActiveAreListed DEF Ends
    <3>2. ActiveOf(Oven)' = ActiveOf(Oven) \ {s} BY <1>0, <2>5, ActiveAfter DEF Ends
    <3>3. Oven \in Class BY <1>0, <2>1, <2>5 DEF TypeOK
    <3>4. FALSE BY <2>1, <3>1, <3>2, <3>3 DEF OneOfClass
    <3>5. QED BY <3>4
  <2>6. QED BY <1>3, <2>2, <2>3, <2>4, <2>5
<1>4. QED BY <1>1, <1>2, <1>3, StepKinds

-----------------------------------------------------------------------------
(***************************************************************************)
(* The mixer and the CIP skid.  Batches disturb nothing that a CIP cycle   *)
(* does, and the other way round, because the engine never has both        *)
(* active; what is left is that a scenario leaves the mixer in Off.        *)
(***************************************************************************)
MixerInv ==
  /\ Apart(Cip) => \A s \in ActiveOf(Cip) : mixer = "Cip"
  /\ Apart(Batch) => \A s \in ActiveOf(Batch) : mixer = BatchStates[stage[s]]
  /\ ActiveOf(Cip) # {} => mixer \in {"Cip", "Off"}
  /\ ActiveOf(Cip) = {} /\ ActiveOf(Batch) = {} => mixer = "Off"
  /\ cip # "Idle" => ActiveOf(Cip) # {}

StageType == stage \in [Scenario -> 1..4]

CipAlone == ActiveOf(Cip) = {} \/ ActiveOf(Batch) = {}

\* A batch runs beside no CIP cycle.
LEMMA CipExcludesBatch == TypeOK /\ Exclusion => CipAlone
<1> SUFFICES ASSUME TypeOK, Exclusion, NEW s \in ActiveOf(Cip), NEW t \in ActiveOf(Batch) PROVE FALSE
  BY DEF CipAlone
<1>1. /\ s \in Scenario /\ class[s] = Cip /\ s \in InPhase("ACTIVE")
      /\ t \in Scenario /\ class[t] = Batch /\ t \in InPhase("ACTIVE")
  BY ActiveAreListed DEF ActiveOf
<1>2. class[s] \in Class /\ class[t] \in Class BY <1>1 DEF TypeOK
<1>3. Prio(s) = StateChanging /\ Prio(t) = NonStateChanging
  BY <1>1, <1>2, FoodAssumption DEF Prio, Cip, Batch
<1>4. QED BY <1>1, <1>3 DEF Exclusion

\* What the hooks do to the mixer and the skid.
LEMMA MixerForced ==
  ASSUME NEW s \in Listed
  PROVE  /\ Begins(s) =>
              \/ class[s] = Batch /\ BeginBatch(s)
              \/ class[s] = Cip /\ BeginCip
              \/ class[s] \notin {Batch, Cip} /\ UNCHANGED <<mixer, stage, cip>>
         /\ Continues(s) =>
              \/ class[s] = Batch /\ (NextStage(s) \/ SameStage(s))
              \/ class[s] # Batch /\ UNCHANGED <<mixer, stage, cip>>
         /\ Ends(s) =>
              \/ class[s] = Batch /\ EndBatch(s)
              \/ class[s] = Cip /\ EndCip
              \/ class[s] \notin {Batch, Cip} /\ UNCHANGED <<mixer, stage, cip>>
<1>1. Begins(s) =>
        \/ class[s] = Batch /\ BeginBatch(s)
        \/ class[s] = Cip /\ BeginCip
        \/ class[s] \notin {Batch, Cip} /\ UNCHANGED <<mixer, stage, cip>>
  BY DEF Begins, OnActivate, BeginOverride, OpenDoor, LockCompressor, BeginDrift, BeginSealFailure,
     BeginExcursion, IsOf, Batch, Cip
<1>2. Continues(s) =>
        \/ class[s] = Batch /\ (NextStage(s) \/ SameStage(s))
        \/ class[s] # Batch /\ UNCHANGED <<mixer, stage, cip>>
  BY DEF Continues, OnTick, TickOverride, DoorStaysOpen, LockStays, Drift, DegradeSeal, Excursion, IsOf, Batch
<1>3. Ends(s) =>
        \/ class[s] = Batch /\ EndBatch(s)
        \/ class[s] = Cip /\ EndCip
        \/ class[s] \notin {Batch, Cip} /\ UNCHANGED <<mixer, stage, cip>>
  BY DEF Ends, OnComplete, EndOverride, CloseDoor, ReleaseLock, Recalibrate, RepairSeal, EndExcursion,
     IsOf, Batch, Cip
<1>4. QED BY <1>1, <1>2, <1>3

\* The stages of a batch are numbered from one to four.
LEMMA StageTypeKept ==
  ASSUME IInv, LoopInv, StageType, [FoodNext]_foodVars
  PROVE  StageType'
<1>0. TypeOK BY DEF IInv
<1>1. CASE Rests \/ Generates
  BY <1>1 DEF Rests, Generates, Generate, RunGenerators, SkipGenerators, equipment, line, StageType
<1>2. ASSUME NEW s \in Listed, Begins(s) \/ Continues(s) \/ Ends(s)
      PROVE  StageType'
  <2>1. s \in Scenario /\ stage[s] \in 1..4 BY <1>0, ListedAreScenarios DEF StageType
  <2>2. CASE NextStage(s)
    <3>1. stage[s] + 1 \in 1..4 /\ stage' = [stage EXCEPT ![s] = @ + 1]
      BY <2>1, <2>2 DEF NextStage, BatchStates
    <3>2. QED BY <3>1 DEF StageType
  <2>3. CASE BeginBatch(s)
    <3>1. stage' = [stage EXCEPT ![s] = 1] BY <2>3 DEF BeginBatch
    <3>2. 1 \in 1..4 OBVIOUS
    <3>3. QED BY <3>1, <3>2 DEF StageType
  <2>4. CASE stage' = stage BY <2>4 DEF StageType
  <2>5. QED
    BY <1>2, <2>2, <2>3, <2>4, MixerForced DEF SameStage, BeginCip, EndBatch, EndCip
<1>3. QED BY <1>1, <1>2, StepKinds

\* The mixer follows the active scenario.
LEMMA MixerInvKept ==
  ASSUME IInv, IInv', LoopInv, OneOfClass, StageType, MixerInv, [FoodNext]_foodVars
  PROVE  MixerInv'
<1>0. TypeOK /\ Fixed /\ TypeOK' /\ Exclusion /\ Exclusion' BY StepKinds DEF IInv
<1>a. ActiveOf(Cip) = {} \/ ActiveOf(Batch) = {} BY <1>0, CipExcludesBatch DEF CipAlone
<1>b. ActiveOf(Cip)' = {} \/ ActiveOf(Batch)' = {}
  <2>1. CipAlone' BY <1>0, CipExcludesBatch, PTL
  <2>2. QED BY <2>1 DEF CipAlone
<1>1. CASE Rests
  <2>1. UNCHANGED <<listed, class, phase, overlapped, mixer, stage, cip>>
    BY <1>0, <1>1 DEF Rests, equipment, line, Fixed
  <2>2. QED BY <2>1 DEF MixerInv, ActiveOf, InPhase, Listed, IsOf, Apart
<1>2. CASE Generates
  <2>1. UNCHANGED <<listed, class, phase, overlapped, mixer, stage>>
    BY <1>0, <1>2 DEF Generates, Generate, RunGenerators, SkipGenerators, line, Fixed
  <2>2. cip = "Idle" => cip' = "Idle" 
    BY <1>2 DEF Generates, Generate, RunGenerators, SkipGenerators, CipGenerates, line
  <2>3. ActiveOf(Cip)' = ActiveOf(Cip) /\ ActiveOf(Batch)' = ActiveOf(Batch)
    BY <2>1 DEF ActiveOf, InPhase, Listed, IsOf
  <2>4. QED BY <2>1, <2>2, <2>3 DEF MixerInv, Apart
<1>3. ASSUME NEW s \in Listed, Begins(s) \/ Continues(s) \/ Ends(s)
      PROVE  MixerInv'
  <2>0. s \in Scenario /\ class[s] \in Class /\ stage[s] \in 1..4
    BY <1>0, ListedAreScenarios DEF TypeOK, StageType
  <2>1. \A c \in {Cip, Batch} : Apart(c)' => Apart(c) BY <1>0, <1>3, ApartKept
  <2>a. Batch # Cip BY DEF Batch, Cip
  <2>2. CASE Begins(s)
    <3>1. \A c \in {Cip, Batch} :
            ActiveOf(c)' = IF class[s] = c THEN ActiveOf(c) \union {s} ELSE ActiveOf(c) \ {s}
      BY <1>0, <2>2, ActiveAfter DEF Begins
    <3>2. \A c \in {Cip, Batch} : s \notin ActiveOf(c)
      BY <2>2 DEF Begins, Admitted, ActiveOf, InPhase
    <3>3. CASE class[s] = Batch /\ BeginBatch(s)
      <4>1. ActiveOf(Cip)' = {} /\ ActiveOf(Cip) = {} BY <1>b, <2>a, <3>1, <3>2, <3>3
      <4>2. Apart(Batch)' => ActiveOf(Batch)' = {s} BY <1>0, <2>2, <3>1, <3>3, BeginsAlone
      <4>3. mixer' = BatchStates[1] /\ stage'[s] = 1 /\ cip' = cip
        BY <2>0, <3>3 DEF BeginBatch, StageType
      <4>4. s \in ActiveOf(Batch)' BY <3>1, <3>3
      <4>5. cip' = "Idle" BY <4>1, <4>3 DEF MixerInv
      <4>6. QED BY <4>1, <4>2, <4>3, <4>4, <4>5 DEF MixerInv
    <3>4. CASE class[s] = Cip /\ BeginCip
      <4>1. ActiveOf(Batch)' = {} /\ s \in ActiveOf(Cip)' BY <1>b, <3>1, <3>4
      <4>2. mixer' = "Cip" BY <3>4 DEF BeginCip
      <4>3. QED BY <4>1, <4>2 DEF MixerInv
    <3>5. CASE class[s] \notin {Batch, Cip} /\ UNCHANGED <<mixer, stage, cip>>
      <4>1. ActiveOf(Batch)' = ActiveOf(Batch) /\ ActiveOf(Cip)' = ActiveOf(Cip)
        BY <3>1, <3>2, <3>5
      <4>2. QED BY <2>1, <3>5, <4>1 DEF MixerInv
    <3>6. QED BY <2>2, <3>3, <3>4, <3>5, MixerForced
  <2>3. CASE Continues(s)
    <3>1. ActiveOf(Cip)' = ActiveOf(Cip) /\ ActiveOf(Batch)' = ActiveOf(Batch)
      BY <1>0, <2>3, ActiveAfter DEF Continues
    <3>2. CASE UNCHANGED <<mixer, stage, cip>> BY <2>1, <3>1, <3>2 DEF MixerInv
    <3>3. CASE class[s] = Batch /\ NextStage(s)
      <4>1. s \in ActiveOf(Batch) BY <1>0, <2>0, <2>3, <3>3, ActiveAreListed DEF Continues
      <4>2. Apart(Batch)' => ActiveOf(Batch)' = {s}
        BY <2>0, <2>1, <3>1, <3>3, <4>1 DEF OneOfClass
      <4>3. mixer' = BatchStates[stage'[s]] /\ cip' = cip
        BY <2>0, <3>3 DEF NextStage, StageType
      <4>4. ActiveOf(Cip)' = {} /\ ActiveOf(Cip) = {} BY <1>a, <3>1, <4>1
      <4>5. cip' = "Idle" BY <4>3, <4>4 DEF MixerInv
      <4>6. ActiveOf(Batch)' # {} BY <3>1, <4>1
      <4>7. QED BY <4>2, <4>3, <4>4, <4>5, <4>6 DEF MixerInv
    <3>4. QED BY <2>3, <3>2, <3>3, MixerForced DEF SameStage
  <2>4. CASE Ends(s)
    <3>1. \A c \in {Cip, Batch} : ActiveOf(c)' = ActiveOf(c) \ {s}
      BY <1>0, <2>4, ActiveAfter DEF Ends
    <3>2. s \in ActiveOf(class[s]) BY <1>0, <2>0, <2>4, ActiveAreListed DEF Ends
    <3>3. CASE class[s] = Batch /\ EndBatch(s)
      <4>1. ActiveOf(Cip) = {} /\ ActiveOf(Cip)' = {} BY <1>a, <3>1, <3>2, <3>3
      <4>2. mixer' = "Off" /\ cip' = cip BY <3>3 DEF EndBatch
      <4>3. cip' = "Idle" BY <4>1, <4>2 DEF MixerInv
      <4>4. Apart(Batch)' => ActiveOf(Batch)' = {}
        BY <2>0, <2>1, <3>1, <3>2, <3>3 DEF OneOfClass
      <4>5. QED BY <4>1, <4>2, <4>3, <4>4 DEF MixerInv
    <3>4. CASE class[s] = Cip /\ EndCip
      <4>1. ActiveOf(Batch)' = {} BY <1>a, <3>1, <3>2, <3>4
      <4>2. mixer' = "Off" /\ cip' = "Idle" BY <3>4 DEF EndCip
      <4>3. Apart(Cip)' => ActiveOf(Cip)' = {}
        BY <2>0, <2>1, <3>1, <3>2, <3>4 DEF OneOfClass
      <4>4. QED BY <4>1, <4>2, <4>3 DEF MixerInv
    <3>5. CASE class[s] \notin {Batch, Cip} /\ UNCHANGED <<mixer, stage, cip>>
      <4>1. s \notin ActiveOf(Batch) /\ s \notin ActiveOf(Cip) BY <3>5 DEF ActiveOf, IsOf
      <4>2. ActiveOf(Batch)' = ActiveOf(Batch) /\ ActiveOf(Cip)' = ActiveOf(Cip)
        BY <3>1, <4>1
      <4>3. QED BY <2>1, <3>5, <4>2 DEF MixerInv
    <3>6. QED BY <2>4, <3>3, <3>4, <3>5, MixerForced
  <2>5. QED BY <1>3, <2>2, <2>3, <2>4
<1>4. QED BY <1>1, <1>2, <1>3, StepKinds

-----------------------------------------------------------------------------
(***************************************************************************)
(* Ticks since the last run of the generators.  Waited(s) counts the tick  *)
(* under way when s has had its turn in it, so between two runs it grows   *)
(* with the elapsed time of a scenario.                                    *)
(***************************************************************************)
SinceType == since \in Nat /\ since < Interval
Waited(s) == IF Evaluated(s) THEN since + 1 ELSE since

\* Only the end of a tick moves the count, and it never reaches the interval.
LEMMA SinceKept ==
  ASSUME IInv, LoopInv, SinceType, [FoodNext]_foodVars
  PROVE  /\ SinceType'
         /\ ~ Generates => since' = since
<1> USE FoodAssumption DEF SinceType
<1>1. CASE Generates
  BY <1>1 DEF Generates, Generate, RunGenerators, SkipGenerators
<1>2. CASE Rests
  BY <1>2 DEF Rests, equipment
<1>3. ASSUME NEW s \in Listed, Begins(s) \/ Continues(s) \/ Ends(s) PROVE since' = since
  BY <1>3 DEF Begins, Continues, Ends, OnActivate, OnTick, OnComplete
<1>4. QED BY <1>1, <1>2, <1>3, StepKinds

\* At rest no active scenario gets its turn.
LEMMA AgesAtRest ==
  ASSUME IInv, LoopInv, Fixed, Rests
  PROVE  /\ Listed' = Listed /\ phase' = phase /\ elapsed' = elapsed /\ since' = since
         /\ \A c : ActiveOf(c)' = ActiveOf(c)
         /\ \A t \in Listed : phase[t] = "ACTIVE" =>
              Waited(t)' = Waited(t) /\ (Evaluated(t)' <=> Evaluated(t))
<1>0. TypeOK BY DEF IInv
<1>1. Listed' = Listed /\ phase' = phase /\ elapsed' = elapsed /\ since' = since /\ class' = class
  BY DEF Rests, Fixed, Listed, equipment
<1>2. \A c : ActiveOf(c)' = ActiveOf(c)
  BY <1>1 DEF ActiveOf, InPhase, IsOf
<1>3. ASSUME NEW t \in Listed, phase[t] = "ACTIVE" PROVE Evaluated(t)' <=> Evaluated(t)
  <2>1. t \in Scenario BY <1>0, ListedAreScenarios
  <2>2. CASE \E s \in Listed : InTurn(s) /\ phase[s] # "ACTIVE"
    BY <1>0, <1>3, <2>1, <2>2, TurnOver
  <2>3. CASE pc = "idle" /\ pc' = "preempt"
    BY <2>3 DEF Evaluated
  <2>4. CASE pc = "preempt" /\ pc' = "evaluate" /\ UNCHANGED cursor
    BY <2>1, <2>4, EngineAssumption DEF Evaluated, LoopInv, Scenario
  <2>5. CASE UNCHANGED <<pc, cursor>> BY <2>5 DEF Evaluated
  <2>6. QED BY <2>2, <2>3, <2>4, <2>5 DEF Rests
<1>4. \A t \in Listed : phase[t] = "ACTIVE" => Waited(t)' = Waited(t)
  BY <1>1, <1>3 DEF Waited
<1>5. QED BY <1>1, <1>2, <1>3, <1>4

\* When the generators are called every scenario has had its turn.
LEMMA AgesWhenCalled ==
  ASSUME IInv, SinceType, Fixed, Generates
  PROVE  /\ Listed' = Listed /\ phase' = phase /\ elapsed' = elapsed
         /\ \A c : ActiveOf(c)' = ActiveOf(c)
         /\ \A t \in Listed : Evaluated(t) /\ Waited(t) = since + 1
         /\ \A t : ~ Evaluated(t)' /\ Waited(t)' = since'
<1>1. Listed' = Listed /\ phase' = phase /\ elapsed' = elapsed /\ class' = class
  BY DEF Generates, Fixed, Listed
<1>2. \A c : ActiveOf(c)' = ActiveOf(c)
  BY <1>1 DEF ActiveOf, InPhase, IsOf
<1>3. \A t \in Listed : Evaluated(t)
  BY EngineAssumption DEF Generates, Evaluated, Listed, IInv, TypeOK
<1>4. \A t : ~ Evaluated(t)' BY DEF Generates, Evaluated
<1>5. since' \in Nat
  BY DEF Generates, Generate, RunGenerators, SkipGenerators, SinceType
<1>6. ASSUME NEW t PROVE ~ Evaluated(t)' /\ Waited(t)' = since'
  <2>1. ~ Evaluated(t)' BY <1>4
  <2>2. Waited(t)' = since' BY <2>1 DEF Waited
  <2>3. QED BY <2>1, <2>2
<1>7. \A t \in Listed : Evaluated(t) /\ Waited(t) = since + 1 BY <1>3 DEF Waited
<1>8. QED BY <1>1, <1>2, <1>6, <1>7

\* In its turn a scenario grows older by a tick, and the others do not.
LEMMA AgesInTurn ==
  ASSUME IInv, LoopInv, SinceType, Fixed, NEW s \in Listed, Begins(s) \/ Continues(s) \/ Ends(s),
         NEW t \in Listed, phase'[t] = "ACTIVE"
  PROVE  /\ since' = since
         /\ t # s => /\ phase[t] = "ACTIVE" /\ elapsed'[t] = elapsed[t]
                     /\ Waited(t)' = Waited(t) /\ (Evaluated(t)' <=> Evaluated(t))
         /\ t = s /\ Begins(s) => elapsed'[t] = 1 /\ Waited(t)' = since + 1
         /\ t = s /\ ~ Begins(s) => /\ phase[t] = "ACTIVE" /\ elapsed'[t] = elapsed[t] + 1
                                    /\ Waited(t) = since /\ Waited(t)' = since + 1
<1>0. TypeOK /\ s \in Scenario /\ t \in Scenario BY ListedAreScenarios DEF IInv
<1>1. since' = since
  BY DEF Begins, Continues, Ends, OnActivate, OnTick, OnComplete
<1>2. ASSUME t # s PROVE Evaluated(t)' <=> Evaluated(t)
  <2>1. CASE InTurn(s) BY <1>0, <1>2, <2>1, TurnOver
  <2>2. CASE ~ InTurn(s)
    <3>1. UNCHANGED <<pc, cursor>> BY <2>2 DEF Begins, Continues, Ends
    <3>2. QED BY <3>1 DEF Evaluated
  <2>3. QED BY <2>1, <2>2
<1>3. ASSUME t # s
      PROVE  phase[t] = "ACTIVE" /\ elapsed'[t] = elapsed[t] /\ Waited(t)' = Waited(t)
  <2>1. phase[t] = "ACTIVE" /\ elapsed'[t] = elapsed[t]
    BY <1>0, <1>3 DEF Begins, Continues, Ends, TypeOK
  <2>2. QED BY <1>1, <1>2, <1>3, <2>1 DEF Waited
<1>4. ASSUME t = s, Begins(s) PROVE elapsed'[t] = 1 /\ Waited(t)' = since + 1
  <2>1. Evaluated(s)' BY <1>0, <1>4, TurnOver DEF Begins
  <2>2. elapsed'[s] = 1 BY <1>0, <1>4 DEF Begins, TypeOK
  <2>3. QED BY <1>1, <1>4, <2>1, <2>2 DEF Waited
<1>5. ASSUME t = s, ~ Begins(s)
      PROVE  /\ phase[t] = "ACTIVE" /\ elapsed'[t] = elapsed[t] + 1
             /\ Waited(t) = since /\ Waited(t)' = since + 1
  <2>1. Continues(s)
    <3>1. ~ Ends(s) BY <1>0, <1>5 DEF Ends, TypeOK
    <3>2. QED BY <1>5, <3>1
  <2>2. Evaluated(s)' /\ ~ Evaluated(s) BY <1>0, <2>1, TurnOver DEF Continues
  <2>3. elapsed'[s] = elapsed[s] + 1 /\ phase[s] = "ACTIVE" BY <1>0, <2>1 DEF Continues, TypeOK
  <2>4. Waited(s) = since BY <2>2 DEF Waited, SinceType
  <2>5. Waited(s)' = since + 1 BY <1>1, <2>2 DEF Waited
  <2>6. QED BY <1>5, <2>3, <2>4, <2>5
<1>6. QED BY <1>1, <1>2, <1>3, <1>4, <1>5

\* The priority pass is kept as in the engine, early ends included.
LEMMA ProgressKeptHere ==
  ASSUME IInv, ProgressInv, LoopInv, [FoodNext]_foodVars
  PROVE  ProgressInv'
<1>1. CASE \E s \in Scenario : EndEarly(s)
  <2> USE DEF IInv, TypeOK
  <2>1. PICK s \in Scenario : EndEarly(s) BY <1>1
  <2>2. /\ pc = "evaluate" /\ s = cursor /\ s \in Listed /\ cursor' = cursor + 1
        /\ UNCHANGED <<class, start, listed, now, pc, due, scActive, skip>>
        /\ phase[s] = "ACTIVE" /\ phase' = [phase EXCEPT ![s] = "COMPLETED"]
    BY <2>1 DEF EndEarly, Advance, AtCursor, timeline, locals
  <2>3. /\ Listed' = Listed /\ Changing(due)' = Changing(due)
        /\ OfPriority(due, NonStateChanging)' = OfPriority(due, NonStateChanging)
        /\ First(Changing(due))' = First(Changing(due))
        /\ \A t \in Scenario : Prio(t)' = Prio(t)
    BY <2>2 DEF Listed, Prio, Changing, OfPriority, First
  <2>4. Listed \subseteq Scenario /\ Scenario \subseteq Nat
    BY EngineAssumption DEF Listed, Scenario
  <2>5. s \notin due
    <3>1. s \in due => ~ (s < cursor) BY <2>2, <2>4
    <3>2. s \in due => phase[s] = "PENDING" BY <2>2, <3>1 DEF ProgressInv
    <3>3. QED BY <2>2, <3>2
  <2>6. \A t \in due : phase'[t] # "PENDING" <=> t < cursor' /\ t \notin skip
    <3> SUFFICES ASSUME NEW t \in due
                 PROVE  phase'[t] # "PENDING" <=> t < cursor' /\ t \notin skip
      OBVIOUS
    <3>1. t # s /\ t \in Scenario /\ t \in Nat /\ s \in Nat BY <2>2, <2>4, <2>5
    <3>2. t < cursor' <=> t < cursor BY <2>2, <3>1
    <3>3. phase[t] # "PENDING" <=> t < cursor /\ t \notin skip BY <2>2 DEF ProgressInv
    <3>4. QED BY <2>2, <3>1, <3>2, <3>3
  <2>7. \A t \in Listed : phase[t] # "PENDING" => phase'[t] # "PENDING"
    BY <2>2, <2>4
  <2>8. QED BY <2>2, <2>3, <2>4, <2>6, <2>7 DEF ProgressInv
<1>2. CASE ~ \E s \in Scenario : EndEarly(s)
  <2>1. [Next]_vars
    BY <1>2 DEF FoodNext, Scenarios, CutShort, Next, TickStep, Evaluate, foodVars
  <2>2. QED BY <2>1, ProgressKept
<1>3. QED BY <1>1, <1>2

-----------------------------------------------------------------------------
(***************************************************************************)
(* The time that the stages of a batch take.                               *)
(***************************************************************************)
StageInv == \A s \in ActiveOf(Batch) : TicksLeft(s) >= Earliest[4] - Earliest[stage[s]]

\* The shortest times add up.
LEMMA EarliestGrow ==
  /\ \A i \in 1..4 : Earliest[i] \in Nat
  /\ Earliest[1] < Earliest[2] /\ Earliest[2] < Earliest[3] /\ Earliest[3] < Earliest[4]
  /\ Earliest[1] > Interval /\ Earliest[4] - Earliest[1] >= Interval /\ Interval \in Nat \ {0}
<1>1. DOMAIN BatchStates = 1..4 BY DEF BatchStates
<1>2. \A i \in 1..4 : Earliest[i] \in Nat BY <1>1, FoodAssumption
<1>3. \A i, j \in 1..4 : i < j => Earliest[i] < Earliest[j] BY <1>1, FoodAssumption
<1>4. QED BY <1>2, <1>3, FoodAssumption

\* A batch that is active stays so or has just begun, and unless it is the
\* one that moves, its own stage is left alone.
LEMMA BatchesKept ==
  ASSUME IInv, LoopInv, SinceType, StageType, NEW s \in Listed, Fixed,
         Begins(s) \/ Continues(s) \/ Ends(s), NEW t \in ActiveOf(Batch)', t # s
  PROVE  /\ t \in ActiveOf(Batch) /\ t \in Scenario /\ t \in Listed
         /\ elapsed'[t] = elapsed[t] /\ stage'[t] = stage[t] /\ Waited(t)' = Waited(t)
<1>0. TypeOK /\ s \in Scenario BY ListedAreScenarios DEF IInv
<1>1. t \in ActiveOf(Batch) /\ t \in Scenario /\ t \in Listed
  BY <1>0, ActiveAfter, ActiveAreListed DEF Begins, Continues, Ends
<1>2. phase'[t] = "ACTIVE" BY DEF ActiveOf, InPhase
<1>3. elapsed'[t] = elapsed[t] /\ Waited(t)' = Waited(t) BY <1>1, <1>2, AgesInTurn
<1>4. stage'[t] = stage[t]
  BY <1>0, <1>1, MixerForced DEF BeginBatch, BeginCip, NextStage, SameStage, EndBatch, EndCip, StageType
<1>5. QED BY <1>1, <1>3, <1>4

\* The batch that begins is in its first stage, and a tick old.
LEMMA BatchBegun ==
  ASSUME IInv, LoopInv, SinceType, StageType, NEW s \in Listed, Fixed, Begins(s),
         s \in ActiveOf(Batch)'
  PROVE  /\ class[s] = Batch /\ s \in Scenario /\ phase[s] = "PENDING"
         /\ stage'[s] = 1 /\ elapsed'[s] = 1 /\ Waited(s)' = since + 1
<1>0. TypeOK /\ s \in Scenario BY ListedAreScenarios DEF IInv
<1>1. class[s] = Batch BY <1>0, JoinsOrLeaves
<1>2. phase'[s] = "ACTIVE" BY DEF ActiveOf, InPhase
<1>3. elapsed'[s] = 1 /\ Waited(s)' = since + 1 BY <1>2, AgesInTurn
<1>4. stage'[s] = 1
  BY <1>0, <1>1, MixerForced DEF BeginBatch, StageType, Batch, Cip
<1>5. QED BY <1>0, <1>1, <1>3, <1>4 DEF Begins, Admitted

\* The batch that goes on is a tick older, in the same stage or the next.
LEMMA BatchGoesOn ==
  ASSUME IInv, LoopInv, SinceType, StageType, NEW s \in Listed, Fixed, Continues(s),
         s \in ActiveOf(Batch)'
  PROVE  /\ s \in ActiveOf(Batch) /\ s \in Scenario
         /\ stage[s] \in 1..4 /\ elapsed[s] \in Nat /\ duration[s] \in Nat
         /\ elapsed'[s] = elapsed[s] + 1 /\ Waited(s) = since /\ Waited(s)' = since + 1
         /\ \/ NextStage(s) /\ stage[s] \in 1..3 /\ stage'[s] = stage[s] + 1
            \/ SameStage(s) /\ stage'[s] = stage[s]
<1>0. TypeOK /\ s \in Scenario BY ListedAreScenarios DEF IInv
<1>1. s \in ActiveOf(Batch) BY <1>0, ActiveAfter DEF Continues
<1>2. class[s] = Batch BY <1>1 DEF ActiveOf, IsOf
<1>3. phase'[s] = "ACTIVE" BY DEF ActiveOf, InPhase
<1>4. ~ Begins(s) BY DEF Begins, Admitted, Continues
<1>5. elapsed'[s] = elapsed[s] + 1 /\ Waited(s) = since /\ Waited(s)' = since + 1
  BY <1>3, <1>4, AgesInTurn
<1>6. stage[s] \in 1..4 /\ elapsed[s] \in Nat /\ duration[s] \in Nat
  BY <1>0 DEF StageType, TypeOK
<1>7. NextStage(s) \/ SameStage(s) BY <1>2, MixerForced
<1>8. NextStage(s) => stage[s] \in 1..3 /\ stage'[s] = stage[s] + 1
  BY <1>0, <1>6 DEF NextStage, StageType, BatchStates
<1>9. SameStage(s) => stage'[s] = stage[s] BY DEF SameStage
<1>10. QED BY <1>0, <1>1, <1>5, <1>6, <1>7, <1>8, <1>9

\* A batch always has the time left that the stages to come take.
LEMMA StageInvKept ==
  ASSUME IInv, LoopInv, SinceType, StageType, StageInv, [FoodNext]_foodVars
  PROVE  StageInv'
<1>0. TypeOK /\ Fixed BY StepKinds DEF IInv
<1> SUFFICES ASSUME NEW t \in ActiveOf(Batch)'
             PROVE  duration[t] - elapsed'[t] - 1 >= Earliest[4] - Earliest[stage'[t]]
  BY <1>0 DEF StageInv, TicksLeft, Fixed
<1>1. CASE Rests \/ Generates
  <2>1. UNCHANGED <<elapsed, stage>> /\ ActiveOf(Batch)' = ActiveOf(Batch)
    <3>1. CASE Rests BY <1>0, <3>1, AgesAtRest DEF Rests, equipment, line
    <3>2. CASE Generates
      <4>1. UNCHANGED <<listed, class, phase, elapsed, stage>>
        BY <1>0, <3>2 DEF Generates, Generate, RunGenerators, SkipGenerators, line, Fixed
      <4>2. QED BY <4>1 DEF ActiveOf, InPhase, Listed, IsOf
    <3>3. QED BY <1>1, <3>1, <3>2
  <2>2. QED BY <2>1 DEF StageInv, TicksLeft
<1>2. ASSUME NEW s \in Listed, Begins(s) \/ Continues(s) \/ Ends(s)
      PROVE  duration[t] - elapsed'[t] - 1 >= Earliest[4] - Earliest[stage'[t]]
  <2>1. CASE t # s
    <3>1. t \in ActiveOf(Batch) /\ elapsed'[t] = elapsed[t] /\ stage'[t] = stage[t]
      BY <1>0, <1>2, <2>1, BatchesKept
    <3>2. QED BY <3>1 DEF StageInv, TicksLeft
  <2>2. CASE t = s /\ Begins(s)
    <3>1. class[s] = Batch /\ s \in Scenario /\ stage'[s] = 1 /\ elapsed'[s] = 1
      BY <1>0, <2>2, BatchBegun
    <3>2. duration[s] >= Earliest[4] /\ duration[s] \in Nat
      <4>1. Batch \in Class BY <1>0, <3>1 DEF TypeOK
      <4>2. duration[s] \in Durations[Batch] BY <3>1 DEF LoopInv
      <4>3. QED BY <1>0, <3>1, <4>1, <4>2, FoodAssumption DEF Batch, TypeOK
    <3>3. QED BY <2>2, <3>1, <3>2, EarliestGrow
  <2>3. CASE t = s /\ Continues(s)
    <3>1. /\ s \in ActiveOf(Batch)
          /\ stage[s] \in 1..4 /\ elapsed[s] \in Nat /\ duration[s] \in Nat
          /\ elapsed'[s] = elapsed[s] + 1
          /\ \/ NextStage(s) /\ stage[s] \in 1..3 /\ stage'[s] = stage[s] + 1
             \/ SameStage(s) /\ stage'[s] = stage[s]
      BY <1>0, <2>3, BatchGoesOn
    <3>2. duration[s] - elapsed[s] - 1 >= Earliest[4] - Earliest[stage[s]]
      BY <3>1 DEF StageInv, TicksLeft
    <3>3. CASE stage[s] \in 1..3 /\ stage'[s] = stage[s] + 1
      <4>1. Earliest[stage[s]] < Earliest[stage'[s]] /\ Earliest[stage[s]] \in Nat
            /\ Earliest[stage'[s]] \in Nat /\ Earliest[4] \in Nat
        <5>1. stage[s] = 1 \/ stage[s] = 2 \/ stage[s] = 3 BY <3>3
        <5>2. QED BY <3>3, <5>1, EarliestGrow
      <4>2. QED BY <2>3, <3>1, <3>2, <4>1
    <3>4. CASE SameStage(s) /\ stage'[s] = stage[s]
      <4>1. duration[s] - elapsed[s] - 1 > Earliest[4] - Earliest[stage[s]]
        BY <3>4 DEF SameStage, TicksLeft
      <4>2. Earliest[stage[s]] \in Nat /\ Earliest[4] \in Nat BY <3>1, EarliestGrow
      <4>3. QED BY <2>3, <3>1, <3>4, <4>1, <4>2
    <3>5. QED BY <3>1, <3>3, <3>4
  <2>4. CASE t = s /\ Ends(s)
    <3>1. t \notin ActiveOf(Batch)' BY <1>0, <2>4, JoinsOrLeaves
    <3>2. QED BY <3>1
  <2>5. QED BY <1>2, <2>1, <2>2, <2>3, <2>4
<1>3. QED BY <1>1, <1>2, StepKinds

\* A batch whose time is over is in its last stage.
LEMMA OverInLastStage ==
  ASSUME TypeOK, StageType, StageInv, NEW s \in ActiveOf(Batch), elapsed[s] + 1 >= duration[s]
  PROVE  stage[s] = 4
<1>1. s \in Scenario BY ActiveAreListed
<1>2. elapsed[s] \in Nat /\ duration[s] \in Nat /\ stage[s] \in 1..4
  BY <1>1 DEF TypeOK, StageType
<1>3. duration[s] - elapsed[s] - 1 >= Earliest[4] - Earliest[stage[s]] BY DEF StageInv, TicksLeft
<1>4. stage[s] \in 1..3 => Earliest[stage[s]] < Earliest[4]
  <2>1. stage[s] \in 1..3 => stage[s] = 1 \/ stage[s] = 2 \/ stage[s] = 3 OBVIOUS
  <2>2. QED BY <2>1, EarliestGrow
<1>5. Earliest[stage[s]] \in Nat /\ Earliest[4] \in Nat BY <1>2, EarliestGrow
<1>6. ~ (Earliest[stage[s]] < Earliest[4]) BY <1>2, <1>3, <1>5
<1>7. QED BY <1>2, <1>4, <1>6

-----------------------------------------------------------------------------
(***************************************************************************)
(* What the mixer has noticed.  A batch that it has not noticed is still   *)
(* loading, is no older than the last run, and has not been preceded by    *)
(* another that the mixer last saw loading.  For when one is cut short     *)
(* while it loads, a state change is let through in that tick; and what    *)
(* changes the state lasts beyond the next run, so that no batch begins    *)
(* before it.                                                              *)
(***************************************************************************)
Lone == Apart(Batch) /\ Apart(Cip)

NoticedType == noticed \subseteq {s \in Listed : phase[s] # "PENDING"}

NoticedInv ==
  Apart(Batch) => \A b \in ActiveOf(Batch) \intersect noticed :
    /\ stage[b] = 1 => seen = "Loading"
    /\ seen = "Loading" /\ stage[b] # 1 =>
         duration[b] - elapsed[b] + Waited(b) > Earliest[4] - Earliest[1]

UnnoticedInv ==
  Lone => \A b \in ActiveOf(Batch) \ noticed :
    stage[b] = 1 /\ elapsed[b] <= Waited(b) /\ seen # "Loading"

\* A state change that has begun since the last run.
Holds(x) == phase[x] = "ACTIVE" /\ Prio(x) = StateChanging /\ elapsed[x] <= Waited(x)

\* One that is let through in this tick and has yet to begin.
Comes(x) == pc # "idle" /\ x \in Changing(due) /\ x \notin skip /\ phase[x] = "PENDING"

LoadingInv ==
  Lone /\ seen = "Loading" =>
    \/ ActiveOf(Batch) \intersect noticed # {}
    \/ \E x \in Listed : Holds(x) \/ Comes(x)

\* The skid has not moved before the next run.
RinseInv ==
  Apart(Cip) => \A x \in ActiveOf(Cip) : elapsed[x] <= Waited(x) => cip = "Pre_rinse"

\* A batch that has ended unnoticed was cut short within an interval.
LostInv ==
  Lone => \A s \in Listed :
    phase[s] = "COMPLETED" /\ IsOf(s, Batch) /\ s \notin noticed => elapsed[s] < Interval

\* Nothing but its own generator changes what the mixer has seen.
LEMMA SeenLater ==
  ASSUME NEW s \in Listed, Rests \/ Begins(s) \/ Continues(s) \/ Ends(s)
  PROVE  UNCHANGED <<seen, sequence, resetDay, ids, noticed>>
BY DEF Rests, Begins, Continues, Ends, OnActivate, OnTick, OnComplete, equipment, line, issued

\* Who has begun has begun for good; only a run of the mixer notices.
LEMMA NoticedTypeKept ==
  ASSUME IInv, LoopInv, SinceType, NoticedType, [FoodNext]_foodVars
  PROVE  NoticedType'
<1>0. TypeOK /\ Fixed BY StepKinds DEF IInv
<1>1. Listed' = Listed /\ Listed \subseteq Scenario BY <1>0, ListedAreScenarios DEF Fixed, Listed
<1>2. CASE Rests
  BY <1>1, <1>2 DEF Rests, equipment, line, issued, NoticedType
<1>3. CASE Generates
  <2>1. phase' = phase BY <1>3 DEF Generates
  <2>2. noticed' \subseteq noticed \union ActiveOf(Batch)
    BY <1>3 DEF Generates, Generate, RunGenerators, SkipGenerators, MixerGenerates, line, issued, Batch
  <2>3. ActiveOf(Batch) \subseteq {s \in Listed : phase[s] # "PENDING"} BY DEF ActiveOf, InPhase
  <2>4. QED BY <1>1, <2>1, <2>2, <2>3 DEF NoticedType
<1>4. ASSUME NEW s \in Listed, Begins(s) \/ Continues(s) \/ Ends(s) PROVE NoticedType'
  <2>1. noticed' = noticed BY <1>4, SeenLater
  <2>2. \A t \in Listed : phase[t] # "PENDING" => phase'[t] # "PENDING"
    BY <1>0, <1>1, <1>4 DEF Begins, Continues, Ends, TypeOK
  <2>3. QED BY <1>1, <2>1, <2>2 DEF NoticedType
<1>5. QED BY <1>2, <1>3, <1>4, StepKinds

\* What a run of the generators finds: the mixer is in the stage of the batch
\* that is active, and the batch is new to it when it has not been noticed.
LEMMA RunNotices ==
  ASSUME IInv, LoopInv, OneOfClass, SinceType, StageType, MixerInv, NoticedInv, Generates,
         RunGenerators, Apart(Batch)
  PROVE  /\ \A b \in ActiveOf(Batch) : mixer = BatchStates[stage[b]] /\ stage[b] \in 1..4
         /\ \A b, c \in ActiveOf(Batch) : b = c
         /\ NewBatch => ActiveOf(Batch) # {} /\ ActiveOf(Batch) \intersect noticed = {}
         /\ noticed' = IF NewBatch THEN noticed \union ActiveOf(Batch) ELSE noticed
         /\ seen' = mixer
<1>0. TypeOK BY DEF IInv
<1>1. \A b \in ActiveOf(Batch) : mixer = BatchStates[stage[b]] /\ stage[b] \in 1..4
  BY <1>0, ActiveAreListed DEF MixerInv, StageType
<1>2. \A b, c \in ActiveOf(Batch) : b = c
  <2>1. ActiveOf(Batch) # {} => Batch \in Class BY <1>0, ActiveAreListed DEF TypeOK
  <2>2. QED BY <2>1 DEF OneOfClass
<1>3. ASSUME NewBatch PROVE ActiveOf(Batch) # {} /\ ActiveOf(Batch) \intersect noticed = {}
  <2>1. mixer = "Loading" /\ seen # "Loading" BY <1>3 DEF NewBatch
  <2>2. ActiveOf(Batch) # {} BY <2>1 DEF MixerInv
  <2>3. \A b \in ActiveOf(Batch) : stage[b] = 1
    <3>1. \A i \in 1..4 : BatchStates[i] = "Loading" => i = 1 BY DEF BatchStates
    <3>2. QED BY <1>1, <2>1, <3>1
  <2>4. QED BY <2>1, <2>2, <2>3 DEF NoticedInv
<1>4. seen' = mixer /\ noticed' = IF NewBatch THEN noticed \union ActiveOf(Batch) ELSE noticed
  BY DEF RunGenerators, MixerGenerates, Batch
<1>5. QED BY <1>1, <1>2, <1>3, <1>4

\* When it is noticed the mixer has seen it load; and when it has left the
\* first stage unseen, it has more than an interval to go.
LEMMA NoticedInvKept ==
  ASSUME IInv, LoopInv, OneOfClass, SinceType, StageType, MixerInv, StageInv, NoticedType,
         NoticedInv, [FoodNext]_foodVars
  PROVE  NoticedInv'
<1>0. TypeOK /\ Fixed /\ SinceType' BY StepKinds, SinceKept DEF IInv
<1> SUFFICES ASSUME Apart(Batch)', NEW t \in ActiveOf(Batch)', t \in noticed'
             PROVE  /\ stage'[t] = 1 => seen' = "Loading"
                    /\ seen' = "Loading" /\ stage'[t] # 1 =>
                         duration[t] - elapsed'[t] + Waited(t)' > Earliest[4] - Earliest[1]
  BY <1>0 DEF NoticedInv, Fixed
<1>1. CASE Rests
  <2>1. UNCHANGED <<elapsed, stage, seen, noticed, overlapped>>
    BY <1>1 DEF Rests, equipment, line, issued
  <2>2. t \in ActiveOf(Batch) /\ t \in Listed /\ phase[t] = "ACTIVE"
    BY <1>0, <1>1, AgesAtRest DEF ActiveOf, InPhase
  <2>3. Waited(t)' = Waited(t) BY <1>0, <1>1, <2>2, AgesAtRest
  <2>4. Apart(Batch) BY <2>1 DEF Apart
  <2>5. QED BY <2>1, <2>2, <2>3, <2>4 DEF NoticedInv
<1>2. CASE Generates
  <2>1. t \in ActiveOf(Batch) /\ t \in Listed /\ elapsed' = elapsed /\ Waited(t) = since + 1
        /\ Waited(t)' = since'
    BY <1>0, <1>2, AgesWhenCalled DEF ActiveOf, InPhase
  <2>2. stage' = stage /\ Apart(Batch)
    BY <1>2 DEF Generates, Generate, RunGenerators, SkipGenerators, Apart, line
  <2>3. CASE RunGenerators
    <3>1. mixer = BatchStates[stage[t]] /\ stage[t] \in 1..4 /\ seen' = mixer
      BY <1>2, <2>1, <2>2, <2>3, RunNotices
    <3>2. seen' = "Loading" <=> stage[t] = 1 BY <3>1 DEF BatchStates
    <3>3. QED BY <2>2, <3>2
  <2>4. CASE SkipGenerators
    <3>1. seen' = seen /\ noticed' = noticed /\ since' = since + 1
      BY <2>4 DEF SkipGenerators, line, issued
    <3>2. QED BY <2>1, <2>2, <3>1 DEF NoticedInv
  <2>5. QED BY <1>2, <2>3, <2>4 DEF Generates, Generate
<1>3. ASSUME NEW s \in Listed, Begins(s) \/ Continues(s) \/ Ends(s)
      PROVE  /\ stage'[t] = 1 => seen' = "Loading"
             /\ seen' = "Loading" /\ stage'[t] # 1 =>
                  duration[t] - elapsed'[t] + Waited(t)' > Earliest[4] - Earliest[1]
  <2>0. s \in Scenario /\ seen' = seen /\ noticed' = noticed /\ Apart(Batch)
    BY <1>0, <1>3, ListedAreScenarios, SeenLater, ApartKept
  <2>1. CASE t # s
    <3>1. /\ t \in ActiveOf(Batch) /\ elapsed'[t] = elapsed[t] /\ stage'[t] = stage[t]
          /\ Waited(t)' = Waited(t)
      BY <1>0, <1>3, <2>1, BatchesKept
    <3>2. QED BY <2>0, <3>1 DEF NoticedInv
  <2>2. CASE t = s /\ Begins(s)
    <3>1. phase[s] = "PENDING" BY <1>0, <2>2, BatchBegun
    <3>2. QED BY <2>0, <2>2, <3>1 DEF NoticedType
  <2>3. CASE t = s /\ Continues(s)
    <3>1. /\ s \in ActiveOf(Batch)
          /\ stage[s] \in 1..4 /\ elapsed[s] \in Nat /\ duration[s] \in Nat
          /\ elapsed'[s] = elapsed[s] + 1 /\ Waited(s) = since /\ Waited(s)' = since + 1
          /\ \/ NextStage(s) /\ stage[s] \in 1..3 /\ stage'[s] = stage[s] + 1
             \/ SameStage(s) /\ stage'[s] = stage[s]
      BY <1>0, <2>3, BatchGoesOn
    <3>2. stage'[s] = 1 => stage[s] = 1 BY <3>1
    <3>3. stage[s] = 1 => seen = "Loading" BY <2>0, <2>3, <3>1 DEF NoticedInv
    <3>4. ASSUME seen = "Loading", stage[s] # 1
          PROVE  duration[s] - elapsed'[s] + Waited(s)' > Earliest[4] - Earliest[1]
      <4>1. duration[s] - elapsed[s] + Waited(s) > Earliest[4] - Earliest[1]
        BY <2>0, <2>3, <3>1, <3>4 DEF NoticedInv
      <4>2. since \in Nat /\ Earliest[4] \in Nat /\ Earliest[1] \in Nat
        BY EarliestGrow DEF SinceType
      <4>3. QED BY <3>1, <4>1, <4>2
    <3>5. ASSUME stage[s] = 1
          PROVE  duration[s] - elapsed'[s] + Waited(s)' > Earliest[4] - Earliest[1]
      <4>1. duration[s] - elapsed[s] - 1 >= Earliest[4] - Earliest[1]
        BY <3>1, <3>5 DEF StageInv, TicksLeft
      <4>2. since \in Nat /\ Earliest[4] \in Nat /\ Earliest[1] \in Nat
        BY EarliestGrow DEF SinceType
      <4>3. QED BY <3>1, <4>1, <4>2
    <3>6. QED BY <2>0, <2>3, <3>2, <3>3, <3>4, <3>5
  <2>4. CASE t = s /\ Ends(s)
    <3>1. t \notin ActiveOf(Batch)' BY <1>0, <2>4, JoinsOrLeaves
    <3>2. QED BY <3>1
  <2>5. QED BY <1>3, <2>1, <2>2, <2>3, <2>4
<1>4. QED BY <1>1, <1>2, <1>3, StepKinds

\* No batch begins while the mixer has last seen another load.
LEMMA BeginsUnseen ==
  ASSUME IInv, IInv', LoopInv, StageType, NoticedType, LoadingInv, Fixed, NEW s \in Listed,
         Begins(s), class[s] = Batch, Lone'
  PROVE  Lone /\ seen # "Loading"
<1>0. TypeOK /\ s \in Scenario /\ class[s] \in Class BY ListedAreScenarios DEF IInv, TypeOK
<1>1. Lone
  <2>1. Apart(Batch)' /\ Apart(Cip)' BY DEF Lone
  <2>2. QED BY <1>0, <2>1, ApartKept DEF Lone
<1>2. Prio(s) = NonStateChanging
  <2>1. class[s] \notin {"CipCycle", "ColdChainBreak", "SealIntegrityFailure"} BY DEF Batch
  <2>2. QED BY <1>0, <2>1, FoodAssumption DEF Prio
<1>3. ActiveOf(Batch) = {}
  <2>1. Apart(Batch)' BY DEF Lone
  <2>2. QED BY <1>0, <2>1, BeginsAlone
<1>4. ASSUME NEW x \in Listed, Holds(x) \/ Comes(x) PROVE FALSE
  <2>1. pc = "evaluate" /\ Admitted(s) /\ phase[s] = "PENDING" BY DEF Begins, InTurn, Admitted
  <2>2. x \in Scenario BY <1>0, ListedAreScenarios
  <2>3. scActive
    <3>1. CASE Holds(x) BY <2>1, <2>2, <3>1 DEF IInv, ArbitrationInv, Holds, Running
    <3>2. CASE Comes(x) BY <2>1, <3>2 DEF IInv, ArbitrationInv, Comes
    <3>3. QED BY <1>4, <3>1, <3>2
  <2>4. Prio(s) # NonStateChanging BY <1>0, <2>1, <2>3 DEF IInv, ArbitrationInv
  <2>5. QED BY <1>2, <2>4
<1>5. QED BY <1>1, <1>3, <1>4 DEF LoadingInv

\* A batch that has not been noticed keeps loading until the next run.
LEMMA UnnoticedInvKept ==
  ASSUME IInv, IInv', LoopInv, OneOfClass, SinceType, StageType, MixerInv, NoticedType,
         NoticedInv, UnnoticedInv, LoadingInv, [FoodNext]_foodVars
  PROVE  UnnoticedInv'
<1>0. TypeOK /\ Fixed BY StepKinds DEF IInv
<1> SUFFICES ASSUME Lone', NEW t \in ActiveOf(Batch)', t \notin noticed'
             PROVE  stage'[t] = 1 /\ elapsed'[t] <= Waited(t)' /\ seen' # "Loading"
  BY DEF UnnoticedInv
<1>a. Apart(Batch)' /\ Apart(Cip)' BY DEF Lone
<1>1. CASE Rests
  <2>1. UNCHANGED <<elapsed, stage, seen, noticed, overlapped>>
    BY <1>1 DEF Rests, equipment, line, issued
  <2>2. t \in ActiveOf(Batch) /\ t \in Listed /\ phase[t] = "ACTIVE"
    BY <1>0, <1>1, AgesAtRest DEF ActiveOf, InPhase
  <2>3. Waited(t)' = Waited(t) BY <1>0, <1>1, <2>2, AgesAtRest
  <2>4. Lone BY <1>a, <2>1 DEF Lone, Apart
  <2>5. QED BY <2>1, <2>2, <2>3, <2>4 DEF UnnoticedInv
<1>2. CASE Generates
  <2>1. t \in ActiveOf(Batch) /\ t \in Listed /\ elapsed' = elapsed /\ Waited(t) = since + 1
        /\ Waited(t)' = since'
    BY <1>0, <1>2, AgesWhenCalled DEF ActiveOf, InPhase
  <2>2. stage' = stage /\ overlapped' = overlapped
    BY <1>2 DEF Generates, Generate, RunGenerators, SkipGenerators, line
  <2>3. Lone BY <1>a, <2>2 DEF Lone, Apart
  <2>4. CASE RunGenerators
    <3>1. /\ mixer = BatchStates[stage[t]]
          /\ noticed' = IF NewBatch THEN noticed \union ActiveOf(Batch) ELSE noticed
      BY <1>2, <2>1, <2>3, <2>4, RunNotices DEF Lone
    <3>2. ~ NewBatch /\ t \notin noticed BY <2>1, <3>1
    <3>3. stage[t] = 1 /\ seen # "Loading" BY <2>1, <2>3, <3>2 DEF UnnoticedInv
    <3>4. mixer = "Loading" BY <3>1, <3>3 DEF BatchStates
    <3>5. QED BY <3>2, <3>3, <3>4 DEF NewBatch
  <2>5. CASE SkipGenerators
    <3>1. seen' = seen /\ noticed' = noticed /\ since' = since + 1
      BY <2>5 DEF SkipGenerators, line, issued
    <3>2. QED BY <2>1, <2>2, <2>3, <3>1 DEF UnnoticedInv
  <2>6. QED BY <1>2, <2>4, <2>5 DEF Generates, Generate
<1>3. ASSUME NEW s \in Listed, Begins(s) \/ Continues(s) \/ Ends(s)
      PROVE  stage'[t] = 1 /\ elapsed'[t] <= Waited(t)' /\ seen' # "Loading"
  <2>0. s \in Scenario /\ seen' = seen /\ noticed' = noticed /\ Lone
    BY <1>0, <1>a, <1>3, ListedAreScenarios, SeenLater, ApartKept DEF Lone
  <2>1. CASE t # s
    <3>1. /\ t \in ActiveOf(Batch) /\ elapsed'[t] = elapsed[t] /\ stage'[t] = stage[t]
          /\ Waited(t)' = Waited(t)
      BY <1>0, <1>3, <2>1, BatchesKept
    <3>2. QED BY <2>0, <3>1 DEF UnnoticedInv
  <2>2. CASE t = s /\ Begins(s)
    <3>1. class[s] = Batch /\ stage'[s] = 1 /\ elapsed'[s] = 1 /\ Waited(s)' = since + 1
      BY <1>0, <2>2, BatchBegun
    <3>2. seen # "Loading" BY <1>0, <2>2, <3>1, BeginsUnseen
    <3>3. QED BY <2>0, <2>2, <3>1, <3>2 DEF SinceType
  <2>3. CASE t = s /\ Continues(s)
    <3>1. /\ s \in ActiveOf(Batch)
          /\ stage[s] \in 1..4 /\ elapsed[s] \in Nat /\ duration[s] \in Nat
          /\ elapsed'[s] = elapsed[s] + 1 /\ Waited(s) = since /\ Waited(s)' = since + 1
          /\ \/ NextStage(s) /\ stage[s] \in 1..3 /\ stage'[s] = stage[s] + 1
             \/ SameStage(s) /\ stage'[s] = stage[s]
      BY <1>0, <2>3, BatchGoesOn
    <3>2. stage[s] = 1 /\ elapsed[s] <= since /\ seen # "Loading"
      BY <2>0, <2>3, <3>1 DEF UnnoticedInv
    <3>3. ~ NextStage(s)
      <4>1. since \in Nat /\ since < Interval /\ Earliest[1] > Interval
            /\ Interval \in Nat /\ Earliest[1] \in Nat
        BY EarliestGrow DEF SinceType
      <4>2. ~ (elapsed[s] + 1 >= Earliest[1]) BY <3>1, <3>2, <4>1
      <4>3. QED BY <3>2, <4>2 DEF NextStage
    <3>4. elapsed'[s] <= Waited(s)' BY <3>1, <3>2 DEF SinceType
    <3>5. QED BY <2>0, <2>3, <3>1, <3>2, <3>3, <3>4
  <2>4. CASE t = s /\ Ends(s)
    <3>1. t \notin ActiveOf(Batch)' BY <1>0, <2>4, JoinsOrLeaves
    <3>2. QED BY <3>1
  <2>5. QED BY <1>3, <2>1, <2>2, <2>3, <2>4
<1>4. QED BY <1>1, <1>2, <1>3, StepKinds

\* The skid rests in its first phase from the start of a CIP cycle to the
\* next run of its generator.
LEMMA RinseInvKept ==
  ASSUME IInv, LoopInv, OneOfClass, SinceType, RinseInv, [FoodNext]_foodVars
  PROVE  RinseInv'
<1>0. TypeOK /\ Fixed BY StepKinds DEF IInv
<1> SUFFICES ASSUME Apart(Cip)', NEW t \in ActiveOf(Cip)', elapsed'[t] <= Waited(t)'
             PROVE  cip' = "Pre_rinse"
  BY DEF RinseInv
<1>1. CASE Rests
  <2>1. UNCHANGED <<elapsed, cip, overlapped>> BY <1>1 DEF Rests, equipment, line
  <2>2. t \in ActiveOf(Cip) /\ t \in Listed /\ phase[t] = "ACTIVE"
    BY <1>0, <1>1, AgesAtRest DEF ActiveOf, InPhase
  <2>3. Waited(t)' = Waited(t) BY <1>0, <1>1, <2>2, AgesAtRest
  <2>4. QED BY <2>1, <2>2, <2>3 DEF RinseInv, Apart
<1>2. CASE Generates
  <2>1. t \in ActiveOf(Cip) /\ t \in Listed /\ elapsed' = elapsed /\ Waited(t) = since + 1
        /\ Waited(t)' = since'
    BY <1>0, <1>2, AgesWhenCalled DEF ActiveOf, InPhase
  <2>2. elapsed[t] >= 1 /\ elapsed[t] \in Nat
    BY <1>0, <2>1, ActiveAreListed DEF LoopInv, TypeOK
  <2>3. CASE RunGenerators
    <3>1. since' = 0 BY <2>3 DEF RunGenerators
    <3>2. QED BY <2>1, <2>2, <3>1
  <2>4. CASE SkipGenerators
    <3>1. cip' = cip /\ since' = since + 1 /\ overlapped' = overlapped
      BY <2>4 DEF SkipGenerators, line
    <3>2. QED BY <2>1, <3>1 DEF RinseInv, Apart
  <2>5. QED BY <1>2, <2>3, <2>4 DEF Generates, Generate
<1>3. ASSUME NEW s \in Listed, Begins(s) \/ Continues(s) \/ Ends(s)
      PROVE  cip' = "Pre_rinse"
  <2>0. /\ s \in Scenario /\ class[s] \in Class /\ Apart(Cip)
        /\ t \in Listed /\ phase'[t] = "ACTIVE" /\ class[t] = Cip /\ t \in Scenario
    BY <1>0, <1>3, ListedAreScenarios, ApartKept DEF ActiveOf, InPhase, IsOf, Fixed, Listed, TypeOK
  <2>a. Cip \in Class BY <1>0, <2>0 DEF TypeOK
  <2>1. CASE Begins(s) /\ class[s] = Cip
    <3>1. BeginCip BY <2>1, MixerForced DEF Batch, Cip
    <3>2. QED BY <3>1 DEF BeginCip, CipPhases
  <2>2. CASE ~ (Begins(s) /\ class[s] = Cip)
    <3>1. t \in ActiveOf(Cip) /\ elapsed[t] <= Waited(t)
      <4>1. phase[t] = "ACTIVE"
        BY <1>0, <1>3, <2>0, <2>2, AgesInTurn
      <4>2. elapsed[t] <= Waited(t)
        <5>1. since \in Nat /\ elapsed[t] \in Nat BY <1>0, <2>0 DEF SinceType, TypeOK
        <5>2. t # s => elapsed'[t] = elapsed[t] /\ Waited(t)' = Waited(t)
          BY <1>0, <1>3, <2>0, AgesInTurn
        <5>3. t = s => elapsed'[t] = elapsed[t] + 1 /\ Waited(t) = since /\ Waited(t)' = since + 1
          BY <1>0, <1>3, <2>0, <2>2, AgesInTurn
        <5>4. QED BY <5>1, <5>2, <5>3
      <4>3. QED BY <2>0, <4>1, <4>2 DEF ActiveOf, InPhase, IsOf
    <3>2. cip = "Pre_rinse" BY <2>0, <3>1 DEF RinseInv
    <3>3. cip' = cip
      <4>1. ~ (Ends(s) /\ class[s] = Cip)
        <5>1. SUFFICES ASSUME Ends(s), class[s] = Cip PROVE FALSE OBVIOUS
        <5>2. s \in ActiveOf(Cip) BY <5>1 DEF Ends, ActiveOf, InPhase, IsOf
        <5>3. s = t BY <2>0, <2>a, <3>1, <5>2 DEF OneOfClass
        <5>4. t \notin ActiveOf(Cip)' BY <1>0, <5>1, <5>3, JoinsOrLeaves
        <5>5. QED BY <5>4
      <4>2. ~ (Begins(s) /\ class[s] = Batch) \/ cip' = cip
        BY MixerForced DEF BeginBatch, Batch, Cip
      <4>3. QED
        BY <1>3, <2>2, <4>1, <4>2, MixerForced DEF BeginBatch, NextStage, SameStage, EndBatch
    <3>4. QED BY <3>2, <3>3
  <2>3. QED BY <2>1, <2>2
<1>4. QED BY <1>1, <1>2, <1>3, StepKinds

\* What holds up the batches lasts until the next run.
LEMMA HoldersStay ==
  ASSUME IInv, ProgressInv, LoopInv, OneOfClass, SinceType, RinseInv, Apart(Cip),
         Rests \/ (Generates /\ SkipGenerators)
           \/ (\E s \in Listed : Begins(s) \/ Continues(s) \/ Ends(s)),
         Fixed, NEW x \in Listed, Holds(x) \/ Comes(x)
  PROVE  Holds(x)' \/ Comes(x)'
<1>0. TypeOK /\ x \in Scenario /\ class[x] \in Class BY ListedAreScenarios DEF IInv, TypeOK
<1>1. Prio(x)' = Prio(x) /\ Listed' = Listed BY DEF Prio, Fixed, Listed
<1>2. since \in Nat /\ since < Interval /\ Interval \in Nat BY FoodAssumption DEF SinceType
<1>3. CASE Rests
  <2>1. phase' = phase /\ elapsed' = elapsed BY <1>3, AgesAtRest
  <2>2. CASE Holds(x)
    <3>1. Waited(x)' = Waited(x) BY <1>3, <2>2, AgesAtRest DEF Holds
    <3>2. QED BY <1>1, <2>1, <2>2, <3>1 DEF Holds
  <2>3. CASE Comes(x)
    <3>1. pc # "idle" => pc' # "idle" /\ due' = due /\ skip' = skip BY <1>3 DEF Rests, InTurn
    <3>2. due' = due => Changing(due)' = Changing(due) BY DEF Changing, OfPriority, Prio, Fixed
    <3>3. QED BY <2>1, <2>3, <3>1, <3>2 DEF Comes
  <2>4. QED BY <2>2, <2>3
<1>4. CASE Generates /\ SkipGenerators
  <2>1. elapsed' = elapsed /\ phase' = phase /\ Waited(x) = since + 1 /\ Waited(x)' = since'
    BY <1>4, AgesWhenCalled
  <2>2. since' = since + 1 BY <1>4 DEF SkipGenerators
  <2>3. Holds(x) => Holds(x)' BY <1>1, <2>1, <2>2 DEF Holds
  <2>4. ~ Comes(x)
    <3>1. TickDone BY <1>4 DEF Generates, TickDone
    <3>2. Comes(x) => x \in due BY DEF Comes, Changing, OfPriority
    <3>3. QED BY <3>1, <3>2, WaitingAreDeferred DEF Comes
  <2>5. QED BY <2>3, <2>4
<1>5. ASSUME NEW s \in Listed, Begins(s) \/ Continues(s) \/ Ends(s) PROVE Holds(x)' \/ Comes(x)'
  <2>0. s \in Scenario BY <1>0, ListedAreScenarios
  <2>1. CASE Holds(x)
    <3>1. CASE x # s
      <4>1. phase'[x] = "ACTIVE" BY <1>0, <1>5, <2>0, <2>1, <3>1 DEF Begins, Continues, Ends, Holds, TypeOK
      <4>2. elapsed'[x] = elapsed[x] /\ Waited(x)' = Waited(x) BY <1>5, <3>1, <4>1, AgesInTurn
      <4>3. QED BY <1>1, <2>1, <4>1, <4>2 DEF Holds
    <3>2. CASE x = s /\ Continues(s)
      <4>1. phase'[x] = "ACTIVE" /\ ~ Begins(s) BY <3>2 DEF Continues, Begins, Admitted
      <4>2. elapsed'[x] = elapsed[x] + 1 /\ Waited(x) = since /\ Waited(x)' = since + 1
        BY <1>5, <3>2, <4>1, AgesInTurn
      <4>3. elapsed[x] \in Nat /\ elapsed[x] <= Waited(x) BY <1>0, <2>1 DEF TypeOK, Holds
      <4>4. QED BY <1>1, <1>2, <2>1, <4>1, <4>2, <4>3 DEF Holds
    <3>3. CASE x = s /\ Ends(s)
      <4>1. s \notin victims
        <5>1. Prio(s) = StateChanging BY <2>1, <3>3 DEF Holds
        <5>2. QED BY <5>1, PrioritiesDiffer DEF IInv, VictimsInv
      <4>2. InTurn(s) /\ (elapsed[s] + 1 >= duration[s] \/ CipIsBack(s))
        BY <3>3, <4>1 DEF Ends
      <4>3. Waited(s) = since
        <5>1. ~ Evaluated(s) BY <1>0, <4>2, TurnOver
        <5>2. QED BY <1>2, <5>1 DEF Waited
      <4>4. elapsed[s] <= since /\ elapsed[s] \in Nat /\ duration[s] \in Nat /\ duration[s] > Interval
        <5>1. duration[s] \in Durations[class[s]] BY <2>0 DEF LoopInv
        <5>2. duration[s] \in Nat /\ duration[s] > Interval BY <1>0, <3>3, <5>1, FoodAssumption
        <5>3. QED BY <1>0, <2>0, <2>1, <3>3, <4>3, <5>2 DEF Holds, TypeOK
      <4>5. ~ (elapsed[s] + 1 >= duration[s]) BY <1>2, <4>4
      <4>6. IsOf(s, Cip) /\ cip = "Idle" BY <4>2, <4>5 DEF CipIsBack, Cip
      <4>7. s \in ActiveOf(Cip) BY <3>3, <4>6 DEF Ends, ActiveOf, InPhase
      <4>8. cip = "Pre_rinse" BY <4>3, <4>4, <4>7 DEF RinseInv
      <4>9. QED BY <4>6, <4>8
    <3>4. ~ (x = s /\ Begins(s)) BY <2>1 DEF Holds, Begins, Admitted
    <3>5. QED BY <1>5, <3>1, <3>2, <3>3, <3>4
  <2>2. CASE Comes(x)
    <3>0. pc' # "idle" /\ due' = due /\ skip' = skip
      BY <1>5, <2>2 DEF Begins, Continues, Ends, InTurn, Comes
    <3>1. Changing(due)' = Changing(due) BY <3>0 DEF Changing, OfPriority, Prio, Fixed
    <3>2. CASE x # s
      <4>1. phase'[x] = phase[x] BY <1>0, <1>5, <3>2 DEF Begins, Continues, Ends, TypeOK
      <4>2. QED BY <2>2, <3>0, <3>1, <4>1 DEF Comes
    <3>3. CASE x = s
      <4>1. Begins(s) BY <1>5, <2>2, <3>3 DEF Comes, Continues, Ends
      <4>2. phase'[s] = "ACTIVE" BY <1>0, <2>0, <4>1 DEF Begins, TypeOK
      <4>3. elapsed'[s] = 1 /\ Waited(s)' = since + 1 BY <1>5, <4>1, <4>2, AgesInTurn
      <4>4. Prio(x) = StateChanging BY <2>2 DEF Comes, Changing, OfPriority
      <4>5. QED BY <1>1, <1>2, <3>3, <4>2, <4>3, <4>4 DEF Holds
    <3>4. QED BY <3>2, <3>3
  <2>3. QED BY <1>5, <2>1, <2>2
<1>6. QED BY <1>3, <1>4, <1>5

\* While the mixer has last seen a batch load, that batch is under way or no
\* other can begin.
LEMMA LoadingInvKept ==
  ASSUME IInv, ProgressInv, LoopInv, OneOfClass, SinceType, StageType, MixerInv, StageInv,
         NoticedType, NoticedInv, UnnoticedInv, RinseInv, LoadingInv, [FoodNext]_foodVars
  PROVE  LoadingInv'
<1>0. TypeOK /\ Fixed BY StepKinds DEF IInv
<1> SUFFICES ASSUME Lone', seen' = "Loading"
             PROVE  \/ ActiveOf(Batch)' \intersect noticed' # {}
                    \/ \E x \in Listed' : Holds(x)' \/ Comes(x)'
  BY DEF LoadingInv
<1>a. Apart(Batch)' /\ Apart(Cip)' /\ Listed' = Listed BY <1>0 DEF Lone, Fixed, Listed
<1>1. CASE Generates /\ RunGenerators
  <2>1. ActiveOf(Batch)' = ActiveOf(Batch) BY <1>0, <1>1, AgesWhenCalled
  <2>2. overlapped' = overlapped BY <1>1 DEF RunGenerators
  <2>3. Lone BY <1>a, <2>2 DEF Lone, Apart
  <2>4. /\ noticed' = IF NewBatch THEN noticed \union ActiveOf(Batch) ELSE noticed
        /\ seen' = mixer
        /\ NewBatch => ActiveOf(Batch) # {}
    BY <1>1, <2>3, RunNotices DEF Lone
  <2>5. CASE NewBatch BY <2>1, <2>4, <2>5
  <2>6. CASE ~ NewBatch
    <3>1. seen = "Loading" /\ mixer = "Loading" BY <2>4, <2>6 DEF NewBatch
    <3>2. ActiveOf(Batch) # {} BY <3>1 DEF MixerInv
    <3>3. ActiveOf(Batch) \subseteq noticed BY <2>3, <3>1 DEF UnnoticedInv
    <3>4. QED BY <2>1, <2>4, <2>6, <3>2, <3>3
  <2>7. QED BY <2>5, <2>6
<1>2. CASE Rests \/ (Generates /\ SkipGenerators)
           \/ (\E s \in Listed : Begins(s) \/ Continues(s) \/ Ends(s))
  <2>1. seen' = seen /\ noticed' = noticed
    <3>1. CASE Generates /\ SkipGenerators BY <3>1 DEF SkipGenerators, line, issued
    <3>2. CASE Rests BY <3>2 DEF Rests, equipment, line, issued
    <3>3. CASE \E s \in Listed : Begins(s) \/ Continues(s) \/ Ends(s) BY <3>3, SeenLater
    <3>4. QED BY <1>2, <3>1, <3>2, <3>3
  <2>2. Lone
    <3>1. CASE Rests \/ Generates
      <4>1. overlapped' = overlapped
        BY <3>1 DEF Rests, equipment, Generates, Generate, RunGenerators, SkipGenerators
      <4>2. QED BY <1>a, <4>1 DEF Lone, Apart
    <3>2. CASE \E s \in Listed : Begins(s) \/ Continues(s) \/ Ends(s)
      BY <1>0, <1>a, <3>2, ApartKept DEF Lone
    <3>3. QED BY <1>2, <3>1, <3>2
  <2>3. CASE \E x \in Listed : Holds(x) \/ Comes(x)
    <3>1. PICK x \in Listed : Holds(x) \/ Comes(x) BY <2>3
    <3>2. Apart(Cip) BY <2>2 DEF Lone
    <3>3. Holds(x)' \/ Comes(x)' BY <1>0, <1>2, <3>1, <3>2, HoldersStay
    <3>4. QED BY <1>a, <3>3
  <2>4. CASE ActiveOf(Batch) \intersect noticed # {}
    <3>1. PICK b \in ActiveOf(Batch) : b \in noticed BY <2>4
    <3>2. b \in Listed /\ phase[b] = "ACTIVE" /\ b \in Scenario /\ class[b] = Batch
      BY <1>0, <3>1, ActiveAreListed
    <3>3. CASE b \in ActiveOf(Batch)' BY <2>1, <3>1, <3>3
    <3>4. CASE b \notin ActiveOf(Batch)'
      <4>1. Ends(b)
        <5>1. CASE Rests BY <1>0, <3>1, <3>4, <5>1, AgesAtRest
        <5>2. CASE Generates BY <1>0, <3>1, <3>4, <5>2, AgesWhenCalled
        <5>3. ASSUME NEW s \in Listed, Begins(s) \/ Continues(s) \/ Ends(s) PROVE Ends(b)
          <6>1. phase'[b] # "ACTIVE"
            BY <1>0, <1>a, <3>2, <3>4 DEF ActiveOf, InPhase, IsOf, Fixed
          <6>2. QED BY <1>0, <3>2, <5>3, <6>1 DEF Begins, Continues, Ends, TypeOK
        <5>4. QED BY <1>2, <5>1, <5>2, <5>3
      <4>2. CASE b \in victims
        <5>1. Changing(due) # {} /\ pc = "preempt" /\ pc' = "preempt" /\ due' = due /\ skip' = skip
          BY <4>1, <4>2 DEF Ends, LoopInv, VictimsDue, InTurn, IInv, VictimsInv
        <5>2. PICK x \in First(Changing(due)) : TRUE
          <6>1. Changing(due) \subseteq Scenario BY <1>0 DEF Changing, OfPriority, TypeOK
          <6>2. QED BY <5>1, <6>1, HasFirst
        <5>3. x \in Changing(due) /\ x \in due BY DEF First, Changing, OfPriority
        <5>4. x \notin skip BY <5>1, <5>3, FirstIsLetThrough
        <5>5. phase[x] = "PENDING" /\ x \in Listed BY <5>1, <5>3 DEF ProgressInv
        <5>6. Comes(x) BY <5>1, <5>3, <5>4, <5>5 DEF Comes
        <5>7. Holds(x)' \/ Comes(x)'
          <6>1. Apart(Cip) BY <2>2 DEF Lone
          <6>2. QED BY <1>0, <1>2, <5>5, <5>6, <6>1, HoldersStay
        <5>8. QED BY <1>a, <5>5, <5>7
      <4>3. CASE InTurn(b) /\ (elapsed[b] + 1 >= duration[b] \/ CipIsBack(b))
        <5>1. elapsed[b] + 1 >= duration[b] BY <3>2, <4>3 DEF CipIsBack, IsOf, Batch
        <5>2. stage[b] = 4 BY <1>0, <3>1, <5>1, OverInLastStage
        <5>3. Waited(b) = since
          <6>1. ~ Evaluated(b) BY <1>0, <3>2, <4>3, TurnOver
          <6>2. QED BY <6>1 DEF Waited, SinceType
        <5>4. duration[b] - elapsed[b] + since > Earliest[4] - Earliest[1]
          BY <2>1, <2>2, <3>1, <5>2, <5>3 DEF NoticedInv, Lone
        <5>5. since < Interval /\ since \in Nat /\ Interval \in Nat /\ Earliest[4] \in Nat
              /\ Earliest[1] \in Nat /\ Earliest[4] - Earliest[1] >= Interval
          BY EarliestGrow DEF SinceType
        <5>6. elapsed[b] \in Nat /\ duration[b] \in Nat BY <1>0, <3>2 DEF TypeOK
        <5>7. FALSE BY <5>1, <5>4, <5>5, <5>6
        <5>8. QED BY <5>7
      <4>4. QED BY <4>1, <4>2, <4>3 DEF Ends
    <3>5. QED BY <3>3, <3>4
  <2>5. QED BY <2>1, <2>2, <2>3, <2>4 DEF LoadingInv
<1>3. QED BY <1>1, <1>2, StepKinds DEF Generates, Generate

\* Who ends unnoticed is cut short before the next run.
LEMMA LostInvKept ==
  ASSUME IInv, LoopInv, OneOfClass, SinceType, StageType, StageInv, NoticedType, UnnoticedInv,
         LostInv, [FoodNext]_foodVars
  PROVE  LostInv'
<1>0. TypeOK /\ Fixed BY StepKinds DEF IInv
<1>a. Listed' = Listed /\ class' = class /\ Listed \subseteq Scenario
  BY <1>0, ListedAreScenarios DEF Fixed, Listed
<1> SUFFICES ASSUME Lone', NEW t \in Listed, phase'[t] = "COMPLETED", class[t] = Batch, t \notin noticed'
             PROVE  elapsed'[t] < Interval
  BY <1>a DEF LostInv, IsOf
<1>1. CASE Rests \/ Generates
  <2>1. phase' = phase /\ elapsed' = elapsed /\ overlapped' = overlapped
    BY <1>1 DEF Rests, equipment, Generates, Generate, RunGenerators, SkipGenerators
  <2>2. t \notin noticed
    BY <1>1 DEF Rests, equipment, line, issued, Generates, Generate, RunGenerators, SkipGenerators, MixerGenerates
  <2>3. Lone BY <2>1 DEF Lone, Apart
  <2>4. QED BY <2>1, <2>2, <2>3 DEF LostInv, IsOf
<1>2. ASSUME NEW s \in Listed, Begins(s) \/ Continues(s) \/ Ends(s)
      PROVE  elapsed'[t] < Interval
  <2>1. noticed' = noticed BY <1>2, SeenLater
  <2>2. Lone BY <1>0, <1>2, ApartKept DEF Lone
  <2>3. CASE t # s \/ ~ Ends(s)
    <3>1. phase[t] = "COMPLETED" /\ elapsed'[t] = elapsed[t]
      BY <1>0, <1>a, <1>2, <2>3 DEF Begins, Continues, Ends, TypeOK
    <3>2. QED BY <2>1, <2>2, <3>1 DEF LostInv, IsOf
  <2>4. CASE t = s /\ Ends(s)
    <3>1. s \in ActiveOf(Batch) \ noticed
      BY <2>1, <2>4 DEF Ends, ActiveOf, InPhase, IsOf
    <3>2. stage[s] = 1 /\ elapsed[s] <= Waited(s) BY <2>2, <3>1 DEF UnnoticedInv
    <3>3. ~ (elapsed[s] + 1 >= duration[s]) BY <1>0, <3>1, <3>2, OverInLastStage
    <3>4. ~ CipIsBack(s) BY <2>4 DEF CipIsBack, IsOf, Batch
    <3>5. pc = "preempt" /\ elapsed' = elapsed BY <2>4, <3>3, <3>4 DEF Ends
    <3>6. Waited(s) = since BY <3>5 DEF Waited, Evaluated, SinceType
    <3>7. elapsed[s] \in Nat BY <1>0, <1>a DEF TypeOK
    <3>8. QED BY <2>4, <3>2, <3>5, <3>6, <3>7, FoodAssumption DEF SinceType
  <2>5. QED BY <2>3, <2>4
<1>3. QED BY <1>1, <1>2, StepKinds

-----------------------------------------------------------------------------
(***************************************************************************)
(* Batch IDs.  Every batch that the mixer notices gets one of its own.     *)
(***************************************************************************)
IdType == sequence \in Nat /\ resetDay \in Nat

IdInv ==
  /\ resetDay <= Today
  /\ \A i \in ids : /\ i[1] \in Nat /\ i[2] \in Nat
                    /\ i[1] <= resetDay /\ (i[1] = resetDay => i[2] <= sequence)
  /\ IsFiniteSet(ids)
  /\ Apart(Batch) => Cardinality(ids) = Cardinality(noticed)

\* Days are counted, and never fewer as time goes on.
LEMMA DaysPass ==
  ASSUME TypeOK, now' >= now, now' \in Nat
  PROVE  Today \in Nat /\ Today' \in Nat /\ Today <= Today'
<1> DEFINE Past == {t \in Midnights : t <= now}
           Later == {t \in Midnights : t <= now'}
<1>1. IsFiniteSet(Midnights) /\ \A t \in Midnights : t \in Int
  <2>1. 1 \in Int /\ Horizon \in Int BY EngineAssumption
  <2>2. IsFiniteSet(1..Horizon) BY <2>1, FS_Interval
  <2>3. Midnights \subseteq 1..Horizon BY FoodAssumption
  <2>4. IsFiniteSet(Midnights) BY <2>2, <2>3, FS_Subset
  <2>5. QED BY <2>3, <2>4
<1>2. Past \subseteq Later
  <2>1. now \in Int /\ now' \in Int BY EngineAssumption DEF TypeOK
  <2>2. \A t \in Midnights : t <= now => t <= now' BY <1>1, <2>1
  <2>3. QED BY <2>2
<1>3. IsFiniteSet(Past) /\ IsFiniteSet(Later) /\ Cardinality(Past) <= Cardinality(Later)
  <2>1. IsFiniteSet(Later) BY <1>1, FS_Subset
  <2>2. QED BY <1>2, <2>1, FS_Subset
<1>4. Today = Cardinality(Past) /\ Today' = Cardinality(Later) BY DEF Today
<1>5. QED BY <1>3, <1>4, FS_CardinalityType

\* A run of the generator stamps an ID that no batch has had.
LEMMA IdStamped ==
  ASSUME TypeOK, IdType, IdInv, Generates, RunGenerators
  PROVE  /\ IdType' /\ Today' = Today /\ resetDay' = Today
         /\ \A i \in ids' : /\ i[1] \in Nat /\ i[2] \in Nat
                            /\ i[1] <= resetDay' /\ (i[1] = resetDay' => i[2] <= sequence')
         /\ ~ NewBatch => ids' = ids
         /\ NewBatch => ids' = ids \union {<<Today, sequence'>>} /\ <<Today, sequence'>> \notin ids
<1>1. /\ now' = now /\ sequence' = NextSequence /\ resetDay' = Today
      /\ ids' = IF NewBatch THEN ids \union {<<Today, sequence'>>} ELSE ids
  BY DEF Generates, RunGenerators, MixerGenerates
<1>2. now' >= now /\ now' \in Nat BY <1>1, EngineAssumption DEF TypeOK
<1>3. Today \in Nat BY <1>2, DaysPass
<1>4. Today' = Today BY <1>1 DEF Today
<1>5. sequence' \in Nat BY <1>1 DEF NextSequence, IdType
<1>6. \A i \in ids : /\ i[1] \in Nat /\ i[2] \in Nat /\ i[1] <= Today
                     /\ i[1] = Today => i[2] <= sequence /\ resetDay = Today
  BY <1>3 DEF IdInv, IdType
<1>7. resetDay = Today => sequence' = IF NewBatch THEN sequence + 1 ELSE sequence
  BY <1>1, <1>3 DEF NextSequence
<1>8. ASSUME NEW i \in ids PROVE i[1] = Today => i[2] <= sequence' /\ (NewBatch => i[2] < sequence')
  BY <1>6, <1>7, <1>5 DEF IdType
<1>9. NewBatch => <<Today, sequence'>> \notin ids
  <2> SUFFICES ASSUME NewBatch, <<Today, sequence'>> \in ids PROVE FALSE OBVIOUS
  <2> DEFINE i == <<Today, sequence'>>
  <2>1. i \in ids /\ i[1] = Today /\ i[2] = sequence' OBVIOUS
  <2>2. i[2] < sequence' BY <1>8, <2>1
  <2>3. QED BY <1>5, <2>1, <2>2
<1>10. \A i \in ids' : /\ i[1] \in Nat /\ i[2] \in Nat
                       /\ i[1] <= resetDay' /\ (i[1] = resetDay' => i[2] <= sequence')
  <2>1. ASSUME NEW i \in ids
        PROVE  /\ i[1] \in Nat /\ i[2] \in Nat
               /\ i[1] <= resetDay' /\ (i[1] = resetDay' => i[2] <= sequence')
    BY <1>1, <1>6, <1>8
  <2>2. ASSUME NEW i, i = <<Today, sequence'>>
        PROVE  /\ i[1] \in Nat /\ i[2] \in Nat
               /\ i[1] <= resetDay' /\ (i[1] = resetDay' => i[2] <= sequence')
    BY <1>1, <1>3, <1>5, <2>2
  <2>3. \A i \in ids' : i \in ids \/ i = <<Today, sequence'>> BY <1>1
  <2>4. QED BY <2>1, <2>2, <2>3
<1>11. QED BY <1>1, <1>3, <1>4, <1>5, <1>9, <1>10 DEF IdType

\* The batches that have been noticed are finite in number.
LEMMA NoticedFinite ==
  ASSUME TypeOK, NoticedType
  PROVE  IsFiniteSet(noticed)
<1>1. IsFiniteSet(1..N)
  <2>1. 1 \in Int /\ N \in Int BY EngineAssumption
  <2>2. QED BY <2>1, FS_Interval
<1>2. noticed \subseteq 1..N BY ListedAreScenarios DEF NoticedType, Scenario
<1>3. QED BY <1>1, <1>2, FS_Subset

\* Each batch that has been noticed has an ID of its own.
LEMMA IdInvKept ==
  ASSUME IInv, LoopInv, OneOfClass, SinceType, StageType, MixerInv, NoticedType, NoticedInv, IdType,
         IdInv, [FoodNext]_foodVars
  PROVE  IdType' /\ IdInv'
<1>0. TypeOK /\ Fixed BY StepKinds DEF IInv
<1>1. CASE Generates /\ RunGenerators
  <2>1. /\ IdType' /\ Today' = Today /\ resetDay' = Today
        /\ \A i \in ids' : /\ i[1] \in Nat /\ i[2] \in Nat
                           /\ i[1] <= resetDay' /\ (i[1] = resetDay' => i[2] <= sequence')
        /\ ~ NewBatch => ids' = ids
        /\ NewBatch => ids' = ids \union {<<Today, sequence'>>} /\ <<Today, sequence'>> \notin ids
    BY <1>0, <1>1, IdStamped
  <2>2. resetDay' <= Today'
    <3>1. resetDay' \in Nat BY <2>1 DEF IdType
    <3>2. QED BY <2>1, <3>1
  <2>3. IsFiniteSet(ids') BY <2>1, FS_AddElement DEF IdInv
  <2>4. ASSUME Apart(Batch)' PROVE Cardinality(ids') = Cardinality(noticed')
    <3>1. overlapped' = overlapped BY <1>1 DEF RunGenerators
    <3>2. Apart(Batch) BY <2>4, <3>1 DEF Apart
    <3>3. /\ \A b, c \in ActiveOf(Batch) : b = c
          /\ NewBatch => ActiveOf(Batch) # {} /\ ActiveOf(Batch) \intersect noticed = {}
          /\ noticed' = IF NewBatch THEN noticed \union ActiveOf(Batch) ELSE noticed
      BY <1>1, <3>2, RunNotices
    <3>4. Cardinality(ids) = Cardinality(noticed) /\ IsFiniteSet(ids) BY <3>2 DEF IdInv
    <3>5. CASE ~ NewBatch BY <2>1, <3>3, <3>4, <3>5
    <3>6. CASE NewBatch
      <4>1. PICK b \in ActiveOf(Batch) : TRUE BY <3>3, <3>6
      <4>2. noticed' = noticed \union {b} /\ b \notin noticed BY <3>3, <3>6, <4>1
      <4>3. Cardinality(noticed') = Cardinality(noticed) + 1
        BY <1>0, <4>2, NoticedFinite, FS_AddElement
      <4>4. Cardinality(ids') = Cardinality(ids) + 1
        BY <2>1, <3>4, <3>6, FS_AddElement
      <4>5. QED BY <3>4, <4>3, <4>4
    <3>7. QED BY <3>5, <3>6
  <2>5. QED BY <2>1, <2>2, <2>3, <2>4 DEF IdInv
<1>2. ASSUME UNCHANGED <<sequence, resetDay, ids, noticed>>, now' >= now, Apart(Batch)' => Apart(Batch)
      PROVE  IdType' /\ IdInv'
  <2>1. now' \in Nat
    <3>1. CASE Generates BY <1>0, <3>1, EngineAssumption DEF Generates, TypeOK
    <3>2. TypeOK' BY EngineInvKept DEF IInv
    <3>3. QED BY <3>2, EngineAssumption DEF TypeOK
  <2>2. Today \in Nat /\ Today' \in Nat /\ Today <= Today' BY <1>0, <1>2, <2>1, DaysPass
  <2>3. resetDay' <= Today' BY <1>2, <2>2 DEF IdInv, IdType
  <2>4. QED BY <1>2, <2>3 DEF IdInv, IdType
<1>3. CASE Rests \/ (Generates /\ SkipGenerators)
  <2>1. UNCHANGED <<sequence, resetDay, ids, noticed, overlapped>>
    BY <1>3 DEF Rests, equipment, line, issued, SkipGenerators
  <2>2. now' >= now
    <3>1. now \in Int BY <1>0, EngineAssumption DEF TypeOK
    <3>2. QED BY <1>3, <3>1 DEF Rests, Generates
  <2>3. QED BY <1>2, <2>1, <2>2 DEF Apart
<1>4. ASSUME NEW s \in Listed, Begins(s) \/ Continues(s) \/ Ends(s)
      PROVE  IdType' /\ IdInv'
  <2>1. UNCHANGED <<seen, sequence, resetDay, ids, noticed>> BY <1>4, SeenLater
  <2>2. now' >= now
    <3>1. now \in Int BY <1>0, EngineAssumption DEF TypeOK
    <3>2. QED BY <1>4, <3>1 DEF Begins, Continues, Ends
  <2>3. Apart(Batch)' => Apart(Batch) BY <1>0, <1>4, ApartKept
  <2>4. QED BY <1>2, <2>1, <2>2, <2>3
<1>5. QED BY <1>1, <1>3, <1>4, StepKinds DEF Generates, Generate

-----------------------------------------------------------------------------
(***************************************************************************)
(* The cold room.  The lock that a failure sets is the offset of the       *)
(* active failure, so the room follows the thermostat once it is repaired. *)
(***************************************************************************)
RoomType == room \in Nat

RoomInv ==
  Apart(Failure) =>
    /\ ActiveOf(Failure) # {} => ~ compressor
    /\ pc = "idle" /\ since = 0 /\ room > High + 2 /\ ~ compressor =>
         Defrosting(defrost) \/ ActiveOf(Failure) # {}

\* What the hooks do to the cold room: a failure that begins stops the
\* compressor, and nothing else touches it.
LEMMA RoomLeft ==
  ASSUME NEW s \in Listed, Begins(s) \/ Continues(s) \/ Ends(s)
  PROVE  /\ room' = room /\ defrost' = defrost
         /\ \/ compressor' = compressor /\ ~ (Begins(s) /\ class[s] = Failure)
            \/ compressor' = FALSE /\ class[s] = Failure
<1>1. room' = room /\ defrost' = defrost
  BY DEF Begins, Continues, Ends, OnActivate, OnTick, OnComplete, coldRoom
<1>2. CASE Begins(s)
  BY <1>2 DEF Begins, OnActivate, BeginOverride, OpenDoor, LockCompressor, BeginDrift, BeginSealFailure,
     BeginExcursion, IsOf, Failure
<1>3. CASE Continues(s) \/ Ends(s)
  <2>1. compressor' = compressor BY <1>3 DEF Continues, Ends, OnTick, OnComplete, coldRoom
  <2>2. ~ Begins(s) BY <1>3 DEF Begins, Admitted, Continues, Ends
  <2>3. QED BY <1>1, <2>1, <2>2
<1>4. QED BY <1>1, <1>2, <1>3

\* A run of the chiller: a locked compressor stands, the room stays above
\* freezing, and a compressor that is neither locked nor defrosting stands in
\* a room only that one tick of heat has brought above the thresholds.
LEMMA RoomAfterRun ==
  ASSUME RoomType, RunGenerators
  PROVE  /\ RoomType'
         /\ knob["lock"] # {} => ~ compressor'
         /\ ~ compressor' /\ knob["lock"] = {} /\ ~ Defrosting(defrost') => room' <= High + 2
<1> USE FoodAssumption DEF RoomType
<1>1. ChillerGenerates BY DEF RunGenerators
<1>2. Low \in Nat /\ High \in Nat /\ Low >= 1 /\ Low <= High /\ RoomMax \in Nat /\ room \in Nat
  OBVIOUS
<1>3. compressor' <=> ~ Defrosting(defrost') /\ knob["lock"] = {} /\ BangBang
  BY <1>1 DEF ChillerGenerates
<1>4. \/ compressor' /\ room' = room - 1
      \/ ~ compressor' /\ room + Heat(defrost') <= RoomMax /\ room' = room + Heat(defrost')
      \/ ~ compressor' /\ room + Heat(defrost') > RoomMax /\ room' = RoomMax
  BY <1>1 DEF ChillerGenerates
<1>5. Heat(defrost') \in 1..3 /\ (~ Defrosting(defrost') => Heat(defrost') \in 1..2)
  BY DEF Heat
<1>6. BangBang => room >= 1 BY <1>2 DEF BangBang
<1>7. ~ BangBang => room <= High BY <1>2 DEF BangBang
<1>8. RoomType' BY <1>2, <1>3, <1>4, <1>5, <1>6
<1>9. ASSUME ~ compressor', knob["lock"] = {}, ~ Defrosting(defrost') PROVE room' <= High + 2
  <2>1. room <= High BY <1>3, <1>7, <1>9
  <2>2. Heat(defrost') \in 1..2 BY <1>5, <1>9
  <2>3. QED BY <1>2, <1>4, <1>9, <2>1, <2>2
<1>10. QED BY <1>3, <1>8, <1>9

\* The compressor stands under a failure, and otherwise the room is kept.
LEMMA RoomInvKept ==
  ASSUME IInv, LoopInv, OneOfClass, SinceType, KnobInv, RoomType, RoomInv, [FoodNext]_foodVars
  PROVE  RoomType' /\ RoomInv'
<1>0. TypeOK /\ Fixed BY StepKinds DEF IInv
<1>1. CASE Rests
  <2>1. UNCHANGED <<listed, class, phase, overlapped, room, compressor, defrost, since>>
    BY <1>0, <1>1 DEF Rests, equipment, coldRoom, Fixed
  <2>2. pc' = "idle" => pc = "idle" BY <1>1 DEF Rests, InTurn
  <2>3. QED BY <2>1, <2>2 DEF RoomType, RoomInv, ActiveOf, InPhase, Listed, IsOf, Apart, Defrosting
<1>2. CASE Generates
  <2>1. UNCHANGED <<listed, class, phase, overlapped>>
    BY <1>0, <1>2 DEF Generates, Generate, RunGenerators, SkipGenerators, Fixed
  <2>2. ActiveOf(Failure)' = ActiveOf(Failure) /\ (Apart(Failure)' <=> Apart(Failure))
    BY <2>1 DEF ActiveOf, InPhase, Listed, IsOf, Apart
  <2>3. CASE RunGenerators
    <3>1. Apart(Failure) => knob["lock"] = ActiveOf(Failure)
      <4>1. Failure \in DOMAIN Knob /\ Knob[Failure] = "lock" BY DEF Knob, Failure
      <4>2. QED BY <4>1 DEF KnobInv
    <3>2. High \in Nat BY FoodAssumption
    <3>3. /\ RoomType'
          /\ knob["lock"] # {} => ~ compressor'
          /\ ~ compressor' /\ knob["lock"] = {} /\ ~ Defrosting(defrost') => room' <= High + 2
      BY <2>3, RoomAfterRun
    <3>4. ~ (room' <= High + 2 /\ room' > High + 2) BY <3>2, <3>3 DEF RoomType
    <3>5. Defrosting(defrost)' <=> Defrosting(defrost') BY DEF Defrosting
    <3>6. QED BY <2>2, <3>1, <3>3, <3>4, <3>5 DEF RoomInv
  <2>4. CASE SkipGenerators
    <3>1. UNCHANGED <<room, compressor, defrost>> /\ since' = since + 1
      BY <2>4 DEF SkipGenerators, coldRoom
    <3>2. since' # 0 BY <3>1 DEF SinceType
    <3>3. QED BY <2>2, <3>1, <3>2 DEF RoomType, RoomInv
  <2>5. QED BY <1>2, <2>3, <2>4 DEF Generates, Generate
<1>3. ASSUME NEW s \in Listed, Begins(s) \/ Continues(s) \/ Ends(s)
      PROVE  RoomType' /\ RoomInv'
  <2>1. /\ room' = room
        /\ \/ compressor' = compressor /\ ~ (Begins(s) /\ class[s] = Failure)
           \/ compressor' = FALSE /\ class[s] = Failure
    BY <1>3, RoomLeft
  <2>2. pc' # "idle" BY <1>3 DEF Begins, Continues, Ends, InTurn
  <2>3. ASSUME Apart(Failure)', ActiveOf(Failure)' # {} PROVE ~ compressor'
    <3>1. Apart(Failure) BY <1>0, <1>3, <2>3, ApartKept
    <3>2. CASE compressor' = FALSE BY <3>2
    <3>3. CASE compressor' = compressor /\ ~ (Begins(s) /\ class[s] = Failure)
      <4>1. ActiveOf(Failure)' \subseteq ActiveOf(Failure)
        <5>1. CASE Begins(s)
          <6>1. ActiveOf(Failure)' = ActiveOf(Failure) \ {s}
            BY <1>0, <3>3, <5>1, ActiveAfter DEF Begins
          <6>2. QED BY <6>1
        <5>2. CASE Continues(s) \/ Ends(s)
          BY <1>0, <5>2, ActiveAfter DEF Continues, Ends
        <5>3. QED BY <1>3, <5>1, <5>2
      <4>2. ActiveOf(Failure) # {} BY <2>3, <4>1
      <4>3. QED BY <3>1, <3>3, <4>2 DEF RoomInv
    <3>4. QED BY <2>1, <3>2, <3>3
  <2>4. QED BY <2>1, <2>2, <2>3 DEF RoomType, RoomInv
<1>4. QED BY <1>1, <1>2, <1>3, StepKinds

-----------------------------------------------------------------------------
(***************************************************************************)
(* The invariant of the line, and what follows from it.                    *)
(***************************************************************************)
FoodInv ==
  /\ LoopInv /\ ProgressInv
  /\ KnobType /\ StageType /\ SinceType /\ NoticedType /\ IdType /\ RoomType
  /\ OneOfClass /\ KnobInv /\ ZoneInv /\ RoomInv
  /\ MixerInv /\ StageInv /\ RinseInv
  /\ NoticedInv /\ UnnoticedInv /\ LoadingInv /\ LostInv /\ IdInv

\* No scenario has begun, nothing is overridden, the mixer is in Off.
LEMMA FoodInvAtFirst ==
  ASSUME FoodInit
  PROVE  FoodInv
<1> USE EngineAssumption, FoodAssumption
<1>1. /\ phase = [s \in Scenario |-> "PENDING"] /\ elapsed = [s \in Scenario |-> 0]
      /\ pc = "idle" /\ cursor = 1 /\ skip = {} /\ victims = {} /\ now = 0
      /\ mixer = "Off" /\ stage = [s \in Scenario |-> 1] /\ seen = "Off" /\ cip = "Idle"
      /\ sequence = 0 /\ resetDay = 0 /\ ids = {} /\ noticed = {} /\ since = Interval - 1
      /\ knob = [k \in Knobs |-> {}] /\ saved = [s \in Scenario |-> {}]
      /\ compressor = TRUE /\ room = (Low + High) \div 2
      /\ \A s \in Scenario : duration[s] \in Durations[class[s]]
  BY DEF FoodInit, Init
<1>2. \A c : ActiveOf(c) = {}
  <2>1. Listed \subseteq Scenario
    <3>1. TypeOK BY InitType DEF FoodInit
    <3>2. QED BY <3>1, ListedAreScenarios
  <2>2. QED BY <1>1, <2>1 DEF ActiveOf, InPhase
<1>3. ProgressInv BY <1>1 DEF ProgressInv
<1>4. LoopInv BY <1>1 DEF LoopInv, VictimsDue
<1>5. KnobType BY <1>1 DEF KnobType
<1>6. StageType
  <2>1. 1 \in 1..4 OBVIOUS
  <2>2. QED BY <1>1, <2>1 DEF StageType
<1>7. IdType /\ RoomType /\ SinceType /\ NoticedType
  BY <1>1 DEF IdType, RoomType, SinceType, NoticedType
<1>8. /\ OneOfClass /\ ZoneInv /\ StageInv /\ RinseInv
      /\ NoticedInv /\ UnnoticedInv
  BY <1>2 DEF OneOfClass, ZoneInv, StageInv, RinseInv, NoticedInv, UnnoticedInv
<1>9. KnobInv BY <1>1, <1>2, KnobsDiffer DEF KnobInv
<1>10. MixerInv /\ LoadingInv BY <1>1, <1>2 DEF MixerInv, LoadingInv
<1>11. IdInv
  <2>1. Today \in Nat
    <3>1. TypeOK BY InitType DEF FoodInit
    <3>2. IsFiniteSet(Midnights)
      <4>1. 1 \in Int /\ Horizon \in Int OBVIOUS
      <4>2. IsFiniteSet(1..Horizon) BY <4>1, FS_Interval
      <4>3. QED BY <4>2, FS_Subset
    <3>3. IsFiniteSet({t \in Midnights : t <= now}) BY <3>2, FS_Subset
    <3>4. QED BY <3>3, FS_CardinalityType DEF Today
  <2>2. resetDay <= Today BY <1>1, <2>1
  <2>3. IsFiniteSet(ids) /\ Cardinality(ids) = 0 BY <1>1, FS_EmptySet
  <2>4. QED BY <1>1, <2>2, <2>3 DEF IdInv
<1>12. RoomInv BY <1>1, <1>2 DEF RoomInv
<1>13. LostInv
  <2>1. Listed \subseteq Scenario
    <3>1. TypeOK BY InitType DEF FoodInit
    <3>2. QED BY <3>1, ListedAreScenarios
  <2>2. QED BY <1>1, <2>1 DEF LostInv
<1>14. QED BY <1>3, <1>4, <1>5, <1>6, <1>7, <1>8, <1>9, <1>10, <1>11, <1>12, <1>13 DEF FoodInv

\* The invariant is inductive, beside that of the engine.
LEMMA FoodInductive == FoodSpec => [](IInv /\ FoodInv)
<1>1. FoodInit => IInv /\ FoodInv BY InitialIInv, FoodInvAtFirst DEF FoodInit
<1>2. ASSUME IInv, FoodInv, [FoodNext]_foodVars
      PROVE  IInv' /\ FoodInv'
  <2>1. IInv' BY <1>2, EngineInvKept
  <2>2. LoopInv' BY <1>2, LoopInvKept DEF FoodInv
  <2>3. OneOfClass' BY <1>2, OneOfClassKept DEF FoodInv
  <2>4. KnobType' /\ KnobInv' BY <1>2, KnobInvKept DEF FoodInv
  <2>5. ZoneInv' BY <1>2, ZoneInvKept DEF FoodInv
  <2>6. StageType' /\ StageInv' /\ SinceType' /\ RinseInv'
    BY <1>2, StageTypeKept, StageInvKept, SinceKept, RinseInvKept DEF FoodInv
  <2>7. MixerInv' BY <1>2, <2>1, MixerInvKept DEF FoodInv
  <2>8. NoticedType' /\ NoticedInv' /\ UnnoticedInv' /\ LoadingInv' /\ LostInv'
    BY <1>2, <2>1, NoticedTypeKept, NoticedInvKept, UnnoticedInvKept, LoadingInvKept, LostInvKept DEF FoodInv
  <2>9. IdType' /\ IdInv' BY <1>2, IdInvKept DEF FoodInv
  <2>10. RoomType' /\ RoomInv' BY <1>2, RoomInvKept DEF FoodInv
  <2>11. ProgressInv' BY <1>2, ProgressKeptHere DEF FoodInv
  <2>12. QED BY <2>1, <2>2, <2>3, <2>4, <2>5, <2>6, <2>7, <2>8, <2>9, <2>10, <2>11 DEF FoodInv
<1>3. QED BY <1>1, <1>2, PTL DEF FoodSpec

\* Between two ticks the mixer is where the running batch or CIP cycle has
\* put it, in Off when none runs, and the skid runs under a CIP cycle only.
THEOREM MixerPlanHolds == FoodSpec => []MixerFollowsPlan
<1>1. FoodInv => MixerFollowsPlan
  BY DEF FoodInv, MixerInv, MixerFollowsPlan, Batch, Cip
<1>2. QED BY <1>1, FoodInductive, PTL

\* Every batch that the mixer notices has an ID of its own, and it notices all
\* but those cut short, or still able to be, before its next run, whatever was
\* preempted and however days begin.
THEOREM BatchIdsHold == FoodSpec => []OneIdPerBatch
<1>1. IInv /\ FoodInv => OneIdPerBatch
  <2> SUFFICES ASSUME IInv, FoodInv, BetweenTicks, Apart(Batch), Apart(Cip)
               PROVE  /\ Cardinality(ids) = Cardinality(noticed)
                      /\ \A s \in Listed : phase[s] # "PENDING" /\ IsOf(s, Batch) /\ s \notin noticed
                                          => elapsed[s] < Interval
    BY DEF OneIdPerBatch, Batch, Cip
  <2>1. Cardinality(ids) = Cardinality(noticed) BY DEF FoodInv, IdInv
  <2>2. ASSUME NEW s \in Listed, phase[s] # "PENDING", IsOf(s, Batch), s \notin noticed
        PROVE  elapsed[s] < Interval
    <3>0. Lone /\ s \in Scenario /\ TypeOK BY ListedAreScenarios DEF Lone, IInv
    <3>1. CASE phase[s] = "COMPLETED" BY <2>2, <3>0, <3>1 DEF FoodInv, LostInv
    <3>2. CASE phase[s] = "ACTIVE"
      <4>1. s \in ActiveOf(Batch) \ noticed BY <2>2, <3>2 DEF ActiveOf, InPhase
      <4>2. elapsed[s] <= Waited(s) BY <3>0, <4>1 DEF FoodInv, UnnoticedInv
      <4>3. Waited(s) = since BY DEF FoodInv, SinceType, Waited, Evaluated, BetweenTicks
      <4>4. elapsed[s] \in Nat BY <3>0 DEF TypeOK
      <4>5. QED BY <4>2, <4>3, <4>4, FoodAssumption DEF FoodInv, SinceType
    <3>3. QED BY <2>2, <3>0, <3>1, <3>2 DEF TypeOK
  <2>3. QED BY <2>1, <2>2
<1>2. QED BY <1>1, FoodInductive, PTL

\* A parameter is overridden exactly while a scenario of its class is active,
\* and a zone of the oven drifts as the running excursion says.
THEOREM OverridesHold == FoodSpec => []OverriddenWhileActive
<1>1. FoodInv => OverriddenWhileActive
  BY DEF FoodInv, KnobInv, ZoneInv, OverriddenWhileActive, BetweenTicks, Oven
<1>2. QED BY <1>1, FoodInductive, PTL

\* The compressor stands throughout a refrigeration failure, and no failure
\* leaves the room uncooled after the first run that follows its repair.
THEOREM ColdRoomHolds == FoodSpec => []ColdRoomFollows
<1>1. FoodInv => ColdRoomFollows
  BY DEF FoodInv, RoomInv, ColdRoomFollows, BetweenTicks, Failure
<1>2. QED BY <1>1, FoodInductive, PTL

=============================================================================
