-------------------------- MODULE OverridesProofs --------------------------
(***************************************************************************)
(* Theorems about PressOverrides, for every number of scenarios, every     *)
(* timeline, every overlap of overrides and every draw of the durations.   *)
(* The press module only adds effects to the engine's steps, so what is    *)
(* proved of ScenarioEngine holds here.                                    *)
(*                                                                         *)
(* The argument is that of a stack.  As long as nobody writes a parameter  *)
(* but who made the latest copy of it, the copies hold one another up: the *)
(* one at the bottom holds the configured value, and each of the others    *)
(* holds whatever the scenarios below it have added.                       *)
(***************************************************************************)
EXTENDS PressOverrides, ScenarioEngineProofs

\* A step of the press is a step of the engine, or leaves the engine alone.
LEMMA OverridesStepIsEngineStep == [OverridesNext]_allVars => [Next]_vars
<1> SUFFICES ASSUME [OverridesNext]_allVars PROVE [Next]_vars OBVIOUS
<1>1. CASE \E s \in Scenario : Scenarios(s)
  <2>1. PICK s \in Scenario : Scenarios(s) BY <1>1
  <2>2. Evaluate(s) BY <2>1 DEF Scenarios, Evaluate
  <2>3. QED BY <2>2 DEF Next, TickStep
<1>2. CASE Arbitrate \/ CutShort \/ EndPreemption \/ FinishTick
  BY <1>2 DEF CutShort, Next, TickStep
<1>3. CASE UNCHANGED allVars
  BY <1>3 DEF allVars
<1>4. QED BY <1>1, <1>2, <1>3 DEF OverridesNext

\* The overrides restrict the engine and add nothing to it.
THEOREM OverridesRunTheEngine == OverridesSpec => Spec
<1>1. OverridesInit => Init BY DEF OverridesInit
<1>2. QED BY <1>1, OverridesStepIsEngineStep, PTL DEF OverridesSpec, Spec

-----------------------------------------------------------------------------
(***************************************************************************)
(* The kinds of steps of a run.                                            *)
(***************************************************************************)
Fixed == UNCHANGED <<class, duration, listed>>

Rests == UNCHANGED <<phase, elapsed, overrides>>

Begins(s) ==
  /\ phase[s] = "PENDING" /\ phase' = [phase EXCEPT ![s] = "ACTIVE"]
  /\ elapsed' = [elapsed EXCEPT ![s] = 1]
  /\ OnActivate(s)

Continues(s) ==
  /\ phase[s] = "ACTIVE" /\ phase' = phase
  /\ elapsed[s] + 1 < duration[s]
  /\ elapsed' = [elapsed EXCEPT ![s] = @ + 1]
  /\ OnTick(s)

\* A scenario ends in its turn, or is cut short.
Ends(s) ==
  /\ phase[s] = "ACTIVE" /\ phase' = [phase EXCEPT ![s] = "COMPLETED"]
  /\ \A t \in Scenario : t # s => elapsed'[t] = elapsed[t]
  /\ \/ IsOf(s, "ShiftChange") /\ ApplyBias(s)
     \/ OnComplete(s)

\* There is no other kind of step.
LEMMA StepKinds ==
  ASSUME IInv, [OverridesNext]_allVars
  PROVE  Fixed /\ (Rests \/ \E s \in Scenario : Begins(s) \/ Continues(s) \/ Ends(s))
<1> USE DEF IInv, TypeOK
<1>1. ASSUME NEW s \in Scenario, Scenarios(s)
      PROVE  Fixed /\ (Rests \/ \E t \in Scenario : Begins(t) \/ Continues(t) \/ Ends(t))
  <2>1. Fixed
    BY <1>1 DEF Scenarios, PassOver, Activate, Continue, RunOut, Advance, Fixed, timeline
  <2>2. CASE PassOver(s) /\ UNCHANGED overrides
    BY <2>1, <2>2 DEF PassOver, Rests
  <2>3. CASE Activate(s) /\ OnActivate(s)
    <3>1. Begins(s) BY <2>3 DEF Activate, Begins
    <3>2. QED BY <2>1, <3>1
  <2>4. CASE Continue(s) /\ OnTick(s)
    <3>1. Continues(s) BY <2>4 DEF Continue, Continues
    <3>2. QED BY <2>1, <3>1
  <2>5. CASE RunOut(s) /\ ((IsOf(s, "ShiftChange") /\ ApplyBias(s)) \/ OnComplete(s))
    <3>1. Ends(s) BY <2>5 DEF RunOut, Ends
    <3>2. QED BY <2>1, <3>1
  <2>6. QED BY <1>1, <2>2, <2>3, <2>4, <2>5 DEF Scenarios
<1>2. CASE CutShort
  <2>1. PICK s \in First(victims) : OnComplete(s) BY <1>2 DEF CutShort
  <2>2. PICK v \in First(victims) : phase' = [phase EXCEPT ![v] = "COMPLETED"]
    BY <1>2 DEF CutShort, Preempt
  <2>3. s = v
    <3>1. s <= v /\ v <= s /\ s \in victims /\ v \in victims BY <2>1, <2>2 DEF First
    <3>2. s \in Nat /\ v \in Nat BY <3>1, EngineAssumption DEF Scenario
    <3>3. QED BY <3>1, <3>2
  <2>4. s \in victims /\ s \in Scenario BY <2>1 DEF First
  <2>5. phase[s] = "ACTIVE" BY <2>4 DEF VictimsInv, Running
  <2>6. elapsed' = elapsed /\ Fixed BY <1>2 DEF CutShort, Preempt, Fixed, timeline
  <2>7. Ends(s) BY <2>1, <2>2, <2>3, <2>5, <2>6 DEF Ends
  <2>8. QED BY <2>4, <2>6, <2>7
<1>3. CASE (Arbitrate \/ EndPreemption \/ FinishTick) /\ UNCHANGED overrides
  BY <1>3 DEF Arbitrate, EndPreemption, FinishTick, Fixed, Rests, timeline, overrides
<1>4. CASE UNCHANGED allVars
  BY <1>4 DEF allVars, vars, timeline, overrides, Fixed, Rests
<1>5. QED BY <1>1, <1>2, <1>3, <1>4 DEF OverridesNext

-----------------------------------------------------------------------------
(***************************************************************************)
(* Who may hold a copy of a parameter, and in what a scenario shows.  A    *)
(* splice holds its copies from the moment the reel runs low, that of the  *)
(* tension only for the length of the spike, and a changeover from the     *)
(* beginning of its startup waste.                                         *)
(***************************************************************************)
Entitled(s, p) ==
  /\ phase[s] = "ACTIVE"
  /\ p \in Overrides(class[s])
  /\ class[s] = "MaterialSplice" => elapsed[s] + 2 >= duration[s]
  /\ class[s] = "MaterialSplice" /\ p = "tension" => elapsed[s] + 2 = duration[s]
  /\ class[s] = "JobChangeover" => elapsed[s] + 1 >= duration[s]

ShownIn(s) ==
  IF class[s] = "InkExcursion" THEN {"waste", "ink", "drift"}
  ELSE IF class[s] = "DryerDrift" THEN {"waste"} ELSE {}

\* What is left in a parameter when nobody overrides it: the biases of shifts.
Biases == {s \in Scenario : phase[s] = "COMPLETED" /\ class[s] = "ShiftChange"}
Rest(p) == IF p = "waste" THEN Biases ELSE {}

\* A holder knows of its own copy, and is entitled to it.
Held(p) == \A s \in Holders(p) : s \in order[p][s] /\ Entitled(s, p)

\* Who shows in a parameter holds a copy of it.
Covers(p) == \A s \in Scenario : phase[s] = "ACTIVE" /\ p \in ShownIn(s) => s \in Holders(p)

\* Of two holders one came after the other.
Lined(p) == \A s, t \in Holders(p) : s # t => s \in order[p][t] \/ t \in order[p][s]

\* Whoever held a copy when t made its own holds it still; the copy at the
\* bottom has nothing but biases in it, and the others have whoever shows in
\* the parameter and was there before.
Stacked(p) ==
  \A t \in Holders(p) :
    /\ order[p][t] \subseteq Holders(p)
    /\ order[p][t] = {t} => saved[t][p] \subseteq Rest(p)
    /\ \A a \in order[p][t] \ {t} : p \in ShownIn(a) => a \in saved[t][p]

\* A parameter of which nobody holds a copy has nothing but biases in it, and
\* every parameter has in it who shows in it.
Settled(p) ==
  /\ Holders(p) = {} => param[p] \subseteq Rest(p)
  /\ \A s \in Scenario : phase[s] = "ACTIVE" /\ p \in ShownIn(s) => s \in param[p]

StackInv(p) ==
  /\ Held(p) /\ Covers(p) /\ Lined(p)
  /\ p \notin crossed => Stacked(p) /\ Settled(p)

(***************************************************************************)
(* What a step of scenario s does to a parameter.                          *)
(***************************************************************************)
SamePlace(s, p) == order'[p] = order[p] /\ saved'[s][p] = saved[s][p]

Saves(s, p) ==
  /\ s \notin Holders(p)
  /\ order'[p] = [order[p] EXCEPT ![s] = Holders(p) \union {s}]
  /\ saved'[s][p] = param[p]
  /\ p \in {"waste", "ink", "drift"} => param[p] \subseteq param'[p]

Restores(s, p) ==
  /\ order'[p] = [order[p] EXCEPT ![s] = {}]
  /\ param'[p] = saved[s][p]
  /\ Latest(s, p) \/ p \in crossed'

Resets(s, p) ==
  /\ SamePlace(s, p)
  /\ p \in {"waste", "ink", "drift"} => saved[s][p] \subseteq param'[p]
  /\ Latest(s, p) \/ p \in crossed'

Biased(s, p) ==
  /\ SamePlace(s, p)
  /\ p = "waste" /\ s \in Biases' /\ param'[p] = param[p] \union {s}

Leaves(s, p) == SamePlace(s, p) /\ param'[p] = param[p]

Effect(s, p) ==
  /\ Saves(s, p) \/ Restores(s, p) \/ Resets(s, p) \/ Biased(s, p) \/ Leaves(s, p)
  /\ order'[p][s] # {} => Entitled(s, p)'
  /\ phase'[s] = "ACTIVE" /\ p \in ShownIn(s) =>
       /\ order'[p][s] # {}
       /\ s \in param'[p] \/ (phase[s] = "ACTIVE" /\ param'[p] = param[p])

\* A scenario moves along, and makes copies for itself only.
Moves(s) ==
  /\ UNCHANGED <<class, duration, listed>>
  /\ \A t \in Scenario : t # s => phase'[t] = phase[t] /\ elapsed'[t] = elapsed[t]
  /\ phase[s] # "COMPLETED"
  /\ \A t \in Scenario : t # s => saved'[t] = saved[t]
  /\ crossed \subseteq crossed'

\* What others hold and show in does not depend on the scenario that moves.
LEMMA OthersStay ==
  ASSUME OverridesTypeOK, OverridesTypeOK', NEW s \in Scenario, NEW p \in Params,
         Moves(s), Effect(s, p)
  PROVE  /\ \A t \in Scenario : t # s => /\ order'[p][t] = order[p][t]
                                         /\ phase'[t] = phase[t]
                                         /\ Entitled(t, p)' = Entitled(t, p)
         /\ \A t \in Scenario : ShownIn(t)' = ShownIn(t)
         /\ \A t \in Scenario : t \in Holders(p)' <=> order'[p][t] # {}
         /\ Rest(p) \subseteq Rest(p)'
<1>1. \A t \in Scenario : t # s => order'[p][t] = order[p][t]
  BY DEF Effect, Saves, Restores, Resets, Biased, Leaves, SamePlace, OverridesTypeOK
<1>2. \A t \in Scenario : t # s => Entitled(t, p)' = Entitled(t, p)
  BY DEF Moves, Entitled
<1>3. \A t \in Scenario : ShownIn(t)' = ShownIn(t) BY DEF Moves, ShownIn
<1>4. Biases \subseteq Biases' BY DEF Moves, Biases
<1>5. \A t \in Scenario : t \in Holders(p)' <=> order'[p][t] # {} BY DEF Holders
<1>6. QED BY <1>1, <1>2, <1>3, <1>4, <1>5 DEF Rest, Moves

\* Holders are entitled to their copies, and who shows holds one.
LEMMA HoldersStay ==
  ASSUME OverridesTypeOK, OverridesTypeOK', NEW s \in Scenario, NEW p \in Params,
         Moves(s), Effect(s, p), Held(p), Covers(p), Lined(p)
  PROVE  Held(p)' /\ Covers(p)' /\ Lined(p)'
<1>1. /\ \A t \in Scenario : t # s => /\ order'[p][t] = order[p][t]
                                      /\ phase'[t] = phase[t]
                                      /\ Entitled(t, p)' = Entitled(t, p)
      /\ \A t \in Scenario : ShownIn(t)' = ShownIn(t)
      /\ \A t \in Scenario : t \in Holders(p)' <=> order'[p][t] # {}
  BY OthersStay
<1>2. \A t \in Scenario : t \in Holders(p) <=> order[p][t] # {} BY DEF Holders
<1>3. Holders(p) \subseteq Scenario /\ Holders(p)' \subseteq Scenario BY DEF Holders
<1>4. /\ order'[p][s] # {} => Entitled(s, p)'
      /\ phase'[s] = "ACTIVE" /\ p \in ShownIn(s) => order'[p][s] # {}
  BY DEF Effect
<1>5. \/ order'[p][s] = {}
      \/ order'[p][s] = Holders(p) \union {s}
      \/ order'[p][s] = order[p][s]
  BY DEF Effect, Saves, Restores, Resets, Biased, Leaves, SamePlace, OverridesTypeOK
<1>6. Held(p)'
  <2> SUFFICES ASSUME NEW t \in Holders(p)' PROVE t \in order'[p][t] /\ Entitled(t, p)'
    BY DEF Held
  <2>1. t \in Scenario /\ order'[p][t] # {} BY <1>1, <1>3
  <2>2. CASE t = s BY <1>2, <1>4, <1>5, <2>1, <2>2 DEF Held
  <2>3. CASE t # s
    <3>1. t \in Holders(p) BY <1>1, <1>2, <2>1, <2>3
    <3>2. t \in order[p][t] /\ Entitled(t, p) BY <3>1 DEF Held
    <3>3. QED BY <1>1, <2>1, <2>3, <3>2
  <2>4. QED BY <2>2, <2>3
<1>7. Covers(p)'
  <2> SUFFICES ASSUME NEW t \in Scenario, phase'[t] = "ACTIVE", p \in ShownIn(t)
               PROVE  order'[p][t] # {}
    BY <1>1 DEF Covers
  <2>1. CASE t = s BY <1>4, <2>1
  <2>2. CASE t # s BY <1>1, <1>2, <2>2 DEF Covers
  <2>3. QED BY <2>1, <2>2
<1>8. Lined(p)'
  <2> SUFFICES ASSUME NEW t \in Holders(p)', NEW u \in Holders(p)', t # u
               PROVE  t \in order'[p][u] \/ u \in order'[p][t]
    BY DEF Lined
  <2>1. t \in Scenario /\ u \in Scenario /\ order'[p][t] # {} /\ order'[p][u] # {} BY <1>1, <1>3
  <2>2. \A v \in {t, u} : v # s => v \in Holders(p) /\ order'[p][v] = order[p][v]
    BY <1>1, <1>2, <2>1
  <2>3. CASE t # s /\ u # s
    <3>1. t \in order[p][u] \/ u \in order[p][t] BY <2>2, <2>3 DEF Lined
    <3>2. QED BY <2>2, <2>3, <3>1
  <2>4. CASE (t = s \/ u = s) /\ order'[p][s] = Holders(p) \union {s}
    BY <2>2, <2>4
  <2>5. CASE (t = s \/ u = s) /\ order'[p][s] = order[p][s]
    <3>1. t \in Holders(p) /\ u \in Holders(p) BY <1>2, <2>1, <2>2, <2>5
    <3>2. t \in order[p][u] \/ u \in order[p][t] BY <3>1 DEF Lined
    <3>3. QED BY <2>2, <2>5, <3>2
  <2>6. QED BY <1>5, <2>1, <2>3, <2>4, <2>5
<1>9. QED BY <1>6, <1>7, <1>8

\* The latest holder has in its copy whoever else shows in the parameter.
LEMMA LatestHasAll ==
  ASSUME NEW p \in Params, Covers(p), Lined(p), Stacked(p), NEW s \in Scenario, Latest(s, p),
         NEW a \in Scenario, a # s, phase[a] = "ACTIVE", p \in ShownIn(a)
  PROVE  a \in saved[s][p]
<1>1. s \in Holders(p) /\ a \in Holders(p) BY DEF Latest, Covers
<1>2. s \notin order[p][a] BY <1>1 DEF Latest
<1>3. a \in order[p][s] BY <1>1, <1>2 DEF Lined
<1>4. QED BY <1>1, <1>3 DEF Stacked

\* The copies go on holding one another up.
LEMMA StackStays ==
  ASSUME OverridesTypeOK, OverridesTypeOK', NEW s \in Scenario, NEW p \in Params,
         Moves(s), Effect(s, p), StackInv(p), p \notin crossed'
  PROVE  Stacked(p)'
<1>0. Held(p) /\ Stacked(p) /\ Settled(p) BY DEF StackInv, Moves
<1>1. /\ \A t \in Scenario : t # s => order'[p][t] = order[p][t]
      /\ \A t \in Scenario : ShownIn(t)' = ShownIn(t)
      /\ \A t \in Scenario : t \in Holders(p)' <=> order'[p][t] # {}
      /\ Rest(p) \subseteq Rest(p)'
  BY OthersStay
<1>2. /\ \A t \in Scenario : t \in Holders(p) <=> order[p][t] # {}
      /\ Holders(p) \subseteq Scenario /\ Holders(p)' \subseteq Scenario
  BY DEF Holders
<1>3. ASSUME NEW t \in Scenario, t # s \/ SamePlace(s, p), t \in Holders(p)'
      PROVE  /\ t \in Holders(p) /\ order'[p][t] = order[p][t] /\ saved'[t][p] = saved[t][p]
             /\ order[p][t] \subseteq Holders(p)
             /\ order'[p][t] = {t} => saved'[t][p] \subseteq Rest(p)'
             /\ \A a \in order'[p][t] \ {t} : p \in ShownIn(a)' => a \in saved'[t][p]
  <2>1. order'[p][t] = order[p][t] /\ saved'[t][p] = saved[t][p]
    BY <1>1, <1>3 DEF SamePlace, Moves
  <2>2. t \in Holders(p) BY <1>1, <1>2, <1>3, <2>1
  <2>3. /\ order[p][t] \subseteq Holders(p)
        /\ order[p][t] = {t} => saved[t][p] \subseteq Rest(p)
        /\ \A a \in order[p][t] \ {t} : p \in ShownIn(a) => a \in saved[t][p]
    BY <1>0, <2>2 DEF Stacked
  <2>4. QED BY <1>1, <1>2, <2>1, <2>2, <2>3
<1>4. CASE SamePlace(s, p)
  <2>1. Holders(p)' = Holders(p) BY <1>1, <1>2, <1>4 DEF SamePlace
  <2>2. QED BY <1>2, <1>3, <1>4, <2>1 DEF Stacked
<1>5. CASE Saves(s, p)
  <2>1. order'[p][s] = Holders(p) \union {s} /\ saved'[s][p] = param[p] /\ s \notin Holders(p)
    BY <1>5 DEF Saves, OverridesTypeOK
  <2>2. Holders(p) \union {s} \subseteq Holders(p)' BY <1>1, <1>2, <2>1
  <2>3. ASSUME order'[p][s] = {s} PROVE saved'[s][p] \subseteq Rest(p)'
    <3>1. Holders(p) = {} BY <2>1, <2>3
    <3>2. QED BY <1>0, <1>1, <2>1, <3>1 DEF Settled
  <2>4. ASSUME NEW a \in order'[p][s] \ {s}, p \in ShownIn(a)' PROVE a \in saved'[s][p]
    <3>1. a \in Holders(p) /\ a \in Scenario /\ p \in ShownIn(a) BY <1>1, <1>2, <2>1, <2>4
    <3>2. phase[a] = "ACTIVE" BY <1>0, <3>1 DEF Held, Entitled
    <3>3. QED BY <1>0, <2>1, <3>1, <3>2 DEF Settled
  <2>5. ASSUME NEW t \in Holders(p)', t # s
        PROVE  /\ order'[p][t] \subseteq Holders(p)'
               /\ order'[p][t] = {t} => saved'[t][p] \subseteq Rest(p)'
               /\ \A a \in order'[p][t] \ {t} : p \in ShownIn(a)' => a \in saved'[t][p]
    BY <1>2, <1>3, <2>2, <2>5
  <2>6. QED BY <2>1, <2>2, <2>3, <2>4, <2>5 DEF Stacked
<1>6. CASE Restores(s, p)
  <2>1. order'[p][s] = {} /\ Latest(s, p) BY <1>6 DEF Restores, OverridesTypeOK
  <2>2. s \notin Holders(p)' BY <1>1, <2>1
  <2>3. ASSUME NEW t \in Holders(p)'
        PROVE  /\ order'[p][t] \subseteq Holders(p)'
               /\ order'[p][t] = {t} => saved'[t][p] \subseteq Rest(p)'
               /\ \A a \in order'[p][t] \ {t} : p \in ShownIn(a)' => a \in saved'[t][p]
    <3>1. t # s /\ t \in Scenario BY <1>2, <2>2, <2>3
    <3>2. t \in Holders(p) /\ order'[p][t] = order[p][t] /\ order[p][t] \subseteq Holders(p)
      BY <1>3, <2>3, <3>1
    <3>3. s \notin order[p][t] BY <2>1, <3>1, <3>2 DEF Latest
    <3>4. order'[p][t] \subseteq Holders(p)'
      <4> SUFFICES ASSUME NEW a \in order[p][t] PROVE a \in Holders(p)' BY <3>2
      <4>1. a \in Holders(p) /\ a # s /\ a \in Scenario BY <1>2, <3>2, <3>3
      <4>2. QED BY <1>1, <1>2, <4>1
    <3>5. QED BY <1>3, <2>3, <3>1, <3>4
  <2>4. QED BY <2>3 DEF Stacked
<1>7. QED BY <1>4, <1>5, <1>6 DEF Effect, Resets, Biased, Leaves

\* A parameter goes on showing who shows in it, and with the last copy the
\* configured value is back.
LEMMA ValuesStay ==
  ASSUME OverridesTypeOK, OverridesTypeOK', NEW s \in Scenario, NEW p \in Params,
         Moves(s), Effect(s, p), StackInv(p), p \notin crossed'
  PROVE  Settled(p)'
<1>0. Held(p) /\ Covers(p) /\ Lined(p) /\ Stacked(p) /\ Settled(p) BY DEF StackInv, Moves
<1>1. /\ \A t \in Scenario : t # s => order'[p][t] = order[p][t] /\ phase'[t] = phase[t]
      /\ \A t \in Scenario : ShownIn(t)' = ShownIn(t)
      /\ \A t \in Scenario : t \in Holders(p)' <=> order'[p][t] # {}
      /\ Rest(p) \subseteq Rest(p)'
  BY OthersStay
<1>2. /\ \A t \in Scenario : t \in Holders(p) <=> order[p][t] # {}
      /\ Holders(p) \subseteq Scenario
  BY DEF Holders
<1>3. ASSUME Holders(p)' = {} PROVE param'[p] \subseteq Rest(p)'
  <2>1. \A t \in Scenario : order'[p][t] = {} BY <1>1, <1>3
  <2>2. ~ Saves(s, p) BY <2>1 DEF Saves, OverridesTypeOK
  <2>3. CASE SamePlace(s, p)
    <3>1. Holders(p) = {} BY <1>2, <2>1, <2>3 DEF SamePlace
    <3>2. param[p] \subseteq Rest(p) BY <1>0, <3>1 DEF Settled
    <3>3. ~ Resets(s, p) BY <3>1 DEF Resets, Latest
    <3>4. CASE Biased(s, p)
      <4>1. s \in Rest(p)' BY <3>4 DEF Biased, Rest
      <4>2. QED BY <1>1, <3>2, <3>4, <4>1 DEF Biased
    <3>5. CASE Leaves(s, p) BY <1>1, <3>2, <3>5 DEF Leaves
    <3>6. CASE Restores(s, p)
      <4>1. Latest(s, p) BY <3>6 DEF Restores
      <4>2. QED BY <3>1, <4>1 DEF Latest
    <3>7. QED BY <2>2, <3>3, <3>4, <3>5, <3>6 DEF Effect
  <2>4. CASE Restores(s, p)
    <3>1. s \in Holders(p) BY <2>4 DEF Restores, Latest
    <3>2. Holders(p) = {s} BY <1>1, <1>2, <2>1, <3>1
    <3>3. order[p][s] = {s} BY <1>0, <3>1, <3>2 DEF Held, Stacked
    <3>4. saved[s][p] \subseteq Rest(p) BY <1>0, <3>1, <3>3 DEF Stacked
    <3>5. QED BY <1>1, <2>4, <3>4 DEF Restores
  <2>5. QED BY <2>2, <2>3, <2>4 DEF Effect, Resets, Biased, Leaves
<1>4. ASSUME NEW a \in Scenario, phase'[a] = "ACTIVE", p \in ShownIn(a) PROVE a \in param'[p]
  <2>1. CASE a = s
    <3>1. s \in param'[p] \/ (phase[s] = "ACTIVE" /\ param'[p] = param[p])
      BY <1>4, <2>1 DEF Effect
    <3>2. QED BY <1>0, <1>4, <2>1, <3>1 DEF Settled
  <2>2. CASE a # s
    <3>1. phase[a] = "ACTIVE" BY <1>1, <1>4, <2>2
    <3>2. a \in param[p] BY <1>0, <1>4, <3>1 DEF Settled
    <3>3. p \in {"waste", "ink", "drift"} BY <1>4 DEF ShownIn
    <3>4. Latest(s, p) => a \in saved[s][p] BY <1>0, <1>4, <2>2, <3>1, LatestHasAll
    <3>5. CASE Saves(s, p) BY <3>2, <3>3, <3>5 DEF Saves
    <3>6. CASE Restores(s, p) BY <3>4, <3>6 DEF Restores
    <3>7. CASE Resets(s, p) BY <3>3, <3>4, <3>7 DEF Resets
    <3>8. CASE Biased(s, p) BY <3>2, <3>8 DEF Biased
    <3>9. CASE Leaves(s, p) BY <3>2, <3>9 DEF Leaves
    <3>10. QED BY <3>5, <3>6, <3>7, <3>8, <3>9 DEF Effect
  <2>3. QED BY <2>1, <2>2
<1>5. QED BY <1>1, <1>3, <1>4 DEF Settled

\* So what a step does to a parameter keeps its stack of copies.
LEMMA StackKept ==
  ASSUME OverridesTypeOK, OverridesTypeOK', NEW s \in Scenario, NEW p \in Params,
         Moves(s), Effect(s, p), StackInv(p)
  PROVE  StackInv(p)'
<1>1. Held(p)' /\ Covers(p)' /\ Lined(p)' BY HoldersStay DEF StackInv
<1>2. p \notin crossed' => Stacked(p)' /\ Settled(p)' BY StackStays, ValuesStay
<1>3. QED BY <1>1, <1>2 DEF StackInv

-----------------------------------------------------------------------------
(***************************************************************************)
(* The effects of the callbacks, one parameter at a time.                  *)
(***************************************************************************)
Value == SUBSET (Scenario \union {Zero})

\* A copy is made of each parameter that is set, and of no other.
LEMMA SaveAndSetEffect ==
  ASSUME OverridesTypeOK, NEW s \in Scenario, NEW P \in SUBSET Params, NEW f, DOMAIN f = P,
         \A p \in P : f[p] \in Value, SaveAndSet(s, f)
  PROVE  /\ \A t \in Scenario : t # s => saved'[t] = saved[t]
         /\ crossed' = crossed /\ OverridesTypeOK'
         /\ \A p \in P : /\ saved'[s][p] = param[p] /\ param'[p] = f[p]
                         /\ order'[p] = [order[p] EXCEPT ![s] = Holders(p) \union {s}]
         /\ \A p \in Params \ P : SamePlace(s, p) /\ param'[p] = param[p]
<1>1. saved' = [saved EXCEPT ![s] = [p \in Params |-> IF p \in P THEN param[p] ELSE saved[s][p]]]
  BY DEF SaveAndSet, Keep
<1>2. [p \in Params |-> IF p \in P THEN param[p] ELSE saved[s][p]] \in [Params -> Value]
  BY DEF OverridesTypeOK, Value
<1>3. /\ \A t \in Scenario : t # s => saved'[t] = saved[t]
      /\ \A p \in Params : saved'[s][p] = IF p \in P THEN param[p] ELSE saved[s][p]
      /\ saved' \in [Scenario -> [Params -> Value]]
  BY <1>1, <1>2 DEF OverridesTypeOK, Value
<1>4. param' = [p \in Params |-> IF p \in P THEN f[p] ELSE param[p]]
  BY DEF SaveAndSet, Override
<1>5. param' \in [Params -> Value] BY <1>4 DEF OverridesTypeOK, Value
<1>6. order' = [p \in Params |-> IF p \in P THEN [order[p] EXCEPT ![s] = Holders(p) \union {s}]
                                 ELSE order[p]]
  BY DEF SaveAndSet, Keep
<1>7. order' \in [Params -> [Scenario -> SUBSET Scenario]]
  <2>1. \A p \in Params : [order[p] EXCEPT ![s] = Holders(p) \union {s}] \in [Scenario -> SUBSET Scenario]
    BY DEF OverridesTypeOK, Holders
  <2>2. QED BY <1>6, <2>1 DEF OverridesTypeOK
<1>8. crossed' = crossed BY DEF SaveAndSet
<1>9. OverridesTypeOK' BY <1>3, <1>5, <1>7, <1>8 DEF OverridesTypeOK, Value
<1>10. QED BY <1>3, <1>4, <1>6, <1>8, <1>9 DEF SamePlace

\* Setting a parameter again leaves the copies alone.
LEMMA ResetEffect ==
  ASSUME OverridesTypeOK, NEW s \in Scenario, NEW P \in SUBSET Params, NEW f, DOMAIN f = P,
         \A p \in P : f[p] \in Value, Reset(s, f)
  PROVE  /\ saved' = saved /\ crossed \subseteq crossed' /\ OverridesTypeOK'
         /\ \A p \in Params : SamePlace(s, p)
         /\ \A p \in P : param'[p] = f[p] /\ (Latest(s, p) \/ p \in crossed')
         /\ \A p \in Params \ P : param'[p] = param[p]
<1>1. saved' = saved /\ order' = order BY DEF Reset, copies
<1>2. param' = [p \in Params |-> IF p \in P THEN f[p] ELSE param[p]]
  BY DEF Reset, Override
<1>3. crossed' = crossed \union {p \in P : ~ Latest(s, p)} BY DEF Reset, Cross
<1>4. param' \in [Params -> Value] BY <1>2 DEF OverridesTypeOK, Value
<1>5. OverridesTypeOK' BY <1>1, <1>3, <1>4 DEF OverridesTypeOK, Value
<1>6. QED BY <1>1, <1>2, <1>3, <1>5 DEF SamePlace

\* Writing copies back gives them up.
LEMMA WriteBackEffect ==
  ASSUME OverridesTypeOK, NEW s \in Scenario, NEW P \in SUBSET Params, WriteBack(s, P)
  PROVE  /\ saved' = saved /\ crossed \subseteq crossed' /\ OverridesTypeOK'
         /\ \A p \in P : Restores(s, p) /\ order'[p][s] = {}
         /\ \A p \in Params \ P : Leaves(s, p)
<1>1. saved' = saved BY DEF WriteBack
<1>2. param' = [p \in Params |-> IF p \in P THEN saved[s][p] ELSE param[p]]
  BY DEF WriteBack, Override
<1>3. crossed' = crossed \union {p \in P : ~ Latest(s, p)} BY DEF WriteBack, Cross
<1>4. order' = [p \in Params |-> IF p \in P THEN [order[p] EXCEPT ![s] = {}] ELSE order[p]]
  BY DEF WriteBack
<1>5. param' \in [Params -> Value] BY <1>2 DEF OverridesTypeOK, Value
<1>6. order' \in [Params -> [Scenario -> SUBSET Scenario]] BY <1>4 DEF OverridesTypeOK
<1>7. OverridesTypeOK' BY <1>1, <1>3, <1>5, <1>6 DEF OverridesTypeOK, Value
<1>8. \A p \in P : order'[p] = [order[p] EXCEPT ![s] = {}] /\ order'[p][s] = {}
  BY <1>4 DEF OverridesTypeOK
<1>9. QED BY <1>1, <1>2, <1>3, <1>4, <1>7, <1>8 DEF Restores, Leaves, SamePlace

\* What each class overrides.
LEMMA OverriddenParams ==
  ASSUME NEW s
  PROVE  /\ class[s] \in {"DryerDrift", "JobChangeover"} => Overrides(class[s]) = {"waste"}
         /\ class[s] = "InkExcursion" => Overrides(class[s]) = {"waste", "drift", "ink"}
         /\ class[s] = "RegistrationDrift" => Overrides(class[s]) = {"waste", "reversion"}
         /\ class[s] = "MaterialSplice" => Overrides(class[s]) = {"waste", "tension", "reversion"}
         /\ class[s] = "WebBreak" => Overrides(class[s]) = {"tension"}
         /\ class[s] \in {"ShiftChange", "UnplannedStop"} => Overrides(class[s]) = {}
BY DEF Overrides

\* The activation of a scenario saves what it overrides from then on.
LEMMA BeginEffect ==
  ASSUME TypeOK, OverridesTypeOK, NEW s \in Scenario, Fixed, Begins(s),
         \A p \in Params : Held(p)
  PROVE  Moves(s) /\ OverridesTypeOK' /\ \A p \in Params : Effect(s, p)
<1>0. /\ phase[s] = "PENDING" /\ phase'[s] = "ACTIVE" /\ elapsed'[s] = 1
      /\ class'[s] = class[s] /\ duration'[s] = duration[s]
      /\ UNCHANGED <<class, duration, listed>>
      /\ \A t \in Scenario : t # s => phase'[t] = phase[t] /\ elapsed'[t] = elapsed[t]
  BY DEF Begins, TypeOK, Fixed
<1>1. \A p \in Params : s \notin Holders(p) /\ order[p][s] = {}
  <2>1. \A p \in Params : s \notin Holders(p) BY <1>0 DEF Held, Entitled
  <2>2. QED BY <2>1 DEF Holders
<1>2. ASSUME NEW P \in SUBSET Params, NEW f, DOMAIN f = P, SaveAndSet(s, f),
             \A p \in P : f[p] \in Value,
             \A p \in P \ {"tension", "reversion"} : param[p] \subseteq f[p],
             Overrides(class[s]) = P, ShownIn(s) \subseteq P, \A p \in ShownIn(s) : s \in f[p],
             class[s] \notin {"MaterialSplice", "JobChangeover"}
      PROVE  Moves(s) /\ OverridesTypeOK' /\ \A p \in Params : Effect(s, p)
  <2>1. /\ \A t \in Scenario : t # s => saved'[t] = saved[t]
        /\ crossed' = crossed /\ OverridesTypeOK'
        /\ \A p \in P : /\ saved'[s][p] = param[p] /\ param'[p] = f[p]
                        /\ order'[p] = [order[p] EXCEPT ![s] = Holders(p) \union {s}]
        /\ \A p \in Params \ P : SamePlace(s, p) /\ param'[p] = param[p]
    BY <1>2, SaveAndSetEffect
  <2>2. Moves(s) BY <1>0, <2>1 DEF Moves
  <2>3. ASSUME NEW p \in P PROVE Effect(s, p)
    <3>1. Saves(s, p) BY <1>1, <1>2, <2>1, <2>3 DEF Saves
    <3>2. Entitled(s, p)' BY <1>0, <1>2, <2>3 DEF Entitled
    <3>3. order'[p][s] # {}
      <4>1. order[p] \in [Scenario -> SUBSET Scenario] BY <2>3 DEF OverridesTypeOK
      <4>2. order'[p] = [order[p] EXCEPT ![s] = Holders(p) \union {s}] BY <2>1, <2>3
      <4>3. order'[p][s] = Holders(p) \union {s} BY <4>1, <4>2
      <4>4. QED BY <4>3
    <3>4. p \in ShownIn(s) => s \in param'[p] BY <1>2, <2>1, <2>3
    <3>5. QED BY <3>1, <3>2, <3>3, <3>4 DEF Effect
  <2>4. ASSUME NEW p \in Params \ P PROVE Effect(s, p)
    <3>1. Leaves(s, p) BY <2>1, <2>4 DEF Leaves
    <3>2. order'[p][s] = {} BY <1>1, <2>1, <2>4 DEF SamePlace
    <3>3. p \notin ShownIn(s) BY <1>2, <2>4
    <3>4. QED BY <3>1, <3>2, <3>3 DEF Effect
  <2>5. QED BY <2>1, <2>2, <2>3, <2>4
<1>3. CASE StartDrift(s)
  <2>1. class[s] = "DryerDrift" BY <1>3 DEF StartDrift, IsOf
  <2>2. Overrides(class[s]) = {"waste"} /\ ShownIn(s) = {"waste"}
    BY <2>1, OverriddenParams DEF ShownIn
  <2> DEFINE f == [waste |-> param["waste"] \union {s}]
  <2>3. /\ DOMAIN f = {"waste"} /\ {"waste"} \in SUBSET Params
        /\ \A p \in {"waste"} : f[p] \in Value /\ param[p] \subseteq f[p] /\ s \in f[p]
    BY DEF OverridesTypeOK, Value, Params
  <2>4. SaveAndSet(s, f) BY <1>3 DEF StartDrift
  <2> HIDE DEF f
  <2>5. QED BY <1>2, <2>1, <2>2, <2>3, <2>4
<1>4. CASE StartExcursion(s)
  <2>1. class[s] = "InkExcursion" BY <1>4 DEF StartExcursion, IsOf
  <2> DEFINE P == {"waste", "drift", "ink"}
  <2>2. Overrides(class[s]) = P /\ ShownIn(s) = P
    BY <2>1, OverriddenParams DEF ShownIn
  <2> DEFINE f == [p \in P |-> param[p] \union {s}]
  <2>3. /\ DOMAIN f = P /\ P \in SUBSET Params
        /\ \A p \in P : f[p] \in Value /\ param[p] \subseteq f[p] /\ s \in f[p]
    BY DEF OverridesTypeOK, Value, Params
  <2>4. SaveAndSet(s, f) BY <1>4 DEF StartExcursion
  <2> HIDE DEF f, P
  <2>5. QED BY <1>2, <2>1, <2>2, <2>3, <2>4
<1>5. CASE StartRegistration(s)
  <2>1. class[s] = "RegistrationDrift" BY <1>5 DEF StartRegistration, IsOf
  <2> DEFINE P == {"waste", "reversion"}
  <2>2. Overrides(class[s]) = P /\ ShownIn(s) = {}
    BY <2>1, OverriddenParams DEF ShownIn
  <2> DEFINE f == [waste |-> param["waste"], reversion |-> {Zero}]
  <2>3. /\ DOMAIN f = P /\ P \in SUBSET Params
        /\ \A p \in P : f[p] \in Value
        /\ \A p \in P \ {"tension", "reversion"} : param[p] \subseteq f[p]
    BY DEF OverridesTypeOK, Value, Params
  <2>4. SaveAndSet(s, f) BY <1>5 DEF StartRegistration
  <2> HIDE DEF f, P
  <2>5. QED BY <1>2, <2>1, <2>2, <2>3, <2>4
<1>6. CASE StartBreak(s)
  <2>1. class[s] = "WebBreak" BY <1>6 DEF StartBreak, IsOf
  <2> DEFINE P == {"tension"}
  <2>2. Overrides(class[s]) = P /\ ShownIn(s) = {}
    BY <2>1, OverriddenParams DEF ShownIn
  <2> DEFINE f == [tension |-> {s}]
  <2>3. /\ DOMAIN f = P /\ P \in SUBSET Params
        /\ \A p \in P : f[p] \in Value
        /\ \A p \in P \ {"tension", "reversion"} : param[p] \subseteq f[p]
    BY DEF OverridesTypeOK, Value, Params
  <2>4. SaveAndSet(s, f) BY <1>6 DEF StartBreak
  <2> HIDE DEF f, P
  <2>5. QED BY <1>2, <2>1, <2>2, <2>3, <2>4
<1>7. CASE StartOther(s)
  <2>1. UNCHANGED <<param, saved, order, crossed>> BY <1>7 DEF StartOther, overrides, copies
  <2>2. ShownIn(s) = {} BY <1>7 DEF StartOther, ShownIn
  <2>3. Moves(s) BY <1>0, <2>1 DEF Moves
  <2>4. OverridesTypeOK' BY <2>1 DEF OverridesTypeOK
  <2>5. ASSUME NEW p \in Params PROVE Effect(s, p)
    <3>1. Leaves(s, p) /\ order'[p][s] = {} BY <1>1, <2>1 DEF Leaves, SamePlace
    <3>2. QED BY <2>2, <3>1 DEF Effect
  <2>6. QED BY <2>3, <2>4, <2>5
<1>8. QED BY <1>3, <1>4, <1>5, <1>6, <1>7 DEF Begins, OnActivate

\* While a scenario is active it saves what it begins to override, and gives
\* up only what it restores.
LEMMA ContinueEffect ==
  ASSUME TypeOK, OverridesTypeOK, NEW s \in Scenario, Fixed, Continues(s),
         \A p \in Params : Held(p) /\ Covers(p)
  PROVE  Moves(s) /\ OverridesTypeOK' /\ \A p \in Params : Effect(s, p)
<1>0. /\ phase[s] = "ACTIVE" /\ phase' = phase /\ elapsed[s] \in Nat /\ duration[s] \in Nat
      /\ elapsed'[s] = elapsed[s] + 1
      /\ class'[s] = class[s] /\ duration'[s] = duration[s]
      /\ UNCHANGED <<class, duration, listed>>
      /\ \A t \in Scenario : t # s => phase'[t] = phase[t] /\ elapsed'[t] = elapsed[t]
  BY DEF Continues, TypeOK, Fixed
<1>1. \A p \in Params : /\ order[p][s] # {} <=> s \in Holders(p)
                        /\ s \in Holders(p) => Entitled(s, p)
                        /\ p \in ShownIn(s) => s \in Holders(p)
  BY <1>0 DEF Held, Covers, Holders
<1>2. ASSUME OverridesTypeOK', \A t \in Scenario : t # s => saved'[t] = saved[t],
             crossed \subseteq crossed',
             NEW P \in SUBSET Params,
             \A p \in P : Effect(s, p),
             \A p \in Params \ P : Leaves(s, p) /\ (s \in Holders(p) => Entitled(s, p)')
      PROVE  Moves(s) /\ OverridesTypeOK' /\ \A p \in Params : Effect(s, p)
  <2>1. Moves(s) BY <1>0, <1>2 DEF Moves
  <2>2. ASSUME NEW p \in Params \ P PROVE Effect(s, p)
    <3>1. Leaves(s, p) /\ order'[p][s] = order[p][s] BY <1>2, <2>2 DEF Leaves, SamePlace
    <3>2. QED BY <1>0, <1>1, <1>2, <2>2, <3>1 DEF Effect, Leaves
  <2>3. QED BY <1>2, <2>1, <2>2
<1>3. CASE ShiftInk(s)
  <2>1. class[s] = "InkExcursion" BY <1>3 DEF ShiftInk, IsOf
  <2> DEFINE P == {"ink"}
             f == [ink |-> saved[s]["ink"] \union {s}]
  <2>2. /\ DOMAIN f = P /\ P \in SUBSET Params
        /\ \A p \in P : f[p] \in Value /\ saved[s][p] \subseteq f[p] /\ s \in f[p]
    BY DEF OverridesTypeOK, Value, Params
  <2>3. Reset(s, f) BY <1>3 DEF ShiftInk
  <2>4. "ink" \in Params /\ "ink" \in ShownIn(s) BY <2>1 DEF Params, ShownIn
  <2> HIDE DEF f
  <2>5. /\ saved' = saved /\ crossed \subseteq crossed' /\ OverridesTypeOK'
        /\ \A p \in Params : SamePlace(s, p)
        /\ \A p \in P : param'[p] = f[p] /\ (Latest(s, p) \/ p \in crossed')
        /\ \A p \in Params \ P : param'[p] = param[p]
    BY <2>2, <2>3, ResetEffect
  <2>6. \A p \in Params : s \in Holders(p) => Entitled(s, p)'
    BY <1>0, <1>1, <2>1 DEF Entitled
  <2>7. Effect(s, "ink")
    <3>1. Resets(s, "ink") BY <2>2, <2>4, <2>5 DEF Resets
    <3>2. order'["ink"][s] # {} BY <1>1, <2>4, <2>5 DEF SamePlace
    <3>3. s \in param'["ink"] BY <2>2, <2>5
    <3>4. QED BY <1>1, <2>4, <2>6, <3>1, <3>2, <3>3 DEF Effect
  <2>8. QED BY <1>2, <2>2, <2>5, <2>6, <2>7 DEF Leaves
<1>4. CASE RaiseRate(s)
  <2>1. class[s] = "RegistrationDrift" BY <1>4 DEF RaiseRate, ThresholdPassed, IsOf
  <2> DEFINE P == {"waste"}
             f == [waste |-> saved[s]["waste"] \union {s}]
  <2>2. /\ DOMAIN f = P /\ P \in SUBSET Params
        /\ \A p \in P : f[p] \in Value /\ saved[s][p] \subseteq f[p]
    BY DEF OverridesTypeOK, Value, Params
  <2>3. Reset(s, f) BY <1>4 DEF RaiseRate
  <2>4. "waste" \in Params /\ ShownIn(s) = {} BY <2>1 DEF Params, ShownIn
  <2> HIDE DEF f
  <2>5. /\ saved' = saved /\ crossed \subseteq crossed' /\ OverridesTypeOK'
        /\ \A p \in Params : SamePlace(s, p)
        /\ \A p \in P : param'[p] = f[p] /\ (Latest(s, p) \/ p \in crossed')
        /\ \A p \in Params \ P : param'[p] = param[p]
    BY <2>2, <2>3, ResetEffect
  <2>6. \A p \in Params : s \in Holders(p) => Entitled(s, p)'
    BY <1>0, <1>1, <2>1 DEF Entitled
  <2>7. Effect(s, "waste")
    <3>1. Resets(s, "waste") BY <2>2, <2>4, <2>5 DEF Resets
    <3>2. order'["waste"][s] # {} => s \in Holders("waste") BY <1>1, <2>4, <2>5 DEF SamePlace
    <3>3. QED BY <2>4, <2>6, <3>1, <3>2 DEF Effect
  <2>8. QED BY <1>2, <2>2, <2>5, <2>6, <2>7 DEF Leaves
<1>5. CASE PartWeb(s)
  <2>1. class[s] = "WebBreak" BY <1>5 DEF PartWeb, WebParts, IsOf
  <2> DEFINE P == {"tension"}
             f == [tension |-> {Zero}]
  <2>2. DOMAIN f = P /\ P \in SUBSET Params /\ \A p \in P : f[p] \in Value
    BY DEF OverridesTypeOK, Value, Params
  <2>3. Reset(s, f) BY <1>5 DEF PartWeb
  <2>4. "tension" \in Params /\ ShownIn(s) = {} BY <2>1 DEF Params, ShownIn
  <2> HIDE DEF f
  <2>5. /\ saved' = saved /\ crossed \subseteq crossed' /\ OverridesTypeOK'
        /\ \A p \in Params : SamePlace(s, p)
        /\ \A p \in P : param'[p] = f[p] /\ (Latest(s, p) \/ p \in crossed')
        /\ \A p \in Params \ P : param'[p] = param[p]
    BY <2>2, <2>3, ResetEffect
  <2>6. \A p \in Params : s \in Holders(p) => Entitled(s, p)'
    BY <1>0, <1>1, <2>1 DEF Entitled
  <2>7. Effect(s, "tension")
    <3>1. Resets(s, "tension") BY <2>4, <2>5 DEF Resets
    <3>2. order'["tension"][s] # {} => s \in Holders("tension") BY <1>1, <2>4, <2>5 DEF SamePlace
    <3>3. QED BY <2>4, <2>6, <3>1, <3>2 DEF Effect
  <2>8. QED BY <1>2, <2>2, <2>5, <2>6, <2>7 DEF Leaves
<1>6. ASSUME NEW P \in SUBSET Params, NEW f, DOMAIN f = P, SaveAndSet(s, f),
             \A p \in P : f[p] \in Value,
             \A p \in P \ {"tension", "reversion"} : param[p] \subseteq f[p],
             Overrides(class[s]) = P, ShownIn(s) = {},
             \A p \in P : ~ Entitled(s, p) /\ Entitled(s, p)'
      PROVE  Moves(s) /\ OverridesTypeOK' /\ \A p \in Params : Effect(s, p)
  <2>1. /\ \A t \in Scenario : t # s => saved'[t] = saved[t]
        /\ crossed' = crossed /\ OverridesTypeOK'
        /\ \A p \in P : /\ saved'[s][p] = param[p] /\ param'[p] = f[p]
                        /\ order'[p] = [order[p] EXCEPT ![s] = Holders(p) \union {s}]
        /\ \A p \in Params \ P : SamePlace(s, p) /\ param'[p] = param[p]
    BY <1>6, SaveAndSetEffect
  <2>2. ASSUME NEW p \in P PROVE Effect(s, p)
    <3>1. Saves(s, p) BY <1>1, <1>6, <2>1, <2>2 DEF Saves
    <3>2. Entitled(s, p)' BY <1>6, <2>2
    <3>3. QED BY <1>6, <3>1, <3>2 DEF Effect
  <2>3. ASSUME NEW p \in Params \ P
        PROVE  Leaves(s, p) /\ (s \in Holders(p) => Entitled(s, p)')
    <3>1. Leaves(s, p) BY <2>1, <2>3 DEF Leaves
    <3>2. s \notin Holders(p) BY <1>1, <1>6, <2>3 DEF Entitled
    <3>3. QED BY <3>1, <3>2
  <2>4. QED BY <1>2, <2>1, <2>2, <2>3
<1>7. CASE Splice(s)
  <2>1. class[s] = "MaterialSplice" /\ elapsed[s] + 3 = duration[s]
    BY <1>0, <1>7 DEF Splice, ReelIsLow, IsOf
  <2> DEFINE P == {"waste", "tension", "reversion"}
             f == [waste |-> param["waste"] \union {s},
                   tension |-> param["tension"] \union {s},
                   reversion |-> {Zero}]
  <2>2. Overrides(class[s]) = P /\ ShownIn(s) = {} BY <2>1, OverriddenParams DEF ShownIn
  <2>3. /\ DOMAIN f = P /\ P \in SUBSET Params
        /\ \A p \in P : f[p] \in Value
        /\ \A p \in P \ {"tension", "reversion"} : param[p] \subseteq f[p]
    BY DEF OverridesTypeOK, Value, Params
  <2>4. SaveAndSet(s, f) BY <1>7 DEF Splice
  <2>5. \A p \in P : ~ Entitled(s, p) /\ Entitled(s, p)'
    BY <1>0, <2>1, <2>2 DEF Entitled
  <2> HIDE DEF f, P
  <2>6. QED BY <1>6, <2>2, <2>3, <2>4, <2>5
<1>8. CASE BoostWaste(s)
  <2>1. class[s] = "JobChangeover" /\ elapsed[s] + 2 = duration[s]
    BY <1>0, <1>8 DEF BoostWaste, StartupWaste, IsOf
  <2> DEFINE P == {"waste"}
             f == [waste |-> param["waste"] \union {s}]
  <2>2. Overrides(class[s]) = P /\ ShownIn(s) = {} BY <2>1, OverriddenParams DEF ShownIn
  <2>3. /\ DOMAIN f = P /\ P \in SUBSET Params
        /\ \A p \in P : f[p] \in Value
        /\ \A p \in P \ {"tension", "reversion"} : param[p] \subseteq f[p]
    BY DEF OverridesTypeOK, Value, Params
  <2>4. SaveAndSet(s, f) BY <1>8 DEF BoostWaste
  <2>5. \A p \in P : ~ Entitled(s, p) /\ Entitled(s, p)'
    BY <1>0, <2>1, <2>2 DEF Entitled
  <2> HIDE DEF f, P
  <2>6. QED BY <1>6, <2>2, <2>3, <2>4, <2>5
<1>9. CASE EndSpike(s)
  <2>1. class[s] = "MaterialSplice" /\ elapsed[s] + 2 = duration[s]
    BY <1>0, <1>9 DEF EndSpike, SpikeEnds, IsOf
  <2>2. "tension" \in Params /\ {"tension"} \in SUBSET Params BY DEF Params
  <2>3. /\ saved' = saved /\ crossed \subseteq crossed' /\ OverridesTypeOK'
        /\ Restores(s, "tension") /\ order'["tension"][s] = {}
        /\ \A p \in Params \ {"tension"} : Leaves(s, p)
    BY <1>9, <2>2, WriteBackEffect DEF EndSpike
  <2>4. ShownIn(s) = {} BY <2>1 DEF ShownIn
  <2>5. Effect(s, "tension") BY <2>3, <2>4 DEF Effect
  <2>6. \A p \in Params \ {"tension"} : s \in Holders(p) => Entitled(s, p)'
    BY <1>0, <1>1, <2>1 DEF Entitled
  <2>7. QED BY <1>2, <2>2, <2>3, <2>5, <2>6
<1>10. CASE Hold(s)
  <2>1. /\ class[s] = "MaterialSplice" => elapsed[s] + 3 # duration[s] /\ elapsed[s] + 2 # duration[s]
        /\ class[s] = "JobChangeover" => elapsed[s] + 2 # duration[s]
    BY <1>0, <1>10 DEF Hold, ReelIsLow, SpikeEnds, StartupWaste, IsOf
  <2>2. UNCHANGED <<param, saved, order, crossed>> BY <1>10 DEF Hold, overrides, copies
  <2>3. OverridesTypeOK' BY <2>2 DEF OverridesTypeOK
  <2>4. \A p \in Params : Leaves(s, p) BY <2>2 DEF Leaves, SamePlace
  <2>5. \A p \in Params : s \in Holders(p) => Entitled(s, p)'
    BY <1>0, <1>1, <2>1 DEF Entitled
  <2>6. {} \in SUBSET Params OBVIOUS
  <2>7. QED BY <1>2, <2>2, <2>3, <2>4, <2>5, <2>6
<1>11. QED BY <1>3, <1>4, <1>5, <1>7, <1>8, <1>9, <1>10 DEF Continues, OnTick

\* The end of a scenario, in its turn or by preemption, writes back what it
\* still holds; a shift leaves its bias.
LEMMA EndEffect ==
  ASSUME TypeOK, OverridesTypeOK, NEW s \in Scenario, Fixed, Ends(s),
         \A p \in Params : Held(p)
  PROVE  Moves(s) /\ OverridesTypeOK' /\ \A p \in Params : Effect(s, p)
<1>0. /\ phase[s] = "ACTIVE" /\ phase'[s] = "COMPLETED" /\ class'[s] = class[s]
      /\ elapsed[s] \in Nat /\ duration[s] \in Nat
      /\ UNCHANGED <<class, duration, listed>>
      /\ \A t \in Scenario : t # s => phase'[t] = phase[t] /\ elapsed'[t] = elapsed[t]
  BY DEF Ends, TypeOK, Fixed
<1>1. \A p \in Params : order[p][s] # {} => Entitled(s, p)
  BY DEF Held, Holders
<1>2. ASSUME NEW P \in SUBSET Params, WriteBack(s, P), \A p \in Params \ P : ~ Entitled(s, p)
      PROVE  Moves(s) /\ OverridesTypeOK' /\ \A p \in Params : Effect(s, p)
  <2>1. /\ saved' = saved /\ crossed \subseteq crossed' /\ OverridesTypeOK'
        /\ \A p \in P : Restores(s, p) /\ order'[p][s] = {}
        /\ \A p \in Params \ P : Leaves(s, p)
    BY <1>2, WriteBackEffect
  <2>2. Moves(s) BY <1>0, <2>1 DEF Moves
  <2>3. ASSUME NEW p \in Params PROVE Effect(s, p)
    <3>1. p \notin P => order'[p][s] = {}
      BY <1>1, <1>2, <2>1 DEF Leaves, SamePlace
    <3>2. QED BY <1>0, <2>1, <3>1 DEF Effect
  <2>4. QED BY <2>1, <2>2, <2>3
<1>3. ASSUME UNCHANGED overrides, \A p \in Params : ~ Entitled(s, p)
      PROVE  Moves(s) /\ OverridesTypeOK' /\ \A p \in Params : Effect(s, p)
  <2>1. UNCHANGED <<param, saved, order, crossed>> BY <1>3 DEF overrides, copies
  <2>2. Moves(s) /\ OverridesTypeOK' BY <1>0, <2>1 DEF Moves, OverridesTypeOK
  <2>3. ASSUME NEW p \in Params PROVE Effect(s, p)
    <3>1. Leaves(s, p) /\ order'[p][s] = {} BY <1>1, <1>3, <2>1 DEF Leaves, SamePlace
    <3>2. QED BY <1>0, <3>1 DEF Effect
  <2>4. QED BY <2>2, <2>3
<1>4. CASE IsOf(s, "ShiftChange") /\ ApplyBias(s)
  <2>1. UNCHANGED <<saved, order, crossed>> /\ class[s] = "ShiftChange"
    BY <1>4 DEF ApplyBias, copies, IsOf
  <2>2. /\ \A p \in Params : param'[p] = IF p = "waste" THEN param[p] \union {s} ELSE param[p]
        /\ param' \in [Params -> Value]
    BY <1>4 DEF ApplyBias, Override, OverridesTypeOK, Value, Params
  <2>3. Moves(s) /\ OverridesTypeOK' BY <1>0, <2>1, <2>2 DEF Moves, OverridesTypeOK, Value
  <2>4. s \in Biases' BY <1>0, <2>1 DEF Biases
  <2>5. \A p \in Params : order[p][s] = {}
    BY <1>1, <2>1, OverriddenParams DEF Entitled
  <2>6. ASSUME NEW p \in Params PROVE Effect(s, p)
    <3>1. SamePlace(s, p) /\ order'[p][s] = {} BY <2>1, <2>5 DEF SamePlace
    <3>2. Biased(s, p) \/ Leaves(s, p) BY <2>2, <2>4, <3>1 DEF Biased, Leaves
    <3>3. QED BY <1>0, <3>1, <3>2 DEF Effect
  <2>7. QED BY <2>3, <2>6
<1>5. CASE EndDrift(s)
  <2>1. \A p \in Params \ {"waste"} : ~ Entitled(s, p)
    BY <1>5, OverriddenParams DEF EndDrift, IsOf, Entitled
  <2>2. {"waste"} \in SUBSET Params /\ WriteBack(s, {"waste"}) BY <1>5 DEF EndDrift, Params
  <2>3. QED BY <1>2, <2>1, <2>2
<1>6. CASE EndExcursion(s)
  <2>1. \A p \in Params \ {"waste", "drift", "ink"} : ~ Entitled(s, p)
    BY <1>6, OverriddenParams DEF EndExcursion, IsOf, Entitled
  <2>2. {"waste", "drift", "ink"} \in SUBSET Params /\ WriteBack(s, {"waste", "drift", "ink"})
    BY <1>6 DEF EndExcursion, Params
  <2>3. QED BY <1>2, <2>1, <2>2
<1>7. CASE EndRegistration(s)
  <2>1. \A p \in Params \ {"waste", "reversion"} : ~ Entitled(s, p)
    BY <1>7, OverriddenParams DEF EndRegistration, IsOf, Entitled
  <2>2. {"waste", "reversion"} \in SUBSET Params /\ WriteBack(s, {"waste", "reversion"})
    BY <1>7 DEF EndRegistration, Params
  <2>3. QED BY <1>2, <2>1, <2>2
<1>8. CASE EndChangeover(s)
  <2>0. class[s] = "JobChangeover" BY <1>8 DEF EndChangeover, IsOf
  <2>1. CASE elapsed[s] < duration[s] - 1
    <3>1. \A p \in Params : ~ Entitled(s, p) BY <1>0, <2>0, <2>1 DEF Entitled
    <3>2. UNCHANGED overrides BY <1>0, <1>8, <2>1 DEF EndChangeover
    <3>3. QED BY <1>3, <3>1, <3>2
  <2>2. CASE ~ (elapsed[s] < duration[s] - 1)
    <3>1. \A p \in Params \ {"waste"} : ~ Entitled(s, p)
      BY <2>0, OverriddenParams DEF Entitled
    <3>2. {"waste"} \in SUBSET Params /\ WriteBack(s, {"waste"})
      BY <1>8, <2>2 DEF EndChangeover, Params
    <3>3. QED BY <1>2, <3>1, <3>2
  <2>3. QED BY <2>1, <2>2
<1>9. CASE EndBreak(s)
  <2>1. \A p \in Params \ {"tension"} : ~ Entitled(s, p)
    BY <1>9, OverriddenParams DEF EndBreak, IsOf, Entitled
  <2>2. {"tension"} \in SUBSET Params /\ WriteBack(s, {"tension"}) BY <1>9 DEF EndBreak, Params
  <2>3. QED BY <1>2, <2>1, <2>2
<1>10. CASE EndSplice(s)
  <2>0. class[s] = "MaterialSplice" BY <1>10 DEF EndSplice, IsOf
  <2> DEFINE P == {"waste", "reversion"} \union IF elapsed[s] < duration[s] - 1 THEN {"tension"} ELSE {}
  <2>1. \A p \in Params \ P : ~ Entitled(s, p)
    BY <1>0, <2>0, OverriddenParams DEF Entitled
  <2>2. P \in SUBSET Params /\ WriteBack(s, P) BY <1>10 DEF EndSplice, Params
  <2> HIDE DEF P
  <2>3. QED BY <1>2, <2>1, <2>2
<1>11. CASE EndOther(s)
  <2>1. \A p \in Params : ~ Entitled(s, p)
    BY <1>11, OverriddenParams DEF EndOther, Entitled
  <2>2. QED BY <1>3, <1>11, <2>1 DEF EndOther
<1>12. QED BY <1>4, <1>5, <1>6, <1>7, <1>8, <1>9, <1>10, <1>11 DEF Ends, OnComplete

-----------------------------------------------------------------------------
(***************************************************************************)
(* The invariant of the overrides, and what follows from it.               *)
(***************************************************************************)
OverridesInv == OverridesTypeOK /\ \A p \in Params : StackInv(p)

\* Every step of the scenarios keeps the invariant.
LEMMA OverridesInvKept == IInv /\ OverridesInv /\ [OverridesNext]_allVars => OverridesInv'
<1> SUFFICES ASSUME IInv, OverridesInv, [OverridesNext]_allVars PROVE OverridesInv' OBVIOUS
<1>1. TypeOK /\ OverridesTypeOK /\ \A p \in Params : StackInv(p) BY DEF IInv, OverridesInv
<1>2. \A p \in Params : Held(p) /\ Covers(p) BY <1>1 DEF StackInv
<1>3. Fixed /\ (Rests \/ \E s \in Scenario : Begins(s) \/ Continues(s) \/ Ends(s))
  BY StepKinds
<1>4. CASE Rests
  <2>1. UNCHANGED <<class, duration, listed, phase, elapsed, param, saved, order, crossed>>
    BY <1>3, <1>4 DEF Rests, Fixed, overrides, copies
  <2>2. OverridesTypeOK' BY <1>1, <2>1 DEF OverridesTypeOK
  <2>3. ASSUME NEW p \in Params PROVE StackInv(p)'
    <3>1. StackInv(p) BY <1>1
    <3>2. QED
      BY <2>1, <3>1 DEF StackInv, Held, Covers, Lined, Stacked, Settled, Entitled, ShownIn,
                        Holders, Rest, Biases
  <2>4. QED BY <2>2, <2>3 DEF OverridesInv
<1>5. ASSUME NEW s \in Scenario, Begins(s) \/ Continues(s) \/ Ends(s) PROVE OverridesInv'
  <2>1. Moves(s) /\ OverridesTypeOK' /\ \A p \in Params : Effect(s, p)
    BY <1>1, <1>2, <1>3, <1>5, BeginEffect, ContinueEffect, EndEffect
  <2>2. \A p \in Params : StackInv(p)' BY <1>1, <2>1, StackKept
  <2>3. QED BY <2>1, <2>2 DEF OverridesInv
<1>6. QED BY <1>3, <1>4, <1>5

\* All parameters begin with their configured values, and nobody has a copy.
LEMMA InitialOverridesInv == OverridesInit => OverridesInv
<1> SUFFICES ASSUME OverridesInit PROVE OverridesInv OBVIOUS
<1>1. /\ \A s \in Scenario : phase[s] = "PENDING"
      /\ param = [p \in Params |-> {}]
      /\ saved = [s \in Scenario |-> [p \in Params |-> {Zero}]]
      /\ order = [p \in Params |-> [s \in Scenario |-> {}]]
      /\ crossed = {}
  BY DEF OverridesInit, Init
<1>2. OverridesTypeOK BY <1>1 DEF OverridesTypeOK
<1>3. ASSUME NEW p \in Params PROVE StackInv(p)
  <2>1. Holders(p) = {} BY <1>1 DEF Holders
  <2>2. Held(p) /\ Covers(p) /\ Lined(p) /\ Stacked(p) /\ Settled(p)
    BY <1>1, <2>1 DEF Held, Covers, Lined, Stacked, Settled
  <2>3. QED BY <2>2 DEF StackInv
<1>4. QED BY <1>2, <1>3 DEF OverridesInv

\* So the invariant holds in every reachable state.
LEMMA OverridesInvariant == OverridesSpec => []OverridesInv
BY InitialOverridesInv, OverridesInvKept, OverridesRunTheEngine, Inductive, PTL DEF OverridesSpec

\* Overrides leave no trace in a parameter that no active scenario overrides,
\* however they have overlapped, as long as it was only ever written by who
\* had made the latest copy of it: it has its configured value, but for the
\* biases of completed shift changes.
THEOREM OverridesEndHolds == OverridesSpec => []OverridesEnd
<1>1. IInv /\ OverridesInv => OverridesEnd
  <2> SUFFICES ASSUME IInv, OverridesInv, NEW p \in Params \ crossed,
                      \A s \in InPhase("ACTIVE") : p \notin Overrides(class[s]),
                      NEW s \in param[p]
               PROVE  p = "waste" /\ s \in InPhase("COMPLETED") /\ IsOf(s, "ShiftChange")
    BY DEF OverridesEnd
  <2>1. Held(p) /\ Settled(p) BY DEF OverridesInv, StackInv
  <2>2. Holders(p) = {}
    <3> SUFFICES ASSUME NEW t \in Holders(p) PROVE FALSE OBVIOUS
    <3>1. t \in Scenario /\ phase[t] = "ACTIVE" /\ p \in Overrides(class[t])
      BY <2>1 DEF Held, Entitled, Holders
    <3>2. t \in InPhase("ACTIVE") BY <3>1 DEF IInv, UnlistedInv, InPhase
    <3>3. QED BY <3>1, <3>2
  <2>3. s \in Rest(p) BY <2>1, <2>2 DEF Settled
  <2>4. p = "waste" /\ s \in Biases BY <2>3 DEF Rest
  <2>5. QED BY <2>4 DEF Biases, IInv, UnlistedInv, InPhase, IsOf
<1>2. QED BY <1>1, OverridesInvariant, OverridesRunTheEngine, Inductive, PTL

\* A drift that is reported as running shows in the parameters it disturbs,
\* from its start until it ends or is cut short, whatever begins and ends on
\* top of it or below it, as long as these were written by who had made the
\* latest copy only.
THEOREM DriftShowsHolds == OverridesSpec => []DriftShows
<1>1. IInv /\ OverridesInv => DriftShows
  <2> SUFFICES ASSUME IInv, OverridesInv, NEW s \in InPhase("ACTIVE"), NEW p \in Params \ crossed,
                      \/ class[s] \in Drifts /\ p = "waste"
                      \/ IsOf(s, "InkExcursion") /\ p \in {"ink", "drift"}
               PROVE  s \in param[p]
    BY DEF DriftShows
  <2>1. Settled(p) BY DEF OverridesInv, StackInv
  <2>2. s \in Scenario /\ phase[s] = "ACTIVE"
    BY EngineAssumption DEF InPhase, Listed, Scenario, IInv, TypeOK
  <2>3. p \in ShownIn(s) BY DEF ShownIn, Drifts, IsOf
  <2>4. QED BY <2>1, <2>2, <2>3 DEF Settled
<1>2. QED BY <1>1, OverridesInvariant, OverridesRunTheEngine, Inductive, PTL

=============================================================================
