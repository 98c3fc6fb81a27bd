------------------------ MODULE ScenarioEngineProofs ------------------------
(***************************************************************************)
(* Theorems about ScenarioEngine, for every number of scenarios, every     *)
(* assignment of classes, priorities, start times and durations; and that  *)
(* Evaluation reads the file the engine leaves for what it says.           *)
(***************************************************************************)
EXTENDS Evaluation, FiniteSetTheorems, SequenceTheorems, TLAPS

\* The records the engine writes are records of the file.
LEMMA EntryType ==
  ASSUME NEW s \in Scenario
  PROVE  /\ Entry("scenario_start", s) \in Entries
         /\ Entry("scenario_end", s) \in Entries
BY DEF Entry, Entries

\* Writing one or two records keeps the file a sequence of records.
LEMMA WrittenType ==
  ASSUME log \in Seq(Entries), NEW es \in Seq(Entries)
  PROVE  Written(es) \in Seq(Entries)
BY DEF Written

\* One iteration of the evaluate loop keeps every variable in its type.
LEMMA StepEvaluateType ==
  ASSUME TypeOK, NEW s \in Scenario, Evaluate(s)
  PROVE  TypeOK'
<1> USE EngineAssumption DEF TypeOK
<1>a. s = cursor /\ cursor \in 1..listed /\ pc = "evaluate"
  BY DEF Evaluate, PassOver, Activate, ActivateAndComplete, Continue, RunOut, AtCursor, Listed
<1>b. /\ cursor' = cursor + 1
      /\ UNCHANGED <<class, start, duration, listed, now, pc, due, scActive, skip, victims, logging>>
  BY DEF Evaluate, PassOver, Activate, ActivateAndComplete, Continue, RunOut, Advance,
         timeline, locals
<1>c. cursor' \in 1..N+1
  BY <1>a, <1>b
<1>d. /\ <<Entry("scenario_start", s)>> \in Seq(Entries)
      /\ <<Entry("scenario_end", s)>> \in Seq(Entries)
      /\ <<Entry("scenario_start", s), Entry("scenario_end", s)>> \in Seq(Entries)
  BY EntryType
<1>1. CASE PassOver(s)
  BY <1>1, <1>b, <1>c DEF PassOver
<1>2. CASE Activate(s)
  <2>1. log' \in Seq(Entries) BY <1>2, <1>d, WrittenType DEF Activate
  <2>2. QED BY <1>2, <2>1, <1>b, <1>c DEF Activate
<1>3. CASE ActivateAndComplete(s)
  <2>1. log' \in Seq(Entries) BY <1>3, <1>d, WrittenType DEF ActivateAndComplete
  <2>2. QED BY <1>3, <2>1, <1>b, <1>c DEF ActivateAndComplete
<1>4. CASE Continue(s)
  <2>1. elapsed' \in [Scenario -> Nat] BY <1>4 DEF Continue
  <2>2. QED BY <1>4, <2>1, <1>b, <1>c DEF Continue
<1>5. CASE RunOut(s)
  <2>1. log' \in Seq(Entries) BY <1>5, <1>d, WrittenType DEF RunOut
  <2>2. elapsed' \in [Scenario -> Nat] BY <1>5 DEF RunOut
  <2>3. QED BY <1>5, <2>1, <2>2, <1>b, <1>c DEF RunOut
<1>6. QED
  BY <1>1, <1>2, <1>3, <1>4, <1>5 DEF Evaluate

\* Every step of the engine keeps every variable in its type.
LEMMA StepType ==
  ASSUME TypeOK, [Next]_vars
  PROVE  TypeOK'
<1> USE EngineAssumption
<1>1. CASE Arbitrate
  <2>1. DueAt(now') \subseteq Scenario
    BY DEF DueAt, InPhase, Listed, Scenario, TypeOK
  <2>2. Deferred(due') \subseteq Scenario
    BY <1>1, <2>1 DEF Arbitrate, Deferred, Changing, OfPriority
  <2>3. PreemptedBy(due') \subseteq Scenario
    BY DEF PreemptedBy, OfPriority, InPhase, Listed, Scenario, TypeOK
  <2>4. Blocked(due') \in BOOLEAN
    BY DEF Blocked
  <2>5. QED
    BY <1>1, <2>1, <2>2, <2>3, <2>4 DEF Arbitrate, TypeOK, timeline, truth
<1>2. CASE Preempt
  <2>1. PICK s \in First(victims) :
          /\ phase' = [phase EXCEPT ![s] = "COMPLETED"]
          /\ log' = Written(<<Entry("scenario_end", s)>>)
          /\ victims' = victims \ {s}
    BY <1>2 DEF Preempt
  <2>2. s \in Scenario
    BY DEF First, TypeOK
  <2>3. log' \in Seq(Entries)
    <3>1. <<Entry("scenario_end", s)>> \in Seq(Entries)
      BY <2>2, EntryType
    <3>2. QED BY <2>1, <3>1, WrittenType DEF TypeOK
  <2>4. /\ phase' \in [Scenario -> {"PENDING", "ACTIVE", "COMPLETED"}]
        /\ victims' \in SUBSET Scenario
    <3>1. phase' = [phase EXCEPT ![s] = "COMPLETED"] /\ victims' = victims \ {s}
      BY <2>1
    <3>2. QED BY <3>1, <2>2 DEF TypeOK
  <2>5. UNCHANGED <<class, start, duration, listed, elapsed, now, pc, cursor, due,
                    scActive, skip, logging>>
    BY <1>2 DEF Preempt, timeline, locals
  <2>6. QED
    BY <2>3, <2>4, <2>5 DEF TypeOK
<1>3. CASE EndPreemption
  BY <1>3 DEF EndPreemption, TypeOK, timeline, locals, truth
<1>4. ASSUME NEW s \in Scenario, Evaluate(s) PROVE TypeOK'
  BY <1>4, StepEvaluateType
<1>5. CASE FinishTick
  <2>1. cursor' \in 1..N+1 /\ due' \in SUBSET Scenario /\ skip' \in SUBSET Scenario
    BY <1>5 DEF FinishTick
  <2>2. scActive' \in BOOLEAN
    BY <1>5 DEF FinishTick
  <2>3. QED
    BY <1>5, <2>1, <2>2 DEF FinishTick, TypeOK, timeline, truth
<1>6. CASE AddScenario
  BY <1>6 DEF AddScenario, TypeOK, timeline, locals, truth
<1>7. CASE LoseLog
  BY <1>7 DEF LoseLog, TypeOK, timeline, locals
<1>8. CASE UNCHANGED vars
  BY <1>8 DEF vars, TypeOK, timeline, locals, truth
<1>9. QED
  BY <1>1, <1>2, <1>3, <1>4, <1>5, <1>6, <1>7, <1>8 DEF Next, TickStep

\* The engine starts in a state of its types.
LEMMA InitType ==
  ASSUME Init
  PROVE  TypeOK
<1> USE EngineAssumption
<1>1. duration \in [Scenario -> Nat]
  <2>1. duration \in [Scenario -> {0} \union (MinDuration..MaxDuration)]
    BY DEF Init
  <2>2. \A d \in {0} \union (MinDuration..MaxDuration) : d \in Nat
    OBVIOUS
  <2>3. QED BY <2>1, <2>2
<1>2. start \in [Scenario -> 0..Horizon]
  BY DEF Init
<1>3. listed \in 0..N /\ 1 \in 1..N+1
  BY DEF Init
<1>4. /\ phase \in [Scenario -> {"PENDING", "ACTIVE", "COMPLETED"}]
      /\ elapsed \in [Scenario -> Nat]
      /\ now \in 0..Horizon
      /\ cursor \in 1..N+1
  BY DEF Init
<1>5. scActive \in BOOLEAN /\ logging \in BOOLEAN
  BY DEF Init
<1>6. /\ due \in SUBSET Scenario
      /\ skip \in SUBSET Scenario
      /\ victims \in SUBSET Scenario
      /\ log \in Seq(Entries)
  BY DEF Init
<1>7. class \in [Scenario -> Class] /\ pc \in {"idle", "preempt", "evaluate"}
  BY DEF Init
<1>8. QED BY <1>1, <1>2, <1>3, <1>4, <1>5, <1>6, <1>7 DEF TypeOK

\* Every variable of the engine keeps its type, for every timeline.
THEOREM TypeCorrect == Spec => []TypeOK
BY InitType, StepType, PTL DEF Spec

-----------------------------------------------------------------------------
(***************************************************************************)
(* Exclusion is not inductive: it depends on what the priority pass has    *)
(* decided and the evaluate loop has still to carry out.                   *)
(***************************************************************************)
Admitted(s) == s \in Listed /\ phase[s] = "PENDING" /\ now >= start[s] /\ s \notin skip
Running(s) == s \in Listed /\ phase[s] = "ACTIVE"

ArbitrationInv ==
  pc # "idle" =>
    /\ Changing(due) # {} => scActive
    /\ \A s \in Scenario : Running(s) /\ Prio(s) = StateChanging => scActive
    /\ \A s \in Scenario : Admitted(s) /\ Prio(s) = StateChanging => Changing(due) # {}
    /\ scActive => \A s \in Scenario : Admitted(s) => Prio(s) # NonStateChanging
    /\ Changing(due) # {} => \A s \in Scenario : Running(s) /\ Prio(s) = NonStateChanging
                                              => pc = "preempt" /\ s \in victims

VictimsInv == \A s \in victims : pc = "preempt" /\ Running(s) /\ Prio(s) = NonStateChanging

UnlistedInv == \A s \in Scenario \ Listed : phase[s] = "PENDING"

\* Scenarios are cut short in a tick in which a state change is due only.
VictimsDue == victims # {} => Changing(due) # {}

IInv == TypeOK /\ UnlistedInv /\ VictimsInv /\ ArbitrationInv /\ Exclusion

\* The two priorities that conflict are different strings.
LEMMA PrioritiesDiffer == StateChanging # NonStateChanging
BY DEF StateChanging, NonStateChanging

\* The priority pass sets up what the loops of the tick rely on.
LEMMA ArbitrateKeeps ==
  ASSUME IInv, Arbitrate
  PROVE  UnlistedInv' /\ VictimsInv' /\ ArbitrationInv' /\ Exclusion'
<1> USE EngineAssumption DEF TypeOK, IInv
<1>1. /\ UNCHANGED <<class, start, duration, listed, phase, elapsed, log, logging>>
      /\ pc = "idle" /\ pc' = "preempt"
      /\ due' = DueAt(now') /\ scActive' = Blocked(due')
      /\ skip' = Deferred(due') /\ victims' = PreemptedBy(due')
  BY DEF Arbitrate, timeline, truth
<1>2. /\ Listed' = Listed /\ \A s : Prio(s)' = Prio(s)
      /\ \A s : Running(s)' <=> Running(s)
      /\ Changing(due)' = Changing(due')
  BY <1>1 DEF Listed, Prio, Running, Changing, OfPriority
<1>3. Exclusion'
  BY <1>1, <1>2 DEF Exclusion, InPhase
<1>4. VictimsInv'
  BY <1>1, <1>2 DEF VictimsInv, PreemptedBy, OfPriority, InPhase, Running
<1>5. \A s \in Scenario : Admitted(s)' => s \in DueAt(now') /\ s \notin Deferred(due')
  BY <1>1, <1>2 DEF Admitted, DueAt, InPhase
<1>6. ArbitrationInv'
  <2>1. Changing(due)' # {} => scActive'
    BY <1>1, <1>2 DEF Blocked
  <2>2. \A s \in Scenario : Running(s)' /\ Prio(s)' = StateChanging => scActive'
    BY <1>1, <1>2 DEF Blocked, Running, OfPriority, InPhase
  <2>3. \A s \in Scenario : Admitted(s)' /\ Prio(s)' = StateChanging => Changing(due)' # {}
    BY <1>1, <1>2, <1>5 DEF Changing, OfPriority
  <2>4. scActive' => \A s \in Scenario : Admitted(s)' => Prio(s)' # NonStateChanging
    BY <1>1, <1>2, <1>5 DEF Deferred, OfPriority
  <2>5. Changing(due)' # {} => \A s \in Scenario : Running(s)' /\ Prio(s)' = NonStateChanging
                                              => pc' = "preempt" /\ s \in victims'
    BY <1>1, <1>2 DEF PreemptedBy, OfPriority, InPhase, Running
  <2>6. QED
    BY <2>1, <2>2, <2>3, <2>4, <2>5 DEF ArbitrationInv
<1>7. UnlistedInv'
  BY <1>1, <1>2 DEF UnlistedInv
<1>8. QED
  BY <1>3, <1>4, <1>6, <1>7

\* What every iteration of the evaluate loop does to the engine's state.
Iteration(s) ==
  /\ pc = "evaluate" /\ s \in Listed
  /\ UNCHANGED <<class, start, listed, now, pc, due, scActive, skip, victims>>
  /\ \A t \in Scenario : t # s => phase'[t] = phase[t]
  /\ \/ phase'[s] = phase[s]
     \/ phase'[s] = "COMPLETED"
     \/ Admitted(s) /\ phase'[s] = "ACTIVE"

\* An iteration of the evaluate loop admits only what the priority pass allowed.
LEMMA IterationKeeps ==
  ASSUME IInv, NEW s \in Scenario, Iteration(s)
  PROVE  UnlistedInv' /\ VictimsInv' /\ ArbitrationInv' /\ Exclusion'
<1> USE EngineAssumption DEF TypeOK, IInv
<1>1. /\ pc = "evaluate" /\ s \in Listed
      /\ UNCHANGED <<class, start, listed, now, pc, due, scActive, skip, victims>>
      /\ \A t \in Scenario : t # s => phase'[t] = phase[t]
      /\ \/ phase'[s] = phase[s]
         \/ phase'[s] = "COMPLETED"
         \/ Admitted(s) /\ phase'[s] = "ACTIVE"
  BY DEF Iteration
<1>2. /\ Listed' = Listed /\ Changing(due)' = Changing(due)
      /\ \A t \in Scenario : Prio(t)' = Prio(t)
  BY <1>1 DEF Listed, Prio, Changing, OfPriority
<1>5. /\ \A t \in Scenario : Admitted(t)' => Admitted(t)
      /\ \A t \in Scenario : Running(t)' => Running(t) \/ (t = s /\ Admitted(s))
  BY <1>1, <1>2 DEF Admitted, Running
<1>6. victims = {}
  BY <1>1 DEF VictimsInv
<1>7. VictimsInv'
  BY <1>1, <1>6 DEF VictimsInv
<1>8. ArbitrationInv'
  <2> USE <1>1, <1>2, <1>5, <1>6 DEF ArbitrationInv
  <2>1. \A t \in Scenario : Running(t)' /\ Prio(t)' = StateChanging => scActive'
    OBVIOUS
  <2>2. Changing(due)' # {} => \A t \in Scenario : ~ (Running(t)' /\ Prio(t)' = NonStateChanging)
    OBVIOUS
  <2>3. QED
    BY <2>1, <2>2
<1>9. Exclusion'
  <2> SUFFICES ASSUME NEW a \in Scenario, NEW b \in Scenario, Running(a)', Running(b)',
                      Prio(a)' = StateChanging, Prio(b)' = NonStateChanging
               PROVE  FALSE
    <3>1. InPhase("ACTIVE")' \subseteq Scenario
      BY <1>1 DEF InPhase, Listed, Scenario
    <3>2. \A t \in InPhase("ACTIVE")' : Running(t)'
      BY DEF InPhase, Running
    <3>3. QED BY <3>1, <3>2 DEF Exclusion
  <2>1. CASE Running(a) /\ Running(b)
    BY <2>1, <1>2 DEF Exclusion, InPhase, Running
  <2>2. CASE Admitted(a)
    BY <2>2, <1>1, <1>2, <1>5, <1>6, PrioritiesDiffer DEF ArbitrationInv
  <2>3. CASE Admitted(b)
    BY <2>3, <1>1, <1>2, <1>5 DEF ArbitrationInv
  <2>4. QED
    BY <2>1, <2>2, <2>3, <1>5
<1>10. UnlistedInv'
  BY <1>1, <1>2 DEF UnlistedInv
<1>11. QED
  BY <1>7, <1>8, <1>9, <1>10

\* One evaluate() is such an iteration.
LEMMA EvaluateIterates ==
  ASSUME TypeOK, NEW s \in Scenario, Evaluate(s)
  PROVE  Iteration(s)
<1> USE DEF TypeOK
<1>1. /\ pc = "evaluate" /\ s \in Listed
      /\ UNCHANGED <<class, start, listed, now, pc, due, scActive, skip, victims>>
  BY DEF Evaluate, PassOver, Activate, ActivateAndComplete, Continue, RunOut, Advance,
         AtCursor, timeline, locals
<1>2. \A t \in Scenario : t # s => phase'[t] = phase[t]
  BY DEF Evaluate, PassOver, Activate, ActivateAndComplete, Continue, RunOut
<1>3. \/ phase'[s] = phase[s]
      \/ phase'[s] = "COMPLETED"
      \/ Admitted(s) /\ phase'[s] = "ACTIVE"
  BY <1>1 DEF Evaluate, PassOver, Activate, ActivateAndComplete, Continue, RunOut, Admitted
<1>4. QED BY <1>1, <1>2, <1>3 DEF Iteration

\* Every other step: nothing is activated, so nothing new can meet.
LEMMA OtherStepsKeep ==
  ASSUME IInv, Preempt \/ EndPreemption \/ FinishTick \/ AddScenario \/ LoseLog \/ UNCHANGED vars
  PROVE  UnlistedInv' /\ VictimsInv' /\ ArbitrationInv' /\ Exclusion'
<1> USE EngineAssumption DEF TypeOK, IInv
<1>1. CASE Preempt
  <2>1. PICK s \in victims : /\ phase' = [phase EXCEPT ![s] = "COMPLETED"]
                             /\ victims' = victims \ {s}
    BY <1>1 DEF Preempt, First
  <2>2. UNCHANGED <<class, start, listed, now, pc, due, scActive, skip>>
    BY <1>1 DEF Preempt, timeline, locals
  <2>3. /\ Listed' = Listed /\ Changing(due)' = Changing(due)
        /\ \A t \in Scenario : Prio(t)' = Prio(t)
    BY <2>2 DEF Listed, Prio, Changing, OfPriority
  <2>4. \A t \in Scenario : /\ Admitted(t)' => Admitted(t)
                            /\ Running(t)' <=> Running(t) /\ t # s
    BY <2>1, <2>2, <2>3 DEF Admitted, Running
  <2>5. VictimsInv'
    BY <2>1, <2>2, <2>3, <2>4 DEF VictimsInv
  <2>6. ArbitrationInv'
    BY <2>1, <2>2, <2>3, <2>4 DEF ArbitrationInv
  <2>7. Exclusion'
    <3>1. \A t \in InPhase("ACTIVE")' : t \in InPhase("ACTIVE")
      BY <2>1, <2>2, <2>3 DEF InPhase
    <3>2. QED BY <3>1, <2>2 DEF Exclusion, Prio
  <2>8. UnlistedInv'
    BY <2>1, <2>2, <2>3 DEF UnlistedInv, VictimsInv, Running
  <2>9. QED
    BY <2>5, <2>6, <2>7, <2>8
<1>2. CASE EndPreemption
  <2>1. /\ UNCHANGED <<class, start, listed, phase, now, due, scActive, skip, victims>>
        /\ victims = {} /\ pc = "preempt" /\ pc' = "evaluate"
    BY <1>2 DEF EndPreemption, timeline, locals
  <2>2. QED
    BY <2>1 DEF UnlistedInv, VictimsInv, ArbitrationInv, Exclusion, InPhase, Listed, Prio,
                Running, Admitted, Changing, OfPriority
<1>3. CASE FinishTick
  <2>1. /\ UNCHANGED <<class, listed, phase, victims>>
        /\ pc = "evaluate" /\ pc' = "idle"
    BY <1>3 DEF FinishTick, TickDone, timeline
  <2>2. QED
    BY <2>1 DEF UnlistedInv, VictimsInv, ArbitrationInv, Exclusion, InPhase, Listed, Prio,
                Running
<1>4. CASE AddScenario
  <2>1. /\ UNCHANGED <<class, phase, pc, victims>>
        /\ pc = "idle" /\ listed' = listed + 1
    BY <1>4 DEF AddScenario, timeline
  <2>2. Listed \subseteq Listed' /\ Listed' \subseteq Scenario
    BY <1>4 DEF AddScenario, Listed, Scenario
  <2>3. \A t \in Scenario : t \in Listed' /\ t \notin Listed => phase'[t] = "PENDING"
    BY <2>1 DEF UnlistedInv
  <2>4. \A t \in InPhase("ACTIVE")' : t \in InPhase("ACTIVE")
    BY <2>1, <2>2, <2>3 DEF InPhase
  <2>5. Exclusion'
    BY <2>1, <2>4 DEF Exclusion, Prio
  <2>6. UnlistedInv'
    BY <2>1, <2>2 DEF UnlistedInv
  <2>7. QED
    BY <2>1, <2>5, <2>6 DEF VictimsInv, ArbitrationInv
<1>5. CASE LoseLog \/ UNCHANGED vars
  <2>1. UNCHANGED <<class, start, listed, phase, now, pc, due, scActive, skip, victims>>
    BY <1>5 DEF LoseLog, vars, timeline, locals
  <2>2. QED
    BY <2>1 DEF UnlistedInv, VictimsInv, ArbitrationInv, Exclusion, InPhase, Listed, Prio,
                Running, Admitted, Changing, OfPriority
<1>6. QED
  BY <1>1, <1>2, <1>3, <1>4, <1>5

\* The invariant is inductive: Exclusion holds because of what the priority
\* pass has left in scActive, skip and victims.
LEMMA EngineStep == IInv /\ [Next]_vars => IInv'
<1> SUFFICES ASSUME IInv, [Next]_vars PROVE IInv' OBVIOUS
<1>1. TypeOK' BY StepType DEF IInv
<1>2. CASE \E s \in Scenario : Evaluate(s)
  <2>1. PICK s \in Scenario : Evaluate(s) BY <1>2
  <2>2. Iteration(s) BY <2>1, EvaluateIterates DEF IInv
  <2>3. QED BY <1>1, <2>2, IterationKeeps DEF IInv
<1>3. CASE Arbitrate BY <1>1, <1>3, ArbitrateKeeps DEF IInv
<1>4. CASE Preempt \/ EndPreemption \/ FinishTick \/ AddScenario \/ LoseLog \/ UNCHANGED vars
  BY <1>1, <1>4, OtherStepsKeep DEF IInv
<1>5. QED BY <1>2, <1>3, <1>4 DEF Next, TickStep

\* A timeline that was just built has the invariant.
LEMMA InitialIInv == Init => IInv
<1>1. Init => UnlistedInv /\ VictimsInv /\ ArbitrationInv /\ Exclusion
  BY EngineAssumption DEF Init, UnlistedInv, VictimsInv, ArbitrationInv, Exclusion, InPhase, Listed, Scenario
<1>2. QED BY <1>1, InitType DEF IInv

\* So it holds in every reachable state.
LEMMA Inductive == Spec => []IInv
BY InitialIInv, EngineStep, PTL DEF Spec

\* A non-state-changing scenario is never active beside a state-changing one.
THEOREM ExclusionHolds == Spec => []Exclusion
BY Inductive, PTL DEF IInv

-----------------------------------------------------------------------------
(***************************************************************************)
(* Every step of the engine is a step of the lifecycle, or none: the       *)
(* refinement mapping is the identity on phase, class and the log.         *)
(***************************************************************************)
\* What an admitted scenario needs to start, seen from the lifecycle.
LEMMA AdmittedMayRun ==
  ASSUME IInv, pc = "evaluate", NEW s \in Scenario, Admitted(s)
  PROVE  Lifecycle!MayRun(s)
<1> USE DEF IInv
<1>1. victims = {}
  BY DEF VictimsInv
<1>2. \A t \in Scenario : phase[t] = "ACTIVE" => Running(t)
  BY DEF UnlistedInv, Running
<1>3. ASSUME Prio(s) = StateChanging PROVE Lifecycle!ActiveOf(NonStateChanging) = {}
  <2>1. \A t \in Scenario : Running(t) => Prio(t) # NonStateChanging
    BY <1>1, <1>3 DEF ArbitrationInv
  <2>2. QED
    BY <2>1, <1>2 DEF Lifecycle!ActiveOf, Prio
<1>4. ASSUME Prio(s) = NonStateChanging PROVE Lifecycle!ActiveOf(StateChanging) = {}
  <2>1. \A t \in Scenario : Running(t) => Prio(t) # StateChanging
    BY <1>4 DEF ArbitrationInv
  <2>2. QED
    BY <2>1, <1>2 DEF Lifecycle!ActiveOf, Prio
<1>5. QED
  BY <1>3, <1>4 DEF Lifecycle!MayRun, Prio, StateChanging, NonStateChanging,
                    Lifecycle!StateChanging, Lifecycle!NonStateChanging

\* Every step of the engine is a step of the lifecycle, or none.
LEMMA StepRefines ==
  ASSUME IInv, [Next]_vars
  PROVE  [Lifecycle!Next]_(Lifecycle!vars)
<1> USE DEF Written, Lifecycle!Written, Entry, Lifecycle!Entry
<1>1. ASSUME NEW s \in Scenario, Evaluate(s)
      PROVE  Lifecycle!Next \/ UNCHANGED Lifecycle!vars
  <2>1. UNCHANGED <<class, logging>> /\ pc = "evaluate" /\ s \in Listed
    BY <1>1 DEF Evaluate, PassOver, Activate, ActivateAndComplete, Continue, RunOut, Advance,
                AtCursor, timeline
  <2>2. CASE PassOver(s) \/ Continue(s)
    BY <2>1, <2>2 DEF PassOver, Continue, Lifecycle!vars
  <2>3. CASE Activate(s)
    <3>1. Lifecycle!MayRun(s)
      BY <2>1, <2>3, AdmittedMayRun DEF Activate, Admitted
    <3>2. Lifecycle!Start(s)
      BY <2>1, <2>3, <3>1 DEF Activate, Lifecycle!Start
    <3>3. QED BY <3>2 DEF Lifecycle!Next
  <2>4. CASE ActivateAndComplete(s)
    <3>1. Lifecycle!MayRun(s)
      BY <2>1, <2>4, AdmittedMayRun DEF ActivateAndComplete, Admitted
    <3>2. Lifecycle!Flash(s)
      BY <2>1, <2>4, <3>1 DEF ActivateAndComplete, Lifecycle!Flash
    <3>3. QED BY <3>2 DEF Lifecycle!Next
  <2>5. CASE RunOut(s)
    <3>1. Lifecycle!Finish(s)
      BY <2>1, <2>5 DEF RunOut, Lifecycle!Finish
    <3>2. QED BY <3>1 DEF Lifecycle!Next
  <2>6. QED
    BY <1>1, <2>2, <2>3, <2>4, <2>5 DEF Evaluate
<1>2. CASE Preempt
  <2>1. PICK s \in victims : /\ phase' = [phase EXCEPT ![s] = "COMPLETED"]
                             /\ log' = Written(<<Entry("scenario_end", s)>>)
    BY <1>2 DEF Preempt, First
  <2>2. s \in Scenario /\ phase[s] = "ACTIVE"
    BY DEF IInv, TypeOK, VictimsInv, Running
  <2>3. UNCHANGED <<class, logging>>
    BY <1>2 DEF Preempt, timeline
  <2>4. Lifecycle!Finish(s)
    BY <2>1, <2>2, <2>3 DEF Lifecycle!Finish
  <2>5. QED BY <2>2, <2>4 DEF Lifecycle!Next
<1>3. CASE LoseLog
  <2>1. Lifecycle!LoseLog
    BY <1>3 DEF LoseLog, Lifecycle!LoseLog, timeline
  <2>2. QED BY <2>1 DEF Lifecycle!Next
<1>4. CASE Arbitrate \/ EndPreemption \/ FinishTick \/ AddScenario \/ UNCHANGED vars
  BY <1>4 DEF Arbitrate, EndPreemption, FinishTick, AddScenario, vars, timeline, truth,
              Lifecycle!vars
<1>5. QED
  BY <1>1, <1>2, <1>3, <1>4 DEF Next, TickStep

\* The engine implements the lifecycle specification.
THEOREM Refinement == Spec => ImplementsLifecycle
<1>1. Init => Lifecycle!Init
  BY DEF Init, Lifecycle!Init
<1>2. IInv /\ [Next]_vars => [Lifecycle!Next]_(Lifecycle!vars)
  BY StepRefines
<1>3. QED
  BY <1>1, <1>2, Inductive, PTL DEF Spec, ImplementsLifecycle, Lifecycle!Spec

-----------------------------------------------------------------------------
(***************************************************************************)
(* The ground truth file.  Whatever the engine writes is a record of the   *)
(* lifecycle, so the step is proved once, for the lifecycle's actions.     *)
(***************************************************************************)
\* Positions of a file that has grown by a list of records.
LEMMA Growth ==
  ASSUME TypeOK, NEW es \in Seq(Entries), log' = log \o es
  PROVE  /\ DOMAIN log = 1..Len(log) /\ Len(log) \in Nat /\ Len(es) \in Nat
         /\ DOMAIN log' = 1..(Len(log) + Len(es))
         /\ \A i \in 1..Len(log) : log'[i] = log[i]
         /\ \A i \in 1..Len(es) : log'[Len(log) + i] = es[i]
BY DEF TypeOK

\* A start record and an end record differ, and each names its scenario.
LEMMA EntryDistinct ==
  \A s, t \in Scenario :
    /\ Entry("scenario_start", s) # Entry("scenario_end", t)
    /\ Entry("scenario_start", s).scenario = s /\ Entry("scenario_start", s).event = "scenario_start"
    /\ Entry("scenario_end", s).scenario = s /\ Entry("scenario_end", s).event = "scenario_end"
BY DEF Entry

\* Every record of the file names a scenario.
LEMMA LogEntries ==
  ASSUME TypeOK
  PROVE  \A i \in DOMAIN log : log[i].scenario \in Scenario
<1>1. \A e \in Entries : e.scenario \in Scenario
  BY DEF Entries
<1>2. \A i \in DOMAIN log : log[i] \in Entries
  BY DEF TypeOK
<1>3. QED BY <1>1, <1>2

\* A file that is lost keeps what it has, and that stays true as scenarios move on.
LEMMA LostLog ==
  ASSUME TypeOK, LogFaithful, NEW s \in Scenario, log' = log, ~ logging',
         phase[s] # "COMPLETED", NEW p \in {"ACTIVE", "COMPLETED"},
         phase' = [phase EXCEPT ![s] = p]
  PROVE  LogFaithful'
<1>1. NoneAhead'
  <2>1. \A t \in Scenario : /\ phase[t] # "PENDING" => phase'[t] # "PENDING"
                            /\ phase[t] = "COMPLETED" => phase'[t] = "COMPLETED"
    BY DEF TypeOK
  <2>2. QED BY <2>1, LogEntries DEF LogFaithful, NoneAhead
<1>2. QED
  BY <1>1 DEF LogFaithful, WrittenOnce, EndAfterStart, NothingMissing, Entry

\* A scenario that starts and is recorded leaves the file faithful.
LEMMA StepStart ==
  ASSUME TypeOK, LogFaithful, NEW s \in Scenario, logging, logging',
         phase[s] = "PENDING", phase' = [phase EXCEPT ![s] = "ACTIVE"],
         log' = log \o <<Entry("scenario_start", s)>>
  PROVE  LogFaithful'
<1>1. /\ DOMAIN log = 1..Len(log) /\ Len(log) \in Nat
      /\ DOMAIN log' = 1..(Len(log) + 1)
      /\ \A i \in 1..Len(log) : log'[i] = log[i]
      /\ log'[Len(log) + 1] = Entry("scenario_start", s)
  <2>1. <<Entry("scenario_start", s)>> \in Seq(Entries)
    BY EntryType
  <2>2. QED BY <2>1, Growth
<1>2. \A i \in 1..Len(log) : log[i].scenario # s /\ log[i].scenario \in Scenario
  BY <1>1, LogEntries DEF LogFaithful, NoneAhead
<1>3. WrittenOnce'
  BY <1>1, <1>2, EntryDistinct DEF LogFaithful, WrittenOnce
<1>4. NoneAhead'
  BY <1>1, <1>2, EntryDistinct DEF LogFaithful, NoneAhead, TypeOK
<1>5. EndAfterStart'
  BY <1>1, EntryDistinct DEF LogFaithful, EndAfterStart, Entry
<1>6. NothingMissing'
  <2> SUFFICES ASSUME NEW t \in Scenario
               PROVE  /\ phase'[t] # "PENDING"
                            => \E i \in DOMAIN log' : log'[i] = Entry("scenario_start", t)
                      /\ phase'[t] = "COMPLETED"
                            => \E i \in DOMAIN log' : log'[i] = Entry("scenario_end", t)
    BY DEF NothingMissing, Entry
  <2>1. CASE t = s
    <3>1. phase'[t] = "ACTIVE"
      BY <2>1 DEF TypeOK
    <3>2. Len(log) + 1 \in DOMAIN log' /\ log'[Len(log) + 1] = Entry("scenario_start", t)
      BY <2>1, <1>1
    <3>3. QED BY <3>1, <3>2
  <2>2. CASE t # s
    BY <2>2, <1>1 DEF TypeOK, LogFaithful, NothingMissing
  <2>3. QED BY <2>1, <2>2
<1>7. QED
  BY <1>3, <1>4, <1>5, <1>6 DEF LogFaithful

\* A scenario that ends and is recorded leaves the file faithful.
LEMMA StepFinish ==
  ASSUME TypeOK, LogFaithful, NEW s \in Scenario, logging, logging',
         phase[s] = "ACTIVE", phase' = [phase EXCEPT ![s] = "COMPLETED"],
         log' = log \o <<Entry("scenario_end", s)>>
  PROVE  LogFaithful'
<1>1. /\ DOMAIN log = 1..Len(log) /\ Len(log) \in Nat
      /\ DOMAIN log' = 1..(Len(log) + 1)
      /\ \A i \in 1..Len(log) : log'[i] = log[i]
      /\ log'[Len(log) + 1] = Entry("scenario_end", s)
  <2>1. <<Entry("scenario_end", s)>> \in Seq(Entries)
    BY EntryType
  <2>2. QED BY <2>1, Growth
<1>2. PICK k \in 1..Len(log) : log[k] = Entry("scenario_start", s)
  BY <1>1 DEF LogFaithful, NothingMissing
<1>3. \A i \in 1..Len(log) : log[i] # Entry("scenario_end", s) /\ log[i].scenario \in Scenario
  BY <1>1, LogEntries, EntryDistinct DEF LogFaithful, NoneAhead
<1>4. WrittenOnce'
  BY <1>1, <1>3 DEF LogFaithful, WrittenOnce
<1>5. NoneAhead'
  BY <1>1, <1>3, EntryDistinct DEF LogFaithful, NoneAhead, TypeOK
<1>6. EndAfterStart'
  BY <1>1, <1>2, EntryDistinct DEF LogFaithful, EndAfterStart, Entry
<1>7. NothingMissing'
  <2> SUFFICES ASSUME NEW t \in Scenario
               PROVE  /\ phase'[t] # "PENDING"
                            => \E i \in DOMAIN log' : log'[i] = Entry("scenario_start", t)
                      /\ phase'[t] = "COMPLETED"
                            => \E i \in DOMAIN log' : log'[i] = Entry("scenario_end", t)
    BY DEF NothingMissing, Entry
  <2>1. CASE t = s
    <3>1. k \in DOMAIN log' /\ log'[k] = Entry("scenario_start", t)
      BY <2>1, <1>1, <1>2
    <3>2. Len(log) + 1 \in DOMAIN log' /\ log'[Len(log) + 1] = Entry("scenario_end", t)
      BY <2>1, <1>1
    <3>3. QED BY <3>1, <3>2
  <2>2. CASE t # s
    BY <2>2, <1>1 DEF TypeOK, LogFaithful, NothingMissing
  <2>3. QED BY <2>1, <2>2
<1>8. QED
  BY <1>4, <1>5, <1>6, <1>7 DEF LogFaithful

\* A scenario that starts and ends in one call leaves the file faithful.
LEMMA StepFlash ==
  ASSUME TypeOK, LogFaithful, NEW s \in Scenario, logging, logging',
         phase[s] = "PENDING", phase' = [phase EXCEPT ![s] = "COMPLETED"],
         log' = log \o <<Entry("scenario_start", s), Entry("scenario_end", s)>>
  PROVE  LogFaithful'
<1>1. /\ DOMAIN log = 1..Len(log) /\ Len(log) \in Nat
      /\ DOMAIN log' = 1..(Len(log) + 2)
      /\ \A i \in 1..Len(log) : log'[i] = log[i]
      /\ log'[Len(log) + 1] = Entry("scenario_start", s)
      /\ log'[Len(log) + 2] = Entry("scenario_end", s)
  <2> DEFINE es == <<Entry("scenario_start", s), Entry("scenario_end", s)>>
  <2>1. es \in Seq(Entries) /\ Len(es) = 2
    BY EntryType
  <2>2. es[1] = Entry("scenario_start", s) /\ es[2] = Entry("scenario_end", s)
    OBVIOUS
  <2> HIDE DEF es
  <2>3. log' = log \o es
    BY DEF es
  <2>4. QED BY <2>1, <2>2, <2>3, Growth
<1>2. \A i \in 1..Len(log) : log[i].scenario # s /\ log[i].scenario \in Scenario
  BY <1>1, LogEntries DEF LogFaithful, NoneAhead
<1>3. WrittenOnce'
  BY <1>1, <1>2, EntryDistinct DEF LogFaithful, WrittenOnce
<1>4. NoneAhead'
  BY <1>1, <1>2, EntryDistinct DEF LogFaithful, NoneAhead, TypeOK
<1>5. EndAfterStart'
  <2>1. \A i \in 1..Len(log) : log[i].event = "scenario_end" =>
          \E j \in 1..Len(log) : j < i /\ log[j] = Entry("scenario_start", log[i].scenario)
    BY <1>1 DEF LogFaithful, EndAfterStart
  <2>2. ASSUME NEW i \in 1..(Len(log) + 2), log'[i].event = "scenario_end"
        PROVE  \E j \in 1..(Len(log) + 2) :
                 j < i /\ log'[j] = Entry("scenario_start", log'[i].scenario)
    <3>1. CASE i \in 1..Len(log)
      <4>1. log'[i] = log[i]
        BY <3>1, <1>1
      <4>2. PICK j \in 1..Len(log) : j < i /\ log[j] = Entry("scenario_start", log[i].scenario)
        BY <2>2, <3>1, <2>1, <4>1
      <4>3. j \in 1..(Len(log) + 2) /\ log'[j] = log[j]
        BY <1>1
      <4>4. QED BY <4>1, <4>2, <4>3
    <3>2. CASE i = Len(log) + 1
      BY <2>2, <3>2, <1>1, EntryDistinct
    <3>3. CASE i = Len(log) + 2
      <4>1. Len(log) + 1 \in 1..(Len(log) + 2) /\ Len(log) + 1 < i
        BY <3>3, <1>1
      <4>2. log'[i] = Entry("scenario_end", s)
        BY <3>3, <1>1
      <4>3. log'[i].scenario = s
        BY <4>2, EntryDistinct
      <4>4. log'[Len(log) + 1] = Entry("scenario_start", log'[i].scenario)
        BY <4>3, <1>1
      <4>5. QED BY <4>1, <4>4
    <3>4. i \in 1..Len(log) \/ i = Len(log) + 1 \/ i = Len(log) + 2
      BY <1>1
    <3>5. QED BY <3>1, <3>2, <3>3, <3>4
  <2>3. DOMAIN log' = 1..(Len(log) + 2)
    BY <1>1
  <2> HIDE <1>1
  <2>4. \A i \in DOMAIN log' : log'[i].event = "scenario_end" =>
          \E j \in DOMAIN log' : j < i /\ log'[j] = Entry("scenario_start", log'[i].scenario)
    BY <2>2, <2>3
  <2>5. QED BY <2>4 DEF EndAfterStart, Entry
<1>6. NothingMissing'
  <2> SUFFICES ASSUME NEW t \in Scenario
               PROVE  /\ phase'[t] # "PENDING"
                            => \E i \in DOMAIN log' : log'[i] = Entry("scenario_start", t)
                      /\ phase'[t] = "COMPLETED"
                            => \E i \in DOMAIN log' : log'[i] = Entry("scenario_end", t)
    BY DEF NothingMissing, Entry
  <2>1. CASE t = s
    <3>1. Len(log) + 1 \in DOMAIN log' /\ log'[Len(log) + 1] = Entry("scenario_start", t)
      BY <2>1, <1>1
    <3>2. Len(log) + 2 \in DOMAIN log' /\ log'[Len(log) + 2] = Entry("scenario_end", t)
      BY <2>1, <1>1
    <3>3. QED BY <3>1, <3>2
  <2>2. CASE t # s
    <3>1. phase'[t] = phase[t] /\ logging BY <2>2, <1>1 DEF TypeOK
    <3>2. \A i \in DOMAIN log : i \in DOMAIN log' /\ log'[i] = log[i] BY <1>1
    <3>3. QED BY <3>1, <3>2 DEF LogFaithful, NothingMissing, Entry
  <2>3. QED BY <2>1, <2>2
<1>7. QED
  BY <1>3, <1>4, <1>5, <1>6 DEF LogFaithful

\* Every step of the lifecycle keeps the file faithful.
LEMMA StepLogFaithful ==
  ASSUME TypeOK, LogFaithful, [Lifecycle!Next]_(Lifecycle!vars)
  PROVE  LogFaithful'
<1> USE DEF Lifecycle!Written, Lifecycle!Entry, Entry
<1>1. ASSUME NEW s \in Scenario, Lifecycle!Start(s)
      PROVE  LogFaithful'
  <2>1. /\ phase[s] = "PENDING" /\ phase' = [phase EXCEPT ![s] = "ACTIVE"]
        /\ logging' = logging
    BY <1>1 DEF Lifecycle!Start
  <2>2. CASE logging
    BY <1>1, <2>1, <2>2, StepStart DEF Lifecycle!Start
  <2>3. CASE ~ logging
    <3>1. log' = log /\ ~ logging' /\ phase[s] # "COMPLETED"
      BY <1>1, <2>1, <2>3 DEF Lifecycle!Start
    <3>2. QED BY <2>1, <3>1, LostLog
  <2>4. QED BY <2>2, <2>3
<1>2. ASSUME NEW s \in Scenario, Lifecycle!Finish(s)
      PROVE  LogFaithful'
  <2>1. /\ phase[s] = "ACTIVE" /\ phase' = [phase EXCEPT ![s] = "COMPLETED"]
        /\ logging' = logging
    BY <1>2 DEF Lifecycle!Finish
  <2>2. CASE logging
    BY <1>2, <2>1, <2>2, StepFinish DEF Lifecycle!Finish
  <2>3. CASE ~ logging
    <3>1. log' = log /\ ~ logging' /\ phase[s] # "COMPLETED"
      BY <1>2, <2>1, <2>3 DEF Lifecycle!Finish
    <3>2. QED BY <2>1, <3>1, LostLog
  <2>4. QED BY <2>2, <2>3
<1>3. ASSUME NEW s \in Scenario, Lifecycle!Flash(s)
      PROVE  LogFaithful'
  <2>1. /\ phase[s] = "PENDING" /\ phase' = [phase EXCEPT ![s] = "COMPLETED"]
        /\ logging' = logging
    BY <1>3 DEF Lifecycle!Flash
  <2>2. CASE logging
    BY <1>3, <2>1, <2>2, StepFlash DEF Lifecycle!Flash
  <2>3. CASE ~ logging
    <3>1. log' = log /\ ~ logging' /\ phase[s] # "COMPLETED"
      BY <1>3, <2>1, <2>3 DEF Lifecycle!Flash
    <3>2. QED BY <2>1, <3>1, LostLog
  <2>4. QED BY <2>2, <2>3
<1>4. CASE Lifecycle!LoseLog \/ UNCHANGED Lifecycle!vars
  <2>1. log' = log /\ phase' = phase
    BY <1>4 DEF Lifecycle!LoseLog, Lifecycle!vars
  <2>2. logging' => logging
    BY <1>4 DEF Lifecycle!LoseLog, Lifecycle!vars
  <2>3. WrittenOnce' /\ NoneAhead' /\ EndAfterStart'
    BY <2>1 DEF LogFaithful, WrittenOnce, NoneAhead, EndAfterStart
  <2>4. NothingMissing'
    BY <2>1, <2>2 DEF LogFaithful, NothingMissing
  <2>5. QED BY <2>3, <2>4 DEF LogFaithful
<1>5. QED
  BY <1>1, <1>2, <1>3, <1>4 DEF Lifecycle!Next

\* The ground truth file tells the truth about every scenario, at every moment.
THEOREM LogFaithfulHolds == Spec => []LogFaithful
<1>1. Init => LogFaithful
  <2> SUFFICES ASSUME Init PROVE LogFaithful OBVIOUS
  <2>1. DOMAIN log = {} /\ \A s \in Scenario : phase[s] = "PENDING"
    BY DEF Init
  <2>2. QED
    BY <2>1 DEF LogFaithful, WrittenOnce, NoneAhead, EndAfterStart, NothingMissing
<1>2. IInv /\ LogFaithful /\ [Next]_vars => LogFaithful'
  BY StepRefines, StepLogFaithful DEF IInv
<1>3. QED
  BY <1>1, <1>2, Inductive, PTL DEF Spec

-----------------------------------------------------------------------------
(***************************************************************************)
(* Who starts in a tick, and who waits.                                    *)
(***************************************************************************)
\* A nonempty set of numbers has a least one: without it, going one down
\* would map the numbers from the set upwards one to one into themselves,
\* and onto themselves, since they are finite, but nothing is mapped to n.
LEMMA HasLeast ==
  ASSUME NEW n \in Nat, NEW S \in SUBSET (0..n), S # {}
  PROVE  \E s \in S : \A t \in S : s <= t
<1> SUFFICES ASSUME \A s \in S : \E t \in S : ~ (s <= t) PROVE FALSE OBVIOUS
<1> DEFINE U == {u \in 0..n : \E s \in S : s <= u}
           down == [u \in U |-> u - 1]
<1>2. \A u \in U : u - 1 \in U
  <2> SUFFICES ASSUME NEW u \in 0..n, NEW s \in S, s <= u PROVE u - 1 \in U OBVIOUS
  <2>1. PICK t \in S : ~ (s <= t) OBVIOUS
  <2>2. t <= u - 1 /\ u - 1 \in 0..n BY <2>1
  <2>3. QED BY <2>2
<1>3. down \in [U -> U] BY <1>2
<1>4. \A u, v \in U : down[u] = down[v] => u = v OBVIOUS
<1>5. down \in Injection(U, U) BY <1>3, <1>4 DEF Injection, IsInjective
<1>6. IsFiniteSet(U)
  <2>1. U \subseteq 0..n /\ IsFiniteSet(0..n) BY FS_Interval
  <2>2. QED BY <2>1, FS_Subset
<1>7. down \in Surjection(U, U)
  <2> HIDE DEF down, U
  <2>1. QED BY <1>5, <1>6, FS_Injection
<1>8. n \in U
  <2>1. PICK s : s \in S OBVIOUS
  <2>2. s \in 0..n BY <2>1
  <2>3. s <= n /\ n \in 0..n BY <2>2
  <2>4. QED BY <2>1, <2>3
<1>9. PICK u \in U : down[u] = n
  <2> HIDE DEF down, U
  <2>1. QED BY <1>7, <1>8 DEF Surjection
<1>10. QED BY <1>9

\* So a nonempty set of scenarios has a first one.
LEMMA HasFirst ==
  ASSUME NEW S \in SUBSET Scenario, S # {} PROVE First(S) # {}
<1>1. N \in Nat /\ S \in SUBSET (0..N) BY EngineAssumption DEF Scenario
<1>2. PICK s \in S : \A t \in S : s <= t BY <1>1, HasLeast
<1>3. QED BY <1>2 DEF First

\* How far the tick has come: of those due, the ones before the cursor have
\* started, but for the deferred, and nobody else.
ProgressInv ==
  pc # "idle" =>
    /\ due \subseteq Listed
    /\ \A s \in due : now >= start[s]
    /\ skip = (Changing(due) \ First(Changing(due)))
                \union (IF scActive THEN OfPriority(due, NonStateChanging) ELSE {})
    /\ scActive => \/ Changing(due) # {}
                   \/ \E t \in Listed : Prio(t) = StateChanging /\ phase[t] # "PENDING"
    /\ pc = "preempt" => cursor = 1
    /\ \A s \in due : phase[s] # "PENDING" <=> pc = "evaluate" /\ s < cursor /\ s \notin skip

\* No step lets a waiting scenario forget what it waits for.
LEMMA ProgressKept ==
  ASSUME IInv, ProgressInv, [Next]_vars PROVE ProgressInv'
<1> USE DEF IInv, TypeOK
<1>1. CASE Arbitrate
  <2>1. /\ UNCHANGED <<class, start, listed, phase>> /\ pc' = "preempt" /\ cursor' = 1
        /\ due' = DueAt(now') /\ scActive' = Blocked(due') /\ skip' = Deferred(due')
    BY <1>1 DEF Arbitrate, timeline, truth
  <2>2. /\ Listed' = Listed /\ \A s : Prio(s)' = Prio(s)
        /\ \A D : OfPriority(D, NonStateChanging)' = OfPriority(D', NonStateChanging)
        /\ Changing(due)' = Changing(due')
    BY <2>1 DEF Listed, Prio, Changing, OfPriority
  <2>3. due' \subseteq Listed' /\ \A s \in due' : now' >= start'[s] /\ phase'[s] = "PENDING"
    BY <2>1, <2>2 DEF DueAt, InPhase
  <2>4. skip' = (Changing(due') \ First(Changing(due')))
                  \union (IF scActive' THEN OfPriority(due', NonStateChanging) ELSE {})
    BY <2>1 DEF Deferred
  <2>5. scActive' => \/ Changing(due') # {}
                     \/ \E t \in Listed' : Prio(t)' = StateChanging /\ phase'[t] # "PENDING"
    BY <2>1, <2>2 DEF Blocked, OfPriority, InPhase
  <2>6. First(Changing(due))' = First(Changing(due')) BY <2>2 DEF First
  <2>7. OfPriority(due, NonStateChanging)' = OfPriority(due', NonStateChanging)
    BY <2>1 DEF OfPriority, Prio
  <2>8. QED BY <2>1, <2>2, <2>3, <2>4, <2>5, <2>6, <2>7 DEF ProgressInv
<1>2. ASSUME NEW s \in Scenario, Evaluate(s) PROVE ProgressInv'
  <2>1. /\ pc = "evaluate" /\ s = cursor /\ s \in Listed /\ cursor' = cursor + 1
        /\ UNCHANGED <<class, start, listed, now, pc, due, scActive, skip>>
    BY <1>2 DEF Evaluate, PassOver, Activate, ActivateAndComplete, Continue, RunOut, Advance,
                AtCursor, timeline, locals
  <2>2. /\ Listed' = Listed /\ Changing(due)' = Changing(due)
        /\ OfPriority(due, NonStateChanging)' = OfPriority(due, NonStateChanging)
        /\ First(Changing(due))' = First(Changing(due))
        /\ \A t \in Scenario : Prio(t)' = Prio(t)
    BY <2>1 DEF Listed, Prio, Changing, OfPriority, First
  <2>3. \A t \in Scenario : t # s => phase'[t] = phase[t]
    BY <1>2 DEF Evaluate, PassOver, Activate, ActivateAndComplete, Continue, RunOut
  <2>4. phase[s] # "PENDING" => phase'[s] # "PENDING"
    BY <1>2 DEF Evaluate, PassOver, Activate, ActivateAndComplete, Continue, RunOut
  <2>5. s \in due => phase[s] = "PENDING" /\ now >= start[s]
    BY <2>1 DEF ProgressInv
  <2>6. s \in due => (phase'[s] # "PENDING" <=> s \notin skip)
    BY <1>2, <2>5 DEF Evaluate, PassOver, Activate, ActivateAndComplete, Continue, RunOut
  <2>7. Listed \subseteq Scenario /\ Scenario \subseteq Nat
    BY EngineAssumption DEF Listed, Scenario
  <2>8. \A t \in due : phase'[t] # "PENDING" <=> t < cursor' /\ t \notin skip
    <3> SUFFICES ASSUME NEW t \in due
                 PROVE  phase'[t] # "PENDING" <=> t < cursor' /\ t \notin skip
      OBVIOUS
    <3>1. CASE t = s BY <2>1, <2>6, <2>7, <3>1
    <3>2. CASE t # s
      <4>1. t < cursor' <=> t < cursor BY <2>1, <2>7, <3>2
      <4>2. phase[t] # "PENDING" <=> t < cursor /\ t \notin skip BY <2>1 DEF ProgressInv
      <4>3. QED BY <2>3, <3>2, <4>1, <4>2
    <3>3. QED BY <3>1, <3>2
  <2>9. \A t \in Listed : phase[t] # "PENDING" => phase'[t] # "PENDING"
    BY <2>3, <2>4, <2>7
  <2>10. QED BY <2>1, <2>2, <2>7, <2>8, <2>9 DEF ProgressInv
<1>3. CASE Preempt
  <2>1. PICK v \in victims : phase' = [phase EXCEPT ![v] = "COMPLETED"]
    BY <1>3 DEF Preempt, First
  <2>2. /\ UNCHANGED <<class, start, listed, now, pc, cursor, due, scActive, skip>>
        /\ pc = "preempt"
    BY <1>3 DEF Preempt, timeline, locals
  <2>3. v \notin due /\ v \in Scenario
    BY <2>2 DEF ProgressInv, VictimsInv, Running
  <2>4. /\ Listed' = Listed /\ Changing(due)' = Changing(due)
        /\ OfPriority(due, NonStateChanging)' = OfPriority(due, NonStateChanging)
        /\ First(Changing(due))' = First(Changing(due))
        /\ \A t \in Scenario : Prio(t)' = Prio(t)
    BY <2>2 DEF Listed, Prio, Changing, OfPriority, First
  <2>5. /\ \A t \in due : phase'[t] = phase[t]
        /\ \A t \in Listed : phase[t] # "PENDING" => phase'[t] # "PENDING"
    BY <2>1, <2>3 DEF Listed
  <2>6. Listed \subseteq Scenario BY EngineAssumption DEF Listed, Scenario
  <2>7. QED BY <2>2, <2>4, <2>5, <2>6 DEF ProgressInv
<1>4. CASE EndPreemption
  <2>1. /\ UNCHANGED <<class, start, listed, phase, now, cursor, due, scActive, skip>>
        /\ pc = "preempt" /\ pc' = "evaluate"
    BY <1>4 DEF EndPreemption, timeline, locals, truth
  <2>2. /\ Listed' = Listed /\ Changing(due)' = Changing(due)
        /\ OfPriority(due, NonStateChanging)' = OfPriority(due, NonStateChanging)
        /\ First(Changing(due))' = First(Changing(due))
        /\ \A t : Prio(t)' = Prio(t)
    BY <2>1 DEF Listed, Prio, Changing, OfPriority, First
  <2>3. due \subseteq Nat BY EngineAssumption DEF Scenario
  <2>4. \A s \in due : ~ (s < cursor) BY <2>1, <2>3, EngineAssumption DEF ProgressInv, Scenario
  <2>5. QED BY <2>1, <2>2, <2>4 DEF ProgressInv
<1>5. CASE FinishTick \/ AddScenario
  BY <1>5 DEF FinishTick, AddScenario, ProgressInv
<1>6. CASE LoseLog \/ UNCHANGED vars
  <2>1. UNCHANGED <<class, start, listed, phase, now, pc, cursor, due, scActive, skip>>
    BY <1>6 DEF LoseLog, vars, timeline, locals
  <2>2. QED BY <2>1 DEF ProgressInv, Listed, Prio, Changing, OfPriority, First
<1>7. QED BY <1>1, <1>2, <1>3, <1>4, <1>5, <1>6 DEF Next, TickStep

\* So both hold in every reachable state.
LEMMA Progress == Spec => [](IInv /\ ProgressInv)
<1>1. Init => ProgressInv BY DEF Init, ProgressInv
<1>2. IInv /\ ProgressInv /\ [Next]_vars => ProgressInv' BY ProgressKept
<1>3. QED BY <1>1, <1>2, Inductive, PTL DEF Spec

\* When the loop is over, those due that still wait are the deferred ones.
LEMMA WaitingAreDeferred ==
  ASSUME IInv, ProgressInv, TickDone
  PROVE  \A s \in due : phase[s] # "PENDING" <=> s \notin skip
<1> SUFFICES ASSUME NEW s \in due PROVE phase[s] # "PENDING" <=> s \notin skip OBVIOUS
<1>1. s \in 1..listed /\ cursor = listed + 1 /\ pc = "evaluate" /\ listed \in Nat
  BY EngineAssumption DEF ProgressInv, TickDone, Listed, IInv, TypeOK
<1>2. s < cursor BY <1>1
<1>3. QED BY <1>1, <1>2 DEF ProgressInv

\* The first of the state changes that are due is let through.
LEMMA FirstIsLetThrough ==
  ASSUME IInv, ProgressInv, pc # "idle", NEW s \in Changing(due)
  PROVE  s \in First(Changing(due)) <=> s \notin skip
<1>1. s \notin OfPriority(due, NonStateChanging)
  BY PrioritiesDiffer DEF Changing, OfPriority
<1>2. QED BY <1>1 DEF ProgressInv

\* Of the state-changing scenarios due in a tick exactly the first of the list
\* starts; no other is lost, or let through beside it.
THEOREM OneStateChangeHolds == Spec => []OneStateChangePerTick
<1>1. ASSUME IInv, ProgressInv PROVE OneStateChangePerTick
  <2> SUFFICES ASSUME TickDone, NEW s \in Changing(due)
               PROVE  phase[s] # "PENDING" <=> s \in First(Changing(due))
    BY DEF OneStateChangePerTick
  <2>1. s \in due BY DEF Changing, OfPriority
  <2>2. phase[s] # "PENDING" <=> s \notin skip BY <1>1, <2>1, WaitingAreDeferred
  <2>3. s \in First(Changing(due)) <=> s \notin skip
    BY <1>1, FirstIsLetThrough DEF TickDone
  <2>4. QED BY <2>2, <2>3
<1>2. QED BY <1>1, Progress, PTL

\* Background and micro scenarios start in the tick they fall due, and who is
\* left waiting waits for a state change that has started.
THEOREM WaitsHolds == Spec => []WaitsOnlyForStateChange
<1>1. ASSUME IInv, ProgressInv PROVE WaitsOnlyForStateChange
  <2> SUFFICES ASSUME TickDone, NEW s \in due, phase[s] = "PENDING"
               PROVE  /\ Prio(s) \in {StateChanging, NonStateChanging}
                      /\ \E t \in Listed \ {s} : Prio(t) = StateChanging /\ phase[t] # "PENDING"
    BY DEF WaitsOnlyForStateChange
  <2>1. pc # "idle" /\ due \subseteq Listed BY <1>1 DEF TickDone, ProgressInv
  <2>2. s \in skip BY <1>1, WaitingAreDeferred
  <2>3. \/ s \in Changing(due) \ First(Changing(due))
        \/ scActive /\ s \in OfPriority(due, NonStateChanging)
    BY <1>1, <2>1, <2>2 DEF ProgressInv
  <2>4. ASSUME NEW t \in First(Changing(due))
        PROVE  t \in Listed /\ Prio(t) = StateChanging /\ phase[t] # "PENDING"
    <3>1. t \in Changing(due) /\ t \in due BY DEF First, Changing, OfPriority
    <3>2. t \notin skip BY <1>1, <2>1, <3>1, FirstIsLetThrough
    <3>3. phase[t] # "PENDING" BY <1>1, <3>1, <3>2, WaitingAreDeferred
    <3>4. QED BY <2>1, <3>1, <3>3 DEF Changing, OfPriority
  <2>5. Changing(due) # {} => First(Changing(due)) # {}
    BY <1>1, HasFirst DEF IInv, TypeOK, Changing, OfPriority
  <2>6. CASE s \in Changing(due) \ First(Changing(due))
    <3>1. PICK t \in First(Changing(due)) : t # s BY <2>5, <2>6
    <3>2. t \in Listed /\ Prio(t) = StateChanging /\ phase[t] # "PENDING" BY <2>4
    <3>3. Prio(s) = StateChanging BY <2>6 DEF Changing, OfPriority
    <3>4. QED BY <3>1, <3>2, <3>3
  <2>7. CASE scActive /\ s \in OfPriority(due, NonStateChanging)
    <3>1. Prio(s) = NonStateChanging BY <2>7 DEF OfPriority
    <3>2. PICK t \in Listed : Prio(t) = StateChanging /\ phase[t] # "PENDING"
      BY <1>1, <2>1, <2>4, <2>5, <2>7 DEF ProgressInv
    <3>3. t # s BY <3>1, <3>2, PrioritiesDiffer
    <3>4. QED BY <3>1, <3>2, <3>3
  <2>8. QED BY <2>3, <2>6, <2>7
<1>2. QED BY <1>1, Progress, PTL

\* Only a non-state-changing scenario is ever cut short of its duration.
THEOREM CutShortHolds == Spec => []OnlyDisturbancesCutShort
<1>1. ASSUME Init PROVE OnlyDisturbancesCutShort
  <2>1. Listed \subseteq Scenario BY <1>1, EngineAssumption DEF Init, Listed, Scenario
  <2>2. InPhase("COMPLETED") = {} BY <1>1, <2>1 DEF Init, InPhase
  <2>3. QED BY <2>2 DEF OnlyDisturbancesCutShort
<1>2. ASSUME IInv, OnlyDisturbancesCutShort, [Next]_vars PROVE OnlyDisturbancesCutShort'
  <2> USE <1>2 DEF IInv, TypeOK
  <2>1. Listed \subseteq Scenario BY EngineAssumption DEF Listed, Scenario
  <2>2. ASSUME NEW s \in Scenario, Evaluate(s) PROVE OnlyDisturbancesCutShort'
    <3>1. UNCHANGED <<class, duration, listed>>
      BY <2>2 DEF Evaluate, PassOver, Activate, ActivateAndComplete, Continue, RunOut, Advance,
                  timeline
    <3>2. Listed' = Listed /\ \A t : Prio(t)' = Prio(t) BY <3>1 DEF Listed, Prio
    <3>3. \A t \in Scenario : t # s => phase'[t] = phase[t] /\ elapsed'[t] = elapsed[t]
      BY <2>2 DEF Evaluate, PassOver, Activate, ActivateAndComplete, Continue, RunOut
    <3>4. phase'[s] = "COMPLETED" => \/ phase[s] = "COMPLETED" /\ elapsed'[s] = elapsed[s]
                                     \/ elapsed'[s] >= duration[s]
      BY <2>2 DEF Evaluate, PassOver, Activate, ActivateAndComplete, Continue, RunOut
    <3>5. QED BY <2>1, <3>1, <3>2, <3>3, <3>4 DEF OnlyDisturbancesCutShort, InPhase
  <2>3. CASE Preempt
    <3>1. PICK v \in victims : phase' = [phase EXCEPT ![v] = "COMPLETED"]
      BY <2>3 DEF Preempt, First
    <3>2. UNCHANGED <<class, duration, listed, elapsed>> BY <2>3 DEF Preempt, timeline
    <3>3. Prio(v) = NonStateChanging BY DEF VictimsInv
    <3>4. Listed' = Listed /\ \A t : Prio(t)' = Prio(t) BY <3>2 DEF Listed, Prio
    <3>5. QED BY <2>1, <3>1, <3>2, <3>3, <3>4 DEF OnlyDisturbancesCutShort, InPhase
  <2>4. CASE AddScenario
    <3>1. UNCHANGED <<class, duration, phase, elapsed>> /\ listed' = listed + 1
      BY <2>4 DEF AddScenario, timeline
    <3>2. Listed' \subseteq Scenario BY <2>4, <3>1, EngineAssumption DEF AddScenario, Listed, Scenario
    <3>3. InPhase("COMPLETED")' \subseteq InPhase("COMPLETED")
      BY <3>1, <3>2 DEF InPhase, UnlistedInv
    <3>4. QED BY <3>1, <3>3 DEF OnlyDisturbancesCutShort, Prio
  <2>5. CASE Arbitrate \/ EndPreemption \/ FinishTick \/ LoseLog \/ UNCHANGED vars
    <3>1. UNCHANGED <<class, duration, listed, phase, elapsed>>
      BY <2>5 DEF Arbitrate, EndPreemption, FinishTick, LoseLog, vars, timeline, truth
    <3>2. QED BY <3>1 DEF OnlyDisturbancesCutShort, InPhase, Listed, Prio
  <2>6. QED BY <2>2, <2>3, <2>4, <2>5 DEF Next, TickStep
<1>3. QED BY <1>1, <1>2, Inductive, PTL DEF Spec

-----------------------------------------------------------------------------
(***************************************************************************)
(* Counting.                                                               *)
(***************************************************************************)
\* What holds of zero and is handed on from each number to the next holds of
\* all numbers up to n.
LEMMA UpTo ==
  ASSUME NEW n \in Nat, NEW G \in SUBSET (0..n), 0 \in G,
         \A k \in 0..n : k \in G /\ k < n => k + 1 \in G
  PROVE  G = 0..n
<1> SUFFICES ASSUME (0..n) \ G # {} PROVE FALSE OBVIOUS
<1>1. PICK s \in (0..n) \ G : \A t \in (0..n) \ G : s <= t
  <2>1. (0..n) \ G \in SUBSET (0..n) OBVIOUS
  <2>2. QED BY <2>1, HasLeast
<1>2. s - 1 \in 0..n /\ s - 1 \notin (0..n) \ G BY <1>1
<1>3. QED BY <1>1, <1>2

\* What is a function on the first n numbers is a sequence of length n, and
\* appending to it extends the function.
LEMMA FunctionIsSeq ==
  ASSUME NEW n \in Nat, NEW T, NEW s \in [1..n -> T]
  PROVE  s \in Seq(T) /\ Len(s) = n
<1>1. s \in Seq(T) BY SeqDef
<1>2. Len(s) \in Nat /\ DOMAIN s = 1..Len(s) BY <1>1, LenProperties
<1>3. 1..Len(s) = 1..n BY <1>2
<1>4. QED BY <1>1, <1>2, <1>3

\* The elements of a sequence to which one was appended.
LEMMA AppendExtends ==
  ASSUME NEW n \in Nat, NEW T, NEW s \in [1..n -> T], NEW x
  PROVE  /\ Len(Append(s, x)) = n + 1
         /\ \A e \in 1..n : Append(s, x)[e] = s[e]
         /\ Append(s, x)[n + 1] = x
         /\ Append(s, x) \in [1..(n + 1) -> T \union {x}]
<1> DEFINE U == T \union {x}
<1>1. x \in U /\ s \in [1..n -> U] OBVIOUS
<1> HIDE DEF U
<1>2. s \in Seq(U) /\ Len(s) = n BY <1>1, FunctionIsSeq
<1>3. /\ Append(s, x) \in Seq(U) /\ Len(Append(s, x)) = n + 1
      /\ \A e \in 1..n : Append(s, x)[e] = s[e]
      /\ Append(s, x)[n + 1] = x
  BY <1>1, <1>2
<1>4. Append(s, x) \in [1..(n + 1) -> U] BY <1>3, LenProperties
<1>5. QED BY <1>3, <1>4 DEF U

\* One to one between two finite sets of a size is onto.
LEMMA OneToOneIsOnto ==
  ASSUME NEW S, NEW T, IsFiniteSet(T), Cardinality(S) = Cardinality(T),
         NEW f \in [S -> T], \A x, y \in S : f[x] = f[y] => x = y
  PROVE  \A t \in T : \E x \in S : f[x] = t
<1>1. f \in Injection(S, T) BY DEF Injection, IsInjective
<1>2. f \in Surjection(S, T) BY <1>1, FS_Injection
<1>3. QED BY <1>2 DEF Surjection

\* A finite set with a strict total order R can be put in that order: the
\* number of smaller members gives each member its place.
LEMMA OrderExists ==
  ASSUME NEW S, IsFiniteSet(S), NEW R,
         \A a \in S : <<a, a>> \notin R,
         \A a, b \in S : a # b => <<a, b>> \in R \/ <<b, a>> \in R,
         \A a, b, c \in S : <<a, b>> \in R /\ <<b, c>> \in R => <<a, c>> \in R
  PROVE  \E f \in [1..Cardinality(S) -> S] :
           \A i, j \in 1..Cardinality(S) : i < j => <<f[i], f[j]>> \in R /\ f[i] # f[j]
<1> DEFINE n == Cardinality(S)
           Below(a) == {b \in S : <<b, a>> \in R}
           rank == [a \in S |-> Cardinality(Below(a)) + 1]
<1>1. n \in Nat BY FS_CardinalityType
<1>2. ASSUME NEW a \in S
      PROVE  IsFiniteSet(Below(a)) /\ Cardinality(Below(a)) \in Nat /\ rank[a] \in 1..n
  <2>1. Below(a) \in SUBSET (S \ {a}) OBVIOUS
  <2>2. IsFiniteSet(S \ {a}) /\ Cardinality(S \ {a}) = n - 1 BY FS_RemoveElement
  <2>3. /\ IsFiniteSet(Below(a)) /\ Cardinality(Below(a)) <= n - 1
    <3> HIDE DEF Below
    <3>1. QED BY <2>1, <2>2, FS_Subset
  <2>4. Cardinality(Below(a)) \in Nat
    <3> HIDE DEF Below
    <3>1. QED BY <2>3, FS_CardinalityType
  <2>5. rank[a] = Cardinality(Below(a)) + 1 OBVIOUS
  <2> HIDE DEF Below, rank, n
  <2>6. QED BY <1>1, <2>3, <2>4, <2>5
<1>3. ASSUME NEW a \in S, NEW b \in S, <<a, b>> \in R PROVE rank[a] < rank[b]
  <2>1. Below(a) \union {a} \in SUBSET Below(b) BY <1>3
  <2>2. a \notin Below(a) OBVIOUS
  <2>3. rank[a] = Cardinality(Below(a)) + 1 /\ rank[b] = Cardinality(Below(b)) + 1 OBVIOUS
  <2>4. /\ IsFiniteSet(Below(a)) /\ Cardinality(Below(a)) \in Nat
        /\ IsFiniteSet(Below(b)) /\ Cardinality(Below(b)) \in Nat
    BY <1>2
  <2> HIDE DEF Below, rank
  <2>5. Cardinality(Below(a) \union {a}) = Cardinality(Below(a)) + 1
    BY <2>2, <2>4, FS_AddElement
  <2>6. Cardinality(Below(a) \union {a}) <= Cardinality(Below(b)) BY <2>1, <2>4, FS_Subset
  <2>7. QED BY <2>3, <2>4, <2>5, <2>6
<1>4. rank \in [S -> 1..n]
  <2>1. \A a \in S : rank[a] \in 1..n BY <1>2
  <2> HIDE DEF n, Below
  <2>2. QED BY <2>1
<1> HIDE DEF rank, Below
<1>5. \A a, b \in S : rank[a] = rank[b] => a = b
  <2> SUFFICES ASSUME NEW a \in S, NEW b \in S, rank[a] = rank[b], a # b PROVE FALSE OBVIOUS
  <2>1. rank[a] \in Int /\ rank[b] \in Int BY <1>1, <1>4
  <2>2. rank[a] < rank[b] \/ rank[b] < rank[a] BY <1>3
  <2>3. QED BY <2>1, <2>2
<1>6. \A i \in 1..n : \E a \in S : rank[a] = i
  <2>1. IsFiniteSet(1..n) /\ Cardinality(1..n) = n BY <1>1, FS_Interval
  <2> DEFINE T == 1..n
  <2>2. IsFiniteSet(T) /\ Cardinality(S) = Cardinality(T) /\ rank \in [S -> T]
    BY <1>4, <2>1
  <2> HIDE DEF T, n
  <2>3. \A t \in T : \E a \in S : rank[a] = t BY <1>5, <2>2, OneToOneIsOnto
  <2>4. QED BY <2>3 DEF T
<1> DEFINE f == [i \in 1..n |-> CHOOSE a \in S : rank[a] = i]
<1>7. \A i \in 1..n : f[i] \in S /\ rank[f[i]] = i BY <1>6
<1>8. f \in [1..n -> S] BY <1>7
<1> HIDE DEF f
<1>9. ASSUME NEW i \in 1..n, NEW j \in 1..n, i < j PROVE <<f[i], f[j]>> \in R /\ f[i] # f[j]
  <2>1. f[i] \in S /\ f[j] \in S /\ rank[f[i]] = i /\ rank[f[j]] = j BY <1>7
  <2>2. i \in Int /\ j \in Int /\ i # j BY <1>1, <1>9
  <2>3. f[i] # f[j] BY <2>1, <2>2
  <2>4. ~ (<<f[j], f[i]>> \in R)
    <3>1. <<f[j], f[i]>> \in R => j < i BY <1>3, <2>1
    <3>2. QED BY <1>9, <2>2, <3>1
  <2>5. QED BY <2>1, <2>3, <2>4
<1>10. QED BY <1>8, <1>9

-----------------------------------------------------------------------------
(***************************************************************************)
(* The reader.                                                             *)
(***************************************************************************)
\* The definition of Reading by recursion defines what it says.
LEMMA ReadingStep ==
  ASSUME Len(log) \in Nat
  PROVE  /\ Reading[0] = Unread
         /\ \A k \in 1..Len(log) : Reading[k] = ReadRecord(Reading[k - 1], k)
<1> DEFINE n == Len(log)
           Is(f, m) == f = [k \in 0..m |-> IF k = 0 THEN Unread ELSE ReadRecord(f[k - 1], k)]
           G == {m \in 0..n : \E f : Is(f, m)}
<1> HIDE DEF n
<1>0. n \in Nat BY DEF n
<1>1. 0 \in G
  <2> DEFINE f == [k \in 0..0 |-> Unread]
  <2>1. Is(f, 0) OBVIOUS
  <2> HIDE DEF f, Is
  <2>2. QED BY <2>1, <1>0
<1>2. \A m \in 0..n : m \in G /\ m < n => m + 1 \in G
  <2> SUFFICES ASSUME NEW m \in 0..n, m < n, NEW f, Is(f, m)
               PROVE  \E g : Is(g, m + 1)
    BY <1>0
  <2> DEFINE g == [k \in 0..(m + 1) |-> IF k = m + 1 THEN ReadRecord(f[m], m + 1) ELSE f[k]]
  <2>1. \A k \in 0..(m + 1) : g[k] = IF k = 0 THEN Unread ELSE ReadRecord(g[k - 1], k)
    <3> SUFFICES ASSUME NEW k \in 0..(m + 1)
                 PROVE  g[k] = IF k = 0 THEN Unread ELSE ReadRecord(g[k - 1], k)
      OBVIOUS
    <3>1. CASE k = m + 1
      <4>1. k # 0 /\ k - 1 = m /\ g[k - 1] = f[m] BY <3>1
      <4>2. QED BY <3>1, <4>1
    <3>2. CASE k # m + 1 /\ k # 0
      <4>1. k \in 0..m /\ k - 1 \in 0..m BY <3>2
      <4>2. g[k] = f[k] /\ g[k - 1] = f[k - 1] BY <3>2, <4>1
      <4>3. f[k] = ReadRecord(f[k - 1], k) BY <3>2, <4>1
      <4>4. QED BY <3>2, <4>2, <4>3
    <3>3. CASE k = 0
      <4>1. g[0] = f[0] /\ f[0] = Unread OBVIOUS
      <4>2. QED BY <3>3, <4>1
    <3>4. QED BY <3>1, <3>2, <3>3
  <2>2. Is(g, m + 1) BY <2>1
  <2> HIDE DEF g, Is
  <2>3. QED BY <2>2
<1>3. n \in G
  <2>1. G \in SUBSET (0..n) OBVIOUS
  <2> HIDE DEF G
  <2>2. G = 0..n BY <1>0, <1>1, <1>2, <2>1, UpTo
  <2>3. QED BY <2>2, <1>0
<1>4. Reading = CHOOSE f : Is(f, n) BY DEF Reading, n
<1>5. Is(Reading, n)
  <2>1. \E f : Is(f, n) BY <1>3
  <2> HIDE DEF Is
  <2>2. QED BY <2>1, <1>4
<1>6. QED BY <1>0, <1>5 DEF n

\* The sim_times of the records: one each, never going back.
StampInv ==
  /\ stamp \in Seq(Nat \ {0})
  /\ Len(stamp) = Len(log)
  /\ fresh \in BOOLEAN
  /\ \A i, j \in DOMAIN stamp : i <= j => stamp[i] <= stamp[j]

\* A file as the engine leaves it; the records of the starts, and of the ends.
Readable == TypeOK /\ LogFaithful /\ StampInv

StartRecords == RecordsOf("scenario_start")
EndRecords == RecordsOf("scenario_end")

\* What the proofs use of a file: what its records are, that none is there
\* twice, and that an end comes after the start of its instance.
LEMMA FileFacts ==
  ASSUME Readable
  PROVE  /\ Len(log) \in Nat /\ DOMAIN log = 1..Len(log)
         /\ \A i \in 1..Len(log) : InstanceOf(i) \in Scenario /\ ClassAt(i) \in Class
         /\ StartRecords \union EndRecords = 1..Len(log) /\ StartRecords \intersect EndRecords = {}
         /\ \A i, j \in StartRecords : InstanceOf(i) = InstanceOf(j) => i = j
         /\ \A i, j \in EndRecords : InstanceOf(i) = InstanceOf(j) => i = j
         /\ \A j \in EndRecords : \E i \in StartRecords : i < j /\ InstanceOf(i) = InstanceOf(j)
         /\ \A i, j \in 1..Len(log) : InstanceOf(i) = InstanceOf(j) => ClassAt(i) = ClassAt(j)
<1>1. log \in Seq(Entries) /\ class \in [Scenario -> Class] BY DEF Readable, TypeOK
<1>2. Len(log) \in Nat /\ DOMAIN log = 1..Len(log) BY <1>1
<1>3. \A i \in 1..Len(log) : log[i] \in Entries BY <1>1
<1>4. \A i \in 1..Len(log) :
        /\ log[i].event \in {"scenario_start", "scenario_end"}
        /\ log[i].scenario \in Scenario
        /\ log[i] = Entry(log[i].event, log[i].scenario)
  BY <1>3 DEF Entries, Entry
<1>5. \A i \in 1..Len(log) : InstanceOf(i) \in Scenario /\ ClassAt(i) \in Class
  BY <1>1, <1>4 DEF InstanceOf, ClassAt
<1>6. StartRecords \union EndRecords = 1..Len(log) /\ StartRecords \intersect EndRecords = {}
  BY <1>2, <1>4 DEF StartRecords, EndRecords, RecordsOf
<1>7. \A i, j \in 1..Len(log) :
        log[i].event = log[j].event /\ InstanceOf(i) = InstanceOf(j) => i = j
  BY <1>2, <1>4 DEF Readable, LogFaithful, WrittenOnce, InstanceOf
<1>8. /\ \A i, j \in StartRecords : InstanceOf(i) = InstanceOf(j) => i = j
      /\ \A i, j \in EndRecords : InstanceOf(i) = InstanceOf(j) => i = j
  BY <1>2, <1>7 DEF StartRecords, EndRecords, RecordsOf
<1>9. \A j \in EndRecords : \E i \in StartRecords : i < j /\ InstanceOf(i) = InstanceOf(j)
  <2> SUFFICES ASSUME NEW j \in EndRecords PROVE \E i \in StartRecords : i < j /\ InstanceOf(i) = InstanceOf(j)
    OBVIOUS
  <2>1. PICK i \in DOMAIN log : i < j /\ log[i] = Entry("scenario_start", log[j].scenario)
    BY DEF Readable, LogFaithful, EndAfterStart, EndRecords, RecordsOf
  <2>2. i \in StartRecords /\ InstanceOf(i) = InstanceOf(j)
    BY <2>1 DEF StartRecords, RecordsOf, InstanceOf, Entry
  <2>3. QED BY <2>1, <2>2
<1>10. \A i, j \in 1..Len(log) : InstanceOf(i) = InstanceOf(j) => ClassAt(i) = ClassAt(j)
  BY DEF InstanceOf, ClassAt
<1>11. QED BY <1>2, <1>5, <1>6, <1>8, <1>9, <1>10

\* The times of the file.
LEMMA StampFacts ==
  ASSUME Readable
  PROVE  /\ \A i \in 1..Len(log) : stamp[i] \in Nat /\ 1 <= stamp[i] /\ stamp[i] <= LastStamp
         /\ \A i, j \in 1..Len(log) : i <= j => stamp[i] <= stamp[j]
<1>1. /\ stamp \in Seq(Nat \ {0}) /\ Len(stamp) = Len(log) /\ DOMAIN stamp = 1..Len(log)
      /\ Len(log) \in Nat
  BY FileFacts DEF Readable, StampInv
<1>2. \A i, j \in 1..Len(log) : i <= j => stamp[i] <= stamp[j]
  BY <1>1 DEF Readable, StampInv
<1>3. \A i \in 1..Len(log) : stamp[i] \in Nat /\ 1 <= stamp[i]
  BY <1>1
<1>4. ASSUME NEW i \in 1..Len(log) PROVE stamp[i] <= LastStamp
  <2>1. stamp # <<>> /\ Len(log) \in 1..Len(log) BY <1>1
  <2>2. LastStamp = stamp[Len(log)] BY <1>1, <2>1 DEF LastStamp
  <2>3. QED BY <1>1, <1>2, <2>1, <2>2
<1>5. QED BY <1>2, <1>3, <1>4

\* After k records the reader has the starts p still waiting for their end,
\* and the events ev; the e-th was made of the records src[e] and dst[e].
\* Each start is in one of the two, once.  If the instances of each class
\* end in their order, no end was given to the wrong start.
Waiting(k, p) ==
  /\ p \in [Class -> Seq(1..k)]
  /\ \A c \in Class : \A x \in 1..Len(p[c]) :
       /\ p[c][x] \in StartRecords /\ ClassAt(p[c][x]) = c
       /\ \A y \in 1..Len(p[c]) : x < y => p[c][x] < p[c][y]

Paired(k, ev, src, dst) ==
  /\ Len(ev) \in Nat
  /\ ev = [e \in 1..Len(ev) |-> Event(src[e], dst[e], FALSE)]
  /\ src \in [1..Len(ev) -> 1..k] /\ dst \in [1..Len(ev) -> 1..k]
  /\ \A e \in 1..Len(ev) :
       /\ src[e] \in StartRecords /\ dst[e] \in EndRecords
       /\ ClassAt(src[e]) = ClassAt(dst[e]) /\ src[e] < dst[e]

NoneTwice(p, ev, src) ==
  /\ \A e, f \in 1..Len(ev) : src[e] = src[f] => e = f
  /\ \A e \in 1..Len(ev), c \in Class : \A x \in 1..Len(p[c]) : src[e] # p[c][x]

NoneLost(k, p, ev, src) ==
  \A i \in StartRecords : i <= k =>
    \/ \E e \in 1..Len(ev) : src[e] = i
    \/ \E x \in 1..Len(p[ClassAt(i)]) : p[ClassAt(i)][x] = i

RightlyPaired(k, ev, src, dst) ==
  EndInOrder =>
    /\ \A e \in 1..Len(ev) : InstanceOf(src[e]) = InstanceOf(dst[e])
    /\ \A l \in EndRecords : l <= k => \E e \in 1..Len(ev) : dst[e] = l

ReaderInv(k, p, ev, src, dst) ==
  /\ Reading[k] = [pending |-> p, events |-> ev]
  /\ Waiting(k, p)
  /\ Paired(k, ev, src, dst)
  /\ NoneTwice(p, ev, src)
  /\ NoneLost(k, p, ev, src)
  /\ RightlyPaired(k, ev, src, dst)

\* The reader takes a start.
LEMMA ReadStart ==
  ASSUME Readable, NEW k \in 1..Len(log), k \in StartRecords,
         NEW p, NEW ev, NEW src, NEW dst, ReaderInv(k - 1, p, ev, src, dst)
  PROVE  ReaderInv(k, [p EXCEPT ![ClassAt(k)] = Append(@, k)], ev, src, dst)
<1> DEFINE c == ClassAt(k)
           p2 == [p EXCEPT ![c] = Append(@, k)]
<1>1. /\ c \in Class /\ Len(log) \in Nat /\ log[k].event = "scenario_start"
      /\ StartRecords \intersect EndRecords = {} /\ StartRecords \union EndRecords = 1..Len(log)
  BY FileFacts DEF StartRecords, RecordsOf
<1>2. k \in Nat /\ k - 1 \in Nat BY <1>1
<1>3. /\ Reading[k - 1] = [pending |-> p, events |-> ev]
      /\ Waiting(k - 1, p) /\ Paired(k - 1, ev, src, dst) /\ NoneTwice(p, ev, src)
      /\ NoneLost(k - 1, p, ev, src) /\ RightlyPaired(k - 1, ev, src, dst)
  BY DEF ReaderInv
<1>4. /\ p \in [Class -> Seq(1..(k - 1))]
      /\ p2[c] = Append(p[c], k) /\ Len(p2[c]) = Len(p[c]) + 1
      /\ \A d \in Class : Len(p[d]) \in Nat
      /\ \A d \in Class : d # c => p2[d] = p[d]
      /\ \A x \in 1..Len(p[c]) : p2[c][x] = p[c][x]
      /\ p2[c][Len(p[c]) + 1] = k
      /\ DOMAIN p2 = Class
  BY <1>1, <1>2, <1>3 DEF Waiting
<1> HIDE DEF c, p2
<1>a. ASSUME NEW d \in Class
      PROVE  /\ \A x \in 1..Len(p[d]) : x \in 1..Len(p2[d]) /\ p2[d][x] = p[d][x]
             /\ \A x \in 1..Len(p2[d]) : x \in 1..Len(p[d]) \/ (d = c /\ x = Len(p[c]) + 1)
  <2>1. CASE d = c
    <3>1. Len(p[c]) \in Nat /\ Len(p2[c]) = Len(p[c]) + 1 BY <1>1, <1>4
    <3>2. \A x \in 1..Len(p[c]) : x \in 1..Len(p2[c]) BY <3>1
    <3>3. \A x \in 1..Len(p2[c]) : x \in 1..Len(p[c]) \/ x = Len(p[c]) + 1 BY <3>1
    <3>4. QED BY <1>4, <2>1, <3>2, <3>3
  <2>2. CASE d # c BY <1>4, <2>2
  <2>3. QED BY <2>1, <2>2
<1>5. Reading[k] = [pending |-> p2, events |-> ev]
  <2>1. Reading[k] = ReadRecord(Reading[k - 1], k) BY <1>1, ReadingStep
  <2>2. ReadRecord(Reading[k - 1], k) = [Reading[k - 1] EXCEPT !.pending[c] = Append(p[c], k)]
    BY <1>1, <1>3 DEF ReadRecord, c
  <2>3. QED BY <2>1, <2>2, <1>3 DEF p2
<1>6. Waiting(k, p2)
  <2>1. p2 \in [Class -> Seq(1..k)]
    <3>1. ASSUME NEW d \in Class PROVE p2[d] \in Seq(1..k)
      <4>1. p[d] \in Seq(1..k)
        <5>1. p[d] \in Seq(1..(k - 1)) /\ 1..(k - 1) \subseteq 1..k BY <1>2, <1>4
        <5>2. QED BY <5>1
      <4>2. CASE d = c
        <5>1. k \in 1..k BY <1>2
        <5>2. Append(p[d], k) \in Seq(1..k) BY <4>1, <5>1
        <5>3. QED BY <1>4, <4>2, <5>2
      <4>3. CASE d # c BY <1>4, <4>1, <4>3
      <4>4. QED BY <4>2, <4>3
    <3>2. p2 = [d \in Class |-> p2[d]] BY <1>4 DEF p2
    <3>3. QED BY <3>1, <3>2
  <2>2. ASSUME NEW d \in Class, NEW x \in 1..Len(p2[d])
        PROVE  /\ p2[d][x] \in StartRecords /\ ClassAt(p2[d][x]) = d
               /\ \A y \in 1..Len(p2[d]) : x < y => p2[d][x] < p2[d][y]
    <3>1. CASE x \in 1..Len(p[d])
      <4>1. /\ p[d][x] \in StartRecords /\ ClassAt(p[d][x]) = d /\ p[d][x] \in 1..(k - 1)
            /\ \A y \in 1..Len(p[d]) : x < y => p[d][x] < p[d][y]
        BY <1>3, <1>4, <3>1 DEF Waiting
      <4>2. p2[d][x] = p[d][x] BY <1>a, <3>1
      <4>3. ASSUME NEW y \in 1..Len(p2[d]), x < y PROVE p2[d][x] < p2[d][y]
        <5>1. CASE y \in 1..Len(p[d]) BY <1>a, <4>1, <4>2, <4>3, <5>1
        <5>2. CASE d = c /\ y = Len(p[c]) + 1
          <6>1. p2[d][y] = k BY <1>4, <5>2
          <6>2. QED BY <1>2, <4>1, <4>2, <6>1
        <5>3. QED BY <1>a, <5>1, <5>2
      <4>4. QED BY <4>1, <4>2, <4>3
    <3>2. CASE d = c /\ x = Len(p[c]) + 1
      <4>1. p2[d][x] = k /\ ClassAt(k) = d BY <1>4, <3>2 DEF c
      <4>2. \A y \in 1..Len(p2[d]) : ~ (x < y) BY <1>4, <3>2
      <4>3. QED BY <4>1, <4>2
    <3>3. QED BY <1>a, <3>1, <3>2
  <2>3. QED BY <2>1, <2>2 DEF Waiting
<1>7. Paired(k, ev, src, dst)
  <2>1. 1..(k - 1) \subseteq 1..k BY <1>2
  <2>2. QED BY <1>3, <2>1 DEF Paired
<1>8. NoneTwice(p2, ev, src)
  <2>1. \A e \in 1..Len(ev) : src[e] \in 1..(k - 1) BY <1>3 DEF Paired
  <2>2. ASSUME NEW e \in 1..Len(ev), NEW d \in Class, NEW x \in 1..Len(p2[d])
        PROVE  src[e] # p2[d][x]
    <3>1. CASE d = c /\ x = Len(p[c]) + 1 BY <1>2, <1>4, <2>1, <3>1
    <3>2. CASE ~ (d = c /\ x = Len(p[c]) + 1)
      <4>1. x \in 1..Len(p[d]) /\ p2[d][x] = p[d][x] BY <1>a, <3>2
      <4>2. QED BY <1>3, <4>1 DEF NoneTwice
    <3>3. QED BY <3>1, <3>2
  <2>3. QED BY <1>3, <2>2 DEF NoneTwice
<1>9. NoneLost(k, p2, ev, src)
  <2> SUFFICES ASSUME NEW i \in StartRecords, i <= k
               PROVE  \/ \E e \in 1..Len(ev) : src[e] = i
                      \/ \E x \in 1..Len(p2[ClassAt(i)]) : p2[ClassAt(i)][x] = i
    BY DEF NoneLost
  <2>1. i \in 1..Len(log) /\ ClassAt(i) \in Class BY <1>1, FileFacts
  <2>2. CASE i = k
    <3>1. ClassAt(i) = c /\ Len(p[c]) + 1 \in 1..Len(p2[c]) BY <1>4, <2>2 DEF c
    <3>2. QED BY <1>4, <2>2, <3>1
  <2>3. CASE i # k
    <3>1. i <= k - 1 BY <1>2, <2>1, <2>3
    <3>2. CASE \E e \in 1..Len(ev) : src[e] = i BY <3>2
    <3>3. CASE \E x \in 1..Len(p[ClassAt(i)]) : p[ClassAt(i)][x] = i
      <4>1. PICK x \in 1..Len(p[ClassAt(i)]) : p[ClassAt(i)][x] = i BY <3>3
      <4>2. x \in 1..Len(p2[ClassAt(i)]) /\ p2[ClassAt(i)][x] = i BY <1>a, <2>1, <4>1
      <4>3. QED BY <4>2
    <3>4. QED BY <1>3, <3>1, <3>2, <3>3 DEF NoneLost
  <2>4. QED BY <2>2, <2>3
<1>10. RightlyPaired(k, ev, src, dst)
  <2>1. \A l \in EndRecords : l <= k => l <= k - 1 BY <1>1, <1>2
  <2>2. QED BY <1>3, <2>1 DEF RightlyPaired
<1>11. QED BY <1>5, <1>6, <1>7, <1>8, <1>9, <1>10 DEF ReaderInv, p2, c

\* Under EndInOrder the end of an instance finds the start of the instance
\* first in the queue.
LEMMA RightEnd ==
  ASSUME Readable, NEW k \in 1..Len(log), k \in EndRecords, EndInOrder,
         NEW p, NEW ev, NEW src, NEW dst, ReaderInv(k - 1, p, ev, src, dst)
  PROVE  /\ Len(p[ClassAt(k)]) \in Nat /\ Len(p[ClassAt(k)]) > 0
         /\ InstanceOf(p[ClassAt(k)][1]) = InstanceOf(k)
<1> DEFINE c == ClassAt(k)
<1>1. /\ c \in Class /\ Len(log) \in Nat /\ DOMAIN log = 1..Len(log)
      /\ StartRecords \intersect EndRecords = {} /\ StartRecords \union EndRecords = 1..Len(log)
      /\ \A i, j \in StartRecords : InstanceOf(i) = InstanceOf(j) => i = j
      /\ \A i, j \in EndRecords : InstanceOf(i) = InstanceOf(j) => i = j
  BY FileFacts
<1>2. /\ Waiting(k - 1, p) /\ Paired(k - 1, ev, src, dst) /\ NoneTwice(p, ev, src)
      /\ NoneLost(k - 1, p, ev, src) /\ RightlyPaired(k - 1, ev, src, dst)
  BY DEF ReaderInv
<1>3. /\ \A e \in 1..Len(ev) : InstanceOf(src[e]) = InstanceOf(dst[e])
      /\ \A l \in EndRecords : l <= k - 1 => \E e \in 1..Len(ev) : dst[e] = l
  BY <1>2 DEF RightlyPaired
<1>4. \A e \in 1..Len(ev) : dst[e] \in EndRecords /\ dst[e] \in 1..(k - 1) /\ src[e] \in StartRecords
  BY <1>2 DEF Paired
<1>5. PICK i \in StartRecords : i < k /\ InstanceOf(i) = InstanceOf(k) BY FileFacts
<1>6. ClassAt(i) = c /\ i <= k - 1
  <2>1. i \in 1..Len(log) BY <1>1
  <2>2. ClassAt(i) = c BY <1>5, <2>1, FileFacts
  <2>3. QED BY <1>5, <2>1, <2>2
<1>7. \A e \in 1..Len(ev) : src[e] # i
  <2> SUFFICES ASSUME NEW e \in 1..Len(ev), src[e] = i PROVE FALSE OBVIOUS
  <2>1. InstanceOf(dst[e]) = InstanceOf(k) BY <1>3, <1>5
  <2>2. dst[e] = k BY <1>1, <1>4, <2>1
  <2>3. QED BY <1>4, <2>2
<1>8. PICK x \in 1..Len(p[c]) : p[c][x] = i BY <1>2, <1>6, <1>7 DEF NoneLost
<1>9. p[c] \in Seq(1..(k - 1)) BY <1>1, <1>2 DEF Waiting
<1>10. /\ Len(p[c]) \in Nat /\ Len(p[c]) > 0 /\ 1 \in 1..Len(p[c]) BY <1>8, <1>9
<1>11. CASE x = 1 BY <1>5, <1>8, <1>10, <1>11
<1>12. CASE x # 1
  <2> DEFINE h == p[c][1]
  <2>1. h \in StartRecords /\ ClassAt(h) = c /\ h < i
    <3>1. 1 < x BY <1>10, <1>12
    <3>2. QED BY <1>1, <1>2, <1>8, <1>10, <3>1 DEF Waiting
  <2>2. \A e \in 1..Len(ev) : src[e] # h BY <1>1, <1>2, <1>10 DEF NoneTwice
  <2> HIDE DEF h
  <2>3. PICK m \in 1..k : m \in EndRecords /\ InstanceOf(m) = InstanceOf(h)
    BY <1>5, <1>6, <2>1 DEF EndInOrder, StartRecords, EndRecords
  <2>4. CASE m = k
    <3>1. h = i BY <1>1, <1>5, <2>1, <2>3, <2>4
    <3>2. QED BY <1>1, <2>1, <3>1
  <2>5. CASE m # k
    <3>1. m <= k - 1 BY <2>3, <2>5
    <3>2. PICK e \in 1..Len(ev) : dst[e] = m BY <1>3, <2>3, <3>1
    <3>3. InstanceOf(src[e]) = InstanceOf(h) BY <1>3, <2>3, <3>2
    <3>4. src[e] = h BY <1>1, <1>4, <2>1, <3>3
    <3>5. QED BY <2>2, <3>4
  <2>6. QED BY <2>4, <2>5
<1>13. QED BY <1>10, <1>11, <1>12

\* The reader takes an end for which no start is waiting.
LEMMA ReadStrayEnd ==
  ASSUME Readable, NEW k \in 1..Len(log), k \in EndRecords,
         NEW p, NEW ev, NEW src, NEW dst, ReaderInv(k - 1, p, ev, src, dst),
         p[ClassAt(k)] = <<>>
  PROVE  ReaderInv(k, p, ev, src, dst)
<1>1. /\ Len(log) \in Nat /\ log[k].event = "scenario_end"
      /\ StartRecords \intersect EndRecords = {} /\ StartRecords \union EndRecords = 1..Len(log)
  BY FileFacts DEF EndRecords, RecordsOf
<1>2. k \in Nat /\ 1..(k - 1) \subseteq 1..k BY <1>1
<1>3. /\ Reading[k - 1] = [pending |-> p, events |-> ev]
      /\ Waiting(k - 1, p) /\ Paired(k - 1, ev, src, dst) /\ NoneTwice(p, ev, src)
      /\ NoneLost(k - 1, p, ev, src) /\ RightlyPaired(k - 1, ev, src, dst)
  BY DEF ReaderInv
<1>4. Reading[k] = [pending |-> p, events |-> ev]
  <2>1. Reading[k] = ReadRecord(Reading[k - 1], k) BY <1>1, ReadingStep
  <2>2. Reading[k - 1].pending[ClassAt(k)] = <<>> BY <1>3
  <2>3. ReadRecord(Reading[k - 1], k) = Reading[k - 1] BY <1>1, <2>2 DEF ReadRecord
  <2>4. QED BY <1>3, <2>1, <2>3
<1>5. Waiting(k, p)
  <2>1. p \in [Class -> Seq(1..k)]
    <3>1. ASSUME NEW d \in Class PROVE p[d] \in Seq(1..k)
      <4>1. p[d] \in Seq(1..(k - 1)) BY <1>3 DEF Waiting
      <4>2. QED BY <1>2, <4>1
    <3>2. p = [d \in Class |-> p[d]] BY <1>3 DEF Waiting
    <3>3. QED BY <3>1, <3>2
  <2>2. QED BY <1>3, <2>1 DEF Waiting
<1>6. Paired(k, ev, src, dst) BY <1>2, <1>3 DEF Paired
<1>7. NoneLost(k, p, ev, src)
  <2>1. \A i \in StartRecords : i <= k => i <= k - 1 BY <1>1
  <2>2. QED BY <1>3, <2>1 DEF NoneLost
<1>8. RightlyPaired(k, ev, src, dst)
  <2>1. CASE EndInOrder
    <3>1. Len(p[ClassAt(k)]) > 0 BY <2>1, RightEnd
    <3>2. QED BY <3>1
  <2>2. QED BY <2>1 DEF RightlyPaired
<1>9. QED BY <1>3, <1>4, <1>5, <1>6, <1>7, <1>8 DEF ReaderInv

\* The reader pairs an end with the first start waiting.
LEMMA ReadEnd ==
  ASSUME Readable, NEW k \in 1..Len(log), k \in EndRecords,
         NEW p, NEW ev, NEW src, NEW dst, ReaderInv(k - 1, p, ev, src, dst),
         p[ClassAt(k)] # <<>>
  PROVE  \E p2, ev2, src2, dst2 : ReaderInv(k, p2, ev2, src2, dst2)
<1> DEFINE c == ClassAt(k)
           h == Head(p[c])
           n == Len(ev)
           p2 == [p EXCEPT ![c] = Tail(p[c])]
           ev2 == Append(ev, Event(h, k, FALSE))
           src2 == [e \in 1..(n + 1) |-> IF e = n + 1 THEN h ELSE src[e]]
           dst2 == [e \in 1..(n + 1) |-> IF e = n + 1 THEN k ELSE dst[e]]
<1>1. /\ c \in Class /\ Len(log) \in Nat /\ log[k].event = "scenario_end"
      /\ StartRecords \intersect EndRecords = {} /\ StartRecords \union EndRecords = 1..Len(log)
  BY FileFacts DEF EndRecords, RecordsOf
<1>2. k \in Nat /\ 1..(k - 1) \subseteq 1..k BY <1>1
<1>3. /\ Reading[k - 1] = [pending |-> p, events |-> ev]
      /\ Waiting(k - 1, p) /\ Paired(k - 1, ev, src, dst) /\ NoneTwice(p, ev, src)
      /\ NoneLost(k - 1, p, ev, src) /\ RightlyPaired(k - 1, ev, src, dst)
  BY DEF ReaderInv
<1>4. \A d \in Class : p[d] \in Seq(1..(k - 1)) /\ Len(p[d]) \in Nat
  BY <1>3 DEF Waiting
<1>5. /\ 1 \in 1..Len(p[c]) /\ h = p[c][1] /\ DOMAIN p2 = Class
      /\ p2[c] = Tail(p[c]) /\ Len(p2[c]) = Len(p[c]) - 1
      /\ \A x \in 1..Len(p2[c]) : x + 1 \in 1..Len(p[c]) /\ p2[c][x] = p[c][x + 1]
      /\ \A d \in Class : d # c => p2[d] = p[d]
  <2>1. DOMAIN p = Class /\ p[c] # <<>> BY <1>3 DEF Waiting
  <2>2. Len(p[c]) > 0 BY <1>1, <1>4, <2>1
  <2>3. QED BY <1>1, <1>4, <2>1, <2>2
<1>6. h \in StartRecords /\ ClassAt(h) = c /\ h \in 1..(k - 1)
  BY <1>1, <1>3, <1>4, <1>5 DEF Waiting
<1>7. n \in Nat /\ ev = [e \in 1..n |-> ev[e]]
  BY <1>3 DEF Paired
<1>8. /\ Len(ev2) = n + 1 /\ n + 1 \in Nat
      /\ \A e \in 1..n : ev2[e] = ev[e]
      /\ ev2[n + 1] = Event(h, k, FALSE)
      /\ ev2 = [e \in 1..(n + 1) |-> ev2[e]]
  <2> DEFINE T == {ev[e] : e \in 1..n}
  <2> HIDE DEF h, n
  <2>1. \A e \in 1..n : ev[e] \in T OBVIOUS
  <2> DEFINE x == Event(h, k, FALSE)
  <2> HIDE DEF T, x
  <2>2. ev \in [1..n -> T] BY <1>7, <2>1
  <2>a. ev2 = Append(ev, x) BY DEF x
  <2>3. /\ Len(ev2) = n + 1 /\ n + 1 \in Nat
        /\ \A e \in 1..n : ev2[e] = ev[e]
        /\ ev2[n + 1] = Event(h, k, FALSE)
        /\ ev2 \in [1..(n + 1) -> T \union {x}]
    <3> HIDE DEF ev2
    <3>1. /\ Len(Append(ev, x)) = n + 1
          /\ \A e \in 1..n : Append(ev, x)[e] = ev[e]
          /\ Append(ev, x)[n + 1] = x
          /\ Append(ev, x) \in [1..(n + 1) -> T \union {x}]
      BY <1>7, <2>2, AppendExtends
    <3>2. x = Event(h, k, FALSE) BY DEF x
    <3>3. ev2[n + 1] = Event(h, k, FALSE) BY <2>a, <3>1, <3>2
    <3>4. Len(ev2) = n + 1 /\ n + 1 \in Nat BY <1>7, <2>a, <3>1
    <3>5. \A e \in 1..n : ev2[e] = ev[e] BY <2>a, <3>1
    <3>6. ev2 \in [1..(n + 1) -> T \union {x}] BY <2>a, <3>1
    <3>7. QED BY <3>3, <3>4, <3>5, <3>6
  <2>4. ev2 = [e \in 1..(n + 1) |-> ev2[e]]
    <3> HIDE DEF ev2
    <3>1. QED BY <2>3
  <2>5. QED BY <2>3, <2>4
<1>9. /\ \A e \in 1..n : src2[e] = src[e] /\ dst2[e] = dst[e]
      /\ src2[n + 1] = h /\ dst2[n + 1] = k
      /\ \A e \in 1..(n + 1) : e \in 1..n \/ e = n + 1
      /\ \A e \in 1..n : e \in 1..(n + 1)
  BY <1>7
<1>10. Reading[k] = [pending |-> p2, events |-> ev2]
  <2>1. Reading[k] = ReadRecord(Reading[k - 1], k) BY <1>1, ReadingStep
  <2>2. Reading[k - 1].pending[c] = p[c] /\ p[c] # <<>> BY <1>3
  <2>3. ReadRecord(Reading[k - 1], k)
          = [pending |-> [Reading[k - 1].pending EXCEPT ![c] = Tail(p[c])],
             events |-> Append(Reading[k - 1].events, Event(h, k, FALSE))]
    BY <1>1, <2>2 DEF ReadRecord, TakeStart
  <2>4. QED BY <1>3, <2>1, <2>3
<1> HIDE DEF c, h, n, p2, ev2, src2, dst2
<1>11. Waiting(k, p2)
  <2>1. ASSUME NEW d \in Class PROVE p2[d] \in Seq(1..k)
    <3>1. p[d] \in Seq(1..k) BY <1>2, <1>4
    <3>2. CASE d = c
      <4>1. p[c] \in Seq(1..k) /\ p[c] # <<>> BY <3>1, <3>2 DEF c
      <4>2. Tail(p[c]) \in Seq(1..k) BY <4>1, HeadTailProperties
      <4>3. QED BY <1>5, <3>2, <4>2
    <3>3. QED BY <1>5, <3>1, <3>2
  <2>2. p2 \in [Class -> Seq(1..k)]
    <3>1. p2 = [d \in Class |-> p2[d]] BY <1>3 DEF p2, Waiting
    <3>2. QED BY <2>1, <3>1
  <2>3. ASSUME NEW d \in Class, NEW x \in 1..Len(p2[d])
        PROVE  /\ p2[d][x] \in StartRecords /\ ClassAt(p2[d][x]) = d
               /\ \A y \in 1..Len(p2[d]) : x < y => p2[d][x] < p2[d][y]
    <3>1. CASE d # c BY <1>3, <1>5, <3>1 DEF Waiting
    <3>2. CASE d = c
      <4>1. /\ x + 1 \in 1..Len(p[c]) /\ p2[c][x] = p[c][x + 1] BY <1>5, <3>2
      <4>2. /\ p[c][x + 1] \in StartRecords /\ ClassAt(p[c][x + 1]) = c
            /\ \A y \in 1..Len(p[c]) : x + 1 < y => p[c][x + 1] < p[c][y]
        BY <1>1, <1>3, <4>1 DEF Waiting
      <4>3. ASSUME NEW y \in 1..Len(p2[c]), x < y PROVE p2[c][x] < p2[c][y]
        <5>1. y + 1 \in 1..Len(p[c]) /\ p2[c][y] = p[c][y + 1] /\ x + 1 < y + 1
          BY <1>5, <4>3, <3>2
        <5>2. QED BY <4>1, <4>2, <5>1
      <4>4. QED BY <3>2, <4>1, <4>2, <4>3
    <3>3. QED BY <3>1, <3>2
  <2>4. QED BY <2>2, <2>3 DEF Waiting
<1>12. Paired(k, ev2, src2, dst2)
  <2>1. ASSUME NEW e \in 1..(n + 1)
        PROVE  /\ ev2[e] = Event(src2[e], dst2[e], FALSE)
               /\ src2[e] \in 1..k /\ dst2[e] \in 1..k
               /\ src2[e] \in StartRecords /\ dst2[e] \in EndRecords
               /\ ClassAt(src2[e]) = ClassAt(dst2[e]) /\ src2[e] < dst2[e]
    <3>1. CASE e \in 1..n
      <4>1. /\ ev[e] = Event(src[e], dst[e], FALSE)
            /\ src[e] \in 1..(k - 1) /\ dst[e] \in 1..(k - 1)
            /\ src[e] \in StartRecords /\ dst[e] \in EndRecords
            /\ ClassAt(src[e]) = ClassAt(dst[e]) /\ src[e] < dst[e]
        BY <1>3, <3>1 DEF Paired, n
      <4>2. QED BY <1>2, <1>8, <1>9, <3>1, <4>1
    <3>2. CASE e = n + 1
      <4>1. h < k /\ h \in 1..k /\ k \in 1..k BY <1>2, <1>6
      <4>2. QED BY <1>6, <1>8, <1>9, <3>2, <4>1 DEF c
    <3>3. QED BY <1>9, <3>1, <3>2
  <2>2. src2 \in [1..(n + 1) -> 1..k] /\ dst2 \in [1..(n + 1) -> 1..k]
    BY <2>1 DEF src2, dst2
  <2>3. ev2 = [e \in 1..(n + 1) |-> Event(src2[e], dst2[e], FALSE)]
    BY <1>8, <2>1
  <2>4. QED BY <1>8, <2>1, <2>2, <2>3 DEF Paired
<1>13. NoneTwice(p2, ev2, src2)
  <2>1. \A e \in 1..n : src[e] # h BY <1>1, <1>3, <1>5 DEF NoneTwice, n
  <2>2. \A e, f \in 1..(n + 1) : src2[e] = src2[f] => e = f
    <3>1. \A e, f \in 1..n : src[e] = src[f] => e = f BY <1>3 DEF NoneTwice, n
    <3>2. QED BY <1>9, <2>1, <3>1
  <2>3. ASSUME NEW e \in 1..(n + 1), NEW d \in Class, NEW x \in 1..Len(p2[d])
        PROVE  src2[e] # p2[d][x]
    <3>1. \E z \in 1..Len(p[d]) : p2[d][x] = p[d][z] /\ (d = c => 1 < z)
      <4>1. CASE d = c
        <5>1. x \in 1..Len(p2[c]) /\ Len(p2[c]) \in Int BY <1>1, <1>4, <1>5, <4>1
        <5>2. x + 1 \in 1..Len(p[c]) /\ p2[c][x] = p[c][x + 1] /\ 1 < x + 1 BY <1>5, <5>1
        <5>3. QED BY <4>1, <5>2
      <4>2. CASE d # c BY <1>5, <4>2
      <4>3. QED BY <4>1, <4>2
    <3>2. PICK z \in 1..Len(p[d]) : p2[d][x] = p[d][z] /\ (d = c => 1 < z) BY <3>1
    <3>3. CASE e \in 1..n BY <1>3, <1>9, <3>2, <3>3 DEF NoneTwice, n
    <3>4. CASE e = n + 1
      <4>1. CASE d = c
        <5>1. p[c][1] < p[c][z] BY <1>1, <1>3, <1>5, <3>2, <4>1 DEF Waiting
        <5>2. QED BY <1>5, <1>6, <1>9, <3>2, <3>4, <4>1, <5>1
      <4>2. CASE d # c
        <5>1. ClassAt(p[d][z]) = d BY <1>3 DEF Waiting
        <5>2. QED BY <1>6, <1>9, <3>2, <3>4, <4>2, <5>1
      <4>3. QED BY <4>1, <4>2
    <3>5. QED BY <1>9, <3>3, <3>4
  <2>4. QED BY <1>8, <2>2, <2>3 DEF NoneTwice
<1>14. NoneLost(k, p2, ev2, src2)
  <2> SUFFICES ASSUME NEW i \in StartRecords, i <= k
               PROVE  \/ \E e \in 1..(n + 1) : src2[e] = i
                      \/ \E x \in 1..Len(p2[ClassAt(i)]) : p2[ClassAt(i)][x] = i
    BY <1>8 DEF NoneLost
  <2>1. i \in 1..Len(log) /\ ClassAt(i) \in Class /\ i <= k - 1
    <3>1. i \in 1..Len(log) /\ i # k BY <1>1
    <3>2. QED BY <3>1, FileFacts
  <2>2. CASE \E e \in 1..n : src[e] = i BY <1>9, <2>2
  <2>3. CASE \E x \in 1..Len(p[ClassAt(i)]) : p[ClassAt(i)][x] = i
    <3>1. PICK x \in 1..Len(p[ClassAt(i)]) : p[ClassAt(i)][x] = i BY <2>3
    <3>2. CASE ClassAt(i) # c BY <1>5, <2>1, <3>1, <3>2
    <3>3. CASE ClassAt(i) = c /\ x = 1
      <4>1. i = h BY <1>5, <3>1, <3>3
      <4>2. n + 1 \in 1..(n + 1) BY <1>7
      <4>3. QED BY <1>9, <4>1, <4>2
    <3>4. CASE ClassAt(i) = c /\ x # 1
      <4>1. x - 1 \in 1..Len(p2[c]) /\ p2[c][x - 1] = p[c][x - 1 + 1] /\ x - 1 + 1 = x
        BY <1>1, <1>4, <1>5, <3>1, <3>4
      <4>2. QED BY <3>1, <3>4, <4>1
    <3>5. QED BY <3>2, <3>3, <3>4
  <2>4. QED BY <1>3, <2>1, <2>2, <2>3 DEF NoneLost, n
<1>15. RightlyPaired(k, ev2, src2, dst2)
  <2> SUFFICES ASSUME EndInOrder
               PROVE  /\ \A e \in 1..(n + 1) : InstanceOf(src2[e]) = InstanceOf(dst2[e])
                      /\ \A l \in EndRecords : l <= k => \E e \in 1..(n + 1) : dst2[e] = l
    BY <1>8 DEF RightlyPaired
  <2>1. InstanceOf(h) = InstanceOf(k) BY <1>5, RightEnd DEF c
  <2>2. /\ \A e \in 1..n : InstanceOf(src[e]) = InstanceOf(dst[e])
        /\ \A l \in EndRecords : l <= k - 1 => \E e \in 1..n : dst[e] = l
    BY <1>3 DEF RightlyPaired, n
  <2>3. \A e \in 1..(n + 1) : InstanceOf(src2[e]) = InstanceOf(dst2[e])
    BY <1>9, <2>1, <2>2
  <2>4. ASSUME NEW l \in EndRecords, l <= k PROVE \E e \in 1..(n + 1) : dst2[e] = l
    <3>1. l \in Nat BY <1>1
    <3>2. CASE l = k
      <4>1. n + 1 \in 1..(n + 1) BY <1>7
      <4>2. QED BY <1>9, <3>2, <4>1
    <3>3. CASE l # k
      <4>1. l <= k - 1 BY <1>2, <2>4, <3>1, <3>3
      <4>2. PICK e \in 1..n : dst[e] = l BY <2>2, <4>1
      <4>3. QED BY <1>9, <4>2
    <3>4. QED BY <3>2, <3>3
  <2>5. QED BY <2>3, <2>4
<1>16. ReaderInv(k, p2, ev2, src2, dst2)
  BY <1>10, <1>11, <1>12, <1>13, <1>14, <1>15 DEF ReaderInv
<1>17. QED BY <1>16

\* However far the reader has come, its invariant holds.
LEMMA ReaderHolds ==
  ASSUME Readable
  PROVE  \A k \in 0..Len(log) : \E p, ev, src, dst : ReaderInv(k, p, ev, src, dst)
<1> DEFINE n == Len(log)
           G == {k \in 0..n : \E p, ev, src, dst : ReaderInv(k, p, ev, src, dst)}
<1>1. n \in Nat /\ StartRecords \union EndRecords = 1..n BY FileFacts
<1>2. 0 \in G
  <2> DEFINE p == [c \in Class |-> <<>>]
             none == [e \in 1..0 |-> 0]
  <2>1. Reading[0] = [pending |-> p, events |-> <<>>] BY <1>1, ReadingStep DEF Unread
  <2>2. /\ p \in [Class -> Seq(1..0)] /\ \A c \in Class : p[c] = <<>> /\ Len(p[c]) = 0
        /\ Len(<<>>) = 0
    BY EmptySeq
  <2> HIDE DEF p
  <2>3. Waiting(0, p) BY <2>2 DEF Waiting
  <2>4. Paired(0, <<>>, none, none)
    <3>1. <<>> = [e \in 1..0 |-> Event(none[e], none[e], FALSE)] OBVIOUS
    <3>2. none \in [1..0 -> 1..0] OBVIOUS
    <3> HIDE DEF none
    <3>3. QED BY <2>2, <3>1, <3>2 DEF Paired
  <2>5. NoneTwice(p, <<>>, none) BY <2>2 DEF NoneTwice
  <2>6. NoneLost(0, p, <<>>, none) BY <1>1 DEF NoneLost
  <2>7. RightlyPaired(0, <<>>, none, none)
    <3> HIDE DEF none
    <3>1. QED BY <1>1, <2>2 DEF RightlyPaired
  <2> HIDE DEF none
  <2>8. ReaderInv(0, p, <<>>, none, none)
    BY <2>1, <2>3, <2>4, <2>5, <2>6, <2>7 DEF ReaderInv
  <2>9. QED BY <1>1, <2>8
<1>3. \A k \in 0..n : k \in G /\ k < n => k + 1 \in G
  <2> SUFFICES ASSUME NEW k \in 0..n, k < n, NEW p, NEW ev, NEW src, NEW dst,
                      ReaderInv(k, p, ev, src, dst)
               PROVE  \E p2, ev2, src2, dst2 : ReaderInv(k + 1, p2, ev2, src2, dst2)
    BY <1>1
  <2> DEFINE m == k + 1
  <2>1. m \in 1..Len(log) /\ m - 1 = k BY <1>1
  <2>a. ReaderInv(m - 1, p, ev, src, dst) BY <2>1
  <2> HIDE DEF m
  <2>2. CASE m \in StartRecords
    <3>1. ReaderInv(m, [p EXCEPT ![ClassAt(m)] = Append(@, m)], ev, src, dst)
      BY <2>1, <2>2, <2>a, ReadStart
    <3>2. QED BY <3>1 DEF m
  <2>3. CASE m \in EndRecords
    <3>1. CASE p[ClassAt(m)] = <<>>
      <4>1. ReaderInv(m, p, ev, src, dst) BY <2>1, <2>3, <2>a, <3>1, ReadStrayEnd
      <4>2. QED BY <4>1 DEF m
    <3>2. CASE p[ClassAt(m)] # <<>>
      <4>1. \E p2, ev2, src2, dst2 : ReaderInv(m, p2, ev2, src2, dst2)
        BY <2>1, <2>3, <2>a, <3>2, ReadEnd
      <4>2. QED BY <4>1 DEF m
    <3>3. QED BY <3>1, <3>2
  <2>4. QED BY <1>1, <2>1, <2>2, <2>3
<1>4. G = 0..n
  <2>1. G \in SUBSET (0..n) OBVIOUS
  <2> HIDE DEF G, n
  <2>2. QED BY <1>1, <1>2, <1>3, <2>1, UpTo
<1>5. QED BY <1>4

\* A class seen has a first record.
LEMMA FirstSeenFacts ==
  ASSUME Readable, NEW i \in 1..Len(log)
  PROVE  FirstSeen(ClassAt(i)) \in 1..Len(log) /\ ClassAt(FirstSeen(ClassAt(i))) = ClassAt(i)
<1> DEFINE c == ClassAt(i)
           S == {j \in 1..Len(log) : ClassAt(j) = c}
<1>1. Len(log) \in Nat /\ DOMAIN log = 1..Len(log) BY FileFacts
<1>2. S \in SUBSET (0..Len(log)) /\ S # {} BY <1>1
<1>3. PICK f \in S : \A j \in S : f <= j
  <2> HIDE DEF S
  <2>1. QED BY <1>1, <1>2, HasLeast
<1>4. f \in DOMAIN log /\ ClassAt(f) = c /\ \A j \in 1..(f - 1) : ClassAt(j) # c
  <2>1. f \in DOMAIN log /\ ClassAt(f) = c BY <1>1
  <2>2. ASSUME NEW j \in 1..(f - 1), ClassAt(j) = c PROVE FALSE
    <3>1. j \in 1..Len(log) BY <1>1, <2>1
    <3>2. j \in S BY <2>2, <3>1
    <3>3. f <= j BY <1>3, <3>2
    <3>4. QED BY <1>1, <2>1, <3>1, <3>3
  <2>3. QED BY <2>1, <2>2
<1> HIDE DEF c
<1>5. FirstSeen(c) \in DOMAIN log /\ ClassAt(FirstSeen(c)) = c BY <1>4 DEF FirstSeen
<1>6. QED BY <1>1, <1>5 DEF c

\* The open starts are listed, each once.
LEMMA OpenOrder ==
  ASSUME Readable, NEW k \in 0..Len(log), NEW p, Waiting(k, p)
  PROVE  /\ Len(OpenStarts(p)) \in Nat
         /\ DOMAIN OpenStarts(p) = 1..Len(OpenStarts(p))
         /\ \A x \in 1..Len(OpenStarts(p)) :
              \E c \in Class : \E y \in 1..Len(p[c]) : OpenStarts(p)[x] = p[c][y]
         /\ \A x, y \in 1..Len(OpenStarts(p)) : OpenStarts(p)[x] = OpenStarts(p)[y] => x = y
         /\ \A c \in Class : \A y \in 1..Len(p[c]) :
              \E x \in 1..Len(OpenStarts(p)) : OpenStarts(p)[x] = p[c][y]
<1> DEFINE O == UNION {Seqs!ToSet(p[c]) : c \in Class}
           Before(i, j) == \/ FirstSeen(ClassAt(i)) < FirstSeen(ClassAt(j))
                           \/ ClassAt(i) = ClassAt(j) /\ i < j
           R == {r \in O \X O : Before(r[1], r[2])}
           n == Cardinality(O)
           open == OpenStarts(p)
<1>1. Len(log) \in Nat BY FileFacts
<1>2. \A c \in Class : p[c] \in Seq(1..k) /\ DOMAIN p[c] = 1..Len(p[c]) BY DEF Waiting
<1>3. ASSUME NEW o PROVE o \in O <=> \E c \in Class : \E y \in 1..Len(p[c]) : o = p[c][y]
  <2>1. ASSUME NEW c \in Class
        PROVE  o \in Seqs!ToSet(p[c]) <=> \E y \in 1..Len(p[c]) : o = p[c][y]
    BY <1>2 DEF Seqs!ToSet
  <2>2. o \in O <=> \E c \in Class : o \in Seqs!ToSet(p[c]) OBVIOUS
  <2> HIDE DEF O
  <2>3. QED BY <2>1, <2>2
<1>4. O \subseteq 1..Len(log)
  <2>1. ASSUME NEW c \in Class, NEW y \in 1..Len(p[c]) PROVE p[c][y] \in 1..Len(log)
    <3>1. p[c][y] \in 1..k BY <1>2
    <3>2. QED BY <1>1, <3>1
  <2> HIDE DEF O
  <2>2. QED BY <1>3, <2>1
<1>5. IsFiniteSet(O) /\ n \in Nat
  <2> HIDE DEF O
  <2>1. IsFiniteSet(1..Len(log)) BY <1>1, FS_Interval
  <2>2. IsFiniteSet(O) BY <1>4, <2>1, FS_Subset
  <2>3. QED BY <2>2, FS_CardinalityType
<1> HIDE DEF O
<1>6. \A i \in O : /\ i \in Int /\ FirstSeen(ClassAt(i)) \in Int
                   /\ ClassAt(FirstSeen(ClassAt(i))) = ClassAt(i)
  BY <1>1, <1>4, FirstSeenFacts
<1>7. /\ \A a \in O : ~ Before(a, a)
      /\ \A a, b \in O : a # b => Before(a, b) \/ Before(b, a)
      /\ \A a, b, c \in O : Before(a, b) /\ Before(b, c) => Before(a, c)
  BY <1>6
<1> HIDE DEF Before
<1>8. PICK f \in [1..n -> O] : \A i, j \in 1..n : i < j => <<f[i], f[j]>> \in R /\ f[i] # f[j]
  <2>1. \A a, b \in O : <<a, b>> \in R <=> Before(a, b) OBVIOUS
  <2> HIDE DEF R
  <2>2. /\ \A a \in O : <<a, a>> \notin R
        /\ \A a, b \in O : a # b => <<a, b>> \in R \/ <<b, a>> \in R
        /\ \A a, b, c \in O : <<a, b>> \in R /\ <<b, c>> \in R => <<a, c>> \in R
    BY <1>7, <2>1
  <2>3. QED BY <1>5, <2>2, OrderExists
<1>9. open = CHOOSE g \in [1..n -> O] : \A i, j \in DOMAIN g : i < j => <<g[i], g[j]>> \in R
  BY DEF OpenStarts, InOrder, O, Before
<1>10. \E g \in [1..n -> O] : \A i, j \in DOMAIN g : i < j => <<g[i], g[j]>> \in R
  <2>1. f \in [1..n -> O] /\ DOMAIN f = 1..n BY <1>8
  <2> HIDE DEF R
  <2>2. QED BY <1>8, <2>1
<1>11. open \in [1..n -> O] /\ \A i, j \in DOMAIN open : i < j => Before(open[i], open[j])
  <2> HIDE DEF open, R
  <2>1. open \in [1..n -> O] /\ \A i, j \in DOMAIN open : i < j => <<open[i], open[j]>> \in R
    BY <1>9, <1>10
  <2>2. \A a, b : <<a, b>> \in R => Before(a, b) BY DEF R
  <2>3. QED BY <2>1, <2>2
<1> HIDE DEF open
<1>12. open \in [1..n -> O] /\ \A i, j \in 1..n : i # j => open[i] # open[j]
  <2>1. \A i, j \in 1..n : i < j => Before(open[i], open[j]) BY <1>11
  <2>2. \A i, j \in 1..n : i # j => i < j \/ j < i BY <1>5
  <2>3. \A i \in 1..n : open[i] \in O BY <1>11
  <2>4. \A i, j \in 1..n : i # j => open[i] # open[j] BY <1>7, <2>1, <2>2, <2>3
  <2>5. QED BY <1>11, <2>4
<1>13. open \in Seq(O) /\ Len(open) = n /\ DOMAIN open = 1..n
  BY <1>5, <1>12, FunctionIsSeq
<1>14. \A o \in O : \E x \in 1..n : open[x] = o
  <2> DEFINE S == 1..n
  <2>1. Cardinality(S) = Cardinality(O) BY <1>5, FS_Interval
  <2>2. open \in [S -> O] /\ \A i, j \in S : open[i] = open[j] => i = j BY <1>12
  <2> HIDE DEF S, n
  <2>3. \A o \in O : \E x \in S : open[x] = o BY <1>5, <2>1, <2>2, OneToOneIsOnto
  <2>4. QED BY <2>3 DEF S
<1>15. \A x \in 1..n : open[x] \in O BY <1>12
<1> HIDE DEF n
<1>16. QED BY <1>3, <1>5, <1>12, <1>13, <1>14, <1>15 DEF open

\* The events are made of the starts, each of one, the first m of them with
\* the end they were paired with.
Pairing(events, src, dst, m) ==
  /\ Len(events) \in Nat /\ m \in 0..Len(events)
  /\ events = [e \in 1..Len(events) |-> events[e]]
  /\ src \in [1..Len(events) -> StartRecords] /\ dst \in [1..Len(events) -> 1..Len(log)]
  /\ \A e \in 1..Len(events) :
       /\ e <= m => events[e] = Event(src[e], dst[e], FALSE)
       /\ e > m => events[e] = Event(src[e], dst[e], TRUE)
       /\ src[e] <= dst[e]
       /\ e <= m => dst[e] \in EndRecords
       /\ e > m => dst[e] = Len(log)
  /\ \A e, f \in 1..Len(events) : src[e] = src[f] => e = f
  /\ \A i \in StartRecords : \E e \in 1..Len(events) : src[e] = i
  /\ EndInOrder =>
       /\ \A e \in 1..m : InstanceOf(src[e]) = InstanceOf(dst[e])
       /\ \A l \in EndRecords : \E e \in 1..m : dst[e] = l

\* So does load_ground_truth make them.
LEMMA PairingHolds ==
  ASSUME Readable PROVE \E src, dst, m : Pairing(load_ground_truth, src, dst, m)
<1> DEFINE n == Len(log)
<1>1. n \in Nat /\ StartRecords \subseteq 1..n BY FileFacts
<1>2. PICK p, ev, psrc, pdst : ReaderInv(n, p, ev, psrc, pdst)
  <2>1. n \in 0..n BY <1>1
  <2>2. QED BY <2>1, ReaderHolds
<1>3. /\ Reading[n] = [pending |-> p, events |-> ev]
      /\ Waiting(n, p) /\ Paired(n, ev, psrc, pdst) /\ NoneTwice(p, ev, psrc)
      /\ NoneLost(n, p, ev, psrc) /\ RightlyPaired(n, ev, psrc, pdst)
  BY <1>2 DEF ReaderInv
<1> DEFINE m == Len(ev)
           open == OpenStarts(p)
           more == [x \in 1..Len(open) |-> Event(open[x], n, TRUE)]
           all == m + Len(open)
           src == [e \in 1..all |-> IF e <= m THEN psrc[e] ELSE open[e - m]]
           dst == [e \in 1..all |-> IF e <= m THEN pdst[e] ELSE n]
<1>4. /\ Len(open) \in Nat
      /\ DOMAIN open = 1..Len(open)
      /\ \A x \in 1..Len(open) : \E c \in Class : \E y \in 1..Len(p[c]) : open[x] = p[c][y]
      /\ \A x, y \in 1..Len(open) : open[x] = open[y] => x = y
      /\ \A c \in Class : \A y \in 1..Len(p[c]) : \E x \in 1..Len(open) : open[x] = p[c][y]
  <2>1. n \in 0..n BY <1>1
  <2> HIDE DEF n
  <2>2. QED BY <1>3, <2>1, OpenOrder DEF n
<1>5. load_ground_truth = ev \o more
  <2>1. /\ Reading[n].events = ev /\ Reading[n].pending = p BY <1>3
  <2>2. load_ground_truth = ev \o [k \in DOMAIN open |-> Event(open[k], n, TRUE)]
    BY <2>1 DEF load_ground_truth
  <2> HIDE DEF open, n
  <2>3. QED BY <1>4, <2>2
<1> HIDE DEF open
<1>6. /\ m \in Nat /\ ev = [e \in 1..m |-> Event(psrc[e], pdst[e], FALSE)]
      /\ \A e \in 1..m :
           /\ psrc[e] \in StartRecords /\ pdst[e] \in EndRecords /\ pdst[e] \in 1..n /\ psrc[e] < pdst[e]
  BY <1>3 DEF Paired
<1>7. \A x \in 1..Len(open) : open[x] \in StartRecords /\ open[x] \in 1..n
  <2>1. ASSUME NEW c \in Class, NEW y \in 1..Len(p[c]) PROVE p[c][y] \in StartRecords
    BY <1>3 DEF Waiting
  <2>2. QED BY <1>1, <1>4, <2>1
<1>8. /\ Len(ev \o more) = all /\ DOMAIN (ev \o more) = 1..all
      /\ \A e \in 1..all : (ev \o more)[e] = IF e <= m THEN ev[e] ELSE more[e - m]
      /\ ev \o more = [e \in 1..all |-> (ev \o more)[e]]
  <2> DEFINE T == {Event(psrc[e], pdst[e], FALSE) : e \in 1..m} \union {Event(open[x], n, TRUE) : x \in 1..Len(open)}
  <2>1. ev \in [1..m -> T] /\ more \in [1..Len(open) -> T] BY <1>6
  <2> HIDE DEF T, more, m
  <2>2. ev \in Seq(T) /\ more \in Seq(T) /\ Len(ev) = m /\ Len(more) = Len(open)
    BY <1>4, <1>6, <2>1, FunctionIsSeq
  <2>3. /\ ev \o more \in Seq(T) /\ Len(ev \o more) = Len(ev) + Len(more)
        /\ \A i \in 1..(Len(ev) + Len(more)) :
             (ev \o more)[i] = IF i <= Len(ev) THEN ev[i] ELSE more[i - Len(ev)]
    BY <2>2, ConcatProperties
  <2>4. DOMAIN (ev \o more) = 1..Len(ev \o more) /\ ev \o more \in [1..Len(ev \o more) -> T]
    BY <2>3, LenProperties
  <2>5. ev \o more = [e \in 1..Len(ev \o more) |-> (ev \o more)[e]] BY <2>4
  <2>6. QED BY <2>2, <2>3, <2>4, <2>5
<1> HIDE DEF m, more, all, n
<1>9. all \in Nat /\ m \in 0..all /\ all = m + Len(open) BY <1>4, <1>6 DEF all
<1>10. ASSUME NEW e \in 1..all, ~ (e <= m) PROVE e - m \in 1..Len(open)
  BY <1>4, <1>6, <1>9, <1>10
<1>11. ASSUME NEW e \in 1..all, e <= m PROVE e \in 1..m
  BY <1>6, <1>9, <1>11
<1>12. ASSUME NEW e \in 1..all
       PROVE  /\ e <= m => (ev \o more)[e] = Event(src[e], dst[e], FALSE)
              /\ e > m => (ev \o more)[e] = Event(src[e], dst[e], TRUE)
              /\ src[e] \in StartRecords /\ dst[e] \in 1..n /\ src[e] <= dst[e]
              /\ e <= m => dst[e] \in EndRecords
              /\ e > m => dst[e] = n
  <2>1. CASE e <= m
    <3>1. e \in 1..m /\ src[e] = psrc[e] /\ dst[e] = pdst[e] BY <1>11, <2>1
    <3>2. ev[e] = Event(psrc[e], pdst[e], FALSE) BY <1>6, <3>1
    <3>3. psrc[e] \in Nat /\ pdst[e] \in Nat
      <4>1. psrc[e] \in 1..n /\ pdst[e] \in 1..n BY <1>1, <1>6, <3>1
      <4>2. QED BY <1>1, <4>1
    <3>a. (ev \o more)[e] = ev[e] BY <1>8, <2>1
    <3>b. ev[e] = Event(src[e], dst[e], FALSE) BY <3>1, <3>2 DEF Event
    <3>c. /\ src[e] \in StartRecords /\ dst[e] \in 1..n /\ src[e] <= dst[e] /\ dst[e] \in EndRecords
          /\ ~ (e > m)
      BY <1>6, <2>1, <3>1, <3>3
    <3>4. QED BY <2>1, <3>a, <3>b, <3>c
  <2>2. CASE ~ (e <= m)
    <3>1. e - m \in 1..Len(open) /\ src[e] = open[e - m] /\ dst[e] = n BY <1>10, <2>2
    <3>2. more[e - m] = Event(open[e - m], n, TRUE) BY <3>1 DEF more
    <3>3. n \in 1..n /\ src[e] <= n /\ src[e] \in StartRecords BY <1>1, <1>7, <3>1
    <3>a. (ev \o more)[e] = more[e - m] BY <1>8, <2>2
    <3>b. more[e - m] = Event(src[e], dst[e], TRUE) BY <3>1, <3>2 DEF Event
    <3>4. QED BY <2>2, <3>1, <3>3, <3>a, <3>b
  <2>3. QED BY <2>1, <2>2
<1>13. src \in [1..all -> StartRecords] /\ dst \in [1..all -> 1..n] BY <1>12
<1>14. ASSUME NEW e \in 1..all, NEW f \in 1..all, src[e] = src[f] PROVE e = f
  <2>1. \A x \in 1..Len(open), y \in 1..m : open[x] # psrc[y]
    <3>1. \A y \in 1..m, c \in Class : \A z \in 1..Len(p[c]) : psrc[y] # p[c][z]
      BY <1>3 DEF NoneTwice, m
    <3>2. ASSUME NEW x \in 1..Len(open), NEW y \in 1..m PROVE open[x] # psrc[y]
      <4>1. PICK c \in Class : \E z \in 1..Len(p[c]) : open[x] = p[c][z] BY <1>4
      <4>2. QED BY <3>1, <4>1
    <3>3. QED BY <3>2
  <2>2. CASE e <= m /\ f <= m
    <3>1. psrc[e] = psrc[f] /\ e \in 1..m /\ f \in 1..m BY <1>11, <1>14, <2>2
    <3>2. QED BY <1>3, <3>1 DEF NoneTwice, m
  <2>3. CASE e <= m /\ ~ (f <= m)
    <3>1. src[e] = psrc[e] /\ src[f] = open[f - m] /\ e \in 1..m /\ f - m \in 1..Len(open)
      BY <1>10, <1>11, <2>3
    <3>2. QED BY <1>14, <2>1, <3>1
  <2>4. CASE ~ (e <= m) /\ f <= m
    <3>1. src[f] = psrc[f] /\ src[e] = open[e - m] /\ f \in 1..m /\ e - m \in 1..Len(open)
      BY <1>10, <1>11, <2>4
    <3>2. QED BY <1>14, <2>1, <3>1
  <2>5. CASE ~ (e <= m) /\ ~ (f <= m)
    <3>1. open[e - m] = open[f - m] /\ e - m \in 1..Len(open) /\ f - m \in 1..Len(open)
      BY <1>10, <1>14, <2>5
    <3>2. e - m = f - m BY <1>4, <3>1
    <3>3. QED BY <1>6, <1>9, <3>2
  <2>6. QED BY <2>2, <2>3, <2>4, <2>5
<1>15. ASSUME NEW i \in StartRecords PROVE \E e \in 1..all : src[e] = i
  <2>1. i \in 1..n /\ i <= n /\ ClassAt(i) \in Class
    <3>1. i \in 1..n /\ ClassAt(i) \in Class BY <1>1, FileFacts DEF n
    <3>2. QED BY <1>1, <3>1
  <2>2. CASE \E e \in 1..m : psrc[e] = i
    <3>1. PICK e \in 1..m : psrc[e] = i BY <2>2
    <3>2. e \in 1..all /\ e <= m BY <1>6, <1>9
    <3>3. QED BY <3>1, <3>2
  <2>3. CASE \E y \in 1..Len(p[ClassAt(i)]) : p[ClassAt(i)][y] = i
    <3>1. PICK x \in 1..Len(open) : open[x] = i BY <1>4, <2>1, <2>3
    <3> DEFINE z == x + m
    <3>2. z \in 1..all /\ ~ (z <= m) /\ z - m = x BY <1>4, <1>6, <1>9
    <3> HIDE DEF z
    <3>3. src[z] = open[z - m] BY <3>2
    <3>4. QED BY <3>1, <3>2, <3>3
  <2>4. QED BY <1>3, <2>1, <2>2, <2>3 DEF NoneLost, m
<1>16. ASSUME EndInOrder
       PROVE  /\ \A e \in 1..m : InstanceOf(src[e]) = InstanceOf(dst[e])
              /\ \A l \in EndRecords : \E e \in 1..m : dst[e] = l
  <2>1. \A e \in 1..m : e \in 1..all /\ src[e] = psrc[e] /\ dst[e] = pdst[e]
    BY <1>6, <1>9
  <2>2. \A l \in EndRecords : l <= n BY <1>1, FileFacts DEF n
  <2>3. QED BY <1>3, <1>16, <2>1, <2>2 DEF RightlyPaired, m
<1> HIDE DEF src, dst
<1>17. Pairing(load_ground_truth, src, dst, m)
  BY <1>5, <1>8, <1>9, <1>12, <1>13, <1>14, <1>15, <1>16 DEF Pairing, n
<1>18. QED BY <1>17

-----------------------------------------------------------------------------
(***************************************************************************)
(* What the events say.                                                    *)
(***************************************************************************)
\* An event lasts from the time of its start to that of its end.
LEMMA EventFacts ==
  ASSUME Readable, NEW events, NEW src, NEW dst, NEW m, Pairing(events, src, dst, m),
         NEW e \in 1..Len(events)
  PROVE  /\ src[e] \in StartRecords /\ events[e].type = ClassAt(src[e]) /\ events[e].type \in Class
         /\ events[e].from = stamp[src[e]] /\ events[e].to = stamp[dst[e]]
         /\ events[e].from \in Nat /\ events[e].to \in Nat
         /\ 1 <= events[e].from /\ events[e].from <= events[e].to /\ events[e].to <= LastStamp
<1>1. /\ e <= m => events[e] = Event(src[e], dst[e], FALSE)
      /\ e > m => events[e] = Event(src[e], dst[e], TRUE)
      /\ src[e] \in StartRecords /\ dst[e] \in 1..Len(log) /\ src[e] <= dst[e]
  BY DEF Pairing
<1>a. e <= m \/ e > m
  <2>1. Len(events) \in Nat /\ m \in 0..Len(events) BY DEF Pairing
  <2>2. QED BY <2>1
<1>2. src[e] \in 1..Len(log) /\ ClassAt(src[e]) \in Class BY <1>1, FileFacts
<1>3. /\ events[e].type = ClassAt(src[e])
      /\ events[e].from = stamp[src[e]] /\ events[e].to = stamp[dst[e]]
  BY <1>1, <1>a DEF Event
<1>4. /\ stamp[src[e]] \in Nat /\ stamp[dst[e]] \in Nat
      /\ 1 <= stamp[src[e]] /\ stamp[src[e]] <= stamp[dst[e]] /\ stamp[dst[e]] <= LastStamp
  BY <1>1, <1>2, StampFacts
<1>5. QED BY <1>1, <1>2, <1>3, <1>4

\* There is one event for each start.
LEMMA OneEventPerStart ==
  ASSUME Readable, NEW events, NEW src, NEW dst, NEW m, Pairing(events, src, dst, m)
  PROVE  IsFiniteSet(StartRecords) /\ Len(events) = Cardinality(StartRecords)
<1> DEFINE D == 1..Len(events)
<1>1. /\ Len(events) \in Nat /\ src \in [D -> StartRecords]
      /\ \A e, f \in D : src[e] = src[f] => e = f
      /\ \A i \in StartRecords : \E e \in D : src[e] = i
  BY DEF Pairing
<1>2. IsFiniteSet(D) /\ Cardinality(D) = Len(events) BY <1>1, FS_Interval
<1> HIDE DEF D
<1>3. src \in Injection(D, StartRecords) /\ src \in Surjection(D, StartRecords)
  BY <1>1 DEF Injection, IsInjective, Surjection
<1>4. ExistsBijection(D, StartRecords) BY <1>3 DEF ExistsBijection, Bijection
<1>5. IsFiniteSet(StartRecords) /\ Cardinality(StartRecords) = Cardinality(D) BY <1>2, <1>4, FS_Bijection
<1>6. QED BY <1>2, <1>5

\* The reader recovers which end belongs to which start.
LEMMA EventsAreTrue ==
  ASSUME Readable, NEW events, NEW src, NEW dst, NEW m, Pairing(events, src, dst, m), EndInOrder
  PROVE  Seqs!ToSet(events) = TrueEvents
<1> DEFINE L == Len(events)
           EndOf(i) == {j \in RecordsOf("scenario_end") : InstanceOf(j) = InstanceOf(i)}
           Open(i) == Event(i, Len(log), TRUE)
           Closed(i, j) == Event(i, j, FALSE)
           Of(i) == IF EndOf(i) = {} THEN {Open(i)} ELSE {Closed(i, j) : j \in EndOf(i)}
<1>1. /\ L \in Nat /\ m \in 0..L /\ DOMAIN events = 1..L
      /\ \A e \in 1..L :
           /\ e <= m => events[e] = Closed(src[e], dst[e])
           /\ e > m => events[e] = Event(src[e], dst[e], TRUE)
           /\ src[e] \in StartRecords
           /\ e <= m => dst[e] \in EndRecords
           /\ e > m => dst[e] = Len(log)
      /\ \A e, f \in 1..L : src[e] = src[f] => e = f
      /\ \A i \in StartRecords : \E e \in 1..L : src[e] = i
      /\ \A e \in 1..m : InstanceOf(src[e]) = InstanceOf(dst[e])
      /\ \A l \in EndRecords : \E e \in 1..m : dst[e] = l
  BY DEF Pairing
<1>2. \A e \in 1..L : e > m => events[e] = Open(src[e]) BY <1>1
<1>3. TrueEvents = UNION {Of(i) : i \in StartRecords} BY DEF TrueEvents, StartRecords
<1>4. Seqs!ToSet(events) = {events[e] : e \in 1..L} BY <1>1 DEF Seqs!ToSet
<1>5. \A i, j : j \in EndOf(i) <=> j \in EndRecords /\ InstanceOf(j) = InstanceOf(i) BY DEF EndRecords
<1>6. \A i, j \in StartRecords : InstanceOf(i) = InstanceOf(j) => i = j BY FileFacts
<1>7. \A e \in 1..m : e \in 1..L /\ e <= m BY <1>1
<1>8. \A e \in 1..L : e <= m => e \in 1..m BY <1>1
<1>9. \A e \in 1..L : e <= m \/ e > m BY <1>1
<1> HIDE DEF EndOf, Open, Closed, L
<1>10. ASSUME NEW i \in StartRecords, NEW j \in EndOf(i)
       PROVE  \E f \in 1..m : src[f] = i /\ dst[f] = j
  <2>1. PICK f \in 1..m : dst[f] = j BY <1>1, <1>5
  <2>2. InstanceOf(src[f]) = InstanceOf(i) /\ src[f] \in StartRecords BY <1>1, <1>5, <1>7, <2>1
  <2>3. QED BY <1>6, <2>1, <2>2
<1>11. ASSUME NEW e \in 1..L PROVE events[e] \in Of(src[e])
  <2>1. CASE e <= m
    <3>1. dst[e] \in EndOf(src[e]) BY <1>1, <1>5, <1>8, <2>1
    <3>2. events[e] \in {Closed(src[e], j) : j \in EndOf(src[e])} BY <1>1, <2>1, <3>1
    <3>3. EndOf(src[e]) # {} BY <3>1
    <3>4. QED BY <3>2, <3>3
  <2>2. CASE e > m
    <3>1. ASSUME NEW j \in EndOf(src[e]) PROVE FALSE
      <4>1. PICK f \in 1..m : src[f] = src[e] BY <1>1, <1>10
      <4>2. f = e /\ f <= m BY <1>1, <1>7, <4>1
      <4>3. QED BY <1>1, <2>2, <4>2
    <3>2. QED BY <1>2, <2>2, <3>1
  <2>3. QED BY <1>9, <2>1, <2>2
<1>12. ASSUME NEW i \in StartRecords, NEW x \in Of(i) PROVE \E e \in 1..L : x = events[e]
  <2>1. CASE EndOf(i) = {}
    <3>1. PICK e \in 1..L : src[e] = i BY <1>1
    <3>2. ~ (e <= m) BY <1>1, <1>5, <1>8, <2>1, <3>1
    <3>3. QED BY <1>2, <1>9, <2>1, <3>1, <3>2
  <2>2. CASE EndOf(i) # {}
    <3>1. PICK j \in EndOf(i) : x = Closed(i, j) BY <2>2
    <3>2. PICK f \in 1..m : src[f] = i /\ dst[f] = j BY <1>10
    <3>3. QED BY <1>1, <1>7, <3>1, <3>2
  <2>3. QED BY <2>1, <2>2
<1>13. QED
  <2> HIDE DEF Of
  <2>1. ASSUME NEW e \in 1..L PROVE events[e] \in TrueEvents
    <3>1. events[e] \in Of(src[e]) /\ src[e] \in StartRecords BY <1>1, <1>11
    <3>2. QED BY <1>3, <3>1
  <2>2. \A x \in TrueEvents : x \in Seqs!ToSet(events) BY <1>3, <1>4, <1>12
  <2>3. QED BY <1>4, <2>1, <2>2

-----------------------------------------------------------------------------
(***************************************************************************)
(* The detector that knows every start, and nothing else.                  *)
(***************************************************************************)
\* Events that do not end before they begin.
TimedEvents(events) ==
  /\ Len(events) \in Nat /\ DOMAIN events = 1..Len(events)
  /\ \A e \in 1..Len(events) :
       events[e].from \in Nat /\ events[e].to \in Nat /\ events[e].from <= events[e].to

\* An alarm at the start of an event belongs to the first that starts there.
LEMMA AlarmAtStart ==
  ASSUME NEW events, TimedEvents(events), NEW a \in 1..Len(events), NEW t, t = events[a].from
  PROVE  \A e : e \in AssignedTo(events, t) <=>
           /\ e \in 1..Len(events) /\ events[e].from = t
           /\ \A g \in 1..Len(events) : events[g].from = t => e <= g
<1> DEFINE D == 1..Len(events)
           d(e) == Distance(events[e], t)
<1>1. /\ t \in Nat /\ DOMAIN events = D /\ D \subseteq Nat
      /\ \A e \in D : events[e].from \in Nat /\ events[e].to \in Nat /\ events[e].from <= events[e].to
      /\ PreMargin \in Nat /\ PostMargin \in Nat /\ a \in D
  BY EvaluationAssumption DEF TimedEvents
<1>2. \A e \in D : events[e].from = t => e \in Windows(events, t) BY <1>1 DEF Windows
<1>3. \A e \in D : d(e) \in Nat /\ (d(e) = 0 <=> events[e].from = t) BY <1>1 DEF Distance
<1>4. Windows(events, t) \subseteq D BY <1>1 DEF Windows
<1>5. \A e : e \in AssignedTo(events, t) <=>
        /\ e \in Windows(events, t)
        /\ \A g \in Windows(events, t) \ {e} : d(e) < d(g) \/ (d(e) = d(g) /\ e < g)
  BY DEF AssignedTo
<1> HIDE DEF D, d
<1>6. ASSUME NEW e \in AssignedTo(events, t)
      PROVE  e \in D /\ events[e].from = t /\ \A g \in D : events[g].from = t => e <= g
  <2>1. e \in D BY <1>4, <1>5
  <2>2. events[e].from = t
    <3> SUFFICES ASSUME events[e].from # t PROVE FALSE OBVIOUS
    <3>1. a \in Windows(events, t) \ {e} BY <1>1, <1>2
    <3>2. d(e) < d(a) \/ (d(e) = d(a) /\ e < a) BY <1>5, <3>1
    <3>3. d(e) \in Nat /\ d(e) # 0 /\ d(a) = 0 BY <1>1, <1>3, <2>1
    <3>4. QED BY <3>2, <3>3
  <2>3. ASSUME NEW g \in D, events[g].from = t PROVE e <= g
    <3>1. CASE g = e BY <1>1, <2>1, <3>1
    <3>2. CASE g # e
      <4>1. d(e) < d(g) \/ (d(e) = d(g) /\ e < g) BY <1>2, <1>5, <2>3, <3>2
      <4>2. d(e) = 0 /\ d(g) = 0 BY <1>3, <2>1, <2>2, <2>3
      <4>3. e \in Nat /\ g \in Nat BY <1>1, <2>1
      <4>4. QED BY <4>1, <4>2, <4>3
    <3>3. QED BY <3>1, <3>2
  <2>4. QED BY <2>1, <2>2, <2>3
<1>7. ASSUME NEW e \in D, events[e].from = t, \A g \in D : events[g].from = t => e <= g
      PROVE  e \in AssignedTo(events, t)
  <2>1. e \in Windows(events, t) /\ d(e) = 0 /\ e \in Nat BY <1>1, <1>2, <1>3, <1>7
  <2>2. ASSUME NEW g \in Windows(events, t) \ {e} PROVE d(e) < d(g) \/ (d(e) = d(g) /\ e < g)
    <3>1. g \in D /\ g \in Nat /\ d(g) \in Nat BY <1>1, <1>3, <1>4
    <3>2. CASE events[g].from = t
      <4>1. d(g) = 0 /\ e <= g /\ e # g BY <1>3, <1>7, <3>1, <3>2
      <4>2. QED BY <2>1, <3>1, <4>1
    <3>3. CASE events[g].from # t
      <4>1. d(g) # 0 BY <1>3, <3>1, <3>3
      <4>2. QED BY <2>1, <3>1, <4>1
    <3>4. QED BY <3>2, <3>3
  <2>3. QED BY <1>5, <2>1, <2>2
<1>8. QED BY <1>6, <1>7 DEF D

\* An alarm at every start finds one event for each time, and is never false.
LEMMA AllStarts ==
  ASSUME NEW events, TimedEvents(events), NEW P, P = {events[e].from : e \in 1..Len(events)}
  PROVE  /\ Score(events, P).tp = Cardinality(P) /\ Score(events, P).fp = 0
         /\ Score(events, P).tp + Score(events, P).fn = Len(events)
<1> DEFINE D == 1..Len(events)
           found == Detected(events, P)
           begin == [e \in found |-> events[e].from]
<1>1. /\ Len(events) \in Nat /\ DOMAIN events = D /\ D \subseteq Nat /\ IsFiniteSet(D)
      /\ Cardinality(D) = Len(events)
  BY FS_Interval DEF TimedEvents
<1>2. \A t \in P : \A e : e \in AssignedTo(events, t) <=>
        /\ e \in D /\ events[e].from = t
        /\ \A g \in D : events[g].from = t => e <= g
  BY AlarmAtStart
<1>3. \A t \in P : \E e \in D : e \in AssignedTo(events, t)
  <2> SUFFICES ASSUME NEW t \in P PROVE \E e \in D : e \in AssignedTo(events, t) OBVIOUS
  <2> DEFINE S == {e \in D : events[e].from = t}
  <2>1. S \in SUBSET (0..Len(events)) /\ S # {} BY <1>1
  <2> HIDE DEF S
  <2>2. PICK e \in S : \A g \in S : e <= g BY <1>1, <2>1, HasLeast
  <2>3. e \in D /\ events[e].from = t /\ \A g \in D : events[g].from = t => e <= g
    BY <2>2 DEF S
  <2>4. QED BY <1>2, <2>3
<1>4. \A e : e \in found <=> \E t \in P : e \in AssignedTo(events, t) BY DEF Detected
<1> HIDE DEF D, found
<1>5. found \subseteq D /\ \A e \in found : events[e].from \in P
  BY <1>2, <1>4
<1>6. begin \in Injection(found, P)
  <2>1. \A e, f \in found : events[e].from = events[f].from => e = f
    <3> SUFFICES ASSUME NEW e \in found, NEW f \in found, events[e].from = events[f].from
                 PROVE  e = f
      OBVIOUS
    <3>1. e \in D /\ f \in D /\ e <= f /\ f <= e BY <1>2, <1>4
    <3>2. QED BY <1>1, <3>1
  <2>2. begin \in [found -> P] BY <1>5
  <2>3. QED BY <2>1, <2>2 DEF Injection, IsInjective
<1>7. begin \in Surjection(found, P)
  <2>1. begin \in [found -> P] BY <1>5
  <2>2. ASSUME NEW t \in P PROVE \E e \in found : begin[e] = t
    <3>1. PICK e \in D : e \in AssignedTo(events, t) BY <1>3
    <3>2. e \in found /\ events[e].from = t BY <1>2, <1>4, <3>1
    <3>3. QED BY <3>2
  <2>3. QED BY <2>1, <2>2 DEF Surjection
<1>8. IsFiniteSet(found) BY <1>1, <1>5, FS_Subset
<1>9. Cardinality(P) = Cardinality(found)
  <2> HIDE DEF begin
  <2>1. ExistsBijection(found, P) BY <1>6, <1>7 DEF ExistsBijection, Bijection
  <2>2. QED BY <1>8, <2>1, FS_Bijection
<1>10. FalsePositives(events, P) = {} BY <1>3 DEF FalsePositives
<1>11. Cardinality(DOMAIN events \ found) = Len(events) - Cardinality(found)
  <2>1. D \intersect found = found BY <1>5
  <2>2. Cardinality(D \ found) = Cardinality(D) - Cardinality(D \intersect found)
    BY <1>1, FS_Difference
  <2>3. QED BY <1>1, <2>1, <2>2
<1>12. /\ Score(events, P).tp = Cardinality(found)
       /\ Score(events, P).fn = Cardinality(DOMAIN events \ found)
       /\ Score(events, P).fp = Cardinality(FalsePositives(events, P))
  BY DEF Score, found
<1>13. Cardinality(found) \in Nat BY <1>8, FS_CardinalityType
<1>14. Score(events, P).fp = 0 BY <1>10, <1>12, FS_EmptySet
<1>15. Score(events, P).tp + Score(events, P).fn = Len(events) BY <1>1, <1>11, <1>12, <1>13
<1>16. QED BY <1>9, <1>12, <1>14, <1>15

\* When no two events begin at a time, alarms at the starts of some of them
\* find those and no others, at once.
LEMMA SomeStarts ==
  ASSUME NEW events, TimedEvents(events),
         \A e, f \in 1..Len(events) : events[e].from = events[f].from => e = f,
         NEW C \in SUBSET (1..Len(events)), NEW A,
         \A t : t \in A <=> \E e \in C : t = events[e].from
  PROVE  /\ Detected(events, A) = C
         /\ IsFiniteSet(C) /\ Cardinality(A) = Cardinality(C)
         /\ \A e \in C : Latency(events, A, e) = 0
<1> DEFINE D == 1..Len(events)
           begin == [e \in C |-> events[e].from]
<1>1. /\ Len(events) \in Nat /\ IsFiniteSet(D) /\ D \subseteq Nat
      /\ \A e \in D : events[e].from \in Nat
  BY FS_Interval DEF TimedEvents
<1>2. ASSUME NEW a \in C, NEW e
      PROVE  e \in AssignedTo(events, events[a].from) <=> e = a
  <2>1. a \in D OBVIOUS
  <2>2. e \in AssignedTo(events, events[a].from) <=>
          /\ e \in D /\ events[e].from = events[a].from
          /\ \A g \in D : events[g].from = events[a].from => e <= g
    BY <2>1, AlarmAtStart
  <2>3. \A g \in D : events[g].from = events[a].from => g = a BY <2>1
  <2>4. a <= a BY <1>1, <2>1
  <2> HIDE DEF D
  <2>5. QED BY <2>1, <2>2, <2>3, <2>4
<1>3. Detected(events, A) = C
  <2>1. \A e : e \in Detected(events, A) <=> \E a \in C : e \in AssignedTo(events, events[a].from)
    BY DEF Detected
  <2>2. ASSUME NEW e PROVE e \in Detected(events, A) <=> e \in C
    <3>1. \A a \in C : e \in AssignedTo(events, events[a].from) <=> e = a BY <1>2
    <3>2. e \in C => e \in Detected(events, A) BY <2>1, <3>1
    <3>3. ASSUME NEW a \in C, e \in AssignedTo(events, events[a].from) PROVE e \in C
      BY <3>1, <3>3
    <3>4. QED BY <2>1, <3>2, <3>3
  <2>3. QED BY <2>2
<1>4. IsFiniteSet(C)
  <2>1. C \in SUBSET D OBVIOUS
  <2> HIDE DEF D
  <2>2. QED BY <1>1, <2>1, FS_Subset
<1>5. Cardinality(A) = Cardinality(C)
  <2>1. begin \in [C -> A] OBVIOUS
  <2>2. \A e, f \in C : begin[e] = begin[f] => e = f OBVIOUS
  <2>3. \A t \in A : \E e \in C : begin[e] = t OBVIOUS
  <2> HIDE DEF begin
  <2>a. begin \in Injection(C, A) BY <2>1, <2>2 DEF Injection, IsInjective
  <2>b. begin \in Surjection(C, A) BY <2>1, <2>3 DEF Surjection
  <2>4. ExistsBijection(C, A) BY <2>a, <2>b DEF ExistsBijection, Bijection
  <2>5. QED BY <1>4, <2>4, FS_Bijection
<1>6. ASSUME NEW e \in C PROVE Latency(events, A, e) = 0
  <2> DEFINE own == {t \in A : e \in AssignedTo(events, t)}
             t0 == events[e].from
  <2>1. t0 \in Nat BY <1>1
  <2>2. own = {t0}
    <3>1. \A a \in C : e \in AssignedTo(events, events[a].from) <=> e = a BY <1>2
    <3>2. QED BY <3>1
  <2> HIDE DEF own
  <2>3. (CHOOSE t \in own : \A u \in own : t <= u) = t0
    <3>1. t0 \in own /\ \A u \in own : t0 <= u BY <2>1, <2>2
    <3>2. QED BY <2>2, <3>1
  <2>4. Latency(events, A, e) = t0 - t0 BY <2>3 DEF Latency, own
  <2>5. QED BY <2>1, <2>4
<1>7. QED BY <1>3, <1>4, <1>5, <1>6

\* The times at which scenarios start are those at which events begin.
LEMMA StartTimes ==
  ASSUME Readable, NEW events, NEW src, NEW dst, NEW m, Pairing(events, src, dst, m)
  PROVE  /\ TimedEvents(events)
         /\ {stamp[i] : i \in StartRecords} = {events[e].from : e \in 1..Len(events)}
         /\ \A c \in Class :
              {stamp[i] : i \in {j \in StartRecords : ClassAt(j) = c}}
                = {events[e].from : e \in {f \in 1..Len(events) : events[f].type = c}}
<1> DEFINE D == 1..Len(events)
<1>1. /\ Len(events) \in Nat /\ DOMAIN events = D
      /\ \A i \in StartRecords : \E e \in D : src[e] = i
  BY DEF Pairing
<1>2. \A e \in D : /\ src[e] \in StartRecords /\ events[e].type = ClassAt(src[e])
                   /\ events[e].from = stamp[src[e]]
  BY EventFacts
<1>3. \A e \in D : events[e].from \in Nat /\ events[e].to \in Nat /\ events[e].from <= events[e].to
  BY EventFacts
<1>4. TimedEvents(events) BY <1>1, <1>3 DEF TimedEvents
<1> HIDE DEF D
<1>5. {stamp[i] : i \in StartRecords} = {events[e].from : e \in D} BY <1>1, <1>2
<1>6. ASSUME NEW c \in Class
      PROVE  {stamp[i] : i \in {j \in StartRecords : ClassAt(j) = c}}
               = {events[e].from : e \in {f \in D : events[f].type = c}}
  <2>1. \A i \in {j \in StartRecords : ClassAt(j) = c} :
          \E e \in {f \in D : events[f].type = c} : stamp[i] = events[e].from
    BY <1>1, <1>2
  <2>2. \A e \in {f \in D : events[f].type = c} :
          \E i \in {j \in StartRecords : ClassAt(j) = c} : stamp[i] = events[e].from
    BY <1>2
  <2>3. QED BY <2>1, <2>2
<1>7. QED BY <1>4, <1>5, <1>6 DEF D

\* If as many times as starts were seen, no two events begin at a time.
LEMMA DistinctStarts ==
  ASSUME Readable, NEW events, NEW src, NEW dst, NEW m, Pairing(events, src, dst, m),
         Cardinality({stamp[i] : i \in StartRecords}) = Cardinality(StartRecords)
  PROVE  \A e, f \in 1..Len(events) : events[e].from = events[f].from => e = f
<1> DEFINE P == {stamp[i] : i \in StartRecords}
           time == [i \in StartRecords |-> stamp[i]]
<1>1. IsFiniteSet(StartRecords) BY OneEventPerStart
<1>2. time \in Surjection(StartRecords, P) BY DEF Surjection
<1>3. time \in Injection(StartRecords, P)
  <2>1. Cardinality(P) = Cardinality(StartRecords) OBVIOUS
  <2> HIDE DEF time, P
  <2>2. QED BY <1>1, <1>2, <2>1, FS_Surjection
<1>4. \A i, j \in StartRecords : stamp[i] = stamp[j] => i = j BY <1>3 DEF Injection, IsInjective
<1>5. \A e \in 1..Len(events) : src[e] \in StartRecords /\ events[e].from = stamp[src[e]] BY EventFacts
<1>6. \A e, f \in 1..Len(events) : src[e] = src[f] => e = f BY DEF Pairing
<1>7. QED BY <1>4, <1>5, <1>6

\* The detector of EvaluationTrue that knows a single class.
StartsOf(c) == {stamp[i] : i \in {j \in StartRecords : ClassAt(j) = c}}

\* It finds all events of its class at once, and none of another.
LEMMA OneClass ==
  ASSUME Readable, NEW events, NEW src, NEW dst, NEW m, Pairing(events, src, dst, m),
         Cardinality({stamp[i] : i \in StartRecords}) = Cardinality(StartRecords),
         NEW c \in Class, NEW d \in DOMAIN PerScenario(events, StartsOf(c))
  PROVE  /\ PerScenario(events, StartsOf(c))[d].detected_events
              = IF c = d THEN Cardinality(StartsOf(c)) ELSE 0
         /\ PerScenario(events, StartsOf(c))[d].latencies \subseteq {0}
<1> DEFINE D == 1..Len(events)
           C == {f \in D : events[f].type = c}
           A == StartsOf(c)
           all == {e \in DOMAIN events : events[e].type = d}
           found == all \intersect Detected(events, A)
<1>1. TimedEvents(events) /\ A = {events[e].from : e \in C} BY StartTimes DEF StartsOf
<1>2. \A e, f \in D : events[e].from = events[f].from => e = f BY DistinctStarts
<1>3. /\ Detected(events, A) = C /\ Cardinality(A) = Cardinality(C)
      /\ \A e \in C : Latency(events, A, e) = 0
  <2>1. C \in SUBSET (1..Len(events)) OBVIOUS
  <2>2. \A t : t \in A <=> \E e \in C : t = events[e].from BY <1>1
  <2>3. TimedEvents(events) BY <1>1
  <2> HIDE DEF C, A
  <2>4. QED BY ONLY <1>2, <2>1, <2>2, <2>3, SomeStarts
<1>4. DOMAIN events = D BY <1>1 DEF TimedEvents
<1>5. /\ PerScenario(events, A)[d].detected_events = Cardinality(found)
      /\ PerScenario(events, A)[d].latencies = {Latency(events, A, e) : e \in found}
  BY DEF PerScenario, A
<1>6. found \subseteq C BY <1>3
<1>7. Cardinality(found) = IF c = d THEN Cardinality(A) ELSE 0
  <2>1. CASE c = d
    <3>1. found = C BY <1>3, <1>4, <2>1
    <3>2. QED BY <1>3, <2>1, <3>1
  <2>2. CASE c # d
    <3>1. found = {} BY <1>3, <2>2
    <3>2. QED BY <2>2, <3>1, FS_EmptySet
  <2>3. QED BY <2>1, <2>2
<1> HIDE DEF found, C
<1>8. {Latency(events, A, e) : e \in found} \subseteq {0} BY <1>3, <1>6
<1>9. QED BY <1>5, <1>7, <1>8

-----------------------------------------------------------------------------
(***************************************************************************)
(* The time under an anomaly.                                              *)
(***************************************************************************)
\* The events in the order of their starts: each once.
LEMMA SortedFacts ==
  ASSUME NEW events, TimedEvents(events)
  PROVE  /\ \A k \in 1..Len(events) : SortedByStart(events)[k] \in 1..Len(events)
         /\ \A k, l \in 1..Len(events) : k < l =>
              events[SortedByStart(events)[k]].from <= events[SortedByStart(events)[l]].from
         /\ \A e \in 1..Len(events) : \E k \in 1..Len(events) : SortedByStart(events)[k] = e
<1> DEFINE D == DOMAIN events
           n == Cardinality(D)
           Before(e, f) == \/ events[e].from < events[f].from
                           \/ events[e].from = events[f].from /\ e < f
           R == {r \in D \X D : Before(r[1], r[2])}
           sorted == SortedByStart(events)
<1>1. /\ D = 1..Len(events) /\ Len(events) \in Nat /\ D \subseteq Nat
      /\ \A e \in D : events[e].from \in Nat
  BY DEF TimedEvents
<1>2. IsFiniteSet(D) /\ n = Len(events) BY <1>1, FS_Interval
<1> HIDE DEF D
<1>3. /\ \A a \in D : ~ Before(a, a)
      /\ \A a, b \in D : a # b => Before(a, b) \/ Before(b, a)
      /\ \A a, b, c \in D : Before(a, b) /\ Before(b, c) => Before(a, c)
  BY <1>1
<1>4. \A a, b \in D : Before(a, b) => events[a].from <= events[b].from BY <1>1
<1> HIDE DEF Before
<1>5. PICK f \in [1..n -> D] : \A i, j \in 1..n : i < j => <<f[i], f[j]>> \in R /\ f[i] # f[j]
  <2>1. \A a, b \in D : <<a, b>> \in R <=> Before(a, b) OBVIOUS
  <2> HIDE DEF R
  <2>2. /\ \A a \in D : <<a, a>> \notin R
        /\ \A a, b \in D : a # b => <<a, b>> \in R \/ <<b, a>> \in R
        /\ \A a, b, c \in D : <<a, b>> \in R /\ <<b, c>> \in R => <<a, c>> \in R
    BY <1>3, <2>1
  <2>3. QED BY <1>2, <2>2, OrderExists
<1>6. \E g \in [1..n -> D] : \A i, j \in DOMAIN g : i < j => <<g[i], g[j]>> \in R
  <2>1. f \in [1..n -> D] /\ DOMAIN f = 1..n BY <1>5
  <2> HIDE DEF R
  <2>2. QED BY <1>5, <2>1
<1>7. sorted = CHOOSE g \in [1..n -> D] : \A i, j \in DOMAIN g : i < j => <<g[i], g[j]>> \in R
  BY DEF SortedByStart, InOrder, D, Before
<1>8. sorted \in [1..n -> D] /\ \A i, j \in DOMAIN sorted : i < j => Before(sorted[i], sorted[j])
  <2> HIDE DEF sorted, R
  <2>1. sorted \in [1..n -> D]
        /\ \A i, j \in DOMAIN sorted : i < j => <<sorted[i], sorted[j]>> \in R
    BY <1>6, <1>7
  <2>2. \A a, b : <<a, b>> \in R => Before(a, b) BY DEF R
  <2>3. QED BY <2>1, <2>2
<1> HIDE DEF sorted
<1>9. \A i, j \in 1..n : i < j => Before(sorted[i], sorted[j]) BY <1>8
<1>10. \A i \in 1..n : sorted[i] \in D BY <1>8
<1>11. \A i, j \in 1..n : sorted[i] = sorted[j] => i = j
  <2>1. n \in Nat BY <1>1, <1>2
  <2> HIDE DEF n
  <2>2. \A i, j \in 1..n : i # j => i < j \/ j < i BY <2>1
  <2>3. QED BY <1>3, <1>9, <1>10, <2>2
<1>12. \A e \in D : \E k \in D : sorted[k] = e
  <2>1. sorted \in [D -> D] /\ \A i, j \in D : sorted[i] = sorted[j] => i = j
    BY <1>1, <1>2, <1>8, <1>11
  <2>2. QED BY <1>2, <2>1, OneToOneIsOnto
<1>13. \A i, j \in D : i < j => events[sorted[i]].from <= events[sorted[j]].from
  BY <1>1, <1>2, <1>4, <1>9, <1>10
<1>14. \A i \in D : sorted[i] \in D BY <1>1, <1>2, <1>10
<1>15. QED BY <1>1, <1>12, <1>13, <1>14 DEF sorted

\* The definition of the merged intervals by recursion defines what it says.
LEMMA MergedStep ==
  ASSUME NEW events, Len(events) \in Nat
  PROVE  \E M : /\ MergedIntervals(events) = M[Len(events)]
                /\ M[0] = <<>>
                /\ \A k \in 1..Len(events) :
                     M[k] = MergeInterval(M[k - 1], events[SortedByStart(events)[k]])
<1> DEFINE n == Len(events)
           Next1(s, k) == MergeInterval(s, events[SortedByStart(events)[k]])
           Is(f, m) == f = [k \in 0..m |-> IF k = 0 THEN <<>> ELSE Next1(f[k - 1], k)]
           G == {m \in 0..n : \E f : Is(f, m)}
           Merged == CHOOSE f : Is(f, n)
<1>a. MergedIntervals(events) = Merged[n] BY DEF MergedIntervals
<1> HIDE DEF n, Next1
<1>0. n \in Nat BY DEF n
<1>1. 0 \in G
  <2> DEFINE f == [k \in 0..0 |-> <<>>]
  <2>1. Is(f, 0) OBVIOUS
  <2> HIDE DEF f, Is
  <2>2. QED BY <2>1, <1>0
<1>2. \A m \in 0..n : m \in G /\ m < n => m + 1 \in G
  <2> SUFFICES ASSUME NEW m \in 0..n, m < n, NEW f, Is(f, m)
               PROVE  \E g : Is(g, m + 1)
    BY <1>0
  <2> DEFINE g == [k \in 0..(m + 1) |-> IF k = m + 1 THEN Next1(f[m], m + 1) ELSE f[k]]
  <2>1. \A k \in 0..(m + 1) : g[k] = IF k = 0 THEN <<>> ELSE Next1(g[k - 1], k)
    <3> SUFFICES ASSUME NEW k \in 0..(m + 1)
                 PROVE  g[k] = IF k = 0 THEN <<>> ELSE Next1(g[k - 1], k)
      OBVIOUS
    <3>1. CASE k = m + 1
      <4>1. k # 0 /\ k - 1 = m /\ g[k - 1] = f[m] BY <3>1
      <4>2. QED BY <3>1, <4>1
    <3>2. CASE k # m + 1 /\ k # 0
      <4>1. k \in 0..m /\ k - 1 \in 0..m BY <3>2
      <4>2. g[k] = f[k] /\ g[k - 1] = f[k - 1] BY <3>2, <4>1
      <4>3. f[k] = Next1(f[k - 1], k) BY <3>2, <4>1
      <4>4. QED BY <3>2, <4>2, <4>3
    <3>3. CASE k = 0
      <4>1. g[0] = f[0] /\ f[0] = <<>> OBVIOUS
      <4>2. QED BY <3>3, <4>1
    <3>4. QED BY <3>1, <3>2, <3>3
  <2>2. Is(g, m + 1) BY <2>1
  <2> HIDE DEF g, Is
  <2>3. QED BY <2>2
<1>3. n \in G
  <2>1. G \in SUBSET (0..n) OBVIOUS
  <2> HIDE DEF G
  <2>2. G = 0..n BY <1>0, <1>1, <1>2, <2>1, UpTo
  <2>3. QED BY <2>2, <1>0
<1>4. Is(Merged, n)
  <2>1. \E f : Is(f, n) BY <1>3
  <2> HIDE DEF Is
  <2>2. QED BY <2>1
<1> HIDE DEF Merged
<1>5. Merged[0] = <<>> /\ \A k \in 1..n : Merged[k] = Next1(Merged[k - 1], k) BY <1>0, <1>4
<1>6. QED BY <1>a, <1>5 DEF n, Next1

\* Intervals apart from each other, in order.
Intervals == [from : Nat, to : Nat]
ApartInOrder(M) ==
  /\ M \in Seq(Intervals)
  /\ \A x \in 1..Len(M) : M[x].from <= M[x].to
  /\ \A x, y \in 1..Len(M) : x < y => M[x].to < M[y].from

Within(t, interval) == interval.from <= t /\ t < interval.to

\* Merging an event that begins no earlier than the last interval adds its
\* time, and leaves the intervals apart.
LEMMA MergeAdds ==
  ASSUME NEW M, ApartInOrder(M), NEW event, event.from \in Nat, event.to \in Nat,
         event.from <= event.to, M # <<>> => M[Len(M)].from <= event.from
  PROVE  /\ ApartInOrder(MergeInterval(M, event))
         /\ MergeInterval(M, event) # <<>>
         /\ MergeInterval(M, event)[Len(MergeInterval(M, event))].from <= event.from
         /\ \A t \in Nat :
              (\E x \in 1..Len(MergeInterval(M, event)) : Within(t, MergeInterval(M, event)[x]))
                <=> (\E x \in 1..Len(M) : Within(t, M[x])) \/ Within(t, event)
<1> DEFINE n == Len(M)
           new == MergeInterval(M, event)
<1>1. /\ M \in Seq(Intervals) /\ n \in Nat
      /\ M # <<>> => n \in 1..n
      /\ \A x \in 1..n : M[x] \in Intervals /\ M[x].from \in Nat /\ M[x].to \in Nat
                         /\ M[x].from <= M[x].to
      /\ \A x, y \in 1..n : x < y => M[x].to < M[y].from
  <2>1. M \in Seq(Intervals) BY DEF ApartInOrder
  <2>2. n \in Nat BY <2>1, LenProperties
  <2>3. M # <<>> => n \in 1..n
    <3>1. M # <<>> => n # 0 BY <2>1, EmptySeq
    <3>2. QED BY <2>2, <3>1
  <2>4. \A x \in 1..n : M[x] \in Intervals BY <2>1, ElementOfSeq
  <2>5. \A v \in Intervals : v.from \in Nat /\ v.to \in Nat BY DEF Intervals
  <2>6. /\ \A x \in 1..n : M[x].from <= M[x].to
        /\ \A x, y \in 1..n : x < y => M[x].to < M[y].from
    BY DEF ApartInOrder
  <2>7. QED BY <2>1, <2>2, <2>3, <2>4, <2>5, <2>6
<1>2. CASE M # <<>> /\ event.from <= M[n].to
  <2> DEFINE end == IF M[n].to >= event.to THEN M[n].to ELSE event.to
             last == [M[n] EXCEPT !.to = end]
  <2>1. new = [M EXCEPT ![n] = last] BY <1>2 DEF MergeInterval
  <2>2. n \in 1..n /\ end \in Nat /\ end >= M[n].to /\ end >= event.to
        /\ (end = M[n].to \/ end = event.to)
    BY <1>1, <1>2
  <2>3. last \in Intervals /\ last.from = M[n].from /\ last.to = end
    <3> HIDE DEF end
    <3>1. M[n] \in Intervals BY <1>1, <2>2
    <3>2. QED BY <2>2, <3>1 DEF Intervals
  <2> HIDE DEF last, end, new
  <2>4. /\ new \in Seq(Intervals) /\ Len(new) = n
        /\ \A x \in 1..n : new[x] = IF x = n THEN last ELSE M[x]
    BY <1>1, <2>1, <2>2, <2>3, ExceptSeq
  <2>5. \A x \in 1..n : /\ new[x].from = M[x].from /\ new[x].to \in Nat
                        /\ new[x].to >= M[x].to
    BY <1>1, <2>2, <2>3, <2>4
  <2>6. ApartInOrder(new)
    <3>1. \A x \in 1..n : new[x].from <= new[x].to BY <1>1, <2>5
    <3>2. ASSUME NEW x \in 1..n, NEW y \in 1..n, x < y PROVE new[x].to < new[y].from
      <4>1. x # n BY <1>1, <3>2
      <4>2. new[x] = M[x] /\ M[x].to < M[y].from BY <1>1, <2>4, <3>2, <4>1
      <4>3. QED BY <2>5, <4>2
    <3>3. QED BY <2>4, <3>1, <3>2 DEF ApartInOrder
  <2>7. new # <<>> /\ new[Len(new)].from <= event.from
    <3>1. new # <<>> BY <1>1, <2>2, <2>4
    <3>2. QED BY <1>2, <2>2, <2>4, <2>5, <3>1
  <2>8. ASSUME NEW t \in Nat
        PROVE  (\E x \in 1..n : Within(t, new[x]))
                 <=> (\E x \in 1..n : Within(t, M[x])) \/ Within(t, event)
    <3>1. \A x \in 1..n : Within(t, M[x]) => Within(t, new[x])
      BY <1>1, <2>5 DEF Within
    <3>2. Within(t, new[n]) <=> Within(t, M[n]) \/ Within(t, event)
      <4>1. new[n].from = M[n].from /\ new[n].to = end BY <2>2, <2>3, <2>4
      <4>2. M[n].from \in Nat /\ M[n].to \in Nat /\ M[n].from <= M[n].to BY <1>1, <2>2
      <4>3. M[n].from <= event.from BY <1>2
      <4>4. QED BY <1>2, <2>2, <4>1, <4>2, <4>3 DEF Within
    <3>3. \A x \in 1..n : x # n => new[x] = M[x] BY <2>4
    <3>4. QED BY <2>2, <3>1, <3>2, <3>3
  <2>9. QED BY <2>4, <2>6, <2>7, <2>8 DEF new
<1>3. CASE ~ (M # <<>> /\ event.from <= M[n].to)
  <2> DEFINE i == [from |-> event.from, to |-> event.to]
  <2>1. new = Append(M, i) BY <1>3 DEF MergeInterval
  <2>2. i \in Intervals /\ i.from = event.from /\ i.to = event.to BY DEF Intervals
  <2> HIDE DEF i, new
  <2>3. /\ new \in Seq(Intervals) /\ Len(new) = n + 1
        /\ \A x \in 1..n : new[x] = M[x]
        /\ new[n + 1] = i
    BY <1>1, <2>1, <2>2
  <2>4. \A x \in 1..n : M[x].to < event.from
    <3> SUFFICES ASSUME NEW x \in 1..n PROVE M[x].to < event.from OBVIOUS
    <3>1. M # <<>> BY <1>1
    <3>2. n \in 1..n /\ M[n].to < event.from BY <1>1, <1>3, <3>1
    <3>3. x = n \/ x < n BY <1>1
    <3>4. x < n => M[x].to < M[n].from BY <1>1, <3>2
    <3>5. M[x].to \in Nat /\ M[n].from \in Nat /\ M[n].to \in Nat /\ M[n].from <= M[n].to
      BY <1>1, <3>2
    <3>6. QED BY <3>2, <3>3, <3>4, <3>5
  <2>5. ApartInOrder(new)
    <3>1. \A x \in 1..(n + 1) : x \in 1..n \/ x = n + 1 BY <1>1
    <3>2. \A x \in 1..(n + 1) : new[x].from <= new[x].to BY <1>1, <2>2, <2>3, <3>1
    <3>3. ASSUME NEW x \in 1..(n + 1), NEW y \in 1..(n + 1), x < y
          PROVE  new[x].to < new[y].from
      <4>1. x \in 1..n BY <1>1, <3>3
      <4>2. CASE y \in 1..n BY <1>1, <2>3, <3>3, <4>1, <4>2
      <4>3. CASE y = n + 1 BY <2>2, <2>3, <2>4, <4>1, <4>3
      <4>4. QED BY <3>1, <4>2, <4>3
    <3>4. QED BY <2>3, <3>2, <3>3 DEF ApartInOrder
  <2>6. new # <<>> /\ new[Len(new)].from <= event.from
    <3>1. new # <<>> BY <1>1, <2>3
    <3>2. QED BY <2>2, <2>3, <3>1
  <2>7. ASSUME NEW t \in Nat
        PROVE  (\E x \in 1..(n + 1) : Within(t, new[x]))
                 <=> (\E x \in 1..n : Within(t, M[x])) \/ Within(t, event)
    <3>1. Within(t, new[n + 1]) <=> Within(t, event) BY <2>2, <2>3 DEF Within
    <3>2. \A x : x \in 1..(n + 1) <=> x \in 1..n \/ x = n + 1 BY <1>1
    <3>3. QED BY <2>3, <3>1, <3>2
  <2>8. QED BY <2>3, <2>5, <2>6, <2>7 DEF new
<1>4. QED BY <1>2, <1>3

\* Merged, the intervals are apart and hold the times of the events, no other.
LEMMA MergedFacts ==
  ASSUME NEW events, TimedEvents(events)
  PROVE  /\ ApartInOrder(MergedIntervals(events))
         /\ \A t \in Nat :
              (\E x \in 1..Len(MergedIntervals(events)) : Within(t, MergedIntervals(events)[x]))
                <=> (\E e \in 1..Len(events) : Within(t, events[e]))
<1> DEFINE n == Len(events)
           sorted == SortedByStart(events)
           ev(k) == events[sorted[k]]
<1>1. n \in Nat BY DEF TimedEvents
<1>2. PICK M : /\ MergedIntervals(events) = M[n] /\ M[0] = <<>>
               /\ \A k \in 1..n : M[k] = MergeInterval(M[k - 1], ev(k))
  BY <1>1, MergedStep
<1>3. /\ \A k \in 1..n : sorted[k] \in 1..n
      /\ \A k, l \in 1..n : k < l => ev(k).from <= ev(l).from
      /\ \A e \in 1..n : \E k \in 1..n : sorted[k] = e
  BY SortedFacts
<1>4. \A k \in 1..n : ev(k).from \in Nat /\ ev(k).to \in Nat /\ ev(k).from <= ev(k).to
  BY <1>3 DEF TimedEvents
<1> HIDE DEF sorted, n
<1>5. \A e \in 1..n : \E k \in 1..n : events[e] = ev(k) BY <1>3
<1>6. \A k \in 1..n : \E e \in 1..n : events[e] = ev(k) BY <1>3
<1> HIDE DEF ev
<1> DEFINE Holds(k) ==
             /\ ApartInOrder(M[k])
             /\ k = 0 => M[k] = <<>>
             /\ k > 0 => M[k] # <<>> /\ M[k][Len(M[k])].from <= ev(k).from
             /\ \A t \in Nat : (\E x \in 1..Len(M[k]) : Within(t, M[k][x]))
                                 <=> (\E l \in 1..k : Within(t, ev(l)))
           G == {k \in 0..n : Holds(k)}
<1>7. Holds(0)
  <2>1. Len(M[0]) = 0 /\ M[0] \in Seq(Intervals) BY <1>2, EmptySeq
  <2>2. 1..0 = {} OBVIOUS
  <2>3. ApartInOrder(M[0]) BY <2>1, <2>2 DEF ApartInOrder
  <2>4. QED BY <1>2, <2>1, <2>2, <2>3
<1>8. ASSUME NEW k \in 0..n, Holds(k), k < n PROVE Holds(k + 1)
  <2> DEFINE m == k + 1
  <2>1. m \in 1..n /\ m - 1 = k BY <1>1, <1>8
  <2>2. M[m] = MergeInterval(M[k], ev(m)) BY <1>2, <2>1
  <2>3. /\ ev(m).from \in Nat /\ ev(m).to \in Nat /\ ev(m).from <= ev(m).to BY <1>4, <2>1
  <2>4. M[k] # <<>> => M[k][Len(M[k])].from <= ev(m).from
    <3> SUFFICES ASSUME M[k] # <<>> PROVE M[k][Len(M[k])].from <= ev(m).from OBVIOUS
    <3>1. k > 0 /\ k \in 1..n /\ k < m BY <1>8, <2>1
    <3>2. M[k][Len(M[k])].from <= ev(k).from BY <1>8, <3>1
    <3>3. ev(k).from <= ev(m).from /\ ev(k).from \in Nat BY <1>3, <1>4, <2>1, <3>1
    <3>4. M[k][Len(M[k])].from \in Nat
      <4>1. M[k] \in Seq(Intervals) BY <1>8 DEF ApartInOrder
      <4>2. Len(M[k]) \in 1..Len(M[k]) BY <4>1, EmptySeq
      <4>3. M[k][Len(M[k])] \in Intervals BY <4>1, <4>2, ElementOfSeq
      <4>4. QED BY <4>3 DEF Intervals
    <3>5. QED BY <2>3, <3>2, <3>3, <3>4
  <2> HIDE DEF m
  <2>5. /\ ApartInOrder(M[m]) /\ M[m] # <<>>
        /\ M[m][Len(M[m])].from <= ev(m).from
        /\ \A t \in Nat : (\E x \in 1..Len(M[m]) : Within(t, M[m][x]))
                            <=> (\E x \in 1..Len(M[k]) : Within(t, M[k][x])) \/ Within(t, ev(m))
    <3>1. ApartInOrder(M[k]) BY <1>8
    <3>2. QED BY ONLY <2>2, <2>3, <2>4, <3>1, MergeAdds
  <2>6. \A l : l \in 1..m <=> l \in 1..k \/ l = m BY <1>1, <2>1
  <2>7. \A t \in Nat : (\E l \in 1..m : Within(t, ev(l)))
                         <=> (\E l \in 1..k : Within(t, ev(l))) \/ Within(t, ev(m))
    BY <2>6
  <2>8. \A t \in Nat : (\E x \in 1..Len(M[k]) : Within(t, M[k][x]))
                         <=> (\E l \in 1..k : Within(t, ev(l)))
    BY <1>8
  <2>9. Holds(m)
    <3>1. m > 0 /\ m # 0 BY <2>1
    <3>2. \A t \in Nat : (\E x \in 1..Len(M[m]) : Within(t, M[m][x]))
                           <=> (\E l \in 1..m : Within(t, ev(l)))
      BY <2>5, <2>7, <2>8
    <3>3. QED BY <2>5, <3>1, <3>2
  <2>10. QED BY <2>9 DEF m
<1> HIDE DEF Holds
<1>9. Holds(n)
  <2>1. /\ 0 \in G /\ \A k \in 0..n : k \in G /\ k < n => k + 1 \in G
    BY <1>1, <1>7, <1>8
  <2>2. G \in SUBSET (0..n) OBVIOUS
  <2>3. n \in 0..n BY <1>1
  <2> HIDE DEF G
  <2>4. G = 0..n BY <1>1, <2>1, <2>2, UpTo
  <2>5. QED BY <2>3, <2>4 DEF G
<1>10. ApartInOrder(M[n]) /\ \A t \in Nat : (\E x \in 1..Len(M[n]) : Within(t, M[n][x]))
                                       <=> (\E l \in 1..n : Within(t, ev(l)))
  BY <1>9 DEF Holds
<1>11. QED BY <1>2, <1>5, <1>6, <1>10 DEF n

\* The definition of the sum by recursion defines what it says.
LEMMA SumStep ==
  ASSUME NEW events, Len(MergedIntervals(events)) \in Nat
  PROVE  \E sum : /\ AnomalyTime(events) = sum[Len(MergedIntervals(events))]
                  /\ sum[0] = 0
                  /\ \A k \in 1..Len(MergedIntervals(events)) :
                       sum[k] = sum[k - 1] + MergedIntervals(events)[k].to
                                  - MergedIntervals(events)[k].from
<1> DEFINE merged == MergedIntervals(events)
           n == Len(merged)
           Next1(s, k) == s + merged[k].to - merged[k].from
           Is(f, m) == f = [k \in 0..m |-> IF k = 0 THEN 0 ELSE Next1(f[k - 1], k)]
           G == {m \in 0..n : \E f : Is(f, m)}
           Sum == CHOOSE f : Is(f, n)
<1>a. AnomalyTime(events) = Sum[n] BY DEF AnomalyTime
<1> HIDE DEF n, Next1
<1>0. n \in Nat BY DEF n
<1>1. 0 \in G
  <2> DEFINE f == [k \in 0..0 |-> 0]
  <2>1. Is(f, 0) OBVIOUS
  <2> HIDE DEF f, Is
  <2>2. QED BY <2>1, <1>0
<1>2. \A m \in 0..n : m \in G /\ m < n => m + 1 \in G
  <2> SUFFICES ASSUME NEW m \in 0..n, m < n, NEW f, Is(f, m)
               PROVE  \E g : Is(g, m + 1)
    BY <1>0
  <2> DEFINE g == [k \in 0..(m + 1) |-> IF k = m + 1 THEN Next1(f[m], m + 1) ELSE f[k]]
  <2>1. \A k \in 0..(m + 1) : g[k] = IF k = 0 THEN 0 ELSE Next1(g[k - 1], k)
    <3> SUFFICES ASSUME NEW k \in 0..(m + 1)
                 PROVE  g[k] = IF k = 0 THEN 0 ELSE Next1(g[k - 1], k)
      OBVIOUS
    <3>1. CASE k = m + 1
      <4>1. k # 0 /\ k - 1 = m /\ g[k - 1] = f[m] BY <3>1
      <4>2. QED BY <3>1, <4>1
    <3>2. CASE k # m + 1 /\ k # 0
      <4>1. k \in 0..m /\ k - 1 \in 0..m BY <3>2
      <4>2. g[k] = f[k] /\ g[k - 1] = f[k - 1] BY <3>2, <4>1
      <4>3. f[k] = Next1(f[k - 1], k) BY <3>2, <4>1
      <4>4. QED BY <3>2, <4>2, <4>3
    <3>3. CASE k = 0
      <4>1. g[0] = f[0] /\ f[0] = 0 OBVIOUS
      <4>2. QED BY <3>3, <4>1
    <3>4. QED BY <3>1, <3>2, <3>3
  <2>2. Is(g, m + 1) BY <2>1
  <2> HIDE DEF g, Is
  <2>3. QED BY <2>2
<1>3. n \in G
  <2>1. G \in SUBSET (0..n) OBVIOUS
  <2> HIDE DEF G
  <2>2. G = 0..n BY <1>0, <1>1, <1>2, <2>1, UpTo
  <2>3. QED BY <2>2, <1>0
<1>4. Is(Sum, n)
  <2>1. \E f : Is(f, n) BY <1>3
  <2> HIDE DEF Is
  <2>2. QED BY <2>1
<1> HIDE DEF Sum
<1>5. Sum[0] = 0 /\ \A k \in 1..n : Sum[k] = Next1(Sum[k - 1], k) BY <1>0, <1>4
<1>6. QED BY <1>a, <1>5 DEF n, Next1

\* The lengths of intervals that are apart add up to the times within them.
LEMMA SumCounts ==
  ASSUME NEW M, ApartInOrder(M), NEW sum, sum[0] = 0,
         \A k \in 1..Len(M) : sum[k] = sum[k - 1] + M[k].to - M[k].from
  PROVE  /\ IsFiniteSet({t \in Nat : \E x \in 1..Len(M) : Within(t, M[x])})
         /\ sum[Len(M)] = Cardinality({t \in Nat : \E x \in 1..Len(M) : Within(t, M[x])})
<1> DEFINE n == Len(M)
           T(k) == {t \in Nat : \E x \in 1..k : Within(t, M[x])}
           Holds(k) == IsFiniteSet(T(k)) /\ sum[k] = Cardinality(T(k))
           G == {k \in 0..n : Holds(k)}
<1>1. M \in Seq(Intervals) /\ n \in Nat
  <2>1. M \in Seq(Intervals) BY DEF ApartInOrder
  <2>2. QED BY <2>1, LenProperties
<1>2. /\ \A x \in 1..n : M[x].from \in Nat /\ M[x].to \in Nat /\ M[x].from <= M[x].to
      /\ \A x, y \in 1..n : x < y => M[x].to < M[y].from
  <2>1. \A x \in 1..n : M[x] \in Intervals BY <1>1, ElementOfSeq
  <2>2. \A v \in Intervals : v.from \in Nat /\ v.to \in Nat BY DEF Intervals
  <2>3. /\ \A x \in 1..n : M[x].from <= M[x].to
        /\ \A x, y \in 1..n : x < y => M[x].to < M[y].from
    BY DEF ApartInOrder
  <2>4. QED BY <2>1, <2>2, <2>3
<1> HIDE DEF n
<1>3. Holds(0)
  <2>1. 1..0 = {} OBVIOUS
  <2>2. T(0) = {} BY <2>1
  <2> HIDE DEF T
  <2>3. QED BY <2>2, FS_EmptySet
<1>4. ASSUME NEW k \in 0..n, Holds(k), k < n PROVE Holds(k + 1)
  <2> DEFINE m == k + 1
             I == {t \in Nat : Within(t, M[m])}
  <2>1. m \in 1..n /\ m - 1 = k /\ k \in Nat BY <1>1, <1>4
  <2>2. M[m].from \in Nat /\ M[m].to \in Nat /\ M[m].from <= M[m].to BY <1>2, <2>1
  <2>3. \A x : x \in 1..m <=> x \in 1..k \/ x = m BY <1>1, <2>1
  <2>4. \A x \in 1..k : x \in 1..n /\ x < m BY <1>1, <2>1
  <2> HIDE DEF m
  <2>5. T(m) = T(k) \cup I BY <2>3
  <2>6. T(k) \cap I = {}
    <3> SUFFICES ASSUME NEW t \in Nat, NEW x \in 1..k, Within(t, M[x]), Within(t, M[m])
                 PROVE  FALSE
      OBVIOUS
    <3>1. M[x].to < M[m].from /\ M[x].to \in Nat BY <1>2, <2>1, <2>4
    <3>2. QED BY <2>2, <3>1 DEF Within
  <2>7. IsFiniteSet(I) /\ Cardinality(I) = M[m].to - M[m].from
    <3> DEFINE a == M[m].from
               b == M[m].to
    <3>1. I = a..(b - 1) BY <2>2 DEF Within
    <3>2. a \in Int /\ b - 1 \in Int /\ (a > b - 1 => b - a = 0)
          /\ b - 1 - a + 1 = b - a
      BY <2>2
    <3> HIDE DEF I, a, b
    <3>3. IsFiniteSet(a..(b - 1))
          /\ Cardinality(a..(b - 1)) = IF a > b - 1 THEN 0 ELSE b - 1 - a + 1
      BY <3>2, FS_Interval
    <3>4. QED BY <3>1, <3>2, <3>3 DEF a, b
  <2>8. sum[m] = sum[k] + M[m].to - M[m].from BY <2>1 DEF n
  <2>9. IsFiniteSet(T(k)) /\ sum[k] = Cardinality(T(k)) BY <1>4
  <2> HIDE DEF T, I
  <2>10. IsFiniteSet(T(m)) /\ Cardinality(T(m)) = Cardinality(T(k)) + Cardinality(I) - 0
    <3>1. Cardinality(T(k) \cap I) = 0 BY <2>6, FS_EmptySet
    <3>2. QED BY <2>5, <2>7, <2>9, <3>1, FS_Union
  <2>11. Cardinality(T(k)) \in Nat BY <2>9, FS_CardinalityType
  <2>12. Holds(m) BY <2>2, <2>7, <2>8, <2>9, <2>10, <2>11
  <2>13. QED BY <2>12 DEF m
<1> HIDE DEF Holds
<1>5. Holds(n)
  <2>1. /\ 0 \in G /\ \A k \in 0..n : k \in G /\ k < n => k + 1 \in G
    BY <1>1, <1>3, <1>4
  <2>2. G \in SUBSET (0..n) OBVIOUS
  <2>3. n \in 0..n BY <1>1
  <2> HIDE DEF G
  <2>4. G = 0..n BY <1>1, <2>1, <2>2, UpTo
  <2>5. QED BY <2>3, <2>4 DEF G
<1>6. QED BY <1>5 DEF Holds, n

\* The time under an anomaly is that of its events, each time counted once.
LEMMA AnomalyTimeCounts ==
  ASSUME NEW events, TimedEvents(events)
  PROVE  AnomalyTime(events)
           = Cardinality({t \in Nat : \E e \in 1..Len(events) : Within(t, events[e])})
<1> DEFINE M == MergedIntervals(events)
<1>1. /\ ApartInOrder(M)
      /\ \A t \in Nat : (\E x \in 1..Len(M) : Within(t, M[x]))
                          <=> (\E e \in 1..Len(events) : Within(t, events[e]))
  BY MergedFacts
<1>2. Len(M) \in Nat
  <2> HIDE DEF M
  <2>1. M \in Seq(Intervals) BY <1>1 DEF ApartInOrder
  <2>2. QED BY <2>1, LenProperties
<1>3. PICK sum : /\ AnomalyTime(events) = sum[Len(M)] /\ sum[0] = 0
                 /\ \A k \in 1..Len(M) : sum[k] = sum[k - 1] + M[k].to - M[k].from
  BY <1>2, SumStep
<1> HIDE DEF M
<1>4. sum[Len(M)] = Cardinality({t \in Nat : \E x \in 1..Len(M) : Within(t, M[x])})
  BY <1>1, <1>3, SumCounts
<1>5. {t \in Nat : \E x \in 1..Len(M) : Within(t, M[x])}
        = {t \in Nat : \E e \in 1..Len(events) : Within(t, events[e])}
  BY <1>1
<1>6. QED BY <1>3, <1>4, <1>5

\* The time of the last record is a number.
LEMMA LastStampType ==
  ASSUME StampInv PROVE LastStamp \in Nat /\ (stamp # <<>> => LastStamp # 0)
<1>1. stamp \in Seq(Nat \ {0}) BY DEF StampInv
<1>2. CASE stamp = <<>> BY <1>2 DEF LastStamp
<1>3. CASE stamp # <<>>
  <2>1. Len(stamp) \in 1..Len(stamp) BY <1>1, <1>3, EmptySeq
  <2>2. stamp[Len(stamp)] \in Nat \ {0} BY <1>1, <2>1, ElementOfSeq
  <2>3. QED BY <1>3, <2>2 DEF LastStamp
<1>4. QED BY <1>2, <1>3

\* A file that can be read is read for what it says.
LEMMA EvaluationIsTrue ==
  ASSUME Readable PROVE EvaluationTrue
<1> DEFINE events == load_ground_truth
           P == {stamp[i] : i \in StartRecords}
           distinct == Cardinality(P) = Cardinality(StartRecords)
<1>1. PICK src, dst, m : Pairing(events, src, dst, m) BY PairingHolds
<1> HIDE DEF events
<1>2. /\ TimedEvents(events)
      /\ P = {events[e].from : e \in 1..Len(events)}
  BY <1>1, StartTimes
<1>3. Len(events) = Cardinality(StartRecords) BY <1>1, OneEventPerStart
<1>4. EndInOrder => Seqs!ToSet(events) = TrueEvents BY <1>1, EventsAreTrue
<1>5. /\ Score(events, P).tp = Cardinality(P) /\ Score(events, P).fp = 0
      /\ Score(events, P).tp + Score(events, P).fn = Len(events)
  <2> HIDE DEF P
  <2>1. QED BY <1>2, AllStarts
<1>6. ASSUME distinct PROVE Score(events, P).detected_weight = Score(events, P).total_weight
  <2> DEFINE D == 1..Len(events)
  <2>1. \A e, f \in 1..Len(events) : events[e].from = events[f].from => e = f
    BY <1>1, <1>6, DistinctStarts
  <2>2. \A t : t \in P <=> \E e \in D : t = events[e].from BY <1>2
  <2>3. D \in SUBSET (1..Len(events)) OBVIOUS
  <2>a. TimedEvents(events) BY <1>2
  <2> HIDE DEF P, D
  <2>4. Detected(events, P) = D BY ONLY <2>1, <2>2, <2>3, <2>a, SomeStarts
  <2>5. DOMAIN events = D BY <1>2 DEF TimedEvents, D
  <2>6. QED BY <2>4, <2>5 DEF Score
<1>7. ASSUME distinct, NEW c \in Class, NEW d \in DOMAIN PerScenario(events, StartsOf(c))
      PROVE  /\ PerScenario(events, StartsOf(c))[d].detected_events
                  = IF c = d THEN Cardinality(StartsOf(c)) ELSE 0
             /\ PerScenario(events, StartsOf(c))[d].latencies \subseteq {0}
  BY <1>1, <1>7, OneClass
<1>8. AnomalyTime(events) = Cardinality(Covered(events))
  <2>1. \A e \in 1..Len(events) :
          /\ events[e].from \in Nat /\ events[e].to \in Nat
          /\ 1 <= events[e].from /\ events[e].to <= LastStamp
    BY <1>1, EventFacts
  <2>2. LastStamp \in Nat BY LastStampType DEF Readable
  <2>3. DOMAIN events = 1..Len(events) BY <1>2 DEF TimedEvents
  <2>4. {t \in Nat : \E e \in 1..Len(events) : Within(t, events[e])} = Covered(events)
    BY <2>1, <2>2, <2>3 DEF Covered, Within
  <2>5. QED BY <1>2, <2>4, AnomalyTimeCounts
<1> HIDE DEF P, distinct
<1>9. distinct => \A c \in Class :
        \A d \in DOMAIN PerScenario(events, StartsOf(c)) :
          /\ PerScenario(events, StartsOf(c))[d].detected_events
               = IF c = d THEN Cardinality(StartsOf(c)) ELSE 0
          /\ PerScenario(events, StartsOf(c))[d].latencies \subseteq {0}
  BY <1>7
<1>10. QED
  BY <1>3, <1>4, <1>5, <1>6, <1>8, <1>9
  DEF EvaluationTrue, events, P, distinct, StartRecords, StartsOf

-----------------------------------------------------------------------------
(***************************************************************************)
(* The engine at work leaves a file that can be read.                      *)
(***************************************************************************)
LEMMA EvaluationStepIsNext == [EvaluationNext]_evaluated => [Next]_vars
<1> SUFFICES ASSUME EvaluationNext PROVE Next
  BY DEF evaluated
<1>1. EvaluationStep => TickStep BY DEF EvaluationStep, TickStep, Evaluate
<1>2. QED BY <1>1 DEF EvaluationNext, Next

\* The file only grows.
LEMMA LogGrows ==
  ASSUME TypeOK, EvaluationStep
  PROVE  Len(log) \in Nat /\ Len(log') \in Nat /\ Len(log) <= Len(log')
<1>1. log \in Seq(Entries) /\ Len(log) \in Nat BY DEF TypeOK
<1>2. \A es \in Seq(Entries) : Len(Written(es)) \in Nat /\ Len(log) <= Len(Written(es))
  BY <1>1 DEF Written
<1>3. log' = log \/ \E es \in Seq(Entries) : log' = Written(es)
  <2>1. \A s \in Scenario :
          /\ <<Entry("scenario_start", s)>> \in Seq(Entries)
          /\ <<Entry("scenario_end", s)>> \in Seq(Entries)
          /\ <<Entry("scenario_start", s), Entry("scenario_end", s)>> \in Seq(Entries)
    BY EntryType
  <2>2. CASE Arbitrate \/ EndPreemption \/ FinishTick
    BY <2>2 DEF Arbitrate, EndPreemption, FinishTick, truth
  <2>3. CASE Preempt
    <3>1. PICK s \in First(victims) : log' = Written(<<Entry("scenario_end", s)>>)
      BY <2>3 DEF Preempt
    <3>2. s \in Scenario BY <3>1 DEF First, TypeOK
    <3>3. QED BY <2>1, <3>1, <3>2
  <2>4. ASSUME NEW s \in Scenario, Evaluate(s)
        PROVE  log' = log \/ \E es \in Seq(Entries) : log' = Written(es)
    <3>1. CASE PassOver(s) \/ Continue(s) BY <3>1 DEF PassOver, Continue
    <3>2. CASE Activate(s) BY <2>1, <3>2 DEF Activate
    <3>3. CASE ActivateAndComplete(s) BY <2>1, <3>3 DEF ActivateAndComplete
    <3>4. CASE RunOut(s) BY <2>1, <3>4 DEF RunOut
    <3>5. QED BY <2>4, <3>1, <3>2, <3>3, <3>4 DEF Evaluate
  <2>5. QED BY <2>2, <2>3, <2>4 DEF EvaluationStep, Evaluate
<1>4. QED BY <1>1, <1>2, <1>3

\* Once a record of the tick is written there is a last stamp to repeat.
StampIInv == StampInv /\ (~ fresh => stamp # <<>>)

\* A step that writes stamps its records no earlier than those before.
LEMMA StampStep ==
  ASSUME StampIInv, Stamp, Len(log) \in Nat, Len(log') \in Nat, Len(log) <= Len(log')
  PROVE  StampIInv'
<1> DEFINE d == Len(log') - Len(log)
           n == Len(stamp)
           time == IF fresh THEN LastStamp + 1 ELSE LastStamp
           more == [k \in 1..d |-> time]
<1>1. /\ stamp \in Seq(Nat \ {0}) /\ n = Len(log) /\ n \in Nat /\ DOMAIN stamp = 1..n
      /\ fresh \in BOOLEAN
      /\ \A i, j \in 1..n : i <= j => stamp[i] <= stamp[j]
      /\ ~ fresh => stamp # <<>>
  BY DEF StampIInv, StampInv
<1>2. d \in Nat OBVIOUS
<1>3. time \in Nat \ {0} /\ LastStamp <= time
  <2>1. LastStamp \in Nat /\ (stamp # <<>> => LastStamp # 0) BY LastStampType DEF StampIInv
  <2>2. QED BY <1>1, <2>1
<1>4. stamp' = stamp \o more /\ fresh' = (Len(log') = Len(log) /\ fresh) BY DEF Stamp
<1>5. \A i \in 1..n : stamp[i] \in Nat /\ stamp[i] <= LastStamp /\ LastStamp \in Nat
  <2> SUFFICES ASSUME NEW i \in 1..n
               PROVE  stamp[i] \in Nat /\ stamp[i] <= LastStamp /\ LastStamp \in Nat
    OBVIOUS
  <2>1. n \in 1..n /\ stamp # <<>> BY <1>1
  <2>2. LastStamp = stamp[n] BY <2>1 DEF LastStamp
  <2>3. QED BY <1>1, <2>1, <2>2
<1> HIDE DEF time
<1>6. more \in Seq(Nat \ {0}) /\ Len(more) = d /\ \A k \in 1..d : more[k] = time
  <2> HIDE DEF d
  <2>1. more \in [1..d -> Nat \ {0}] BY <1>3
  <2>2. QED BY <1>2, <2>1
<1> HIDE DEF more, d
<1>7. /\ stamp' \in Seq(Nat \ {0}) /\ Len(stamp') = n + d
      /\ \A i \in 1..n : stamp'[i] = stamp[i]
      /\ \A i \in (n + 1)..(n + d) : stamp'[i] = time
  <2>1. stamp' \in Seq(Nat \ {0}) /\ Len(stamp') = n + d
    <3>1. stamp \in Seq(Nat \ {0}) /\ more \in Seq(Nat \ {0}) BY <1>1, <1>6
    <3>2. stamp \o more \in Seq(Nat \ {0}) /\ Len(stamp \o more) = Len(stamp) + Len(more)
      BY ONLY <3>1, ConcatProperties
    <3>3. QED BY <1>4, <1>6, <3>2
  <2>2. \A i \in 1..n : stamp'[i] = stamp[i] BY <1>1, <1>2, <1>4, <1>6
  <2>3. ASSUME NEW i \in (n + 1)..(n + d) PROVE stamp'[i] = time
    <3>1. i - n \in 1..d /\ i \in 1..(n + d) /\ i > n BY <1>1, <1>2
    <3>2. stamp'[i] = more[i - n] BY <1>1, <1>2, <1>4, <1>6, <3>1
    <3>3. QED BY <1>6, <3>1, <3>2
  <2>4. QED BY <2>1, <2>2, <2>3
<1>8. Len(stamp') = Len(log') BY <1>1, <1>7 DEF d
<1>9. fresh' \in BOOLEAN
  <2>1. fresh' = (Len(log') = Len(log) /\ fresh) BY <1>4
  <2>2. QED BY <2>1
<1>10. ASSUME NEW i \in DOMAIN (stamp'), NEW j \in DOMAIN (stamp'), i <= j
       PROVE  stamp'[i] <= stamp'[j]
  <2>1. DOMAIN (stamp') = 1..(n + d) BY <1>7
  <2>2. \A x \in 1..(n + d) : x \in 1..n \/ x \in (n + 1)..(n + d) BY <1>1, <1>2
  <2>3. CASE j \in 1..n
    <3>1. i \in 1..n BY <1>10, <2>1, <2>3
    <3>2. QED BY <1>1, <1>7, <1>10, <2>3, <3>1
  <2>4. CASE j \in (n + 1)..(n + d)
    <3>1. stamp'[j] = time BY <1>7, <2>4
    <3>2. CASE i \in 1..n
      <4>1. stamp'[i] = stamp[i] /\ stamp[i] \in Nat /\ stamp[i] <= LastStamp /\ LastStamp \in Nat
        BY <1>5, <1>7, <3>2
      <4>2. time \in Nat /\ LastStamp <= time BY <1>3
      <4>3. QED BY ONLY <3>1, <4>1, <4>2
    <3>3. CASE i \in (n + 1)..(n + d) BY <1>3, <1>7, <3>1, <3>3
    <3>4. QED BY <2>1, <2>2, <3>2, <3>3
  <2>5. QED BY <2>1, <2>2, <2>3, <2>4
<1>11. ASSUME ~ fresh' PROVE stamp' # <<>>
  <2>1. Len(log') # Len(log) \/ ~ fresh BY <1>4, <1>11
  <2>2. n + d # 0
    <3>1. CASE Len(log') # Len(log) BY <1>1, <3>1 DEF d
    <3>2. CASE ~ fresh BY <1>1, <1>2, <3>2
    <3>3. QED BY <2>1, <3>1, <3>2
  <2>3. QED BY <1>7, <2>2
<1>12. QED BY <1>7, <1>8, <1>9, <1>10, <1>11 DEF StampIInv, StampInv

\* Nor does any other step disturb the stamps.
LEMMA EvaluationStepStamps ==
  TypeOK /\ StampIInv /\ [EvaluationNext]_evaluated => StampIInv'
<1> SUFFICES ASSUME TypeOK, StampIInv, [EvaluationNext]_evaluated PROVE StampIInv'
  OBVIOUS
<1>1. ASSUME UNCHANGED <<log, stamp>>, fresh' \in BOOLEAN, ~ fresh' => stamp # <<>>
      PROVE  StampIInv'
  BY <1>1 DEF StampIInv, StampInv
<1>2. ASSUME UNCHANGED <<log, stamp, fresh>> PROVE StampIInv'
  BY <1>1, <1>2 DEF StampIInv, StampInv
<1>3. CASE UNCHANGED evaluated BY <1>2, <1>3 DEF evaluated, vars, truth
<1>4. CASE AddScenario /\ NoRecord BY <1>2, <1>4 DEF AddScenario, NoRecord, truth
<1>5. CASE LoseLog /\ NoRecord BY <1>2, <1>5 DEF LoseLog, NoRecord
<1>6. CASE EvaluationStep
  <2>1. CASE Stamp BY <1>6, <2>1, LogGrows, StampStep
  <2>2. CASE Arbitrate /\ NewTick
    <3>1. log' = log /\ stamp' = stamp /\ fresh' = TRUE BY <2>2 DEF Arbitrate, NewTick, truth
    <3>2. QED BY <1>1, <3>1
  <2>3. CASE NoRecord /\ (EndPreemption \/ FinishTick)
    BY <1>2, <2>3 DEF NoRecord, EndPreemption, FinishTick, truth
  <2>4. ASSUME NEW s \in Scenario, NoRecord, PassOver(s) \/ Continue(s) PROVE StampIInv'
    BY <1>2, <2>4 DEF NoRecord, PassOver, Continue
  <2>5. QED BY <1>6, <2>1, <2>2, <2>3, <2>4 DEF EvaluationStep
<1>7. QED BY <1>3, <1>4, <1>5, <1>6 DEF EvaluationNext

\* What is proved of the engine holds of it with its records stamped.
LEMMA EvaluationRunsEngine == EvaluationSpec => Spec
<1>1. EvaluationInit => Init BY DEF EvaluationInit
<1>2. QED BY <1>1, EvaluationStepIsNext, PTL DEF EvaluationSpec, Spec

\* At the end of every tick the evaluator reads the ground truth file for what
\* it says: one event per start, the right end if those of a class end in
\* order, the scores of a perfect detector and of one that knows one class, and
\* the time under an anomaly (load_ground_truth, match_events, _compute,
\* _per_scenario_metrics, _random_baseline).
THEOREM EvaluationHolds == EvaluationSpec => []EvaluationTrue
<1>1. EvaluationInit => StampIInv
  <2> SUFFICES ASSUME EvaluationInit PROVE StampIInv OBVIOUS
  <2>1. log = <<>> /\ stamp = <<>> /\ fresh = TRUE BY DEF EvaluationInit, Init
  <2>2. QED BY <2>1 DEF StampIInv, StampInv
<1>2. TypeOK /\ LogFaithful /\ StampIInv => EvaluationTrue
  BY EvaluationIsTrue DEF Readable, StampIInv
<1>3. QED
  BY <1>1, <1>2, EvaluationRunsEngine, TypeCorrect, LogFaithfulHolds, EvaluationStepStamps, PTL
  DEF EvaluationSpec

=============================================================================
