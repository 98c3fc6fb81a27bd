---------------------------- MODULE Degradation -----------------------------
(***************************************************************************)
(* The scenarios that degrade the machine over days: the wear of a bearing *)
(* (scenarios/bearing_wear.py), intermittent faults that become frequent   *)
(* and then permanent (scenarios/intermittent_fault.py), and the inrush of *)
(* a cold start (scenarios/cold_start.py).                                 *)
(*                                                                         *)
(* All of them overwrite parameters of the same generator models, from a   *)
(* copy that each takes for itself.  A parameter is represented by the set *)
(* of the scenarios whose contribution is in it.  Start times, durations   *)
(* and the times of the spikes, drawn at random over days, are             *)
(* nondeterministic.                                                       *)
(***************************************************************************)
EXTENDS Naturals, Sequences, FiniteSets

CONSTANTS Intermittent,   \* intermittent faults configured: their subtypes
          Transient,      \* those of them without phase3_transition
          Wear, ColdStart, \* the two other scenarios
          ColdAfter       \* idle_threshold_s, in ticks

Subtypes == {"bearing", "electrical", "sensor", "pneumatic"}

ASSUME DegradationAssumption ==
  /\ Intermittent \subseteq Subtypes /\ Transient \subseteq Intermittent
  /\ Wear \notin Subtypes /\ ColdStart \notin Subtypes /\ Wear # ColdStart
  /\ ColdAfter \in Nat

Faults == Intermittent \union {Wear, ColdStart}
Parameters == {"vibration", "current", "pressure", "power"}
Press == {"Idle", "Active", "Fault"}

VARIABLES param,       \* param[p]: who has contributed to the parameter
          phase,       \* phase[f]: phase of the scenario, with its internal one
          spiking,     \* the scenarios that alter a parameter now
          saved,       \* saved[f]: the copies the scenario restores
          clean,       \* whether every copy so far was that of a healthy machine
          undone,      \* those altering whose contribution another overwrote
          sentinel,    \* whether the store holds the sentinel of a sensor fault
          fresh,       \* whether the last tick ran the generator of that signal
          press,       \* state of the press
          idleFor,     \* ticks since _idle_since; 0 when that is None
          wasIdle,     \* whether _prev_press_state was idle
          list,        \* the scenarios in the order of their start times
          pc, cursor   \* where the tick is, and whose turn it is

copies == <<saved, clean>>
sensor == <<sentinel, fresh>>
watch == <<idleFor, wasIdle>>
loop == <<list, pc, cursor>>
vars == <<param, phase, spiking, copies, undone, sensor, press, watch, loop>>

Healthy == [p \in Parameters |-> {}]

Init ==
  /\ param = Healthy
  /\ phase = [f \in Faults |-> "pending"]
  /\ spiking = {} /\ undone = {}
  /\ saved = [f \in Faults |-> Healthy]
  /\ clean = TRUE
  /\ sentinel = FALSE /\ fresh = FALSE
  /\ press \in Press
  /\ idleFor = 0 /\ wasIdle = FALSE
  /\ list \in [1..Cardinality(Faults) -> Faults]
  /\ \A i, j \in DOMAIN list : list[i] = list[j] => i = j
  /\ pc = "scenarios" /\ cursor = 1

-----------------------------------------------------------------------------
(***************************************************************************)
(* Whom a scenario saves on activation is not whom it alters: an           *)
(* intermittent fault saves and restores three parameters, and alters the  *)
(* one of its subtype.                                                     *)
(***************************************************************************)
Alters(f) ==
  CASE f = "bearing" -> {"vibration"}
    [] f = "electrical" -> {"current"}
    [] f = "pneumatic" -> {"pressure"}
    [] f = "sensor" -> {}
    [] f = Wear -> {"vibration", "current"}
    [] f = ColdStart -> {"power", "current"}

Restores(f) == IF f \in Intermittent THEN {"vibration", "current", "pressure"} ELSE Alters(f)

\* Vibration and pressure of a spike are absolute; the others add to a base.
Absolute == {"bearing", "pneumatic"}

Save(f) ==
  /\ saved' = [saved EXCEPT ![f] = [p \in Parameters |-> IF p \in Restores(f) THEN param[p] ELSE {}]]
  /\ clean' = (clean /\ \A p \in Restores(f) : param[p] = {})

\* What the parameters become when f alters them, from copy, or writes copy back.
Altered(f, copy) ==
  [p \in Parameters |->
     IF p \notin Alters(f) THEN param[p]
     ELSE IF f \in Absolute THEN {f} ELSE copy[p] \union {f}]

WrittenBack(f, P) == [p \in Parameters |-> IF p \in P THEN saved[f][p] ELSE param[p]]

Overwrites(f, P) == {g \in spiking \ {f} : Alters(g) \cap P # {}}

Alter(f, copy) ==
  /\ param' = Altered(f, copy)
  /\ spiking' = spiking \union {f}
  /\ undone' = (undone \ {f}) \union Overwrites(f, Alters(f))

WriteBack(f, P) ==
  /\ param' = WrittenBack(f, P)
  /\ spiking' = spiking \ {f}
  /\ undone' = (undone \ {f}) \union Overwrites(f, P)

Enter(f, p) == phase' = [phase EXCEPT ![f] = p]
LeaveAlone == UNCHANGED <<param, spiking, undone>>

-----------------------------------------------------------------------------
(***************************************************************************)
(* IntermittentFault.  Spikes end within the phase they belong to.         *)
(***************************************************************************)
StartSpike(f) == Alter(f, saved[f])
EndSpike(f) == WriteBack(f, Alters(f))

\* The first tick saves and may already be that of a spike, which is applied
\* to the parameters as they are.
BeginSporadic(f) ==
  /\ phase[f] = "pending"
  /\ Save(f)
  /\ Enter(f, "sporadic")
  /\ Alter(f, param) \/ LeaveAlone

SpikeOrNot(f) ==
  /\ phase[f] \in {"sporadic", "frequent"}
  /\ \/ StartSpike(f)
     \/ f \in spiking /\ EndSpike(f)
     \/ LeaveAlone
  /\ UNCHANGED <<phase, copies>>

BecomeFrequent(f) ==
  /\ phase[f] = "sporadic"
  /\ Enter(f, "frequent")
  /\ \/ StartSpike(f)
     \/ f \in spiking /\ EndSpike(f)
     \/ f \notin spiking /\ LeaveAlone
  /\ UNCHANGED copies

\* Mutant of EnterPhase3: a spike in progress is taken for the permanent one,
\* and none is applied otherwise.
EnterPhase3Unapplied(f) ==
  /\ phase[f] = "frequent" /\ f \notin Transient
  /\ Enter(f, "permanent")
  /\ spiking' = spiking \union {f}
  /\ UNCHANGED <<param, undone, copies>>

EnterPhase3(f) ==
  /\ phase[f] = "frequent" /\ f \notin Transient
  /\ Enter(f, "permanent")
  /\ Alter(f, saved[f])
  /\ UNCHANGED copies

EndFault(f) ==
  /\ phase[f] = "frequent" /\ f \in Transient
  /\ Enter(f, "completed")
  /\ WriteBack(f, Restores(f))
  /\ UNCHANGED copies

StayPermanent(f) ==
  /\ phase[f] = "permanent"
  /\ LeaveAlone
  /\ UNCHANGED <<phase, copies>>

IntermittentFault(f) ==
  /\ f \in Intermittent
  /\ \/ BeginSporadic(f) \/ SpikeOrNot(f) \/ BecomeFrequent(f)
     \/ EnterPhase3(f) \/ EndFault(f) \/ StayPermanent(f)
  /\ UNCHANGED <<press, watch>>

-----------------------------------------------------------------------------
(***************************************************************************)
(* BearingWear applies its contribution anew in every tick.  A failure     *)
(* faults the press and completes the scenario in the same call.           *)
(***************************************************************************)
BeginWear ==
  /\ phase[Wear] = "pending"
  /\ Save(Wear)
  /\ Enter(Wear, "active")
  /\ Alter(Wear, param)
  /\ UNCHANGED press

WearOn ==
  /\ phase[Wear] = "active"
  /\ Alter(Wear, saved[Wear])
  /\ UNCHANGED <<phase, copies, press>>

EndWear ==
  /\ phase[Wear] = "active"
  /\ Enter(Wear, "completed")
  /\ WriteBack(Wear, Restores(Wear))
  /\ press' \in {press, "Fault"}
  /\ UNCHANGED copies

BearingWear == (BeginWear \/ WearOn \/ EndWear) /\ UNCHANGED watch

-----------------------------------------------------------------------------
(***************************************************************************)
(* ColdStart watches the press, and spikes when it leaves Idle after long  *)
(* enough.  What it restores it saves only then.                           *)
(***************************************************************************)
BeginWatch ==
  /\ phase[ColdStart] = "pending"
  /\ Enter(ColdStart, "monitoring")
  /\ wasIdle' = (press = "Idle")
  /\ idleFor' = IF press = "Idle" THEN 1 ELSE 0
  /\ LeaveAlone /\ UNCHANGED copies

WentCold == press = "Active" /\ wasIdle /\ idleFor > ColdAfter

WatchPress ==
  /\ phase[ColdStart] = "monitoring"
  /\ ~ WentCold
  /\ wasIdle' = (press = "Idle")
  /\ idleFor' = IF press = "Idle" THEN (IF idleFor > ColdAfter THEN idleFor ELSE idleFor + 1) ELSE 0
  /\ LeaveAlone /\ UNCHANGED <<phase, copies>>

StartInrush ==
  /\ phase[ColdStart] = "monitoring"
  /\ WentCold
  /\ Enter(ColdStart, "spike")
  /\ Save(ColdStart)
  /\ Alter(ColdStart, param)
  /\ wasIdle' = FALSE
  /\ UNCHANGED idleFor

InrushOn ==
  /\ phase[ColdStart] = "spike"
  /\ LeaveAlone /\ UNCHANGED <<phase, copies, watch>>

EndInrush ==
  /\ phase[ColdStart] = "spike"
  /\ Enter(ColdStart, "completed")
  /\ WriteBack(ColdStart, Restores(ColdStart))
  /\ UNCHANGED <<copies, watch>>

ColdStarts == (BeginWatch \/ WatchPress \/ StartInrush \/ InrushOn \/ EndInrush) /\ UNCHANGED press

-----------------------------------------------------------------------------
(***************************************************************************)
(* A tick: a state change may preempt the cold start, which is the only    *)
(* one of normal priority; every scenario has its turn, in the order of    *)
(* the start times; then the generators run, those that are due; then the  *)
(* sentinel of a sensor fault is written into the store.                   *)
(***************************************************************************)
\* A cold start preempted while it watches has saved nothing to restore.
PreemptColdStart ==
  /\ pc = "scenarios" /\ cursor = 1
  /\ \/ phase[ColdStart] = "monitoring" /\ LeaveAlone
     \/ phase[ColdStart] = "spike" /\ WriteBack(ColdStart, Restores(ColdStart))
  /\ Enter(ColdStart, "completed")
  /\ UNCHANGED <<copies, sensor, press, watch, loop>>

TakeTurn(f) ==
  /\ pc = "scenarios"
  /\ cursor <= Len(list) /\ list[cursor] = f
  /\ cursor' = cursor + 1
  /\ UNCHANGED <<sensor, list, pc>>

\* Completed, or not due yet.
NotDue(f) ==
  /\ TakeTurn(f)
  /\ phase[f] \in {"pending", "completed"}
  /\ LeaveAlone /\ UNCHANGED <<phase, copies, press, watch>>

\* A cold start may be deferred past the time at which it is due.
InItsTime(f) ==
  phase[f] = "pending" =>
    \A i \in 1..cursor : phase[list[i]] # "pending" \/ list[i] \in {f, ColdStart}

Evaluate(f) ==
  /\ TakeTurn(f)
  /\ InItsTime(f)
  /\ \/ IntermittentFault(f)
     \/ f = Wear /\ BearingWear
     \/ f = ColdStart /\ ColdStarts

EndScenarios ==
  /\ pc = "scenarios" /\ cursor > Len(list)
  /\ pc' = "generators"
  /\ UNCHANGED <<param, phase, spiking, copies, undone, sensor, press, watch, list, cursor>>

Generate ==
  /\ pc = "generators"
  /\ pc' = "injections"
  /\ press' \in Press
  /\ fresh' \in BOOLEAN
  /\ sentinel' = (sentinel /\ ~ fresh')
  /\ UNCHANGED <<param, phase, spiking, copies, undone, watch, list, cursor>>

\* post_gen_tick: only what is still active injects.
MayInject(f) == phase[f] \in {"sporadic", "frequent", "permanent"}

Inject ==
  /\ pc = "injections"
  /\ pc' = "scenarios" /\ cursor' = 1
  /\ sentinel' = (sentinel \/ \E f \in Intermittent \cap {"sensor"} : MayInject(f) /\ f \in spiking)
  /\ UNCHANGED <<param, phase, spiking, copies, undone, fresh, press, watch, list>>

Next ==
  \/ PreemptColdStart
  \/ \E f \in Faults : NotDue(f) \/ Evaluate(f)
  \/ EndScenarios \/ Generate \/ Inject

Spec == Init /\ [][Next]_vars

-----------------------------------------------------------------------------
\* When the generators run, a parameter shows whoever alters it and nobody
\* else, provided every scenario took its copies from a healthy machine and
\* nobody has written the parameter since: no spike outlives its end or the
\* end of its phase, a preempted cold start leaves nothing behind, and what
\* the ground truth calls a spike or a permanent fault is there to be seen.
\* The same goes for the sentinel of a sensor fault, which stays in the store
\* after its spike until the generator of the signal is due.
DegradationShows ==
  /\ pc = "generators" /\ clean =>
       \A p \in Parameters :
         LET altering == {f \in spiking : p \in Alters(f)}
         IN  altering \ undone \subseteq param[p] /\ param[p] \subseteq altering
  /\ pc = "scenarios" /\ cursor = 1 =>
       /\ "sensor" \in spiking => sentinel
       /\ fresh /\ sentinel => "sensor" \in spiking

=============================================================================
