------------------------------ MODULE FoodLine ------------------------------
(***************************************************************************)
(* The food and beverage line under its scenarios: batches and CIP cycles  *)
(* drive the mixer (generators/mixer.py) and the CIP skid                  *)
(* (generators/cip.py), door alarms and refrigeration failures the cold    *)
(* room (generators/chiller.py), and two more classes override parameters  *)
(* of the filler and the sealer.  A thermal excursion pushes a zone of the *)
(* oven (generators/oven.py) and leaves it to cool.  Scenarios start,      *)
(* wait, are preempted and end as in ScenarioEngine, in any tick; the      *)
(* generators run at the end of the ticks in which they are due.           *)
(*                                                                         *)
(* Data abstracted: a parameter is the set of scenarios whose offset it    *)
(* contains ({}: its configured value; for the door and the compressor     *)
(* lock, False).  A phase of the CIP skid lasts one run of its generator,  *)
(* a stage of a batch several ticks.  Temperatures are small integers;     *)
(* that of the oven is one zone's, above its setpoint.                     *)
(***************************************************************************)
EXTENDS ScenarioEngine, FiniteSets

CONSTANTS Durations,      \* Durations[c]: durations of class c, in ticks
          Interval,       \* ticks from one run of the generators to the next
          Earliest,       \* Earliest[i]: ticks that stages 1 to i of a batch take at least
          RoomMax,        \* highest room temperature told apart (bound of the model)
          Low, High,      \* thresholds of the bang-bang control
          DefrostPeriod,  \* runs of the chiller between two defrost cycles
          MaxDrift,       \* _max_drift of an excursion
          Midnights       \* ticks with which a day begins

Knobs == {"giveaway", "seal", "door", "lock"}

\* The parameter that a class overrides.
Knob ==
  [FillWeightDrift |-> "giveaway", SealIntegrityFailure |-> "seal",
   ChillerDoorAlarm |-> "door", ColdChainBreak |-> "lock"]

BatchStates == <<"Loading", "Mixing", "Holding", "Discharging">>
CipPhases == <<"Pre_rinse", "Caustic", "Intermediate", "Acid", "Final_rinse">>

\* The mixer, the skid, the chiller and the oven have one interval, that of
\* their fastest signal, and all run in the first tick: they run in the same
\* ticks.  It is far shorter than a scenario or a stage of a batch.
ASSUME FoodAssumption ==
  /\ Class \subseteq DOMAIN Knob \union {"BatchCycle", "CipCycle", "OvenThermalExcursion"}
  /\ \A c \in Class :
       Priority[c] = IF c \in {"CipCycle", "ColdChainBreak", "SealIntegrityFailure"}
                     THEN StateChanging ELSE NonStateChanging
  /\ Watching = {}
  /\ Interval \in Nat \ {0}
  /\ Durations \in [Class -> SUBSET {d \in Nat : d > Interval}]
  /\ Earliest \in [DOMAIN BatchStates -> Nat]
  /\ \A i, j \in DOMAIN BatchStates : i < j => Earliest[i] < Earliest[j]
  /\ Earliest[1] > Interval /\ Earliest[4] - Earliest[1] >= Interval
  /\ "BatchCycle" \in Class => \A d \in Durations["BatchCycle"] : d >= Earliest[4]
  /\ RoomMax \in Nat /\ Low \in 1..High /\ High \in 1..RoomMax
  /\ DefrostPeriod \in Nat \ {0}
  /\ MaxDrift \in Nat \ {0}
  /\ Midnights \subseteq 1..Horizon

VARIABLES mixer,          \* current_state of the mixer's state machine
          stage,          \* stage[s]: _internal_phase of a batch
          seen,           \* _prev_state of the mixer
          sequence,       \* _sequence of the batch IDs
          resetDay,       \* day of _last_reset_date
          ids,            \* history: batch IDs with which a batch began
          noticed,        \* history: batches whose Loading a run of the mixer found
          cip,            \* _state of the CIP skid
          knob,           \* the overridden parameters
          saved,          \* saved[s]: what scenario s will write back
          compressor,     \* _compressor_on
          room,           \* _room_temp
          defrost,        \* runs since the last defrost cycle began; 0 within it
          zone,           \* _value of a zone, above its lag model's setpoint
          since,          \* ticks since the generators last ran
          overlapped      \* classes of which two instances have been active at once

issued == <<sequence, resetDay, ids, noticed>>
line == <<mixer, stage, seen, issued, cip>>
coldRoom == <<compressor, room, defrost>>
equipment == <<line, coldRoom, knob, saved, zone, since, overlapped>>
foodVars == <<vars, equipment>>

IsOf(s, c) == class[s] = c
ActiveOf(c) == {s \in InPhase("ACTIVE") : IsOf(s, c)}

-----------------------------------------------------------------------------
(***************************************************************************)
(* Batches and CIP cycles.  A batch forces the mixer into the state of     *)
(* each of its stages and finally into Off, in whatever state it is cut    *)
(* short; a CIP cycle forces the mixer into Cip and starts the skid.       *)
(***************************************************************************)
BeginBatch(s) ==
  /\ mixer' = BatchStates[1]
  /\ stage' = [stage EXCEPT ![s] = 1]
  /\ UNCHANGED cip

\* The ticks left after this one.
TicksLeft(s) == duration[s] - elapsed[s] - 1

\* How a batch divides its time, drawn when it is constructed, is left open,
\* but for the shortest time of each stage: those over have had theirs, and
\* those to come will have theirs.
NextStage(s) ==
  /\ stage[s] < Len(BatchStates)
  /\ elapsed[s] + 1 >= Earliest[stage[s]]
  /\ mixer' = BatchStates[stage[s] + 1]
  /\ stage' = [stage EXCEPT ![s] = @ + 1]
  /\ UNCHANGED cip

SameStage(s) ==
  /\ TicksLeft(s) > Earliest[4] - Earliest[stage[s]]
  /\ UNCHANGED <<mixer, stage, cip>>

\* Mutant of EndBatch: a batch cut short leaves the mixer as it is.
EndBatchDischarged(s) ==
  /\ mixer' = IF stage[s] = Len(BatchStates) THEN "Off" ELSE mixer
  /\ UNCHANGED <<stage, cip>>

EndBatch(s) ==
  /\ mixer' = "Off"
  /\ UNCHANGED <<stage, cip>>

BeginCip ==
  /\ mixer' = "Cip"
  /\ cip' = CipPhases[1]
  /\ UNCHANGED stage

\* Mutant of EndCip: the skid is left to finish its phases by itself.
EndCipRunning ==
  /\ mixer' = "Off"
  /\ UNCHANGED <<cip, stage>>

EndCip ==
  /\ mixer' = "Off"
  /\ cip' = "Idle"
  /\ UNCHANGED stage

(***************************************************************************)
(* Overrides.  Each class saves a parameter on activation and writes the   *)
(* saved value back on completion.  The door is opened and the compressor  *)
(* locked on activation; the giveaway of the filler and the targets of the *)
(* sealer are computed from the saved value at every tick, the first of    *)
(* which is part of the activating evaluate().                             *)
(***************************************************************************)
Keep(s, k) == saved' = [saved EXCEPT ![s] = knob[k]]
Put(k, x) == knob' = [knob EXCEPT ![k] = x]

OpenDoor(s) ==
  /\ IsOf(s, "ChillerDoorAlarm")
  /\ Keep(s, "door")
  /\ Put("door", knob["door"] \union {s})
  /\ UNCHANGED compressor

DoorStaysOpen(s) == IsOf(s, "ChillerDoorAlarm") /\ UNCHANGED knob

CloseDoor(s) == IsOf(s, "ChillerDoorAlarm") /\ Put("door", saved[s])

\* The setter of the lock stops a running compressor at once.
LockCompressor(s) ==
  /\ IsOf(s, "ColdChainBreak")
  /\ Keep(s, "lock")
  /\ Put("lock", knob["lock"] \union {s})
  /\ compressor' = FALSE

LockStays(s) == IsOf(s, "ColdChainBreak") /\ UNCHANGED knob

\* Mutant of ReleaseLock: the compressor stays locked after the repair.
ReleaseLockForgotten(s) == IsOf(s, "ColdChainBreak") /\ UNCHANGED knob

ReleaseLock(s) == IsOf(s, "ColdChainBreak") /\ Put("lock", saved[s])

BeginDrift(s) ==
  /\ IsOf(s, "FillWeightDrift")
  /\ Keep(s, "giveaway")
  /\ Put("giveaway", knob["giveaway"] \union {s})
  /\ UNCHANGED compressor

Drift(s) == IsOf(s, "FillWeightDrift") /\ Put("giveaway", saved[s] \union {s})

Recalibrate(s) == IsOf(s, "FillWeightDrift") /\ Put("giveaway", saved[s])

BeginSealFailure(s) ==
  /\ IsOf(s, "SealIntegrityFailure")
  /\ Keep(s, "seal")
  /\ Put("seal", knob["seal"] \union {s})
  /\ UNCHANGED compressor

DegradeSeal(s) == IsOf(s, "SealIntegrityFailure") /\ Put("seal", saved[s] \union {s})

RepairSeal(s) == IsOf(s, "SealIntegrityFailure") /\ Put("seal", saved[s])

BeginOverride(s) == OpenDoor(s) \/ LockCompressor(s) \/ BeginDrift(s) \/ BeginSealFailure(s)
TickOverride(s) == DoorStaysOpen(s) \/ LockStays(s) \/ Drift(s) \/ DegradeSeal(s)
EndOverride(s) == CloseDoor(s) \/ ReleaseLock(s) \/ Recalibrate(s) \/ RepairSeal(s)

-----------------------------------------------------------------------------
(***************************************************************************)
(* Excursions.  At every tick the value of the zone's lag model is set to  *)
(* the setpoint found on activation plus a drift that grows with time.     *)
(* Nothing is written back: the zone returns by itself.  The oven is Off:  *)
(* no condition that its state machine waits for is ever set.              *)
(***************************************************************************)
DriftAt(t) == IF t < MaxDrift THEN t ELSE MaxDrift

PushZone(s) == zone' = DriftAt(elapsed[s] + 1)

BeginExcursion(s) == IsOf(s, "OvenThermalExcursion") /\ PushZone(s)
Excursion(s) == IsOf(s, "OvenThermalExcursion") /\ PushZone(s)
EndExcursion(s) == IsOf(s, "OvenThermalExcursion") /\ UNCHANGED zone

-----------------------------------------------------------------------------
(***************************************************************************)
(* The hooks of the scenarios.                                             *)
(***************************************************************************)
OnActivate(s) ==
  /\ \/ IsOf(s, "BatchCycle") /\ BeginBatch(s) /\ UNCHANGED <<knob, saved, compressor, zone>>
     \/ IsOf(s, "CipCycle") /\ BeginCip /\ UNCHANGED <<knob, saved, compressor, zone>>
     \/ BeginOverride(s) /\ UNCHANGED <<mixer, stage, cip, zone>>
     \/ BeginExcursion(s) /\ UNCHANGED <<mixer, stage, cip, knob, saved, compressor>>
  /\ overlapped' = IF ActiveOf(class[s]) = {} THEN overlapped ELSE overlapped \union {class[s]}
  /\ UNCHANGED <<seen, issued, room, defrost, since>>

OnTick(s) ==
  /\ \/ IsOf(s, "BatchCycle") /\ (NextStage(s) \/ SameStage(s)) /\ UNCHANGED <<knob, zone>>
     \/ IsOf(s, "CipCycle") /\ UNCHANGED <<mixer, stage, cip, knob, zone>>
     \/ TickOverride(s) /\ UNCHANGED <<mixer, stage, cip, zone>>
     \/ Excursion(s) /\ UNCHANGED <<mixer, stage, cip, knob>>
  /\ UNCHANGED <<seen, issued, coldRoom, saved, since, overlapped>>

OnComplete(s) ==
  /\ \/ IsOf(s, "BatchCycle") /\ EndBatch(s) /\ UNCHANGED <<knob, zone>>
     \/ IsOf(s, "CipCycle") /\ EndCip /\ UNCHANGED <<knob, zone>>
     \/ EndOverride(s) /\ UNCHANGED <<mixer, stage, cip, zone>>
     \/ EndExcursion(s) /\ UNCHANGED <<mixer, stage, cip, knob>>
  /\ UNCHANGED <<seen, issued, coldRoom, saved, since, overlapped>>

\* A CIP cycle ends at the latest when its time is over, and as soon as it
\* finds the skid back in Idle.
CipIsBack(s) == IsOf(s, "CipCycle") /\ cip = "Idle"

EndEarly(s) ==
  /\ AtCursor(s)
  /\ phase[s] = "ACTIVE"
  /\ elapsed[s] + 1 < duration[s]
  /\ CipIsBack(s)
  /\ elapsed' = [elapsed EXCEPT ![s] = @ + 1]
  /\ phase' = [phase EXCEPT ![s] = "COMPLETED"]
  /\ log' = Written(<<Entry("scenario_end", s)>>)
  /\ Advance

-----------------------------------------------------------------------------
(***************************************************************************)
(* The generators.  A tick calls those whose interval has passed since     *)
(* their last call.  The mixer issues a batch ID when it sees the state    *)
(* change to Loading.  The skid steps through its phases.  The cold room   *)
(* cools while the compressor runs; else the door and a defrost heat it.   *)
(* (The clock adds up floats, which may put a run off by a tick; Followers *)
(* has the effect of that.)                                                *)
(***************************************************************************)
NewBatch == mixer = "Loading" /\ seen # mixer

\* The date that the ID shows, and the sequence number, which counts the
\* batches since the first run of a day.  The run that resets it has counted
\* the batch that it sees begin, if any.
Today == Cardinality({t \in Midnights : t <= now})

NextSequence ==
  IF Today > resetDay THEN 0 ELSE IF NewBatch THEN sequence + 1 ELSE sequence

MixerGenerates ==
  /\ sequence' = NextSequence
  /\ resetDay' = Today
  /\ ids' = IF NewBatch THEN ids \union {<<Today, sequence'>>} ELSE ids
  /\ noticed' = IF NewBatch THEN noticed \union ActiveOf("BatchCycle") ELSE noticed
  /\ seen' = mixer

CipGenerates ==
  cip' = IF cip \in {"Idle", "Final_rinse"} THEN "Idle"
         ELSE LET i == CHOOSE j \in DOMAIN CipPhases : CipPhases[j] = cip
              IN CipPhases[i + 1]

Defrosting(d) == d = 0

Heat(d) ==
  1 + (IF Defrosting(d) THEN 1 ELSE 0) + (IF knob["door"] # {} THEN 1 ELSE 0)

BangBang == IF compressor THEN room >= Low ELSE room > High

ChillerGenerates ==
  /\ defrost' = (defrost + 1) % DefrostPeriod
  /\ compressor' =
       /\ ~ Defrosting(defrost')
       /\ knob["lock"] = {}
       /\ BangBang
  /\ \/ compressor' /\ room' = room - 1
     \/ ~ compressor' /\ room + Heat(defrost') <= RoomMax /\ room' = room + Heat(defrost')
     \/ ~ compressor' /\ room + Heat(defrost') > RoomMax /\ room' = RoomMax

\* A run of the generator brings the zone nearer to its setpoint, more or less.
OvenGenerates == zone' \in {zone, zone - 1} \intersect Nat

RunGenerators ==
  /\ MixerGenerates /\ CipGenerates /\ ChillerGenerates /\ OvenGenerates
  /\ since' = 0
  /\ UNCHANGED <<mixer, stage, knob, saved, overlapped>>

SkipGenerators ==
  /\ since' = since + 1
  /\ UNCHANGED <<line, coldRoom, knob, saved, zone, overlapped>>

Generate ==
  \/ since + 1 >= Interval /\ RunGenerators
  \/ since + 1 < Interval /\ SkipGenerators

-----------------------------------------------------------------------------
(***************************************************************************)
(* The generated timeline: start times in order, and those of one class    *)
(* at least the shortest duration of the class apart, which is the gap     *)
(* that every _schedule_* method of the line asks for.                     *)
(***************************************************************************)
MinGap(c) == CHOOSE d \in Durations[c] : \A e \in Durations[c] : d <= e

FoodTimeline ==
  {f \in [Scenario -> 1..Horizon] :
     /\ f[1] = 1
     /\ \A i, j \in Scenario : i < j =>
          /\ f[i] <= f[j]
          /\ class[i] = class[j] => f[i] + MinGap(class[i]) <= f[j]}

FoodInit ==
  /\ class \in [Scenario -> Class]
  /\ start \in FoodTimeline
  /\ duration \in {f \in [Scenario -> UNION {Durations[c] : c \in Class}] :
                     \A s \in Scenario : f[s] \in Durations[class[s]]}
  /\ logging = FALSE
  /\ Init
  /\ mixer = "Off"
  /\ stage = [s \in Scenario |-> 1]
  /\ seen = "Off"
  /\ sequence = 0 /\ resetDay = 0 /\ ids = {} /\ noticed = {}
  /\ cip = "Idle"
  /\ knob = [k \in Knobs |-> {}]
  /\ saved = [s \in Scenario |-> {}]
  /\ compressor = TRUE
  /\ room = (Low + High) \div 2
  /\ defrost = 1 % DefrostPeriod
  /\ zone = 0
  /\ since = Interval - 1
  /\ overlapped = {}

Scenarios(s) ==
  \/ PassOver(s) /\ UNCHANGED equipment
  \/ Activate(s) /\ OnActivate(s)
  \/ Continue(s) /\ ~ CipIsBack(s) /\ OnTick(s)
  \/ (RunOut(s) \/ EndEarly(s)) /\ OnComplete(s)

CutShort == Preempt /\ \E s \in First(victims) : OnComplete(s)

FoodNext ==
  \/ Arbitrate /\ UNCHANGED equipment
  \/ CutShort
  \/ EndPreemption /\ UNCHANGED equipment
  \/ \E s \in Scenario : Scenarios(s)
  \/ FinishTick /\ Generate

FoodSpec == FoodInit /\ [][FoodNext]_foodVars

-----------------------------------------------------------------------------
FoodTypeOK ==
  /\ mixer \in {"Off", "Cip"} \union {BatchStates[i] : i \in DOMAIN BatchStates}
  /\ stage \in [Scenario -> DOMAIN BatchStates]
  /\ sequence \in 0..N /\ resetDay \in 0..Cardinality(Midnights)
  /\ ids \subseteq (0..Cardinality(Midnights)) \X (0..N)
  /\ noticed \subseteq Scenario
  /\ cip \in {"Idle"} \union {CipPhases[i] : i \in DOMAIN CipPhases}
  /\ knob \in [Knobs -> SUBSET Scenario]
  /\ saved \in [Scenario -> SUBSET Scenario]
  /\ compressor \in BOOLEAN
  /\ room \in 0..RoomMax
  /\ zone \in 0..MaxDrift
  /\ since \in 0..Interval-1

Apart(c) == c \notin overlapped
BetweenTicks == pc = "idle" /\ now > 0

\* Between two ticks the mixer is where the running scenario has put it: in
\* Cip under a CIP cycle, in the state of its stage under a batch, and in Off
\* when neither runs, however batches were preempted, deferred and ended
\* around CIP cycles and other state changes; and the skid runs under a CIP
\* cycle only.  Two instances of one class at once are left aside.
MixerFollowsPlan ==
  BetweenTicks /\ Apart("BatchCycle") /\ Apart("CipCycle") =>
    /\ \A s \in ActiveOf("CipCycle") : mixer = "Cip"
    /\ \A s \in ActiveOf("BatchCycle") : mixer = BatchStates[stage[s]]
    /\ ActiveOf("CipCycle") \union ActiveOf("BatchCycle") = {} => mixer = "Off"
    /\ cip # "Idle" => ActiveOf("CipCycle") # {}

\* Every batch gets a batch ID of its own, although the mixer only compares
\* states between its runs, scenarios force states in the ticks between, and
\* the sequence begins anew at midnight, with or without a batch under way;
\* all but a batch that a state change has cut short, or may yet, before the
\* first run after its start, of which the mixer knows nothing.  Two instances
\* of one class at once are left aside.
OneIdPerBatch ==
  BetweenTicks /\ Apart("BatchCycle") /\ Apart("CipCycle") =>
    /\ Cardinality(ids) = Cardinality(noticed)
    /\ \A s \in Listed :
         phase[s] # "PENDING" /\ IsOf(s, "BatchCycle") /\ s \notin noticed => elapsed[s] < Interval

\* A parameter is overridden exactly while a scenario of its class is active;
\* and a zone drifts as the running excursion says, from its setpoint even if
\* it was still cooling after the excursion before.
OverriddenWhileActive ==
  /\ \A c \in DOMAIN Knob : Apart(c) => (knob[Knob[c]] = ActiveOf(c))
  /\ BetweenTicks /\ Apart("OvenThermalExcursion") =>
       \A s \in ActiveOf("OvenThermalExcursion") :
         zone \in {DriftAt(elapsed[s]), DriftAt(elapsed[s]) - 1}

\* The compressor stands still throughout a refrigeration failure, and after a
\* run of the chiller a room warmer than one run explains is being cooled, but
\* for a defrost cycle or a failure that still lasts: failures leave no lock
\* behind.
ColdRoomFollows ==
  Apart("ColdChainBreak") =>
    /\ ActiveOf("ColdChainBreak") # {} => ~ compressor
    /\ BetweenTicks /\ since = 0 /\ room > High + 2 /\ ~ compressor =>
         Defrosting(defrost) \/ ActiveOf("ColdChainBreak") # {}

=============================================================================
