-------------------------- MODULE EquipmentProofs ---------------------------
(***************************************************************************)
(* Theorems about equipment that shows what others did to it: the followers *)
(* of a source, for all intervals, speeds and item times, and the machine  *)
(* that wears, for every set of faults and every order of their starts.    *)
(***************************************************************************)
EXTENDS Followers, Degradation, TLAPS

-----------------------------------------------------------------------------
(***************************************************************************)
(* Followers.                                                              *)
(***************************************************************************)
\* The members of the two profiles.
LEMMA Members ==
  /\ Signals["packaging"] = {"speed"} /\ Signals["foodbev"] = {"state", "speed", "weight"}
  /\ profile = "foodbev" => Group = {"filler", "sealer", "qc", "energy"}
  /\ profile = "packaging" => Group = {"press", "laminator", "vibration", "energy"}
  BY DEF Signals, Group, Source, Sources, Followers

\* The item timer stays a natural number.
LEMMA AdvancedIsNat ==
  ASSUME NEW t \in Nat, NEW v \in Speeds
  PROVE  Advanced(t, v) \in Nat
  BY FollowersAssumption DEF Advanced, Arrives

\* A line that runs has a positive speed.
LEMMA SpeedsArePositive == \A v \in Speeds : v \in Nat /\ v > 0
  BY FollowersAssumption

\* What a run of the source writes.
LEMMA SourceTypes ==
  ASSUME FollowersTypeOK, SourceRuns
  PROVE  /\ made' \in [Signals[profile] -> Nat] /\ made'["speed"] \in {0} \union Speeds
         /\ timer' \in Nat /\ unweighed' \in Int
<1> USE FollowersAssumption DEF FollowersTypeOK, Off, Running
<1>1. CASE profile = "packaging" /\ PressGenerates
  BY <1>1, Members DEF PressGenerates
<1>2. CASE profile = "foodbev" /\ FillerRests
  BY <1>2, Members DEF FillerRests
<1>3. CASE profile = "foodbev" /\ FillerFills
  <2>1. PICK v \in Speeds :
          /\ timer' = Advanced(timer, v)
          /\ \/ /\ unweighed' = unweighed + 1
                /\ \E w \in Weights :
                     made' = [made EXCEPT !["state"] = Running, !["speed"] = v, !["weight"] = w]
             \/ /\ made' = [made EXCEPT !["state"] = Running, !["speed"] = v]
                /\ UNCHANGED unweighed
    BY <1>3 DEF FillerFills
  <2>2. QED BY <1>3, <2>1, AdvancedIsNat, Members
<1>4. QED BY <1>1, <1>2, <1>3 DEF SourceRuns

\* The type invariant of Followers holds.
THEOREM FollowersTyped == FollowersSpec => []FollowersTypeOK
<1> USE FollowersAssumption DEF FollowersTypeOK
<1>1. FollowersInit => FollowersTypeOK BY Members DEF FollowersInit, Off, Running
<1>2. FollowersTypeOK /\ [FollowersNext]_followersVars => FollowersTypeOK'
  <2> SUFFICES ASSUME FollowersTypeOK, [FollowersNext]_followersVars PROVE FollowersTypeOK' OBVIOUS
  <2>0. profile' = profile => Group' = Group BY DEF Group, Source
  <2>1. CASE BeginTick
    <3>1. Older \in [Group -> Nat] BY DEF Older
    <3>2. due' \subseteq Group BY <2>1 DEF BeginTick, Due
    <3>3. QED BY <2>0, <2>1, <3>1, <3>2 DEF BeginTick, entries, injection, checkweigher, Off
  <2>2. CASE SourceTurn
    <3>1. CASE SourceRuns
      BY <2>0, <2>2, <3>1, SourceTypes DEF SourceTurn, SourceRuns, schedule, injection, checkweigher
    <3>2. CASE UNCHANGED <<entries, timer, unweighed>>
      BY <2>0, <2>2, <3>2 DEF SourceTurn, schedule, injection, checkweigher, entries
    <3>3. QED BY <2>2, <3>1, <3>2 DEF SourceTurn
  <2>3. CASE FollowersTurn
    <3>1. qcTimer' \in Nat /\ qcWeight' \in Nat /\ unweighed' \in Int
      <4>1. CASE UNCHANGED <<checkweigher, unweighed>> BY <4>1 DEF checkweigher
      <4>2. CASE Weigh(store) /\ profile = "foodbev"
        <5>1. Throughput(store) \in {0} \union Speeds /\ store["weight"] \in Nat
          BY <4>2, Members DEF Throughput, FillerRuns
        <5>2. ASSUME Throughput(store) > 0 PROVE Advanced(qcTimer, Throughput(store)) \in Nat
          <6>1. Throughput(store) \in Speeds BY <5>1, <5>2
          <6>2. qcTimer \in Nat OBVIOUS
          <6>3. QED BY ONLY <6>1, <6>2, AdvancedIsNat
        <5>3. qcTimer' \in Nat BY <4>2, <5>2 DEF Weigh
        <5>4. QED BY <4>2, <5>1, <5>3 DEF Weigh
      <4>3. QED BY <2>3, <4>1, <4>2, Members DEF FollowersTurn
    <3>2. QED BY <2>0, <2>3, <3>1 DEF FollowersTurn, entries, injection
  <2>4. CASE InjectTurn
    <3>1. /\ event' \in [Signals[profile] -> {"none", "disconnect", "stuck"}]
          /\ frozen' \in [Signals[profile] -> Value]
          /\ \A s \in Signals[profile] :
               frozen'[s] \in (IF event'[s] = "stuck" THEN Kept(s) ELSE {Sentinel})
          /\ store' = [s \in Signals[profile] |-> Injected(s)]
          /\ profile' = profile
      BY <2>4 DEF InjectTurn
    <3>2. Value \subseteq Nat BY DEF Value, Running
    <3>3. "speed" \in Signals[profile] BY Members
    <3>4. frozen'["speed"] \in {0} \union Speeds
      BY <3>1, <3>3 DEF Kept, Sentinel
    <3>5. \A s \in Signals[profile] : Injected(s) \in {store[s], Sentinel, frozen'[s]}
      BY <3>1 DEF Injected
    <3>6. store' \in [Signals[profile] -> Nat]
      <4>1. ASSUME NEW s \in Signals[profile] PROVE Injected(s) \in Nat
        <5>1. store[s] \in Nat /\ Sentinel \in Nat BY DEF Sentinel
        <5>2. frozen'[s] \in Nat BY <3>1, <3>2
        <5>3. QED BY <3>5, <5>1, <5>2
      <4>2. QED BY <3>1, <4>1
    <3>7. store'["speed"] \in {0} \union Speeds
      BY <3>1, <3>3, <3>4, <3>5 DEF Sentinel
    <3>8. frozen' \in [Signals[profile] -> Nat] BY <3>1, <3>2
    <3>9. QED BY <2>0, <2>4, <3>1, <3>4, <3>6, <3>7, <3>8 DEF InjectTurn, checkweigher
  <2>5. CASE UNCHANGED followersVars
    BY <2>0, <2>5 DEF followersVars, entries, injection, schedule, checkweigher
  <2>6. QED BY <2>1, <2>2, <2>3, <2>4, <2>5 DEF FollowersNext
<1>3. QED BY <1>1, <1>2, PTL DEF FollowersSpec

-----------------------------------------------------------------------------
(***************************************************************************)
(* With one interval the checkweigher and the filler last ran together,    *)
(* and run together.  Between the two, the store is what the filler just   *)
(* made; before and after, their timers agree.                             *)
(***************************************************************************)
Agreed == unweighed = 0 /\ qcTimer = timer /\ qcWeight = made["weight"]

\* The filler has run and the checkweigher has not.
Filled ==
  /\ store = made
  /\ \/ /\ made["state"] = Off /\ made["speed"] = 0
        /\ timer = 0 /\ unweighed = 0 /\ qcWeight = made["weight"]
     \/ /\ made["state"] = Running /\ made["speed"] \in Speeds
        /\ timer = Advanced(qcTimer, made["speed"])
        /\ IF Arrives(qcTimer, made["speed"]) THEN unweighed = 1
           ELSE unweighed = 0 /\ qcWeight = made["weight"]

WeighInv ==
  profile = "foodbev" =>
    /\ age["qc"] = age["filler"]
    /\ "qc" \in due <=> "filler" \in due
    /\ turn \in {"inject", "begin", "source"} \/ "qc" \notin due => Agreed
    /\ turn = "followers" /\ "qc" \in due => Filled

\* The filler runs: what it made is in the store, and its timer is ahead.
LEMMA FillerAhead ==
  ASSUME FollowersTypeOK, profile = "foodbev", Agreed, SourceRuns,
         UNCHANGED <<qcTimer, qcWeight>>
  PROVE  Filled'
<1> USE FollowersAssumption DEF FollowersTypeOK, Agreed, Filled
<1>1. store' = made' BY DEF SourceRuns
<1>2. CASE FillerRests BY <1>1, <1>2, Members DEF FillerRests
<1>3. CASE FillerFills
  <2>1. PICK v \in Speeds :
          /\ timer' = Advanced(timer, v)
          /\ \/ /\ Arrives(timer, v)
                /\ unweighed' = unweighed + 1
                /\ \E w \in Weights :
                     made' = [made EXCEPT !["state"] = Running, !["speed"] = v, !["weight"] = w]
             \/ /\ ~ Arrives(timer, v)
                /\ made' = [made EXCEPT !["state"] = Running, !["speed"] = v]
                /\ UNCHANGED unweighed
    BY <1>3 DEF FillerFills
  <2>2. made'["state"] = Running /\ made'["speed"] = v BY <2>1, Members
  <2>3. qcTimer' = timer BY DEF Agreed
  <2>4. CASE Arrives(timer, v) BY <1>1, <2>1, <2>2, <2>3, <2>4
  <2>5. CASE ~ Arrives(timer, v)
    <3>1. made'["weight"] = made["weight"] BY <2>1, <2>5, Members
    <3>2. QED BY <1>1, <2>1, <2>2, <2>3, <2>5, <3>1
  <2>6. QED BY <2>4, <2>5
<1>4. QED BY <1>2, <1>3 DEF SourceRuns

\* The checkweigher runs on what the filler has just made: it catches up.
LEMMA CatchesUp ==
  ASSUME FollowersTypeOK, profile = "foodbev", Filled, Weigh(store),
         UNCHANGED <<timer, made>>
  PROVE  Agreed'
<1> USE FollowersAssumption DEF FollowersTypeOK, Agreed, Filled, Throughput, FillerRuns
<1>1. CASE made["state"] = Off BY <1>1 DEF Weigh, Off, Running
<1>2. CASE made["state"] = Running
  <2>1. Throughput(store) = made["speed"] /\ made["speed"] \in Speeds
    BY <1>2 DEF Off, Running
  <2>2. timer = Advanced(qcTimer, made["speed"]) BY <1>2 DEF Off, Running
  <2>3. made["speed"] > 0
    <3>1. made["speed"] \in Speeds BY <2>1
    <3>2. QED BY ONLY <3>1, SpeedsArePositive
  <2>4. qcTimer' = timer BY <2>1, <2>2, <2>3 DEF Weigh
  <2>5. CASE Arrives(qcTimer, made["speed"])
    <3>1. unweighed = 1 BY <1>2, <2>5 DEF Off, Running
    <3>2. unweighed' = 0 /\ qcWeight' = made["weight"]
      BY <2>1, <2>3, <2>5, <3>1 DEF Weigh
    <3>3. QED BY <2>4, <3>2
  <2>6. CASE ~ Arrives(qcTimer, made["speed"])
    <3>1. unweighed = 0 /\ qcWeight = made["weight"] BY <1>2, <2>6 DEF Off, Running
    <3>2. unweighed' = 0 /\ qcWeight' = made["weight"]
      BY <2>1, <2>3, <2>6, <3>1 DEF Weigh
    <3>3. QED BY <2>4, <3>2
  <2>7. QED BY <2>5, <2>6
<1>3. QED BY <1>1, <1>2

\* Every item is weighed in the tick in which it is filled, by its own weight.
THEOREM WeighingHolds ==
  ASSUME Interval["qc"] = Interval["filler"]
  PROVE  FollowersSpec => []WeighedOnce
<1>1. FollowersInit => WeighInv
  BY Members DEF FollowersInit, WeighInv, Agreed
<1>2. FollowersTypeOK /\ WeighInv /\ [FollowersNext]_followersVars => WeighInv'
  <2> SUFFICES ASSUME FollowersTypeOK, WeighInv, [FollowersNext]_followersVars, profile = "foodbev" PROVE WeighInv'
    BY DEF FollowersNext, BeginTick, SourceTurn, FollowersTurn, InjectTurn, WeighInv, followersVars
  <2>0. "qc" \in Group /\ "filler" \in Group BY Members
  <2>1. CASE BeginTick
    <3>1. Older["qc"] = Older["filler"] BY <2>0 DEF Older, WeighInv
    <3>2. "qc" \in due' <=> "filler" \in due' BY <2>0, <2>1, <3>1 DEF BeginTick, Due
    <3>3. age'["qc"] = age'["filler"] BY <2>1, <3>1 DEF BeginTick
    <3>4. Agreed BY <2>1 DEF BeginTick, WeighInv
    <3>5. Agreed' BY <2>1, <3>4 DEF BeginTick, Agreed, entries, checkweigher
    <3>6. QED BY <2>1, <3>2, <3>3, <3>5 DEF BeginTick, WeighInv
  <2>2. CASE SourceTurn
    <3>1. Agreed /\ turn' = "followers" /\ UNCHANGED <<age, due, qcTimer, qcWeight, profile>>
      BY <2>2 DEF SourceTurn, WeighInv, schedule, checkweigher
    <3>2. CASE SourceRuns
      <4>1. Filled' BY <3>1, <3>2, FillerAhead
      <4>2. "filler" \in due BY <3>2 DEF SourceRuns, Source, Sources
      <4>3. QED BY <3>1, <4>1, <4>2 DEF WeighInv
    <3>3. CASE Source \notin due /\ UNCHANGED <<entries, timer, unweighed>>
      <4>1. "qc" \notin due BY <3>3 DEF WeighInv, Source, Sources
      <4>2. Agreed' BY <3>1, <3>3 DEF Agreed, entries
      <4>3. QED BY <3>1, <4>1, <4>2 DEF WeighInv
    <3>4. QED BY <2>2, <3>2, <3>3 DEF SourceTurn
  <2>3. CASE FollowersTurn
    <3>1. UNCHANGED <<timer, made, due, profile>> /\ turn = "followers" /\ turn' = "inject"
      BY <2>3 DEF FollowersTurn, entries
    <3>2. age'["qc"] = age'["filler"] BY <2>0, <2>3 DEF FollowersTurn, WeighInv
    <3>3. CASE "qc" \in due
      <4>1. Filled /\ Weigh(store) BY <2>3, <3>1, <3>3 DEF FollowersTurn, WeighInv
      <4>2. Agreed' BY <3>1, <4>1, CatchesUp
      <4>3. QED BY <3>1, <3>2, <4>2 DEF WeighInv
    <3>4. CASE "qc" \notin due
      <4>1. Agreed /\ UNCHANGED <<checkweigher, unweighed>> BY <2>3, <3>1, <3>4 DEF FollowersTurn, WeighInv
      <4>2. Agreed' BY <3>1, <4>1 DEF Agreed, checkweigher
      <4>3. QED BY <3>1, <3>2, <4>2 DEF WeighInv
    <3>5. QED BY <3>3, <3>4
  <2>4. CASE InjectTurn
    <3>1. /\ UNCHANGED <<timer, made, age, qcTimer, qcWeight, unweighed>>
          /\ due' = {} /\ turn = "inject" /\ turn' = "begin"
      BY <2>4 DEF InjectTurn, checkweigher
    <3>2. Agreed' BY <3>1 DEF WeighInv, Agreed
    <3>3. QED BY <3>1, <3>2 DEF WeighInv
  <2>5. CASE UNCHANGED followersVars
    <3>1. UNCHANGED <<turn, age, due, store, timer, made, qcTimer, qcWeight, unweighed>>
      BY <2>5 DEF followersVars, entries, schedule, checkweigher
    <3>2. Agreed' = Agreed /\ Filled' = Filled BY <3>1 DEF Agreed, Filled
    <3>3. QED BY <3>1, <3>2 DEF WeighInv
  <2>6. QED BY <2>1, <2>2, <2>3, <2>4, <2>5 DEF FollowersNext
<1>3. WeighInv => WeighedOnce BY DEF WeighInv, WeighedOnce, Agreed
<1>4. QED BY <1>1, <1>2, <1>3, FollowersTyped, PTL DEF FollowersSpec

-----------------------------------------------------------------------------
(***************************************************************************)
(* Degradation.                                                            *)
(***************************************************************************)
FaultPhases ==
  {"pending", "sporadic", "frequent", "permanent", "completed", "active", "monitoring", "spike"}

Contribution == SUBSET Faults
Copies == [Parameters -> Contribution]

DegradationTypeOK ==
  /\ param \in Copies
  /\ saved \in [Faults -> Copies]
  /\ spiking \subseteq Faults
  /\ clean \in BOOLEAN /\ sentinel \in BOOLEAN /\ fresh \in BOOLEAN
  /\ phase \in [Faults -> FaultPhases]
  /\ cursor \in Nat \ {0}

\* Every copy taken is that of a healthy machine.
CopiesClean == clean => \A f \in Faults : \A p \in Parameters : saved[f][p] = {}

Altering(p) == {f \in spiking : p \in Alters(f)}

\* A parameter shows those who alter it and whom nobody has overwritten.
ParamsShow ==
  clean => \A p \in Parameters : Altering(p) \ undone \subseteq param[p] /\ param[p] \subseteq Altering(p)

\* Only a fault in one of its phases has a spike, and the store holds the
\* sentinel of a sensor fault as long as that has one.
SensorInv ==
  /\ \A f \in Intermittent : f \in spiking => MayInject(f)
  /\ pc = "injections" => (fresh => ~ sentinel)
  /\ pc = "scenarios" /\ cursor = 1 =>
       /\ "sensor" \in spiking => sentinel
       /\ fresh /\ sentinel => "sensor" \in spiking

ShowInv == DegradationTypeOK /\ CopiesClean /\ ParamsShow /\ SensorInv

\* A fault is one of its kinds only.
LEMMA FaultKinds ==
  ASSUME NEW f \in Faults
  PROVE  /\ f \in Intermittent => f \in Subtypes /\ f # Wear /\ f # ColdStart
         /\ f \notin Intermittent => f \in {Wear, ColdStart} /\ f \notin Subtypes
         /\ f \in Absolute => f \in Subtypes
BY DegradationAssumption DEF Faults, Absolute, Subtypes

\* Whom a fault alters it also saves, and both are parameters.
LEMMA AltersRestores ==
  ASSUME NEW f \in Faults
  PROVE  Alters(f) \subseteq Restores(f) /\ Restores(f) \subseteq Parameters
<1>1. CASE f \in Intermittent
  <2>1. f \in Subtypes /\ f # Wear /\ f # ColdStart BY <1>1, FaultKinds
  <2>2. Alters(f) \subseteq {"vibration", "current", "pressure"}
    BY <2>1 DEF Alters, Subtypes
  <2>3. QED BY <1>1, <2>2 DEF Restores, Parameters
<1>2. CASE f \notin Intermittent
  <2>1. f \in {Wear, ColdStart} /\ f \notin Subtypes /\ Wear # ColdStart
    BY <1>2, FaultKinds, DegradationAssumption
  <2>2. f \notin {"bearing", "electrical", "pneumatic", "sensor"} BY <2>1 DEF Subtypes
  <2>3. Alters(f) = IF f = Wear THEN {"vibration", "current"} ELSE {"power", "current"}
    BY <2>1, <2>2 DEF Alters
  <2>4. QED BY <1>2, <2>3 DEF Restores, Parameters
<1>3. QED BY <1>1, <1>2

-----------------------------------------------------------------------------
\* A fault that takes a set of parameters over, to alter them or to restore
\* them, leaves each showing those who alter it, or marks them as undone.
LEMMA TakenOver ==
  ASSUME ParamsShow, NEW f \in Faults, NEW P, Alters(f) \subseteq P, clean' => clean,
         \A p \in Parameters \ P : param'[p] = param[p],
         undone' = (undone \ {f}) \union Overwrites(f, P),
         \/ /\ spiking' = spiking \union {f}
            /\ clean' => \A p \in P : p \in Alters(f) /\ param'[p] = {f}
         \/ /\ spiking' = spiking \ {f}
            /\ clean' => \A p \in P : param'[p] = {}
  PROVE  ParamsShow'
<1> SUFFICES ASSUME clean', NEW p \in Parameters
             PROVE  Altering(p)' \ undone' \subseteq param'[p] /\ param'[p] \subseteq Altering(p)'
  BY DEF ParamsShow
<1>1. \A g : g \in Altering(p)' <=> g \in spiking' /\ p \in Alters(g) BY DEF Altering, Alters
<1>2. \A g : g \in Altering(p) <=> g \in spiking /\ p \in Alters(g) BY DEF Altering
<1>3. CASE p \in P
  <2>1. \A g \in spiking : g # f /\ p \in Alters(g) => g \in undone' BY <1>3 DEF Overwrites
  <2>2. QED BY <1>1, <1>3, <2>1
<1>4. CASE p \notin P
  <2>1. Altering(p) \ undone \subseteq param[p] /\ param[p] \subseteq Altering(p) BY DEF ParamsShow
  <2>2. param'[p] = param[p] BY <1>4
  <2>3. p \notin Alters(f) BY <1>4
  <2>4. \A g : g # f => (g \in spiking' <=> g \in spiking) OBVIOUS
  <2>5. \A g : g # f /\ g \in undone => g \in undone' OBVIOUS
  <2>6. QED BY <1>1, <1>2, <2>1, <2>2, <2>3, <2>4, <2>5
<1>5. QED BY <1>3, <1>4

\* Only the three kinds of effect on the machine that follow occur.
Leaves(f) == LeaveAlone /\ (Save(f) \/ UNCHANGED copies)
Adds(f) == \/ Alter(f, saved[f]) /\ UNCHANGED copies
           \/ Alter(f, param) /\ Save(f)
Restored(f) == \E P \in {Alters(f), Restores(f)} : WriteBack(f, P) /\ UNCHANGED copies

ShowsKept == CopiesClean /\ ParamsShow /\ param \in Copies /\ saved \in [Faults -> Copies] /\ spiking \subseteq Faults /\ clean \in BOOLEAN

\* Saving takes the copy of a healthy machine, or ends the claim.
LEMMA SavingKeeps ==
  ASSUME DegradationTypeOK, CopiesClean, NEW f \in Faults, Save(f)
  PROVE  /\ CopiesClean' /\ saved' \in [Faults -> Copies] /\ clean' \in BOOLEAN
         /\ clean' => clean /\ \A p \in Restores(f) : param[p] = {}
<1>1. saved' = [saved EXCEPT ![f] = [p \in Parameters |-> IF p \in Restores(f) THEN param[p] ELSE {}]]
  BY DEF Save
<1>2. [p \in Parameters |-> IF p \in Restores(f) THEN param[p] ELSE {}] \in Copies
  BY DEF DegradationTypeOK, Copies, Contribution
<1>3. saved' \in [Faults -> Copies] BY <1>1, <1>2 DEF DegradationTypeOK
<1>4. clean' \in BOOLEAN /\ (clean' => clean /\ \A p \in Restores(f) : param[p] = {})
  BY DEF Save, DegradationTypeOK
<1>5. ASSUME clean', NEW g \in Faults, NEW p \in Parameters PROVE saved'[g][p] = {}
  <2>1. saved[g][p] = {} BY <1>4, <1>5 DEF CopiesClean
  <2>2. CASE g = f BY <1>1, <1>4, <1>5, <2>2 DEF DegradationTypeOK
  <2>3. CASE g # f BY <1>1, <2>1, <2>3 DEF DegradationTypeOK
  <2>4. QED BY <2>2, <2>3
<1>6. QED BY <1>3, <1>4, <1>5 DEF CopiesClean

\* Each of the three keeps the parameters showing what is active.
LEMMA EffectsShow ==
  ASSUME DegradationTypeOK, CopiesClean, ParamsShow, NEW f \in Faults,
         Leaves(f) \/ Adds(f) \/ Restored(f)
  PROVE  ShowsKept'
<1> USE DEF DegradationTypeOK
<1>1. Alters(f) \subseteq Restores(f) /\ Restores(f) \subseteq Parameters BY AltersRestores
<1>2. ASSUME UNCHANGED copies
      PROVE  /\ CopiesClean' /\ saved' \in [Faults -> Copies] /\ clean' \in BOOLEAN
             /\ clean' => clean /\ \A p \in Parameters : saved[f][p] = {}
  BY <1>2 DEF copies, CopiesClean
<1>3. CASE Leaves(f)
  <2>1. param' = param /\ spiking' = spiking /\ undone' = undone BY <1>3 DEF Leaves, LeaveAlone
  <2>2. CopiesClean' /\ saved' \in [Faults -> Copies] /\ clean' \in BOOLEAN /\ (clean' => clean)
    BY <1>2, <1>3, SavingKeeps DEF Leaves
  <2>3. ParamsShow' BY <2>1, <2>2 DEF ParamsShow, Altering, Alters
  <2>4. QED BY <2>1, <2>2, <2>3 DEF ShowsKept
<1>4. CASE Adds(f)
  <2>1. /\ CopiesClean' /\ saved' \in [Faults -> Copies] /\ clean' \in BOOLEAN /\ (clean' => clean)
    BY <1>2, <1>4, SavingKeeps DEF Adds
  <2>2. /\ \A p \in Parameters \ Alters(f) : param'[p] = param[p]
        /\ clean' => \A p \in Alters(f) : param'[p] = {f}
        /\ param' \in Copies
    <3>1. CASE Alter(f, saved[f]) /\ UNCHANGED copies
      <4>1. param' = [p \in Parameters |-> IF p \notin Alters(f) THEN param[p]
                        ELSE IF f \in Absolute THEN {f} ELSE saved[f][p] \union {f}]
        BY <3>1 DEF Alter, Altered
      <4>2. QED BY <1>1, <1>2, <3>1, <4>1 DEF Copies, Contribution
    <3>2. CASE Alter(f, param) /\ Save(f)
      <4>1. param' = [p \in Parameters |-> IF p \notin Alters(f) THEN param[p]
                        ELSE IF f \in Absolute THEN {f} ELSE param[p] \union {f}]
        BY <3>2 DEF Alter, Altered
      <4>2. clean' => \A p \in Restores(f) : param[p] = {} BY <3>2, SavingKeeps
      <4>3. QED BY <1>1, <4>1, <4>2 DEF Copies, Contribution
    <3>3. QED BY <1>4, <3>1, <3>2 DEF Adds
  <2>3. spiking' = spiking \union {f} /\ undone' = (undone \ {f}) \union Overwrites(f, Alters(f))
    BY <1>4 DEF Adds, Alter
  <2>4. ParamsShow' BY <2>1, <2>2, <2>3, TakenOver
  <2>5. QED BY <2>1, <2>2, <2>3, <2>4 DEF ShowsKept
<1>5. ASSUME NEW P \in {Alters(f), Restores(f)}, WriteBack(f, P), UNCHANGED copies
      PROVE  ShowsKept'
  <2>1. param' = [p \in Parameters |-> IF p \in P THEN saved[f][p] ELSE param[p]]
    BY <1>5 DEF WriteBack, WrittenBack
  <2>2. /\ \A p \in Parameters \ P : param'[p] = param[p]
        /\ clean' => \A p \in P : param'[p] = {}
        /\ param' \in Copies
    BY <1>1, <1>2, <1>5, <2>1 DEF Copies, Contribution
  <2>3. spiking' = spiking \ {f} /\ undone' = (undone \ {f}) \union Overwrites(f, P)
    BY <1>5 DEF WriteBack
  <2>4. Alters(f) \subseteq P BY <1>1
  <2>5. clean' => clean BY <1>2, <1>5
  <2>6. ParamsShow' BY <2>2, <2>3, <2>4, <2>5, TakenOver
  <2>7. QED BY <1>2, <1>5, <2>2, <2>3, <2>6 DEF ShowsKept
<1>6. QED BY <1>3, <1>4, <1>5 DEF Restored

-----------------------------------------------------------------------------
\* What the turn of a fault does to the machine and to its own phase.
Turn(f) ==
  /\ Leaves(f) \/ Adds(f) \/ Restored(f)
  /\ \E p \in FaultPhases : phase' = [phase EXCEPT ![f] = p]
  /\ f \in Intermittent /\ f \in spiking' => MayInject(f)'

\* Every callback of an intermittent fault is a turn.
LEMMA IntermittentTurn ==
  ASSUME DegradationTypeOK, SensorInv, NEW f \in Faults, IntermittentFault(f)
  PROVE  Turn(f)
<1> USE DEF DegradationTypeOK, MayInject
<1>1. f \in Intermittent BY DEF IntermittentFault
<1>2. CASE BeginSporadic(f)
  <2>1. Leaves(f) \/ Adds(f) BY <1>2 DEF BeginSporadic, Leaves, Adds
  <2>2. phase' = [phase EXCEPT ![f] = "sporadic"] BY <1>2 DEF BeginSporadic, Enter
  <2>3. QED BY <2>1, <2>2 DEF Turn, FaultPhases
<1>3. CASE SpikeOrNot(f)
  <2>1. Leaves(f) \/ Adds(f) \/ Restored(f)
    BY <1>3 DEF SpikeOrNot, StartSpike, EndSpike, Leaves, Adds, Restored
  <2>2. phase[f] \in {"sporadic", "frequent"} /\ phase' = phase BY <1>3 DEF SpikeOrNot
  <2>3. phase' = [phase EXCEPT ![f] = phase[f]] BY <2>2
  <2>4. QED BY <2>1, <2>2, <2>3 DEF Turn, FaultPhases
<1>4. CASE BecomeFrequent(f)
  <2>1. Leaves(f) \/ Adds(f) \/ Restored(f)
    BY <1>4 DEF BecomeFrequent, StartSpike, EndSpike, Leaves, Adds, Restored
  <2>2. phase' = [phase EXCEPT ![f] = "frequent"] BY <1>4 DEF BecomeFrequent, Enter
  <2>3. QED BY <2>1, <2>2 DEF Turn, FaultPhases
<1>5. CASE EnterPhase3(f)
  <2>1. Adds(f) BY <1>5 DEF EnterPhase3, Adds
  <2>2. phase' = [phase EXCEPT ![f] = "permanent"] BY <1>5 DEF EnterPhase3, Enter
  <2>3. QED BY <2>1, <2>2 DEF Turn, FaultPhases
<1>6. CASE EndFault(f)
  <2>1. Restored(f) BY <1>6 DEF EndFault, Restored
  <2>2. f \notin spiking' BY <1>6 DEF EndFault, WriteBack
  <2>3. phase' = [phase EXCEPT ![f] = "completed"] BY <1>6 DEF EndFault, Enter
  <2>4. QED BY <2>1, <2>2, <2>3 DEF Turn, FaultPhases
<1>7. CASE StayPermanent(f)
  <2>1. Leaves(f) BY <1>7 DEF StayPermanent, Leaves
  <2>2. phase[f] = "permanent" /\ phase' = phase BY <1>7 DEF StayPermanent
  <2>3. phase' = [phase EXCEPT ![f] = phase[f]] BY <2>2
  <2>4. QED BY <2>1, <2>2, <2>3 DEF Turn, FaultPhases
<1>8. QED BY <1>2, <1>3, <1>4, <1>5, <1>6, <1>7 DEF IntermittentFault

\* So is every callback of the bearing's wear.
LEMMA WearTurn ==
  ASSUME DegradationTypeOK, BearingWear
  PROVE  Turn(Wear)
<1> USE DEF DegradationTypeOK
<1>1. Wear \notin Intermittent /\ Wear \in Faults BY DegradationAssumption DEF Faults
<1>2. CASE BeginWear
  <2>1. Adds(Wear) BY <1>2 DEF BeginWear, Adds
  <2>2. phase' = [phase EXCEPT ![Wear] = "active"] BY <1>2 DEF BeginWear, Enter
  <2>3. QED BY <1>1, <2>1, <2>2 DEF Turn, FaultPhases
<1>3. CASE WearOn
  <2>1. Adds(Wear) BY <1>3 DEF WearOn, Adds
  <2>2. phase' = [phase EXCEPT ![Wear] = "active"] BY <1>1, <1>3 DEF WearOn
  <2>3. QED BY <1>1, <2>1, <2>2 DEF Turn, FaultPhases
<1>4. CASE EndWear
  <2>1. Restored(Wear) BY <1>4 DEF EndWear, Restored
  <2>2. phase' = [phase EXCEPT ![Wear] = "completed"] BY <1>4 DEF EndWear, Enter
  <2>3. QED BY <1>1, <2>1, <2>2 DEF Turn, FaultPhases
<1>5. QED BY <1>2, <1>3, <1>4 DEF BearingWear

\* So is every callback of the cold start.
LEMMA ColdTurn ==
  ASSUME DegradationTypeOK, ColdStarts
  PROVE  Turn(ColdStart)
<1> USE DEF DegradationTypeOK
<1>1. ColdStart \notin Intermittent /\ ColdStart \in Faults BY DegradationAssumption DEF Faults
<1>2. CASE BeginWatch
  <2>1. Leaves(ColdStart) BY <1>2 DEF BeginWatch, Leaves
  <2>2. phase' = [phase EXCEPT ![ColdStart] = "monitoring"] BY <1>2 DEF BeginWatch, Enter
  <2>3. QED BY <1>1, <2>1, <2>2 DEF Turn, FaultPhases
<1>3. CASE WatchPress \/ InrushOn
  <2>1. Leaves(ColdStart) BY <1>3 DEF WatchPress, InrushOn, Leaves
  <2>2. phase' = phase BY <1>3 DEF WatchPress, InrushOn
  <2>3. phase' = [phase EXCEPT ![ColdStart] = phase[ColdStart]] BY <2>2
  <2>4. QED BY <1>1, <2>1, <2>3 DEF Turn, FaultPhases
<1>4. CASE StartInrush
  <2>1. Adds(ColdStart) BY <1>4 DEF StartInrush, Adds
  <2>2. phase' = [phase EXCEPT ![ColdStart] = "spike"] BY <1>4 DEF StartInrush, Enter
  <2>3. QED BY <1>1, <2>1, <2>2 DEF Turn, FaultPhases
<1>5. CASE EndInrush
  <2>1. Restored(ColdStart) BY <1>5 DEF EndInrush, Restored
  <2>2. phase' = [phase EXCEPT ![ColdStart] = "completed"] BY <1>5 DEF EndInrush, Enter
  <2>3. QED BY <1>1, <2>1, <2>2 DEF Turn, FaultPhases
<1>6. QED BY <1>2, <1>3, <1>4, <1>5 DEF ColdStarts

\* A turn keeps everything but the position in the tick.
LEMMA TurnKeeps ==
  ASSUME ShowInv, NEW f \in Faults, Turn(f)
  PROVE  /\ ShowsKept'
         /\ phase' \in [Faults -> FaultPhases]
         /\ \A g \in Intermittent : g \in spiking' => MayInject(g)'
         /\ \A g : g # f => (g \in spiking' <=> g \in spiking)
<1> USE DEF ShowInv, DegradationTypeOK
<1>1. ShowsKept' BY EffectsShow DEF Turn
<1>2. PICK p \in FaultPhases : phase' = [phase EXCEPT ![f] = p]
  BY DEF Turn
<1>3. \A g : g # f => (g \in spiking' <=> g \in spiking)
  BY DEF Turn, Leaves, Adds, Restored, LeaveAlone, Alter, WriteBack
<1>4. ASSUME NEW g \in Intermittent, g \in spiking' PROVE MayInject(g)'
  <2>1. CASE g = f BY <1>4, <2>1 DEF Turn
  <2>2. CASE g # f
    <3>1. MayInject(g) /\ g \in Faults BY <1>3, <1>4, <2>2 DEF SensorInv, Faults
    <3>2. QED BY <1>2, <2>2, <3>1 DEF MayInject
  <2>3. QED BY <2>1, <2>2
<1>5. QED BY <1>1, <1>2, <1>3, <1>4

\* Every step of the evaluate loop keeps the invariant.
LEMMA ShowInvKept == ShowInv /\ [Next]_vars => ShowInv'
<1> SUFFICES ASSUME ShowInv, [Next]_vars PROVE ShowInv' OBVIOUS
<1> USE DEF ShowInv
<1>1. ASSUME NEW f \in Faults, TakeTurn(f), Turn(f) PROVE ShowInv'
  <2>1. /\ ShowsKept'
        /\ phase' \in [Faults -> FaultPhases]
        /\ \A g \in Intermittent : g \in spiking' => MayInject(g)'
    BY <1>1, TurnKeeps
  <2>2. /\ pc = "scenarios" /\ pc' = "scenarios" /\ cursor' = cursor + 1
        /\ sentinel' = sentinel /\ fresh' = fresh
    BY <1>1 DEF TakeTurn, sensor
  <2>3. cursor' \in Nat \ {0} /\ cursor' # 1 BY <2>2 DEF DegradationTypeOK
  <2>4. DegradationTypeOK' BY <2>1, <2>2, <2>3 DEF DegradationTypeOK, ShowsKept
  <2>5. SensorInv' BY <2>1, <2>2, <2>3 DEF SensorInv
  <2>6. QED BY <2>1, <2>4, <2>5 DEF ShowsKept
<1>2. ASSUME NEW f \in Faults, Evaluate(f) PROVE ShowInv'
  <2>1. Turn(f) BY <1>2, IntermittentTurn, WearTurn, ColdTurn DEF Evaluate
  <2>2. QED BY <1>1, <1>2, <2>1 DEF Evaluate
<1>3. ASSUME NEW f \in Faults, NotDue(f) PROVE ShowInv'
  <2>1. Leaves(f) /\ phase' = phase /\ spiking' = spiking
    BY <1>3 DEF NotDue, Leaves, LeaveAlone
  <2>2. phase' = [phase EXCEPT ![f] = phase[f]] BY <2>1 DEF DegradationTypeOK
  <2>3. f \in Intermittent /\ f \in spiking' => MayInject(f)'
    BY <2>1 DEF SensorInv, MayInject
  <2>4. Turn(f) BY <2>1, <2>2, <2>3 DEF Turn, DegradationTypeOK
  <2>5. QED BY <1>1, <1>3, <2>4 DEF NotDue
<1>4. CASE PreemptColdStart
  <2>1. ColdStart \in Faults /\ ColdStart \notin Intermittent /\ ColdStart # "sensor"
    BY DegradationAssumption DEF Faults, Subtypes
  <2>2. Leaves(ColdStart) \/ Restored(ColdStart)
    BY <1>4 DEF PreemptColdStart, Leaves, Restored
  <2>3. phase' = [phase EXCEPT ![ColdStart] = "completed"] BY <1>4 DEF PreemptColdStart, Enter
  <2>4. Turn(ColdStart) BY <2>1, <2>2, <2>3 DEF Turn, FaultPhases
  <2>5. /\ ShowsKept'
        /\ phase' \in [Faults -> FaultPhases]
        /\ \A g \in Intermittent : g \in spiking' => MayInject(g)'
        /\ "sensor" \in spiking' <=> "sensor" \in spiking
    BY <2>1, <2>4, TurnKeeps
  <2>6. UNCHANGED <<sentinel, fresh, pc, cursor>> BY <1>4 DEF PreemptColdStart, sensor, loop
  <2>7. DegradationTypeOK' BY <2>5, <2>6 DEF DegradationTypeOK, ShowsKept
  <2>8. SensorInv' BY <2>5, <2>6 DEF SensorInv
  <2>9. QED BY <2>5, <2>7, <2>8 DEF ShowsKept
<1>5. ASSUME UNCHANGED <<param, phase, spiking, copies, undone>>
      PROVE  /\ CopiesClean' /\ ParamsShow'
             /\ \A g \in Intermittent : g \in spiking' => MayInject(g)'
             /\ UNCHANGED <<saved, clean>>
  BY <1>5 DEF copies, CopiesClean, ParamsShow, Altering, SensorInv, MayInject
<1>6. CASE EndScenarios
  <2>1. UNCHANGED <<param, phase, spiking, copies, undone, cursor, sentinel, fresh>> /\ pc' = "generators"
    BY <1>6 DEF EndScenarios, sensor
  <2>2. DegradationTypeOK' BY <1>5, <2>1 DEF DegradationTypeOK
  <2>3. SensorInv' BY <1>5, <2>1 DEF SensorInv
  <2>4. QED BY <1>5, <2>1, <2>2, <2>3
<1>7. CASE Generate
  <2>1. /\ UNCHANGED <<param, phase, spiking, copies, undone, cursor>>
        /\ pc' = "injections" /\ fresh' \in BOOLEAN /\ sentinel' = (sentinel /\ ~ fresh')
    BY <1>7 DEF Generate
  <2>2. DegradationTypeOK' BY <1>5, <2>1 DEF DegradationTypeOK
  <2>3. SensorInv' BY <1>5, <2>1 DEF SensorInv
  <2>4. QED BY <1>5, <2>1, <2>2, <2>3
<1>8. CASE Inject
  <2>1. /\ UNCHANGED <<param, phase, spiking, copies, undone, fresh>>
        /\ pc = "injections" /\ pc' = "scenarios" /\ cursor' = 1
        /\ sentinel' = (sentinel \/ \E f \in Intermittent \cap {"sensor"} : MayInject(f) /\ f \in spiking)
    BY <1>8 DEF Inject
  <2>2. DegradationTypeOK' BY <1>5, <2>1 DEF DegradationTypeOK
  <2>3. "sensor" \in spiking => "sensor" \in Intermittent
    BY DegradationAssumption DEF DegradationTypeOK, Faults, Subtypes
  <2>4. "sensor" \in spiking' => sentinel'
    BY <2>1, <2>3 DEF SensorInv
  <2>5. fresh' /\ sentinel' => "sensor" \in spiking'
    BY <2>1 DEF SensorInv
  <2>6. SensorInv' BY <1>5, <2>1, <2>4, <2>5 DEF SensorInv
  <2>7. QED BY <1>5, <2>1, <2>2, <2>6
<1>9. CASE UNCHANGED vars
  <2>1. UNCHANGED <<param, phase, spiking, copies, undone, cursor, pc, sentinel, fresh>>
    BY <1>9 DEF vars, sensor, loop
  <2>2. DegradationTypeOK' BY <1>5, <2>1 DEF DegradationTypeOK
  <2>3. SensorInv' BY <1>5, <2>1 DEF SensorInv
  <2>4. QED BY <1>5, <2>1, <2>2, <2>3
<1>10. QED BY <1>2, <1>3, <1>4, <1>6, <1>7, <1>8, <1>9 DEF Next

\* Whatever degrades the machine, its parameters show those who alter them and
\* nobody else when the generators run, as long as every copy was taken from a
\* healthy machine; the sentinel of a sensor fault lasts as long as its spike.
THEOREM DegradationShowsHolds == Spec => []DegradationShows
<1>1. Init => ShowInv
  <2> SUFFICES ASSUME Init PROVE ShowInv OBVIOUS
  <2>1. Healthy \in Copies BY DEF Healthy, Copies, Contribution
  <2>2. DegradationTypeOK
    <3>1. param \in Copies /\ saved \in [Faults -> Copies] BY <2>1 DEF Init
    <3>2. clean \in BOOLEAN /\ sentinel \in BOOLEAN /\ fresh \in BOOLEAN BY DEF Init
    <3>3. /\ phase \in [Faults -> FaultPhases]
          /\ spiking \subseteq Faults /\ cursor \in Nat \ {0}
      BY DEF Init, FaultPhases
    <3>4. QED BY <3>1, <3>2, <3>3 DEF DegradationTypeOK
  <2>3. CopiesClean BY DEF Init, CopiesClean, Healthy
  <2>4. ParamsShow BY DEF Init, ParamsShow, Healthy, Altering
  <2>5. SensorInv BY DEF Init, SensorInv
  <2>6. QED BY <2>2, <2>3, <2>4, <2>5 DEF ShowInv
<1>2. ShowInv => DegradationShows
  BY DEF ShowInv, ParamsShow, Altering, SensorInv, DegradationShows
<1>3. QED BY <1>1, <1>2, ShowInvKept, PTL DEF Spec

=============================================================================
