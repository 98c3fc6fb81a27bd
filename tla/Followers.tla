----------------------------- MODULE Followers ------------------------------
(***************************************************************************)
(* The generators that follow another one through the store: laminator,    *)
(* vibration and energy follow the speed of the press; sealer,             *)
(* checkweigher and energy follow the filler (generators/*.py).            *)
(*                                                                         *)
(* A tick: a CIP cycle may force the filler to Off; every generator whose  *)
(* interval has passed runs, the source before its followers; then the     *)
(* data quality injectors override store entries, for any length of time   *)
(* (SignalPath has them in detail).  What a follower reads is what the     *)
(* store holds when it runs, which may be an injector's value when the     *)
(* source does not run in the same tick.                                   *)
(*                                                                         *)
(* Intervals are in ticks.  The clock adds up 0.1 s in floating point, so  *)
(* that a difference of sim_times may fall short of an interval that is a  *)
(* whole number of ticks: a generator then runs a tick later.  Generators  *)
(* with one interval that last ran together agree on that.                 *)
(*                                                                         *)
(* Data abstracted: temperatures, pressures and the energy sum follow from *)
(* what a follower shows; reject counters, which nothing reads, and the    *)
(* levels of the hopper are left out.                                      *)
(***************************************************************************)
EXTENDS Integers

CONSTANTS Interval,    \* Interval[g]: fastest sample interval of g, in ticks
          MaxInterval,
          Speeds,      \* speeds of a line that runs; 0 is rest
          Slow,        \* up to this speed a press does not shake
          ItemTime,    \* ItemTime[v]: time between two items at speed v
          Weights      \* weights of an item

Sources == [packaging |-> "press", foodbev |-> "filler"]

Followers ==
  [packaging |-> {"laminator", "vibration", "energy"},
   foodbev |-> {"sealer", "qc", "energy"}]

Signals ==
  [packaging |-> {"speed"}, foodbev |-> {"state", "speed", "weight"}]

Generators == {"press", "filler", "laminator", "vibration", "energy", "sealer", "qc"}

ASSUME FollowersAssumption ==
  /\ Interval \in [Generators -> Nat \ {0}]
  /\ MaxInterval \in Nat /\ \A g \in Generators : Interval[g] <= MaxInterval
  /\ Speeds \subseteq Nat \ {0}
  /\ Slow \in Nat
  /\ ItemTime \in [Speeds -> Nat \ {0}]
  /\ Weights \subseteq Nat \ {0}

Off == 0                    \* filler.state; also the sentinel of the three signals
Running == 2
Sentinel == 0

VARIABLES profile,   \* the factory that is simulated
          filler,    \* current_state of the filler's state machine
          made,      \* made[s]: what the source last generated for signal s
          store,     \* store[s]: the store's entry
          event,     \* event[s]: the injection that is active
          frozen,    \* frozen[s]: the value of a stuck signal
          age,       \* age[g]: ticks since g ran
          due,       \* generators that run in this tick
          turn,      \* which loop of the tick is next
          shows,     \* shows[f]: what follower f has last shown
          ought,     \* ought[f]: what it would have shown of what was made
          timer,     \* _time_since_last_item of the filler
          qcTimer,   \* _time_since_last_item of the checkweigher
          qcWeight,  \* weight of the last item it weighed
          unweighed  \* items the filler has filled, less those it has weighed

entries == <<made, store>>
injection == <<event, frozen>>
schedule == <<age, due>>
checkweigher == <<qcTimer, qcWeight>>
followersVars ==
  <<profile, filler, timer, entries, injection, schedule, turn, shows, ought, checkweigher, unweighed>>

Source == Sources[profile]
Group == {Source} \union Followers[profile]

FollowersInit ==
  /\ profile \in {"packaging", "foodbev"}
  /\ filler \in {Off, Running}
  /\ made = [s \in Signals[profile] |-> 0]
  /\ store = made
  /\ event = [s \in Signals[profile] |-> "none"]
  /\ age = [g \in Group |-> MaxInterval]
  /\ due = {} /\ turn = "begin"
  /\ shows = [f \in Followers[profile] |-> 0]
  /\ ought = shows
  /\ frozen = made
  /\ timer = 0 /\ qcTimer = 0 /\ qcWeight = 0 /\ unweighed = 0

-----------------------------------------------------------------------------
(***************************************************************************)
(* DataEngine.tick, before the generators: who is due, and whether a CIP   *)
(* cycle begins, which forces the filler to Off.                           *)
(***************************************************************************)
\* Mutant of Due: the checkweigher does not wait for its full interval.
DueEarly(ages, short) ==
  {g \in Group : \/ ages[g] > Interval[g]
                 \/ ages[g] = Interval[g] /\ (Interval[g] \notin short \/ g = "qc")}

\* The differences that fall short are of intervals: same interval, same
\* last run, same difference.
Due(ages, short) ==
  {g \in Group : ages[g] > Interval[g] \/ (ages[g] = Interval[g] /\ Interval[g] \notin short)}

Older == [g \in Group |-> IF age[g] > MaxInterval THEN age[g] ELSE age[g] + 1]

BeginTick ==
  /\ turn = "begin"
  /\ turn' = "source"
  /\ age' = Older
  /\ \E short \in SUBSET {Interval[g] : g \in Group} : due' = Due(Older, short)
  /\ filler' \in {filler} \union (IF profile = "foodbev" THEN {Off} ELSE {})
  /\ UNCHANGED <<profile, timer, entries, injection, shows, ought, checkweigher, unweighed>>

-----------------------------------------------------------------------------
(***************************************************************************)
(* The source.  The press has any speed (PressLine); the filler fills      *)
(* items at its speed while it is Running, at most one in a run.           *)
(***************************************************************************)
\* The item timer after a run at speed v: it advances by one tick, whatever
\* the interval of the generator, and keeps what exceeds the item's time.
Arrives(t, v) == t + 1 >= ItemTime[v]
Advanced(t, v) == IF Arrives(t, v) THEN t + 1 - ItemTime[v] ELSE t + 1

PressGenerates ==
  /\ \E v \in {0} \union Speeds : made' = [made EXCEPT !["speed"] = v]
  /\ UNCHANGED <<timer, unweighed>>

FillerRests ==
  /\ filler = Off
  /\ timer' = 0
  /\ made' = [made EXCEPT !["state"] = Off, !["speed"] = 0]
  /\ UNCHANGED unweighed

FillerFills ==
  /\ filler = Running
  /\ \E v \in Speeds :
       /\ timer' = Advanced(timer, v)
       /\ \/ Arrives(timer, v)
             /\ unweighed' = unweighed + 1
             /\ \E w \in Weights :
                  made' = [made EXCEPT !["state"] = Running, !["speed"] = v, !["weight"] = w]
          \/ ~ Arrives(timer, v)
             /\ made' = [made EXCEPT !["state"] = Running, !["speed"] = v]
             /\ UNCHANGED unweighed

SourceRuns ==
  /\ Source \in due
  /\ \/ profile = "packaging" /\ PressGenerates
     \/ profile = "foodbev" /\ (FillerRests \/ FillerFills)
  /\ store' = made'

SourceTurn ==
  /\ turn = "source"
  /\ turn' = "followers"
  /\ SourceRuns \/ (Source \notin due /\ UNCHANGED <<entries, timer, unweighed>>)
  /\ UNCHANGED <<profile, filler, injection, schedule, shows, ought, checkweigher>>

-----------------------------------------------------------------------------
(***************************************************************************)
(* The followers.  What each shows, of the entries e that it reads.        *)
(***************************************************************************)
LaminatorActive(e) == IF e["speed"] > 0 THEN 1 ELSE 0
Shakes(e) == IF e["speed"] > Slow THEN 1 ELSE 0
LinePower(e) == e["speed"]
FillerRuns(e) == e["state"] = Running
SealerActive(e) == IF FillerRuns(e) THEN 1 ELSE 0
Throughput(e) == IF FillerRuns(e) THEN e["speed"] ELSE 0

Shown(f, e) ==
  CASE f = "laminator" -> LaminatorActive(e)
    [] f = "vibration" -> Shakes(e)
    [] f = "energy" -> LinePower(e)
    [] f = "sealer" -> SealerActive(e)
    [] f = "qc" -> Throughput(e)

\* The checkweigher weighs an item when its own timer says that one arrives.
Weigh(e) ==
  LET v == Throughput(e)
      arrives == v > 0 /\ Arrives(qcTimer, v)
  IN /\ qcTimer' = IF v > 0 THEN Advanced(qcTimer, v) ELSE 0
     /\ unweighed' = IF arrives THEN unweighed - 1 ELSE unweighed
     /\ qcWeight' = IF arrives THEN e["weight"] ELSE qcWeight

\* Mutant of FollowersTurn: a follower keeps to what it first showed.
FollowersStayed ==
  /\ turn = "followers"
  /\ turn' = "inject"
  /\ shows' = [f \in Followers[profile] |->
                 IF f \in due /\ shows[f] = 0 THEN Shown(f, store) ELSE shows[f]]
  /\ ought' = [f \in Followers[profile] |-> IF f \in due THEN Shown(f, made) ELSE ought[f]]
  /\ IF "qc" \in due THEN Weigh(store) ELSE UNCHANGED <<checkweigher, unweighed>>
  /\ age' = [g \in Group |-> IF g \in due THEN 0 ELSE age[g]]
  /\ UNCHANGED <<profile, filler, timer, entries, injection, due>>

FollowersTurn ==
  /\ turn = "followers"
  /\ turn' = "inject"
  /\ shows' = [f \in Followers[profile] |-> IF f \in due THEN Shown(f, store) ELSE shows[f]]
  /\ ought' = [f \in Followers[profile] |-> IF f \in due THEN Shown(f, made) ELSE ought[f]]
  /\ IF "qc" \in due THEN Weigh(store) ELSE UNCHANGED <<checkweigher, unweighed>>
  /\ age' = [g \in Group |-> IF g \in due THEN 0 ELSE age[g]]
  /\ UNCHANGED <<profile, filler, timer, entries, injection, due>>

-----------------------------------------------------------------------------
(***************************************************************************)
(* DataQualityInjector.tick: events begin and end on each signal, a        *)
(* disconnected one reads the sentinel, a stuck one what the store held    *)
(* when the event began.                                                   *)
(***************************************************************************)
Value == {0} \union Speeds \union Weights \union {Running}

\* A stuck event keeps what the disconnect injector, which runs first, left.
Kept(s) ==
  IF event[s] = "stuck" THEN {frozen[s]}
  ELSE {store[s]} \union (IF event[s] = "disconnect" THEN {Sentinel} ELSE {})

Injected(s) ==
  CASE event'[s] = "none" -> store[s]
    [] event'[s] = "disconnect" -> Sentinel
    [] event'[s] = "stuck" -> frozen'[s]

InjectTurn ==
  /\ turn = "inject"
  /\ turn' = "begin"
  /\ event' \in [Signals[profile] -> {"none", "disconnect", "stuck"}]
  /\ frozen' \in {f \in [Signals[profile] -> Value] :
                    \A s \in Signals[profile] :
                      f[s] \in (IF event'[s] = "stuck" THEN Kept(s) ELSE {Sentinel})}
  /\ store' = [s \in Signals[profile] |-> Injected(s)]
  /\ due' = {}
  /\ UNCHANGED <<profile, filler, timer, made, age, shows, ought, checkweigher, unweighed>>

FollowersNext ==
  \/ BeginTick
  \/ SourceTurn
  \/ FollowersTurn
  \/ InjectTurn

FollowersSpec == FollowersInit /\ [][FollowersNext]_followersVars

\* The loop of DataEngine.run goes on ticking.
FairFollowersSpec == FollowersSpec /\ WF_followersVars(FollowersNext)

-----------------------------------------------------------------------------
\* The variables keep their types.
FollowersTypeOK ==
  /\ profile \in {"packaging", "foodbev"}
  /\ filler \in {Off, Running}
  /\ made \in [Signals[profile] -> Nat] /\ store \in [Signals[profile] -> Nat]
  /\ frozen \in [Signals[profile] -> Nat]
  /\ {made["speed"], store["speed"], frozen["speed"]} \subseteq {0} \union Speeds
  /\ event \in [Signals[profile] -> {"none", "disconnect", "stuck"}]
  /\ age \in [Group -> Nat] /\ due \subseteq Group
  /\ turn \in {"begin", "source", "followers", "inject"}
  /\ timer \in Nat /\ qcTimer \in Nat /\ qcWeight \in Nat /\ unweighed \in Int

\* Every item the filler fills is weighed in the same tick, by the weight it
\* has: checkweigher and filler time the items independently, from a speed
\* that varies, and the injectors override all three entries between them;
\* but both have one interval, so they always run together.
WeighedOnce ==
  profile = "foodbev" /\ turn \in {"inject", "begin"} =>
    /\ unweighed = 0
    /\ qcTimer = timer
    /\ qcWeight = made["weight"]

\* When injections are over for good, every follower comes to show what the
\* source made when it ran, and goes on doing so: an injected value outlives
\* its event only until the source runs.
Recovers ==
  <>[](\A s \in Signals[profile] : event[s] = "none") => <>[](shows = ought)

=============================================================================
