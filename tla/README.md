# A TLA+ model of the Collatr factory simulator

The simulator (`src/src/factory_simulator`) produces the data of a factory: a
tick loop runs *scenarios* (a web break, a shift change, ...) and then the
*generators* of the equipment, writes the results to a *signal store*, lets
*data quality injectors* spoil some of them, and serves the store over Modbus,
OPC-UA and MQTT, while a *ground truth file* says what really happened. It is
single-threaded: the tick loop and the servers are tasks of one asyncio loop.
What is hard about it is not parallelism but the number of actors that write
the same state in an order that nobody chose: scenarios that overlap, start,
are preempted and end around each other; a state machine with timers of its own
under scenarios that force its state; injectors, generators, servers and clients
that all write one signal.

Paths below are relative to `src/src/factory_simulator`.

## 1. Inventory

| Component | State | Operations | Interacts with | What makes it correct |
|---|---|---|---|---|
| `engine/scenario_engine.py`, `scenarios/base.py` | list of scenarios, phase, elapsed time and duration of each | `add_scenario`, `tick`, `evaluate`, `complete`, `post_gen_tick` | calls the callbacks of the scenarios; writes the ground truth | scenarios of conflicting priority exclude each other, none is lost or starved, every one is logged |
| `engine/ground_truth.py` | open file, or none after an error | one `log_*` per kind of record | called by the engine, the scenarios, the injectors | a truthful prefix of what happened |
| `engine/data_engine.py` | last run of each generator | `tick`, `run`, `stop` | calls everything below in a fixed order | generators run at their interval, in order |
| `generators/press.py`, `models/state.py`, `models/ramp.py` | machine state and timer, previous state, speed ramp, target speed | `generate`, `force_state`, `start_ramp` | scenarios write all of it directly | speed agrees with state; production resumes |
| press scenarios (9 classes under `scenarios/`) | phase, saved copies of what they override | `_on_activate`, `_on_tick`, `_on_complete` | each other, through the press | overrides and indicators end with the scenario |
| `scenarios/bearing_wear.py`, `intermittent_fault.py`, `cold_start.py` | phase, spike times, saved copies | callbacks over days | each other, through generator models of the machine | what the ground truth calls a fault shows, and leaves nothing behind |
| `generators/coder.py`, `models/depletion.py`, `scenarios/coder_depletion.py`, `contextual_anomaly.py` | coder state, ink level, refill threshold, quality | `generate`; callbacks; injection after the generators | press state in the store; state changes preempt | the coder comes out of a cartridge replacement as configured; an anomaly contradicts the state it is beside |
| laminator, vibration, energy; filler, sealer, checkweigher | own timers and counters | `generate` | read press or filler through the store, which injectors override | a follower follows what its source made; every item is weighed |
| mixer, CIP skid, chiller, oven and their scenarios | mixer state and batch ID, CIP phase, compressor, door, room and zone temperatures | `generate`, callbacks | one timeline, preemption by state changes | phases in order, one ID per batch, the cold room is cooled |
| `store.py` | last value of each signal | `set`, `get` | everybody | - |
| `engine/data_quality.py` | active event and next start per signal | `tick` | overrides the store after the generators; ground truth | a disconnected sensor is flagged bad; normal values return |
| `protocols/opcua_server.py` | node values, last written setpoints, drop flag | update loop: freeze, write-back, push | store, clients | a client's write reaches the store, the server's own do not |
| `protocols/modbus_server.py`, `topology.py` | registers, last synced values, scan boundaries | update loop: write-back, scan, sync; requests | store, clients | one scan per read, no echo, registers show the store |
| `protocols/comm_drop.py` | next drop, end of drop | `update`, `is_active` | the three protocol loops | drops of the configured length with gaps between |
| `protocols/mqtt_publisher.py` | topic schedule, last values, broker connection, client queue | `start` with retry, publish loop, `stop` | store, broker | what changed reaches subscribers; what is spoilt is on its topic in time, as it was written |
| `cli.py`, `health/server.py` | running servers and tasks, health fields | start in order, run, stop in reverse; batch loop | all servers | no server left running; health says what is true |
| `output/writer.py` | row buffer, last values, Parquet schema | `write_tick`, `_flush`, `close` | called at the end of a tick | no row lost or written twice; the file can be read |
| `evaluation/` | - (pure) | load records, pair, match, count | reads the ground truth file | every event found once, every alarm counted once |
| other `models/` | scalar state | `generate` | generators | counters at their limits |
| `config.py`, `clock.py`, `time_utils.py` | - | validation, conversion | start-up | - |

`PROJECT.json` lists the same components with their status, and under `hazards`
what in this code is hard to test, each at its line, with the properties that
cover it or the reason why none does.

## 2. Modules

    ScenarioLifecycle            what the engine promises (abstract)
          ^ implements
    ScenarioEngine               the tick of the engine           ScenarioEngineProofs
          ^ extends
          |-- Evaluation         the reader of its log            ScenarioEngineProofs
          |-- PressLine          states and speed of the press    PressLineProofs
          |-- PressOverrides     parameters of the press          OverridesProofs
          `-- FoodLine           batches, CIP, cold room, oven    FoodProofs
    Degradation                  wear, intermittent faults, cold starts   \
    Followers                    generators behind a source               / EquipmentProofs
    SignalPath                   one setpoint, two servers                \
    Publishing                   MQTT publish loop, drops, queue          / DeliveryProofs
    ModbusEndpoint               register map, units, scans               \
    ServerLifecycle              start and shutdown                       / ServerProofs
    CoderLine                    coder, cartridge, anomaly                \
    BatchLog                     what a batch run promises (abstract)     | OutputProofs
          ^ implements                                                    |
    BatchRun                     batch loop, counter, writers             /

The modules `MC*` only give values to constants that a configuration file
cannot express. A proof module holds the theorems of one or two modules; where it
is two, neither reaches the state of the other, but for Evaluation, which extends the
engine.

**ScenarioEngine** is one call of `ScenarioEngine.tick` after another. The call
does not yield to the event loop, but it is long and its order matters, so the
model keeps its loops: `Arbitrate` is the priority pass (which scenario is let
through, which are deferred, which are to be preempted), `Preempt` one call of
`complete()` on a preempted scenario with its record, `Activate`, `Continue`,
`RunOut` and the others one call of `evaluate()` with the records the tick derives
from the phase change (a scenario of a class in `Watching` may let ticks go by
without coming nearer to its end: a splice that waits for the press), and `FinishTick` the return. `pc`, `cursor`, `due`,
`scActive`, `skip` and `victims` are the locals of the call. `_poisson_starts` is
represented by every timeline it can draw: sorted, with instances of a class at
least the minimum duration apart. `add_scenario` puts a scenario anywhere in time
at the end of the list. A scenario of duration 0 is one whose equipment the
profile lacks: it completes in the call that activates it. `LoseLog` is the
failure of a write.

**ScenarioLifecycle** is the view of everybody downstream: pending, active,
completed, one record per change while the file can be written, and no
disturbance beside a change of state. `ScenarioEngine` implements it with the
identity mapping on `class`, `phase`, `log` and `logging`; the point of the
refinement is that arbitration, which looks only at the beginning of a tick,
still guarantees the exclusion at every single step of the loop.

**Evaluation** extends the engine with the time of each record (`stamp`) and
reads the log as `evaluator.py` does: `load_ground_truth` pairs starts with ends
by class, first in first out, `AssignedTo` gives an alarm to the nearest event,
`Score`, `PerScenario` and `AnomalyTime` count. Its loops are recursive functions
(`Reading`, `MergedIntervals`), and what it sorts is the sequence in order
(`InOrder`), so that they can be proved about. The reference is `TrueEvents`, what
a reader who knew the instances would make of the file. Ticks that write nothing
are not counted in stamps, so margins and distances are in ticks that write;
whether two records share a time, and in which order they come, is kept.

**PressLine** extends the engine with the press. Each step of the engine is
joined with its effect (`_on_activate`, `_on_tick`, `_on_complete` of the seven
classes that force states, ramps or the speed), and after each engine tick
`Generate` runs the state machine, the cascade and the ramp. Times are steps of
unequal length: what the model keeps is the order of a timer against the phases
of a scenario. A step is longer than the interval of the press generator (500 ms,
that of its fastest signal, against ticks of 100 ms): what several ticks bring
about between two of its runs, a preemption, a failure and a start, say, is in the
model what one engine tick brings about before the next run. Speeds are levels: 0,
the dip of a micro-stop, and the target speeds. A splice watches its reel, which
runs low a number of ticks after its start, and then acts in the first tick that
finds the press Running (`ReelWaits`, `Splice`). Bearings may fail when the wear
ends, in whatever state the press is (`Fail`). The engine is composed
without its log and without `add_scenario`, which this composition says nothing
new about; one handover and one splice at most are on a timeline (`OneHandover`,
`OneReel`), since theirs are hours apart, and wear is scheduled once
(`OneBearing`). Two histories tell the properties what they except: `failed`, that
a failed bearing has put the press into its Fault, and `astray`, that the ramp was
last started by a micro-stop or a splice, which by then look at no state, or went
on when a bearing failed.

**PressOverrides** extends the engine with five parameters that scenarios
override on the press: waste rate, web tension, ink viscosity, drift and
reversion rate of the registration error. A value is the set of scenarios whose
factor it contains, so that "restored" is a statement about a set and not about
floating-point numbers. Every callback that saves, sets or writes back is there,
for overlaps of any kind and in any order; a splice watches for as long as the
press is not Running. Two histories follow the copies: `order`, who else held a
copy of a parameter when a scenario made its own, and `crossed`, the parameters
that a scenario has written, or written back, without holding the latest copy of
them.

**FoodLine** extends the engine with mixer, CIP skid, cold room, the overridden
parameters of filler and sealer, and one oven zone. A batch forces the mixer
through its stages; the mixer's generator compares states between its runs and
gives a batch ID `<<day, sequence>>`, the sequence beginning anew after each of
`Midnights`. As in the data engine, the generators run in the ticks in which their
common interval has passed (`RunGenerators`) and rest in the others
(`SkipGenerators`), while scenarios act in any tick: `noticed` remembers the batches
whose loading a run of the mixer has found. The interval is one, that of the
fastest signal of mixer, skid, chiller and oven in the shipped configuration; that
the floating-point clock may put a run off by a tick is left to Followers. A CIP
cycle ends when the skid is back to Idle, or times out (`EndEarly`, `RunOut`). The compressor is a bang-bang control with a lock, a door
and defrost cycles. `overlapped` remembers classes of which two instances were
active at once, which the code does not keep apart (a finding).

**Degradation** has its own, simpler engine: background scenarios are evaluated
one after the other and never wait, except that a cold start can be preempted.
All alter the same generator models from copies of their own; which scenario has
contributed to a parameter is what the model keeps. `Inject` is `post_gen_tick`
with the sentinel of a sensor fault, which stays in the store until the signal's
generator is due (`fresh`).

**CoderLine** composes the coder with cartridge replacements and a contextual
anomaly. A tick is: perhaps a state change begins and preempts, each scenario is
evaluated, the press and the coder run if they are due, the anomaly injects. The
press moves as it likes among the states `PressLine` shows it to take.

**Followers** has the generators that read another generator's values in the
store: every generator whose interval has passed runs, the source first, then
injectors override entries for any length of time. `Due` lets a generator run
one tick late, as the floating-point clock does, consistently for generators of
one interval that last ran together. `ought` is what a follower would have shown
of what its source made.

**SignalPath** is one writable setpoint on its way through generator, disconnect
injector, stuck injector, OPC-UA server, Modbus server and back from their
clients. An engine tick and a Modbus sync await nothing and are one step each;
a pass of the OPC-UA loop awaits every node access, so `Detect` (phase 1) and
`Push` (phase 2) are steps between which anything may happen. Every `await` is
taken as a point where other tasks may run. Writing an in-process node is taken
not to fail. The Modbus server is the one of the collapsed mode (no scan
cycles); a sync that is left out (drop, duplicate) is a step not taken.

**ModbusEndpoint** is one endpoint of the Modbus server in full: the register map
that `build_register_map` derives, the units behind which `topology.py` places the
device contexts, the update with write-back, scan cycle and jitter, drops and
duplicates (`Skip`), encodings with the width of a word (`Encode`, `Decode`,
`Clip`), and the replies to a request, with the injected exceptions 4 and 6 and
truncated responses. Coils and discrete inputs are written at every update; they do
not wait for a scan, as in the code.

**Publishing** is the publish loop: the topic map, the batch message of three
axes, drops by `CommDropScheduler` (`Wake` has its boundaries: late passes, drops of
length 0, gaps that end within a drop), the client's bounded queue and the broker
with its retained messages. Within a pass the loop awaits nothing, but paho's
network thread may deliver, acknowledge and lose the connection between any two
publications.

**ServerLifecycle** is the real-time mode of `cli.py`: the main task starts the
servers one after the other (`Settled`, `StartFailed`), runs the engine, and in its
finally block stops them in reverse order (`BeginStop`, `Close`, `Halt`,
`Farewell`). `main` says what it awaits; only then do other tasks run. A `start()`
is a task with a life of its own: a publisher retries its broker
(`FailToConnect`), an OPC-UA server builds its nodes (`BeginOpcua`,
`FinishOpcua`), a Modbus server has its socket bound by a task that may die
(`Die`). A SIGTERM cancels whatever the main task awaits, and each await has its
own way of taking it (`EndRun`, `Interrupt...`). SIGINT has the same effect under
asyncio and is not an action of its own. The only fact about time in the module is
that a retry comes later than the look at its task (1 s against 50 ms). The health server
is started before the signal handler is installed; of it the fields are kept.

**BatchRun** is batch mode: the loop of `_run_batch`, the tick with a coil that only
scenarios write (`press.web_break`, `press.fault_active`), a generator that is due
every few ticks and keeps a counter and a text, the disconnect injector, and either
writer with its buffer, flushes, and the final flush of `close()`. A signal that
nobody has written is absent from the store, so a column may appear in the middle of
a run, and a disconnected text may become a number: the Parquet schema, that of the
first flush, must then fail. A flush may also fail for reasons outside the program,
the loop may be interrupted at its await and the process killed between any two
steps. `readable` is whether a reader can open the file. The module implements
**BatchLog**: one entry per tick, a reader gets a prefix that never shrinks, a run
that ends well has kept everything. The mapping takes `truth`, the stores at the ends
of the ticks, for the log, the ticks whose rows are all in a readable file for what
is kept, and a flush that raised, for whatever reason, for the log's fault.

### Correspondence with the code

`map` in `PROJECT.json` gives the lines of every definition. The main ones:

| Code | Model |
|---|---|
| `ScenarioEngine.tick` 177-235 | `Arbitrate` with `DueAt`, `Blocked`, `Deferred`, `PreemptedBy`; `Preempt` |
| `ScenarioEngine.tick` 237-276, `Scenario.evaluate` | `PassOver`, `Activate`, `ActivateAndComplete`, `Continue`, `RunOut` |
| `_write_line` | `Written`, `LoseLog` |
| `StateMachineModel` | `EnterState`, `Drawn`, `Transit` |
| `_handle_state_transition` | `Cascade`; its setpoint update (659-675) is data |
| callbacks of a scenario | `Start...`, `Resume`, `PartWeb`, `EndDip`, ..., `End...` |
| `DataQualityInjector.tick` | `Tick` with `Disconnected`, `Held` (SignalPath); `InjectTurn` (Followers) |
| `_freeze_all_nodes`, `_sync_values` | `Freeze`, `Detect`, `Push` |
| `_sync_holding_registers` | `Sync` with `Taken` (SignalPath), `SyncHoldingRegisters` with `Changed` (ModbusEndpoint) |
| `FactoryDeviceContext.getValues` | `Replies` with `Exceptions`, `Truncated`, `Injected` |
| `build_topic_map`, `build_batch_vibration_entry` | `Entries`, `HasBatch`, `CompleteBases` |
| `CommDropScheduler.update` | `Wake` |
| `MqttPublisher._publish_loop` | `Wake`, `PublishBatch`, `PublishEntry`, `PassBy` |
| `_start_server`, `_run_realtime` 467-497 | `Settled`, `StartFailed` |
| `_run_realtime` 501-512, `stop()` of the servers | `Unwind`, `BeginStop`, `LoopClosed`, `Halt`, `HaltRaises`, `CancelStarts` |
| `_run_batch`, `CsvWriter`, `ParquetWriter` | `Tick`, `Await`, `Close`; `FlushWorks`, `FlushFails`, `FinalFlush` |
| `CounterModel.generate` | `Wrapped`, `RolloverLogged` and the reset in the generator's run |
| `StringGeneratorModel` | `Today`, `NextSequence` |
| `DataEngine.tick` 423-441 | `RunGenerators`, `SkipGenerators` (FoodLine), `Due` (Followers), `Runs` (BatchRun) |
| saving and writing back of press parameters | `SaveAndSet`, `Reset`, `WriteBack` (PressOverrides) |
| `load_ground_truth`, `match_events` | `load_ground_truth`, `AssignedTo`, `Detected` |

## 3. Runs

Twelve runs, one per question. All pass; none replaces a definition of a module.

**ScenarioEngine** (`TypeOK`, `Exclusion`, `OneStateChangePerTick`, `LogFaithful`,
`ImplementsLifecycle`, `EveryScenarioCompletes`, `EvaluationTrue`). Three scenarios
of four classes, two of them state-changing (instances of one class start at least
a duration apart), one non-state-changing and one micro (a background one is
treated alike); start times 1 and 2, durations 0 or 3 ticks, at most one added by
hand, at any later time. Three is what the interesting situations need: two due in
one tick beside a third that is active; a deferral that outlasts a second deferral;
a preemption in the tick of another start. `EvaluationTrue` reads the file at every
end of a tick, so with every event open or closed, overlapping, of one class or
several, cut short, and with the file lost at any record. 757 454 states.

**PressLine** (`IndicatorsCleared`, `HandoverIsIdle`, `StoppedUnlessRunning`,
`SpeedFollowsTarget`, `BreakRestarts`). Any two scenarios of the seven classes, with
timers shorter and longer than their phases. Every property relates the effects of
a pair; a third scenario adds states but no new kind of overlap. 443 779 states.

**PressOverrides** (`OverridesEnd`, `DriftShows`). Three scenarios of seven
classes in every overlap that the scheduler produces, durations of 4 and 5 ticks so
that every phase of a splice has its tick. Three are what it takes for a copy to lie
between two others, for a bias to be applied in the middle of an override, and for
the first of two to be cut short by a third. Nothing is assumed of the overlaps; the
two properties except a parameter from the step in which it is *crossed*, and each of
the ways in which TLC finds them violated without that exception is a finding:

- two scenarios that save (drift, ink excursion, registration drift, splice) overlap
  and end in the order in which they began, two instances of one class included;
- two changeovers, or two web breaks, start at least the shortest duration apart,
  which leaves out their ramps; once one is deferred they overlap in any case;
- a splice that a state change cuts short while it watches writes back what it has
  never saved.

5 371 150 states.

**FoodLine** (`MixerFollowsPlan`, `OneIdPerBatch`, `OverriddenWhileActive`,
`ColdRoomFollows`). Three scenarios of seven classes that act in every tick, and
generators that run in every second, so that a batch may be cut short before the
mixer has seen it, and a CIP cycle may follow it at once or a run later; a CIP cycle
that the skid outlasts and one that it does not, a refrigeration failure longer than the gap of
its class, a defrost cycle within a failure, two midnights, of which one falls into
most batches. 6 004 771 states.

**Degradation** (`DegradationShows`). A bearing fault, a transient sensor fault,
wear and a cold start in every order of their start times, all phases and spikes at
any time, and a press that stands and starts as it likes. The four share the three
parameters they save; two more subtypes would add parameters, not overlaps.
6 372 173 states.

**CoderLine** (`CartridgeKept`, `InjectionTruthful`). Two cartridge scenarios and
an anomaly of each kind, preempted at any tick; ink from full to dry in four levels,
so that low, refill and fault are told apart. The press starts Idle or Off and
moves between four states, as it does in the program. 553 631 states.

**Followers** (`WeighedOnce`, `Recovers`). Both factories with the intervals of
the shipped configurations, two speeds, two weights, injections of any length.
361 349 states.

**SignalPath** (`NoEcho`, `SentinelIsBad`, `Settles`). Two requested values, a
generator interval of two ticks, drops configured, two injector events of one or
two ticks and two client writes, after which both stay away: an event during an
event, a write during a drop, a write to each server. 293 654 states.

**ModbusEndpoint** (`OneScan`, `NoEcho`, `Converges`). The oven gateway: it has a
state signal with a coil and a discrete input, a writable setpoint with swapped
words that a secondary slave serves too; a signal of other equipment must stay
out. A word has four values and signals go up to 9, so that two-word types are
split and one state is clipped. With its jitter the scan cycle is as long as a
generator's interval, or longer.
3 849 states.

**Publishing** (`LastIsKept`, `ShownInTime`, `TopicsSettle`). An event-driven topic,
a timed one and a vibration batch whose axes have different intervals; sentinels of bad
quality, as the disconnect injector writes them, and of good quality, as an
intermittent fault does (a finding); a queue of
two messages, which one pass can fill; drops of one pass with no gap or a gap of
three, passes up to two ticks late. 212 498 states.

**ServerLifecycle** (`CalmShutdown`, `NobodyJoins`, `ShutdownCompletes`,
`StartsEnd`). One Modbus server, one OPC-UA server and two publishers with four
attempts each, two SIGTERMs: enough for a start that outlasts the start of the next
server, for a second signal during the shutdown that the first began, and for a stop
that raises before others. `CalmShutdown` and `NobodyJoins` name their exceptions,
which the code does not cover: a second signal while `stop()` awaits the server
itself, and an error that is not of the connection. 51 943 states.
`CHECK_DEADLOCK` is off, since the process ends.

**BatchRun** (`RowsFaithful`, `RolloversExplain`, `WellUnlessFault`,
`ImplementsLog`). Four ticks, a generator that is due in every second one, a buffer of
two rows, so that flushes come at, between and after the ends of ticks; a counter that
wraps and is reset; a coil that may appear in any tick, before or after the first
flush; and a text that may be disconnected, to a number. A Parquet run may therefore
raise in the middle with nothing wrong outside the program. `WellUnlessFault` says that
this happens for the two reasons only that its exceptions name (`AppearsLate`,
`ChangesType`, both findings), `RowsFaithful` and `ImplementsLog` what is kept all the
same. 208 070 states. `CHECK_DEADLOCK` is off, since the run ends.

### Disagreements

`findings` in `PROJECT.json` lists where the code does otherwise than a comment, a
test or the requirements (`src/prd`) say, with the quoted line. They were met while
modelling, and where one concerns a property, the property names the exception or
the constants keep it out:

- unplanned stops leave the press Idle for good (`BreakRestarts` speaks of web
  breaks), the state machine's timers leave a forced state early, and a micro-stop
  or a splice may set a standing line in motion (`StoppedUnlessRunning` excepts
  the line from then to the next state change that finds it moving);
- a bearing failure forces the press into Fault at any time, a handover included, and
  without slowing it down (`HandoverIsIdle` and `StoppedUnlessRunning` name it);
- overlapping overrides restore stale copies (`crossed` in PressOverrides, `clean` in
  Degradation, `overlapped` in FoodLine and CoderLine), since instances of one class
  are kept apart by their shortest duration only;
- a batch that a state change cuts short before the mixer's next run gets no batch ID
  (`OneIdPerBatch` excepts batches that end within an interval);
- an OPC-UA node frozen in a drop is later taken for a client's write (`NoEcho` of
  SignalPath excepts it), and a generator overwrites a client's setpoint
  (`Settles` speaks of the end);
- a publisher stopped between two attempts connects afterwards (`NobodyJoins`
  speaks of the time after the last stop);
- a full client queue refuses the newest message, and nothing is published during a
  drop (`refused`, and `TopicsSettle` of Publishing);
- an intermittent fault writes its sentinel with good quality (`MCReadings`);
- a coil that first appears after the first flush, or a sensor disconnect on a text
  signal, ends a Parquet run (`AppearsLate`, `ChangesType`);
- two events that begin in one tick are equally near to every alarm, and the
  evaluator gives all of them to the first (`EvaluationTrue` counts times).

### Bounds

`N` scenarios, `Horizon` (the last start time, after which the clock stops
counting: nothing depends on it any more), `MaxAdded`; `MaxDuration` and the sets of
timer values; `MaxEvents` and `MaxWrites` on the signal path; `MaxSignals` SIGTERMs;
`K` cartridge scenarios and `MaxWait` ticks of an anomaly; `RoomMax` and `MaxDrift`,
above which temperatures are not told apart; `MaxInterval`, beyond which the age of
a generator stops counting; `MaxLag` of the store behind the scan; `MaxLate` of a
pass. `CHECK_DEADLOCK` is on but for ServerLifecycle and BatchRun: no other model
may stop.

### Fairness

- `EvaluationSpec`, `FairPressSpec`: weak fairness of the tick. `run()` calls
  `tick()` for ever, and `tick()` is a terminating loop. Nothing is assumed of
  `add_scenario` or of the file. A drawn timer runs down with the ticks.
- `FairFollowersSpec`: weak fairness of the same loop; injections may last for
  ever, so `Recovers` supposes that they do not.
- `FairSpec` of SignalPath: weak fairness of the engine tick, of the steps of an
  OPC-UA pass and of the Modbus sync, which are endless loops; strong fairness of
  `BeginSync`: drops are intervals with exponential gaps, so a loop that wakes
  for ever does not meet a drop every time. Clients and injectors owe nothing.
- `FairEndpointSpec`: weak fairness of the engine, in the sense that
  simulated time goes on, and of the update that synchronises: a drop ends, and a
  duplicate is drawn with a small probability.
- `FairPublishingSpec`: weak fairness of the loop, of paho's thread and of its
  reconnecting; strong fairness of a drop followed by a gap longer than a pass can be
  late, which exponential gaps give among endlessly many.
- `FairSpec` of ServerLifecycle: weak fairness of the main task and of each start task,
  which the event loop schedules, and whose awaits (a sleep, a connection attempt,
  the shutdown of a server) come to an end. Nothing is assumed of signals, of the
  engine or of a server's death.

`EveryScenarioCompletes` speaks of scenarios with a drawn duration. A
`MaterialSplice` monitors until the reel runs low, for which the model's duration
stands; that the reel does run low is a matter of the unwind generator. In PressLine
and PressOverrides it also waits for the press to be Running (`Watching`), which is
why nothing is said there of its end.

## 4. Proofs

The eight proof modules are checked by TLAPS, for every value of the constants
that satisfies the assumptions in the modules. Those are about types,
non-emptiness and the order of levels, and four of them say something of the code:

- `PressAssumption`: the three priorities as the classes have them; a stop, break
  or changeover lasts at least three steps, one for each phase.
- `FoodAssumption`: the priorities again; a scenario lasts longer than the interval of
  the generators (minutes against a second), so does the first stage of a batch, and
  the stages together no longer than the batch.
- `OverridesAssumption`: the priorities; at least four ticks, so that every phase of
  a splice has one (durations of these classes are minutes, a tick 0.1 s).
- `EndpointAssumption`, `PublishingAssumption`: the fields of a configuration entry,
  as the Pydantic models of `config.py` type them.

Four theorems assume more, and say so in their statements; what they assume is
satisfied by the instances that TLC checks:

| Theorem | Assumes | Why, in the code |
|---|---|---|
| `RowsHold` | `NumbersOnChange` | a NaN leaves no CSV row, so a reader of an event-driven signal would keep the value before |
| `WeighingHolds` | `Interval["qc"] = Interval["filler"]` | the shipped configuration |
| `EchoHolds`, `ScanHolds` | `CellsApart` of the blocks | a register belongs to one signal; nothing in `build_register_map` checks it |
| `ScanHolds` | `Reachable` | the first conjunct of `OneScan`, on units, is about constants only |

**ScenarioEngineProofs.** `TypeCorrect` first. `Exclusion` is not inductive: in
the middle of a tick its truth depends on what the priority pass decided. The
invariant `IInv` therefore adds what the locals promise from the priority pass to
the end of the tick (`ArbitrationInv`): `scActive` covers every state change that
is active or let through; while it holds no disturbance is admitted (pending, due
and not skipped); and once a state change is let through, every active
disturbance is a victim still to be preempted. `VictimsInv` and `UnlistedInv` say
what the victims and the scenarios not yet added are. From it follow
`ExclusionHolds` and, by `AdmittedMayRun` (an admitted scenario finds nothing it
conflicts with), `Refinement`: `Init` maps to `Init`, `Activate` to `Start`,
`ActivateAndComplete` to `Flash`, `RunOut` and `Preempt` to `Finish`, all else to
stuttering. `LogFaithfulHolds` is an invariant of the abstract log carried over the
same case split. `OneStateChangeHolds` and `WaitsHolds` need to know how far the
evaluate loop has come: `ProgressInv` says that of the due scenarios exactly those
before the cursor have started, but for the deferred. That a set of due scenarios
has a first one (`HasFirst`) follows from `HasLeast`, shown from finiteness: otherwise
going one down would map the numbers from those of the set upwards one to one onto
themselves, and nothing is mapped to the last of them.
`CutShortHolds` is inductive with `VictimsInv`.

`EvaluationHolds` (same module) is about what recursion computes, and the library's
induction theorems cannot be used here. `UpTo` takes their place: a set of numbers
up to `n` that holds 0 and is closed under the next one is `0..n`, by `HasLeast`. With
it each recursive function is shown to exist (`ReadingStep`, `MergedStep`, `SumStep`)
and then to keep an invariant. `ReaderInv` is that of the reader: each start read so
far waits in the queue of its class or has made one event, never both, and if instances
of a class end in their order no end went to the wrong start; for this the file must be
faithful (`LogFaithfulHolds`), since an end without a start, or a second one, would
shift all pairs of the class (`RightEnd`). `Pairing` says of the events what
`PairingHolds` proves of them: which two records each was made of. The scores follow:
an alarm at the start of an event belongs to the first event that starts there
(`AlarmAtStart`), so alarms and found events are in one-to-one correspondence
(`AllStarts`, `SomeStarts`). `AnomalyTimeCounts`: merging in the order of starts keeps
the intervals apart and their times those of the events (`MergeAdds`, `MergedFacts`), and
lengths of intervals that are apart add up (`SumCounts`). That the file is readable at
every step is `LogFaithfulHolds`, carried over by `EvaluationRunsEngine`, and
`StampIInv`: stamps never go back.

**PressLineProofs.** `PressRunsTheEngine` shows that every step of the
composition is a step or a stutter of the engine, so that the engine's theorems
hold of it. `IndicatorsHold` needs no more; `HandoverHolds` also needs that nothing
but a failing bearing moves the press while a handover lasts: by the exclusion no
state change is active beside it (`StateChangeAlone`), a run has one handover at most
(`OneShift`), no timer leads out of Idle, and that of Fault leads to it. `PressTypeCorrect` needs that what a changeover has
saved is a target speed (`ChangeoversDraw`). `StandstillHolds`: unless the line is
astray, a ramp that does not lead to 0 was begun by a press that ran, a line that
stands has a ramp to 0 (`Straight`), and between two ticks the generator has seen the
state that it is in (`Observed`); each state change that finds the line moving makes
this true again whatever a micro-stop, a splice or a failure has done before. `SpeedFollowsHolds` is the longest: `HeadingInv` lists
where a running press may be heading instead of its target - the speed a
micro-stop has saved, the dip, the splice or the break in progress, a state change
that is due but not yet evaluated (`Halting`) or has just forced Fault (`Halted`) -
and each step either keeps the reason or ends it together with the ramp. `HandoverSeen`
and `StateSeen` say what the generator has noticed of all this.

**FoodProofs.** A CIP cycle may end before its duration has run out, which no
engine does; so FoodLine does not implement the engine, and `IInv` is shown to hold
again (`EngineInvKept`, from which `FoodExclusion`). `StepKinds` then says once what a
step can be for the line - a scenario begins, continues or ends, the generators run,
or nothing - and each invariant is carried over these kinds. `OverridesHold` from
`KnobInv` (a knob is overridden by exactly the active scenario of its class, whose
copy is clean) and `ZoneInv`; `ColdRoomHolds` from `RoomInv`. `MixerPlanHolds` needs
`MixerInv`, that a CIP cycle excludes a batch (`CipAlone`, by the exclusion), and that what is
left of a batch is enough for the stages to come (`StageInv`), or it would end with
the mixer in the middle of a stage. `BatchIdsHold` has to know what the mixer can miss
between two of its runs. `Waited` is the ticks since the last run, the current one
included for who has had its turn. `UnnoticedInv`: an active batch that is not noticed
is loading and no older than that, and the mixer did not last see another one loading;
for a batch that it saw loading and that was cut short since was cut short by a state
change that is let through in this tick or has begun since (`LoadingInv`), and which
outlasts the next run, so that no batch begins before the mixer has seen the state
it left. `NoticedInv` is the same for a batch that went on to its next stage,
`RinseInv` keeps a CIP cycle from ending before the skid has moved, and
`LostInv` bounds the age of those that were never noticed. `IdInv` counts: as many IDs
as noticed batches, all of them on or before the day of the last reset and up to its
sequence number, so that the next one is new.

**OverridesProofs.** `OverridesRunTheEngine` as for the press. Nothing is needed of
the engine but its types: the argument is that of a stack of copies, of one parameter
at a time (`StackInv`). Its holders are active and at a point of their lives where
the copy is still to be written back (`Held`), who shows in the parameter holds a copy
(`Covers`), of any two holders one came later (`Lined`); the copy at the bottom has
nothing but biases of completed shifts in it, and each of the others has whoever shows
and was there before it (`Stacked`); and the parameter itself has what the next copy
would have to have (`Settled`). The last two are about parameters that are not crossed. A
callback does one of five things to a parameter and its copies (`Effect`): save and
set, write back, set again, apply a bias, or leave both alone. Writing back without
crossing means popping the top of the stack, which is all that keeps `Settled`.
`OverridesEndHolds` is the empty stack, `DriftShowsHolds` are `Covers` and `Settled`.

**EquipmentProofs.** `FollowersTyped`, and `WeighingHolds` from `WeighInv`, which keeps
filler and checkweigher due together and, between the turns of the two, the filler's
timer one step ahead. `DegradationShowsHolds` has no hypothesis: every callback is one
of three effects on the machine (`Leaves`, `Adds`, `Restored`), which keep that
a parameter shows those who alter it and whom nobody has overwritten (`ParamsShow`)
and that a copy is that of a healthy machine while no two have overlapped
(`CopiesClean`); `SensorInv` follows the sentinel from the injection to the next run
of the generator.

**DeliveryProofs.** Of SignalPath: `PathTypeCorrect`; `NoEchoHolds` and
`SentinelIsBadHolds` from `SafeInv`, the two together with the provenance of what is
marked as asked for (it is a value that clients write) and of an Uncertain node (a
drop has begun): a server carries a sentinel back to the store only by taking it for
a client's write, which `NoEcho` excludes. Of Publishing: `PublishingTyped`
bounds every age by its interval and the queue by its limit. `LastKept` from `KeptInv`:
the last queued message of a topic carries the value that the publisher remembers;
if none is queued the broker has it; and the broker has the last of the messages
handed over on this connection, which a loss of the connection hands over again, in
order. That a queue has a last message of a topic is shown as `HasFirst` was
(`HasGreatest`). `ShownInTimeHolds` from `ShownInv`: an entry whose topic is out of date
has waited at least as long as nothing was in the way (`calm`), and once a pass is past
it for less than its interval, since the pass publishes whatever is due.

**ServerProofs.** Of ServerLifecycle, for any number of servers, attempts and signals:
`LifecycleTyped` needs `StartInv` (servers start in order; a start without attempts
left is over); `CalmHolds` and `NobodyJoinsHolds` follow from `CalmInv`: a calm
shutdown has stopped every server behind the cursor and all at its end, and from the
farewell on no start of the list is pending. Of ModbusEndpoint, for every register
map: `RegistersTyped`; `EchoHolds` from `EchoInv` (where a writable entry differs from
what was last put there, a client has written since); `ScanHolds` from `ScanInv`: every
cell but those written by a client holds the words of the last scan, which the scan
cycle holds back and which nothing has left since (`CycleInv`), and a reply is made of
such cells whichever unit, kind of register and truncation it has.

**OutputProofs.** Of BatchRun: `BatchTyped`; `RolloversHold` from the arithmetic of one
tick (an increment never exceeds the rollover value). `LogImplemented` from `LogInv`: a
run that goes on or ends well has met no fault, and an empty buffer means every tick
is in the file; each step of a batch run is then a step or a stutter of `BatchLog`
(`LogStep`), one that raises its fault. `WellHolds` from `WellInv`: the buffered rows are
those of the ticks that are not in the file, the schema is that of rows up to some tick
not before `BufferSize` (`ColumnsInv`), and what the store has it keeps (`Grows`); so a
flush that does not fit finds a signal that the schema has no column for, or one whose
type has changed. `RowsHold`:
what a reader makes of rows does not depend on their order (`RowSet`, `Newest`), so
`RowsInv` can speak of the rows in the file and those in the buffer alike; `LastInv`
ties the value that the writer remembers to the last tick, and `FlagsInv` a flag to
the tick before. Of CoderLine: `CoderTyped`; `InjectionHolds` from `TruthInv` (what
injects has its record, what waits has left nothing); `CartridgeHolds` from
`CartridgeInv`: without an overlap at most one cartridge scenario is active, it holds
the configured threshold, and when it still monitors an empty cartridge its turn
comes before the coder prints again.

Only model-checked: every property with liveness (`EveryScenarioCompletes`,
`BreakRestarts`, `Settles`, `TopicsSettle`, `Converges`, `Recovers`,
`ShutdownCompletes`, `StartsEnd`), which is out of the prover's reach.
Every other property of a run is stated by a theorem.

## 5. Not modelled

- The data: noise, correlations, thermal models, waveforms and the text of payloads
  and time stamps. Generators that only compute values (slitter, environment) keep
  no state that another part relies on.
- Configuration: `config.py` validates a YAML file at start-up, each section by
  itself; it has no state and no order.
- `evaluation/cli.py` and `scripts/`: files read, reports written; the simulated
  random detector is a random number generator.
- Building the OPC-UA node tree, which is one step of a start, and the text of
  /health.
- Of the ground truth file: state change and signal anomaly records that single
  scenarios write, but for rollovers (BatchRun) and contextual anomalies
  (CoderLine). Four other kinds of record exist and are never written (a finding).

## 6. Plan

1. The bounds that `EndpointTypeOK` and `FoodTypeOK` state beyond the types that the
   proofs need: words below the width, sequence numbers and identifiers below the
   number of scenarios.
2. `CellsApart` from the register map itself, instead of as a hypothesis.
3. The state change records of the ground truth file against the press.
