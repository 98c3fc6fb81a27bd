--------------------------- MODULE ModbusEndpoint ---------------------------
(***************************************************************************)
(* One Modbus endpoint: the register map that build_register_map derives   *)
(* from the configuration, the units behind which the topology places its  *)
(* device contexts, the update loop with drops, duplicates and the scan    *)
(* cycle, and the requests of clients.                                     *)
(*                                                                         *)
(* A register holds a word, 0..Word-1; values are integers and keep the    *)
(* width of their type.  An update awaits nothing and is one step.  Time   *)
(* is simulated time, kept relative: lead is how far the next scan         *)
(* boundary is ahead of the newest entry of the store.                     *)
(***************************************************************************)
EXTENDS Integers, Sequences, FiniteSets

CONSTANTS Config,       \* sequence of the configured signals
          Mode,         \* network.mode
          Profile,      \* "packaging" or "food_bev"
          Controller,   \* controller_name of the endpoint
          CycleOf,      \* actual scan cycles by controller type
          Gaps,         \* simulated time from one generator run to the next
          Window,       \* _transition_window_s, in updates
          Word,         \* 2^16
          Values,       \* what generators and injectors write
          Requested,    \* what clients write
          MaxLag        \* lags beyond this are not told apart (bound)

Absent == -1

\* Addresses and unit ids; Absent where the configuration has none.
Address == Nat \union {Absent}

Signals == {Config[i].signal : i \in 1..Len(Config)}

ASSUME EndpointAssumption ==
  /\ \A i \in 1..Len(Config) :
       Config[i] \in [signal : STRING, equipment : STRING, enabled : BOOLEAN,
                      hr : Address, type : {"float32", "uint32", "uint16"},
                      order : {"ABCD", "CDAB"}, writable : BOOLEAN,
                      ir : Address, irWords : {1, 2},
                      slave : Address, slaveIr : Address,
                      coil : Address, coilValue : Int,
                      di : Address, diMode : {"eq", "modulo", "gt_zero"}, diValue : Int]
  /\ Mode \in {"collapsed", "realistic"} /\ Profile \in {"packaging", "food_bev"}
  /\ \A type \in DOMAIN CycleOf : CycleOf[type] \subseteq Nat \ {0}
  /\ Gaps \subseteq Nat \ {0}
  /\ Window \in Nat /\ Word \in Nat /\ Word > 1 /\ MaxLag \in Nat
  /\ \A new \in Values : new \in [Signals -> Nat]
  /\ Requested \subseteq Nat

-----------------------------------------------------------------------------
(* NetworkTopologyManager: the Modbus endpoints of a mode and a profile.   *)

Endpoint(name, type, equipment, units, state) ==
  [name |-> name, type |-> type, equipment |-> equipment, units |-> units, state |-> state]

PackagingModbus ==
  {Endpoint("press_plc", "S7-1500", {"press", "energy"}, {1, 5}, "press.machine_state"),
   Endpoint("laminator_plc", "S7-1200", {"laminator"}, {1}, "none"),
   Endpoint("slitter_plc", "S7-1200", {"slitter"}, {1}, "none")}

FoodBevModbus ==
  {Endpoint("mixer_plc", "CompactLogix", {"mixer"}, {1}, "mixer.state"),
   Endpoint("oven_gateway", "Eurotherm", {"oven", "energy"}, {1, 2, 3, 10}, "oven.state"),
   Endpoint("filler_plc", "S7-1200", {"filler"}, {1}, "filler.state"),
   Endpoint("sealer_plc", "S7-1200", {"sealer"}, {1}, "none"),
   Endpoint("chiller", "Danfoss", {"chiller"}, {1}, "chiller.compressor_state"),
   Endpoint("cip_controller", "S7-1200", {"cip"}, {1}, "cip.state")}

\* In collapsed mode the endpoint serves all equipment.
Collapsed ==
  Endpoint("collapsed", "generic", {Config[i].equipment : i \in 1..Len(Config)}, {1},
           IF \E i \in 1..Len(Config) : Config[i].equipment = "filler"
           THEN "filler.state" ELSE "press.machine_state")

Endpoints == IF Mode = "collapsed" THEN {Collapsed}
             ELSE IF Profile = "packaging" THEN PackagingModbus ELSE FoodBevModbus

This == CHOOSE e \in Endpoints : e.name = Controller
StateSignal == This.state
UnitIds == This.units

\* secondary_uid_remap of the oven gateway.
Remapped == Controller = "oven_gateway"
UnitOf(slave) == IF Remapped /\ slave \in 11..13 THEN slave - 10 ELSE slave

\* There is no scan cycle model in collapsed mode.
Cycles == IF Mode = "collapsed" THEN {} ELSE CycleOf[This.type]

-----------------------------------------------------------------------------
(* Encoding. *)

Clamp(v, low, high) == IF v < low THEN low ELSE IF v > high THEN high ELSE v

Ordered(order, words) == IF order = "CDAB" THEN <<words[2], words[1]>> ELSE words

Pair(v) == <<v \div Word, v % Word>>

\* A float32 is exact for the values at hand.
Encode(type, order, v) ==
  CASE type = "float32" -> Ordered(order, Pair(v))
    [] type = "uint32" -> Ordered(order, Pair(Clamp(v, 0, Word * Word - 1)))
    [] type = "uint16" -> <<v % Word>>
    [] type = "int16" -> <<Clamp(v, - (Word \div 2), Word \div 2 - 1) % Word>>

Decode(type, order, words) ==
  CASE type \in {"float32", "uint32"} ->
         Ordered(order, words)[1] * Word + Ordered(order, words)[2]
    [] type = "uint16" -> words[1]
    [] type = "int16" -> IF words[1] >= Word \div 2 THEN words[1] - Word ELSE words[1]

\* What is left of a value after the conversion.
Clip(type, v) == Decode(type, "ABCD", Encode(type, "ABCD", v))

-----------------------------------------------------------------------------
(* The register map. *)

Mapped == {i \in 1..Len(Config) :
             Config[i].enabled /\ Config[i].equipment \in This.equipment}

HrEntry(i) == [signal |-> Config[i].signal, address |-> Config[i].hr, type |-> Config[i].type,
               order |-> Config[i].order, writable |-> Config[i].writable]

HrEntries == {HrEntry(i) : i \in {j \in Mapped : Config[j].hr # Absent}}

IrEntry(c, address, type) ==
  [signal |-> c.signal, address |-> address, type |-> type, order |-> "ABCD", writable |-> FALSE]

\* An address that only a secondary slave uses is not in the main block.
IrEntries ==
  {IrEntry(Config[i], Config[i].ir, IF Config[i].irWords = 1 THEN "int16" ELSE "float32") :
     i \in {j \in Mapped : /\ Config[j].ir # Absent
                           /\ Config[j].slave # Absent => Config[j].slaveIr # Absent}}

SlaveAddress(c) == IF c.slaveIr # Absent THEN c.slaveIr ELSE c.ir

HasSlave(i) == Config[i].slave # Absent /\ SlaveAddress(Config[i]) # Absent

Slaves == {Config[i].slave : i \in {j \in Mapped : HasSlave(j)}}

SlaveEntries(slave) ==
  {IrEntry(Config[i], SlaveAddress(Config[i]), "int16") :
     i \in {j \in Mapped : HasSlave(j) /\ Config[j].slave = slave}}

Width(e) == IF e.type \in {"float32", "uint32"} THEN 2 ELSE 1
Cells(e) == e.address..(e.address + Width(e) - 1)
Valid(entries) == UNION {Cells(e) : e \in entries}
Dual == UNION {Cells(e) : e \in {x \in HrEntries : Width(x) = 2}}

\* A data block has room for a pair at its last address.
Block(entries) == UNION {0..(a + 1) : a \in {0} \union {e.address : e \in entries}}

Coils == {[address |-> Config[i].coil, signal |-> Config[i].signal,
           value |-> Config[i].coilValue] : i \in {j \in Mapped : Config[j].coil # Absent}}

\* A discrete input that belongs to no signal is always off and left out.
DiscreteInputs ==
  {[address |-> Config[i].di, signal |-> Config[i].signal,
    mode |-> Config[i].diMode, value |-> Config[i].diValue] :
     i \in {j \in Mapped : Config[j].di # Absent}}

Main == 0                          \* the main device context, beside the slaves

\* start(): the device contexts a unit id is routed to.
Routes(unit) ==
  LET slaves == {s \in Slaves : UnitOf(s) = unit}
  IN IF Slaves = {} /\ Cardinality(UnitIds) = 1 THEN {Main}
     ELSE IF slaves # {} THEN slaves
     ELSE IF unit \in UnitIds /\ ~ (Remapped /\ unit \in 1..3) THEN {Main} ELSE {}

VARIABLES store,        \* SignalStore
          lead,         \* _next_boundary_ms minus the newest timestamp
          outputs,      \* _last_outputs
          hr,           \* _hr_block
          ir,           \* _ir_block
          slaveIr,      \* _secondary_ir_blocks
          coils,        \* _coil_block
          inputs,       \* _di_block
          lastSync,     \* _last_hr_sync
          lastState,    \* _last_machine_state
          busy,         \* updates left in the transition window
          asked,        \* history: addresses a client wrote since the last update
          scanned       \* history: the store at the last scan

bits == <<coils, inputs>>
blocks == <<hr, ir, slaveIr, bits>>
endpointVars == <<store, lead, outputs, blocks, lastSync, lastState, busy, asked, scanned>>

Nothing == <<>>
Regs(e) == [k \in 1..Width(e) |-> hr[e.address + k - 1]]

-----------------------------------------------------------------------------
(* The update loop. *)

Lagging(n) == IF n < - MaxLag THEN - MaxLag ELSE n

\* The engine: some generators run, injectors override, the store is newer.
EngineWrites(gap) ==
  /\ \E new \in Values : store' = new
  /\ lead' = Lagging(lead - gap)
  /\ UNCHANGED <<outputs, blocks, lastSync, lastState, busy, asked, scanned>>

\* Mutant of Changed: an entry that was never synchronised counts as written.
ChangedAlways(e) == e.writable /\ Regs(e) # lastSync[e]

\* A writable entry whose registers are not what was last put there.
Changed(e) == e.writable /\ lastSync[e] # Nothing /\ Regs(e) # lastSync[e]

\* The store after the client writes were taken over.
Taken ==
  [s \in Signals |->
     LET written == {e \in HrEntries : e.signal = s /\ Changed(e)}
     IN IF written = {} THEN store[s]
        ELSE LET e == CHOOSE x \in written : TRUE IN Decode(e.type, e.order, Regs(e))]

\* Mutant of Scans: a boundary that was passed is not noticed.
ScansOnTime == Cycles = {} \/ lead = 0

Scans == Cycles = {} \/ lead <= 0

\* Mutant of Held: what was put out between two scans is remembered.
HeldFresh(s) == Taken[s]

\* ScanCycleModel.get_value.
Held(s) == IF Scans \/ outputs[s] = Absent THEN Taken[s] ELSE outputs[s]

Present(e) == Taken[e.signal] # Absent

\* The entries put their values into the cells of a block.
Filled(block, entries) ==
  [a \in DOMAIN block |->
     LET here == {e \in entries : Present(e) /\ a \in Cells(e)}
     IN IF here = {} THEN block[a]
        ELSE LET e == CHOOSE x \in here : TRUE
             IN Encode(e.type, e.order, Held(e.signal))[a - e.address + 1]]

\* Coils and discrete inputs do not wait for a scan.
CoilOn(c, values) ==
  /\ values[c.signal] # Absent
  /\ IF c.value # Absent THEN values[c.signal] = c.value ELSE values[c.signal] > 0

InputOn(d, values) ==
  /\ values[d.signal] # Absent
  /\ CASE d.mode = "eq" -> values[d.signal] = d.value
       [] d.mode = "modulo" -> values[d.signal] % 2 = 1
       [] d.mode = "gt_zero" -> values[d.signal] > 0

CheckTransition ==
  IF StateSignal = "none" \/ store[StateSignal] = Absent
  THEN UNCHANGED lastState /\ busy' = IF busy > 0 THEN busy - 1 ELSE 0
  ELSE /\ lastState' = store[StateSignal]
       /\ busy' = IF lastState # Absent /\ store[StateSignal] # lastState THEN Window
                  ELSE IF busy > 0 THEN busy - 1 ELSE 0

\* Clients' writes first, entry by entry, then the values of the store.
SyncHoldingRegisters ==
  /\ store' = Taken
  /\ hr' = Filled(hr, HrEntries)
  /\ lastSync' = [e \in HrEntries |-> IF e.writable /\ Present(e)
                                      THEN Encode(e.type, e.order, Held(e.signal))
                                      ELSE lastSync[e]]

SyncInputRegisters == ir' = Filled(ir, IrEntries)
SyncCoils == coils' = [c \in Coils |-> CoilOn(c, Taken)]
SyncDiscreteInputs == inputs' = [d \in DiscreteInputs |-> InputOn(d, Taken)]
SyncSecondarySlaves == slaveIr' = [s \in Slaves |-> Filled(slaveIr[s], SlaveEntries(s))]

\* sync_registers.
Sync ==
  /\ \/ Cycles = {} /\ UNCHANGED lead
     \/ Cycles # {} /\ Scans /\ \E c \in Cycles : lead' = lead + c
     \/ ~ Scans /\ UNCHANGED lead
  /\ CheckTransition
  /\ outputs' = IF Cycles # {} /\ Scans THEN Taken ELSE outputs
  /\ SyncHoldingRegisters
  /\ SyncInputRegisters
  /\ SyncCoils
  /\ SyncDiscreteInputs
  /\ SyncSecondarySlaves
  /\ asked' = {}
  /\ scanned' = IF Scans THEN Taken ELSE scanned

\* A drop is active, or a duplicate timestamp was drawn.
Skip ==
  /\ busy > 0
  /\ busy' = busy - 1
  /\ UNCHANGED <<store, lead, outputs, blocks, lastSync, lastState, asked, scanned>>

-----------------------------------------------------------------------------
(* Requests. *)

\* FC16 with one or more words; FC06 has one, and is rejected on a pair.
Write(code, address, words) ==
  /\ address..(address + Len(words) - 1) \subseteq DOMAIN hr
  /\ code = 6 => Len(words) = 1 /\ address \notin Dual
  /\ hr' = [a \in DOMAIN hr |-> IF a \in address..(address + Len(words) - 1)
                                THEN words[a - address + 1] ELSE hr[a]]
  /\ asked' = asked \union address..(address + Len(words) - 1)
  /\ UNCHANGED <<store, lead, outputs, ir, slaveIr, bits, lastSync, lastState, busy, scanned>>

\* The holding registers of a secondary slave are a stub.
Stub == [a \in 0..6 |-> 0]

Cell(device, code, a) == IF code = 3 THEN IF device = Main THEN hr[a] ELSE Stub[a]
                         ELSE IF device = Main THEN ir[a] ELSE slaveIr[device][a]

\* Only the main device of an endpoint knows which addresses are mapped.
Readable(device, code) ==
  IF device # Main THEN IF code = 3 THEN DOMAIN Stub ELSE DOMAIN slaveIr[device]
  ELSE IF Mode = "collapsed" THEN IF code = 3 THEN DOMAIN hr ELSE DOMAIN ir
  ELSE Valid(IF code = 3 THEN HrEntries ELSE IrEntries)

\* Exception replies, told apart from words by their sign.
DeviceBusy == <<-6>>
DeviceFailure == <<-4>>
IllegalAddress == <<-2>>
Exceptions == {DeviceBusy, DeviceFailure, IllegalAddress}

\* ModbusExceptionInjector: a device is busy while its machine changes state,
\* and fails now and then; a read of several registers may be cut off.
Truncated(count) == 1..(count - 1)

Injected(words, count) ==
  IF busy > 0 THEN {DeviceBusy}
  ELSE {DeviceFailure, words} \union {SubSeq(words, 1, n) : n \in Truncated(count)}

\* getValues: the replies to a read of count words, FC03 or FC04.  The
\* injector is with the main device.
Replies(unit, code, address, count) ==
  UNION {IF ~ (address..(address + count - 1) \subseteq Readable(d, code)) THEN {IllegalAddress}
         ELSE LET words == [k \in 1..count |-> Cell(d, code, address + k - 1)]
              IN IF d = Main THEN Injected(words, count) ELSE {words} : d \in Routes(unit)}

-----------------------------------------------------------------------------
EndpointInit ==
  /\ store = [s \in Signals |-> Absent]
  /\ lead = 0
  /\ outputs = [s \in Signals |-> Absent]
  /\ hr = [a \in Block(HrEntries) |-> 0]
  /\ ir = [a \in Block(IrEntries) |-> 0]
  /\ slaveIr = [s \in Slaves |-> [a \in Block(SlaveEntries(s)) |-> 0]]
  /\ coils = [c \in Coils |-> FALSE]
  /\ inputs = [d \in DiscreteInputs |-> FALSE]
  /\ lastSync = [e \in HrEntries |-> Nothing]
  /\ lastState = Absent
  /\ busy = 0
  /\ asked = {}
  /\ scanned = [s \in Signals |-> Absent]

ClientWrites ==
  \/ \E e \in HrEntries, v \in Requested : Write(16, e.address, Encode(e.type, e.order, v))
  \/ \E a \in DOMAIN hr, code \in {6, 16} : Write(code, a, <<1>>)

EndpointNext ==
  \/ \E gap \in Gaps : EngineWrites(gap)
  \/ Sync
  \/ Skip
  \/ ClientWrites

EndpointSpec == EndpointInit /\ [][EndpointNext]_endpointVars

\* Both loops run for ever; drops end, and a duplicate is drawn with a small
\* probability, so updates that synchronise never cease.
FairEndpointSpec ==
  EndpointSpec /\ WF_lead(\E gap \in Gaps : EngineWrites(gap)) /\ WF_endpointVars(Sync)

-----------------------------------------------------------------------------
\* The variables keep their types.
EndpointTypeOK ==
  /\ store \in [Signals -> Nat \union {Absent}]
  /\ lead \in Int /\ lead >= - MaxLag
  /\ \A a \in DOMAIN hr : hr[a] \in 0..(Word - 1)
  /\ \A a \in DOMAIN ir : ir[a] \in 0..(Word - 1)
  /\ \A e \in HrEntries : lastSync[e] = Nothing \/ Len(lastSync[e]) = Width(e)
  /\ busy \in 0..Window
  /\ asked \subseteq DOMAIN hr

\* Whatever a client reads of one controller is from one scan of it: through
\* every unit, holding registers, input registers and those of a secondary
\* slave decode to the value of their signal at the last scan, clipped to the
\* width of its type, except registers a client has written since; a partial
\* response is a beginning of the full one.  Every
\* configured register is behind one endpoint of the topology, no unit leads
\* to two devices, and every device is behind some unit.
Reads(unit, code, e) ==
  Replies(unit, code, e.address, Width(e)) \ Exceptions

Shows(unit, code, e) ==
  scanned[e.signal] # Absent /\ (code = 3 => Cells(e) \intersect asked = {}) =>
    LET full == Encode(e.type, e.order, scanned[e.signal])
    IN \A r \in Reads(unit, code, e) : r = SubSeq(full, 1, Len(r))

Units == UnitIds \union {UnitOf(s) : s \in Slaves}

HasRegisters(c) == c.enabled /\ (c.hr # Absent \/ c.ir # Absent \/ c.coil # Absent)

Reachable ==
  /\ \A i \in 1..Len(Config) : HasRegisters(Config[i]) =>
       Cardinality({e \in Endpoints : Config[i].equipment \in e.equipment}) = 1
  /\ \A unit \in Units : \A c, d \in Routes(unit) : c = d
  /\ \A d \in Slaves \union {Main} : \E unit \in Units : d \in Routes(unit)

OneScan ==
  /\ Reachable
  /\ \A unit \in Units : \A d \in Routes(unit) :
       \/ /\ d = Main
          /\ \A e \in HrEntries : Shows(unit, 3, e)
          /\ \A e \in IrEntries : Shows(unit, 4, e)
       \/ /\ d # Main
          /\ \A e \in SlaveEntries(d) : Shows(unit, 4, e)

\* A change that the server takes for a client's write is one: neither clipped
\* values, nor words held back by the scan cycle, nor registers that were never
\* synchronised come back to the store.
NoEcho == \A e \in HrEntries : Changed(e) => Cells(e) \intersect asked # {}

\* Once the store and the clients leave the registers alone, each comes to
\* show the value in the store, and coils and discrete inputs what they derive
\* from it, whatever scans, drops and writes there were.
Converges ==
  (<>[][asked' \subseteq asked]_endpointVars /\ <>[][store' = store]_store) =>
    <>[](/\ \A e \in HrEntries : store[e.signal] # Absent =>
              Decode(e.type, e.order, Regs(e)) = Clip(e.type, store[e.signal])
         /\ \A c \in Coils : coils[c] = CoilOn(c, store)
         /\ \A d \in DiscreteInputs : inputs[d] = InputOn(d, store))

=============================================================================
