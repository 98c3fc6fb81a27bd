----------------------------- MODULE SignalPath -----------------------------
(***************************************************************************)
(* The path of one writable signal, a dryer setpoint: its generator writes *)
(* it to the signal store, the data quality injectors override it there,   *)
(* and the OPC-UA and Modbus servers copy it to their clients and take     *)
(* what a client writes back to the store.                                 *)
(*                                                                         *)
(* All of it runs on one event loop.  An engine tick and a Modbus sync     *)
(* await nothing and are one step each; a pass of the OPC-UA update loop   *)
(* awaits every node access, so the steps of other tasks may fall between  *)
(* the two phases in which it reaches this signal's node.                  *)
(*                                                                         *)
(* Values are the generator's, those that clients ask for, and the         *)
(* sentinel of a disconnected sensor.  An event of an injector starts at   *)
(* any tick at which none of its kind is active (Poisson arrivals).        *)
(***************************************************************************)
EXTENDS Naturals

CONSTANTS Requested,      \* values clients write
          Interval,       \* ticks between two runs of the generator
          MaxLength,      \* longest event of an injector, in ticks
          Stale,          \* whether OPC-UA drops are configured (opcua_stale)
          MaxEvents,      \* injector events (bound of the model)
          MaxWrites       \* client writes (bound of the model)

Target == "target"        \* what the generator writes
Sentinel == "sentinel"    \* what a disconnected sensor reads
Zero == "zero"            \* initial content of nodes and registers
None == "none"            \* no entry

Signal == Requested \union {Target, Sentinel}

ASSUME PathAssumption ==
  /\ Requested \intersect {Target, Sentinel, Zero, None} = {}
  /\ Interval \in Nat \ {0}
  /\ MaxLength \in Nat
  /\ Stale \in BOOLEAN
  /\ MaxEvents \in Nat
  /\ MaxWrites \in Nat

VARIABLES entry,          \* SignalStore entry; value None before the first tick
          wait,           \* ticks before the generator runs again
          disconnect,     \* ticks left of the active disconnect
          stuck,          \* ticks left of the active stuck event
          frozen,         \* _frozen_value
          events,         \* injector events so far
          node,           \* value and status of the OPC-UA node
          lastWritten,    \* _last_written_setpoints
          loop,           \* where the OPC-UA update loop is
          wasDropped,     \* drop_was_active
          reg,            \* Modbus holding registers
          lastSync,       \* _last_hr_sync
          writes,         \* client writes so far
          nodeAsked,      \* history: the node holds what a client wrote
          regAsked,       \* history: so do the registers
          dropped         \* history: an OPC-UA drop has begun

injectors == <<disconnect, stuck, frozen, events>>
engine == <<wait, injectors>>
opcua == <<node, lastWritten, loop, wasDropped, dropped>>
modbus == <<reg, lastSync>>
clients == <<writes, nodeAsked, regAsked>>
vars == <<entry, engine, opcua, modbus, clients>>

Reading(v, q) == [value |-> v, quality |-> q]

Present == entry.value # None

-----------------------------------------------------------------------------
(***************************************************************************)
(* DataEngine.tick: the generator if its interval has passed, then the     *)
(* disconnect injector, then the stuck injector, on the store entry that   *)
(* the step before left.                                                   *)
(***************************************************************************)
Generated == IF wait = 0 THEN Reading(Target, "good") ELSE entry

\* An active event goes on; when it is over the next one may start at once.
Ticks(left) ==
  IF left > 1 THEN {left - 1}
  ELSE {0} \union (IF Present /\ events < MaxEvents THEN 1..MaxLength ELSE {})

Starts(left, new) == left <= 1 /\ new > 0

\* Mutant of Disconnected: the quality flag is not set.
DisconnectedGood(left, r) == IF left > 0 THEN Reading(Sentinel, "good") ELSE r

Disconnected(left, r) == IF left > 0 THEN Reading(Sentinel, "bad") ELSE r

Held(left, value, r) == IF left > 0 THEN Reading(value, "good") ELSE r

Tick ==
  /\ wait' = IF wait = 0 THEN Interval - 1 ELSE wait - 1
  /\ disconnect' \in Ticks(disconnect)
  /\ stuck' \in Ticks(stuck)
  /\ LET read == Disconnected(disconnect', Generated) IN
       /\ frozen' = IF Starts(stuck, stuck') THEN read.value ELSE frozen
       /\ entry' = Held(stuck', frozen', read)
  /\ events' = events + (IF Starts(disconnect, disconnect') THEN 1 ELSE 0)
                      + (IF Starts(stuck, stuck') THEN 1 ELSE 0)
  /\ UNCHANGED <<opcua, modbus, clients>>

-----------------------------------------------------------------------------
(***************************************************************************)
(* OpcuaServer._update_loop.  A drop begins or ends between two of its     *)
(* passes; at the beginning the node is frozen, and then left alone.       *)
(***************************************************************************)
Status == [good |-> "Good", uncertain |-> "Uncertain", bad |-> "Bad"]

BeginDrop ==
  /\ loop = "asleep"
  /\ Stale
  /\ ~ wasDropped
  /\ wasDropped' = TRUE
  /\ dropped' = TRUE
  /\ loop' = "freeze"
  /\ UNCHANGED <<entry, engine, node, lastWritten, modbus, clients>>

BeginSync ==
  /\ loop = "asleep"
  /\ wasDropped' = FALSE
  /\ loop' = "detect"
  /\ UNCHANGED <<entry, engine, node, lastWritten, dropped, modbus, clients>>

\* _freeze_all_nodes: the current store value, as UncertainLastUsableValue.
Freeze ==
  /\ loop = "freeze"
  /\ loop' = "asleep"
  /\ IF Present
       THEN /\ node' = [value |-> entry.value, status |-> "Uncertain"]
            /\ nodeAsked' = FALSE
       ELSE UNCHANGED <<node, nodeAsked>>
  /\ UNCHANGED <<entry, engine, lastWritten, wasDropped, dropped, modbus, writes, regAsked>>

\* _sync_values, phase 1: a node value that the server did not write is a
\* client's, and goes to the store.
Detect ==
  /\ loop = "detect"
  /\ loop' = "push"
  /\ lastWritten' = node.value
  /\ entry' = IF node.value # lastWritten THEN Reading(node.value, "good") ELSE entry
  /\ UNCHANGED <<engine, node, wasDropped, dropped, modbus, clients>>

\* Phase 2: the store value with its status goes to the node, and what was
\* written is recorded.
PushAs(status, written) ==
  /\ loop = "push"
  /\ loop' = "asleep"
  /\ IF Present
       THEN /\ node' = [value |-> entry.value, status |-> status]
            /\ lastWritten' = written
            /\ nodeAsked' = FALSE
       ELSE UNCHANGED <<node, lastWritten, nodeAsked>>
  /\ UNCHANGED <<entry, engine, wasDropped, dropped, modbus, writes, regAsked>>

\* Mutants of Push: what was written is not recorded; the status stays.
PushUnrecorded == PushAs(Status[entry.quality], lastWritten)
PushKeepsStatus == PushAs(node.status, entry.value)

Push == PushAs(Status[entry.quality], entry.value)

-----------------------------------------------------------------------------
(***************************************************************************)
(* ModbusServer._sync_holding_registers.  During a drop, or at a duplicate *)
(* timestamp, the sync is left out and the registers stay.                 *)
(***************************************************************************)
Taken == IF lastSync # None /\ reg # lastSync THEN Reading(reg, "good") ELSE entry

Sync ==
  /\ Present
  /\ entry' = Taken
  /\ reg' = Taken.value
  /\ lastSync' = Taken.value
  /\ regAsked' = FALSE
  /\ UNCHANGED <<engine, opcua, writes, nodeAsked>>

-----------------------------------------------------------------------------
\* Clients write the node, or the registers, at any time.
WriteNode(v) ==
  /\ writes < MaxWrites
  /\ writes' = writes + 1
  /\ node' = [value |-> v, status |-> "Good"]
  /\ nodeAsked' = TRUE
  /\ UNCHANGED <<entry, engine, lastWritten, loop, wasDropped, dropped, modbus, regAsked>>

WriteRegisters(v) ==
  /\ writes < MaxWrites
  /\ writes' = writes + 1
  /\ reg' = v
  /\ regAsked' = TRUE
  /\ UNCHANGED <<entry, engine, opcua, lastSync, nodeAsked>>

-----------------------------------------------------------------------------
\* A node of the active profile is created with the zero of its type.
NewNode == [value |-> Zero, status |-> "Good"]

Init ==
  /\ entry = Reading(None, "good")
  /\ wait = 0
  /\ disconnect = 0
  /\ stuck = 0
  /\ frozen = None
  /\ events = 0
  /\ node = NewNode
  /\ lastWritten = NewNode.value
  /\ loop = "detect"        \* the first pass meets no drop
  /\ wasDropped = FALSE
  /\ reg = Zero
  /\ lastSync = None
  /\ writes = 0
  /\ nodeAsked = FALSE
  /\ regAsked = FALSE
  /\ dropped = FALSE

OpcuaStep == Freeze \/ Detect \/ Push

Next ==
  \/ Tick
  \/ BeginDrop
  \/ BeginSync
  \/ OpcuaStep
  \/ Sync
  \/ \E v \in Requested : WriteNode(v) \/ WriteRegisters(v)

Spec == Init /\ [][Next]_vars

\* The three loops run for ever, and drops are short and leave gaps longer
\* than a pass: whenever the OPC-UA loop wakes again and again, it syncs.
FairSpec ==
  /\ Spec
  /\ WF_vars(Tick)
  /\ WF_vars(OpcuaStep)
  /\ SF_vars(BeginSync)
  /\ WF_vars(Sync)

-----------------------------------------------------------------------------
PathTypeOK ==
  /\ entry \in [value : Signal \union {Zero, None}, quality : {"good", "bad"}]
  /\ wait \in 0..Interval - 1
  /\ disconnect \in 0..MaxLength
  /\ stuck \in 0..MaxLength
  /\ frozen \in Signal \union {Zero, None}
  /\ events \in Nat
  /\ node \in [value : Signal \union {Zero}, status : {"Good", "Uncertain", "Bad"}]
  /\ lastWritten \in Signal \union {Zero}
  /\ loop \in {"asleep", "freeze", "detect", "push"}
  /\ wasDropped \in BOOLEAN
  /\ reg \in Signal \union {Zero}
  /\ lastSync \in Signal \union {Zero, None}
  /\ writes \in 0..MaxWrites
  /\ nodeAsked \in BOOLEAN
  /\ regAsked \in BOOLEAN
  /\ dropped \in BOOLEAN

\* What a server takes for a client's write is one: neither of the two takes
\* what the engine, an injector, the other server or itself wrote for the
\* wish of a client.  The exception is a node frozen in an OPC-UA drop.
NoEcho ==
  /\ node.value # lastWritten => nodeAsked \/ node.status = "Uncertain"
  /\ lastSync # None /\ reg # lastSync => regAsked

\* A sensor that reads the sentinel is flagged bad.  The exceptions are a
\* stuck event that froze the sentinel, and an OPC-UA drop, which may carry
\* a frozen sentinel back to the store.
SentinelIsBad ==
  entry.value = Sentinel /\ entry.quality = "good" => frozen = Sentinel \/ dropped

\* Once clients and injectors leave the signal alone, the store and both
\* servers come back to the generator's value, whatever was written, frozen,
\* dropped or disconnected before, and stay there; the status of the node is
\* Good again after every drop.
Settled == entry = Reading(Target, "good") /\ node.value = Target /\ reg = Target

Settles == <>[]Settled /\ []<>(node.status = "Good")

=============================================================================
