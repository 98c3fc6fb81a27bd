--------------------------- MODULE DeliveryProofs ---------------------------
(***************************************************************************)
(* Proofs about what leaves the store.                                     *)
(*                                                                         *)
(* SignalPath, a setpoint between generator, OPC-UA and Modbus: the type   *)
(* invariant, that no server takes its own value for a client's (NoEcho)   *)
(* and that the sentinel of a disconnected sensor is not shown as good     *)
(* (SentinelIsBad); the two are inductive together with the provenance of  *)
(* the values.                                                             *)
(*                                                                         *)
(* Publishing, the MQTT topics, for any configuration, queue limit and     *)
(* timing: the type invariant, that the last change of an event-driven     *)
(* topic is kept (LastIsKept), and that a timed topic shows what the store *)
(* has within an interval (ShownInTime).                                   *)
(***************************************************************************)
EXTENDS SignalPath, Publishing, FiniteSetTheorems, TLAPS

\* A value marked as asked for is a client's, and a node is Uncertain only
\* after a drop has begun.
Provenance ==
  /\ nodeAsked => node.value \in Requested
  /\ regAsked => reg \in Requested
  /\ node.status = "Uncertain" => dropped
  /\ loop = "freeze" => dropped

SafeInv == PathTypeOK /\ NoEcho /\ Provenance /\ SentinelIsBad

-----------------------------------------------------------------------------
\* The store entry keeps its type through the steps of a tick.
LEMMA ReadingsTyped ==
  ASSUME PathTypeOK, NEW d, NEW s, NEW f \in Signal \union {Zero, None}
  PROVE  /\ Generated \in [value : Signal \union {Zero, None}, quality : {"good", "bad"}]
         /\ Disconnected(d, Generated) \in [value : Signal \union {Zero, None}, quality : {"good", "bad"}]
         /\ Held(s, f, Disconnected(d, Generated))
              \in [value : Signal \union {Zero, None}, quality : {"good", "bad"}]
BY DEF PathTypeOK, Generated, Disconnected, Held, Reading, Signal

\* A tick keeps the types.
LEMMA TickType ==
  ASSUME PathTypeOK, Tick
  PROVE  PathTypeOK'
<1> DEFINE read == Disconnected(disconnect', Generated)
<1> USE PathAssumption
<1>1. wait' \in 0..Interval - 1
  BY DEF PathTypeOK, Tick
<1>2. disconnect' \in 0..MaxLength /\ stuck' \in 0..MaxLength
  <2>1. ASSUME NEW left \in 0..MaxLength PROVE Ticks(left) \subseteq 0..MaxLength
    BY DEF Ticks
  <2>2. QED BY <2>1 DEF PathTypeOK, Tick
<1>3. read.value \in Signal \union {Zero, None}
  BY ReadingsTyped DEF PathTypeOK
<1>4. frozen' \in Signal \union {Zero, None}
  BY <1>3 DEF PathTypeOK, Tick
<1>5. entry' \in [value : Signal \union {Zero, None}, quality : {"good", "bad"}]
  BY <1>4, ReadingsTyped DEF Tick
<1>6. events' \in Nat
  BY DEF PathTypeOK, Tick
<1>7. QED BY <1>1, <1>2, <1>4, <1>5, <1>6 DEF PathTypeOK, Tick, opcua, modbus, clients

\* So do the steps of the servers and of the clients.
LEMMA OtherStepsType ==
  ASSUME PathTypeOK,
         BeginDrop \/ BeginSync \/ OpcuaStep \/ Sync
           \/ (\E v \in Requested : WriteNode(v) \/ WriteRegisters(v))
  PROVE  PathTypeOK'
<1> USE PathAssumption DEF PathTypeOK, Signal
<1>1. CASE BeginDrop
  <2>1. wasDropped' \in BOOLEAN /\ dropped' \in BOOLEAN BY <1>1 DEF BeginDrop
  <2>2. loop' = "freeze" /\ UNCHANGED <<entry, engine, node, lastWritten, modbus, clients>>
    BY <1>1 DEF BeginDrop
  <2>3. QED BY <2>1, <2>2 DEF engine, injectors, modbus, clients
<1>2. CASE BeginSync
  <2>1. wasDropped' \in BOOLEAN BY <1>2 DEF BeginSync
  <2>2. /\ loop' = "detect"
        /\ UNCHANGED <<entry, engine, node, lastWritten, dropped, modbus, clients>>
    BY <1>2 DEF BeginSync
  <2>3. QED BY <2>1, <2>2 DEF engine, injectors, modbus, clients
<1>3. CASE Freeze
  <2>1. nodeAsked' \in BOOLEAN BY <1>3 DEF Freeze
  <2>2. node' \in [value : Signal \union {Zero}, status : {"Good", "Uncertain", "Bad"}]
    BY <1>3 DEF Freeze, Present
  <2>3. /\ loop' = "asleep"
        /\ UNCHANGED <<entry, engine, lastWritten, wasDropped, dropped, modbus, writes, regAsked>>
    BY <1>3 DEF Freeze
  <2>4. QED BY <2>1, <2>2, <2>3 DEF engine, injectors, modbus
<1>4. CASE Detect BY <1>4 DEF Detect, Reading, engine, injectors, modbus, clients
<1>5. CASE Push
  <2>1. Status[entry.quality] \in {"Good", "Uncertain", "Bad"}
    BY DEF Status
  <2>2. nodeAsked' \in BOOLEAN BY <1>5 DEF Push, PushAs
  <2>3. /\ node' \in [value : Signal \union {Zero}, status : {"Good", "Uncertain", "Bad"}]
        /\ lastWritten' \in Signal \union {Zero}
    BY <1>5, <2>1 DEF Push, PushAs, Present
  <2>4. /\ loop' = "asleep"
        /\ UNCHANGED <<entry, engine, wasDropped, dropped, modbus, writes, regAsked>>
    BY <1>5 DEF Push, PushAs
  <2>5. QED BY <2>2, <2>3, <2>4 DEF engine, injectors, modbus
<1>6. CASE Sync
  <2>1. Taken \in [value : Signal \union {Zero}, quality : {"good", "bad"}]
    BY <1>6 DEF Sync, Taken, Present, Reading
  <2>2. regAsked' \in BOOLEAN BY <1>6 DEF Sync
  <2>3. /\ entry' = Taken /\ reg' = Taken.value /\ lastSync' = Taken.value
        /\ UNCHANGED <<engine, opcua, writes, nodeAsked>>
    BY <1>6 DEF Sync
  <2>4. QED BY <2>1, <2>2, <2>3 DEF engine, injectors, opcua
<1>7. ASSUME NEW v \in Requested, WriteNode(v) PROVE PathTypeOK'
  <2>1. nodeAsked' \in BOOLEAN BY <1>7 DEF WriteNode
  <2>2. /\ writes' \in 0..MaxWrites
        /\ node' = [value |-> v, status |-> "Good"]
        /\ UNCHANGED <<entry, engine, lastWritten, loop, wasDropped, dropped, modbus, regAsked>>
    BY <1>7 DEF WriteNode
  <2>3. QED BY <2>1, <2>2 DEF engine, injectors, modbus
<1>8. ASSUME NEW v \in Requested, WriteRegisters(v) PROVE PathTypeOK'
  <2>1. regAsked' \in BOOLEAN BY <1>8 DEF WriteRegisters
  <2>2. /\ writes' \in 0..MaxWrites
        /\ reg' = v
        /\ UNCHANGED <<entry, engine, opcua, lastSync, nodeAsked>>
    BY <1>8 DEF WriteRegisters
  <2>3. QED BY <2>1, <2>2 DEF engine, injectors, opcua
<1>9. QED BY <1>1, <1>2, <1>3, <1>4, <1>5, <1>6, <1>7, <1>8 DEF OpcuaStep

\* The signal starts out with its types.
LEMMA PathTyped == Init => PathTypeOK
<1> SUFFICES ASSUME Init PROVE PathTypeOK
  OBVIOUS
<1>1. /\ wasDropped \in BOOLEAN /\ nodeAsked \in BOOLEAN
      /\ regAsked \in BOOLEAN /\ dropped \in BOOLEAN
  BY DEF Init
<1>2. /\ entry = Reading(None, "good")
      /\ wait = 0 /\ disconnect = 0 /\ stuck = 0 /\ frozen = None /\ events = 0
      /\ node = [value |-> Zero, status |-> "Good"] /\ lastWritten = Zero
      /\ loop = "detect" /\ reg = Zero /\ lastSync = None /\ writes = 0
  BY DEF Init, NewNode
<1>3. QED BY PathAssumption, <1>1, <1>2 DEF PathTypeOK, Reading, Signal

\* Every variable keeps to its type (PathTypeOK), for every set of values
\* that clients may write and every interval and length.
THEOREM PathTypeCorrect == Spec => []PathTypeOK
<1>1. Init => PathTypeOK BY PathTyped
<1>2. PathTypeOK /\ [Next]_vars => PathTypeOK'
  <2> SUFFICES ASSUME PathTypeOK, [Next]_vars PROVE PathTypeOK'
    OBVIOUS
  <2>1. CASE Next BY <2>1, TickType, OtherStepsType DEF Next
  <2>2. CASE UNCHANGED vars
    BY <2>2 DEF vars, engine, injectors, opcua, modbus, clients, PathTypeOK
  <2>3. QED BY <2>1, <2>2
<1>3. QED BY <1>1, <1>2, PTL DEF Spec

-----------------------------------------------------------------------------
\* A tick makes a sentinel good only by a stuck sensor that froze it.
LEMMA TickSafe ==
  ASSUME SafeInv, Tick
  PROVE  NoEcho' /\ Provenance' /\ SentinelIsBad'
<1> DEFINE read == Disconnected(disconnect', Generated)
<1>1. NoEcho' /\ Provenance'
  BY DEF SafeInv, NoEcho, Provenance, Tick, opcua, modbus, clients
<1>2. dropped' = dropped
  BY DEF Tick, opcua
<1>3. CASE stuck' > 0
  <2>1. entry' = Reading(frozen', "good")
    BY <1>3 DEF Tick, Held
  <2>2. QED BY <1>1, <2>1 DEF SentinelIsBad, Reading
<1>4. CASE ~ (stuck' > 0)
  <2>1. entry' = read /\ frozen' = frozen
    BY <1>4 DEF Tick, Held, Starts
  <2>2. CASE disconnect' > 0
    BY <1>1, <2>1, <2>2 DEF SentinelIsBad, Disconnected, Reading
  <2>3. CASE ~ (disconnect' > 0) /\ wait = 0
    BY <1>1, <2>1, <2>3 DEF SentinelIsBad, Disconnected, Generated, Reading, Target, Sentinel
  <2>4. CASE ~ (disconnect' > 0) /\ wait # 0
    BY <1>1, <1>2, <2>1, <2>4 DEF SafeInv, SentinelIsBad, Disconnected, Generated
  <2>5. QED BY <2>2, <2>3, <2>4
<1>5. QED BY <1>1, <1>3, <1>4

\* The OPC-UA loop takes to the store only what a client asked for, or what
\* a drop left in the node.
LEMMA OpcuaSafe ==
  ASSUME SafeInv, BeginDrop \/ BeginSync \/ OpcuaStep
  PROVE  NoEcho' /\ Provenance' /\ SentinelIsBad'
<1> USE PathAssumption DEF SafeInv, NoEcho, Provenance, SentinelIsBad
<1>1. CASE BeginDrop BY <1>1 DEF BeginDrop, engine, injectors, modbus, clients
<1>2. CASE BeginSync BY <1>2 DEF BeginSync, engine, injectors, modbus, clients
<1>3. CASE Freeze BY <1>3 DEF Freeze, engine, injectors, modbus
<1>4. CASE Detect
  <2>1. NoEcho' /\ Provenance'
    BY <1>4 DEF Detect, engine, injectors, modbus, clients
  <2>2. CASE node.value = lastWritten
    BY <1>4, <2>1, <2>2 DEF Detect, engine, injectors, modbus, clients
  <2>3. CASE node.value # lastWritten /\ nodeAsked
    BY <1>4, <2>1, <2>3 DEF Detect, Reading, engine, injectors, modbus, clients
  <2>4. CASE node.value # lastWritten /\ node.status = "Uncertain"
    BY <1>4, <2>1, <2>4 DEF Detect, Reading, engine, injectors, modbus, clients
  <2>5. QED BY <2>2, <2>3, <2>4
<1>5. CASE Push
  <2>1. Status[entry.quality] # "Uncertain"
    BY DEF PathTypeOK, Status
  <2>2. CASE Present
    BY <1>5, <2>1, <2>2 DEF Push, PushAs, engine, injectors, modbus
  <2>3. CASE ~ Present
    BY <1>5, <2>3 DEF Push, PushAs, engine, injectors, modbus
  <2>4. QED BY <2>2, <2>3
<1>6. QED BY <1>1, <1>2, <1>3, <1>4, <1>5 DEF OpcuaStep

\* The Modbus server takes to the store only what a client asked for, and a
\* client never asks for the sentinel.
LEMMA ModbusAndClientsSafe ==
  ASSUME SafeInv,
         Sync \/ (\E v \in Requested : WriteNode(v) \/ WriteRegisters(v))
  PROVE  NoEcho' /\ Provenance' /\ SentinelIsBad'
<1> USE PathAssumption DEF SafeInv, NoEcho, Provenance, SentinelIsBad
<1>1. CASE Sync
  <2>1. NoEcho' /\ Provenance'
    BY <1>1 DEF Sync, engine, injectors, opcua
  <2>2. CASE lastSync # None /\ reg # lastSync
    BY <1>1, <2>1, <2>2 DEF Sync, Taken, Reading, engine, injectors, opcua
  <2>3. CASE ~ (lastSync # None /\ reg # lastSync)
    BY <1>1, <2>1, <2>3 DEF Sync, Taken, engine, injectors, opcua
  <2>4. QED BY <2>2, <2>3
<1>2. ASSUME NEW v \in Requested, WriteNode(v) PROVE NoEcho' /\ Provenance' /\ SentinelIsBad'
  BY <1>2 DEF WriteNode, engine, injectors, modbus
<1>3. ASSUME NEW v \in Requested, WriteRegisters(v) PROVE NoEcho' /\ Provenance' /\ SentinelIsBad'
  BY <1>3 DEF WriteRegisters, engine, injectors, opcua
<1>4. QED BY <1>1, <1>2, <1>3

\* SafeInv is inductive.
LEMMA SafeInductive == Spec => []SafeInv
<1>1. Init => SafeInv
  BY PathTyped
  DEF Init, NewNode, SafeInv, NoEcho, Provenance, SentinelIsBad, Reading, None, Sentinel
<1>2. SafeInv /\ [Next]_vars => SafeInv'
  <2> SUFFICES ASSUME SafeInv, [Next]_vars PROVE SafeInv'
    OBVIOUS
  <2>1. CASE Next
    <3>1. PathTypeOK' BY <2>1, TickType, OtherStepsType DEF Next, SafeInv
    <3>2. NoEcho' /\ Provenance' /\ SentinelIsBad'
      BY <2>1, TickSafe, OpcuaSafe, ModbusAndClientsSafe DEF Next
    <3>3. QED BY <3>1, <3>2 DEF SafeInv
  <2>2. CASE UNCHANGED vars
    BY <2>2
    DEF vars, engine, injectors, opcua, modbus, clients,
        SafeInv, PathTypeOK, NoEcho, Provenance, SentinelIsBad
  <2>3. QED BY <2>1, <2>2
<1>3. QED BY <1>1, <1>2, PTL DEF Spec

\* Neither server ever takes what another part of the simulator wrote for
\* the wish of a client, but for a node frozen in an OPC-UA drop (NoEcho).
THEOREM NoEchoHolds == Spec => []NoEcho
<1>1. SafeInv => NoEcho BY DEF SafeInv
<1>2. QED BY <1>1, SafeInductive, PTL

\* A sentinel is a good reading only by a stuck event that froze it or by a
\* drop (SentinelIsBad).
THEOREM SentinelIsBadHolds == Spec => []SentinelIsBad
<1>1. SafeInv => SentinelIsBad BY DEF SafeInv
<1>2. QED BY <1>1, SafeInductive, PTL

-----------------------------------------------------------------------------
(* Publishing: the topic map. *)

\* A set of positions has a greatest one: without it, going one up would map
\* the numbers up to the set one to one into themselves, and onto themselves,
\* since they are finite, but nothing is mapped to 1.
LEMMA HasGreatest ==
  ASSUME NEW n \in Nat, NEW S \in SUBSET (1..n), S # {}
  PROVE  \E i \in S : \A j \in S : j <= i
<1> SUFFICES ASSUME \A i \in S : \E j \in S : ~ (j <= i) PROVE FALSE OBVIOUS
<1> DEFINE U == {u \in 1..n : \E s \in S : u <= s}
           up == [u \in U |-> u + 1]
<1>1. \A u \in U : u + 1 \in U
  <2> SUFFICES ASSUME NEW u \in 1..n, NEW s \in S, u <= s PROVE u + 1 \in U OBVIOUS
  <2>1. PICK t \in S : ~ (t <= s) OBVIOUS
  <2>2. t \in 1..n /\ s \in 1..n OBVIOUS
  <2>3. u + 1 <= t /\ u + 1 \in 1..n BY <2>1, <2>2
  <2>4. QED BY <2>3
<1>2. up \in [U -> U] BY <1>1
<1>3. \A u, v \in U : up[u] = up[v] => u = v OBVIOUS
<1>4. up \in Injection(U, U) BY <1>2, <1>3 DEF Injection, IsInjective
<1>5. IsFiniteSet(U)
  <2>1. U \subseteq 1..n /\ IsFiniteSet(1..n) BY FS_Interval
  <2>2. QED BY <2>1, FS_Subset
<1>6. up \in Surjection(U, U)
  <2> HIDE DEF up, U
  <2>1. QED BY <1>4, <1>5, FS_Injection
<1>7. 1 \in U
  <2>1. PICK s \in S : s \in 1..n OBVIOUS
  <2>2. 1 <= s /\ 1 \in 1..n BY <2>1
  <2>3. QED BY <2>2
<1>8. PICK u \in U : up[u] = 1
  <2> HIDE DEF up, U
  <2>1. QED BY <1>6, <1>7 DEF Surjection
<1>9. QED BY <1>8

\* And a least one, which is the greatest counted from the other end.
LEMMA HasLeast ==
  ASSUME NEW n \in Nat, NEW S \in SUBSET (1..n), S # {}
  PROVE  \E i \in S : \A j \in S : i <= j
<1> DEFINE T == {i \in 1..n : n + 1 - i \in S}
<1>1. \A i \in S : n + 1 - i \in T OBVIOUS
<1>2. T \in SUBSET (1..n) /\ T # {} BY <1>1
<1> HIDE DEF T
<1>3. PICK t \in T : \A j \in T : j <= t BY <1>2, HasGreatest
<1>4. n + 1 - t \in S /\ t \in 1..n BY DEF T
<1>5. \A j \in S : n + 1 - t <= j BY <1>1, <1>3, <1>4
<1>6. QED BY <1>4, <1>5

Positions == 1..Len(Config)

\* The last position of a set of them is one of it.
LEMMA LastIsIn ==
  ASSUME NEW S \in SUBSET Positions, S # {} PROVE LastOf(S) \in S
<1>1. Len(Config) \in Nat BY PublishingAssumption
<1>2. \E i \in S : \A j \in S : j <= i BY <1>1, HasGreatest DEF Positions
<1>3. QED BY <1>2 DEF LastOf

\* The first position of a set of them is one of it, and before the others.
LEMMA FirstIsIn ==
  ASSUME NEW S \in SUBSET Positions, S # {}
  PROVE  FirstOf(S) \in S /\ \A j \in S : FirstOf(S) <= j
<1>1. Len(Config) \in Nat BY PublishingAssumption
<1>2. \E i \in S : \A j \in S : i <= j BY <1>1, HasLeast DEF Positions
<1>3. QED BY <1>2 DEF FirstOf

\* The batch entry takes its three signals from the configuration.
LEMMA BatchTypes ==
  ASSUME HasBatch, NEW a \in {"x", "y", "z"}
  PROVE  \E i \in Positions : BatchAxis(a) = Config[i]
<1> DEFINE Axes(b) == UNION {AxisAt(b, c) : c \in {"x", "y", "z"}}
           firsts == {FirstSeen(b) : b \in CompleteBases}
<1>1. \A b \in CompleteBases : Axes(b) \in SUBSET Positions /\ Axes(b) # {}
  BY DEF CompleteBases, Complete, AxisAt, Positions
<1>2. \A b \in CompleteBases : FirstSeen(b) \in Positions
  <2> TAKE b \in CompleteBases
  <2>1. Axes(b) \in SUBSET Positions /\ Axes(b) # {} BY <1>1
  <2>2. FirstSeen(b) = FirstOf(Axes(b)) BY DEF FirstSeen
  <2> HIDE DEF Axes
  <2>3. QED BY <2>1, <2>2, FirstIsIn
<1>3. firsts \in SUBSET Positions /\ firsts # {} BY <1>2 DEF HasBatch
<1>4. PICK i \in firsts : \A j \in firsts : i <= j
  <2>1. Len(Config) \in Nat BY PublishingAssumption
  <2> HIDE DEF firsts
  <2>2. QED BY <1>3, <2>1, HasLeast DEF Positions
<1>5. PICK b \in CompleteBases : i = FirstSeen(b) OBVIOUS
<1>6. \A c \in CompleteBases : FirstSeen(b) <= FirstSeen(c) BY <1>4, <1>5
<1>7. BatchBase \in CompleteBases BY <1>6 DEF BatchBase
<1>8. AxisAt(BatchBase, a) \in SUBSET Positions /\ AxisAt(BatchBase, a) # {}
  BY <1>7 DEF CompleteBases, Complete, AxisAt, Positions
<1>9. LastOf(AxisAt(BatchBase, a)) \in Positions BY <1>8, LastIsIn
<1>10. QED BY <1>9 DEF BatchAxis

\* The three axes of a vibration batch are signals.
LEMMA BatchSignalsTypes == HasBatch => BatchSignals \subseteq Signals
<1> SUFFICES ASSUME HasBatch, NEW a \in {"x", "y", "z"} PROVE BatchAxis(a).signal \in Signals
  BY DEF BatchSignals
<1>1. QED BY BatchTypes DEF Signals, Positions

\* Entries, event-driven or scheduled, are positions of the configuration;
\* what is scheduled has an interval.
LEMMA EntriesTypes ==
  /\ Entries \subseteq Positions /\ Events \subseteq Entries /\ Entries \subseteq Scheduled
  /\ \A i \in Entries : Config[i].signal \in Signals /\ i # 0
  /\ \A i \in Scheduled : IntervalOf(i) \in Nat \ {0}
  /\ 0 \in Scheduled => HasBatch
<1>1. Entries \subseteq Positions /\ Events \subseteq Entries /\ Entries \subseteq Scheduled
  BY DEF Entries, Positions, Events, Scheduled
<1>2. \A i \in Entries : Config[i].signal \in Signals /\ i # 0 BY DEF Entries, Signals
<1>3. 0 \in Scheduled => HasBatch BY <1>2 DEF Scheduled
<1>4. ASSUME NEW i \in Positions PROVE Config[i].interval \in Nat \ {0}
  <2> DEFINE Configured == [signal : STRING, equipment : STRING, enabled : BOOLEAN,
                            topic : STRING, axis : {"none", "x", "y", "z"},
                            interval : Nat \ {0}]
  <2>1. Config \in Seq(Configured) BY PublishingAssumption
  <2>2. Config[i] \in Configured
    <3> HIDE DEF Configured
    <3>1. QED BY <2>1 DEF Positions
  <2>3. QED BY <2>2
<1>5. \A i \in Scheduled : i = 0 \/ i \in Entries BY DEF Scheduled
<1>6. HasBatch => BatchInterval \in Nat \ {0} BY <1>4, BatchTypes DEF BatchInterval
<1>7. \A i \in Scheduled : IntervalOf(i) \in Nat \ {0}
  BY <1>1, <1>3, <1>4, <1>5, <1>6 DEF IntervalOf
<1>8. QED BY <1>1, <1>2, <1>3, <1>7

-----------------------------------------------------------------------------
(* The types.                                                              *)

\* What generators and injectors can have put into the store.
Stored == {Absent} \union
  UNION {UNION {{new[s] : s \in DOMAIN new} : new \in Readings[eq]} : eq \in Equipment}

Item == [entry : Events, msg : Stored]

\* A queued item is a stored message of an event-driven entry.
LEMMA ItemTypes ==
  ASSUME NEW queue \in Seq(Item)
  PROVE  \A k \in 1..Len(queue) : queue[k].entry \in Events /\ queue[k].msg \in Stored
<1>1. \A k \in 1..Len(queue) : queue[k] \in Item OBVIOUS
<1>2. QED BY <1>1 DEF Item

QueueType ==
  /\ store \in [Signals -> Stored]
  /\ out \in Seq(Item)
  /\ DOMAIN lastValue = Events
  /\ DOMAIN broker = Scheduled

PublisherType == PublishingTypeOK /\ QueueType

\* A publisher that is constructed has the types.
LEMMA InitTypes == ASSUME PublishingInit PROVE PublisherType
<1> USE DEF PublishingInit
<1>1. age \in [Scheduled -> Nat] /\ \A i \in Scheduled : age[i] <= IntervalOf(i)
  BY EntriesTypes
<1>2. toDrop \in Nat BY PublishingAssumption
<1>3. Len(out) <= BufferLimit /\ handled \in 0..Len(out) BY PublishingAssumption
<1>4. \A i \in Timed : calm[i] \in 0..IntervalOf(i) BY EntriesTypes DEF Timed
<1>6. PublishingTypeOK BY <1>1, <1>2, <1>3, <1>4 DEF PublishingTypeOK
<1>5. store \in [Signals -> Stored] BY DEF Stored
<1>7. QED BY <1>5, <1>6 DEF PublisherType, QueueType

\* What is counted for an entry stays within its interval.
LEMMA CalmTypes ==
  ASSUME PublisherType,
         \/ calm' = calm
         \/ Disturbed
         \/ \E late \in 1..MaxLate : calm' = Later(calm, Timed, late)
  PROVE  \A i \in Timed : calm'[i] \in 0..IntervalOf(i)
<1>1. \A i \in Timed : calm[i] \in 0..IntervalOf(i) /\ IntervalOf(i) \in Nat
  BY EntriesTypes DEF PublisherType, PublishingTypeOK, Timed
<1>2. CASE calm' = calm BY <1>1, <1>2
<1>3. CASE Disturbed BY <1>1, <1>3 DEF Disturbed
<1>4. ASSUME NEW late \in 1..MaxLate, calm' = Later(calm, Timed, late)
      PROVE  \A i \in Timed : calm'[i] \in 0..IntervalOf(i)
  <2>1. late \in Nat BY PublishingAssumption
  <2>2. QED BY <1>1, <1>4, <2>1 DEF Later
<1>5. QED BY <1>2, <1>3, <1>4

\* The cursor goes through the entries, and then back between two passes.
LEMMA NextEntryTypes == NextEntry => cursor' \in {-1, 0} \union Entries
<1> SUFFICES ASSUME NextEntry PROVE cursor' \in {-1, 0} \union Entries OBVIOUS
<1> DEFINE ahead == {i \in Entries : i > cursor}
<1>1. ahead \in SUBSET Positions BY EntriesTypes
<1>2. CASE ahead = {} BY <1>2 DEF NextEntry
<1>3. CASE ahead # {}
  <2>1. cursor' = FirstOf(ahead) BY <1>3 DEF NextEntry
  <2>2. FirstOf(ahead) \in ahead
    <3> HIDE DEF ahead
    <3>1. QED BY <1>1, <1>3, FirstIsIn
  <2>3. QED BY <2>1, <2>2
<1>4. QED BY <1>2, <1>3

\* What one call of publish() does to the queue.
LEMMA QueueTypes ==
  ASSUME PublisherType, NEW i \in Events, NEW m \in Stored, NEW copies \in 1..2,
         Queue(i, m, copies)
  PROVE  /\ out' \in Seq(Item) /\ Len(out') <= BufferLimit
         /\ Len(out) <= Len(out')
         /\ \A k \in 1..Len(out) : out'[k] = out[k]
         /\ \A k \in (Len(out) + 1)..Len(out') : out'[k] = [entry |-> i, msg |-> m]
         /\ refused' = IF Len(out') > Len(out) THEN refused \ {i} ELSE refused \union {i}
<1> DEFINE item == [entry |-> i, msg |-> m]
<1>1. item \in Item BY DEF Item
<1>2. out \in Seq(Item) /\ Len(out) \in Nat /\ Len(out) <= BufferLimit /\ BufferLimit \in Nat
  BY PublishingAssumption DEF PublisherType, QueueType, PublishingTypeOK
<1>3. CASE ~ Accepts BY <1>2, <1>3 DEF Queue
<1>4. CASE Accepts
  <2>1. Len(out) + 1 <= BufferLimit BY <1>2, <1>4 DEF Accepts
  <2>2. CASE copies = 2 /\ Len(out) + 1 < BufferLimit
    <3>1. out' = out \o <<item, item>> /\ refused' = refused \ {i} BY <1>4, <2>2 DEF Queue
    <3>2. <<item, item>> \in Seq(Item) BY <1>1
    <3> HIDE DEF item
    <3>3. out' \in Seq(Item) /\ Len(out') = Len(out) + 2 BY <1>2, <3>1, <3>2
    <3>4. \A k \in 1..Len(out) : out'[k] = out[k] BY <1>2, <3>1, <3>2
    <3>5. \A k \in (Len(out) + 1)..(Len(out) + 2) : out'[k] = item BY <1>2, <3>1, <3>2
    <3>6. \A k \in (Len(out) + 1)..Len(out') : out'[k] = item BY <3>3, <3>5
    <3>7. Len(out') > Len(out) /\ Len(out') <= BufferLimit BY <1>2, <2>2, <3>3
    <3>8. refused' = IF Len(out') > Len(out) THEN refused \ {i} ELSE refused \union {i}
      BY <3>1, <3>7
    <3>9. QED BY <1>2, <3>3, <3>4, <3>6, <3>7, <3>8 DEF item
  <2>3. CASE ~ (copies = 2 /\ Len(out) + 1 < BufferLimit)
    <3>1. out' = Append(out, item) /\ refused' = refused \ {i} BY <1>4, <2>3 DEF Queue
    <3> HIDE DEF item
    <3>2. out' \in Seq(Item) /\ Len(out') = Len(out) + 1 BY <1>1, <1>2, <3>1
    <3>3. \A k \in 1..Len(out) : out'[k] = out[k] BY <1>1, <1>2, <3>1
    <3>4. out'[Len(out) + 1] = item BY <1>1, <1>2, <3>1
    <3>5. QED BY <1>2, <2>1, <3>1, <3>2, <3>3, <3>4 DEF item
  <2>4. QED BY <2>2, <2>3
<1>5. QED BY <1>3, <1>4

\* A message sent while connected reaches the broker's entry or is lost.
LEMMA AtOnceTypes ==
  ASSUME PublisherType, NEW i \in Scheduled, NEW m, SendAtOnce(i, m)
  PROVE  /\ DOMAIN broker' = Scheduled /\ UNCHANGED <<connected, out, handled, refused>>
         /\ broker' = broker \/ broker' = [broker EXCEPT ![i] = m]
  BY DEF SendAtOnce, PublisherType, QueueType

\* An entry that is published goes to the queue if it is event-driven, and
\* straight to the broker if not.
LEMMA PublishEntryKinds ==
  ASSUME PublisherType, NEW copies \in 1..2, PublishEntry(copies)
  PROVE  /\ cursor \in Entries /\ store[Config[cursor].signal] \in Stored
         /\ cursor \in Events =>
              /\ Queue(cursor, store[Config[cursor].signal], copies)
              /\ lastValue' = [lastValue EXCEPT ![cursor] = store[Config[cursor].signal].value]
         /\ cursor \notin Events =>
              /\ SendAtOnce(cursor, store[Config[cursor].signal])
              /\ lastValue' = lastValue
  BY EntriesTypes DEF PublishEntry, Qos, Events, IsEventDriven, PublisherType, QueueType

\* Publishing one entry keeps the types.
LEMMA EntryTypes ==
  ASSUME PublisherType, NEW copies \in 1..2, PublishEntry(copies) PROVE PublisherType'
<1> USE DEF PublisherType, PublishingTypeOK, QueueType
<1> DEFINE m == store[Config[cursor].signal]
<1>1. cursor \in Entries /\ m \in Stored /\ cursor \in Scheduled
  BY PublishEntryKinds, EntriesTypes
<1>2. cursor' \in {-1, 0} \union Entries BY NextEntryTypes DEF PublishEntry
<1>3. /\ age' \in [Scheduled -> Nat]
      /\ \A i \in Scheduled : age'[i] <= IntervalOf(i)
  BY <1>1, EntriesTypes DEF PublishEntry
<1>4. /\ UNCHANGED <<store, dropLeft, toDrop, calm>>
      /\ \A i \in Timed : calm'[i] \in 0..IntervalOf(i)
  BY CalmTypes DEF PublishEntry
<1>5. CASE cursor \in Events
  <2>1. Queue(cursor, m, copies) /\ DOMAIN lastValue' = Events BY <1>5, PublishEntryKinds
  <2> HIDE DEF m
  <2>2. /\ out' \in Seq(Item) /\ Len(out') <= BufferLimit /\ Len(out) <= Len(out')
        /\ refused' \subseteq Events
    BY <1>1, <1>5, <2>1, QueueTypes
  <2>3. UNCHANGED <<connected, handled, broker>> BY <2>1 DEF Queue
  <2>4. handled' \in 0..Len(out') BY <2>2, <2>3
  <2>5. QED BY <1>2, <1>3, <1>4, <2>1, <2>2, <2>3, <2>4
<1>6. CASE cursor \notin Events
  <2>1. SendAtOnce(cursor, m) /\ lastValue' = lastValue BY <1>6, PublishEntryKinds
  <2> HIDE DEF m
  <2>2. DOMAIN broker' = Scheduled /\ UNCHANGED <<connected, out, handled, refused>>
    BY <1>1, <2>1, AtOnceTypes
  <2>3. QED BY <1>2, <1>3, <1>4, <2>1, <2>2
<1>7. QED BY <1>5, <1>6

\* A step of the publish loop keeps the types.
LEMMA LoopTypes ==
  ASSUME PublisherType, Pass PROVE PublisherType'
<1> USE DEF PublisherType, PublishingTypeOK, QueueType
<1>1. ASSUME NEW late \in 1..MaxLate, NEW length \in DropLengths, NEW gap \in DropGaps,
             Wake(late, length, gap)
      PROVE  PublisherType'
  <2>1. late \in Nat /\ length \in Nat /\ gap \in Nat BY PublishingAssumption
  <2>2. Left(dropLeft, late) \in Nat /\ Left(toDrop, late) \in Nat BY <2>1 DEF Left
  <2>3. dropLeft' \in Nat /\ toDrop' \in Nat BY <1>1, <2>1, <2>2 DEF Wake
  <2>4. /\ age' \in [Scheduled -> Nat]
        /\ \A i \in Scheduled : age'[i] <= IntervalOf(i)
    BY <1>1, <2>1, EntriesTypes DEF Wake, Aged, Later
  <2>5. cursor' \in {-1, 0} BY <1>1 DEF Wake
  <2>8. \A i \in Timed : calm'[i] \in 0..IntervalOf(i) BY <1>1, CalmTypes DEF Wake
  <2>6. UNCHANGED <<store, lastValue, connected, out, handled, broker, refused>>
    BY <1>1 DEF Wake, pahoVars
  <2>7. QED BY <2>3, <2>4, <2>5, <2>6, <2>8
<1>2. CASE PublishBatch
  <2>1. HasBatch /\ 0 \in Scheduled BY <1>2 DEF PublishBatch, Scheduled
  <2>2. cursor' \in {-1, 0} \union Entries BY <1>2, NextEntryTypes DEF PublishBatch
  <2>3. /\ age' \in [Scheduled -> Nat]
        /\ \A i \in Scheduled : age'[i] <= IntervalOf(i)
    <3>1. age' = [age EXCEPT ![0] = 0] BY <1>2 DEF PublishBatch
    <3>2. \A i \in Scheduled : age[i] \in Nat /\ IntervalOf(i) \in Nat BY EntriesTypes
    <3>3. QED BY <2>1, <3>1, <3>2
  <2>4. DOMAIN broker' = Scheduled /\ UNCHANGED <<connected, out, handled, refused>>
    BY <1>2, <2>1, AtOnceTypes DEF PublishBatch
  <2>5. /\ UNCHANGED <<store, lastValue, dropLeft, toDrop, calm>>
        /\ \A i \in Timed : calm'[i] \in 0..IntervalOf(i)
    BY <1>2, CalmTypes DEF PublishBatch
  <2>6. QED BY <2>2, <2>3, <2>4, <2>5
<1>3. CASE PassBy
  <2>1. cursor' \in {-1, 0} \union Entries BY <1>3, NextEntryTypes DEF PassBy
  <2>2. /\ UNCHANGED <<store, age, lastValue, dropLeft, toDrop, connected, out, handled, broker, refused>>
        /\ \A i \in Timed : calm'[i] \in 0..IntervalOf(i)
    BY <1>3, CalmTypes DEF PassBy, pahoVars
  <2>3. QED BY <2>1, <2>2
<1>4. QED BY <1>1, <1>2, <1>3, EntryTypes DEF Pass, Publish

\* The steps of paho's thread, of the broker and of the engine.
LEMMA OtherTypes ==
  ASSUME PublisherType,
         \/ \E eq \in Equipment : GeneratorRuns(eq)
         \/ Deliver \/ Acknowledge \/ Disconnect \/ Reconnect
  PROVE  PublisherType'
<1>0. \A i \in Timed : calm'[i] \in 0..IntervalOf(i)
  BY CalmTypes DEF GeneratorRuns, Deliver, Acknowledge, Disconnect, Reconnect
<1> USE DEF PublisherType, PublishingTypeOK, QueueType
<1>1. ASSUME NEW eq \in Equipment, GeneratorRuns(eq) PROVE PublisherType'
  <2>1. PICK new \in Readings[eq] :
          store' = [s \in Signals |-> IF s \in DOMAIN new THEN new[s] ELSE store[s]]
    BY <1>1 DEF GeneratorRuns
  <2>2. \A s \in DOMAIN new : new[s] \in Stored BY DEF Stored
  <2>3. store' \in [Signals -> Stored] BY <2>1, <2>2
  <2>4. QED BY <1>0, <1>1, <2>3 DEF GeneratorRuns, Disturbed, loopVars, pahoVars
<1>2. CASE Deliver
  <2>1. DOMAIN broker' = Scheduled /\ handled' \in 0..Len(out) BY <1>2 DEF Deliver
  <2>2. QED BY <1>0, <1>2, <2>1 DEF Deliver, loopVars
<1>3. CASE Acknowledge
  <2>1. out' = Tail(out) /\ handled > 0 /\ handled' = handled - 1 BY <1>3 DEF Acknowledge
  <2>2. out # <<>> BY <2>1
  <2>3. out' \in Seq(Item) /\ Len(out') = Len(out) - 1 BY <2>1, <2>2
  <2>4. handled' \in 0..Len(out') /\ Len(out') <= BufferLimit
    BY <2>1, <2>3, PublishingAssumption
  <2>5. QED BY <1>0, <1>3, <2>3, <2>4 DEF Acknowledge, loopVars
<1>4. CASE Disconnect
  <2>1. handled' \in 0..Len(out) BY <1>4 DEF Disconnect
  <2>2. QED BY <1>0, <1>4, <2>1 DEF Disconnect, loopVars
<1>5. CASE Reconnect BY <1>0, <1>5 DEF Reconnect, loopVars
<1>6. QED BY <1>1, <1>2, <1>3, <1>4, <1>5

\* So does every step.
LEMMA TypesStep == ASSUME PublisherType, [PublishingNext]_publishingVars PROVE PublisherType'
<1>1. CASE UNCHANGED publishingVars
  BY <1>1 DEF publishingVars, loopVars, pahoVars, PublisherType, PublishingTypeOK, QueueType
<1>2. QED BY <1>1, LoopTypes, OtherTypes DEF PublishingNext

\* The variables keep their types, the ages their intervals and the queue its
\* limit, for every configuration and every timing.
THEOREM PublishingTyped == PublishingSpec => []PublishingTypeOK
<1>1. PublishingInit => PublisherType BY InitTypes
<1>2. PublisherType /\ [PublishingNext]_publishingVars => PublisherType' BY TypesStep
<1>3. PublisherType => PublishingTypeOK BY DEF PublisherType
<1>4. QED BY <1>1, <1>2, <1>3, PTL DEF PublishingSpec

-----------------------------------------------------------------------------
(* What is kept of an event-driven topic.                                  *)

\* The message is the last of its topic in the queue.
IsLast(queue, k) == \A j \in (k + 1)..Len(queue) : queue[j].entry # queue[k].entry

\* The publisher's last value is in the last message queued for the topic or,
\* with none queued, with the broker; and the broker has of each topic the
\* last of the messages that it was handed on this connection.
KeptInv ==
  /\ \A k \in 1..Len(out) : IsLast(out, k) /\ out[k].entry \notin refused =>
       out[k].msg.value = lastValue[out[k].entry]
  /\ \A i \in Events \ refused : Queued(i) = {} /\ lastValue[i] # "none" =>
       broker[i].value = lastValue[i]
  /\ \A k \in 1..handled : (\A j \in (k + 1)..handled : out[j].entry # out[k].entry) =>
       broker[out[k].entry] = out[k].msg

\* Steps that leave queue and last values alone, and the broker's event-driven
\* topics.
LEMMA KeptFrame ==
  ASSUME PublisherType, KeptInv, UNCHANGED <<out, handled, lastValue, refused>>,
         \A i \in Events : broker'[i] = broker[i]
  PROVE  KeptInv'
<1>1. \A k \in 1..Len(out) : out[k].entry \in Events
  BY ItemTypes DEF PublisherType, QueueType
<1>2. \A k \in 1..handled : k \in 1..Len(out)
  BY DEF PublisherType, PublishingTypeOK, QueueType
<1>3. QED BY <1>1, <1>2 DEF KeptInv, IsLast, Queued

\* One or two copies are queued, or the queue refuses them.
LEMMA KeptQueue ==
  ASSUME PublisherType, KeptInv, NEW copies \in 1..2, PublishEntry(copies), cursor \in Events
  PROVE  KeptInv'
<1> DEFINE m == store[Config[cursor].signal]
           item == [entry |-> cursor, msg |-> m]
<1>1. /\ Queue(cursor, m, copies) /\ m \in Stored
      /\ lastValue' = [lastValue EXCEPT ![cursor] = m.value]
  BY PublishEntryKinds
<1>2. UNCHANGED <<handled, broker>> BY <1>1 DEF Queue
<1> HIDE DEF m
<1>3. /\ out' \in Seq(Item) /\ Len(out) <= Len(out')
      /\ \A k \in 1..Len(out) : out'[k] = out[k]
      /\ \A k \in (Len(out) + 1)..Len(out') : out'[k] = item
      /\ refused' = IF Len(out') > Len(out) THEN refused \ {cursor} ELSE refused \union {cursor}
  BY <1>1, QueueTypes
<1>4. /\ out \in Seq(Item) /\ DOMAIN lastValue = Events /\ handled \in 0..Len(out)
  BY DEF PublisherType, QueueType, PublishingTypeOK
<1>5. \A k \in 1..Len(out) : out[k].entry \in Events BY <1>4, ItemTypes
<1>6. \A i \in Events \ {cursor} : lastValue'[i] = lastValue[i] /\ (i \in refused' <=> i \in refused)
  BY <1>1, <1>3, <1>4
<1>7. Len(out) \in Nat /\ Len(out') \in Nat BY <1>3, <1>4
<1>8. ASSUME NEW k \in 1..Len(out'), IsLast(out', k), out'[k].entry \notin refused'
      PROVE  out'[k].msg.value = lastValue'[out'[k].entry]
  <2>1. CASE k > Len(out)
    <3>1. out'[k] = item BY <1>3, <1>7, <2>1
    <3>2. QED BY <1>1, <1>4, <3>1
  <2>2. CASE k <= Len(out)
    <3>1. k \in 1..Len(out) /\ out'[k] = out[k] BY <1>3, <1>7, <2>2
    <3>2. IsLast(out, k)
      <4> SUFFICES ASSUME NEW j \in (k + 1)..Len(out) PROVE out[j].entry # out[k].entry
        BY DEF IsLast
      <4>1. j \in (k + 1)..Len(out') /\ j \in 1..Len(out) BY <1>3, <1>7, <3>1
      <4>2. out'[j] = out[j] BY <1>3, <4>1
      <4>3. QED BY <1>8, <3>1, <4>1, <4>2 DEF IsLast
    <3>3. out[k].entry # cursor
      <4>1. CASE Len(out') > Len(out)
        <5>1. Len(out') \in (k + 1)..Len(out') /\ Len(out') \in (Len(out) + 1)..Len(out')
          BY <1>7, <3>1, <4>1
        <5>2. out'[Len(out')] = item BY <1>3, <5>1
        <5>3. out'[Len(out')].entry = cursor BY <5>2
        <5>4. QED BY <1>8, <3>1, <5>1, <5>3 DEF IsLast
      <4>2. CASE ~ (Len(out') > Len(out)) BY <1>3, <1>8, <3>1, <4>2
      <4>3. QED BY <4>1, <4>2
    <3>4. out[k].entry \in Events \ {cursor} BY <1>5, <3>1, <3>3
    <3>5. QED BY <1>6, <1>8, <3>1, <3>2, <3>4 DEF KeptInv
  <2>3. QED BY <1>7, <2>1, <2>2
<1>9. ASSUME NEW i \in Events \ refused', Queued(i)' = {}, lastValue'[i] # "none"
      PROVE  broker'[i].value = lastValue'[i]
  <2>1. \A k \in 1..Len(out') : out'[k].entry # i BY <1>9 DEF Queued
  <2>2. \A k \in 1..Len(out) : out[k].entry # i BY <1>3, <1>7, <2>1
  <2>3. Queued(i) = {} BY <2>2 DEF Queued
  <2>4. i # cursor
    <3>1. CASE Len(out') > Len(out)
      <4>1. Len(out') \in 1..Len(out') /\ Len(out') \in (Len(out) + 1)..Len(out')
        BY <1>7, <3>1
      <4>2. out'[Len(out')].entry = cursor BY <1>3, <4>1
      <4>3. QED BY <2>1, <4>1, <4>2
    <3>2. CASE ~ (Len(out') > Len(out)) BY <1>3, <3>2
    <3>3. QED BY <3>1, <3>2
  <2>5. QED BY <1>2, <1>6, <1>9, <2>3, <2>4 DEF KeptInv
<1>10. ASSUME NEW k \in 1..handled, \A j \in (k + 1)..handled : out'[j].entry # out'[k].entry
       PROVE  broker[out'[k].entry] = out'[k].msg
  <2>1. \A j \in k..handled : j \in 1..Len(out) BY <1>4
  <2>2. \A j \in k..handled : out'[j] = out[j] BY <1>3, <2>1
  <2>3. out'[k] = out[k] /\ \A j \in (k + 1)..handled : out'[j] = out[j] BY <1>4, <2>2
  <2>4. QED BY <1>10, <2>3 DEF KeptInv
<1>11. QED BY <1>2, <1>8, <1>9, <1>10 DEF KeptInv

\* A delivery to the broker leaves the last change of an event-driven
\* topic in the queue or with the broker.
LEMMA KeptDeliver == ASSUME PublisherType, KeptInv, Deliver PROVE KeptInv'
<1> DEFINE next == out[handled + 1]
<1>1. /\ out \in Seq(Item) /\ DOMAIN broker = Scheduled /\ handled \in Nat
      /\ handled < Len(out) /\ handled' = handled + 1
      /\ broker' = [broker EXCEPT ![next.entry] = next.msg]
      /\ UNCHANGED <<out, lastValue, refused>>
  BY DEF PublisherType, QueueType, PublishingTypeOK, Deliver, loopVars
<1>2. \A k \in 1..Len(out) : out[k].entry \in Events BY <1>1, ItemTypes
<1>3. handled + 1 \in 1..Len(out) BY <1>1
<1>4. next.entry \in Scheduled BY <1>2, <1>3, EntriesTypes
<1>5. ASSUME NEW i \in Events \ refused', Queued(i)' = {}, lastValue'[i] # "none"
      PROVE  broker'[i].value = lastValue'[i]
  <2>1. Queued(i) = {} BY <1>1, <1>5 DEF Queued
  <2>2. next.entry # i BY <1>3, <2>1 DEF Queued
  <2>3. broker'[i] = broker[i] BY <1>1, <2>2
  <2>4. QED BY <1>1, <1>5, <2>1, <2>3 DEF KeptInv
<1>6. ASSUME NEW k \in 1..handled', \A j \in (k + 1)..handled' : out[j].entry # out[k].entry
      PROVE  broker'[out[k].entry] = out[k].msg
  <2>1. CASE k = handled + 1 BY <1>1, <1>4, <2>1
  <2>2. CASE k # handled + 1
    <3>1. k \in 1..handled /\ handled + 1 \in (k + 1)..handled' BY <1>1, <2>2
    <3>2. next.entry # out[k].entry BY <1>6, <3>1
    <3>3. \A j \in (k + 1)..handled : j \in (k + 1)..handled' BY <1>1
    <3>4. broker[out[k].entry] = out[k].msg BY <1>6, <3>1, <3>3 DEF KeptInv
    <3>5. QED BY <1>1, <3>2, <3>4
  <2>3. QED BY <2>1, <2>2
<1>7. \A k \in 1..Len(out') : IsLast(out, k)' /\ out'[k].entry \notin refused' =>
        out'[k].msg.value = lastValue'[out'[k].entry]
  BY <1>1 DEF KeptInv, IsLast
<1>8. QED BY <1>1, <1>5, <1>6, <1>7 DEF KeptInv

\* The first message leaves the queue; the broker has it.
LEMMA KeptAcknowledge == ASSUME PublisherType, KeptInv, Acknowledge PROVE KeptInv'
<1>1. /\ out \in Seq(Item) /\ handled \in 0..Len(out) /\ handled > 0
      /\ out' = Tail(out) /\ handled' = handled - 1
      /\ UNCHANGED <<lastValue, broker, refused>>
  BY DEF PublisherType, QueueType, PublishingTypeOK, Acknowledge, loopVars
<1>2. Len(out) \in Nat /\ Len(out) >= 1 /\ out # <<>> BY <1>1
<1>3. Len(out') = Len(out) - 1 /\ \A k \in 1..(Len(out) - 1) : out'[k] = out[k + 1]
  BY <1>1, <1>2
<1>4. ASSUME NEW k \in 1..Len(out'), IsLast(out', k), out'[k].entry \notin refused'
      PROVE  out'[k].msg.value = lastValue'[out'[k].entry]
  <2>1. k + 1 \in 1..Len(out) /\ out'[k] = out[k + 1] BY <1>2, <1>3
  <2>2. ASSUME NEW j \in (k + 2)..Len(out) PROVE out[j].entry # out[k + 1].entry
    <3>1. j - 1 \in (k + 1)..Len(out') /\ j - 1 \in 1..(Len(out) - 1) BY <1>2, <1>3, <2>1
    <3>2. out'[j - 1] = out[j] BY <1>2, <1>3, <3>1
    <3>3. QED BY <1>4, <2>1, <3>1, <3>2 DEF IsLast
  <2>3. IsLast(out, k + 1) BY <2>2 DEF IsLast
  <2>4. QED BY <1>1, <1>4, <2>1, <2>3 DEF KeptInv
<1>5. ASSUME NEW i \in Events \ refused', Queued(i)' = {}, lastValue'[i] # "none"
      PROVE  broker'[i].value = lastValue'[i]
  <2>1. ASSUME NEW k \in 2..Len(out) PROVE out[k].entry # i
    <3>1. k - 1 \in 1..Len(out') /\ k - 1 \in 1..(Len(out) - 1) BY <1>2, <1>3
    <3>2. out'[k - 1] = out[k] BY <1>2, <1>3, <3>1
    <3>3. QED BY <1>5, <3>1, <3>2 DEF Queued
  <2>2. CASE out[1].entry = i
    <3>1. IsLast(out, 1) /\ 1 \in 1..Len(out) BY <1>2, <2>1, <2>2 DEF IsLast
    <3>2. 1 \in 1..handled /\ \A j \in (1 + 1)..handled : out[j].entry # out[1].entry
      BY <1>1, <2>1, <2>2
    <3>3. broker[i] = out[1].msg BY <2>2, <3>2 DEF KeptInv
    <3>4. out[1].msg.value = lastValue[i] BY <1>1, <1>5, <2>2, <3>1 DEF KeptInv
    <3>5. QED BY <1>1, <3>3, <3>4
  <2>3. CASE out[1].entry # i
    <3>1. \A k \in 1..Len(out) : k = 1 \/ k \in 2..Len(out) BY <1>2
    <3>2. Queued(i) = {} BY <2>1, <2>3, <3>1 DEF Queued
    <3>3. QED BY <1>1, <1>5, <3>2 DEF KeptInv
  <2>4. QED BY <2>2, <2>3
<1>6. ASSUME NEW k \in 1..handled', \A j \in (k + 1)..handled' : out'[j].entry # out'[k].entry
      PROVE  broker'[out'[k].entry] = out'[k].msg
  <2>1. k + 1 \in 1..handled /\ out'[k] = out[k + 1] BY <1>1, <1>2, <1>3
  <2>2. ASSUME NEW j \in (k + 2)..handled PROVE out[j].entry # out[k + 1].entry
    <3>1. j - 1 \in (k + 1)..handled' /\ j - 1 \in 1..(Len(out) - 1) BY <1>1, <1>2, <2>1
    <3>2. out'[j - 1] = out[j] BY <1>2, <1>3, <3>1
    <3>3. QED BY <1>6, <2>1, <3>1, <3>2
  <2>3. \A j \in ((k + 1) + 1)..handled : out[j].entry # out[k + 1].entry BY <2>2
  <2>4. QED BY <1>1, <2>1, <2>3 DEF KeptInv
<1>7. QED BY <1>4, <1>5, <1>6 DEF KeptInv

\* So does every step of the publisher.
LEMMA KeptStep ==
  ASSUME PublisherType, KeptInv, [PublishingNext]_publishingVars PROVE KeptInv'
<1>1. ASSUME NEW i \in Scheduled \ Events, NEW m, SendAtOnce(i, m), lastValue' = lastValue
      PROVE  KeptInv'
  BY <1>1, AtOnceTypes, KeptFrame, EntriesTypes
<1>2. ASSUME NEW copies \in 1..2, PublishEntry(copies), cursor \notin Events PROVE KeptInv'
  BY <1>1, <1>2, PublishEntryKinds, EntriesTypes
<1>3. CASE PublishBatch
  <2>1. 0 \in Scheduled \ Events BY <1>3, EntriesTypes DEF PublishBatch, Scheduled
  <2>2. QED BY <1>1, <1>3, <2>1 DEF PublishBatch
<1>4. CASE PassBy \/ UNCHANGED publishingVars
  BY <1>4, KeptFrame DEF PassBy, publishingVars, loopVars, pahoVars
<1>5. ASSUME NEW late \in 1..MaxLate, NEW length \in DropLengths, NEW gap \in DropGaps,
             Wake(late, length, gap)
      PROVE  KeptInv'
  BY <1>5, KeptFrame DEF Wake, pahoVars
<1>6. ASSUME NEW eq \in Equipment, GeneratorRuns(eq) PROVE KeptInv'
  BY <1>6, KeptFrame DEF GeneratorRuns, loopVars, pahoVars
<1>7. CASE Reconnect BY <1>7, KeptFrame DEF Reconnect, loopVars
<1>8. CASE Disconnect
  <2>1. UNCHANGED <<out, lastValue, broker, refused>> /\ handled' = 0
    BY <1>8 DEF Disconnect, loopVars
  <2>2. QED BY <2>1 DEF KeptInv, IsLast, Queued
<1>9. QED
  BY <1>2, <1>3, <1>4, <1>5, <1>6, <1>7, <1>8, KeptQueue, KeptDeliver, KeptAcknowledge
  DEF PublishingNext, Pass, Publish

\* What the publisher believes to have published of an event-driven topic is
\* kept in the queue or by the broker, through any number of lost connections,
\* for every configuration, queue limit and timing.
THEOREM LastKept == PublishingSpec => []LastIsKept
<1>1. PublishingInit => PublisherType /\ KeptInv
  <2>1. PublishingInit => KeptInv BY DEF PublishingInit, KeptInv
  <2>2. QED BY <2>1, InitTypes
<1>2. PublisherType /\ KeptInv /\ [PublishingNext]_publishingVars => (PublisherType /\ KeptInv)'
  BY TypesStep, KeptStep
<1>3. PublisherType /\ KeptInv => LastIsKept
  <2> SUFFICES ASSUME PublisherType, KeptInv, NEW i \in Events \ refused
               PROVE  IF Queued(i) # {} THEN out[LastOf(Queued(i))].msg.value = lastValue[i]
                      ELSE lastValue[i] # "none" => broker[i].value = lastValue[i]
    BY DEF LastIsKept
  <2>1. CASE Queued(i) # {}
    <3>1. Len(out) \in Nat /\ Queued(i) \in SUBSET (1..Len(out))
      BY DEF PublisherType, QueueType, Queued
    <3>2. \E k \in Queued(i) : \A j \in Queued(i) : j <= k BY <2>1, <3>1, HasGreatest
    <3> DEFINE k == LastOf(Queued(i))
    <3>3. k \in Queued(i) /\ \A j \in Queued(i) : j <= k BY <3>2 DEF LastOf
    <3> HIDE DEF k
    <3>4. k \in 1..Len(out) /\ out[k].entry = i BY <3>3 DEF Queued
    <3>5. ASSUME NEW j \in (k + 1)..Len(out) PROVE out[j].entry # i
      <4>1. j \in 1..Len(out) /\ ~ (j <= k) BY <3>1, <3>4
      <4>2. QED BY <3>3, <4>1 DEF Queued
    <3>6. IsLast(out, k) BY <3>4, <3>5 DEF IsLast
    <3>7. out[k].msg.value = lastValue[i] BY <3>4, <3>6 DEF KeptInv
    <3>8. QED BY <2>1, <3>7 DEF k
  <2>2. CASE Queued(i) = {} BY <2>2 DEF KeptInv
  <2>3. QED BY <2>1, <2>2
<1>4. QED BY <1>1, <1>2, <1>3, PTL DEF PublishingSpec

-----------------------------------------------------------------------------
(* What is on the timed topics.                                            *)

\* The entry has something to publish.
Ready(i) == IF i = 0 THEN AxesPresent ELSE store[Config[i].signal] # Absent

\* The pass has still to come to the entry.
Ahead(i) == cursor # -1 /\ cursor <= i

\* An entry whose topic is out of date has waited at least as long as nothing
\* has been in the way, and once the pass is past it, for less than its
\* interval; without a connection nothing counts.
ShownInv ==
  /\ DOMAIN calm = Timed
  /\ ~ connected => \A i \in Timed : calm[i] = 0
  /\ \A i \in Timed : Ready(i) /\ ~ OnTopic(i) =>
       /\ calm[i] <= age[i]
       /\ Ahead(i) \/ calm[i] < IntervalOf(i)

\* A batch says of its axes what the store has.
LEMMA BatchOnTopic ==
  ASSUME PublisherType, HasBatch, AxesPresent, DOMAIN broker' = Scheduled,
         broker' = [broker EXCEPT ![0] = BatchMessage], store' = store
  PROVE  OnTopic(0)'
<1>1. 0 \in DOMAIN broker BY DEF PublisherType, QueueType, Scheduled
<1>2. broker'[0] = BatchMessage BY <1>1
<1>3. BatchMessage.value = SentinelValue <=>
        \E s \in BatchSignals : store[s].value = SentinelValue
  BY PublishingAssumption DEF BatchMessage
<1>4. \A s \in BatchSignals : store[s].quality \in {"good", "uncertain", "bad"}
  <2>1. ASSUME NEW s \in BatchSignals
        PROVE  store[s].quality \in {"good", "uncertain", "bad"}
    <3>1. s \in Signals /\ store[s] \in Stored
      BY <2>1, BatchSignalsTypes DEF PublisherType, QueueType
    <3>2. Equipment \subseteq DOMAIN Readings BY PublishingAssumption DEF Equipment
    <3>3. \A m \in Stored : m = Absent \/ m.quality \in {"good", "uncertain", "bad"}
      BY <3>2, PublishingAssumption DEF Stored
    <3>4. QED BY <3>1, <3>3 DEF Absent
  <2>2. QED BY <2>1
<1>5. BatchMessage.quality = "good" <=> \A s \in BatchSignals : store[s].quality = "good"
  <2> DEFINE Q == {store[s].quality : s \in BatchSignals}
  <2>1. BatchMessage.quality = Worst(Q) BY DEF BatchMessage
  <2>2. \A q \in Q : q \in {"good", "uncertain", "bad"} BY <1>4
  <2>3. (\A q \in Q : q = "good") <=> \A s \in BatchSignals : store[s].quality = "good" OBVIOUS
  <2> HIDE DEF Q
  <2>4. Worst(Q) = "good" <=> \A q \in Q : q = "good" BY <2>2 DEF Worst
  <2>5. QED BY <2>1, <2>3, <2>4
<1>6. QED BY <1>2, <1>3, <1>5 DEF OnTopic

\* The pass goes on to the next entry and skips none.
LEMMA AheadStep ==
  ASSUME PublisherType, cursor >= 0, NextEntry, NEW i \in Timed, i # cursor
  PROVE  Ahead(i)' <=> Ahead(i)
<1> DEFINE ahead == {j \in Entries : j > cursor}
<1>1. /\ cursor' = IF ahead = {} THEN -1 ELSE FirstOf(ahead)
      /\ ahead \in SUBSET Positions
  BY EntriesTypes DEF NextEntry
<1>2. cursor \in Int /\ i \in Int /\ i >= 0 /\ (i = 0 \/ i \in Entries)
  BY EntriesTypes DEF PublisherType, PublishingTypeOK, Timed, Scheduled, Positions
<1>3. i > cursor => i \in ahead BY <1>2
<1>4. ahead # {} => FirstOf(ahead) \in ahead /\ \A j \in ahead : FirstOf(ahead) <= j
  <2> HIDE DEF ahead
  <2>1. QED BY <1>1, FirstIsIn
<1>5. CASE ahead = {} BY <1>1, <1>2, <1>3, <1>5 DEF Ahead
<1>6. CASE ahead # {}
  <2>1. cursor' = FirstOf(ahead) /\ cursor' \in ahead /\ \A j \in ahead : cursor' <= j
    BY <1>1, <1>4, <1>6
  <2>2. cursor' \in Int /\ cursor' > cursor
    BY <2>1, <1>1 DEF Positions
  <2>3. QED BY <1>2, <1>3, <2>1, <2>2 DEF Ahead
<1>7. QED BY <1>5, <1>6

\* Steps that change neither the store, the ages nor the timed topics.
LEMMA ShownFrame ==
  ASSUME ShownInv, UNCHANGED <<store, age, calm>>, connected => connected',
         \A i \in Timed : broker'[i] = broker[i],
         \A i \in Timed : Ready(i) /\ ~ OnTopic(i) /\ Ahead(i) =>
                            Ahead(i)' \/ calm[i] < IntervalOf(i)
  PROVE  ShownInv'
<1>1. ~ connected' => ~ connected OBVIOUS
<1>2. ASSUME NEW i \in Timed, Ready(i)', ~ OnTopic(i)'
      PROVE  calm[i] <= age[i] /\ (Ahead(i)' \/ calm[i] < IntervalOf(i))
  <2>1. Ready(i) BY <1>2 DEF Ready, AxesPresent
  <2>2. ~ OnTopic(i) BY <1>2 DEF OnTopic
  <2>3. QED BY <2>1, <2>2 DEF ShownInv
<1>3. QED BY <1>1, <1>2 DEF ShownInv

\* Where nothing has counted, nothing can be late.
LEMMA ShownDisturbed ==
  ASSUME PublisherType', Disturbed PROVE ShownInv'
<1>1. \A i \in Timed : age'[i] \in Nat /\ IntervalOf(i) \in Nat \ {0} /\ calm'[i] = 0
  BY EntriesTypes DEF PublisherType, PublishingTypeOK, Timed, Disturbed
<1>2. DOMAIN calm' = Timed BY DEF Disturbed
<1>3. QED BY <1>1, <1>2 DEF ShownInv

\* The loop wakes up: both clocks go on.
LEMMA ShownWake ==
  ASSUME PublisherType, PublisherType', ShownInv,
         NEW late \in 1..MaxLate, NEW length \in DropLengths, NEW gap \in DropGaps,
         Wake(late, length, gap)
  PROVE  ShownInv'
<1>1. CASE dropLeft' > 0 \/ ~ connected BY <1>1, ShownDisturbed DEF Wake
<1>2. CASE ~ (dropLeft' > 0 \/ ~ connected)
  <2>1. /\ calm' = Later(calm, Timed, late) /\ age' = Later(age, Scheduled, late)
        /\ cursor' = 0 /\ UNCHANGED <<store, broker, connected>> /\ connected
    BY <1>2 DEF Wake, Aged, pahoVars
  <2>2. late \in Nat BY PublishingAssumption
  <2>3. ASSUME NEW i \in Timed, Ready(i)', ~ OnTopic(i)'
        PROVE  calm'[i] <= age'[i] /\ Ahead(i)'
    <3>1. Ready(i) BY <2>1, <2>3 DEF Ready, AxesPresent
    <3>2. ~ OnTopic(i) BY <2>1, <2>3 DEF OnTopic
    <3>3. calm[i] <= age[i] BY <3>1, <3>2 DEF ShownInv
    <3>4. /\ i \in Scheduled /\ age[i] \in Nat /\ calm[i] \in Nat
          /\ IntervalOf(i) \in Nat /\ i >= 0
      BY EntriesTypes DEF PublisherType, PublishingTypeOK, Timed, Scheduled, Positions
    <3>5. /\ calm'[i] = IF calm[i] + late < IntervalOf(i) THEN calm[i] + late ELSE IntervalOf(i)
          /\ age'[i] = IF age[i] + late < IntervalOf(i) THEN age[i] + late ELSE IntervalOf(i)
      BY <2>1, <3>4 DEF Later
    <3>6. calm'[i] <= age'[i] BY <2>2, <3>3, <3>4, <3>5
    <3>7. QED BY <2>1, <3>4, <3>6 DEF Ahead
  <2>4. DOMAIN calm' = Timed BY <2>1 DEF Later
  <2>5. connected' BY <2>1
  <2>6. QED BY <2>3, <2>4, <2>5 DEF ShownInv
<1>3. QED BY <1>1, <1>2

\* An entry is published: its topic is up to date, or nothing counted.
LEMMA ShownSend ==
  ASSUME PublisherType, PublisherType', ShownInv, cursor >= 0, NextEntry,
         NEW c \in Timed, c = cursor, NEW m, SendAtOnce(c, m), age' = [age EXCEPT ![c] = 0],
         connected => OnTopic(c)', store' = store, calm' = calm
  PROVE  ShownInv'
<1>1. /\ UNCHANGED connected
      /\ \A i \in Timed \ {c} : broker'[i] = broker[i] /\ age'[i] = age[i]
      /\ c \in Scheduled
  BY AtOnceTypes DEF Timed, PublisherType, QueueType, PublishingTypeOK
<1>2. ASSUME NEW i \in Timed, Ready(i)', ~ OnTopic(i)'
      PROVE  calm'[i] <= age'[i] /\ (Ahead(i)' \/ calm'[i] < IntervalOf(i))
  <2>1. CASE i = c
    <3>1. ~ connected BY <1>2, <2>1
    <3>2. calm[i] = 0 BY <3>1, <2>1 DEF ShownInv
    <3>3. age'[i] \in Nat /\ IntervalOf(i) \in Nat \ {0}
      BY <1>1, <2>1, EntriesTypes DEF PublisherType, PublishingTypeOK
    <3>4. QED BY <3>2, <3>3
  <2>2. CASE i # c
    <3>1. Ready(i) BY <1>2 DEF Ready, AxesPresent
    <3>2. ~ OnTopic(i) BY <1>1, <1>2, <2>2 DEF OnTopic
    <3>3. calm[i] <= age[i] /\ (Ahead(i) \/ calm[i] < IntervalOf(i))
      BY <3>1, <3>2 DEF ShownInv
    <3>4. Ahead(i)' <=> Ahead(i) BY <2>2, AheadStep
    <3>5. QED BY <1>1, <2>2, <3>3, <3>4
  <2>3. QED BY <2>1, <2>2
<1>3. QED BY <1>1, <1>2 DEF ShownInv

\* Every step keeps what is on the timed topics in time.
LEMMA ShownStep ==
  ASSUME PublisherType, ShownInv, [PublishingNext]_publishingVars PROVE ShownInv'
<1>1. PublisherType' BY TypesStep
<1>2. ASSUME NEW eq \in Equipment, GeneratorRuns(eq) PROVE ShownInv'
  <2>1. CASE store' = store
    BY <1>2, <2>1, ShownFrame DEF GeneratorRuns, loopVars, pahoVars, Ahead
  <2>2. CASE store' # store BY <1>1, <1>2, <2>2, ShownDisturbed DEF GeneratorRuns
  <2>3. QED BY <2>1, <2>2
<1>3. ASSUME NEW late \in 1..MaxLate, NEW length \in DropLengths, NEW gap \in DropGaps,
             Wake(late, length, gap)
      PROVE  ShownInv'
  BY <1>1, <1>3, ShownWake
<1>4. CASE PublishBatch
  <2>1. /\ cursor = 0 /\ NextEntry /\ HasBatch /\ AxesPresent /\ SendAtOnce(0, BatchMessage)
        /\ age' = [age EXCEPT ![0] = 0] /\ store' = store /\ calm' = calm
    BY <1>4 DEF PublishBatch
  <2>2. 0 \in Timed BY <2>1, EntriesTypes DEF Timed, Scheduled
  <2>3. connected => OnTopic(0)'
    BY <2>1, BatchOnTopic, AtOnceTypes, <2>2 DEF SendAtOnce, Timed
  <2>4. ASSUME NEW c \in Timed, c = 0, NEW m, m = BatchMessage PROVE ShownInv'
    <3>1. (OnTopic(c) <=> OnTopic(0))' BY <2>4
    <3>2. SendAtOnce(c, m) /\ age' = [age EXCEPT ![c] = 0] /\ c = cursor /\ cursor >= 0 BY <2>1, <2>4
    <3>3. connected => OnTopic(c)' BY <2>3, <3>1
    <3>4. QED BY <1>1, <2>1, <3>2, <3>3, ShownSend
  <2>5. QED BY <2>2, <2>4
<1>5. ASSUME NEW copies \in 1..2, PublishEntry(copies) PROVE ShownInv'
  <2>1. /\ cursor \in Entries /\ cursor >= 0 /\ cursor # 0 /\ NextEntry
        /\ age' = [age EXCEPT ![cursor] = 0] /\ store' = store /\ calm' = calm
    BY <1>5, EntriesTypes DEF PublishEntry, Positions
  <2>2. CASE cursor \in Events
    <3>1. UNCHANGED <<connected, broker>> BY <1>5, <2>2, PublishEntryKinds DEF Queue
    <3>2. \A i \in Timed : i # cursor BY <2>2 DEF Timed
    <3>3. \A i \in Timed : age'[i] = age[i]
      BY <2>1, <3>2 DEF PublisherType, PublishingTypeOK, Timed
    <3>4. \A i \in Timed : Ahead(i)' <=> Ahead(i) BY <2>1, <3>2, AheadStep
    <3>5. \A i \in Timed : Ready(i)' => Ready(i) BY <2>1 DEF Ready, AxesPresent
    <3>6. \A i \in Timed : OnTopic(i) => OnTopic(i)' BY <2>1, <3>1 DEF OnTopic
    <3>7. QED BY <2>1, <3>1, <3>3, <3>4, <3>5, <3>6 DEF ShownInv
  <2>3. CASE cursor \notin Events
    <3> DEFINE m == store[Config[cursor].signal]
    <3>1. PICK c \in Timed : c = cursor BY <2>1, <2>3, EntriesTypes DEF Timed
    <3>2. SendAtOnce(c, m) BY <1>5, <2>3, <3>1, PublishEntryKinds
    <3>3. c # 0 /\ m = store[Config[c].signal] BY <2>1, <3>1
    <3> HIDE DEF m
    <3>4. connected => broker'[c] = m
      BY <3>1, <3>2 DEF SendAtOnce, PublisherType, QueueType, Timed
    <3>5. connected => OnTopic(c)' BY <2>1, <3>3, <3>4 DEF OnTopic
    <3>6. QED BY <1>1, <2>1, <3>1, <3>2, <3>5, ShownSend
  <2>4. QED BY <2>2, <2>3
<1>6. CASE PassBy
  <2>1. /\ cursor >= 0 /\ NextEntry /\ ~ Due(cursor)
        /\ (cursor = 0 /\ HasBatch) => ~ (age[0] = BatchInterval /\ AxesPresent)
        /\ UNCHANGED <<store, age, calm, connected, broker>>
    BY <1>6 DEF PassBy, pahoVars
  <2>2. ASSUME NEW i \in Timed, Ready(i), ~ OnTopic(i), Ahead(i)
        PROVE  Ahead(i)' \/ calm[i] < IntervalOf(i)
    <3>1. CASE i # cursor BY <2>1, <2>2, <3>1, AheadStep
    <3>2. CASE i = cursor
      <4>1. age[i] # IntervalOf(i)
        <5>1. CASE i = 0
          BY <2>1, <2>2, <3>2, <5>1, EntriesTypes DEF Ready, IntervalOf, Timed
        <5>2. CASE i # 0
          BY <2>1, <2>2, <3>2, <5>2, EntriesTypes DEF Ready, Due, Timed, Scheduled
        <5>3. QED BY <5>1, <5>2
      <4>2. calm[i] <= age[i] BY <2>2 DEF ShownInv
      <4>3. age[i] \in Nat /\ calm[i] \in Nat /\ IntervalOf(i) \in Nat /\ age[i] <= IntervalOf(i)
        BY EntriesTypes DEF PublisherType, PublishingTypeOK, Timed
      <4>4. QED BY <4>1, <4>2, <4>3
    <3>3. QED BY <3>1, <3>2
  <2>3. QED BY <2>1, <2>2, ShownFrame
<1>7. CASE Deliver
  <2>1. handled + 1 \in 1..Len(out) BY <1>7 DEF Deliver, PublisherType, PublishingTypeOK, QueueType
  <2>2. out[handled + 1].entry \in Events BY <2>1, ItemTypes DEF PublisherType, QueueType
  <2>3. \A i \in Timed : broker'[i] = broker[i]
    BY <1>7, <2>2 DEF Deliver, Timed, PublisherType, QueueType
  <2>4. QED BY <1>7, <2>3, ShownFrame DEF Deliver, loopVars, Ahead
<1>8. CASE Disconnect BY <1>1, <1>8, ShownDisturbed DEF Disconnect
<1>9. CASE Acknowledge BY <1>9, ShownFrame DEF Acknowledge, loopVars, Ahead
<1>10. CASE Reconnect BY <1>10, ShownFrame DEF Reconnect, loopVars, Ahead
<1>11. CASE UNCHANGED publishingVars
  BY <1>11, ShownFrame DEF publishingVars, loopVars, pahoVars, Ahead
<1>12. QED
  BY <1>2, <1>3, <1>4, <1>5, <1>6, <1>7, <1>8, <1>9, <1>10, <1>11
  DEF PublishingNext, Pass, Publish

\* What the store has, sentinels and their qualities too, is on a timed topic
\* one interval after nothing was in the way any more, for every configuration,
\* every lateness of the passes and every pattern of drops.
THEOREM ShownInTimeHolds == PublishingSpec => []ShownInTime
<1>1. PublishingInit => PublisherType /\ ShownInv
  <2> SUFFICES ASSUME PublishingInit PROVE ShownInv BY InitTypes
  <2>1. PublisherType BY InitTypes
  <2>2. \A i \in Timed : calm[i] = 0 /\ age[i] \in Nat /\ IntervalOf(i) \in Nat \ {0}
    BY <2>1, EntriesTypes DEF PublishingInit, Timed, PublisherType, PublishingTypeOK
  <2>3. DOMAIN calm = Timed BY DEF PublishingInit
  <2>4. QED BY <2>2, <2>3 DEF ShownInv
<1>2. PublisherType /\ ShownInv /\ [PublishingNext]_publishingVars => (PublisherType /\ ShownInv)'
  BY TypesStep, ShownStep
<1>3. PublisherType /\ ShownInv => ShownInTime
  <2> SUFFICES ASSUME PublisherType, ShownInv, cursor = -1,
                      NEW i \in Timed, calm[i] = IntervalOf(i)
               PROVE  OnTopic(i) \/ ~ Ready(i)
    BY DEF ShownInTime, Ready
  <2>1. IntervalOf(i) \in Nat BY EntriesTypes DEF Timed
  <2>2. ~ Ahead(i) BY DEF Ahead
  <2>3. QED BY <2>1, <2>2 DEF ShownInv
<1>4. QED BY <1>1, <1>2, <1>3, PTL DEF PublishingSpec

=============================================================================
