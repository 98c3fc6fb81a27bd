----------------------------- MODULE Publishing -----------------------------
(***************************************************************************)
(* The publish loop of MqttPublisher: the topics it derives from the       *)
(* configuration, the drops that CommDropScheduler makes it sit out, the   *)
(* queue of the paho client, and what the broker passes on.                *)
(*                                                                         *)
(* The loop awaits nothing within a pass, so the engine writes the store   *)
(* only between two passes; paho's network thread and the broker take      *)
(* their steps at any time, also between two calls of publish().  Time is  *)
(* counted in passes of the loop (0.1 s) and kept relative: the age of an  *)
(* entry since its last publication, the ticks left of a drop and the      *)
(* ticks to the next one.  A pass may come up to MaxLate ticks after the   *)
(* one before.                                                             *)
(***************************************************************************)
EXTENDS Integers, Sequences, FiniteSets

CONSTANTS Config,         \* sequence of the configured signals
          PerAxis,        \* vibration_per_axis_enabled
          EventDriven,    \* relative topics published on change, with QoS 1
          Vibration,      \* base topics under vibration/
          BufferLimit,    \* buffer_limit of the paho client
          Readings,       \* what generators and injectors write, by equipment
          SentinelValue,  \* the value of a disconnected sensor
          Drops,          \* mqtt_drop.enabled
          DropLengths,    \* durations of a drop
          DropGaps,       \* times from one drop to the next
          MaxLate         \* longest time between two passes

ASSUME PublishingAssumption ==
  /\ Config \in Seq([signal : STRING, equipment : STRING, enabled : BOOLEAN,
                     topic : STRING, axis : {"none", "x", "y", "z"},
                     interval : Nat \ {0}])
  /\ PerAxis \in BOOLEAN /\ Drops \in BOOLEAN
  /\ BufferLimit \in Nat \ {0} /\ MaxLate \in Nat \ {0}
  /\ DropLengths \subseteq Nat /\ DropGaps \subseteq Nat
  /\ DropGaps # {}
  /\ \A eq \in DOMAIN Readings : \A new \in Readings[eq] : \A s \in DOMAIN new :
       new[s].quality \in {"good", "uncertain", "bad"}
  /\ SentinelValue # "xyz"                  \* what stands for three good axes
  /\ {Config[i].equipment : i \in 1..Len(Config)} \subseteq DOMAIN Readings

Absent == [value |-> "absent", quality |-> "good"]     \* no entry in the store
Unsent == [value |-> "unsent", quality |-> "good"]     \* nothing on the topic

Signals == {Config[i].signal : i \in 1..Len(Config)}
Equipment == {Config[i].equipment : i \in 1..Len(Config)}

-----------------------------------------------------------------------------
(* The topic map. *)

HasTopic(c) == c.enabled /\ c.topic # "none"
IsVibration(c) == c.topic \in Vibration

\* Entries of build_topic_map, as positions in the configuration.
IsEntry(c) == HasTopic(c) /\ (IsVibration(c) => PerAxis)

Entries == {i \in 1..Len(Config) : IsEntry(Config[i])}

IsEventDriven(c) == c.topic \in EventDriven
Qos(c) == IF c.topic \in EventDriven THEN 1 ELSE 0
Retain(c) == ~ IsVibration(c)

\* Positions of the signals that give an axis of a base topic; a later one
\* takes the place of an earlier one of the same axis.
AxisAt(base, a) ==
  {i \in 1..Len(Config) : HasTopic(Config[i]) /\ Config[i].topic = base /\ Config[i].axis = a}

Complete(base) == \A a \in {"x", "y", "z"} : AxisAt(base, a) # {}

LastOf(S) == CHOOSE i \in S : \A j \in S : j <= i
FirstOf(S) == CHOOSE i \in S : \A j \in S : i <= j

FirstSeen(base) == FirstOf(UNION {AxisAt(base, a) : a \in {"x", "y", "z"}})

CompleteBases == {b \in Vibration : Complete(b)}

\* build_batch_vibration_entry: the first complete group of the configuration.
HasBatch == CompleteBases # {}
BatchBase == CHOOSE b \in CompleteBases :
               \A c \in CompleteBases : FirstSeen(b) <= FirstSeen(c)
BatchAxis(a) == Config[LastOf(AxisAt(BatchBase, a))]
BatchSignals == {BatchAxis(a).signal : a \in {"x", "y", "z"}}
BatchInterval == BatchAxis("x").interval

\* What has a schedule: position 0 stands for the batch entry.
Scheduled == Entries \union (IF HasBatch THEN {0} ELSE {})

IntervalOf(i) == IF i = 0 THEN BatchInterval ELSE Config[i].interval

VARIABLES store,          \* SignalStore
          age,            \* ticks since last_published, up to the interval
          lastValue,      \* last_value of the event-driven entries
          dropLeft,       \* ticks to _drop_end
          toDrop,         \* ticks to _next_drop
          cursor,         \* entry the pass has come to; -1 between passes
          connected,      \* paho has a connection
          out,            \* paho: QoS 1 messages not yet acknowledged
          handled,        \* how many of out the broker has passed on
          broker,         \* last message the broker passed on, by topic
          refused,        \* history: whose last change the queue refused
          calm            \* history: ticks that nothing got in the way of an entry

loopVars == <<age, lastValue, dropLeft, toDrop, cursor>>
pahoVars == <<connected, out, handled, broker, refused>>
publishingVars == <<store, loopVars, pahoVars, calm>>

Events == {i \in Entries : IsEventDriven(Config[i])}
Timed == Scheduled \ Events

\* Time passes for the entries of S, each up to its interval.
Later(t, S, late) ==
  [i \in S |-> IF t[i] + late < IntervalOf(i) THEN t[i] + late ELSE IntervalOf(i)]

\* The store changes, the connection is lost or a drop is active.
Disturbed == calm' = [i \in Timed |-> 0]

-----------------------------------------------------------------------------
(* The engine: a generator writes the signals of its equipment, and the    *)
(* injectors what they override, in one step between two passes.           *)
GeneratorRuns(eq) ==
  /\ cursor = -1
  /\ \E new \in Readings[eq] :
       store' = [s \in Signals |-> IF s \in DOMAIN new THEN new[s] ELSE store[s]]
  /\ IF store' = store THEN calm' = calm ELSE Disturbed
  /\ UNCHANGED <<loopVars, pahoVars>>

-----------------------------------------------------------------------------
(* CommDropScheduler. *)

Left(t, d) == IF t > d THEN t - d ELSE 0

\* Mutant of Begins: the time of the next drop is not waited for.
BeginsAlways(to, left) == Drops /\ left = 0

\* update(): whether a drop begins at this pass.
Begins(to, left) == Drops /\ to = 0 /\ left = 0

-----------------------------------------------------------------------------
(* The paho client. *)

Accepts == Len(out) < BufferLimit

\* A QoS 0 message is sent if there is a connection, and lost if not.
SendAtOnce(i, m) ==
  /\ broker' = IF connected THEN [broker EXCEPT ![i] = m] ELSE broker
  /\ UNCHANGED <<connected, out, handled, refused>>

\* A QoS 1 message is queued until it is acknowledged, unless the queue is
\* full; publish() reports that in a return value that the publisher ignores.
Queue(i, m, copies) ==
  /\ IF Accepts
       THEN /\ out' = IF copies = 2 /\ Len(out) + 1 < BufferLimit
                        THEN out \o <<[entry |-> i, msg |-> m], [entry |-> i, msg |-> m]>>
                        ELSE Append(out, [entry |-> i, msg |-> m])
            /\ refused' = refused \ {i}
       ELSE /\ out' = out
            /\ refused' = refused \union {i}
  /\ UNCHANGED <<connected, handled, broker>>

\* The network thread and the broker.  What was not acknowledged before a
\* connection was lost is sent again, from the beginning of the queue.
Deliver ==
  /\ connected
  /\ handled < Len(out)
  /\ handled' = handled + 1
  /\ broker' = [broker EXCEPT ![out[handled + 1].entry] = out[handled + 1].msg]
  /\ UNCHANGED <<store, loopVars, connected, out, refused, calm>>

Acknowledge ==
  /\ connected
  /\ handled > 0
  /\ out' = Tail(out)
  /\ handled' = handled - 1
  /\ UNCHANGED <<store, loopVars, connected, broker, refused, calm>>

Disconnect ==
  /\ connected
  /\ connected' = FALSE
  /\ handled' = 0
  /\ Disturbed
  /\ UNCHANGED <<store, loopVars, out, broker, refused>>

Reconnect ==
  /\ ~ connected
  /\ connected' = TRUE
  /\ UNCHANGED <<store, loopVars, out, handled, broker, refused, calm>>

-----------------------------------------------------------------------------
(* The publish loop. *)

\* Mutant of Aged: passes are counted, however late they come.
AgedByPass(late) == Later(age, Scheduled, 1)

\* now - last_published of every entry.
Aged(late) == Later(age, Scheduled, late)

\* Mutant of Wake: the last values are taken over although nothing is sent.
WakeForgetful(late, length, gap) ==
  LET left == Left(dropLeft, late)
      to == Left(toDrop, late)
  IN /\ cursor = -1
     /\ age' = Aged(late)
     /\ IF Begins(to, left)
          THEN dropLeft' = length /\ toDrop' = length + gap
          ELSE dropLeft' = left /\ toDrop' = to
     /\ cursor' = IF dropLeft' > 0 THEN -1 ELSE 0
     /\ IF dropLeft' > 0 \/ ~ connected THEN Disturbed ELSE calm' = Later(calm, Timed, late)
     /\ lastValue' = IF dropLeft' > 0
                       THEN [i \in Events |-> store[Config[i].signal].value] ELSE lastValue
     /\ UNCHANGED <<store, pahoVars>>

\* The loop wakes up, asks the scheduler, and unless a drop is active walks
\* through its entries.
Wake(late, length, gap) ==
  LET left == Left(dropLeft, late)
      to == Left(toDrop, late)
  IN /\ cursor = -1
     /\ age' = Aged(late)
     /\ IF Begins(to, left)
          THEN dropLeft' = length /\ toDrop' = length + gap
          ELSE dropLeft' = left /\ toDrop' = to
     /\ cursor' = IF dropLeft' > 0 THEN -1 ELSE 0
     /\ IF dropLeft' > 0 \/ ~ connected THEN Disturbed ELSE calm' = Later(calm, Timed, late)
     /\ UNCHANGED <<store, lastValue, pahoVars>>

Worst(S) ==
  CASE "bad" \in S -> "bad"
    [] "bad" \notin S /\ "uncertain" \in S -> "uncertain"
    [] OTHER -> "good"

\* The values of a batch are abstracted to whether one is the sentinel.
BatchMessage ==
  [value |-> IF \E s \in BatchSignals : store[s].value = SentinelValue THEN SentinelValue ELSE "xyz",
   quality |-> Worst({store[s].quality : s \in BatchSignals})]

AxesPresent == \A s \in BatchSignals : store[s] # Absent

NextEntry ==
  LET ahead == {i \in Entries : i > cursor}
  IN cursor' = IF ahead = {} THEN -1 ELSE FirstOf(ahead)

PublishBatch ==
  /\ cursor = 0 /\ NextEntry
  /\ HasBatch /\ age[0] = BatchInterval /\ AxesPresent
  /\ SendAtOnce(0, BatchMessage)
  /\ age' = [age EXCEPT ![0] = 0]
  /\ UNCHANGED <<store, lastValue, dropLeft, toDrop, calm>>

\* An entry whose signal is in the store is due when its value changed, or
\* when its interval has passed.
Due(i) ==
  /\ i \in Entries
  /\ store[Config[i].signal] # Absent
  /\ IF i \in Events THEN store[Config[i].signal].value # lastValue[i]
                     ELSE age[i] = IntervalOf(i)

\* The entry is marked as published whatever publish() returned; the copy is
\* the duplicate that a sensor gateway sends.
PublishEntry(copies) ==
  /\ cursor \in Entries /\ Due(cursor) /\ NextEntry
  /\ LET m == store[Config[cursor].signal] IN
       /\ IF Qos(Config[cursor]) = 1 THEN Queue(cursor, m, copies) ELSE SendAtOnce(cursor, m)
       /\ lastValue' = IF cursor \in Events THEN [lastValue EXCEPT ![cursor] = m.value]
                                            ELSE lastValue
  /\ age' = [age EXCEPT ![cursor] = 0]
  /\ UNCHANGED <<store, dropLeft, toDrop, calm>>

PassBy ==
  /\ cursor >= 0 /\ NextEntry
  /\ ~ Due(cursor)
  /\ (cursor = 0 /\ HasBatch) => ~ (age[0] = BatchInterval /\ AxesPresent)
  /\ UNCHANGED <<store, age, lastValue, dropLeft, toDrop, pahoVars, calm>>

-----------------------------------------------------------------------------
PublishingInit ==
  /\ store = [s \in Signals |-> Absent]
  /\ age = [i \in Scheduled |-> IntervalOf(i)]
  /\ lastValue = [i \in Events |-> "none"]
  /\ dropLeft = 0
  /\ toDrop \in DropGaps
  /\ cursor = -1
  /\ connected = TRUE
  /\ out = <<>>
  /\ handled = 0
  /\ broker = [i \in Scheduled |-> Unsent]
  /\ refused = {}
  /\ calm = [i \in Timed |-> 0]

Publish == \/ PublishBatch
           \/ \E copies \in 1..2 : PublishEntry(copies)
           \/ PassBy

Pass == \/ \E late \in 1..MaxLate, length \in DropLengths, gap \in DropGaps :
             Wake(late, length, gap)
        \/ Publish

PublishingNext ==
  \/ \E eq \in Equipment : GeneratorRuns(eq)
  \/ Pass
  \/ Deliver \/ Acknowledge \/ Disconnect \/ Reconnect

PublishingSpec == PublishingInit /\ [][PublishingNext]_publishingVars

(***************************************************************************)
(* The loop and the network thread run for ever, and paho reconnects.  The *)
(* gap before a drop is drawn from an exponential distribution, so among   *)
(* endlessly many drops there are endlessly many followed by a gap longer  *)
(* than a pass can be late.                                                *)
(***************************************************************************)
LongGap == dropLeft' > dropLeft /\ toDrop' - dropLeft' > MaxLate

FairPublishingSpec ==
  /\ PublishingSpec
  /\ WF_publishingVars(Pass) /\ SF_publishingVars(Pass /\ LongGap)
  /\ WF_publishingVars(Deliver) /\ WF_publishingVars(Acknowledge) /\ WF_publishingVars(Reconnect)

-----------------------------------------------------------------------------
\* The variables keep their types, and the ages their intervals.
PublishingTypeOK ==
  /\ age \in [Scheduled -> Nat]
  /\ \A i \in Scheduled : age[i] <= IntervalOf(i)
  /\ dropLeft \in Nat /\ toDrop \in Nat
  /\ cursor \in {-1, 0} \union Entries
  /\ connected \in BOOLEAN
  /\ Len(out) <= BufferLimit
  /\ handled \in 0..Len(out)
  /\ refused \subseteq Events
  /\ \A i \in Timed : calm[i] \in 0..IntervalOf(i)

\* Where the last message of an event-driven entry is: the queue, or the broker.
Queued(i) == {k \in 1..Len(out) : out[k].entry = i}

\* What the publisher believes to have published of an event-driven topic is
\* kept until every subscriber can read it: it is the last message queued for
\* the topic or, with none queued, the one the broker retains, through any
\* number of lost connections, unless the full queue refused it.
LastIsKept ==
  \A i \in Events \ refused :
    IF Queued(i) # {} THEN out[LastOf(Queued(i))].msg.value = lastValue[i]
    ELSE lastValue[i] # "none" => broker[i].value = lastValue[i]

\* What is on a topic is what the store has: for a batch, a sentinel if one of
\* its axes has one, and a good quality only if all three have.
OnTopic(i) ==
  IF i = 0
  THEN /\ broker[0].value = SentinelValue <=>
            \E s \in BatchSignals : store[s].value = SentinelValue
       /\ broker[0].quality = "good" <=> \A s \in BatchSignals : store[s].quality = "good"
  ELSE broker[i] = store[Config[i].signal]

\* A reading that an injector or a fault spoils is on its timed topic within
\* one interval, with the quality that it was written with, and so is the good
\* one after it: for a batch too, which takes its time from one of three axes,
\* and however late the passes come, once no drop and no lost connection is in
\* the way.
ShownInTime ==
  cursor = -1 =>
    \A i \in Timed : calm[i] = IntervalOf(i) =>
      OnTopic(i) \/ (IF i = 0 THEN ~ AxesPresent ELSE store[Config[i].signal] = Absent)

\* Once the store does not change any more and the connection holds, whoever
\* subscribes to a retained topic gets its current value, whatever drops and
\* lost connections there were, unless the queue refused the last change.
Shown(i) ==
  store[Config[i].signal] # Absent => broker[i].value = store[Config[i].signal].value

TopicsSettle ==
  (<>[]connected /\ <>[][store' = store]_store) =>
    \A i \in Entries : Retain(Config[i]) => <>[](Shown(i) \/ i \in refused)

=============================================================================
