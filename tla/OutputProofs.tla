---------------------------- MODULE OutputProofs ----------------------------
(***************************************************************************)
(* Theorems about the two ends of a line: BatchRun, which writes files, for *)
(* any buffer size, counter and duration, and CoderLine, which prints codes, *)
(* for any number of cartridge scenarios and any ink levels.  The state of *)
(* either is out of the reach of the other.                                *)
(***************************************************************************)
EXTENDS BatchRun, CoderLine, TLAPS

-----------------------------------------------------------------------------
(***************************************************************************)
(* BatchRun.                                                               *)
(***************************************************************************)
(* The types. *)

\* What exceeds the rollover value once is carried over.
LEMMA WrapsOnce ==
  ASSUME NEW v \in 0..(2 * Rollover - 1)
  PROVE  /\ Wrapped(v) \in 0..(Rollover - 1)
         /\ Wrapped(v) = IF v >= Rollover THEN v - Rollover ELSE v
  BY BatchAssumption DEF Wrapped

\* The counter in a tick, whether the generator runs or rests.
CounterStep(now, change, speed) ==
  IF Runs(now) THEN Generate(now, change, speed) ELSE Rest(change)

\* Either keeps the types of the counter and of the generator's last run.
LEMMA CounterTypes ==
  ASSUME BatchTypeOK, NEW change \in BOOLEAN, NEW speed \in Speeds,
         CounterStep(clock + 1, change, speed)
  PROVE  /\ counter' \in 0..(Rollover - 1) /\ batch' \in Nat
         /\ total' \in Nat /\ wraps' \in Nat
         /\ lastRun' \in 0..(clock + 1)
         /\ lastRun' = IF Runs(clock + 1) THEN clock + 1 ELSE lastRun
<1> USE BatchAssumption DEF BatchTypeOK, CounterStep
<1>1. CASE Runs(clock + 1)
  <2> DEFINE sum == (IF change THEN 0 ELSE counter) + speed
  <2>1. sum \in 0..(2 * Rollover - 1) /\ speed \in Nat OBVIOUS
  <2>2. Wrapped(sum) \in 0..(Rollover - 1) BY <2>1, WrapsOnce
  <2>3. counter' \in {0, Wrapped(sum)} BY <1>1 DEF Generate
  <2>4. total' \in Nat /\ wraps' \in Nat BY <1>1, <2>1 DEF Generate, RolloverLogged
  <2>5. lastRun' = clock + 1 /\ batch' \in Nat BY <1>1 DEF Generate
  <2>6. QED BY <1>1, <2>2, <2>3, <2>4, <2>5
<1>2. CASE ~ Runs(clock + 1)
  <2>1. lastRun \in 0..clock BY <1>2 DEF Runs
  <2>2. Rest(change) BY <1>2
  <2>3. counter' \in 0..(Rollover - 1) /\ batch' \in Nat BY <2>2 DEF Rest
  <2>4. total' \in Nat /\ wraps' \in Nat BY <2>2 DEF Rest
  <2>5. lastRun' = lastRun BY <2>2 DEF Rest
  <2>6. lastRun' \in 0..(clock + 1) BY <2>1, <2>5
  <2>7. QED BY <1>2, <2>3, <2>4, <2>5, <2>6
<1>3. QED BY <1>1, <1>2

\* What a tick leaves in the store are values.
LEMMA StoreTypes ==
  ASSUME BatchTypeOK, NEW disconnected, NEW coil \in Coils,
         counter' \in Nat, batch' \in Nat
  PROVE  Injected(Generated(clock + 1, coil), disconnected) \in [Signals -> StoreValues]
<1>1. Num(counter') \in Values /\ Str(batch') \in Values /\ Sentinel \in Values
  BY BatchAssumption DEF Num, Str, Values
<1>2. coil # Null => coil \in Values BY DEF Coils, Num, Values
<1>3. store \in [Signals -> StoreValues] BY DEF BatchTypeOK
<1>4. WithCoil(coil) \in [Signals -> StoreValues] BY <1>2, <1>3 DEF WithCoil, StoreValues
<1>5. Generated(clock + 1, coil) \in [Signals -> StoreValues]
  BY <1>1, <1>4 DEF Generated, StoreValues
<1>6. QED BY <1>1, <1>5 DEF Injected, StoreValues

\* The rows of a tick.
LEMMA RowTypes ==
  ASSUME BatchTypeOK, NEW now \in Nat, NEW values \in [Signals -> StoreValues]
  PROVE  /\ NewRows(now, values) \in Seq(Rows)
         /\ Remembered(values) \in [Signals -> Values \union {Null}]
<1> USE DEF BatchTypeOK
<1>1. ParquetRow(now, values) \in Rows
  <2>1. [s \in Signals |-> IF values[s].type = "nan" THEN Null ELSE values[s]]
          \in [Signals -> Values \union {Null, Absent}]
    BY DEF StoreValues
  <2>2. {s \in EventDriven : values[s] # Absent /\ ~ Unchanged(s, values[s])} \in SUBSET EventDriven
    OBVIOUS
  <2>3. QED BY <2>1, <2>2 DEF ParquetRow, Rows
<1>2. CsvRows(now, values) \in Seq(Rows)
  <2>1. \A s \in Signals : values[s].type \notin {"nan", "absent"} =>
          [time |-> now, signal |-> s, value |-> values[s]] \in Rows
    BY DEF Rows, StoreValues, Absent
  <2>2. "count" \in Signals /\ "id" \in Signals /\ "coil" \in Signals BY DEF Signals
  <2>3. QED BY <2>1, <2>2 DEF CsvRows
<1>3. Remembered(values) \in [Signals -> Values \union {Null}] BY DEF Remembered, StoreValues
<1>4. QED BY <1>1, <1>2, <1>3 DEF NewRows

\* A flush that works, or fails, keeps the types of file and buffer.
LEMMA FlushTypes ==
  ASSUME BatchTypeOK, NEW rows \in Seq(Rows), NEW upTo,
         FlushWorks(rows, upTo) \/ FlushFails(rows)
  PROVE  /\ file' \in Seq(Rows) /\ buffer' \in Seq(Rows)
         /\ buffer' \in {<<>>, rows} /\ saved' \in {saved, upTo}
<1> USE DEF BatchTypeOK
<1>1. CASE FlushWorks(rows, upTo) BY <1>1 DEF FlushWorks, AfterFlush
<1>2. CASE FlushFails(rows)
  <2>1. file' \in Seq(Rows)
    <3>1. ASSUME NEW k \in 0..Len(rows) PROVE file \o SubSeq(rows, 1, k) \in Seq(Rows)
      OBVIOUS
    <3>2. QED BY <1>2, <3>1 DEF FlushFails
  <2>2. QED BY <1>2, <2>1 DEF FlushFails
<1>3. QED BY <1>1, <1>2

\* The three ways a tick ends.
Buffered(rows) ==
  /\ buffer' = rows
  /\ saved' = IF rows = <<>> THEN clock + 1 ELSE saved
  /\ main' \in {"closing", "awaiting"}
  /\ UNCHANGED <<file, types, fault>>

Flushed(rows) ==
  /\ Len(rows) >= BufferSize
  /\ FlushWorks(rows, clock + 1)
  /\ main' \in {"closing", "awaiting"}
  /\ UNCHANGED fault

Failed(rows) == rows # <<>> /\ FlushFails(rows) /\ main' = "raising"

\* A tick, in parts.
LEMMA TickParts ==
  ASSUME BatchTypeOK, NEW coil \in Coils, NEW change \in BOOLEAN, NEW speed \in Speeds,
         NEW disconnected \in SUBSET Disconnectable, Tick(coil, change, speed, disconnected)
  PROVE  \E values \in [Signals -> StoreValues], rows \in Seq(Rows) :
           /\ values = Injected(Generated(clock + 1, coil), disconnected)
           /\ rows = buffer \o NewRows(clock + 1, values)
           /\ main = "ticking" /\ clock' = clock + 1 /\ UNCHANGED <<format, readable>>
           /\ CounterStep(clock + 1, change, speed)
           /\ store' = values /\ truth' = Append(truth, values) /\ last' = Remembered(values)
           /\ Buffered(rows) \/ Flushed(rows) \/ Failed(rows)
<1> DEFINE values == Injected(Generated(clock + 1, coil), disconnected)
           rows == buffer \o NewRows(clock + 1, values)
<1>1. CounterStep(clock + 1, change, speed) BY DEF Tick, CounterStep
<1>2. values \in [Signals -> StoreValues]
  BY <1>1, CounterTypes, StoreTypes
<1>3. rows \in Seq(Rows)
  <2>1. clock + 1 \in Nat BY DEF BatchTypeOK
  <2>2. NewRows(clock + 1, values) \in Seq(Rows) BY <1>2, <2>1, RowTypes
  <2>3. QED BY <2>2 DEF BatchTypeOK
<1>4. Buffered(rows) \/ Flushed(rows) \/ Failed(rows)
  <2>1. Len(rows) >= BufferSize => rows # <<>> BY BatchAssumption
  <2>2. QED BY <2>1 DEF Tick, Buffered, Flushed, Failed
<1>5. /\ main = "ticking" /\ clock' = clock + 1 /\ UNCHANGED <<format, readable>>
      /\ store' = values /\ truth' = Append(truth, values) /\ last' = Remembered(values)
  BY DEF Tick
<1>6. QED BY <1>1, <1>2, <1>3, <1>4, <1>5

\* The type invariant of BatchRun holds.
THEOREM BatchTyped == Spec => []BatchTypeOK
<1>1. Init => BatchTypeOK
  <2> SUFFICES ASSUME Init PROVE BatchTypeOK OBVIOUS
  <2>1. fault \in BOOLEAN /\ readable \in BOOLEAN BY DEF Init
  <2>2. store \in [Signals -> StoreValues] BY DEF Init, StoreValues
  <2>3. last \in [Signals -> Values \union {Null}] BY DEF Init
  <2>4. lastRun = - Interval /\ lastRun \in Int BY BatchAssumption DEF Init
  <2>5. QED BY <2>1, <2>2, <2>3, <2>4, BatchAssumption DEF Init, BatchTypeOK
<1>2. BatchTypeOK /\ [Next]_vars => BatchTypeOK'
  <2> SUFFICES ASSUME BatchTypeOK, [Next]_vars PROVE BatchTypeOK' OBVIOUS
  <2>1. ASSUME NEW coil \in Coils, NEW change \in BOOLEAN, NEW speed \in Speeds,
               NEW disconnected \in SUBSET Disconnectable, Tick(coil, change, speed, disconnected)
        PROVE  BatchTypeOK'
    <3>1. PICK values \in [Signals -> StoreValues], rows \in Seq(Rows) :
           /\ clock' = clock + 1 /\ UNCHANGED <<format, readable>>
           /\ CounterStep(clock + 1, change, speed)
           /\ store' = values /\ truth' = Append(truth, values) /\ last' = Remembered(values)
           /\ Buffered(rows) \/ Flushed(rows) \/ Failed(rows)
      BY <2>1, TickParts
    <3>2. /\ counter' \in 0..(Rollover - 1) /\ batch' \in Nat
          /\ total' \in Nat /\ wraps' \in Nat /\ lastRun' \in 0..(clock + 1)
      BY <3>1, CounterTypes
    <3>3. truth' \in Seq([Signals -> StoreValues]) /\ Len(truth') = clock'
      BY <3>1 DEF BatchTypeOK
    <3>4. last' \in [Signals -> Values \union {Null}]
      BY <3>1, RowTypes DEF BatchTypeOK
    <3>5. /\ main' \in {"closing", "awaiting", "raising"}
          /\ file' \in Seq(Rows) /\ buffer' \in Seq(Rows) /\ saved' \in 0..(clock + 1)
      <4>1. CASE Buffered(rows)
        <5>1. /\ main' \in {"closing", "awaiting"} /\ file' = file /\ buffer' = rows
              /\ saved' \in {saved, clock + 1}
          BY <4>1 DEF Buffered
        <5>2. file \in Seq(Rows) /\ saved \in 0..clock /\ clock \in Nat BY DEF BatchTypeOK
        <5>3. saved' \in 0..(clock + 1)
          BY ONLY <5>1, <5>2
        <5>4. QED BY <5>1, <5>2, <5>3
      <4>2. CASE Flushed(rows)
        <5>1. FlushWorks(rows, clock + 1) /\ main' \in {"closing", "awaiting"} BY <4>2 DEF Flushed
        <5>2. saved' = clock + 1 BY <5>1 DEF FlushWorks
        <5>3. file' \in Seq(Rows) /\ buffer' \in Seq(Rows) BY <5>1, FlushTypes
        <5>4. clock \in Nat BY DEF BatchTypeOK
        <5>5. saved' \in 0..(clock + 1) BY ONLY <5>2, <5>4
        <5>6. QED BY <5>1, <5>3, <5>5
      <4>3. CASE Failed(rows)
        <5>1. FlushFails(rows) /\ main' = "raising" BY <4>3 DEF Failed
        <5>2. saved' = saved BY <5>1 DEF FlushFails
        <5>3. file' \in Seq(Rows) /\ buffer' \in Seq(Rows) BY <5>1, FlushTypes
        <5>4. saved \in 0..clock /\ clock \in Nat BY DEF BatchTypeOK
        <5>5. saved' \in 0..(clock + 1) BY ONLY <5>2, <5>4
        <5>6. QED BY <5>1, <5>3, <5>5
      <4>4. Buffered(rows) \/ Flushed(rows) \/ Failed(rows) BY <3>1
      <4>5. QED BY ONLY <4>1, <4>2, <4>3, <4>4
    <3>6. fault' \in BOOLEAN
      BY <3>1 DEF Buffered, Flushed, Failed, FlushFails, BatchTypeOK
    <3>7. readable' \in BOOLEAN BY <3>1 DEF BatchTypeOK
    <3>8. store' \in [Signals -> StoreValues] BY <3>1
    <3>9. format' \in {"csv", "parquet"} /\ clock' \in Nat /\ clock' = clock + 1
      BY <3>1 DEF BatchTypeOK
    <3>10. /\ main' \in {"closing", "awaiting", "raising"}
           /\ file' \in Seq(Rows) /\ buffer' \in Seq(Rows)
           /\ saved' \in 0..clock' /\ lastRun' \in 0..clock'
      BY <3>2, <3>5, <3>9
    <3>11. QED BY ONLY <3>2, <3>3, <3>4, <3>6, <3>7, <3>8, <3>9, <3>10 DEF BatchTypeOK
  <2>2. ASSUME NEW interrupted \in BOOLEAN, Await(interrupted) PROVE BatchTypeOK'
    <3>1. /\ UNCHANGED <<format, clock, lastRun, counter, batch, store, total, wraps, last, buffer,
                         file, saved, truth>>
          /\ main' \in {"closing", "ticking"}
      BY <2>2 DEF Await, counterVars, fileVars
    <3>2. fault' \in BOOLEAN /\ readable' \in BOOLEAN BY <2>2 DEF Await, BatchTypeOK
    <3>3. QED BY <3>1, <3>2 DEF BatchTypeOK
  <2>3. CASE Close
    <3>1. UNCHANGED <<format, clock, lastRun, counter, batch, store, total, wraps, last, truth>>
      BY <2>3 DEF Close, counterVars
    <3>2. file' \in Seq(Rows) /\ buffer' \in Seq(Rows) /\ saved' \in 0..clock
      <4>1. CASE FinalFlush
        <5>1. CASE buffer = <<>> BY <4>1, <5>1 DEF FinalFlush, fileVars, BatchTypeOK
        <5>2. CASE buffer # <<>>
          <6>1. FlushWorks(buffer, Len(truth)) BY <4>1, <5>2 DEF FinalFlush
          <6>2. /\ buffer \in Seq(Rows) /\ saved \in 0..clock
                /\ Len(truth) = clock /\ clock \in Nat
            BY DEF BatchTypeOK
          <6>3. file' \in Seq(Rows) /\ buffer' \in Seq(Rows) BY <6>1, <6>2, FlushTypes
          <6>4. saved' = Len(truth) BY <6>1 DEF FlushWorks
          <6>5. saved' \in 0..clock BY ONLY <6>2, <6>4
          <6>6. QED BY <6>3, <6>5
        <5>3. QED BY <5>1, <5>2
      <4>2. CASE FlushFails(buffer)
        <5>1. saved' = saved BY <4>2 DEF FlushFails
        <5>2. buffer \in Seq(Rows) /\ saved \in 0..clock BY DEF BatchTypeOK
        <5>3. file' \in Seq(Rows) /\ buffer' \in Seq(Rows) BY <4>2, <5>2, FlushTypes
        <5>4. QED BY <5>1, <5>2, <5>3
      <4>3. QED BY <2>3, <4>1, <4>2 DEF Close
    <3>3. fault' \in BOOLEAN BY <2>3 DEF Close, FlushFails, BatchTypeOK
    <3>4. readable' \in BOOLEAN BY <2>3 DEF Close, BatchTypeOK
    <3>5. main' \in {"done", "failed"} BY <2>3 DEF Close
    <3>6. QED BY <3>1, <3>2, <3>3, <3>4, <3>5 DEF BatchTypeOK
  <2>4. CASE Kill
    <3>1. /\ UNCHANGED <<format, clock, lastRun, counter, batch, store, total, wraps, last, buffer,
                         file, saved, truth>>
          /\ main' = "killed"
      BY <2>4 DEF Kill, counterVars, fileVars
    <3>2. fault' \in BOOLEAN /\ readable' \in BOOLEAN BY <2>4 DEF Kill, BatchTypeOK
    <3>3. QED BY <3>1, <3>2 DEF BatchTypeOK
  <2>5. CASE UNCHANGED vars
    <3>1. UNCHANGED <<main, format, clock, lastRun, counter, batch, store, total, wraps, last, buffer,
                      file, saved, truth>>
      BY <2>5 DEF vars, counterVars, fileVars
    <3>2. fault' \in BOOLEAN /\ readable' \in BOOLEAN BY <2>5 DEF vars, BatchTypeOK
    <3>3. QED BY <3>1, <3>2 DEF BatchTypeOK
  <2>6. QED BY <2>1, <2>2, <2>3, <2>4, <2>5 DEF Next
<1>3. QED BY <1>1, <1>2, PTL DEF Spec

-----------------------------------------------------------------------------
(* The counter. *)

\* One more rollover is one more rollover value.
LEMMA OneMore ==
  ASSUME NEW w \in Nat PROVE Rollover * (w + 1) = Rollover * w + Rollover
<1>1. Rollover \in Nat BY BatchAssumption
<1>2. QED BY <1>1

\* A tick keeps the counter, the rollovers and the total in step.
LEMMA CounterExplained ==
  ASSUME BatchTypeOK, RolloversExplain, NEW coil \in Coils, NEW change \in BOOLEAN, NEW speed \in Speeds,
         CounterStep(clock + 1, change, speed)
  PROVE  RolloversExplain'
<1> DEFINE from == IF change THEN 0 ELSE counter
           before == IF change THEN 0 ELSE total
           records == IF change THEN 0 ELSE wraps
           sum == from + speed
<1>1. /\ from \in 0..(Rollover - 1) /\ before \in Nat /\ records \in Nat /\ speed \in 0..Rollover
      /\ Rollover \in Nat \ {0}
  BY BatchAssumption DEF BatchTypeOK
<1>2. from + Rollover * records = before
  <2>1. CASE change BY <2>1, <1>1
  <2>2. CASE ~ change BY <2>2 DEF RolloversExplain
  <2>3. QED BY <2>1, <2>2
<1>3. CASE Runs(clock + 1)
  <2>1. Generate(clock + 1, change, speed) BY <1>3 DEF CounterStep
  <2>2. sum \in 0..(2 * Rollover - 1) BY BatchAssumption DEF BatchTypeOK
  <2>3. Wrapped(sum) = IF sum >= Rollover THEN sum - Rollover ELSE sum BY <2>2, WrapsOnce
  <2>4. CASE CapReached(Wrapped(sum))
    <3>1. counter' = 0 /\ total' = 0 /\ wraps' = 0 BY <2>1, <2>4 DEF Generate
    <3>2. QED BY <3>1, <1>1 DEF RolloversExplain
  <2>5. CASE ~ CapReached(Wrapped(sum)) /\ sum >= Rollover
    <3>1. counter' = sum - Rollover /\ total' = before + speed /\ wraps' = records + 1
      BY <2>1, <2>3, <2>5 DEF Generate, RolloverLogged
    <3>2. Rollover * (records + 1) = Rollover * records + Rollover BY <1>1, OneMore
    <3>3. Rollover * records \in Int BY <1>1
    <3>4. (sum - Rollover) + (Rollover * records + Rollover) = before + speed
      BY <1>1, <1>2, <3>3
    <3>5. counter' + Rollover * wraps' = total' BY <3>1, <3>2, <3>4
    <3>6. QED BY <3>5 DEF RolloversExplain
  <2>6. CASE ~ CapReached(Wrapped(sum)) /\ ~ sum >= Rollover
    <3>1. counter' = sum /\ total' = before + speed /\ wraps' = records
      BY <2>1, <2>3, <2>6 DEF Generate, RolloverLogged
    <3>2. Rollover * records \in Int BY <1>1
    <3>3. sum + Rollover * records = before + speed BY <1>1, <1>2, <3>2
    <3>4. QED BY <3>1, <3>3 DEF RolloversExplain
  <2>7. QED BY <2>4, <2>5, <2>6
<1>4. CASE ~ Runs(clock + 1)
  <2>1. Rest(change) BY <1>4 DEF CounterStep
  <2>2. counter' = from /\ total' = before /\ wraps' = records BY <2>1 DEF Rest
  <2>3. QED BY <2>2, <1>2 DEF RolloversExplain
<1>5. QED BY <1>3, <1>4

\* Whoever adds a rollover value for each rollover in the ground truth knows
\* what the counter counted since it was last reset, for every rollover value,
\* max_before_reset and speed.
THEOREM RolloversHold == Spec => []RolloversExplain
<1>1. Init => RolloversExplain
  BY BatchAssumption DEF Init, RolloversExplain
<1>2. BatchTypeOK /\ RolloversExplain /\ [Next]_vars => RolloversExplain'
  <2> SUFFICES ASSUME BatchTypeOK, RolloversExplain, [Next]_vars PROVE RolloversExplain'
    OBVIOUS
  <2>1. ASSUME NEW coil \in Coils, NEW change \in BOOLEAN, NEW speed \in Speeds,
               NEW disconnected \in SUBSET Disconnectable, Tick(coil, change, speed, disconnected)
        PROVE  RolloversExplain'
    <3>1. CounterStep(clock + 1, change, speed) BY <2>1 DEF Tick, CounterStep
    <3>2. QED BY <3>1, CounterExplained
  <2>2. CASE \/ \E interrupted \in BOOLEAN : Await(interrupted)
             \/ Close \/ Kill \/ UNCHANGED vars
    <3>1. UNCHANGED <<counter, total, wraps>>
      BY <2>2 DEF Await, Close, Kill, vars, counterVars
    <3>2. QED BY <3>1 DEF RolloversExplain
  <2>3. QED BY <2>1, <2>2 DEF Next
<1>3. QED BY <1>1, <1>2, BatchTyped, PTL DEF Spec

-----------------------------------------------------------------------------
(* The run implements the log. *)

Running == main \in {"ticking", "awaiting", "closing"}

FaultInv ==
  /\ Running \/ main = "done" => ~ fault
  /\ main = "killed" => fault

\* A CSV file can be read at any time, a Parquet file once its run ended; an
\* empty buffer means that every tick is in the file.
KeptInv ==
  /\ format = "csv" => readable
  /\ format = "parquet" /\ ~ Ended => ~ readable
  /\ main = "raising" => buffer # <<>>
  /\ buffer = <<>> /\ Running => saved = clock
  /\ format = "parquet" /\ clock > 0 => file # <<>> \/ buffer # <<>>

LogInv == FaultInv /\ KeptInv

\* A run that begins is sound.
LEMMA LogInvInit == ASSUME Init PROVE LogInv
<1>1. FaultInv BY DEF Init, FaultInv, Running
<1>2. format \in {"csv", "parquet"} BY BatchAssumption DEF Init
<1>3. KeptInv
  <2>1. main = "ticking" /\ saved = clock /\ clock = 0 BY DEF Init
  <2>2. readable <=> format = "csv" BY DEF Init
  <2>3. QED BY <1>2, <2>1, <2>2 DEF KeptInv, Ended
<1>4. QED BY <1>1, <1>3 DEF LogInv

\* A tick keeps it so.
LEMMA LogInvTick ==
  ASSUME BatchTypeOK, LogInv, NEW coil \in Coils, NEW change \in BOOLEAN, NEW speed \in Speeds,
         NEW disconnected \in SUBSET Disconnectable, Tick(coil, change, speed, disconnected)
  PROVE  LogInv'
<1>1. PICK values \in [Signals -> StoreValues], rows \in Seq(Rows) :
           /\ values = Injected(Generated(clock + 1, coil), disconnected)
           /\ rows = buffer \o NewRows(clock + 1, values)
           /\ main = "ticking" /\ clock' = clock + 1 /\ UNCHANGED <<format, readable>>
           /\ CounterStep(clock + 1, change, speed)
           /\ store' = values /\ truth' = Append(truth, values) /\ last' = Remembered(values)
           /\ Buffered(rows) \/ Flushed(rows) \/ Failed(rows)
  BY TickParts
<1>2. Buffered(rows) \/ Flushed(rows) \/ Failed(rows) BY <1>1
<1>3. main = "ticking" /\ clock' = clock + 1 /\ format' = format /\ readable' = readable
  BY <1>1
<1>4. format = "parquet" => rows # <<>>
  <2>1. format = "parquet" => NewRows(clock + 1, values) = <<ParquetRow(clock + 1, values)>>
    BY DEF NewRows
  <2>2. buffer \in Seq(Rows) /\ NewRows(clock + 1, values) \in Seq(Rows)
    BY RowTypes DEF BatchTypeOK
  <2>3. format = "parquet" => Len(NewRows(clock + 1, values)) = 1 BY <2>1
  <2>4. Len(rows) = Len(buffer) + Len(NewRows(clock + 1, values)) BY <1>1, <2>2
  <2>5. Len(buffer) \in Nat BY <2>2
  <2>6. QED BY <2>3, <2>4, <2>5
<1>5. ~ fault BY <1>3 DEF LogInv, FaultInv, Running
<1>6. FaultInv'
  <2>1. CASE Buffered(rows)
    <3>1. main' \in {"closing", "awaiting"} /\ fault' = fault BY <2>1 DEF Buffered
    <3>2. QED BY <1>5, <3>1 DEF FaultInv
  <2>2. CASE Flushed(rows)
    <3>1. main' \in {"closing", "awaiting"} /\ fault' = fault BY <2>2 DEF Flushed
    <3>2. QED BY <1>5, <3>1 DEF FaultInv
  <2>3. CASE Failed(rows)
    <3>1. main' = "raising" BY <2>3 DEF Failed
    <3>2. QED BY <3>1 DEF FaultInv, Running
  <2>4. QED BY <1>2, <2>1, <2>2, <2>3
<1>7. KeptInv'
  <2>1. /\ format = "csv" => readable
        /\ format = "parquet" => ~ readable
        /\ buffer = <<>> => saved = clock
    BY <1>3 DEF LogInv, KeptInv, Ended, Running
  <2>2. file \in Seq(Rows) /\ clock \in Nat BY DEF BatchTypeOK
  <2>3. /\ main' = "raising" => buffer' # <<>>
        /\ buffer' = <<>> /\ main' # "raising" => saved' = clock + 1
        /\ format = "parquet" => file' # <<>> \/ buffer' # <<>>
        /\ main' \in {"closing", "awaiting", "raising"}
    <3>1. CASE Buffered(rows) BY <1>4, <3>1 DEF Buffered
    <3>2. CASE Flushed(rows)
      <4>1. /\ main' \in {"closing", "awaiting"} /\ file' = file \o rows
            /\ saved' = clock + 1
        BY <3>2 DEF Flushed, FlushWorks
      <4>2. rows # <<>> => file' # <<>> BY <4>1, <2>2
      <4>3. QED BY <1>4, <4>1, <4>2
    <3>3. CASE Failed(rows)
      <4>1. rows # <<>> /\ main' = "raising" /\ buffer' = rows BY <3>3 DEF Failed, FlushFails
      <4>2. QED BY <4>1
    <3>4. QED BY <1>2, <3>1, <3>2, <3>3
  <2>4. QED BY <1>3, <2>1, <2>3 DEF KeptInv, Ended, Running
<1>8. QED BY <1>6, <1>7 DEF LogInv

\* Closing the writer keeps it so.
LEMMA LogInvClose == ASSUME BatchTypeOK, LogInv, Close PROVE LogInv'
<1>1. /\ main \in {"closing", "raising"} /\ main' \in {"done", "failed"}
      /\ format' = format /\ clock' = clock
  BY DEF Close, counterVars
<1>2. FaultInv'
  <2>1. CASE main' = "failed" BY <2>1 DEF FaultInv, Running
  <2>2. CASE main' = "done"
    <3>1. main = "closing" /\ fault' = fault BY <1>1, <2>2 DEF Close
    <3>2. ~ fault BY <3>1 DEF LogInv, FaultInv, Running
    <3>3. QED BY <2>2, <3>1, <3>2 DEF FaultInv
  <2>3. QED BY <1>1, <2>1, <2>2
<1>3. KeptInv'
  <2>1. format = "csv" => readable'
    BY DEF Close, LogInv, KeptInv
  <2>2. format = "parquet" /\ clock > 0 => file' # <<>> \/ buffer' # <<>>
    <3>1. CASE buffer = <<>>
      <4>1. buffer' = buffer /\ file' = file BY <3>1 DEF Close, FinalFlush, fileVars
      <4>2. QED BY <4>1 DEF LogInv, KeptInv
    <3>2. CASE buffer # <<>>
      <4>1. CASE FlushWorks(buffer, Len(truth))
        BY <3>2, <4>1 DEF FlushWorks, BatchTypeOK
      <4>2. CASE FlushFails(buffer) BY <3>2, <4>2 DEF FlushFails
      <4>3. QED BY <3>2, <4>1, <4>2 DEF Close, FinalFlush
    <3>3. QED BY <3>1, <3>2
  <2>3. QED BY <1>1, <2>1, <2>2 DEF KeptInv, Ended, Running
<1>4. QED BY <1>2, <1>3 DEF LogInv

\* Every step keeps it.
LEMMA LogInvStep == ASSUME BatchTypeOK, LogInv, [Next]_vars PROVE LogInv'
<1>1. ASSUME NEW coil \in Coils, NEW change \in BOOLEAN, NEW speed \in Speeds,
             NEW disconnected \in SUBSET Disconnectable, Tick(coil, change, speed, disconnected)
      PROVE  LogInv'
  BY <1>1, LogInvTick
<1>2. CASE Close BY <1>2, LogInvClose
<1>3. CASE \/ \E interrupted \in BOOLEAN : Await(interrupted)
           \/ Kill \/ UNCHANGED vars
  <2>1. UNCHANGED <<format, clock, buffer, file, saved>> /\ readable' = readable
    BY <1>3 DEF Await, Kill, vars, counterVars, fileVars
  <2>2. \/ main = "awaiting" /\ main' \in {"closing", "ticking"} /\ fault' = fault
        \/ main' = "killed" /\ fault' = TRUE
        \/ main' = main /\ fault' = fault
    BY <1>3 DEF Await, Kill, vars
  <2>3. FaultInv' BY <2>2 DEF LogInv, FaultInv, Running
  <2>4. ~ Ended' => ~ Ended BY <1>3 DEF Await, Kill, vars, Ended
  <2>5. KeptInv'
    <3>1. main' = "raising" => main = "raising" BY <2>2
    <3>2. Running' => Running BY <2>2 DEF Running
    <3>3. QED BY <2>1, <2>4, <3>1, <3>2 DEF LogInv, KeptInv
  <2>6. QED BY <2>3, <2>5 DEF LogInv
<1>4. QED BY <1>1, <1>2, <1>3 DEF Next

\* An empty file is an empty log.
LEMMA LogInit == ASSUME Init PROVE Log!Init
  BY BatchAssumption DEF Init, Log!Init, Kept, Status, Broken

\* What is kept when the writer is closed.
LEMMA KeptAtClose ==
  ASSUME BatchTypeOK, LogInv, BatchTypeOK', LogInv', Close
  PROVE  /\ Kept' \in Kept..Len(truth)
         /\ main' = "done" => Kept' = Len(truth)
<1>1. /\ main \in {"closing", "raising"} /\ truth' = truth /\ clock' = clock
      /\ format' = format /\ clock = Len(truth) /\ clock \in Nat
      /\ saved \in 0..clock /\ saved' \in 0..clock
  BY DEF Close, BatchTypeOK
<1>2. /\ format = "csv" => readable /\ readable'
      /\ format = "parquet" => ~ readable
  BY <1>1 DEF LogInv, KeptInv, Ended
<1>3. saved' \in {saved, Len(truth)}
  <2>1. CASE FinalFlush BY <2>1 DEF FinalFlush, FlushWorks, fileVars
  <2>2. CASE FlushFails(buffer) BY <2>2 DEF FlushFails
  <2>3. QED BY <2>1, <2>2 DEF Close
<1>4. Kept' \in Kept..Len(truth)
  <2>1. CASE format = "csv" BY <1>1, <1>2, <1>3, <2>1 DEF Kept
  <2>2. CASE format = "parquet" BY <1>1, <1>2, <2>2 DEF Kept
  <2>3. QED BY <2>1, <2>2 DEF BatchTypeOK
<1>5. ASSUME main' = "done" PROVE Kept' = Len(truth)
  <2>1. main = "closing" /\ FinalFlush /\ (readable' <=> format = "csv" \/ file' # <<>>)
    BY <1>1, <1>5 DEF Close
  <2>2. saved' = Len(truth)
    <3>1. CASE buffer = <<>>
      BY <1>1, <2>1, <3>1 DEF FinalFlush, fileVars, LogInv, KeptInv, Running
    <3>2. CASE buffer # <<>> BY <2>1, <3>2 DEF FinalFlush, FlushWorks
    <3>3. QED BY <3>1, <3>2
  <2>3. format = "parquet" /\ clock > 0 => file' # <<>>
    <3>1. CASE buffer = <<>>
      <4>1. file' = file BY <2>1, <3>1 DEF FinalFlush, fileVars
      <4>2. QED BY <3>1, <4>1 DEF LogInv, KeptInv
    <3>2. CASE buffer # <<>>
      BY <2>1, <3>2 DEF FinalFlush, FlushWorks, BatchTypeOK
    <3>3. QED BY <3>1, <3>2
  <2>4. CASE readable' BY <2>2, <2>4 DEF Kept
  <2>5. CASE ~ readable'
    <3>1. clock = 0 BY <1>1, <2>1, <2>3, <2>5 DEF BatchTypeOK
    <3>2. QED BY <1>1, <2>5, <3>1 DEF Kept
  <2>6. QED BY <2>4, <2>5
<1>6. QED BY <1>4, <1>5

\* What each step does to the log.
LEMMA LogStep ==
  ASSUME BatchTypeOK, LogInv, LogInv', BatchTypeOK', [Next]_vars
  PROVE  [Log!Next]_(Log!vars)
<1>1. ASSUME NEW coil \in Coils, NEW change \in BOOLEAN, NEW speed \in Speeds,
             NEW disconnected \in SUBSET Disconnectable, Tick(coil, change, speed, disconnected)
      PROVE  Log!Record
  <2>1. /\ main = "ticking" /\ main' \in {"awaiting", "closing", "raising"}
        /\ clock' = clock + 1 /\ readable' = readable
    BY <1>1 DEF Tick
  <2>2. ~ Broken /\ Status = "open" /\ Status' = "open"
    BY <2>1 DEF LogInv, FaultInv, Running, Status, Broken
  <2>3. PICK values \in [Signals -> StoreValues] : truth' = Append(truth, values)
    BY <1>1, TickParts
  <2>4. /\ Len(truth') = Len(truth) + 1
        /\ \A i \in 1..Len(truth) : truth'[i] = truth[i]
    <3>1. truth \in Seq([Signals -> StoreValues]) BY DEF BatchTypeOK
    <3>2. QED BY ONLY <2>3, <3>1
  <2>5. Kept' \in Kept..Len(truth')
    <3>1. saved' \in {saved, clock + 1}
      <4>1. PICK rows \in Seq(Rows) : Buffered(rows) \/ Flushed(rows) \/ Failed(rows)
        BY <1>1, TickParts
      <4>2. CASE Buffered(rows) BY <4>2 DEF Buffered
      <4>3. CASE Flushed(rows) BY <4>3 DEF Flushed, FlushWorks
      <4>4. CASE Failed(rows) BY <4>4 DEF Failed, FlushFails
      <4>5. QED BY <4>1, <4>2, <4>3, <4>4
    <3>2. saved \in 0..clock /\ clock \in Nat /\ Len(truth') = clock + 1
      BY <2>1, <2>4 DEF BatchTypeOK
    <3>3. CASE readable BY <2>1, <3>1, <3>2, <3>3 DEF Kept
    <3>4. CASE ~ readable BY <2>1, <3>2, <3>4 DEF Kept
    <3>5. QED BY <3>3, <3>4
  <2>6. Broken' \in BOOLEAN BY DEF Broken
  <2>7. QED BY <2>2, <2>4, <2>5, <2>6 DEF Log!Record
<1>2. CASE Close
  <2>1. /\ main \in {"closing", "raising"} /\ main' \in {"done", "failed"} /\ truth' = truth
    BY <1>2 DEF Close
  <2>2. Status = "open" BY <2>1 DEF Status
  <2>3. CASE main' = "done"
    <3>1. ~ Broken /\ Broken' = Broken
      <4>1. main = "closing" /\ fault' = fault BY <1>2, <2>3 DEF Close
      <4>2. ~ fault BY <4>1 DEF LogInv, FaultInv, Running
      <4>3. QED BY <2>3, <4>1, <4>2 DEF Broken
    <3>2. Status' = "closed" BY <2>3 DEF Status
    <3>3. Kept' = Len(truth) BY <1>2, <2>3, KeptAtClose
    <3>4. Log!Close BY <2>1, <2>2, <3>1, <3>2, <3>3 DEF Log!Close
    <3>5. QED BY <3>4 DEF Log!Next
  <2>4. CASE main' = "failed"
    <3>1. Broken' = TRUE BY <2>4 DEF Broken
    <3>2. Status' = "broken" BY <2>4 DEF Status
    <3>3. Kept' \in Kept..Len(truth) BY <1>2, KeptAtClose
    <3>4. Log!Break BY <2>1, <2>2, <3>1, <3>2, <3>3 DEF Log!Break
    <3>5. QED BY <3>4 DEF Log!Next
  <2>5. QED BY <2>1, <2>3, <2>4
<1>3. CASE Kill
  <2>1. /\ main \in {"ticking", "awaiting", "closing", "raising"} /\ main' = "killed"
        /\ fault' = TRUE /\ truth' = truth /\ saved' = saved /\ readable' = readable
    BY <1>3 DEF Kill, fileVars
  <2>2. Status = "open" /\ Status' = "broken" /\ Broken' = TRUE BY <2>1 DEF Status, Broken
  <2>3. Kept' = Kept BY <2>1 DEF Kept
  <2>4. Kept \in 0..Len(truth) BY DEF Kept, BatchTypeOK
  <2>5. Log!Break BY <2>1, <2>2, <2>3, <2>4 DEF Log!Break
  <2>6. QED BY <2>5 DEF Log!Next
<1>4. CASE \/ \E interrupted \in BOOLEAN : Await(interrupted)
           \/ UNCHANGED vars
  <2>1. UNCHANGED <<truth, saved, readable, fault>>
    BY <1>4 DEF Await, vars, fileVars
  <2>2. main' = main \/ (main = "awaiting" /\ main' \in {"closing", "ticking"})
    BY <1>4 DEF Await, vars
  <2>3. Status' = Status BY <2>2 DEF Status
  <2>4. Kept' = Kept BY <2>1 DEF Kept
  <2>5. Broken' = Broken BY <2>1, <2>2 DEF Broken
  <2>6. QED BY <2>1, <2>3, <2>4, <2>5 DEF Log!vars
<1>5. QED BY <1>1, <1>2, <1>3, <1>4 DEF Next, Log!Next

\* A batch run implements BatchLog: one entry per tick, what a reader gets is a
\* prefix that never shrinks, and a run that ends well has kept every entry.
THEOREM LogImplemented == Spec => ImplementsLog
<1>1. Init => LogInv BY LogInvInit
<1>2. BatchTypeOK /\ LogInv /\ [Next]_vars => LogInv' BY LogInvStep
<1>3. Init => Log!Init BY LogInit
<1>4. BatchTypeOK /\ LogInv /\ LogInv' /\ BatchTypeOK' /\ [Next]_vars => [Log!Next]_(Log!vars)
  BY LogStep
<1>5. QED BY <1>1, <1>2, <1>3, <1>4, BatchTyped, PTL DEF Spec, ImplementsLog, Log!Spec

-----------------------------------------------------------------------------
(* The columns of a Parquet file. *)

\* AppearsLate and ChangesType of a sequence of stores.
LateIn(T) ==
  \E s \in Signals, t \in 1..Len(T) :
    t > BufferSize /\ T[BufferSize][s] = Absent /\ T[t][s] # Absent

ChangesIn(T) ==
  \E s \in Signals : \E t, u \in 1..Len(T) :
    T[t][s] # Absent /\ T[u][s] # Absent /\ T[t][s].type # T[u][s].type

\* What the store has it keeps.
Grows(T) ==
  \A s \in Signals : \A t, u \in 1..Len(T) : t <= u /\ T[t][s] # Absent => T[u][s] # Absent

InColumn(v) == IF v.type = "nan" THEN Null ELSE v

\* Some rows are those of the ticks after the tick from.
RowsOf(rows, T, from) ==
  /\ Len(rows) = Len(T) - from
  /\ \A i \in 1..Len(rows) : \A s \in Signals : rows[i].value[s] = InColumn(T[from + i][s])

\* The schema of a file that has the ticks up to from: the first flush was not
\* before tick BufferSize, and each column has the type of some value.
SchemaOf(typ, T, from) ==
  \/ typ = Unset
  \/ /\ from >= BufferSize
     /\ \A s \in Signals :
          /\ typ[s] = "absent" => T[BufferSize][s] = Absent
          /\ typ[s] # "absent" =>
               \E t \in 1..from : T[t][s] # Absent /\ InColumn(T[t][s]).type = typ[s]

\* The column types of a value.
LEMMA InColumnTypes ==
  ASSUME NEW v \in StoreValues
  PROVE  /\ InColumn(v).type \in {"num", "str", "null", "absent"}
         /\ InColumn(v).type = "absent" <=> v = Absent
         /\ InColumn(v).type = IF v.type = "nan" THEN "null" ELSE v.type
  BY DEF InColumn, StoreValues, Values, Absent, Null

\* A column is inferred where a row has a value, and has a type of a row.
LEMMA InferredTypes ==
  ASSUME NEW T \in Seq([Signals -> StoreValues]), NEW from \in 0..Len(T), NEW rows,
         RowsOf(rows, T, from), NEW s \in Signals
  PROVE  /\ Inferred(rows)[s] = "absent" => \A i \in 1..Len(rows) : T[from + i][s] = Absent
         /\ Inferred(rows)[s] # "absent" =>
              \E i \in 1..Len(rows) : /\ T[from + i][s] # Absent
                                      /\ InColumn(T[from + i][s]).type = Inferred(rows)[s]
<1>1. \A i \in 1..Len(rows) : /\ rows[i].value[s] = InColumn(T[from + i][s])
                              /\ T[from + i] \in [Signals -> StoreValues]
  BY DEF RowsOf
<1>2. \A i \in 1..Len(rows) :
        /\ rows[i].value[s].type \in {"num", "str", "null", "absent"}
        /\ rows[i].value[s].type = "absent" <=> T[from + i][s] = Absent
  BY <1>1, InColumnTypes
<1>3. Inferred(rows)[s] = IF "num" \in TypesIn(rows, s) THEN "num"
                          ELSE IF "str" \in TypesIn(rows, s) THEN "str"
                          ELSE IF "null" \in Column(rows, s) THEN "null" ELSE "absent"
  BY DEF Inferred
<1>4. \A k \in {"num", "str"} : k \in TypesIn(rows, s) <=> \E i \in 1..Len(rows) : rows[i].value[s].type = k
  BY DEF TypesIn, Column
<1>5. "null" \in Column(rows, s) <=> \E i \in 1..Len(rows) : rows[i].value[s].type = "null"
  BY DEF Column
<1>6. ASSUME Inferred(rows)[s] = "absent", NEW i \in 1..Len(rows) PROVE T[from + i][s] = Absent
  BY <1>2, <1>3, <1>4, <1>5, <1>6
<1>7. ASSUME Inferred(rows)[s] # "absent"
      PROVE  \E i \in 1..Len(rows) : /\ T[from + i][s] # Absent
                                     /\ InColumn(T[from + i][s]).type = Inferred(rows)[s]
  <2>1. \E i \in 1..Len(rows) : rows[i].value[s].type = Inferred(rows)[s]
    BY <1>3, <1>4, <1>5, <1>7
  <2>2. QED BY <1>1, <1>2, <1>7, <2>1
<1>8. QED BY <1>6, <1>7

\* The schema a flush leaves.
LEMMA FlushSchema ==
  ASSUME NEW T \in Seq([Signals -> StoreValues]), NEW from \in 0..Len(T), NEW rows,
         RowsOf(rows, T, from), Grows(T), Len(rows) >= BufferSize
  PROVE  SchemaOf(Inferred(rows), T, Len(T))
<1>1. Len(T) \in Nat /\ from \in Nat /\ from <= Len(T) /\ Len(rows) = Len(T) - from
      /\ BufferSize \in 1..Len(T) /\ Len(rows) \in 1..Len(T)
  BY BatchAssumption DEF RowsOf
<1>2. ASSUME NEW s \in Signals, Inferred(rows)[s] = "absent" PROVE T[BufferSize][s] = Absent
  <2>1. Len(rows) \in 1..Len(rows) /\ from + Len(rows) = Len(T) BY <1>1
  <2>2. T[Len(T)][s] = Absent
    <3>1. \A i \in 1..Len(rows) : T[from + i][s] = Absent BY <1>2, InferredTypes
    <3>2. T[from + Len(rows)][s] = Absent BY <2>1, <3>1
    <3>3. QED BY <2>1, <3>2
  <2>3. Len(T) \in 1..Len(T) /\ BufferSize <= Len(T) BY <1>1
  <2>4. QED BY <1>1, <2>2, <2>3 DEF Grows
<1>3. ASSUME NEW s \in Signals, Inferred(rows)[s] # "absent"
      PROVE  \E t \in 1..Len(T) : T[t][s] # Absent /\ InColumn(T[t][s]).type = Inferred(rows)[s]
  <2>1. PICK i \in 1..Len(rows) : /\ T[from + i][s] # Absent
                                  /\ InColumn(T[from + i][s]).type = Inferred(rows)[s]
    BY <1>3, InferredTypes
  <2>2. from + i \in 1..Len(T) BY <1>1
  <2>3. QED BY <2>1, <2>2
<1>4. QED BY <1>1, <1>2, <1>3 DEF SchemaOf

\* Rows can be written where no signal appeared late and none changed its type.
LEMMA FlushFits ==
  ASSUME NEW T \in Seq([Signals -> StoreValues]), NEW from \in 0..Len(T), NEW rows,
         RowsOf(rows, T, from), Grows(T), Len(rows) > 0, NEW typ, SchemaOf(typ, T, from),
         typ = Unset \/ typ = [s \in Signals |-> typ[s]],
         ~ LateIn(T), ~ ChangesIn(T)
  PROVE  ~ Mixed(rows) /\ typ \in {Unset, Inferred(rows)}
<1>1. Len(T) \in Nat /\ from \in Nat /\ from <= Len(T) /\ Len(rows) = Len(T) - from
  BY DEF RowsOf
<1>2. ASSUME NEW i \in 1..Len(rows), NEW s \in Signals
      PROVE  /\ from + i \in 1..Len(T) /\ T[from + i] \in [Signals -> StoreValues]
             /\ rows[i].value[s] = InColumn(T[from + i][s])
  BY <1>1 DEF RowsOf
<1>3. ~ Mixed(rows)
  <2> SUFFICES ASSUME NEW s \in Signals, TypesIn(rows, s) = {"num", "str"} PROVE FALSE
    BY DEF Mixed
  <2>1. "num" \in TypesIn(rows, s) /\ "str" \in TypesIn(rows, s) OBVIOUS
  <2>2. PICK i \in 1..Len(rows) : rows[i].value[s].type = "num" BY <2>1 DEF TypesIn, Column
  <2>3. PICK j \in 1..Len(rows) : rows[j].value[s].type = "str" BY <2>1 DEF TypesIn, Column
  <2>4. T[from + i][s].type = "num" /\ T[from + j][s].type = "str"
    <3>1. T[from + i][s] \in StoreValues /\ T[from + j][s] \in StoreValues BY <1>2
    <3>2. InColumn(T[from + i][s]).type = "num" /\ InColumn(T[from + j][s]).type = "str"
      BY <1>2, <2>2, <2>3
    <3>3. QED BY <3>1, <3>2, InColumnTypes
  <2>5. T[from + i][s] # Absent /\ T[from + j][s] # Absent BY <2>4 DEF Absent
  <2>6. QED BY <1>2, <2>4, <2>5 DEF ChangesIn
<1>4. ASSUME typ # Unset, NEW s \in Signals PROVE typ[s] = Inferred(rows)[s]
  <2>1. from >= BufferSize BY <1>4 DEF SchemaOf
  <2>2. CASE typ[s] = "absent"
    <3>1. T[BufferSize][s] = Absent BY <1>4, <2>2 DEF SchemaOf
    <3>2. \A i \in 1..Len(rows) : T[from + i][s] = Absent
      <4>1. \A i \in 1..Len(rows) : from + i \in 1..Len(T) /\ from + i > BufferSize
        BY <1>1, <2>1, BatchAssumption
      <4>2. QED BY <3>1, <4>1 DEF LateIn
    <3>3. Inferred(rows)[s] = "absent" BY <3>2, InferredTypes
    <3>4. QED BY <2>2, <3>3
  <2>3. CASE typ[s] # "absent"
    <3>1. PICK t \in 1..from : T[t][s] # Absent /\ InColumn(T[t][s]).type = typ[s]
      BY <1>4, <2>3 DEF SchemaOf
    <3>2. t \in 1..Len(T) /\ T[t] \in [Signals -> StoreValues] BY <1>1
    <3>3. 1 \in 1..Len(rows) /\ from + 1 \in 1..Len(T) /\ t <= from + 1 BY <1>1
    <3>4. T[from + 1][s] # Absent BY <3>1, <3>2, <3>3 DEF Grows
    <3>5. Inferred(rows)[s] # "absent" BY <3>3, <3>4, InferredTypes
    <3>6. PICK i \in 1..Len(rows) : /\ T[from + i][s] # Absent
                                    /\ InColumn(T[from + i][s]).type = Inferred(rows)[s]
      BY <3>5, InferredTypes
    <3>7. from + i \in 1..Len(T) /\ T[from + i] \in [Signals -> StoreValues] BY <1>2
    <3>8. T[from + i][s].type = T[t][s].type BY <3>1, <3>2, <3>6, <3>7 DEF ChangesIn
    <3>9. InColumn(T[from + i][s]).type = InColumn(T[t][s]).type
      BY <3>2, <3>7, <3>8, InColumnTypes
    <3>10. QED BY <3>1, <3>6, <3>9
  <2>4. QED BY <2>2, <2>3
<1>5. typ # Unset => typ = Inferred(rows)
  <2>1. Inferred(rows) = [s \in Signals |-> Inferred(rows)[s]] BY DEF Inferred
  <2>2. QED BY <1>4, <2>1
<1>6. QED BY <1>3, <1>5

\* A tick removes no signal from the store.
LEMMA NothingRemoved ==
  ASSUME BatchTypeOK, NEW coil \in Coils, NEW disconnected \in SUBSET Disconnectable,
         NEW s \in Signals, Injected(Generated(clock + 1, coil), disconnected)[s] = Absent
  PROVE  store[s] = Absent
<1>1. Sentinel # Absent BY BatchAssumption DEF Absent, Values
<1>2. Generated(clock + 1, coil)[s] = Absent BY <1>1 DEF Injected
<1>3. WithCoil(coil)[s] = Absent BY <1>2 DEF Generated, Num, Str, Absent
<1>4. QED BY <1>3 DEF WithCoil, Coils, Num, Absent, Null

\* The store loses no signal, and while the run goes on the buffered rows and
\* the schema are those of what was recorded.
ColumnsInv ==
  /\ Grows(truth)
  /\ clock > 0 => store = truth[clock]
  /\ types = Unset \/ types = [s \in Signals |-> types[s]]
  /\ Running /\ format = "parquet" =>
       RowsOf(buffer, truth, saved) /\ SchemaOf(types, truth, saved)

Unfit == format = "parquet" /\ (AppearsLate \/ ChangesType)

WellInv == ColumnsInv /\ (main \in {"raising", "failed"} => fault \/ Unfit)

\* The two exceptions, of the recorded stores.
LEMMA UnfitIn ==
  ASSUME BatchTypeOK PROVE Unfit <=> format = "parquet" /\ (LateIn(truth) \/ ChangesIn(truth))
  BY DEF BatchTypeOK, Unfit, AppearsLate, ChangesType, LateIn, ChangesIn

\* A run that begins is well.
LEMMA WellInit == ASSUME Init PROVE WellInv
<1>1. main = "ticking" /\ truth = <<>> /\ clock = 0 /\ types = Unset /\ buffer = <<>> /\ saved = 0
  BY DEF Init
<1>2. Grows(truth) BY <1>1 DEF Grows
<1>3. RowsOf(buffer, truth, saved) BY <1>1 DEF RowsOf
<1>4. QED BY <1>1, <1>2, <1>3 DEF WellInv, ColumnsInv, SchemaOf

\* What a tick records continues what was recorded.
LEMMA TickRecords ==
  ASSUME BatchTypeOK, ColumnsInv, NEW coil \in Coils, NEW disconnected \in SUBSET Disconnectable,
         NEW values \in [Signals -> StoreValues],
         values = Injected(Generated(clock + 1, coil), disconnected),
         NEW T, T = Append(truth, values), NEW rows,
         rows = buffer \o NewRows(clock + 1, values)
  PROVE  /\ T \in Seq([Signals -> StoreValues]) /\ Len(T) = clock + 1 /\ Grows(T)
         /\ Running /\ format = "parquet" =>
              RowsOf(rows, T, saved) /\ SchemaOf(types, T, saved) /\ Len(rows) > 0
<1>1. /\ truth \in Seq([Signals -> StoreValues]) /\ Len(truth) = clock /\ clock \in Nat
      /\ saved \in 0..clock /\ buffer \in Seq(Rows)
  BY DEF BatchTypeOK
<1>2. /\ T \in Seq([Signals -> StoreValues]) /\ Len(T) = clock + 1
      /\ T[clock + 1] = values /\ \A t \in 1..clock : T[t] = truth[t]
  BY <1>1
<1>3. Grows(T)
  <2> SUFFICES ASSUME NEW s \in Signals, NEW t \in 1..(clock + 1), NEW u \in 1..(clock + 1),
                      t <= u, T[t][s] # Absent
               PROVE  T[u][s] # Absent
    BY <1>2 DEF Grows
  <2>1. CASE u = t BY <2>1
  <2>2. CASE u # t /\ u \in 1..clock
    <3>1. t \in 1..clock BY <1>1, <2>2
    <3>2. truth[t][s] # Absent BY <1>2, <3>1
    <3>3. truth[u][s] # Absent BY <1>1, <2>2, <3>1, <3>2 DEF ColumnsInv, Grows
    <3>4. QED BY <1>2, <2>2, <3>3
  <2>3. CASE u # t /\ u \notin 1..clock
    <3>1. u = clock + 1 /\ t \in 1..clock /\ clock \in 1..clock /\ clock > 0 BY <1>1, <2>3
    <3>2. truth[t][s] # Absent BY <1>2, <3>1
    <3>3. truth[clock][s] # Absent BY <1>1, <3>1, <3>2 DEF ColumnsInv, Grows
    <3>4. store[s] # Absent BY <3>1, <3>3 DEF ColumnsInv
    <3>5. values[s] # Absent BY <3>4, NothingRemoved
    <3>6. QED BY <1>2, <3>1, <3>5
  <2>4. QED BY <2>1, <2>2, <2>3
<1>4. ASSUME Running, format = "parquet"
      PROVE  RowsOf(rows, T, saved) /\ SchemaOf(types, T, saved) /\ Len(rows) > 0
  <2>1. RowsOf(buffer, truth, saved) /\ SchemaOf(types, truth, saved) BY <1>4 DEF ColumnsInv
  <2> DEFINE row == ParquetRow(clock + 1, values)
  <2>2. NewRows(clock + 1, values) = <<row>> BY <1>4 DEF NewRows
  <2>3. \A s \in Signals : row.value[s] = InColumn(values[s]) BY DEF ParquetRow, InColumn
  <2> HIDE DEF row
  <2>4. /\ Len(rows) = Len(buffer) + 1 /\ rows[Len(buffer) + 1] = row
        /\ \A i \in 1..Len(buffer) : rows[i] = buffer[i]
    <3>1. <<row>> \in Seq(Rows)
      <4>1. clock + 1 \in Nat BY <1>1
      <4>2. QED BY <2>2, <4>1, RowTypes
    <3>2. rows = buffer \o <<row>> BY <2>2
    <3>3. Len(<<row>>) = 1 /\ <<row>>[1] = row OBVIOUS
    <3>4. QED BY <1>1, <3>1, <3>2, <3>3
  <2>5. Len(buffer) = clock - saved /\ Len(buffer) \in Nat BY <1>1, <2>1 DEF RowsOf
  <2>6. ASSUME NEW i \in 1..Len(rows), NEW s \in Signals
        PROVE  rows[i].value[s] = InColumn(T[saved + i][s])
    <3>1. CASE i \in 1..Len(buffer)
      <4>1. saved + i \in 1..clock BY <1>1, <2>5, <3>1
      <4>2. buffer[i].value[s] = InColumn(truth[saved + i][s]) BY <2>1, <3>1 DEF RowsOf
      <4>3. QED BY <1>2, <2>4, <3>1, <4>1, <4>2
    <3>2. CASE i \notin 1..Len(buffer)
      <4>1. i = Len(buffer) + 1 /\ saved + i = clock + 1 BY <1>1, <2>4, <2>5, <3>2
      <4>2. QED BY <1>2, <2>3, <2>4, <4>1
    <3>3. QED BY <3>1, <3>2
  <2>7. RowsOf(rows, T, saved)
    <3>1. Len(rows) = Len(T) - saved BY <1>1, <1>2, <2>4, <2>5
    <3>2. QED BY <2>6, <3>1 DEF RowsOf
  <2>8. SchemaOf(types, T, saved)
    <3>1. CASE types = Unset BY <3>1 DEF SchemaOf
    <3>2. CASE types # Unset
      <4>1. saved >= BufferSize BY <2>1, <3>2 DEF SchemaOf
      <4>2. BufferSize \in 1..clock BY <1>1, <4>1, BatchAssumption
      <4>3. \A t \in 1..saved : t \in 1..clock BY <1>1
      <4>4. QED BY <1>2, <2>1, <3>2, <4>1, <4>2, <4>3 DEF SchemaOf
    <3>3. QED BY <3>1, <3>2
  <2>9. QED BY <2>4, <2>5, <2>7, <2>8
<1>5. QED BY <1>2, <1>3, <1>4

\* A flush that raises in a run in which no signal appeared late or changed its
\* type raises for an outside reason.
LEMMA FlushFault ==
  ASSUME NEW T \in Seq([Signals -> StoreValues]), NEW from \in 0..Len(T), NEW rows,
         format \in {"csv", "parquet"},
         format = "parquet" => /\ RowsOf(rows, T, from) /\ SchemaOf(types, T, from)
                               /\ Len(rows) > 0,
         Grows(T), types = Unset \/ types = [s \in Signals |-> types[s]],
         FlushFails(rows)
  PROVE  fault' \/ (format = "parquet" /\ (LateIn(T) \/ ChangesIn(T)))
<1>1. CASE format = "csv" BY <1>1 DEF FlushFails
<1>2. CASE format = "parquet" /\ ~ LateIn(T) /\ ~ ChangesIn(T)
  <2>1. ~ Mixed(rows) /\ types \in {Unset, Inferred(rows)} BY <1>2, FlushFits
  <2>2. Writable(rows) BY <2>1 DEF Writable
  <2>3. QED BY <1>2, <2>2 DEF FlushFails
<1>3. QED BY <1>1, <1>2

\* The schema has a type for each signal.
LEMMA SchemaDomain ==
  ASSUME NEW rows, NEW upTo, types = Unset \/ types = [s \in Signals |-> types[s]],
         FlushWorks(rows, upTo) \/ FlushFails(rows)
  PROVE  types' = Unset \/ types' = [s \in Signals |-> types'[s]]
<1>1. Inferred(rows) = [s \in Signals |-> Inferred(rows)[s]] BY DEF Inferred
<1>2. types' \in {types, Inferred(rows)} BY DEF FlushWorks, FlushFails
<1>3. QED BY <1>1, <1>2

\* A tick leaves the run well.
LEMMA WellTick ==
  ASSUME BatchTypeOK, BatchTypeOK', WellInv, NEW coil \in Coils, NEW change \in BOOLEAN,
         NEW speed \in Speeds, NEW disconnected \in SUBSET Disconnectable,
         Tick(coil, change, speed, disconnected)
  PROVE  WellInv'
<1>1. PICK values \in [Signals -> StoreValues], rows \in Seq(Rows) :
           /\ values = Injected(Generated(clock + 1, coil), disconnected)
           /\ rows = buffer \o NewRows(clock + 1, values)
           /\ main = "ticking" /\ clock' = clock + 1 /\ UNCHANGED <<format, readable>>
           /\ CounterStep(clock + 1, change, speed)
           /\ store' = values /\ truth' = Append(truth, values) /\ last' = Remembered(values)
           /\ Buffered(rows) \/ Flushed(rows) \/ Failed(rows)
  BY TickParts
<1>2. /\ clock \in Nat /\ saved \in 0..clock /\ format \in {"csv", "parquet"}
      /\ truth \in Seq([Signals -> StoreValues]) /\ Len(truth) = clock
  BY DEF BatchTypeOK
<1>3. /\ truth' \in Seq([Signals -> StoreValues]) /\ Len(truth') = clock + 1 /\ Grows(truth')
      /\ format = "parquet" =>
           RowsOf(rows, truth', saved) /\ SchemaOf(types, truth', saved) /\ Len(rows) > 0
  BY <1>1, TickRecords DEF WellInv, Running
<1>4. /\ Grows(truth)' /\ (clock > 0 => store = truth[clock])'
      /\ types = Unset \/ types = [s \in Signals |-> types[s]]
  <2>1. truth'[clock'] = store' BY <1>1, <1>2
  <2>2. QED BY <1>3, <2>1 DEF WellInv, ColumnsInv, Grows
<1>5. Buffered(rows) \/ Flushed(rows) \/ Failed(rows) BY <1>1
<1>6. CASE Buffered(rows)
  <2>1. /\ main' \in {"closing", "awaiting"} /\ buffer' = rows /\ types' = types
        /\ format = "parquet" => saved' = saved
    BY <1>3, <1>6 DEF Buffered
  <2>2. format' = "parquet" => RowsOf(buffer', truth', saved') /\ SchemaOf(types', truth', saved')
    BY <1>1, <1>3, <2>1
  <2>3. (RowsOf(buffer, truth, saved) /\ SchemaOf(types, truth, saved))'
          <=> RowsOf(buffer', truth', saved') /\ SchemaOf(types', truth', saved')
    BY DEF RowsOf, SchemaOf
  <2>4. ColumnsInv' BY <1>4, <2>1, <2>2, <2>3 DEF ColumnsInv
  <2>5. QED BY <2>1, <2>4 DEF WellInv
<1>7. CASE Flushed(rows)
  <2>1. /\ main' \in {"closing", "awaiting"} /\ FlushWorks(rows, clock + 1)
        /\ Len(rows) >= BufferSize
    BY <1>7 DEF Flushed
  <2>2. types' = Unset \/ types' = [s \in Signals |-> types'[s]] BY <1>4, <2>1, SchemaDomain
  <2>3. ASSUME format = "parquet"
        PROVE  RowsOf(buffer', truth', saved') /\ SchemaOf(types', truth', saved')
    <3>1. buffer' = <<>> /\ saved' = clock + 1 /\ types' = Inferred(rows)
      BY <2>1, <2>3 DEF FlushWorks, AfterFlush
    <3>2. saved \in 0..Len(truth') BY <1>2, <1>3
    <3>3. SchemaOf(Inferred(rows), truth', Len(truth')) BY <1>3, <2>1, <2>3, <3>2, FlushSchema
    <3>4. RowsOf(<<>>, truth', clock + 1) BY <1>2, <1>3 DEF RowsOf
    <3>5. QED BY <1>3, <3>1, <3>3, <3>4
  <2>4. QED BY <1>1, <1>4, <2>1, <2>2, <2>3 DEF WellInv, ColumnsInv, RowsOf, SchemaOf
<1>8. CASE Failed(rows)
  <2>1. main' = "raising" /\ FlushFails(rows) BY <1>8 DEF Failed
  <2>2. types' = Unset \/ types' = [s \in Signals |-> types'[s]] BY <1>4, <2>1, SchemaDomain
  <2>3. saved \in 0..Len(truth') BY <1>2, <1>3
  <2>4. fault' \/ (format = "parquet" /\ (LateIn(truth') \/ ChangesIn(truth')))
    BY <1>2, <1>3, <1>4, <2>1, <2>3, FlushFault
  <2>5. Unfit' <=> format' = "parquet" /\ (LateIn(truth') \/ ChangesIn(truth'))
    <3>1. Len(truth') = clock' BY <1>1, <1>3
    <3>2. QED BY <3>1 DEF Unfit, AppearsLate, ChangesType, LateIn, ChangesIn
  <2>6. fault' \/ Unfit' BY <1>1, <2>4, <2>5
  <2>7. ~ Running' BY <2>1 DEF Running
  <2>8. QED BY <1>4, <2>1, <2>2, <2>6, <2>7 DEF WellInv, ColumnsInv
<1>9. QED BY <1>5, <1>6, <1>7, <1>8

\* Closing the writer leaves the run well.
LEMMA WellClose == ASSUME BatchTypeOK, LogInv, WellInv, Close PROVE WellInv'
<1>1. /\ main \in {"closing", "raising"} /\ main' \in {"done", "failed"}
      /\ format' = format /\ clock' = clock /\ store' = store /\ truth' = truth
  BY DEF Close, counterVars
<1>2. /\ clock \in Nat /\ saved \in 0..clock /\ format \in {"csv", "parquet"}
      /\ truth \in Seq([Signals -> StoreValues]) /\ Len(truth) = clock /\ buffer \in Seq(Rows)
  BY DEF BatchTypeOK
<1>3. types' = Unset \/ types' = [s \in Signals |-> types'[s]]
  <2>1. types = Unset \/ types = [s \in Signals |-> types[s]] BY DEF WellInv, ColumnsInv
  <2>2. CASE types' = types BY <2>1, <2>2
  <2>3. CASE FlushWorks(buffer, Len(truth)) \/ FlushFails(buffer) BY <2>1, <2>3, SchemaDomain
  <2>4. QED BY <2>2, <2>3 DEF Close, FinalFlush, fileVars
<1>4. ColumnsInv' BY <1>1, <1>3 DEF WellInv, ColumnsInv, Running, Grows
<1>5. Unfit' <=> Unfit BY <1>1 DEF Unfit, AppearsLate, ChangesType
<1>6. ASSUME main' = "failed" PROVE fault' \/ Unfit'
  <2>1. CASE main = "raising"
    <3>1. fault \/ Unfit BY <2>1 DEF WellInv
    <3>2. fault => fault'
      <4>1. CASE UNCHANGED fault BY <4>1
      <4>2. CASE FlushFails(buffer) BY <1>2, <4>2 DEF FlushFails
      <4>3. QED BY <4>1, <4>2 DEF Close
    <3>3. QED BY <1>5, <3>1, <3>2
  <2>2. CASE main = "closing"
    <3>1. buffer # <<>> /\ FlushFails(buffer) BY <1>6, <2>2 DEF Close
    <3>2. /\ format = "parquet" => RowsOf(buffer, truth, saved) /\ SchemaOf(types, truth, saved)
          /\ Grows(truth) /\ (types = Unset \/ types = [s \in Signals |-> types[s]])
      BY <2>2 DEF WellInv, ColumnsInv, Running
    <3>3. Len(buffer) > 0 BY <1>2, <3>1
    <3>4. fault' \/ (format = "parquet" /\ (LateIn(truth) \/ ChangesIn(truth)))
      BY <1>2, <3>1, <3>2, <3>3, FlushFault
    <3>5. QED BY <1>5, <3>4, UnfitIn
  <2>3. QED BY <1>1, <2>1, <2>2
<1>7. QED BY <1>1, <1>4, <1>6 DEF WellInv

\* Every step keeps the invariant.
LEMMA WellStep ==
  ASSUME BatchTypeOK, BatchTypeOK', LogInv, WellInv, [Next]_vars PROVE WellInv'
<1>1. ASSUME NEW coil \in Coils, NEW change \in BOOLEAN, NEW speed \in Speeds,
             NEW disconnected \in SUBSET Disconnectable, Tick(coil, change, speed, disconnected)
      PROVE  WellInv'
  BY <1>1, WellTick
<1>2. CASE Close BY <1>2, WellClose
<1>3. CASE \/ \E interrupted \in BOOLEAN : Await(interrupted)
           \/ Kill \/ UNCHANGED vars
  <2>1. UNCHANGED <<format, clock, store, truth, buffer, types, saved>>
    BY <1>3 DEF Await, Kill, vars, counterVars, fileVars
  <2>2. \/ main = "awaiting" /\ main' \in {"closing", "ticking"} /\ fault' = fault
        \/ main' = "killed" /\ fault' = TRUE
        \/ main' = main /\ fault' = fault
    BY <1>3 DEF Await, Kill, vars
  <2>3. Running' => Running BY <2>2 DEF Running
  <2>4. ColumnsInv' BY <2>1, <2>3 DEF WellInv, ColumnsInv, Grows, RowsOf, SchemaOf
  <2>5. Unfit' <=> Unfit BY <2>1 DEF Unfit, AppearsLate, ChangesType
  <2>6. main' \in {"raising", "failed"} => main \in {"raising", "failed"} /\ fault' = fault
    BY <2>2
  <2>7. QED BY <2>4, <2>5, <2>6 DEF WellInv
<1>4. QED BY <1>1, <1>2, <1>3 DEF Next

\* A run that fails has met a fault outside the program, or is a Parquet run in
\* which a signal appeared after the first flush or changed its type: nothing
\* else that scenarios and injectors do to the store makes a flush raise.
THEOREM WellHolds == Spec => []WellUnlessFault
<1>1. Init => WellInv /\ LogInv BY WellInit, LogInvInit
<1>2. BatchTypeOK /\ LogInv /\ [Next]_vars => LogInv' BY LogInvStep
<1>3. BatchTypeOK /\ BatchTypeOK' /\ LogInv /\ WellInv /\ [Next]_vars => WellInv' BY WellStep
<1>4. WellInv => WellUnlessFault BY DEF WellInv, WellUnlessFault, Unfit
<1>5. QED BY <1>1, <1>2, <1>3, <1>4, BatchTyped, PTL DEF Spec

-----------------------------------------------------------------------------
(* What a reader finds in the rows, for every configuration in which no    *)
(* event-driven signal ever has a value that is not a number.              *)

\* A CSV file has no row for NaN: the reader of an event-driven signal would
\* take the value before for the current one.
NumbersOnChange == Sentinel.type = "nan" => Disconnectable \intersect EventDriven = {}

RowSet(rows) == {rows[i] : i \in 1..Len(rows)}

\* What a reader makes of a set of rows.
Upto(R, s, t) == {r \in R : r.signal = s /\ r.time <= t}
Newest(R, s, t) == {r \in Upto(R, s, t) : \A q \in Upto(R, s, t) : q.time <= r.time}

Reading(R, s, t) ==
  IF format = "parquet" THEN {r.value[s] : r \in {q \in R : q.time = t}}
  ELSE IF s \in EventDriven THEN {r.value : r \in Newest(R, s, t)}
  ELSE {r.value : r \in {q \in R : q.signal = s /\ q.time = t}}

\* It does not matter in which order rows were written, or how often.
LEMMA ReadingOfRows ==
  ASSUME NEW rows, NEW s, NEW t \in Nat, format \in {"csv", "parquet"}
  PROVE  (IF format = "csv" THEN ReadCsv(rows, s, t) ELSE ReadParquet(rows, s, t))
           = Reading(RowSet(rows), s, t)
<1>1. CASE format = "parquet" BY <1>1 DEF ReadParquet, Reading, RowSet
<1>2. CASE format = "csv" /\ s \in EventDriven
  <2> DEFINE R == RowSet(rows)
  <2>1. ASSUME NEW i \in LatestCsv(rows, s, t) PROVE rows[i] \in Newest(R, s, t)
    BY DEF LatestCsv, Newest, Upto, RowSet
  <2>2. ASSUME NEW r \in Newest(R, s, t) PROVE \E i \in LatestCsv(rows, s, t) : rows[i] = r
    <3>1. PICK i \in 1..Len(rows) : rows[i] = r BY DEF Newest, Upto, RowSet
    <3>2. \A j \in 1..Len(rows) : rows[j] \in R BY DEF RowSet
    <3>3. i \in LatestCsv(rows, s, t) BY <3>1, <3>2 DEF LatestCsv, Newest, Upto
    <3>4. QED BY <3>1, <3>3
  <2>3. {rows[i].value : i \in LatestCsv(rows, s, t)} = {r.value : r \in Newest(R, s, t)}
    BY <2>1, <2>2
  <2>4. QED BY <1>2, <2>3 DEF ReadCsv, Reading
<1>3. CASE format = "csv" /\ s \notin EventDriven
  <2>1. \A i \in 1..Len(rows) :
          rows[i].signal = s /\ rows[i].time = t => i \in LatestCsv(rows, s, t)
    BY DEF LatestCsv
  <2>2. {j \in LatestCsv(rows, s, t) : rows[j].time = t}
          = {j \in 1..Len(rows) : rows[j].signal = s /\ rows[j].time = t}
    BY <2>1 DEF LatestCsv
  <2>3. QED BY <1>3, <2>2 DEF ReadCsv, Reading, RowSet
<1>4. QED BY <1>1, <1>2, <1>3

\* Rows of later ticks are not read.
LEMMA ReadingIsLocal ==
  ASSUME NEW Q, NEW R, NEW s, NEW t \in Nat,
         {r \in Q : r.time <= t} = {r \in R : r.time <= t}
  PROVE  Reading(Q, s, t) = Reading(R, s, t)
<1>1. Upto(Q, s, t) = Upto(R, s, t)
  <2>1. Upto(Q, s, t) = {r \in {q \in Q : q.time <= t} : r.signal = s} BY DEF Upto
  <2>2. Upto(R, s, t) = {r \in {q \in R : q.time <= t} : r.signal = s} BY DEF Upto
  <2>3. QED BY <2>1, <2>2
<1>2. Newest(Q, s, t) = Newest(R, s, t) BY <1>1 DEF Newest
<1>3. {q \in Q : q.time = t} = {q \in R : q.time = t}
  <2>1. {q \in Q : q.time = t} = {q \in {r \in Q : r.time <= t} : q.time = t} OBVIOUS
  <2>2. {q \in R : q.time = t} = {q \in {r \in R : r.time <= t} : q.time = t} OBVIOUS
  <2>3. QED BY <2>1, <2>2
<1>4. {q \in Q : q.signal = s /\ q.time = t} = {q \in R : q.signal = s /\ q.time = t}
  <2>1. {q \in Q : q.signal = s /\ q.time = t} = {r \in {q \in Q : q.time = t} : r.signal = s}
    OBVIOUS
  <2>2. {q \in R : q.signal = s /\ q.time = t} = {r \in {q \in R : q.time = t} : r.signal = s}
    OBVIOUS
  <2>3. QED BY <1>3, <2>1, <2>2
<1>5. QED BY <1>2, <1>3, <1>4 DEF Reading

\* The rows of two lists, one after the other.
LEMMA RowSetAppended ==
  ASSUME NEW a \in Seq(Rows), NEW b \in Seq(Rows)
  PROVE  RowSet(a \o b) = RowSet(a) \union RowSet(b)
<1>1. ASSUME NEW i \in 1..Len(a \o b) PROVE (a \o b)[i] \in RowSet(a) \union RowSet(b)
  <2>1. CASE i <= Len(a) BY <2>1 DEF RowSet
  <2>2. CASE i > Len(a)
    <3>1. (a \o b)[i] = b[i - Len(a)] /\ i - Len(a) \in 1..Len(b) BY <2>2
    <3>2. QED BY <3>1 DEF RowSet
  <2>3. QED BY <2>1, <2>2
<1>2. ASSUME NEW i \in 1..Len(a) PROVE a[i] \in RowSet(a \o b)
  <2>1. i \in 1..Len(a \o b) /\ (a \o b)[i] = a[i] OBVIOUS
  <2>2. QED BY <2>1 DEF RowSet
<1>3. ASSUME NEW i \in 1..Len(b) PROVE b[i] \in RowSet(a \o b)
  <2>1. Len(a) + i \in 1..Len(a \o b) /\ (a \o b)[Len(a) + i] = b[i] OBVIOUS
  <2>2. QED BY <2>1 DEF RowSet
<1>4. QED BY <1>1, <1>2, <1>3 DEF RowSet

\* The rows of one tick.
Shows(s, values) == values[s].type \notin {"nan", "absent"} /\ ~ Unchanged(s, values[s])
CsvRow(now, s, values) == [time |-> now, signal |-> s, value |-> values[s]]

\* The rows of a tick: one for each signal that shows, or one for all.
LEMMA RowSetOfTick ==
  ASSUME NEW now \in Nat, NEW values \in [Signals -> StoreValues], format \in {"csv", "parquet"}
  PROVE  RowSet(NewRows(now, values)) =
           IF format = "csv" THEN {CsvRow(now, s, values) : s \in {q \in Signals : Shows(q, values)}}
           ELSE {ParquetRow(now, values)}
<1> DEFINE Part(s) == IF Shows(s, values) THEN <<CsvRow(now, s, values)>> ELSE <<>>
<1>1. \A r : RowSet(<<r>>) = {r} /\ RowSet(<<>>) = {} BY DEF RowSet
<1>2. CASE format = "parquet" BY <1>1, <1>2 DEF NewRows
<1>3. CASE format = "csv"
  <2>1. NewRows(now, values) = Part("count") \o Part("id") \o Part("coil")
    BY <1>3 DEF NewRows, CsvRows, Shows, CsvRow
  <2>2. \A s \in Signals : Shows(s, values) => CsvRow(now, s, values) \in Rows
    BY DEF CsvRow, Rows, Shows, StoreValues, Absent
  <2>3. \A s \in Signals : Part(s) \in Seq(Rows) BY <2>2
  <2>4. \A s \in Signals : RowSet(Part(s)) = IF Shows(s, values) THEN {CsvRow(now, s, values)} ELSE {}
    BY <1>1
  <2> HIDE DEF Part
  <2>5. /\ Part("count") \in Seq(Rows) /\ Part("id") \in Seq(Rows) /\ Part("coil") \in Seq(Rows)
        /\ Part("count") \o Part("id") \in Seq(Rows)
    BY <2>3 DEF Signals
  <2>6. /\ RowSet(Part("count") \o Part("id")) = RowSet(Part("count")) \union RowSet(Part("id"))
        /\ RowSet((Part("count") \o Part("id")) \o Part("coil"))
             = RowSet(Part("count") \o Part("id")) \union RowSet(Part("coil"))
    BY <2>5, RowSetAppended
  <2>7. RowSet(NewRows(now, values))
          = RowSet(Part("count")) \union RowSet(Part("id")) \union RowSet(Part("coil"))
    BY <2>1, <2>6
  <2>8. QED BY <1>3, <2>4, <2>7 DEF Signals
<1>4. QED BY <1>2, <1>3

\* They carry the time of the tick.
LEMMA RowTimes ==
  ASSUME NEW now \in Nat, NEW values \in [Signals -> StoreValues], format \in {"csv", "parquet"},
         NEW r \in RowSet(NewRows(now, values))
  PROVE  r.time = now
<1>1. CASE format = "csv"
  <2>1. PICK s \in Signals : r = CsvRow(now, s, values) BY <1>1, RowSetOfTick
  <2>2. QED BY <2>1 DEF CsvRow
<1>2. CASE format = "parquet"
  <2>1. r = ParquetRow(now, values) BY <1>2, RowSetOfTick
  <2>2. QED BY <2>1 DEF ParquetRow
<1>3. QED BY <1>1, <1>2

\* Where the rows go.
LEMMA FlushKeepsRows ==
  ASSUME BatchTypeOK, NEW rows \in Seq(Rows), NEW upTo,
         FlushWorks(rows, upTo) \/ FlushFails(rows)
  PROVE  /\ RowSet(file') \union RowSet(buffer') = RowSet(file) \union RowSet(rows)
         /\ RowSet(file) \subseteq RowSet(file')
         /\ \/ RowSet(buffer') = {} /\ saved' = upTo
            \/ saved' = saved
<1>1. file \in Seq(Rows) BY DEF BatchTypeOK
<1>2. CASE FlushWorks(rows, upTo)
  <2>1. file' = file \o rows /\ buffer' = <<>> /\ saved' = upTo BY <1>2 DEF FlushWorks, AfterFlush
  <2>2. RowSet(<<>>) = {} BY DEF RowSet
  <2>3. QED BY <1>1, <2>1, <2>2, RowSetAppended
<1>3. CASE FlushFails(rows)
  <2>1. buffer' = rows /\ saved' = saved BY <1>3 DEF FlushFails
  <2>2. CASE UNCHANGED file BY <2>1, <2>2
  <2>3. CASE \E k \in 0..Len(rows) : file' = file \o SubSeq(rows, 1, k)
    <3>1. PICK k \in 0..Len(rows) : file' = file \o SubSeq(rows, 1, k) BY <2>3
    <3>2. SubSeq(rows, 1, k) \in Seq(Rows) OBVIOUS
    <3>3. RowSet(SubSeq(rows, 1, k)) \subseteq RowSet(rows)
      <4>1. Len(SubSeq(rows, 1, k)) = k OBVIOUS
      <4>2. \A i \in 1..k : SubSeq(rows, 1, k)[i] = rows[i] /\ i \in 1..Len(rows) OBVIOUS
      <4>3. QED BY <4>1, <4>2 DEF RowSet
    <3>4. RowSet(file') = RowSet(file) \union RowSet(SubSeq(rows, 1, k))
      BY <1>1, <3>1, <3>2, RowSetAppended
    <3>5. QED BY <2>1, <3>3, <3>4
  <2>4. QED BY <1>3, <2>2, <2>3 DEF FlushFails
<1>4. QED BY <1>2, <1>3

AllRows == RowSet(file) \union RowSet(buffer)

\* The rows are those of the ticks so far and read as the store was, and a
\* tick that counts as saved has all of its rows in the file.
RowsInv ==
  /\ \A r \in AllRows : r.time \in 1..clock
  /\ \A t \in 1..clock, s \in Signals : Reading(AllRows, s, t) = Expected(s, t)
  /\ \A r \in AllRows : r.time <= saved => r \in RowSet(file)

\* The writer remembers the last value of an event-driven signal, which is
\* never NaN, once the store has it.
LastInv ==
  /\ \A s \in EventDriven : store[s].type # "nan"
  /\ \A t \in 1..clock, s \in EventDriven : truth[t][s].type # "nan"
  /\ clock > 0 => store = truth[clock]
  /\ \A s \in EventDriven :
       last[s] = IF clock = 0 \/ truth[clock][s] = Absent THEN Null ELSE truth[clock][s]

\* A flag is set where a value differs from the one of the tick before.
Differs(t, s) == t = 1 \/ truth[t][s] # truth[t - 1][s]

FlagsInv ==
  format = "parquet" =>
    \A r \in AllRows, s \in EventDriven :
      s \in r.changed <=> truth[r.time][s] # Absent /\ Differs(r.time, s)

ReaderInv == RowsInv /\ LastInv /\ FlagsInv

\* A reader of no rows knows nothing of a store in which nothing was written.
LEMMA ReaderInit == ASSUME Init PROVE ReaderInv
<1>1. AllRows = {} /\ clock = 0 BY DEF Init, AllRows, RowSet
<1>2. RowsInv BY <1>1 DEF RowsInv
<1>3. \A s \in Signals : store[s] = Absent /\ last[s] = Null BY DEF Init
<1>4. LastInv BY <1>1, <1>3, BatchAssumption DEF LastInv, Absent
<1>5. FlagsInv BY <1>1 DEF FlagsInv
<1>6. QED BY <1>2, <1>4, <1>5 DEF ReaderInv

\* What a reader makes of a value of the store.
Read(v) == IF v.type \notin {"nan", "absent"} THEN {v}
           ELSE IF format = "csv" THEN {} ELSE {IF v.type = "nan" THEN Null ELSE v}

\* What one tick adds reads as the store at its end: an event-driven signal
\* that keeps its value is read from an older row.
LEMMA TickRead ==
  ASSUME BatchTypeOK, RowsInv, LastInv, NEW values \in [Signals -> StoreValues], NEW s \in Signals,
         \A q \in EventDriven : values[q].type # "nan",
         clock > 0 /\ values[s] = Absent => truth[clock][s] = Absent,
         NEW R, R = AllRows \union RowSet(NewRows(clock + 1, values))
  PROVE  Reading(R, s, clock + 1) = Read(values[s])
<1> DEFINE now == clock + 1
           New == RowSet(NewRows(now, values))
<1>0. now \in Nat /\ clock \in Nat /\ format \in {"csv", "parquet"} BY DEF BatchTypeOK
<1>1. New = IF format = "csv" THEN {CsvRow(now, q, values) : q \in {p \in Signals : Shows(p, values)}}
            ELSE {ParquetRow(now, values)}
  BY <1>0, RowSetOfTick
<1>2. \A r \in AllRows : r.time \in 1..clock BY DEF RowsInv
<1>3. CASE format = "parquet"
  <2>1. {q \in R : q.time = now} = {ParquetRow(now, values)}
    BY <1>0, <1>1, <1>2, <1>3 DEF ParquetRow
  <2>2. ParquetRow(now, values).value[s] = IF values[s].type = "nan" THEN Null ELSE values[s]
    BY DEF ParquetRow
  <2>3. QED BY <1>3, <2>1, <2>2 DEF Reading, Read
<1>4. ASSUME format = "csv" PROVE {q \in R : q.signal = s /\ q.time = now}
                                    = IF Shows(s, values) THEN {CsvRow(now, s, values)} ELSE {}
  <2>1. \A q \in New : q.signal = s => q = CsvRow(now, s, values) /\ Shows(s, values)
    BY <1>1, <1>4 DEF CsvRow
  <2>2. Shows(s, values) => CsvRow(now, s, values) \in New BY <1>1, <1>4
  <2>3. CsvRow(now, s, values).signal = s /\ CsvRow(now, s, values).time = now BY DEF CsvRow
  <2>4. \A q \in AllRows : q.time # now BY <1>0, <1>2
  <2> DEFINE here == {q \in R : q.signal = s /\ q.time = now}
  <2> HIDE DEF New
  <2>5. here = {q \in New : q.signal = s /\ q.time = now} BY <2>4 DEF New
  <2>6. CASE Shows(s, values) BY <2>1, <2>2, <2>3, <2>5, <2>6
  <2>7. CASE ~ Shows(s, values) BY <2>1, <2>5, <2>7
  <2>8. QED BY <2>6, <2>7
<1>5. CASE format = "csv" /\ s \notin EventDriven
  <2>1. Shows(s, values) <=> values[s].type \notin {"nan", "absent"} BY <1>5 DEF Shows, Unchanged
  <2>2. CsvRow(now, s, values).value = values[s] BY DEF CsvRow
  <2>3. QED BY <1>4, <1>5, <2>1, <2>2 DEF Reading, Read
<1>6. CASE format = "csv" /\ s \in EventDriven /\ Shows(s, values)
  <2>1. CsvRow(now, s, values) \in Upto(R, s, now)
    BY <1>0, <1>4, <1>6 DEF Upto, CsvRow
  <2>2. CsvRow(now, s, values).time = now /\ CsvRow(now, s, values).value = values[s] BY DEF CsvRow
  <2>3. \A q \in R : q.time \in Int /\ q.time <= now BY <1>0, <1>1, <1>2, <1>6 DEF CsvRow
  <2>4. Newest(R, s, now) = {CsvRow(now, s, values)}
    <3>1. \A q \in Upto(R, s, now) : q.time <= now BY DEF Upto
    <3>2. CsvRow(now, s, values) \in Newest(R, s, now) BY <2>1, <2>2, <3>1 DEF Newest
    <3>3. ASSUME NEW q \in Newest(R, s, now) PROVE q = CsvRow(now, s, values)
      <4>1. q \in R /\ q.signal = s /\ q.time >= now BY <2>1, <2>2 DEF Newest, Upto
      <4>2. q.time = now BY <1>0, <2>3, <4>1
      <4>3. QED BY <1>4, <1>6, <4>1, <4>2
    <3>4. QED BY <3>2, <3>3
  <2>5. QED BY <1>6, <2>2, <2>4 DEF Reading, Read, Shows
<1>7. CASE format = "csv" /\ s \in EventDriven /\ ~ Shows(s, values)
  <2>1. values[s] = Absent \/ values[s] = last[s]
    <3>1. values[s].type # "nan" BY <1>7
    <3>2. values[s].type = "absent" => values[s] = Absent BY DEF StoreValues, Values
    <3>3. QED BY <1>7, <3>1, <3>2 DEF Shows, Unchanged
  <2>2. clock > 0 => truth[clock][s] = values[s]
    <3>1. values[s] # Null BY DEF Null, Values, StoreValues, Absent
    <3>2. QED BY <1>0, <1>7, <2>1, <3>1 DEF LastInv
  <2>3. \A q \in New : q.signal # s BY <1>1, <1>7 DEF CsvRow
  <2>4. Upto(R, s, now) = Upto(AllRows, s, clock)
    <3>1. \A q \in AllRows : q.time <= now /\ q.time <= clock BY <1>0, <1>2
    <3>2. Upto(R, s, now) = {q \in AllRows : q.signal = s /\ q.time <= now}
      BY <2>3 DEF Upto
    <3>3. QED BY <3>1, <3>2 DEF Upto
  <2>5. Reading(R, s, now) = Reading(AllRows, s, clock)
    BY <1>7, <2>4 DEF Reading, Newest
  <2>6. CASE clock > 0
    <3>1. Reading(AllRows, s, clock) = Expected(s, clock) BY <1>0, <2>6 DEF RowsInv
    <3>2. QED BY <2>2, <2>5, <2>6, <3>1 DEF Expected, Read
  <2>7. CASE clock = 0
    <3>1. values[s] = Absent
      <4>1. last[s] = Null BY <1>7, <2>7 DEF LastInv
      <4>2. values[s] # Null BY DEF Null, Values, StoreValues, Absent
      <4>3. QED BY <2>1, <4>1, <4>2
    <3>2. Upto(R, s, now) = {} BY <1>2, <2>4, <2>7 DEF Upto
    <3>3. Reading(R, s, now) = {} BY <1>7, <3>2 DEF Reading, Newest
    <3>4. Read(Absent) = {} BY <1>7 DEF Read, Absent
    <3>5. QED BY <3>1, <3>3, <3>4
  <2>8. QED BY <1>0, <2>6, <2>7
<1>8. QED BY <1>0, <1>3, <1>5, <1>6, <1>7

\* A tick keeps what was read before it.
LEMMA TickKeepsReadings ==
  ASSUME BatchTypeOK, RowsInv, LastInv, NEW values \in [Signals -> StoreValues],
         \A q \in EventDriven : values[q].type # "nan",
         \A q \in Signals : clock > 0 /\ values[q] = Absent => truth[clock][q] = Absent,
         clock' = clock + 1, truth' = Append(truth, values), UNCHANGED format,
         AllRows' = AllRows \union RowSet(NewRows(clock + 1, values))
  PROVE  /\ \A r \in AllRows' : r.time \in 1..clock'
         /\ \A t \in 1..clock', s \in Signals : Reading(AllRows, s, t)' = Expected(s, t)'
<1> DEFINE New == RowSet(NewRows(clock + 1, values))
<1>0. clock \in Nat /\ format \in {"csv", "parquet"} /\ truth \in Seq([Signals -> StoreValues])
      /\ Len(truth) = clock
  BY DEF BatchTypeOK
<1>1. \A r \in New : r.time = clock + 1
  <2>1. clock + 1 \in Nat BY <1>0
  <2>2. QED BY <1>0, <2>1, RowTimes
<1>2. \A r \in AllRows : r.time \in 1..clock BY DEF RowsInv
<1>3. \A r \in AllRows' : r.time \in 1..clock' BY <1>0, <1>1, <1>2
<1>4. ASSUME NEW t \in 1..clock', NEW s \in Signals
      PROVE  Reading(AllRows, s, t)' = Expected(s, t)'
  <2>1. Reading(AllRows, s, t)' = Reading(AllRows', s, t) BY DEF Reading, Newest, Upto
  <2>2. truth'[t] = IF t = clock + 1 THEN values ELSE truth[t] BY <1>0
  <2>3. CASE t = clock + 1
    <3>1. Reading(AllRows', s, t) = Read(values[s]) BY <2>3, TickRead
    <3>2. QED BY <2>1, <2>2, <2>3, <3>1 DEF Expected, Read
  <2>4. CASE t # clock + 1
    <3>1. t \in 1..clock /\ t \in Nat BY <1>0, <2>4
    <3>2. {r \in AllRows' : r.time <= t} = {r \in AllRows : r.time <= t}
      <4>1. \A r \in New : ~ (r.time <= t) BY <1>0, <1>1, <3>1
      <4> HIDE DEF New
      <4>2. AllRows' = AllRows \union New BY DEF New
      <4>3. QED BY <4>1, <4>2
    <3>3. Reading(AllRows', s, t) = Reading(AllRows, s, t) BY <3>1, <3>2, ReadingIsLocal
    <3>4. Expected(s, t)' = Expected(s, t) BY <2>2, <2>4 DEF Expected
    <3>5. Reading(AllRows, s, t) = Expected(s, t) BY <3>1 DEF RowsInv
    <3>6. QED BY <2>1, <3>3, <3>4, <3>5
  <2>5. QED BY <2>3, <2>4
<1>5. QED BY <1>3, <1>4

\* What a sensor disconnect leaves of an event-driven signal is no NaN.
LEMMA NoNaN ==
  ASSUME NumbersOnChange, BatchTypeOK, LastInv, NEW coil \in Coils,
         NEW disconnected \in SUBSET Disconnectable, NEW s \in EventDriven
  PROVE  Injected(Generated(clock + 1, coil), disconnected)[s].type # "nan"
<1>1. s \in Signals BY BatchAssumption
<1>2. Generated(clock + 1, coil)[s].type # "nan"
  BY <1>1 DEF Generated, WithCoil, Coils, Num, Str, LastInv
<1>3. s \in disconnected => Sentinel.type # "nan" BY DEF NumbersOnChange
<1>4. QED BY <1>1, <1>2, <1>3 DEF Injected

\* After a tick the reader of the rows knows the store of that tick.
LEMMA ReaderTick ==
  ASSUME NumbersOnChange, BatchTypeOK, ReaderInv,
         NEW coil \in Coils, NEW change \in BOOLEAN, NEW speed \in Speeds,
         NEW disconnected \in SUBSET Disconnectable, Tick(coil, change, speed, disconnected)
  PROVE  ReaderInv'
<1>0. /\ clock \in Nat /\ format \in {"csv", "parquet"} /\ truth \in Seq([Signals -> StoreValues])
      /\ Len(truth) = clock /\ saved \in 0..clock /\ buffer \in Seq(Rows)
  BY DEF BatchTypeOK
<1>1. PICK values \in [Signals -> StoreValues], rows \in Seq(Rows) :
         /\ values = Injected(Generated(clock + 1, coil), disconnected)
         /\ rows = buffer \o NewRows(clock + 1, values)
         /\ main = "ticking" /\ clock' = clock + 1 /\ UNCHANGED <<format, readable>>
         /\ CounterStep(clock + 1, change, speed)
         /\ store' = values /\ truth' = Append(truth, values) /\ last' = Remembered(values)
         /\ Buffered(rows) \/ Flushed(rows) \/ Failed(rows)
  BY TickParts
<1> DEFINE New == RowSet(NewRows(clock + 1, values))
<1>2. \A s \in EventDriven : values[s].type # "nan" BY <1>1, NoNaN DEF ReaderInv
<1>3. RowSet(rows) = RowSet(buffer) \union New
  <2>1. NewRows(clock + 1, values) \in Seq(Rows) BY <1>0, RowTypes
  <2>2. QED BY <1>0, <1>1, <2>1, RowSetAppended
<1>4. \A r \in New : r.time = clock + 1 BY <1>0, RowTimes
<1> HIDE DEF New
<1>5. /\ AllRows' = AllRows \union New
      /\ RowSet(file) \subseteq RowSet(file')
      /\ saved' = saved \/ AllRows' = RowSet(file')
  <2>1. CASE Buffered(rows)
    <3>1. AllRows' = RowSet(file) \union RowSet(rows) BY <2>1 DEF Buffered, AllRows
    <3>2. rows = <<>> => RowSet(rows) = {} BY DEF RowSet
    <3>3. file' = file /\ (saved' = saved \/ rows = <<>>) BY <2>1 DEF Buffered
    <3>4. QED BY <1>3, <3>1, <3>2, <3>3 DEF AllRows
  <2>2. CASE Flushed(rows) \/ Failed(rows)
    <3>1. FlushWorks(rows, clock + 1) \/ FlushFails(rows) BY <2>2 DEF Flushed, Failed
    <3>2. /\ AllRows' = RowSet(file) \union RowSet(rows) /\ RowSet(file) \subseteq RowSet(file')
          /\ RowSet(buffer') = {} \/ saved' = saved
      BY <3>1, FlushKeepsRows DEF AllRows
    <3>3. RowSet(buffer') = {} => AllRows' = RowSet(file') BY DEF AllRows
    <3>4. QED BY <1>3, <3>2, <3>3 DEF AllRows
  <2>3. QED BY <1>1, <2>1, <2>2
<1>6. RowsInv'
  <2>1. /\ \A r \in AllRows' : r.time \in 1..clock'
        /\ \A t \in 1..clock', s \in Signals : Reading(AllRows, s, t)' = Expected(s, t)'
    <3>1. \A q \in Signals : clock > 0 /\ values[q] = Absent => truth[clock][q] = Absent
      BY <1>1, NothingRemoved DEF ReaderInv, LastInv
    <3>2. QED BY <1>1, <1>2, <1>5, <3>1, TickKeepsReadings DEF ReaderInv, New
  <2>2. \A r \in AllRows' : r.time <= saved' => r \in RowSet(file')
    <3>1. CASE AllRows' = RowSet(file') BY <3>1
    <3>2. CASE saved' = saved
      <4>1. \A r \in New : ~ (r.time <= saved) BY <1>0, <1>4
      <4>2. \A r \in AllRows : r.time <= saved => r \in RowSet(file) BY DEF ReaderInv, RowsInv
      <4>3. QED BY <1>5, <3>2, <4>1, <4>2
    <3>3. QED BY <1>5, <3>1, <3>2
  <2>3. QED BY <2>1, <2>2 DEF RowsInv
<1>7. \A t \in 1..clock' : truth'[t] = IF t = clock + 1 THEN values ELSE truth[t]
  BY <1>0, <1>1
<1>8. LastInv'
  <2>1. \A s \in EventDriven : store'[s].type # "nan" BY <1>1, <1>2
  <2>2. \A t \in 1..clock', s \in EventDriven : truth'[t][s].type # "nan"
    <3> SUFFICES ASSUME NEW t \in 1..clock', NEW s \in EventDriven
                 PROVE  truth'[t][s].type # "nan"
      OBVIOUS
    <3>1. CASE t = clock + 1 BY <1>2, <1>7, <3>1
    <3>2. CASE t # clock + 1
      <4>1. t \in 1..clock BY <1>0, <1>1, <3>2
      <4>2. QED BY <1>7, <3>2, <4>1 DEF ReaderInv, LastInv
    <3>3. QED BY <3>1, <3>2
  <2>3. ASSUME NEW s \in EventDriven
        PROVE  last'[s] = IF truth'[clock'][s] = Absent THEN Null ELSE truth'[clock'][s]
    <3>1. truth'[clock'] = values /\ s \in Signals BY <1>0, <1>1, <1>7, BatchAssumption
    <3>2. CASE values[s] # Absent BY <1>1, <1>2, <3>1, <3>2 DEF Remembered
    <3>3. CASE values[s] = Absent
      <4>1. last'[s] = last[s] BY <1>1, <3>1, <3>3 DEF Remembered
      <4>2. clock > 0 => truth[clock][s] = Absent
        BY <1>1, <3>1, <3>3, NothingRemoved DEF ReaderInv, LastInv
      <4>3. last[s] = Null BY <1>0, <4>2 DEF ReaderInv, LastInv
      <4>4. QED BY <3>1, <3>3, <4>1, <4>3
    <3>4. QED BY <3>2, <3>3
  <2>4. clock' # 0 /\ store' = truth'[clock'] BY <1>0, <1>1, <1>7
  <2>5. QED BY <2>1, <2>2, <2>3, <2>4 DEF LastInv
<1>9. FlagsInv'
  <2> SUFFICES ASSUME format = "parquet", NEW r \in AllRows', NEW s \in EventDriven
               PROVE  s \in r.changed <=> truth'[r.time][s] # Absent /\ Differs(r.time, s)'
    BY <1>1 DEF FlagsInv
  <2>1. CASE r \in AllRows
    <3>1. r.time \in 1..clock BY <2>1 DEF ReaderInv, RowsInv
    <3>2. Differs(r.time, s)' <=> Differs(r.time, s)
      <4>1. truth'[r.time] = truth[r.time] BY <1>0, <1>1, <1>7, <3>1
      <4>2. r.time # 1 => truth'[r.time - 1] = truth[r.time - 1] BY <1>0, <1>1, <1>7, <3>1
      <4>3. QED BY <4>1, <4>2 DEF Differs
    <3>3. truth'[r.time] = truth[r.time] BY <1>0, <1>1, <1>7, <3>1
    <3>4. QED BY <2>1, <3>2, <3>3 DEF ReaderInv, FlagsInv
  <2>2. CASE r \in New
    <3>1. r = ParquetRow(clock + 1, values) BY <1>0, <2>2, RowSetOfTick DEF New
    <3>2. /\ r.time = clock + 1 /\ truth'[r.time] = values
          /\ s \in r.changed <=> values[s] # Absent /\ ~ Unchanged(s, values[s])
      BY <1>0, <1>1, <1>7, <3>1 DEF ParquetRow
    <3>3. Unchanged(s, values[s]) <=> values[s] = last[s] BY DEF Unchanged
    <3>4. values[s] # Null BY BatchAssumption DEF Null, Values, StoreValues, Absent
    <3>5. CASE clock = 0
      <4>1. last[s] = Null BY <3>5 DEF ReaderInv, LastInv
      <4>2. r.time = 1 BY <3>2, <3>5
      <4>3. Differs(r.time, s)' BY <4>2 DEF Differs
      <4>4. QED BY <3>2, <3>3, <3>4, <4>1, <4>3
    <3>6. CASE clock # 0
      <4>1. last[s] = IF truth[clock][s] = Absent THEN Null ELSE truth[clock][s]
        BY <3>6 DEF ReaderInv, LastInv
      <4>2. truth'[clock + 1] = values /\ truth'[clock] = truth[clock]
        BY <1>0, <1>1, <1>7, <3>6
      <4>3. r.time # 1 /\ r.time - 1 = clock BY <1>0, <3>2, <3>6
      <4>4. Differs(r.time, s)' <=> values[s] # truth[clock][s]
        BY <3>2, <4>2, <4>3 DEF Differs
      <4>5. QED BY <3>2, <3>3, <3>4, <4>1, <4>4
    <3>7. QED BY <3>5, <3>6
  <2>3. QED BY <1>5, <2>1, <2>2
<1>10. QED BY <1>6, <1>8, <1>9 DEF ReaderInv

\* Any step that leaves the rows, the values and the writer's memory alone.
LEMMA ReaderKept ==
  ASSUME BatchTypeOK, ReaderInv, UNCHANGED <<format, clock, store, truth, last>>,
         AllRows' = AllRows, RowSet(file) \subseteq RowSet(file'),
         saved' = saved \/ AllRows' = RowSet(file')
  PROVE  ReaderInv'
<1>1. \A t \in 1..clock, s \in Signals :
        Reading(AllRows, s, t)' = Reading(AllRows, s, t) /\ Expected(s, t)' = Expected(s, t)
  BY DEF Reading, Newest, Upto, Expected
<1>2. \A r \in AllRows' : r.time <= saved' => r \in RowSet(file')
  <2>1. CASE saved' = saved BY <2>1 DEF ReaderInv, RowsInv
  <2>2. CASE AllRows' = RowSet(file') BY <2>2
  <2>3. QED BY <2>1, <2>2
<1>3. RowsInv' BY <1>1, <1>2 DEF ReaderInv, RowsInv
<1>4. LastInv' BY DEF ReaderInv, LastInv
<1>5. FlagsInv' BY DEF ReaderInv, FlagsInv, Differs
<1>6. QED BY <1>3, <1>4, <1>5 DEF ReaderInv

\* Closing the writer loses no row that was handed over.
LEMMA ReaderClose == ASSUME BatchTypeOK, ReaderInv, Close PROVE ReaderInv'
<1>1. UNCHANGED <<format, clock, store, truth, last>> BY DEF Close, counterVars
<1>2. buffer \in Seq(Rows) BY DEF BatchTypeOK
<1>3. CASE UNCHANGED <<buffer, fileVars>>
  <2>1. AllRows' = AllRows /\ file' = file /\ saved' = saved BY <1>3 DEF AllRows, fileVars
  <2>2. QED BY <1>1, <2>1, ReaderKept
<1>4. CASE FlushWorks(buffer, Len(truth)) \/ FlushFails(buffer)
  <2>1. /\ AllRows' = AllRows /\ RowSet(file) \subseteq RowSet(file')
        /\ RowSet(buffer') = {} \/ saved' = saved
    BY <1>2, <1>4, FlushKeepsRows DEF AllRows
  <2>2. RowSet(buffer') = {} => AllRows' = RowSet(file') BY DEF AllRows
  <2>3. QED BY <1>1, <2>1, <2>2, ReaderKept
<1>5. QED BY <1>3, <1>4 DEF Close, FinalFlush

\* No step makes the reader see another history.
LEMMA ReaderStep ==
  ASSUME NumbersOnChange, BatchTypeOK, ReaderInv, [Next]_vars PROVE ReaderInv'
<1>1. CASE \E coil \in Coils, change \in BOOLEAN, speed \in Speeds,
               disconnected \in SUBSET Disconnectable : Tick(coil, change, speed, disconnected)
  BY <1>1, ReaderTick
<1>2. CASE Close BY <1>2, ReaderClose
<1>3. CASE (\E interrupted \in BOOLEAN : Await(interrupted)) \/ Kill \/ UNCHANGED vars
  <2>1. UNCHANGED <<format, clock, store, truth, last, buffer, file, saved>>
    BY <1>3 DEF Await, Kill, vars, counterVars, fileVars
  <2>2. AllRows' = AllRows BY <2>1 DEF AllRows
  <2>3. QED BY <2>1, <2>2, ReaderKept
<1>4. QED BY <1>1, <1>2, <1>3 DEF Next

\* Whatever flush failed, was interrupted or ended the run: a reader of the
\* file and the buffer finds the store of every tick, and a reader of the
\* file the store of every tick that counts as saved.
THEOREM RowsHold == ASSUME NumbersOnChange PROVE Spec => []RowsFaithful
<1>1. BatchTypeOK /\ ReaderInv => RowsFaithful
  <2> SUFFICES ASSUME BatchTypeOK, ReaderInv PROVE RowsFaithful OBVIOUS
  <2> DEFINE rows == file \o buffer
  <2>0. /\ clock \in Nat /\ format \in {"csv", "parquet"} /\ saved \in 0..clock
        /\ file \in Seq(Rows) /\ buffer \in Seq(Rows)
    BY DEF BatchTypeOK
  <2>1. RowSet(rows) = AllRows BY <2>0, RowSetAppended DEF AllRows
  <2>2. \A t \in 1..clock : Faithful(rows, t)
    <3> HIDE DEF rows
    <3> SUFFICES ASSUME NEW t \in 1..clock, NEW s \in Signals
                 PROVE  (IF format = "csv" THEN ReadCsv(rows, s, t) ELSE ReadParquet(rows, s, t))
                          = Expected(s, t)
      BY DEF Faithful
    <3>1. t \in Nat OBVIOUS
    <3>2. QED BY <2>0, <2>1, <3>1, ReadingOfRows DEF ReaderInv, RowsInv
  <2>3. \A t \in 1..saved : Faithful(file, t)
    <3> SUFFICES ASSUME NEW t \in 1..saved, NEW s \in Signals
                 PROVE  (IF format = "csv" THEN ReadCsv(file, s, t) ELSE ReadParquet(file, s, t))
                          = Expected(s, t)
      BY DEF Faithful
    <3>1. t \in Nat /\ t \in 1..clock /\ t <= saved /\ saved \in Nat BY <2>0
    <3>2. {r \in AllRows : r.time <= t} = {r \in RowSet(file) : r.time <= t}
      <4>1. \A r \in AllRows : r.time \in Nat BY DEF ReaderInv, RowsInv
      <4>2. \A r \in AllRows : r.time <= t => r.time <= saved BY <3>1, <4>1
      <4>3. QED BY <4>2 DEF ReaderInv, RowsInv, AllRows
    <3>3. Reading(AllRows, s, t) = Reading(RowSet(file), s, t) BY <3>1, <3>2, ReadingIsLocal
    <3>4. QED BY <2>0, <3>1, <3>3, ReadingOfRows DEF ReaderInv, RowsInv
  <2>4. ASSUME format = "parquet", NEW i \in 1..Len(rows), NEW s \in EventDriven
        PROVE  s \in rows[i].changed <=> /\ truth[rows[i].time][s] # Absent
                                          /\ Differs(rows[i].time, s)
    <3>1. rows[i] \in AllRows BY <2>1 DEF RowSet
    <3> HIDE DEF rows
    <3>2. QED BY <2>4, <3>1 DEF ReaderInv, FlagsInv
  <2>5. QED BY <2>2, <2>3, <2>4 DEF RowsFaithful, Differs
<1>2. Init => ReaderInv BY ReaderInit
<1>3. BatchTypeOK /\ ReaderInv /\ [Next]_vars => ReaderInv' BY ReaderStep
<1>4. QED BY <1>1, <1>2, <1>3, BatchTyped, PTL DEF Spec

-----------------------------------------------------------------------------
(***************************************************************************)
(* CoderLine.                                                              *)
(***************************************************************************)
USE DEF Never

\* The steps a cartridge scenario takes in its turn, and the anomaly in its.
CartridgeStep(s) ==
  StartCartridge(s) \/ WatchCartridge(s) \/ AwaitReplacement(s) \/ EndReplacement(s)

AnomalyStep ==
  \/ StartAnomaly \/ GiveUp \/ StartInjecting \/ WaitOn
  \/ StateLeft \/ InjectOn \/ InjectedEnough

-----------------------------------------------------------------------------
\* A turn of a cartridge scenario keeps the types of what it changes.
LEMMA CartridgeTypes ==
  ASSUME CoderTypeOK, NEW s \in Cartridges, CartridgeStep(s) \/ Replace(s)
  PROVE  /\ coder' \in CoderStates /\ ink' \in 0..Full /\ refillAt' \in {Never, RefillAt}
         /\ phase' \in [Scenarios -> {"pending", "monitoring", "depleted", "waiting", "injecting", "completed"}]
         /\ savedRefill' \in [Cartridges -> {Never, RefillAt}]
         /\ locked' \in BOOLEAN
         /\ flagged' \in [Cartridges -> BOOLEAN] /\ savedLock' \in [Cartridges -> BOOLEAN]
<1> USE CoderAssumption DEF CoderTypeOK, Cartridges, Scenarios, Anomaly, CoderStates
<1>1. CASE Replace(s)
  <2>1. locked' \in BOOLEAN BY <1>1 DEF Replace
  <2>2. QED BY <1>1, <2>1 DEF Replace, copies
<1>2. CASE AwaitReplacement(s) BY <1>2 DEF AwaitReplacement, machine, copies
<1>3. ASSUME MonitoringTick(s)
      PROVE  /\ coder' \in CoderStates /\ ink' \in 0..Full
             /\ phase' \in [Scenarios -> {"pending", "monitoring", "depleted", "waiting", "injecting", "completed"}]
             /\ locked' \in BOOLEAN
             /\ flagged' \in [Cartridges -> BOOLEAN] /\ savedLock' \in [Cartridges -> BOOLEAN]
  BY <1>3 DEF MonitoringTick, LevelFine, LevelLow, EnterDepleted
<1>4. CASE StartCartridge(s)
  BY <1>3, <1>4 DEF StartCartridge, BeginMonitoring
<1>5. CASE WatchCartridge(s)
  BY <1>3, <1>5 DEF WatchCartridge
<1>6. QED BY <1>1, <1>2, <1>4, <1>5 DEF CartridgeStep, EndReplacement

\* The type invariant of CoderLine holds.
THEOREM CoderTyped == CoderSpec => []CoderTypeOK
<1> USE CoderAssumption DEF CoderTypeOK
<1>1. CoderInit => CoderTypeOK
  <2> SUFFICES ASSUME CoderInit PROVE CoderTypeOK OBVIOUS
  <2>1. locked \in BOOLEAN BY DEF CoderInit
  <2>2. flagged \in [Cartridges -> BOOLEAN] /\ savedLock \in [Cartridges -> BOOLEAN] BY DEF CoderInit
  <2>3. QED BY <2>1, <2>2 DEF CoderInit, CoderStates, Scenarios, Cartridges, Anomaly
<1>2. CoderTypeOK /\ [CoderNext]_coderVars => CoderTypeOK'
  <2> SUFFICES ASSUME CoderTypeOK, [CoderNext]_coderVars PROVE CoderTypeOK' OBVIOUS
  <2>1. CASE Begin
    <3>1. locked' \in BOOLEAN BY <2>1 DEF Begin, machine
    <3>2. /\ UNCHANGED <<kind, press, coder, stored, ink, refillAt, phase, savedRefill, flagged, savedLock, waited>>
          /\ pc' = "scenarios" /\ cursor' = 1
      BY <2>1 DEF Begin, machine, copies, anomaly, storeEntries
    <3>3. victims' \subseteq Scenarios BY <2>1 DEF Begin
    <3>4. QED BY <3>1, <3>2, <3>3 DEF Scenarios, Anomaly
  <2>2. CASE Preempt
    BY <2>2, CartridgeTypes
    DEF Preempt, EndAnomaly, machine, copies, anomaly, storeEntries, Cartridges, Scenarios, Anomaly
  <2>3. ASSUME NEW s \in Cartridges, EvaluateCartridge(s) PROVE CoderTypeOK'
    BY <2>3, CartridgeTypes
    DEF EvaluateCartridge, CartridgeStep, Evaluating, anomaly, storeEntries, Cartridges, Anomaly
  <2>4. CASE EvaluateAnomaly
    BY <2>4
    DEF EvaluateAnomaly, Evaluating, StartAnomaly, LogGtStart, GiveUp, StartInjecting, WaitOn, StateLeft,
        InjectOn, InjectedEnough, EndAnomaly, machine, copies, anomaly, storeEntries, Scenarios, Anomaly
  <2>5. ASSUME NEW s \in Scenarios, LeaveAlone(s) PROVE CoderTypeOK'
    BY <2>5 DEF LeaveAlone, Evaluating, machine, copies, anomaly, storeEntries, Scenarios, Anomaly
  <2>6. CASE PressRuns BY <2>6 DEF PressRuns, machine, copies, anomaly
  <2>7. CASE CoderTurn
    <3>1. NextStates(coder) \subseteq CoderStates BY DEF NextStates, CoderStates
    <3>2. coder' \in CoderStates /\ stored' \in CoderStates /\ ink' \in 0..Full
      BY <2>7, <3>1 DEF CoderTurn, CoderRuns, Refilled
    <3>3. QED BY <2>7, <3>2 DEF CoderTurn, copies, anomaly
  <2>8. CASE Inject BY <2>8 DEF Inject, machine, copies, anomaly
  <2>9. CASE UNCHANGED coderVars BY <2>9 DEF coderVars, machine, copies, anomaly, storeEntries, loop
  <2>10. QED BY <2>1, <2>2, <2>3, <2>4, <2>5, <2>6, <2>7, <2>8, <2>9 DEF CoderNext
<1>3. QED BY <1>1, <1>2, PTL DEF CoderSpec

-----------------------------------------------------------------------------
\* An anomaly that injects has its record, and one that has not begun to
\* inject has left nothing in the store.
TruthInv ==
  /\ InjectionTruthful
  /\ phase[Anomaly] = "injecting" => told
  /\ phase[Anomaly] \in {"pending", "waiting"} => ~ shown

\* A turn of the anomaly keeps the invariant: the store does not change.
LEMMA AnomalyTruth ==
  ASSUME CoderTypeOK, TruthInv, AnomalyStep, UNCHANGED <<kind, storeEntries>>
  PROVE  TruthInv'
<1> USE DEF TruthInv, InjectionTruthful, CoderTypeOK, Scenarios
<1>0. Anomaly \in Scenarios BY CoderAssumption DEF Anomaly, Scenarios
<1>1. InTarget' = InTarget /\ shown' = shown BY DEF InTarget, storeEntries
<1>2. CASE StartAnomaly BY <1>0, <1>1, <1>2 DEF StartAnomaly, LogGtStart
<1>3. CASE StartInjecting BY <1>0, <1>1, <1>3 DEF StartInjecting, LogGtStart
<1>4. CASE GiveUp \/ StateLeft \/ InjectedEnough
  BY <1>0, <1>1, <1>4 DEF GiveUp, StateLeft, InjectedEnough, EndAnomaly, anomaly
<1>5. CASE WaitOn \/ InjectOn BY <1>1, <1>5 DEF WaitOn, InjectOn
<1>6. QED BY <1>2, <1>3, <1>4, <1>5 DEF AnomalyStep

\* An injected value is in the store only beside a state that it contradicts,
\* and only after its record.
THEOREM InjectionHolds == CoderSpec => []InjectionTruthful
<1>0. Anomaly \in Scenarios BY CoderAssumption DEF Anomaly, Scenarios
<1>1. CoderInit => TruthInv BY <1>0 DEF CoderInit, TruthInv, InjectionTruthful
<1>2. CoderTypeOK /\ TruthInv /\ [CoderNext]_coderVars => TruthInv'
  <2> SUFFICES ASSUME CoderTypeOK, TruthInv, [CoderNext]_coderVars PROVE TruthInv' OBVIOUS
  <2> USE DEF TruthInv, InjectionTruthful, InTarget
  <2>0. \A s \in Cartridges : s # Anomaly BY CoderAssumption DEF Cartridges, Anomaly
  <2>1. CASE Begin BY <2>1 DEF Begin, anomaly, storeEntries
  <2>2. CASE Preempt
    <3>1. PICK s \in victims : \/ s \in Cartridges /\ Replace(s) /\ UNCHANGED anomaly
                               \/ s = Anomaly /\ EndAnomaly
      BY <2>2 DEF Preempt
    <3>2. UNCHANGED <<kind, press, stored, shown>> BY <2>2 DEF Preempt, storeEntries
    <3>3. UNCHANGED told BY <3>1 DEF EndAnomaly, anomaly
    <3>4. phase'[Anomaly] \in {phase[Anomaly], "completed"}
      BY <1>0, <2>0, <3>1 DEF Replace, EndAnomaly, CoderTypeOK
    <3>5. QED BY <3>2, <3>3, <3>4
  <2>3. ASSUME NEW s \in Cartridges, EvaluateCartridge(s) PROVE TruthInv'
    <3>1. UNCHANGED <<kind, press, stored, shown, told>>
      BY <2>3 DEF EvaluateCartridge, Evaluating, storeEntries, anomaly
    <3>2. phase'[Anomaly] = phase[Anomaly]
      BY <1>0, <2>0, <2>3 DEF EvaluateCartridge, StartCartridge, WatchCartridge, AwaitReplacement, EndReplacement,
           MonitoringTick, LevelFine, LevelLow, EnterDepleted, Replace, CoderTypeOK
    <3>3. QED BY <3>1, <3>2
  <2>4. CASE EvaluateAnomaly BY <2>4, AnomalyTruth DEF EvaluateAnomaly, Evaluating, AnomalyStep
  <2>5. ASSUME NEW s \in Scenarios, LeaveAlone(s) PROVE TruthInv'
    BY <2>5 DEF LeaveAlone, Evaluating, anomaly, storeEntries
  <2>6. CASE PressRuns
    <3>1. UNCHANGED <<phase, kind, told, stored>> BY <2>6 DEF PressRuns, anomaly
    <3>2. shown' => shown BY <2>6 DEF PressRuns
    <3>3. press' = press \/ (shown' => kind # "counter_false_trigger") BY <2>6 DEF PressRuns
    <3>4. shown' /\ InTarget => InTarget' BY <3>1, <3>3 DEF CoderTypeOK
    <3>5. QED BY <3>1, <3>2, <3>4 DEF CoderTypeOK
  <2>7. CASE CoderTurn
    <3>1. UNCHANGED <<phase, kind, told, press>> BY <2>7 DEF CoderTurn, anomaly
    <3>2. shown' => shown BY <2>7 DEF CoderTurn, CoderRuns
    <3>3. stored' = stored \/ (shown' => kind = "counter_false_trigger") BY <2>7 DEF CoderTurn, CoderRuns
    <3>4. shown' /\ InTarget => InTarget' BY <3>1, <3>3 DEF CoderTypeOK
    <3>5. QED BY <3>1, <3>2, <3>4 DEF CoderTypeOK
  <2>8. CASE Inject BY <2>8 DEF Inject, anomaly
  <2>9. CASE UNCHANGED coderVars BY <2>9 DEF coderVars, anomaly, storeEntries
  <2>10. QED BY <2>1, <2>2, <2>3, <2>4, <2>5, <2>6, <2>7, <2>8, <2>9 DEF CoderNext
<1>3. TruthInv => InjectionTruthful BY DEF TruthInv
<1>4. QED BY <1>1, <1>2, <1>3, CoderTyped, PTL DEF CoderSpec

-----------------------------------------------------------------------------
(***************************************************************************)
(* The cartridge.  At most one scenario is active as long as none has      *)
(* overlapped; it has disabled the refill and holds the healthy threshold, *)
(* and when it is still monitoring with an empty cartridge, its turn comes *)
(* before the coder prints again.                                          *)
(***************************************************************************)
Awaited(s) == pc \in {"inject", "begin"} \/ (pc = "scenarios" /\ cursor <= s)

Watched(s) ==
  /\ savedRefill[s] = RefillAt /\ refillAt = Never
  /\ phase[s] = "monitoring" => ~ locked /\ (ink <= Empty => Awaited(s))
  /\ phase[s] = "depleted" => locked /\ ~ savedLock[s] /\ coder = "Fault"

AtRest == refillAt = RefillAt /\ ~ locked /\ ~ uncertain /\ ink > RefillAt

CartridgeInv ==
  /\ \A s \in Cartridges : phase[s] \in {"pending", "monitoring", "depleted", "completed"}
  /\ \A s \in victims : IsActive(s) /\ pc = "scenarios"
  /\ ~ overlapped =>
       /\ \A s, t \in ActiveCartridges : s = t
       /\ \A s \in ActiveCartridges : Watched(s)
       /\ ActiveCartridges = {} => AtRest
       /\ ink >= Empty

\* The invariant implies the property.
LEMMA KeptInvSuffices == CoderTypeOK /\ CartridgeInv => CartridgeKept
  BY DEF CartridgeInv, CartridgeKept, Watched, AtRest, ActiveCartridges, IsActive

\* A step that leaves the cartridge, its scenarios and the coder alone keeps
\* the invariant, if nobody loses the turn it waits for.
LEMMA OthersKeep ==
  ASSUME CartridgeInv, UNCHANGED <<machine, copies>>,
         \A s \in Cartridges : phase'[s] = phase[s],
         \A s \in Cartridges : phase[s] = "monitoring" /\ Awaited(s) => Awaited(s)',
         \A s \in victims' : IsActive(s)' /\ pc' = "scenarios"
  PROVE  CartridgeInv'
<1>1. ActiveCartridges' = ActiveCartridges BY DEF ActiveCartridges, IsActive
<1>2. \A s \in ActiveCartridges : Watched(s) => Watched(s)'
  BY DEF Watched, ActiveCartridges, machine, copies
<1>3. AtRest => AtRest' BY DEF AtRest, machine
<1>4. overlapped' = overlapped /\ ink' = ink BY DEF copies, machine
<1>5. QED BY <1>1, <1>2, <1>3, <1>4 DEF CartridgeInv

\* The replacement of a cartridge restores what the scenario saved.
LEMMA ReplaceKeeps ==
  ASSUME CoderTypeOK, CartridgeInv, NEW s \in Cartridges, IsActive(s), Replace(s),
         \A t \in victims' : t # s /\ t \in victims /\ pc' = "scenarios"
  PROVE  CartridgeInv'
<1> USE CoderAssumption DEF CoderTypeOK
<1>1. s \in Scenarios BY DEF Cartridges, Scenarios, Anomaly
<1>2. phase' = [phase EXCEPT ![s] = "completed"] BY DEF Replace
<1>3. \A t \in Cartridges : phase'[t] \in {"pending", "monitoring", "depleted", "completed"}
  BY <1>1, <1>2 DEF CartridgeInv
<1>4. \A t \in victims' : IsActive(t)' /\ pc' = "scenarios" BY <1>2 DEF CartridgeInv, IsActive
<1>5. ASSUME ~ overlapped'
      PROVE  ActiveCartridges' = {} /\ AtRest' /\ ink' >= Empty
  <2>1. ~ overlapped BY <1>5 DEF Replace, copies
  <2>2. \A t \in ActiveCartridges : t = s BY <2>1 DEF CartridgeInv, ActiveCartridges
  <2>3. ActiveCartridges' = {} BY <1>1, <1>2, <2>2 DEF ActiveCartridges, IsActive
  <2>4. Watched(s) BY <2>1 DEF CartridgeInv, ActiveCartridges
  <2>5. phase[s] \in {"monitoring", "depleted"} BY DEF CartridgeInv, IsActive
  <2>6. ~ locked' BY <2>4, <2>5 DEF Replace, Watched
  <2>7. refillAt' = RefillAt /\ ~ uncertain' /\ ink' = Full BY <2>4 DEF Replace, Watched
  <2>8. QED BY <2>3, <2>6, <2>7 DEF AtRest
<1>6. QED BY <1>3, <1>4, <1>5 DEF CartridgeInv

\* A tick of monitoring, the first one included, keeps the invariant: an
\* empty cartridge faults the coder and locks the fault.
LEMMA MonitoringKeeps ==
  ASSUME CoderTypeOK, CartridgeInv, NEW s \in Cartridges, EvaluateCartridge(s),
         StartCartridge(s) \/ WatchCartridge(s)
  PROVE  CartridgeInv'
<1> USE CoderAssumption DEF CoderTypeOK
<1>1. s \in Scenarios /\ s \in Nat BY DEF Cartridges, Scenarios, Anomaly
<1>2. /\ pc = "scenarios" /\ pc' = pc /\ cursor = s /\ cursor' = s + 1
      /\ victims = {} /\ victims' = {}
  BY DEF EvaluateCartridge, Evaluating
<1>3. /\ MonitoringTick(s) /\ ink' = ink
      /\ phase' = [phase EXCEPT ![s] = "monitoring"] \/ phase' = [phase EXCEPT ![s] = "depleted"]
  BY DEF StartCartridge, WatchCartridge, MonitoringTick, LevelFine, LevelLow, EnterDepleted
<1>4. ASSUME NEW t \in Cartridges
      PROVE  /\ t \in Scenarios
             /\ phase'[t] \in {"pending", "monitoring", "depleted", "completed"}
             /\ IsActive(t)' <=> t = s \/ IsActive(t)
  <2>1. t \in Scenarios BY DEF Cartridges, Scenarios, Anomaly
  <2>2. phase[t] \in {"pending", "monitoring", "depleted", "completed"} BY DEF CartridgeInv
  <2>3. phase'[t] = phase[t] \/ (t = s /\ phase'[t] \in {"monitoring", "depleted"})
    BY <1>1, <1>3, <2>1
  <2>4. phase'[s] \in {"monitoring", "depleted"} BY <1>1, <1>3
  <2>5. QED BY <2>1, <2>2, <2>3, <2>4 DEF IsActive
<1>5. ASSUME ~ overlapped'
      PROVE  /\ ActiveCartridges' = {s}
             /\ Watched(s)'
             /\ ink' >= Empty
  <2>1. ~ overlapped /\ ActiveCartridges \subseteq {s}
    <3>1. CASE StartCartridge(s) BY <1>5, <3>1 DEF StartCartridge, BeginMonitoring
    <3>2. CASE WatchCartridge(s)
      <4>1. ~ overlapped BY <1>5, <3>2 DEF WatchCartridge
      <4>2. s \in ActiveCartridges BY <3>2 DEF WatchCartridge, ActiveCartridges, IsActive
      <4>3. QED BY <4>1, <4>2 DEF CartridgeInv
    <3>3. QED BY <3>1, <3>2
  <2>2. ActiveCartridges' = {s}
    BY <1>4, <2>1 DEF ActiveCartridges
  <2>3. /\ savedRefill'[s] = RefillAt /\ refillAt' = Never /\ ~ locked
    <3>1. CASE StartCartridge(s)
      <4>1. ActiveCartridges = {} BY <1>5, <3>1 DEF StartCartridge, BeginMonitoring
      <4>2. AtRest BY <2>1, <4>1 DEF CartridgeInv
      <4>3. QED BY <3>1, <4>2 DEF AtRest, StartCartridge, BeginMonitoring
    <3>2. CASE WatchCartridge(s)
      <4>1. Watched(s) BY <2>1, <3>2 DEF CartridgeInv, ActiveCartridges, IsActive, WatchCartridge
      <4>2. QED BY <3>2, <4>1 DEF Watched, WatchCartridge
    <3>3. QED BY <3>1, <3>2
  <2>4. CASE EnterDepleted(s)
    <3>1. phase'[s] = "depleted" /\ coder' = "Fault" BY <1>1, <2>4 DEF EnterDepleted
    <3>2. locked' BY <2>4 DEF EnterDepleted
    <3>3. ~ savedLock'[s] BY <2>3, <2>4 DEF EnterDepleted
    <3>4. QED BY <1>3, <2>1, <2>2, <2>3, <3>1, <3>2, <3>3 DEF Watched, CartridgeInv
  <2>5. CASE LevelFine(s) \/ LevelLow(s)
    <3>1. phase'[s] = "monitoring" /\ ink > Empty BY <1>1, <2>5 DEF LevelFine, LevelLow
    <3>2. ~ locked' BY <2>3, <2>5 DEF LevelFine, LevelLow
    <3>3. QED BY <1>3, <2>2, <2>3, <3>1, <3>2 DEF Watched
  <2>6. QED BY <1>3, <2>4, <2>5 DEF MonitoringTick
<1>6. QED BY <1>2, <1>4, <1>5 DEF CartridgeInv

\* A run of the press, or of the coder, keeps the invariant: the ink stops at
\* the level that the scenario awaits, or is refilled before.
LEMMA CoderRunsKeep ==
  ASSUME CoderTypeOK, CartridgeInv, CoderTurn
  PROVE  CartridgeInv'
<1> USE CoderAssumption DEF CoderTypeOK
<1>1. /\ pc = "coder" /\ pc' = "inject"
      /\ UNCHANGED <<refillAt, locked, uncertain, phase, copies, victims>>
  BY DEF CoderTurn
<1>2. ActiveCartridges' = ActiveCartridges /\ victims = {}
  BY <1>1 DEF ActiveCartridges, IsActive, CartridgeInv
<1>3. ASSUME ~ overlapped' PROVE ~ overlapped BY <1>1, <1>3 DEF copies
<1>4. ink' = ink \/ ink' \in {Refilled(ink), Refilled(ink - 1)}
  <2>1. CASE CoderRuns BY <2>1 DEF CoderRuns
  <2>2. QED BY <2>1 DEF CoderTurn
<1>5. ASSUME ActiveCartridges = {}, AtRest PROVE AtRest'
  <2>1. ink' > RefillAt BY <1>4, <1>5 DEF AtRest, Refilled
  <2>2. QED BY <1>1, <1>5, <2>1 DEF AtRest
<1>6. ASSUME NEW s \in ActiveCartridges, Watched(s), ink >= Empty
      PROVE  Watched(s)' /\ ink' >= Empty
  <2>1. /\ s \in Cartridges /\ phase[s] \in {"monitoring", "depleted"} /\ refillAt = Never
        /\ UNCHANGED <<savedRefill, savedLock>>
    BY <1>1, <1>6 DEF ActiveCartridges, IsActive, CartridgeInv, Watched, copies
  <2>2. CASE phase[s] = "monitoring"
    <3>1. ink > Empty BY <1>1, <1>6, <2>2 DEF Watched, Awaited
    <3>2. ink' >= Empty BY <1>4, <2>1, <3>1 DEF Refilled
    <3>3. Awaited(s)' BY <1>1 DEF Awaited
    <3>4. QED BY <1>1, <1>6, <2>1, <2>2, <3>2, <3>3 DEF Watched
  <2>3. CASE phase[s] = "depleted"
    <3>1. coder = "Fault" /\ locked BY <1>6, <2>3 DEF Watched
    <3>2. NextStates(coder) = {"Fault"} BY <3>1 DEF NextStates
    <3>3. coder' = "Fault" BY <3>1, <3>2 DEF CoderTurn, CoderRuns
    <3>4. ink' \in {ink, Refilled(ink)} BY <3>3 DEF CoderTurn, CoderRuns
    <3>5. ink' = ink BY <2>1, <3>4 DEF Refilled
    <3>6. QED BY <1>1, <1>6, <2>1, <2>3, <3>3, <3>5 DEF Watched
  <2>4. QED BY <2>1, <2>2, <2>3
<1>7. ASSUME AtRest' PROVE ink' >= Empty BY <1>7, <1>4 DEF AtRest, Refilled
<1>8. QED BY <1>1, <1>2, <1>3, <1>5, <1>6, <1>7 DEF CartridgeInv

\* The cartridge is kept, whether a scenario runs its course or is preempted.
THEOREM CartridgeHolds == CoderSpec => []CartridgeKept
<1>1. CoderInit => CartridgeInv
  BY CoderAssumption
  DEF CoderInit, CartridgeInv, ActiveCartridges, IsActive, AtRest, Cartridges, Scenarios, Anomaly
<1>2. CoderTypeOK /\ CartridgeInv /\ [CoderNext]_coderVars => CartridgeInv'
  <2> SUFFICES ASSUME CoderTypeOK, CartridgeInv, [CoderNext]_coderVars PROVE CartridgeInv' OBVIOUS
  <2>0. \A s \in Cartridges : s # Anomaly /\ s \in Nat /\ s \in Scenarios
    BY CoderAssumption DEF Cartridges, Anomaly, Scenarios
  <2>1. CASE Begin
    <3>1. UNCHANGED <<machine, copies, phase>> /\ pc' = "scenarios" /\ cursor' = 1
      BY <2>1 DEF Begin
    <3>2. \A s \in victims' : IsActive(s)' BY <2>1, <3>1 DEF Begin, IsActive
    <3>3. \A s \in Cartridges : Awaited(s)' BY <3>1, <2>0 DEF Awaited, Cartridges
    <3>4. QED BY <3>1, <3>2, <3>3, OthersKeep
  <2>2. CASE Preempt
    <3>1. PICK s \in victims :
             /\ victims' = victims \ {s}
             /\ \/ s \in Cartridges /\ Replace(s)
                \/ s = Anomaly /\ EndAnomaly /\ UNCHANGED <<machine, copies>>
      BY <2>2 DEF Preempt
    <3>2. pc' = "scenarios" /\ pc = pc' /\ cursor' = cursor BY <2>2 DEF Preempt
    <3>3. CASE s \in Cartridges /\ Replace(s)
      BY <3>1, <3>2, <3>3, ReplaceKeeps DEF CartridgeInv
    <3>4. CASE s = Anomaly /\ EndAnomaly /\ UNCHANGED <<machine, copies>>
      <4>1. phase' = [phase EXCEPT ![Anomaly] = "completed"] BY <3>4 DEF EndAnomaly
      <4>2. \A t \in Cartridges : phase'[t] = phase[t] BY <2>0, <4>1 DEF CoderTypeOK
      <4>3. \A t \in victims' : IsActive(t)'
        BY <3>1, <3>4, <4>1 DEF CartridgeInv, IsActive, CoderTypeOK
      <4>4. \A t \in Cartridges : Awaited(t) => Awaited(t)' BY <3>2 DEF Awaited
      <4>5. QED BY <3>2, <3>4, <4>2, <4>3, <4>4, OthersKeep
    <3>5. QED BY <3>1, <3>3, <3>4
  <2>3. ASSUME NEW s \in Cartridges, EvaluateCartridge(s) PROVE CartridgeInv'
    <3>1. /\ pc = "scenarios" /\ pc' = pc /\ victims = {} /\ victims' = {}
          /\ cursor = s /\ cursor' = s + 1
      BY <2>3 DEF EvaluateCartridge, Evaluating
    <3>2. CASE StartCartridge(s) \/ WatchCartridge(s) BY <2>3, <3>2, MonitoringKeeps
    <3>3. CASE EndReplacement(s)
      BY <3>1, <3>3, ReplaceKeeps DEF EndReplacement, IsActive
    <3>4. CASE AwaitReplacement(s)
      <4>1. phase' = phase /\ UNCHANGED <<machine, copies>> /\ phase[s] = "depleted"
        BY <3>4 DEF AwaitReplacement
      <4>2. \A t \in Cartridges : phase[t] = "monitoring" /\ Awaited(t) => Awaited(t)'
        BY <2>0, <3>1, <4>1 DEF Awaited
      <4>3. QED BY <3>1, <4>1, <4>2, OthersKeep
    <3>5. QED BY <2>3, <3>2, <3>3, <3>4 DEF EvaluateCartridge
  <2>4. CASE EvaluateAnomaly
    <3>1. /\ UNCHANGED <<machine, copies>> /\ pc' = pc /\ victims' = {}
          /\ cursor = Anomaly /\ pc = "scenarios"
      BY <2>4 DEF EvaluateAnomaly, Evaluating
    <3>2. \A t \in Cartridges : phase'[t] = phase[t]
      BY <2>0, <2>4 DEF EvaluateAnomaly, StartAnomaly, LogGtStart, GiveUp, StartInjecting, WaitOn, StateLeft,
           InjectOn, InjectedEnough, EndAnomaly, CoderTypeOK
    <3>3. \A t \in Cartridges : ~ Awaited(t)
      BY <3>1, CoderAssumption DEF Awaited, Cartridges, Anomaly
    <3>4. QED BY <3>1, <3>2, <3>3, OthersKeep
  <2>5. ASSUME NEW s \in Scenarios, LeaveAlone(s) PROVE CartridgeInv'
    <3>1. /\ UNCHANGED <<machine, copies, phase>> /\ pc' = pc /\ victims' = {}
          /\ cursor = s /\ cursor' = s + 1 /\ ~ IsActive(s) /\ victims = {}
      BY <2>5 DEF LeaveAlone, Evaluating
    <3>2. \A t \in Cartridges : phase[t] = "monitoring" /\ Awaited(t) => Awaited(t)'
      BY <2>0, <3>1, CoderAssumption DEF Awaited, Scenarios, Anomaly, IsActive
    <3>3. QED BY <3>1, <3>2, OthersKeep
  <2>6. CASE PressRuns
    <3>1. /\ UNCHANGED <<machine, copies, phase>> /\ victims' = {} /\ victims = {}
          /\ cursor = Anomaly + 1 /\ pc = "scenarios"
      BY <2>6 DEF PressRuns
    <3>2. \A t \in Cartridges : ~ Awaited(t)
      BY <3>1, CoderAssumption DEF Awaited, Cartridges, Anomaly
    <3>3. QED BY <3>1, <3>2, OthersKeep
  <2>7. CASE CoderTurn BY <2>7, CoderRunsKeep
  <2>8. CASE Inject
    <3>1. UNCHANGED <<machine, copies, phase, victims>> /\ pc' = "begin" /\ pc = "inject"
      BY <2>8 DEF Inject
    <3>2. victims = {} BY <3>1 DEF CartridgeInv
    <3>3. \A t \in Cartridges : Awaited(t)' BY <3>1 DEF Awaited
    <3>4. QED BY <3>1, <3>2, <3>3, OthersKeep
  <2>9. CASE UNCHANGED coderVars
    <3>1. UNCHANGED <<machine, copies, phase, pc, cursor, victims>> BY <2>9 DEF coderVars, loop
    <3>2. \A t \in Cartridges : Awaited(t) => Awaited(t)' BY <3>1 DEF Awaited
    <3>3. \A t \in victims' : IsActive(t)' /\ pc' = "scenarios" BY <3>1 DEF CartridgeInv, IsActive
    <3>4. QED BY <3>1, <3>2, <3>3, OthersKeep
  <2>10. QED BY <2>1, <2>2, <2>3, <2>4, <2>5, <2>6, <2>7, <2>8, <2>9 DEF CoderNext
<1>3. CoderTypeOK /\ CartridgeInv => CartridgeKept BY KeptInvSuffices
<1>4. QED BY <1>1, <1>2, <1>3, CoderTyped, PTL DEF CoderSpec

=============================================================================
