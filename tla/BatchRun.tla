------------------------------ MODULE BatchRun ------------------------------
(***************************************************************************)
(* A batch run: the loop of cli._run_batch, the engine's tick with a       *)
(* scenario that writes a coil no generator writes (press.web_break,       *)
(* press.fault_active), a generator that is due every Interval ticks and   *)
(* keeps a counter, the overrides of the data quality injector, and the    *)
(* writer, CsvWriter or ParquetWriter, with its buffer.                    *)
(*                                                                         *)
(* A value has a type and a payload; a signal that was never written is    *)
(* absent from the store.  One tick is one unit of time.  A flush may fail *)
(* at any time; the loop can be interrupted only at its await, and the     *)
(* process killed between any two steps.                                   *)
(***************************************************************************)
EXTENDS Integers, Sequences

CONSTANTS Formats,         \* batch_output.format, "csv" or "parquet"
          BufferSize,      \* batch_output.buffer_size
          EventDriven,     \* batch_output.event_driven_signals
          Disconnectable,  \* signals a sensor disconnect may hit
          Sentinel,        \* the value a disconnected signal gets
          Interval,        \* fastest sample interval of the equipment, in ticks
          Speeds,          \* what the counter may advance by in a tick
          Rollover,        \* rollover_value
          MaxBeforeReset,  \* max_before_reset; 0 for None
          Duration         \* sim_duration_s, in ticks

Signals == {"count", "id", "coil"}
Values == [type : {"num", "str", "nan"}, of : Nat]

ASSUME BatchAssumption ==
  /\ Formats \subseteq {"csv", "parquet"}
  /\ BufferSize \in Nat \ {0} /\ Interval \in Nat \ {0}
  /\ EventDriven \subseteq Signals
  \* The injector knows the signals of the generators.
  /\ Disconnectable \subseteq {"count", "id"}
  /\ Sentinel \in Values
  /\ Rollover \in Nat \ {0} /\ Speeds \subseteq 0..Rollover
  /\ MaxBeforeReset \in Nat /\ Duration \in Nat \ {0}

Num(n) == [type |-> "num", of |-> n]
Str(n) == [type |-> "str", of |-> n]
Null == [type |-> "null", of |-> 0]
Absent == [type |-> "absent", of |-> 0]
StoreValues == Values \union {Absent}

VARIABLES main,       \* "ticking", "awaiting", "closing", "done", "failed", "killed"
          format,     \* which writer
          clock,      \* SimulationClock, in ticks
          lastRun,    \* _gen_last_time
          counter,    \* CounterModel: value
          batch,      \* number of the batch or job
          store,      \* SignalStore
          last,       \* _last_event_values
          buffer,     \* _buffer
          file,       \* rows of the file
          types,      \* Parquet schema; Unset before the first flush
          readable,   \* whether a reader can open the file
          fault,      \* history: a flush failed, or the process was killed
          truth,      \* history: the store at the end of each tick
          saved,      \* history: ticks whose rows are all in the file
          total,      \* history: what the counter counted since it was reset
          wraps       \* history: rollovers in the ground truth since then

counterVars == <<lastRun, counter, batch, store, total, wraps>>
fileVars == <<file, types, saved>>
vars == <<main, format, clock, counterVars, last, buffer, fileVars,
          readable, fault, truth>>

Unset == [s \in Signals |-> "unset"]

-----------------------------------------------------------------------------
(* The counter model, and the generator that owns it. *)

\* Mutant of Wrapped: wraps to zero instead of carrying the excess.
WrapsToZero(v) == IF v >= Rollover THEN 0 ELSE v

Wrapped(v) == IF v >= Rollover THEN v % Rollover ELSE v

\* A record of the ground truth for a counter that has wrapped.
RolloverLogged(sum, records) == IF sum >= Rollover THEN records + 1 ELSE records

CapReached(v) == MaxBeforeReset # 0 /\ v >= MaxBeforeReset

\* The generator runs in the tick that ends at time now: a job change may
\* have reset the counter and started a batch just before.
Generate(now, change, speed) ==
  LET from == IF change THEN 0 ELSE counter
      sum == from + speed            \* rate * speed * dt, dt of one tick
      wrapped == Wrapped(sum)
      cap == CapReached(wrapped)
      before == IF change THEN 0 ELSE total
      records == IF change THEN 0 ELSE wraps
  IN /\ counter' = IF cap THEN 0 ELSE wrapped
     /\ total' = IF cap THEN 0 ELSE before + speed
     /\ wraps' = IF cap THEN 0 ELSE RolloverLogged(sum, records)
     /\ batch' = IF change THEN batch + 1 ELSE batch
     /\ lastRun' = now

\* Between two runs of the generator a job change resets the counter all the
\* same, and the store keeps its values.
Rest(change) ==
  /\ IF change THEN counter' = 0 /\ total' = 0 /\ wraps' = 0 /\ batch' = batch + 1
               ELSE UNCHANGED <<counter, total, wraps, batch>>
  /\ UNCHANGED lastRun

Runs(now) == now - lastRun >= Interval

\* The store after the scenarios: a stop or a break begins or ends, or not.
WithCoil(coil) ==
  [s \in Signals |-> IF s = "coil" /\ coil # Null THEN coil ELSE store[s]]

\* Mutant of Generated: what the generator returns replaces the store.
GeneratedOnly(now, coil) ==
  IF Runs(now) THEN [s \in Signals |-> IF s = "count" THEN Num(counter')
                                      ELSE IF s = "id" THEN Str(batch') ELSE Absent]
               ELSE WithCoil(coil)

\* The store after the generator, and after the injector.
Generated(now, coil) ==
  IF Runs(now) THEN [s \in Signals |-> IF s = "count" THEN Num(counter')
                                      ELSE IF s = "id" THEN Str(batch') ELSE WithCoil(coil)[s]]
               ELSE WithCoil(coil)

Injected(values, disconnected) ==
  [s \in Signals |-> IF s \in disconnected THEN Sentinel ELSE values[s]]

-----------------------------------------------------------------------------
(* The writers. *)

\* Mutant of Unchanged: a first value counts as no change.
UnchangedOrFirst(s, v) == s \in EventDriven /\ (last[s] = Null \/ v = last[s])

Unchanged(s, v) == s \in EventDriven /\ v = last[s]

\* CsvWriter.write_tick: a row for each signal of the store that is a number or a text,
\* event-driven ones on change only.
CsvRows(now, values) ==
  LET Written(s) == values[s].type \notin {"nan", "absent"} /\ ~ Unchanged(s, values[s])
      Row(s) == IF Written(s) THEN <<[time |-> now, signal |-> s, value |-> values[s]]>> ELSE <<>>
  IN Row("count") \o Row("id") \o Row("coil")

\* ParquetWriter.write_tick: one row for the tick, with a flag for each
\* event-driven signal of the store.
ParquetRow(now, values) ==
  [time |-> now,
   value |-> [s \in Signals |-> IF values[s].type = "nan" THEN Null ELSE values[s]],
   changed |-> {s \in EventDriven : values[s] # Absent /\ ~ Unchanged(s, values[s])}]

Remembered(values) ==
  [s \in Signals |-> IF /\ s \in EventDriven /\ values[s] # Absent
                        /\ format = "csv" => values[s].type # "nan"
                     THEN values[s] ELSE last[s]]

NewRows(now, values) ==
  IF format = "csv" THEN CsvRows(now, values) ELSE <<ParquetRow(now, values)>>

\* The columns and their types pyarrow infers from some rows: a column for each
\* signal that some row has.  It cannot mix numbers and texts in one column.
Column(rows, s) == {rows[i].value[s].type : i \in 1..Len(rows)} \ {"absent"}
TypesIn(rows, s) == Column(rows, s) \ {"null"}
Mixed(rows) == \E s \in Signals : TypesIn(rows, s) = {"num", "str"}
Inferred(rows) ==
  [s \in Signals |-> IF "num" \in TypesIn(rows, s) THEN "num"
                     ELSE IF "str" \in TypesIn(rows, s) THEN "str"
                     ELSE IF "null" \in Column(rows, s) THEN "null" ELSE "absent"]

\* What the tables of one file must have in common.
Writable(rows) == ~ Mixed(rows) /\ types \in {Unset, Inferred(rows)}

\* The buffer after a flush.
AfterFlush(rows) == <<>>

\* The buffered rows reach the file: those of the ticks 1..upTo are all there.
FlushWorks(rows, upTo) ==
  /\ file' = file \o rows
  /\ buffer' = AfterFlush(rows)
  /\ saved' = upTo
  /\ IF format = "csv" THEN UNCHANGED types
     ELSE Writable(rows) /\ types' = Inferred(rows)

\* A flush that raises leaves the buffer as it is.  The rows before the one
\* that failed are in a CSV file all the same.
FlushFails(rows) ==
  /\ buffer' = rows
  /\ IF format = "csv"
       THEN /\ \E k \in 0..Len(rows) : file' = file \o SubSeq(rows, 1, k)
            /\ fault' = TRUE
            /\ UNCHANGED types
       ELSE /\ UNCHANGED file
            /\ fault' \in {fault \/ Writable(rows), TRUE}
            /\ types' \in IF ~ Mixed(rows) /\ types = Unset THEN {types, Inferred(rows)}
                                                            ELSE {types}
  /\ UNCHANGED saved

-----------------------------------------------------------------------------
(* The loop. *)

\* One tick of the engine, up to the end of write_tick.
Tick(coil, change, speed, disconnected) ==
  LET now == clock + 1
      values == Injected(Generated(now, coil), disconnected)
      rows == buffer \o NewRows(now, values)
  IN /\ main = "ticking"
     /\ clock' = now
     /\ IF Runs(now) THEN Generate(now, change, speed) ELSE Rest(change)
     /\ store' = values
     /\ truth' = Append(truth, values)
     /\ last' = Remembered(values)
     /\ \/ /\ Len(rows) < BufferSize
           /\ buffer' = rows
           /\ saved' = IF rows = <<>> THEN now ELSE saved
           /\ main' = IF now >= Duration THEN "closing" ELSE "awaiting"
           /\ UNCHANGED <<file, types, fault>>
        \/ /\ Len(rows) >= BufferSize
           /\ FlushWorks(rows, now)
           /\ main' = IF now >= Duration THEN "closing" ELSE "awaiting"
           /\ UNCHANGED fault
        \/ /\ Len(rows) >= BufferSize
           /\ FlushFails(rows)
           /\ main' = "raising"
     /\ UNCHANGED <<format, readable>>

\* asyncio.sleep(0): the loop goes on, or was cancelled by a signal.
Await(interrupted) ==
  /\ main = "awaiting"
  /\ main' = IF interrupted THEN "closing" ELSE "ticking"
  /\ UNCHANGED <<format, clock, counterVars, last, buffer, fileVars,
                 readable, fault, truth>>

\* Mutant of FinalFlush: what is buffered when the run ends is dropped.
NoFinalFlush == UNCHANGED <<buffer, fileVars>>

FinalFlush == IF buffer # <<>> THEN FlushWorks(buffer, Len(truth))
                               ELSE UNCHANGED <<buffer, fileVars>>

\* The finally clause closes the writer, also when a tick raised.
Close ==
  /\ main \in {"closing", "raising"}
  /\ \/ /\ FinalFlush
        /\ main' = IF main = "closing" THEN "done" ELSE "failed"
        /\ readable' = (format = "csv" \/ file' # <<>>)
        /\ UNCHANGED fault
     \/ /\ buffer # <<>>
        /\ FlushFails(buffer)
        /\ main' = "failed"
        \* pyarrow's writer may still be closed by its finaliser.
        /\ readable' \in {readable, format = "csv" \/ file # <<>>}
  /\ UNCHANGED <<format, clock, counterVars, last, truth>>

\* The process is killed: a CSV file has what was flushed to it.
Kill ==
  /\ main \in {"ticking", "awaiting", "closing", "raising"}
  /\ main' = "killed"
  /\ fault' = TRUE
  /\ UNCHANGED <<format, clock, counterVars, last, buffer, fileVars,
                 readable, truth>>

Init ==
  /\ main = "ticking"
  /\ format \in Formats
  /\ clock = 0
  /\ lastRun = - Interval
  /\ counter = 0 /\ batch = 0
  /\ store = [s \in Signals |-> Absent]
  /\ last = [s \in Signals |-> Null]
  /\ buffer = <<>> /\ file = <<>> /\ types = Unset
  /\ readable = (format = "csv")
  /\ fault = FALSE
  /\ truth = <<>> /\ saved = 0
  /\ total = 0 /\ wraps = 0

Coils == {Null, Num(0), Num(1)}      \* Null: no scenario writes the coil

Next == \/ \E coil \in Coils, change \in BOOLEAN, speed \in Speeds,
              disconnected \in SUBSET Disconnectable : Tick(coil, change, speed, disconnected)
        \/ \E interrupted \in BOOLEAN : Await(interrupted)
        \/ Close
        \/ Kill

Spec == Init /\ [][Next]_vars

-----------------------------------------------------------------------------
Ended == main \in {"done", "failed", "killed"}

\* The rows of the two formats.
Rows ==
  [time : Nat, signal : Signals, value : Values]
    \union [time : Nat, value : [Signals -> Values \union {Null, Absent}], changed : SUBSET EventDriven]

\* The variables keep their types.
BatchTypeOK ==
  /\ main \in {"ticking", "awaiting", "closing", "raising", "done", "failed", "killed"}
  /\ format \in {"csv", "parquet"}
  /\ clock \in Nat /\ truth \in Seq([Signals -> StoreValues]) /\ Len(truth) = clock
  /\ lastRun \in Int /\ (lastRun = - Interval \/ lastRun \in 0..clock)
  /\ saved \in 0..clock
  /\ counter \in 0..(Rollover - 1) /\ batch \in Nat
  /\ total \in Nat /\ wraps \in Nat
  /\ last \in [Signals -> Values \union {Null}]
  /\ store \in [Signals -> StoreValues]
  /\ buffer \in Seq(Rows) /\ file \in Seq(Rows)
  /\ readable \in BOOLEAN /\ fault \in BOOLEAN

\* What a reader makes of the rows: the value of a signal at a time.  A CSV
\* file has no row where the value did not change, or was not a number.
LatestCsv(rows, s, t) ==
  {i \in 1..Len(rows) : /\ rows[i].signal = s /\ rows[i].time <= t
                        /\ \A j \in 1..Len(rows) :
                             (rows[j].signal = s /\ rows[j].time <= t) => rows[j].time <= rows[i].time}

ReadCsv(rows, s, t) ==
  IF s \in EventDriven THEN {rows[i].value : i \in LatestCsv(rows, s, t)}
  ELSE {rows[i].value : i \in {j \in LatestCsv(rows, s, t) : rows[j].time = t}}

ReadParquet(rows, s, t) ==
  {rows[i].value[s] : i \in {j \in 1..Len(rows) : rows[j].time = t}}

Expected(s, t) ==
  LET v == truth[t][s]
  IN IF v.type \notin {"nan", "absent"} THEN {v}
     ELSE IF format = "csv" THEN {} ELSE {IF v.type = "nan" THEN Null ELSE v}

Faithful(rows, t) ==
  \A s \in Signals :
    (IF format = "csv" THEN ReadCsv(rows, s, t) ELSE ReadParquet(rows, s, t)) = Expected(s, t)

\* At any time the rows in the file and in the buffer give back the store of
\* every tick, those in the file the store of every tick that was saved: no
\* change of an event-driven signal is lost or kept too long, whatever the
\* injectors did in between and whatever flush failed.
RowsFaithful ==
  /\ \A t \in 1..clock : Faithful(file \o buffer, t)
  /\ \A t \in 1..saved : Faithful(file, t)
  /\ format = "parquet" =>
       \A i \in 1..Len(file \o buffer), s \in EventDriven :
         LET row == (file \o buffer)[i] IN
         s \in row.changed <=> /\ truth[row.time][s] # Absent
                               /\ row.time = 1 \/ truth[row.time][s] # truth[row.time - 1][s]

\* Whoever adds a rollover value for each rollover in the ground truth knows
\* what the counter counted since it was last reset.
RolloversExplain == counter + Rollover * wraps = total

\* The run implements the log it promises, whatever the sensors showed: the
\* log's fault is a flush that raised or a kill.
Kept == IF readable THEN saved ELSE 0

Status == CASE main = "done" -> "closed"
            [] main \in {"failed", "killed"} -> "broken"
            [] OTHER -> "open"

Broken == fault \/ main \in {"raising", "failed"}

Log == INSTANCE BatchLog WITH log <- truth, kept <- Kept, fault <- Broken, status <- Status

ImplementsLog == Log!Spec

\* A signal the store did not have at the first flush of a Parquet file, which
\* is that of tick BufferSize, was written later.
AppearsLate ==
  \E s \in Signals, t \in 1..clock :
    t > BufferSize /\ truth[BufferSize][s] = Absent /\ truth[t][s] # Absent

\* A text became a number or NaN, or the other way round.
ChangesType ==
  \E s \in Signals : \E t, u \in 1..clock :
    /\ truth[t][s] # Absent /\ truth[u][s] # Absent
    /\ truth[t][s].type # truth[u][s].type

\* A run that ends without a fault outside the program ends well, whatever
\* coils scenarios write, sensors are disconnected, and wherever the flushes
\* fall: except a Parquet run in which a signal first appears after the first
\* flush or changes its type.
WellUnlessFault ==
  main = "failed" => fault \/ (format = "parquet" /\ (AppearsLate \/ ChangesType))

=============================================================================
