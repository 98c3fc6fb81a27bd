----------------------------- MODULE Evaluation -----------------------------
(***************************************************************************)
(* The evaluator (evaluation/evaluator.py) at the other end of the ground  *)
(* truth file that ScenarioEngine writes.  It reads the records back,      *)
(* pairs the starts and ends of each class, and scores the alarms of a     *)
(* detector against the resulting events.                                  *)
(*                                                                         *)
(* A record holds the name of the class, not the instance, and the time of *)
(* the tick that wrote it.  Ticks that write nothing are not counted: what *)
(* is compared is the order of times, which records share one, and the     *)
(* nearness of starts.  Margins and distances are in ticks that write.     *)
(***************************************************************************)
EXTENDS ScenarioEngine, FiniteSets

Seqs == INSTANCE SequencesExt

CONSTANTS PreMargin, PostMargin,
          Severity            \* Severity[c]: severity_weights of class c

ASSUME EvaluationAssumption ==
  /\ PreMargin \in Nat /\ PostMargin \in Nat
  /\ Severity \in [Class -> Nat \ {0}]

VARIABLES stamp,              \* stamp[i]: sim_time of record i
          fresh               \* no record since the last tick began

evaluated == <<vars, stamp, fresh>>

-----------------------------------------------------------------------------
(***************************************************************************)
(* The engine at work, and the sim_time of what it writes.                 *)
(***************************************************************************)
LastStamp == IF stamp = <<>> THEN 0 ELSE stamp[Len(stamp)]

Stamp ==
  LET time == IF fresh THEN LastStamp + 1 ELSE LastStamp
  IN  /\ stamp' = stamp \o [k \in 1..(Len(log') - Len(log)) |-> time]
      /\ fresh' = (Len(log') = Len(log) /\ fresh)

NewTick == fresh' = TRUE /\ UNCHANGED stamp
NoRecord == UNCHANGED <<stamp, fresh>>

EvaluationInit == Init /\ stamp = <<>> /\ fresh = TRUE

EvaluationStep ==
  \/ Arbitrate /\ NewTick
  \/ Preempt /\ Stamp
  \/ EndPreemption /\ NoRecord
  \/ \E s \in Scenario :
       \/ PassOver(s) /\ NoRecord
       \/ Activate(s) /\ Stamp
       \/ ActivateAndComplete(s) /\ Stamp
       \/ Continue(s) /\ NoRecord
       \/ RunOut(s) /\ Stamp
  \/ FinishTick /\ NoRecord

EvaluationNext ==
  \/ EvaluationStep
  \/ AddScenario /\ NoRecord
  \/ LoseLog /\ NoRecord

EvaluationSpec ==
  EvaluationInit /\ [][EvaluationNext]_evaluated /\ WF_evaluated(EvaluationStep)

-----------------------------------------------------------------------------
(***************************************************************************)
(* load_ground_truth: the first start of a class is paired with its first  *)
(* end; an end without a start is ignored; the starts left over are open   *)
(* events that last until the last record, after all others, by class in   *)
(* the order in which the classes were first seen.                         *)
(***************************************************************************)
ClassAt(i) == class[log[i].scenario]
Event(i, j, open) ==
  [type |-> ClassAt(i), from |-> stamp[i], to |-> stamp[j], open |-> open]

Unread == [pending |-> [c \in Class |-> <<>>], events |-> <<>>]

\* Mutant of TakeStart: the latest start is paired with the end.
TakeLatestStart(q) == [start |-> q[Len(q)], rest |-> SubSeq(q, 1, Len(q) - 1)]

TakeStart(q) == [start |-> Head(q), rest |-> Tail(q)]

ReadRecord(reader, i) ==
  LET c == ClassAt(i)
      q == reader.pending[c]
  IN  CASE log[i].event = "scenario_start" ->
             [reader EXCEPT !.pending[c] = Append(q, i)]
        [] log[i].event = "scenario_end" /\ q # <<>> ->
             [pending |-> [reader.pending EXCEPT ![c] = TakeStart(q).rest],
              events |-> Append(reader.events, Event(TakeStart(q).start, i, FALSE))]
        [] OTHER -> reader

FirstSeen(c) == CHOOSE i \in DOMAIN log : ClassAt(i) = c /\ \A j \in 1..(i - 1) : ClassAt(j) # c

\* Reading[k]: what the reader has made of the first k records.
Reading[k \in 0..Len(log)] ==
  IF k = 0 THEN Unread ELSE ReadRecord(Reading[k - 1], k)

\* The members of S in the order of the relation, a set of pairs.
InOrder(S, before) ==
  CHOOSE f \in [1..Cardinality(S) -> S] :
    \A i, j \in DOMAIN f : i < j => <<f[i], f[j]>> \in before

OpenStarts(pending) ==
  LET open == UNION {Seqs!ToSet(pending[c]) : c \in Class}
      Before(i, j) == \/ FirstSeen(ClassAt(i)) < FirstSeen(ClassAt(j))
                      \/ ClassAt(i) = ClassAt(j) /\ i < j
  IN  InOrder(open, {r \in open \X open : Before(r[1], r[2])})

load_ground_truth ==
  LET read == Reading[Len(log)]
      open == OpenStarts(read.pending)
  IN  read.events \o [k \in DOMAIN open |-> Event(open[k], Len(log), TRUE)]

-----------------------------------------------------------------------------
(***************************************************************************)
(* match_events: an alarm belongs to the event with the nearest start      *)
(* among those whose window, with its margins, it falls into; the first of *)
(* the list when two are equally near.  An event is detected when an alarm *)
(* belongs to it; an alarm that belongs to none is a false positive.       *)
(* _compute weighs recall by severity.                                     *)
(***************************************************************************)
Windows(events, t) ==
  {e \in DOMAIN events : events[e].from <= t + PreMargin /\ t <= events[e].to + PostMargin}

Distance(event, t) == IF t >= event.from THEN t - event.from ELSE event.from - t

AssignedTo(events, t) ==
  {e \in Windows(events, t) : \A g \in Windows(events, t) \ {e} :
     LET d == Distance(events[e], t)
         h == Distance(events[g], t)
     IN  d < h \/ (d = h /\ e < g)}

Detected(events, alarms) == UNION {AssignedTo(events, t) : t \in alarms}
FalsePositives(events, alarms) == {t \in alarms : AssignedTo(events, t) = {}}

WeightOf(events, E) ==
  LET Add(sum, e) == sum + Severity[events[e].type]
  IN  Seqs!FoldLeft(Add, 0, Seqs!SetToSeq(E))

Score(events, alarms) ==
  LET found == Detected(events, alarms)
  IN  [tp |-> Cardinality(found),
       fn |-> Cardinality(DOMAIN events \ found),
       fp |-> Cardinality(FalsePositives(events, alarms)),
       detected_weight |-> WeightOf(events, found),
       total_weight |-> WeightOf(events, DOMAIN events)]

\* _per_scenario_metrics: the latency of an event is that of its first alarm.
Latency(events, alarms, e) ==
  LET own == {t \in alarms : e \in AssignedTo(events, t)}
  IN  (CHOOSE t \in own : \A u \in own : t <= u) - events[e].from

PerScenario(events, alarms) ==
  [c \in {events[e].type : e \in DOMAIN events} |->
     LET all == {e \in DOMAIN events : events[e].type = c}
         found == all \intersect Detected(events, alarms)
     IN  [total_events |-> Cardinality(all), detected_events |-> Cardinality(found),
          latencies |-> {Latency(events, alarms, e) : e \in found}]]

(***************************************************************************)
(* _random_baseline: overlapping events are merged, in the order of their  *)
(* starts, before their durations are summed.                              *)
(***************************************************************************)
MergeInterval(merged, event) ==
  LET last == Len(merged)
  IN  IF merged # <<>> /\ event.from <= merged[last].to
      THEN [merged EXCEPT ![last].to = IF @ >= event.to THEN @ ELSE event.to]
      ELSE Append(merged, [from |-> event.from, to |-> event.to])

SortedByStart(events) ==
  LET all == DOMAIN events
      Before(e, f) == \/ events[e].from < events[f].from
                      \/ events[e].from = events[f].from /\ e < f
  IN  InOrder(all, {r \in all \X all : Before(r[1], r[2])})

MergedIntervals(events) ==
  LET Merged[k \in 0..Len(events)] ==
        IF k = 0 THEN <<>>
        ELSE MergeInterval(Merged[k - 1], events[SortedByStart(events)[k]])
  IN  Merged[Len(events)]

AnomalyTime(events) ==
  LET merged == MergedIntervals(events)
      Sum[k \in 0..Len(merged)] ==
        IF k = 0 THEN 0 ELSE Sum[k - 1] + merged[k].to - merged[k].from
  IN  Sum[Len(merged)]

-----------------------------------------------------------------------------
InstanceOf(i) == log[i].scenario
RecordsOf(event) == {i \in DOMAIN log : log[i].event = event}

\* What a reader who knew the instances would make of the file.
TrueEvents ==
  LET EndOf(i) == {j \in RecordsOf("scenario_end") : InstanceOf(j) = InstanceOf(i)}
  IN  UNION {IF EndOf(i) = {} THEN {Event(i, Len(log), TRUE)}
             ELSE {Event(i, j, FALSE) : j \in EndOf(i)} : i \in RecordsOf("scenario_start")}

\* Instances of a class end in the order in which they started.
EndInOrder ==
  \A i, j \in RecordsOf("scenario_start") :
    i < j /\ ClassAt(i) = ClassAt(j) =>
      \A l \in RecordsOf("scenario_end") : InstanceOf(l) = InstanceOf(j) =>
        \E k \in 1..l : k \in RecordsOf("scenario_end") /\ InstanceOf(k) = InstanceOf(i)

Covered(events) ==
  {t \in 1..LastStamp : \E e \in DOMAIN events : events[e].from <= t /\ t < events[e].to}

\* The evaluator, which sees only class names, recovers when each instance
\* began and ended, however the instances are deferred, cut short, added by
\* hand or lost with the file, as long as those of a class end in the order
\* in which they began.  A detector that raises an alarm at every start, and
\* only there, finds one event for each time at which any begins: all of them,
\* with full weight, when no two begin in one tick.  Then a detector that
\* knows a single class finds all events of the class at once and none of
\* another.  And the time under an anomaly is counted once where events
\* overlap.
EvaluationTrue ==
  pc = "idle" /\ ~ fresh =>
    LET events == load_ground_truth
        starts == RecordsOf("scenario_start")
        perfect == {stamp[i] : i \in starts}
        distinct == Cardinality(perfect) = Cardinality(starts)
        StartsOf(c) == {stamp[i] : i \in {j \in starts : ClassAt(j) = c}}
        Knows(c, d) == IF c = d THEN Cardinality(StartsOf(c)) ELSE 0
        score == Score(events, perfect)
    IN  /\ Len(events) = Cardinality(starts)
        /\ EndInOrder => Seqs!ToSet(events) = TrueEvents
        /\ score.tp = Cardinality(perfect) /\ score.fp = 0
        /\ score.tp + score.fn = Len(events)
        /\ distinct => score.detected_weight = score.total_weight
        /\ distinct => \A c \in Class :
             LET found == PerScenario(events, StartsOf(c))
             IN  \A d \in DOMAIN found :
                   found[d].detected_events = Knows(c, d) /\ found[d].latencies \subseteq {0}
        /\ AnomalyTime(events) = Cardinality(Covered(events))

=============================================================================
