---------------------------- MODULE StrayCounters ----------------------------
(* How stray_perf_loop.py turns cumulative counters into readings of the     *)
(* measured interval: cumulative_timing_window removes the startup history   *)
(* of a drawable timing counter, perf_level_summary derives cycle rates from *)
(* snapshots of the CPU counters, throttle_summary compares the first and    *)
(* the last rate of one domain.  Each initial state is one input.            *)
EXTENDS Integers, Sequences, FiniteSets, SequencesExt

CONSTANTS MaxEvents,    \* bound: timed drawables
          MaxSnapshots  \* bound: snapshots of the CPU counters

ASSUME CounterAssumption == MaxEvents \in Nat /\ MaxSnapshots \in Nat

VARIABLES timing,   \* costs of the drawables, which were reported, the floor
          cpu       \* CPU snapshots and the rates drawn from them

counterVars == <<timing, cpu>>

-----------------------------------------------------------------------------
(* The trace reports after some of the drawables the number so far and the   *)
(* total so far (average times count).                                       *)
Total(costs) ==
  LET upto[n \in 0 .. Len(costs)] == IF n = 0 THEN 0 ELSE upto[n - 1] + costs[n]
  IN upto

TimingInit ==
  \E n \in 0 .. MaxEvents : \E c \in [1 .. n -> {1, 3}], r \in SUBSET (1 .. n),
     f \in 0 .. n :
    timing = [costs |-> c, reported |-> r, floor |-> f, done |-> FALSE,
              window |-> [count |-> 0, total |-> 0, from |-> 0]]

Records(t) ==
  LET total == Total(t.costs)
  IN FlattenSeq([n \in 1 .. Len(t.costs) |->
       IF n \in t.reported THEN <<[count |-> n, total |-> total[n]]>> ELSE <<>>])

(* Mutant: the oldest record below the floor. *)
OldestBelow(records, floor) ==
  LET below == {i \in DOMAIN records : records[i].count <= floor}
  IN IF below = {} THEN 0 ELSE CHOOSE i \in below : \A j \in below : i <= j

(* The newest record that is not past the floor; 0 when there is none. *)
BaselineAt(records, floor) ==
  LET below == {i \in DOMAIN records : records[i].count <= floor}
  IN IF below = {} THEN 0 ELSE CHOOSE i \in below : \A j \in below : i >= j

cumulative_timing_window(records, floor) ==
  LET base == BaselineAt(records, floor)
      last == Len(records)
  IN IF base = 0 \/ last = base THEN [count |-> 0, total |-> 0, from |-> 0]
     ELSE [count |-> records[last].count - records[base].count,
           total |-> records[last].total - records[base].total,
           from |-> records[base].count]

ReadWindow ==
  /\ ~timing.done
  /\ timing' = [timing EXCEPT !.done = TRUE,
       !.window = cumulative_timing_window(Records(timing), timing.floor)]
  /\ UNCHANGED cpu

-----------------------------------------------------------------------------
(* A snapshot: per performance level its cumulative cycles and active ticks, *)
(* or nothing for a level the probe did not report.  The probe's process     *)
(* counters fall when a thread that was read before is not read again.       *)
Levels == {"Performance", "Efficiency"}
Counter == {<<>>} \cup ({0, 2} \X {0, 1})

CpuInit ==
  \E n \in 0 .. MaxSnapshots : \E s \in [1 .. n -> [Levels -> Counter]] :
    cpu = [snapshots |-> s, done |-> FALSE, level |-> "none", rates |-> <<>>]

(* perf_level_summary: an interval per level whose cycles did not fall and   *)
(* whose active time advanced.                                               *)
Interval(snapshots, i, l) ==
  LET before == snapshots[i][l]
      after == snapshots[i + 1][l]
  IN IF before = <<>> \/ after = <<>> THEN <<>>
     ELSE LET cycles == after[1] - before[1]
              ticks == after[2] - before[2]
          IN IF cycles < 0 \/ ticks <= 0 THEN <<>>
             ELSE <<[level |-> l, start |-> i, cycles |-> cycles, ticks |-> ticks]>>

perf_level_summary(snapshots) ==
  FlattenSeq([i \in 1 .. (IF snapshots = <<>> THEN 0 ELSE Len(snapshots) - 1) |->
    Interval(snapshots, i, "Performance") \o Interval(snapshots, i, "Efficiency")])

(* throttle_summary prefers the Performance domain. *)
RateLevel(intervals) ==
  LET some == {intervals[i].level : i \in {j \in DOMAIN intervals :
                                             intervals[j].cycles > 0}}
  IN IF "Performance" \in some THEN "Performance"
     ELSE IF some # {} THEN "Efficiency" ELSE "none"

(* Mutant: rates of both counter domains in one list. *)
AllRates(intervals, level) ==
  FlattenSeq([i \in DOMAIN intervals |->
    IF intervals[i].cycles > 0 THEN <<intervals[i]>> ELSE <<>>])

(* The positive rates of the chosen domain. *)
RatesOf(intervals, level) ==
  FlattenSeq([i \in DOMAIN intervals |->
    IF intervals[i].cycles > 0 /\ intervals[i].level = level
    THEN <<intervals[i]>> ELSE <<>>])

throttle_summary ==
  /\ ~cpu.done
  /\ LET intervals == perf_level_summary(cpu.snapshots)
         level == RateLevel(intervals)
     IN cpu' = [cpu EXCEPT !.done = TRUE, !.level = level,
          !.rates = RatesOf(intervals, level)]
  /\ UNCHANGED timing

-----------------------------------------------------------------------------
(* "Remove startup history from a cumulative drawable timing counter": the   *)
(* window's count and total are those of the drawables after the baseline up *)
(* to the last report, and no report lies between the baseline and the floor.*)
TimingWindowExact ==
  timing.done /\ timing.window.count > 0 =>
    LET w == timing.window
        upto == w.from + w.count
    IN /\ w.from <= timing.floor /\ upto \in timing.reported
       /\ \A r \in timing.reported : r <= upto /\ ~(w.from < r /\ r <= timing.floor)
       /\ w.total = Total(SubSeq(timing.costs, w.from + 1, upto))[w.count]

(* "Never compare the first interval from one domain with the last interval  *)
(* from the other": the compared rates belong to one domain, whose counters  *)
(* really advanced between two snapshots that were both read, in order.      *)
RatesOneDomain ==
  cpu.done =>
    /\ \A i \in DOMAIN cpu.rates :
         LET l == cpu.rates[i].level
             before == cpu.snapshots[cpu.rates[i].start][l]
             after == cpu.snapshots[cpu.rates[i].start + 1][l]
         IN l = cpu.level /\ before # <<>> /\ after # <<>> /\ before[1] < after[1]
    /\ \A i, j \in DOMAIN cpu.rates : i < j => cpu.rates[i].start < cpu.rates[j].start
=============================================================================
