----------------------------- MODULE FramePower -----------------------------
(* misc/macws_frame_power_profile.py: one scored interval.  The profiler   *)
(* resets Host's frame interval by URL, runs a workload beside a stream of *)
(* render records and a finite powermetrics, asks Host to export, and      *)
(* reports.  Nothing is in a try: an exception leaves main at once, and    *)
(* atexit runs the cleanup command.  The summaries are operators.          *)
EXTENDS Integers, Sequences, FiniteSets

CONSTANTS
    MaxExports,     \* bound on the exports another tool asks for
    Values,         \* the numbers a series is made of
    MaxSeries,      \* bound on the length of a series
    Counts,         \* present sequences and timestamps; 0 is an old record
    Pids            \* the processes of a ps listing, in its order: 1..n

ASSUME PowerAssumption ==
    /\ MaxExports \in Nat /\ MaxSeries \in Nat
    /\ Values \subseteq Nat /\ Counts \subseteq Nat
    /\ IsFiniteSet(Pids) /\ Pids = 1..Cardinality(Pids)

VARIABLES
    prof,       \* main: its step, the marker it keeps, what it accepted
    perf,       \* Host: requests, the interval's start, the exported file
    helpers,    \* the children: cadence stream, powermetrics, workload
    series,     \* a series, a fraction, and its percentile
    cadence,    \* the render records of the stream and the rates from them
    tree        \* a ps listing and the loop that collects a subtree

powerVars == <<prof, perf, helpers, series, cadence, tree>>

Running == "running"
PowerInit ==
    /\ prof \in [at : {"thermal"}, nominal : BOOLEAN, cleanup : BOOLEAN,
                 workload : BOOLEAN, cleaned : {0}, marker : {0}, from : {0},
                 accepted : {0}, exit : {-1}]
    /\ perf = [now |-> 1, begun |-> 0, file |-> 0,
               asked |-> <<>>, exports |-> 0]
    /\ helpers = [cadence |-> "none", power |-> "none", workload |-> "none"]

(* main                                                                    *)
OnlyMain == UNCHANGED <<series, cadence, tree>>
Goes(from, to) == prof.at = from /\ prof' = [prof EXCEPT !.at = to]

(* An exception, or SystemExit: the interpreter is left through atexit.    *)
PowerFails(at) ==
    /\ prof.at \in at
    /\ prof' = [prof EXCEPT !.at = "atexit", !.exit = 1]
    /\ UNCHANGED <<perf, helpers>>

(* A remote command fails or times out, a child outlives communicate.      *)
SomethingFails ==
    /\ PowerFails({"before", "reset", "start", "power", "workload", "cadence",
              "export", "fresh", "after"})
    /\ OnlyMain

thermal_precondition ==
    /\ prof.at = "thermal"
    /\ \E safe \in BOOLEAN :
          prof' = IF prof.nominal /\ ~safe
                  THEN [prof EXCEPT !.at = "atexit", !.exit = 1]
                  ELSE [prof EXCEPT !.at = "before"]
    /\ UNCHANGED <<perf, helpers>> /\ OnlyMain

(* process_snapshot, then profile_marker: mtime, size and inode.           *)
Before ==
    /\ prof.at = "before"
    /\ prof' = [prof EXCEPT !.at = "reset", !.marker = perf.file]
    /\ UNCHANGED <<perf, helpers>> /\ OnlyMain

Asks(url) == perf' = [perf EXCEPT !.asked = Append(@, url), !.now = @ + 1]

(* performance-reset; there is no acknowledgement.                         *)
Reset ==
    /\ prof.at = "reset"
    /\ prof' = [prof EXCEPT !.at = "start", !.from = perf.now + 1]
    /\ Asks("reset")
    /\ UNCHANGED helpers /\ OnlyMain

(* start_cadence_stream, start_powermetrics, run_workload.                 *)
StartChildren ==
    /\ Goes("start", "power")
    /\ helpers' = [cadence |-> Running, power |-> Running,
                   workload |-> IF prof.workload THEN Running ELSE "none"]
    /\ UNCHANGED perf /\ OnlyMain

ChildEnds ==
    /\ \E c \in DOMAIN helpers :
          /\ helpers[c] = Running
          /\ helpers' = [helpers EXCEPT ![c] = "ended"]
    /\ UNCHANGED <<prof, perf>> /\ OnlyMain

PowerSampled ==
    /\ Goes("power", "workload") /\ helpers.power = "ended"
    /\ UNCHANGED <<perf, helpers>> /\ OnlyMain

(* Mutant: the workload is left when its time is up.                       *)
FinishedLeft(w) == w

(* communicate; when it times out terminate, then kill.                    *)
FinishedWith(w) == IF w = Running THEN "killed" ELSE w

finish_workload ==
    /\ Goes("workload", "cadence")
    /\ helpers' = [helpers EXCEPT !.workload = FinishedWith(@)]
    /\ UNCHANGED perf /\ OnlyMain

CadenceRead ==
    /\ Goes("cadence", "export") /\ helpers.cadence = "ended"
    /\ UNCHANGED <<perf, helpers>> /\ OnlyMain

AskExport ==
    /\ Goes("export", "fresh")
    /\ Asks("export")
    /\ UNCHANGED helpers /\ OnlyMain

(* Mutant: any profile there is will do.                                   *)
MarkerAny(marker, previous) == marker # 0

MarkerFresh(marker, previous) == marker # 0 /\ marker # previous

(* fresh_host_profile: the first marker that is not the one from before.   *)
fresh_host_profile ==
    /\ prof.at = "fresh" /\ MarkerFresh(perf.file, prof.marker)
    /\ prof' = [prof EXCEPT !.at = "after", !.accepted = perf.file]
    /\ UNCHANGED <<perf, helpers>> /\ OnlyMain

(* Mutant: the command is run by the caller whether or not it ran.         *)
CleanAgain(p) == p.cleaned + 1

(* cleanup_once.                                                           *)
CleanedOnce(p) == IF p.cleaned = 0 /\ p.cleanup THEN 1 ELSE p.cleaned

(* process_snapshot, thermal_snapshot, the screenshot, the cleanup and the *)
(* report; exit 2 without a power sample, 3 after a failed cleanup.        *)
ReportProfile ==
    /\ prof.at = "after"
    /\ \E code \in {0, 2} \cup (IF prof.cleanup THEN {3} ELSE {}) :
          prof' = [prof EXCEPT !.at = "atexit", !.exit = code,
                               !.cleaned = CleanedOnce(prof)]
    /\ UNCHANGED <<perf, helpers>> /\ OnlyMain

AtExit ==
    /\ prof.at = "atexit"
    /\ prof' = [prof EXCEPT !.at = "gone", !.cleaned = CleanedOnce(prof)]
    /\ UNCHANGED <<perf, helpers>> /\ OnlyMain

(* Host serves a URL, or never hears of it; an export is a new file.       *)
HostActs ==
    /\ perf.asked # <<>>
    /\ LET p == [perf EXCEPT !.asked = Tail(@), !.now = @ + 1]
       IN  \/ perf' = p
           \/ /\ Head(perf.asked) = "reset"
              /\ perf' = [p EXCEPT !.begun = perf.now]
           \/ /\ Head(perf.asked) = "export"
              /\ perf' = [p EXCEPT !.file = perf.now]
    /\ UNCHANGED <<prof, helpers>> /\ OnlyMain

(* Another profiler, or the Control Center, asks for an export.            *)
OtherExport ==
    /\ perf.exports < MaxExports
    /\ perf' = [perf EXCEPT !.asked = Append(@, "export"), !.exports = @ + 1]
    /\ UNCHANGED <<prof, helpers>> /\ OnlyMain

ProfileGone == prof.at = "gone" /\ UNCHANGED powerVars

ProfilerNext ==
    \/ SomethingFails \/ thermal_precondition \/ Before \/ Reset
    \/ StartChildren \/ ChildEnds \/ PowerSampled \/ finish_workload
    \/ CadenceRead \/ AskExport \/ fresh_host_profile \/ ReportProfile
    \/ AtExit \/ HostActs \/ OtherExport \/ ProfileGone

ProfilerSpec == PowerInit /\ [][ProfilerNext]_powerVars

-----------------------------------------------------------------------------
(* percentile: sorted, and the index int(n * fraction + 0.999999) - 1 kept *)
(* in range.  A fraction is a number of hundredths, of which the added     *)
(* 0.999999 rounds any part of one up.                                     *)
Series == UNION {[1..n -> Values] : n \in 1..MaxSeries}
Fractions == {0, 50, 95, 99, 100}

Ordered(s) ==
    CHOOSE t \in [1..Len(s) -> {s[i] : i \in 1..Len(s)}] :
        /\ \A i, j \in 1..Len(s) : i < j => t[i] <= t[j]
        /\ \A v \in Values : Cardinality({i \in 1..Len(s) : t[i] = v})
                               = Cardinality({i \in 1..Len(s) : s[i] = v})

(* Mutant: the product is truncated.                                       *)
RankDown(n, fraction) ==
    LET index == (n * fraction) \div 100 - 1
    IN  IF index < 0 THEN 0 ELSE IF index > n - 1 THEN n - 1 ELSE index

Rank(n, fraction) ==
    LET index == (n * fraction + 99) \div 100 - 1
    IN  IF index < 0 THEN 0 ELSE IF index > n - 1 THEN n - 1 ELSE index

percentile(values, fraction) == Ordered(values)[Rank(Len(values), fraction) + 1]

SeriesInit == series \in [values : Series, fraction : Fractions, done : {FALSE}]

summarize_numbers ==
    /\ ~series.done
    /\ series' = [values |-> series.values, fraction |-> series.fraction,
                  done |-> TRUE,
                  result |-> percentile(series.values, series.fraction)]
    /\ UNCHANGED <<prof, perf, helpers, cadence, tree>>

-----------------------------------------------------------------------------
(* cadence_summary: a rate from each record and the one before it.         *)
RateInit ==
    cadence \in [records : [1..3 -> [pid : {1, 2}, sequence : Counts,
                                     stamp : Counts]],
                 at : {1}, previous : {0}, rates : {{}}]

CountsFrom(old, new) ==
    /\ new.sequence > old.sequence /\ new.stamp > old.stamp
    /\ new.pid = old.pid

(* Mutant: the record before stays until a rate was taken from it.         *)
PreviousKept(i, record) ==
    IF cadence.previous = 0 THEN i
    ELSE IF CountsFrom(cadence.records[cadence.previous], record) THEN i
    ELSE cadence.previous

PreviousAfter(i, record) ==
    IF record.sequence # 0 /\ record.stamp # 0 THEN i ELSE cadence.previous

producer_rates ==
    /\ cadence.at <= Len(cadence.records)
    /\ LET i == cadence.at
           record == cadence.records[i]
       IN  cadence' = [cadence EXCEPT !.at = @ + 1,
              !.previous = PreviousAfter(i, record),
              !.rates = IF /\ cadence.previous # 0
                           /\ CountsFrom(cadence.records[cadence.previous],
                                         record)
                        THEN @ \cup {<<cadence.previous, i>>} ELSE @]
    /\ UNCHANGED <<prof, perf, helpers, series, tree>>

RateSpec == RateInit /\ [][producer_rates]_powerVars

-----------------------------------------------------------------------------
(* process_snapshot and process_cpu_summary collect a process and its      *)
(* descendants: passes over the listing until one adds nothing.            *)
TreeInit ==
    \E parents \in [Pids -> Pids \cup {0}], target \in Pids :
        tree = [parent |-> parents, target |-> target, found |-> {target},
                at |-> 1, changed |-> FALSE, done |-> FALSE]

VisitProcess ==
    /\ ~tree.done /\ tree.at \in Pids
    /\ LET joins == /\ tree.at \notin tree.found
                    /\ tree.parent[tree.at] \in tree.found
       IN  tree' = [tree EXCEPT !.at = @ + 1,
                       !.found = IF joins THEN @ \cup {tree.at} ELSE @,
                       !.changed = @ \/ joins]
    /\ UNCHANGED <<prof, perf, helpers, series, cadence>>

(* Mutant: one pass over the listing.                                      *)
OnePass(changed) == TRUE
PassesEnd(changed) == ~changed

EndPass ==
    /\ ~tree.done /\ tree.at \notin Pids
    /\ tree' = [tree EXCEPT !.at = 1, !.changed = FALSE,
                            !.done = PassesEnd(tree.changed)]
    /\ UNCHANGED <<prof, perf, helpers, series, cadence>>

TreeNext == VisitProcess \/ EndPass

TreeSpec == TreeInit /\ [][TreeNext]_powerVars

-----------------------------------------------------------------------------
(* "run after all scored evidence is captured and also at interpreter exit *)
(* after a failed run": the cleanup command ran once when the profiler is  *)
(* gone, whichever way it went.                                            *)
CleanupRanOnce ==
    /\ prof.cleaned <= 1
    /\ prof.at = "gone" => prof.cleaned = (IF prof.cleanup THEN 1 ELSE 0)

(* A report is written, and its cleanup run, only when the workload is     *)
(* over and both observers were read to their ends.                        *)
ReportAfterChildren ==
    prof.at = "gone" /\ prof.exit \in {0, 2, 3}
        => \A c \in DOMAIN helpers : helpers[c] # Running

(* The accepted profile was exported after this run read the marker; it is *)
(* this run's interval unless Host lost the reset or somebody else's       *)
(* export came in between.                                                 *)
ProfileIsFresh == prof.accepted # 0 => prof.accepted > prof.marker

(* The percentile is the least member of the series that at least the      *)
(* asked share of the series does not exceed.                              *)
PercentileIsNearest ==
    series.done =>
        LET share(v) == Cardinality({i \in DOMAIN series.values :
                                        series.values[i] <= v})
            enough(v) == 100 * share(v) >= series.fraction * Len(series.values)
        IN  /\ enough(series.result)
            /\ \A i \in DOMAIN series.values :
                  enough(series.values[i]) => series.result <= series.values[i]

(* A rate compares two records of one producer with no record of another,  *)
(* or of a restarted one, between them.                                    *)
RatesOneProducer ==
    \A r \in cadence.rates :
        \A k \in r[1]..r[2] :
            LET record == cadence.records[k]
            IN  record.sequence # 0 /\ record.stamp # 0
                  => /\ record.pid = cadence.records[r[1]].pid
                     /\ k \in {r[1], r[2]}

Holds(S) == /\ tree.target \in S
            /\ \A p \in Pids : tree.parent[p] \in S => p \in S

(* The collected tree is the target and all its descendants, and no other  *)
(* process, in whatever order ps lists them and even if parents form a     *)
(* cycle.                                                                  *)
TreeIsDescendants ==
    tree.done =>
        /\ Holds(tree.found)
        /\ \A S \in SUBSET tree.found : Holds(S) => S = tree.found

(* A profile is written after the workload and the observers ended, from   *)
(* what Host exported for it, and the cleanup command ran once.            *)
ProfileHonest == CleanupRanOnce /\ ReportAfterChildren /\ ProfileIsFresh
=============================================================================
