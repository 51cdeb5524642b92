------------------------------ MODULE MCHarness ------------------------------
(* The programs that measure the device from outside: the run of             *)
(* misc/stray_perf_loop.py with its captures, its Steam dialogues, its       *)
(* picture and counter analysis, and the frame and power profiler.  One run  *)
(* follows one of them.                                                      *)
EXTENDS MCStrayPerfLoop, StrayCapture, StraySteamUI, DarkRegions, FramePower, StrayCounters

VARIABLE part

harnessVars == <<part, vars, captureVars, steamUIVars, regionVars, powerVars, counterVars>>

Parts == {"main", "ask", "sample", "ui", "regions", "profile", "series", "rates", "tree",
          "timing", "cpu"}

(* A part that is not followed starts in one of its initial states.          *)
Pinned(p, formula) == part = p \/ formula

MCInit ==
    /\ part \in Parts
    /\ Init
    /\ Pinned("main", /\ opt = Run("preflight", {})
                      /\ start = Desktop("none", "none", FALSE, FALSE))
    /\ CaptureInit
    /\ SteamUIInit
    /\ Pinned("ui", steamUI.page = "library" /\ steamUI.button = "play" /\ ~play.reuse /\ ~play.handoff)
    /\ PowerInit
    /\ Pinned("profile", ~prof.nominal /\ ~prof.cleanup /\ ~prof.workload)
    /\ dark \in (IF part = "regions" THEN SUBSET Samples ELSE {{}})
    /\ RegionInit
    /\ IF part = "series" THEN SeriesInit
       ELSE series = [values |-> <<1>>, fraction |-> 50, done |-> FALSE]
    /\ IF part = "rates" THEN RateInit
       ELSE cadence = [records |-> [i \in 1..3 |-> [pid |-> 1, sequence |-> 0, stamp |-> 0]],
                       at |-> 1, previous |-> 0, rates |-> {}]
    /\ IF part = "tree" THEN TreeInit
       ELSE tree = [parent |-> [p \in Pids |-> 0], target |-> 1, found |-> {1},
                    at |-> 1, changed |-> FALSE, done |-> FALSE]
    /\ IF part = "timing" THEN TimingInit
       ELSE timing = [costs |-> <<>>, reported |-> {}, floor |-> 0, done |-> FALSE,
                      window |-> [count |-> 0, total |-> 0, from |-> 0]]
    /\ IF part = "cpu" THEN CpuInit
       ELSE cpu = [snapshots |-> <<>>, done |-> FALSE, level |-> "none", rates |-> <<>>]

MCNext ==
    \/ /\ part = "main" /\ Next
       /\ UNCHANGED <<part, captureVars, steamUIVars, regionVars, powerVars, counterVars>>
    \/ /\ part = "ask" /\ AskNext
       /\ UNCHANGED <<part, vars, steamUIVars, regionVars, powerVars, counterVars>>
    \/ /\ part = "sample" /\ SampleNext
       /\ UNCHANGED <<part, vars, steamUIVars, regionVars, powerVars, counterVars>>
    \/ /\ part = "ui" /\ SteamUINext
       /\ UNCHANGED <<part, vars, captureVars, regionVars, powerVars, counterVars>>
    \/ /\ part = "regions" /\ RegionNext
       /\ UNCHANGED <<part, vars, captureVars, steamUIVars, powerVars, counterVars>>
    \/ /\ part = "profile" /\ ProfilerNext
       /\ UNCHANGED <<part, vars, captureVars, steamUIVars, regionVars, counterVars>>
    \/ /\ part = "series" /\ summarize_numbers
       /\ UNCHANGED <<part, vars, captureVars, steamUIVars, regionVars, counterVars>>
    \/ /\ part = "rates" /\ producer_rates
       /\ UNCHANGED <<part, vars, captureVars, steamUIVars, regionVars, counterVars>>
    \/ /\ part = "tree" /\ TreeNext
       /\ UNCHANGED <<part, vars, captureVars, steamUIVars, regionVars, counterVars>>
    \/ /\ part = "timing" /\ ReadWindow
       /\ UNCHANGED <<part, vars, captureVars, steamUIVars, regionVars, powerVars>>
    \/ /\ part = "cpu" /\ throttle_summary
       /\ UNCHANGED <<part, vars, captureVars, steamUIVars, regionVars, powerVars>>

MCSpec == MCInit /\ [][MCNext]_harnessVars

(* The figures of a report are what their definitions say, on every input  *)
(* of the instance: connected dark islands, nearest-rank percentiles,      *)
(* rates of one producer and of one counter domain, process trees, and the *)
(* cost of a window of drawables.                                          *)
FiguresExact ==
    /\ FillIsComponent
    /\ IslandsSurrounded
    /\ PercentileIsNearest
    /\ RatesOneProducer
    /\ TreeIsDescendants
    /\ TimingWindowExact
    /\ RatesOneDomain
=============================================================================
