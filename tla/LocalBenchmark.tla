--------------------------- MODULE LocalBenchmark ---------------------------
(* stray_local_benchmark.py, the reference run on a MacBook: the profile is  *)
(* edited into ini files (configure), Steam's overlay is prepared in two VDF *)
(* files and the launchd environment (prepare-steam-overlay), and an         *)
(* interval is measured with a throttle probe, an injector thread and a      *)
(* sampling loop (sample).                                                   *)
EXTENDS Naturals, Sequences, SequencesExt

CONSTANTS Wanted,      \* the keys to set, in order
          OtherKey,    \* a key nobody wants to set
          RemovedKey,  \* a key to be removed
          MaxLines,    \* bound: lines of the file that is edited
          MaxSamples   \* bound: samples of the measured interval

(* A key is not the mark of a header, which has no "=".                      *)
ASSUME BenchAssumption ==
  /\ MaxLines \in Nat /\ MaxSamples \in Nat \ {0}
  /\ Wanted \in Seq(STRING) /\ "none" \notin ToSet(Wanted)

VARIABLES ini,      \* the edited file: before and after
          overlay,  \* the overlay preparation, and Steam
          meter     \* the measured interval

benchVars == <<ini, overlay, meter>>

-----------------------------------------------------------------------------
(* atomic_ini_update.  A line is a section header or a key with its value;   *)
(* the wanted keys belong to the section "own".                              *)
WantedKeys == ToSet(Wanted)
Header(s) == [key |-> "none", text |-> s]
Entry(k, v) == [key |-> k, text |-> v]
IniLines == {Header(s) : s \in {"own", "rest"}}
              \cup {Entry(k, "old") : k \in WantedKeys \cup {OtherKey, RemovedKey}}

(* Lines with a removed key go, every line with a wanted key gets its value. *)
Rewrite(l) ==
  IF l.key = RemovedKey THEN <<>>
  ELSE IF l.key \in WantedKeys THEN <<Entry(l.key, "new")>> ELSE <<l>>

Rewritten(lines) == FlattenSeq([i \in DOMAIN lines |-> Rewrite(lines[i])])

(* The entries of the wanted keys that no line of the output has. *)
MissingEntries(output) ==
  FlattenSeq([w \in DOMAIN Wanted |->
    IF \E i \in DOMAIN output : output[i].key = Wanted[w] THEN <<>>
    ELSE <<Entry(Wanted[w], "new")>>])

(* Mutant: the missing entries go to the end of an existing file. *)
EntriesAtEnd(lines, entries) == lines \o entries

(* They follow every header of their section, or a new section at the end.   *)
EntriesPlaced(lines, entries) ==
  IF entries = <<>> THEN lines
  ELSE IF \E i \in DOMAIN lines : lines[i] = Header("own")
  THEN FlattenSeq([i \in DOMAIN lines |->
         IF lines[i] = Header("own") THEN <<lines[i]>> \o entries ELSE <<lines[i]>>])
  ELSE lines \o <<Header("own")>> \o entries

atomic_ini_update(lines) ==
  EntriesPlaced(Rewritten(lines), MissingEntries(Rewritten(lines)))

IniInit ==
  \E n \in 0 .. MaxLines : \E s \in [1 .. n -> IniLines] :
    ini = [done |-> FALSE, before |-> s, after |-> s]

(* configure: the file is edited, replaced atomically and read back. *)
Configure ==
  /\ ~ini.done
  /\ ini' = [ini EXCEPT !.done = TRUE, !.after = atomic_ini_update(ini.before)]
  /\ UNCHANGED <<overlay, meter>>

-----------------------------------------------------------------------------
(* prepare_steam_overlay.  steam: whether it runs, and which files it had    *)
(* read without the settings (it writes those back when it quits).           *)
SteamFiles == {"config", "local"}

OverlayInit ==
  overlay = [stage |-> "check", running |-> FALSE, stale |-> {}, set |-> {},
             env |-> {}, starts |-> 0]

Prepared(stage) == [overlay EXCEPT !.stage = stage]

CheckSteam ==
  /\ overlay.stage = "check"
  /\ overlay' = Prepared(IF overlay.running THEN "refused" ELSE "config")

(* Mutant: the loop over the two files stops after the first. *)
FirstFileOnly(stage) == "setenv"

(* The two files are edited one after the other, then the environment. *)
AfterFile(stage) == IF stage = "config" THEN "local" ELSE "setenv"

(* read, update_vdf_keys, atomic_text_write: a missing anchor or an I/O error *)
(* ends the command between the two files.                                   *)
EditVdf ==
  /\ overlay.stage \in SteamFiles
  /\ \/ overlay' = [Prepared(AfterFile(overlay.stage)) EXCEPT !.set = @ \cup {overlay.stage}]
     \/ overlay' = Prepared("failed")

(* launchctl setenv, twice; the command fails with the first that fails. *)
SetEnv ==
  /\ overlay.stage \in {"setenv", "setflush"}
  /\ \/ overlay' = [Prepared(IF overlay.stage = "setenv" THEN "setflush" ELSE "ready")
                      EXCEPT !.env = @ \cup {overlay.stage}]
     \/ overlay' = Prepared("failed")

(* clear-steam-overlay-environment: two unsetenv whose failure is ignored. *)
ClearEnvironment ==
  /\ overlay.stage \in {"ready", "failed"} /\ overlay.env # {}
  /\ \E left \in SUBSET overlay.env :
       overlay' = [Prepared("cleared") EXCEPT !.env = left]

(* Steam starts and quits at any time. *)
SteamStarts ==
  /\ ~overlay.running /\ overlay.starts = 0
  /\ overlay' = [overlay EXCEPT !.running = TRUE, !.starts = 1,
                                !.stale = SteamFiles \ overlay.set]

SteamQuits ==
  /\ overlay.running
  /\ overlay' = [overlay EXCEPT !.running = FALSE, !.set = @ \ overlay.stale,
                                !.stale = {}]

OverlayNext ==
  /\ CheckSteam \/ EditVdf \/ SetEnv \/ ClearEnvironment \/ SteamStarts \/ SteamQuits
  /\ UNCHANGED <<ini, meter>>

-----------------------------------------------------------------------------
(* sample: the game's PID, the helpers, the thermal preflight, then the      *)
(* probe, the injector and one sample per second.                            *)
MeterInit ==
  meter = [stage |-> "pid", game |-> TRUE, throttled |-> FALSE, probe |-> "none",
           input |-> "none", samples |-> <<>>, result |-> FALSE]

Metering(stage) == [meter EXCEPT !.stage = stage]

FindGame ==
  /\ meter.stage = "pid"
  /\ meter' = Metering(IF meter.game THEN "preflight" ELSE "exit")

(* A thermal warning ends the command; the probe is started, then inject. *)
Preflight ==
  /\ meter.stage = "preflight"
  /\ meter' = IF meter.throttled THEN Metering("exit")
              ELSE [Metering("sampling") EXCEPT !.probe = "running", !.input = "running"]

(* One sample, with the thermal state read for it; a helper that times out   *)
(* raises out of the loop, and the executor then still waits for inject.     *)
TakeSample ==
  /\ meter.stage = "sampling" /\ Len(meter.samples) < MaxSamples
  /\ \/ meter' = [meter EXCEPT !.samples = Append(@, meter.throttled)]
     \/ meter' = Metering("unwinding")

EndOfInterval ==
  /\ meter.stage = "sampling" /\ meter.samples # <<>>
  /\ meter' = Metering("input")

(* input_future.result(): an injector that failed raises here. *)
AwaitInput ==
  /\ meter.stage \in {"input", "unwinding"} /\ meter.input \in {"ended", "failed"}
  /\ meter' = Metering(IF meter.stage = "input" /\ meter.input = "ended"
                       THEN "probe" ELSE "exit")

(* Mutant: the result is written without waiting for the probe. *)
ProbeOver == TRUE

(* throttle.communicate(timeout=15): the probe's own end. *)
ProbeEnded == meter.probe = "ended"

AwaitProbe ==
  /\ meter.stage = "probe"
  /\ \/ ProbeEnded /\ meter' = Metering("postflight")
     \/ meter' = Metering("exit")   \* TimeoutExpired: the probe stays behind

WriteResult ==
  /\ meter.stage = "postflight"
  /\ meter' = [Metering("exit") EXCEPT !.result = TRUE]

(* The children, the game and the machine's thermal state. *)
ChildEnds ==
  \/ meter.probe = "running" /\ meter' = [meter EXCEPT !.probe = "ended"]
  \/ /\ meter.input = "running"
     /\ \E how \in {"ended", "failed"} : meter' = [meter EXCEPT !.input = how]

GameQuits == meter.game /\ meter' = [meter EXCEPT !.game = FALSE]

Throttles == meter' = [meter EXCEPT !.throttled = ~@]

MeterNext ==
  /\ \/ FindGame \/ Preflight \/ TakeSample \/ EndOfInterval \/ AwaitInput
     \/ AwaitProbe \/ WriteResult \/ ChildEnds \/ GameQuits \/ Throttles
  /\ UNCHANGED <<ini, overlay>>

-----------------------------------------------------------------------------
(* atomic_ini_update puts every wanted key into the file with its value,     *)
(* keys it had to add stand under their own section's header, and the other  *)
(* lines keep their order.                                                   *)
Mine(l) == l.key \in WantedKeys \cup {RemovedKey} \/ l = Header("own")
Foreign(lines) ==
  FlattenSeq([i \in DOMAIN lines |-> IF Mine(lines[i]) THEN <<>> ELSE <<lines[i]>>])
HeadersUpTo(lines, i) == {j \in 1 .. i : lines[j].key = "none"}
AllSet(lines) == \A k \in WantedKeys : \E i \in DOMAIN lines : lines[i] = Entry(k, "new")
NoneOld(lines) == \A i \in DOMAIN lines : lines[i].text # "old" \/ lines[i].key = OtherKey
Added(lines) == {k \in WantedKeys : \A j \in DOMAIN lines : lines[j].key # k}
UnderHeader(lines, i) ==
  \E j \in HeadersUpTo(lines, i) :
    lines[j] = Header("own") /\ \A h \in HeadersUpTo(lines, i) : h <= j

IniEditPlaced ==
  ini.done =>
    /\ AllSet(ini.after) /\ NoneOld(ini.after)
    /\ \A i \in DOMAIN ini.after :
         ini.after[i].key \in Added(ini.before) => UnderHeader(ini.after, i)
    /\ Foreign(ini.after) = Foreign(ini.before)

(* result.json describes a finished measurement: the probe and the injector  *)
(* had ended and at least one sample was taken when it was written.          *)
ResultWhole ==
  meter.result => /\ meter.probe = "ended" /\ meter.input = "ended"
                  /\ meter.samples # <<>>

(* Frame-time logging is only switched on for a Steam whose two files both   *)
(* carry the overlay settings, as long as Steam itself did not write them.   *)
LoggingNeedsSettings ==
  overlay.env # {} /\ overlay.starts = 0 => overlay.set = SteamFiles
=============================================================================
