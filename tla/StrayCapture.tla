---------------------------- MODULE StrayCapture ----------------------------
(* What misc/stray_perf_loop.py asks MacWSHost for by URL: a picture of    *)
(* its screen, one file per layer, the start of a frame interval and its   *)
(* export.  Host answers with a line in its log and a file at a fixed      *)
(* path; neither names the request.  The pre-armed sample of a process is  *)
(* the other evidence here: a shell on the device that waits for a PID.    *)
EXTENDS Integers, Sequences

CONSTANTS
    Layers,         \* the windows that may have a layer
    MaxUrls         \* bound on the URLs another tool opens

ASSUME CaptureAssumption == MaxUrls \in Nat

VARIABLES
    urls,       \* requests Host has not served
    hostlog,    \* its log: the answers, each with the moment of its service
    hostfs,     \* the files it writes, by the moment they show
    shot,       \* the call in progress and what the calls returned
    sampler     \* the waiting shell, its file and the client's copy of it

captureVars == <<urls, hostlog, hostfs, shot, sampler>>

(* The calls of one run, in the order of main.  The failure of the first   *)
(* is caught by find_steam_text_window, that of any other ends the run.    *)
Plan == <<"picture", "cleanup", "picture", "layers", "reset", "export">>
Kinds == {"picture", "layers", "reset", "export"}
CallNow == Plan[shot.call]

CaptureInit ==
    /\ urls = <<>> /\ hostlog = <<>>
    /\ hostfs = [moment |-> 1, picture |-> 0, begun |-> 0, exported |-> 0,
                 layers |-> [w \in Layers |-> 0]]
    /\ shot = [call |-> 1, at |-> "idle", offset |-> 0, asked |-> 0,
               quiet |-> TRUE, foreign |-> 0, cleaned |-> 0, reset |-> 0,
               result |-> <<>>]
    /\ sampler = [at |-> "unarmed", shell |-> "none", data |-> "none",
                  copy |-> "none", used |-> FALSE]

Ends(at) == shot' = [shot EXCEPT !.at = at]

(* The call returned r; the next one begins.                               *)
Returned(r) ==
    shot' = [shot EXCEPT !.at = IF shot.call = Len(Plan) THEN "over" ELSE "idle",
                         !.call = IF @ = Len(Plan) THEN @ ELSE @ + 1,
                         !.result = Append(@, r)]

(* An exception: only the first call is in a try of its own.               *)
Raises == IF shot.call = 1 THEN Returned([kind |-> "none"]) ELSE Ends("over")

-----------------------------------------------------------------------------
(* MacWSHost, from the lines and files the runner reads.  A file is        *)
(* replaced atomically; a batch of layers leaves the files of windows that *)
(* are gone.                                                               *)
HostWrites(kind) ==
    LET now == hostfs.moment
    IN  /\ hostlog' = Append(hostlog, [kind |-> kind, written |-> TRUE])
        /\ \/ /\ kind = "picture"
              /\ hostfs' = [hostfs EXCEPT !.picture = now]
           \/ /\ kind = "layers"
              /\ \E open \in SUBSET Layers :
                    hostfs' = [hostfs EXCEPT !.layers =
                        [w \in Layers |-> IF w \in open THEN now ELSE @[w]]]
           \/ kind = "reset" /\ hostfs' = [hostfs EXCEPT !.begun = now]
           \/ kind = "export" /\ hostfs' = [hostfs EXCEPT !.exported = hostfs.begun]

HostServes ==
    /\ urls # <<>>
    /\ urls' = Tail(urls)
    /\ \/ HostWrites(Head(urls))
       \/ /\ Head(urls) = "picture"
          /\ hostlog' = Append(hostlog, [kind |-> "picture", written |-> FALSE])
          /\ UNCHANGED hostfs
    /\ UNCHANGED <<shot, sampler>>

(* uiopen fails without a word: check=False.                               *)
HostNeverHears ==
    /\ urls # <<>> /\ urls' = Tail(urls)
    /\ UNCHANGED <<hostlog, hostfs, shot, sampler>>

(* Another tool asks Host for the same things.                             *)
AnotherAsks ==
    /\ shot.foreign < MaxUrls /\ shot.at # "over"
    /\ \E kind \in Kinds :
          /\ urls' = Append(urls, kind)
          /\ hostfs' = [hostfs EXCEPT !.moment = @ + 1]
    /\ shot' = [shot EXCEPT !.foreign = @ + 1]
    /\ UNCHANGED <<hostlog, sampler>>

-----------------------------------------------------------------------------
(* The runner.                                                             *)

(* Mutant: only the raw render targets are removed.                        *)
CleanRawOnly(layers) == layers

(* "Clear them before Stray reaches its peak": by find -delete, whose      *)
(* failure is not looked at.                                               *)
CleanLayers(layers) == [w \in Layers |-> 0]

CleanUp ==
    /\ shot.at = "idle" /\ CallNow = "cleanup"
    /\ \E works \in BOOLEAN :
          /\ hostfs' = [hostfs EXCEPT
                 !.layers = IF works THEN CleanLayers(@) ELSE @,
                 !.moment = @ + 1]
          /\ shot' = [shot EXCEPT !.call = @ + 1,
                 !.cleaned = IF works THEN hostfs.moment ELSE 0,
                 !.result = Append(@, [kind |-> "none"])]
    /\ UNCHANGED <<urls, hostlog, sampler>>

(* Mutant: the answer is looked for in all of the log that was kept.       *)
OffsetOfRun == 0

(* The length of the log before the request; -1 when stat could not run.   *)
OffsetNow == Len(hostlog)

AskHost ==
    /\ shot.at = "idle" /\ CallNow \in Kinds
    /\ urls' = Append(urls, CallNow)
    /\ hostfs' = [hostfs EXCEPT !.moment = @ + 1]
    /\ \E known \in (IF CallNow = "picture" THEN BOOLEAN ELSE {TRUE}) :
          shot' = [shot EXCEPT !.at = "asked",
                      !.asked = hostfs.moment + 1,
                      !.quiet = urls = <<>>,
                      !.offset = IF known THEN OffsetNow ELSE -1]
    /\ UNCHANGED <<hostlog, sampler>>

(* capture_exact_window, the first call: screencapture under a watchdog.   *)
(* When it fails, Host is asked instead.                                   *)
ExactCaptured ==
    /\ shot.at = "idle" /\ shot.call = 1
    /\ Returned([kind |-> "exact"])
    /\ UNCHANGED <<urls, hostlog, hostfs, sampler>>

AnswersAfter(offset, kind) ==
    {i \in offset + 1 .. Len(hostlog) : hostlog[i].kind = kind}
LastOf(S) == CHOOSE i \in S : \A j \in S : j <= i

(* What the copied file shows.                                             *)
Copied(kind) ==
    [kind |-> kind, asked |-> shot.asked, quiet |-> shot.quiet,
     witnessed |-> shot.offset >= 0,
     shows |-> CASE kind = "picture" -> hostfs.picture
                 [] kind = "export"  -> hostfs.exported
                 [] OTHER            -> 0,
     files |-> IF kind = "layers" THEN {hostfs.layers[w] : w \in Layers} \ {0}
               ELSE {}]

(* capture_host_ui: the newest answer after the offset decides; without an *)
(* offset the file is copied after a second.                               *)
PictureAnswered ==
    /\ shot.at = "asked" /\ CallNow = "picture"
    /\ \/ /\ shot.offset >= 0
          /\ LET seen == AnswersAfter(shot.offset, "picture")
             IN  /\ seen # {}
                 /\ IF hostlog[LastOf(seen)].written
                    THEN Returned(Copied("picture"))
                    ELSE Raises
       \/ /\ shot.offset = -1
          /\ IF hostfs.picture # 0 THEN Returned(Copied("picture")) ELSE Raises
    /\ UNCHANGED <<urls, hostlog, hostfs, sampler>>

(* capture_host_layers: the batch is complete, the directory is listed and *)
(* every file in it is copied.                                             *)
LayersAnswered ==
    /\ shot.at = "asked" /\ CallNow = "layers"
    /\ AnswersAfter(shot.offset, "layers") # {}
    /\ Returned(Copied("layers"))
    /\ UNCHANGED <<urls, hostlog, hostfs, sampler>>

(* Mutant: an earlier reset's line ends the wait.                          *)
ResetsEver(offset) == AnswersAfter(0, "reset")

(* The log lines that say a reset is done.                                 *)
ResetsAfter(offset) == AnswersAfter(offset, "reset")

(* reset_host_visible_fps, for the game's own PID.                         *)
ResetAnswered ==
    /\ shot.at = "asked" /\ CallNow = "reset"
    /\ ResetsAfter(shot.offset) # {}
    /\ shot' = [shot EXCEPT !.at = "idle", !.call = @ + 1,
                   !.reset = shot.asked,
                   !.result = Append(@, [kind |-> "none"])]
    /\ UNCHANGED <<urls, hostlog, hostfs, sampler>>

(* snapshot_host_visible_fps: a profile without the target is refused.     *)
ExportAnswered ==
    /\ shot.at = "asked" /\ CallNow = "export"
    /\ AnswersAfter(shot.offset, "export") # {}
    /\ IF hostfs.exported # 0 THEN Returned(Copied("export")) ELSE Raises
    /\ UNCHANGED <<urls, hostlog, hostfs, sampler>>

CaptureTimesOut ==
    /\ shot.at = "asked" /\ shot.offset >= 0
    /\ Raises
    /\ UNCHANGED <<urls, hostlog, hostfs, sampler>>

CaptureOver == shot.at = "over" /\ UNCHANGED captureVars

HostSteps == HostServes \/ HostNeverHears \/ AnotherAsks
AskNext ==
    \/ HostSteps \/ CleanUp \/ ExactCaptured \/ AskHost \/ PictureAnswered
    \/ LayersAnswered
    \/ ResetAnswered \/ ExportAnswered \/ CaptureTimesOut \/ CaptureOver

-----------------------------------------------------------------------------
(* RemoteSampleAgent: data is the file in its private directory, "part"    *)
(* until sample has ended; copy is what the caller was given.              *)
OnlySampler == UNCHANGED <<urls, hostlog, hostfs, shot>>

ArmSample ==
    /\ sampler.at = "unarmed"
    /\ sampler' = [sampler EXCEPT !.at = "armed", !.shell = "waiting"]
    /\ OnlySampler

(* close: QUIT, or the end of the channel, ends a waiting shell; a process *)
(* that has exited is left alone, and its file with it.                    *)
CloseSample ==
    /\ sampler.at \in {"armed", "raised", "returned"}
    /\ sampler' = [sampler EXCEPT !.at = "closed",
                      !.shell = IF @ = "waiting" THEN "gone" ELSE @]
    /\ OnlySampler

(* capture: the PID is written and the shell execs sample.                 *)
TriggerSample ==
    /\ sampler.at = "armed" /\ ~sampler.used
    /\ sampler' = [sampler EXCEPT !.at = "sampling", !.used = TRUE,
                      !.shell = "sample", !.data = "part"]
    /\ OnlySampler

(* sample ends by itself, also after its channel was killed.               *)
SampleEnds ==
    /\ sampler.shell = "sample"
    /\ \E ok \in BOOLEAN :
          sampler' = [sampler EXCEPT !.shell = IF ok THEN "done" ELSE "failed",
                         !.data = IF ok /\ @ # "none" THEN "whole" ELSE @]
    /\ OnlySampler

(* Mutant: what there is after the timeout is copied all the same.         *)
CopiesPartial(at) ==
    CASE sampler.shell = "done" -> "copying"
      [] sampler.shell = "sample" /\ at = "late" -> "copying"
      [] OTHER -> "raised"

(* communicate returned, or timed out and the channel was killed.          *)
AfterCommunicate(at) ==
    IF at # "late" /\ sampler.shell = "done" THEN "copying" ELSE "raised"

Communicated ==
    /\ sampler.at = "sampling"
    /\ \/ /\ sampler.shell \in {"done", "failed"}
          /\ sampler' = [sampler EXCEPT !.at = AfterCommunicate("ended")]
       \/ sampler' = [sampler EXCEPT !.at = AfterCommunicate("late")]
    /\ OnlySampler

(* copy_file, with remove_file in its finally: each may raise.             *)
CopySample ==
    /\ sampler.at = "copying"
    /\ \E copied, removed \in BOOLEAN :
          sampler' = [sampler EXCEPT
              !.at = IF copied /\ removed THEN "returned" ELSE "raised",
              !.copy = IF copied THEN sampler.data ELSE "none",
              !.data = IF removed THEN "none" ELSE @]
    /\ OnlySampler

SampleOver == sampler.at = "closed" /\ UNCHANGED captureVars

SampleNext ==
    \/ ArmSample \/ TriggerSample \/ SampleEnds \/ Communicated \/ CopySample
    \/ CloseSample \/ SampleOver

CaptureSpec == CaptureInit /\ [][AskNext \/ SampleNext]_captureVars

-----------------------------------------------------------------------------
CaptureResults == {shot.result[i] : i \in 1..Len(shot.result)}

(* A picture that comes with Host's own line, asked for while no earlier   *)
(* request was open, shows the screen at or after its request.             *)
PictureWitnessed ==
    \A r \in CaptureResults :
        r.kind = "picture" /\ r.witnessed /\ r.quiet => r.shows >= r.asked

(* "so later collection never needs to guess whether a file belongs to the *)
(* current generation": when the clean-up worked, every copied layer was   *)
(* written after it.                                                       *)
LayersOfThisRun ==
    \A r \in CaptureResults :
        r.kind = "layers" /\ shot.cleaned > 0
            => \A shows \in r.files : shows >= shot.cleaned

(* The frame rate that is scored counts frames since this run's reset was  *)
(* asked for, whoever else resets or exports meanwhile.                    *)
FpsSinceReset ==
    \A r \in CaptureResults : r.kind = "export" => r.shows >= shot.reset

(* A sample that capture returned had run to its end, and its file on the  *)
(* device is gone.                                                         *)
SampleWhole ==
    sampler.at = "returned" => sampler.copy = "whole" /\ sampler.data = "none"

(* What is kept as evidence of a run was made by that run: no picture,     *)
(* layer, frame counter or stack sample of an earlier request, generation  *)
(* or process passes for it.                                               *)
EvidenceOfThisRun == PictureWitnessed /\ LayersOfThisRun /\ FpsSinceReset /\ SampleWhole
=============================================================================
