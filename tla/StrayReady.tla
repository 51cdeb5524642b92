----------------------------- MODULE StrayReady -----------------------------
(* The bounded polling loops of misc/stray_perf_loop.py that decide from *)
(* what they can see whether the device is ready: thermal admission and  *)
(* idle background, Steam's library, the workspace, the game's surface,  *)
(* and gameplay.  One loop runs at a time; the device moves on between   *)
(* any two observations of it.                                           *)
EXTENDS Integers, Sequences, FiniteSets

CONSTANTS
    Polls,          \* polls before a deadline
    Stable,         \* stable_samples of the thermal preflight
    MaxOffset,      \* bound on the length of a Steam log
    MaxMisses       \* bound on the frames whose menu text OCR does not read

ASSUME ReadyAssumption ==
    /\ Polls \in Nat \ {0} /\ Stable \in Nat \ {0}
    /\ MaxOffset \in Nat /\ MaxMisses \in Nat

VARIABLES
    loop,       \* which loop runs
    world,     \* what the loop looks at
    local,      \* its locals
    left,       \* polls left
    result      \* what it returned

readyVars == <<loop, world, local, left, result>>

ReadyInit ==
    /\ loop = "none" /\ world = <<>> /\ local = <<>> /\ left = 0
    /\ result = "none"

Running(name) == loop = name /\ result = "none"

Start(name, thing, locals) ==
    /\ loop = "none"
    /\ loop' = name /\ world' = thing /\ local' = locals
    /\ left' = Polls /\ result' = "none"

Expired == left = 0
Returns(r) == result' = r
Continues == result' = "none" /\ left' = left - 1

-----------------------------------------------------------------------------
(* wait_for_cool_device and wait_for_idle_background: enough good samples*)
(* in a row.  world.samples is every sample taken.                       *)
BeginSamples ==
    \E need \in {Stable, 2} :
      Start("samples", [good |-> FALSE, samples |-> <<>>],
            [need |-> need, run |-> 0])

DeviceDrifts ==
    /\ Running("samples")
    /\ world' = [world EXCEPT !.good = ~@]
    /\ UNCHANGED <<loop, local, left, result>>

(* Mutant: a bad sample does not break the row.                          *)
RunTolerant(good) == IF good THEN local.run + 1 ELSE local.run

RunOf(good) == IF good THEN local.run + 1 ELSE 0

(* The deadline is looked at after the sample.                           *)
TakeSample ==
    /\ Running("samples")
    /\ world' = [world EXCEPT !.samples = Append(@, world.good)]
    /\ local' = [local EXCEPT !.run = RunOf(world.good)]
    /\ IF RunOf(world.good) >= local.need
       THEN Returns("admitted") /\ UNCHANGED left
       ELSE IF Expired THEN Returns("timeout") /\ UNCHANGED left
       ELSE Continues
    /\ UNCHANGED loop

-----------------------------------------------------------------------------
(* wait_for_steam_library_ready.  A file is its length and, for each line*)
(* that is searched for, the offset at which it last begins (rfind); the *)
(* lengths of the lines between them are arbitrary.  world.since is what *)
(* Steam wrote, in any file, after the last connect and the last login.  *)
Marks == [login |-> {"Starting", "Success"},
          js    |-> {"connected", "disconnected", "AppStore", "FriendsUI"},
          web   |-> {"WasHidden"}]
Files == DOMAIN Marks
Awaited == [connected |-> {"disconnected", "WasHidden"},
            Starting  |-> {"Success"}]

BeginLibrary ==
    Start("library",
          [len |-> [f \in Files |-> 0],
           since |-> [connected |-> {}, Starting |-> {}],
           at |-> [m \in UNION {Marks[f] : f \in Files} |-> -1]], <<>>)

SteamWrites ==
    /\ Running("library")
    /\ \E f \in Files, pad \in {0, 2} : \E mark \in Marks[f] :
         /\ world.len[f] + pad < MaxOffset
         /\ world' = [world EXCEPT !.len[f] = @ + pad + 1,
                                     !.at[mark] = world.len[f] + pad,
                                     !.since = [m \in DOMAIN @ |->
                                       IF m = mark THEN {}
                                       ELSE @[m] \cup ({mark} \cap Awaited[m])]]
    /\ UNCHANGED <<loop, local, left, result>>

(* Mutant: a success of any login counts.                                *)
LoggedInOnce(at) == at["Starting"] >= 0 /\ at["Success"] >= 0

LoggedIn(at) == at["Starting"] >= 0 /\ at["Success"] > at["Starting"]

Connected(at) == at["connected"] >= 0 /\ at["connected"] > at["disconnected"]

(* LibraryUIStore, the other witness, is no longer written by this Steam.*)
LibraryReady(at) ==
    /\ at["connected"] >= 0
    /\ at["AppStore"] > at["connected"] /\ at["FriendsUI"] > at["AppStore"]
    /\ at["WasHidden"] > at["connected"]

PollLibrary ==
    /\ Running("library")
    /\ IF Expired
       THEN Returns("raised") /\ UNCHANGED left
       ELSE IF LoggedIn(world.at) /\ Connected(world.at)
                 /\ LibraryReady(world.at)
       THEN Returns("ready") /\ UNCHANGED left
       ELSE Continues
    /\ UNCHANGED <<loop, world, local>>

-----------------------------------------------------------------------------
(* workspace_preflight.  stack is the generation of WindowServer and     *)
(* macwsinputd, 0 when they are down; a snapshot taken while there is no *)
(* IOSurface reports zeros and is the frame 0.                           *)
BeginWorkspace ==
    \E locked, host, part \in BOOLEAN, txn \in BOOLEAN :
      Start("workspace",
            [locked |-> locked, host |-> host, stack |-> IF part THEN 1 ELSE 0,
             inputd |-> FALSE, txn |-> txn, gen |-> 1, failed |-> FALSE,
             shown |-> FALSE, frames |-> {}],
            [stage |-> "lock", cold |-> FALSE])

HostComesUp ==
    /\ Running("workspace") /\ ~world.host /\ local.stage # "lock"
    /\ world' = [world EXCEPT !.host = TRUE]
    /\ UNCHANGED <<loop, local, left, result>>

(* macos_gui.sh start: the old components are retired, new ones come up, *)
(* or the transaction fails and says so in the Host log.                 *)
TransactionEnds ==
    /\ Running("workspace") /\ world.txn
    /\ \/ world' = [world EXCEPT !.txn = FALSE, !.stack = world.gen + 1,
                                   !.gen = @ + 1, !.inputd = TRUE]
       \/ world' = [world EXCEPT !.txn = FALSE, !.stack = 0,
                                   !.failed = (local.stage # "lock")]
    /\ UNCHANGED <<loop, local, left, result>>

(* The Host answers an enter-workspace and a performance-snapshot request.*)
HostReports ==
    /\ Running("workspace") /\ world.host
    /\ local.stage \in {"hostwait", "startup", "present"}
    /\ \/ world' = [world EXCEPT !.shown = TRUE]
       \/ world' = [world EXCEPT !.frames = @ \cup {world.stack}]
    /\ UNCHANGED <<loop, local, left, result>>

Complete == world.host /\ world.stack > 0 /\ world.inputd

(* The lock check, the two uiopen requests, and the wait for the process.*)
EnterWorkspace ==
    /\ Running("workspace") /\ local.stage \in {"lock", "hostwait"}
    /\ IF local.stage = "lock"
       THEN /\ IF world.locked THEN Returns("raised") ELSE result' = "none"
            /\ local' = [local EXCEPT !.stage = "hostwait"]
            /\ UNCHANGED left
       ELSE IF world.host \/ Expired
            THEN /\ local' = [local EXCEPT
                      !.stage = IF Complete THEN "present" ELSE "start",
                      !.cold = ~Complete]
                 /\ left' = Polls /\ result' = "none"
            ELSE Continues /\ UNCHANGED local
    /\ UNCHANGED <<loop, world>>

(* Reuse a live macos_gui transaction, or ask for one.                   *)
StartWorkspace ==
    /\ Running("workspace") /\ local.stage = "start"
    /\ world' = [world EXCEPT !.txn = TRUE]
    /\ local' = [local EXCEPT !.stage = "startup"]
    /\ UNCHANGED <<loop, left, result>>

PollStartup ==
    /\ Running("workspace") /\ local.stage = "startup"
    /\ IF Expired \/ world.failed
       THEN Returns("raised") /\ UNCHANGED <<left, local>>
       ELSE IF Complete
       THEN /\ local' = [local EXCEPT !.stage = "present"]
            /\ left' = Polls /\ result' = "none"
       ELSE Continues /\ UNCHANGED local
    /\ UNCHANGED <<loop, world>>

(* Mutant: any snapshot line is a witness.                               *)
FrameReported == world.frames # {}

(* A first frame, or a snapshot whose stream, sequence and surface are   *)
(* not zero, since the request.                                          *)
FrameWitnessed == world.frames \ {0} # {}

PollPresentation ==
    /\ Running("workspace") /\ local.stage = "present"
    /\ IF Expired THEN Returns("raised") /\ UNCHANGED left
       ELSE IF world.shown /\ FrameWitnessed
       THEN Returns("ready") /\ UNCHANGED left
       ELSE Continues
    /\ UNCHANGED <<loop, world, local>>

-----------------------------------------------------------------------------
(* refresh_game_window_or_present: the catalog, the present counter of the*)
(* runtime log and the liveness of the PID are read one after the other. *)
BeginSurface ==
    Start("surface", [game |-> "live", window |-> FALSE, presents |-> 0],
          [step |-> "catalog", seen |-> FALSE, last |-> 0, probed |-> "none"])

GameMoves ==
    /\ Running("surface")
    /\ \/ /\ world.game = "live" /\ world.presents < 2
          /\ world' = [world EXCEPT !.presents = @ + 1]
       \/ /\ world.game = "live"
          /\ world' = [world EXCEPT !.window = ~@]
       \/ /\ world.game = "live"
          /\ world' = [world EXCEPT !.game = "gone", !.window = FALSE]
       \/ /\ world.game = "gone"
          /\ world' = [world EXCEPT !.game = "other"]
    /\ UNCHANGED <<loop, local, left, result>>

(* largest_window                                                        *)
ReadCatalog ==
    /\ Running("surface") /\ local.step = "catalog"
    /\ IF Expired THEN Returns("raised") /\ UNCHANGED local
       ELSE /\ local' = [local EXCEPT !.seen = world.window, !.step = "log"]
            /\ result' = "none"
    /\ UNCHANGED <<loop, world, left>>

ReadPresents ==
    /\ Running("surface") /\ local.step = "log"
    /\ local' = [local EXCEPT !.last = world.presents, !.step = "pid"]
    /\ UNCHANGED <<loop, world, left, result>>

(* Mutant: a PID that is not running does not end the wait.              *)
LivenessHopeful(game) == IF game = "live" THEN "True" ELSE "None"

(* root_pid_liveness: another process under the PID is neither.          *)
root_pid_liveness(game) ==
    CASE game = "live" -> "True" [] game = "gone" -> "False" [] OTHER -> "None"

ReadLiveness ==
    /\ Running("surface") /\ local.step = "pid"
    /\ local' = [local EXCEPT !.step = "catalog", !.probed = world.game]
    /\ IF local.seen
       THEN Returns("window") /\ UNCHANGED left
       ELSE IF root_pid_liveness(world.game) = "False"
       THEN Returns("raised") /\ UNCHANGED left
       ELSE IF local.last > 0
       THEN Returns("retained") /\ UNCHANGED left
       ELSE Continues
    /\ UNCHANGED <<loop, world>>

-----------------------------------------------------------------------------
(* The gameplay progression of main: one capture, one classification, at *)
(* most one input.  An input takes effect later, or not at all; OCR does *)
(* not read a frame that is blurred.                                     *)

(* What Return does to each screen of the game.                          *)
AfterReturn(screen) ==
    CASE screen = "logo"           -> "startup-prompt"
      [] screen = "startup-prompt" -> "main-menu"
      [] screen = "main-menu"      -> "save-select"
      [] screen = "save-select"    -> "start-save"
      [] screen = "start-save"     -> "black"
      [] OTHER                     -> screen

BeginGameplay ==
    Start("gameplay",
          [screen |-> "logo", input |-> FALSE, blurred |-> FALSE, misses |-> 0],
          [saving |-> FALSE, run |-> 0, advanced |-> {}])

GameAnswers ==
    /\ Running("gameplay")
    /\ \/ /\ world.input
          /\ \E screen \in {AfterReturn(world.screen), world.screen} :
               world' = [world EXCEPT !.input = FALSE, !.screen = screen]
       \/ /\ world.screen = "black"
          /\ world' = [world EXCEPT !.screen = "scene"]
       \/ /\ world.screen = "logo"
          /\ world' = [world EXCEPT !.screen = "main-menu"]
       \/ /\ ~world.blurred /\ world.misses < MaxMisses
          /\ world' = [world EXCEPT !.blurred = TRUE, !.misses = @ + 1]
    /\ UNCHANGED <<loop, local, left, result>>

(* stray_visual_state; OCR may miss the text of a menu.                  *)
stray_visual_state(screen, missed) ==
    IF missed \/ screen \in {"logo", "black", "scene"} THEN "non-menu"
    ELSE IF screen = "start-save" THEN "save-select" ELSE screen

(* Mutant: one frame of a scene is enough.                               *)
ReachedAtOnce(run) == run >= 1

ReachedAfter(run) == run >= 2

Sends(state) ==
    /\ world' = [world EXCEPT !.input = TRUE, !.blurred = FALSE]
    /\ local' = [local EXCEPT !.run = 0, !.advanced = @ \cup {state},
                              !.saving = @ \/ state = "save-select"]

Observes(run) ==
    /\ world' = [world EXCEPT !.blurred = FALSE]
    /\ local' = [local EXCEPT !.run = run]

(* An unread frame: a scene once the save is chosen and the FPS counter  *)
(* shows, the landing screen once, or nothing to act on.                 *)
UnreadFrame(nonblack, fps) ==
    IF local.saving /\ nonblack /\ fps
    THEN Observes(local.run + 1)
    ELSE IF nonblack /\ "non-menu" \notin local.advanced
    THEN Sends("non-menu")
    ELSE Observes(0)

(* save-select is confirmed as often as it shows; the others once.       *)
MenuFrame(state) ==
    IF state = "save-select" \/ state \notin local.advanced
    THEN Sends(state)
    ELSE Observes(0)

CaptureFrame ==
    /\ Running("gameplay") /\ left > 0
    /\ \E fps \in BOOLEAN :
         LET state == stray_visual_state(world.screen, world.blurred)
         IN  IF state = "non-menu"
             THEN UnreadFrame(world.screen # "black", fps)
             ELSE MenuFrame(state)
    /\ result' = IF ReachedAfter(local'.run) THEN "gameplay" ELSE "none"
    /\ left' = left - 1
    /\ UNCHANGED loop

GameplayTimesOut ==
    /\ Running("gameplay") /\ Expired
    /\ Returns("timeout")
    /\ UNCHANGED <<loop, world, local, left>>

-----------------------------------------------------------------------------
ReadyOver == result # "none" /\ UNCHANGED readyVars

ReadyNext ==
    \/ BeginSamples \/ DeviceDrifts \/ TakeSample
    \/ BeginLibrary \/ SteamWrites \/ PollLibrary
    \/ BeginWorkspace \/ HostComesUp \/ TransactionEnds \/ HostReports
    \/ EnterWorkspace \/ StartWorkspace \/ PollStartup \/ PollPresentation
    \/ BeginSurface \/ GameMoves \/ ReadCatalog \/ ReadPresents \/ ReadLiveness
    \/ BeginGameplay \/ GameAnswers \/ CaptureFrame \/ GameplayTimesOut
    \/ ReadyOver

ReadySpec == ReadyInit /\ [][ReadyNext]_readyVars

-----------------------------------------------------------------------------
(* The device is admitted after an unbroken row of good samples: one that*)
(* warms up between two polls starts the count again.                    *)
AdmittedInARow ==
    result = "admitted" =>
      LET n == Len(world.samples)
      IN  /\ n >= local.need
          /\ \A i \in (n - local.need + 1)..n : world.samples[i]

(* A stale login line does not make the library ready: the last login that*)
(* was started had succeeded and the transport was still connected.      *)
LibraryIsCurrent ==
    loop = "library" /\ result = "ready" =>
      /\ "Success" \in world.since["Starting"]
      /\ "disconnected" \notin world.since["connected"]

(* The workspace is ready only after some generation of the display stack*)
(* had shown a frame: a snapshot of zeros is not one.                    *)
WorkspaceShowedFrame ==
    loop = "workspace" /\ result = "ready" => \E g \in 1..world.gen :
      g \in world.frames

(* A surface that left the catalog is retained only if the game had      *)
(* presented in this stage and was not known to be gone when it was probed*)
(* after that present.                                                   *)
RetainedWasLive ==
    result = "retained" => world.presents > 0 /\ local.probed # "gone"

(* Gameplay is called reached only on the scene itself, even if OCR fails*)
(* to read the menu on one frame and though inputs are late or lost.     *)
ReachedIsScene ==
    result = "gameplay" => world.screen = "scene"

(* Each gate before the measured interval opens only on what is so then:   *)
(* nothing an earlier poll, session, snapshot or frame showed opens it.    *)
GatesSound ==
    /\ AdmittedInARow
    /\ LibraryIsCurrent
    /\ WorkspaceShowedFrame
    /\ RetainedWasLive
    /\ ReachedIsScene
=============================================================================
