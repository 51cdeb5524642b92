-------------------------- MODULE FirstRunPipeline --------------------------
(* misc/stray_first_run_pipeline.py: the game is launched in waves.  A wave  *)
(* that dies on a Metal library the driver refuses leaves the library behind *)
(* as a capture; the pipeline converts it, installs it and launches again,   *)
(* until a wave shows gameplay or fails for another reason.                  *)
(* The device is modelled beside it: the game moves on, asks for libraries,  *)
(* spins after a fatal error, exits; any remote call may fail.               *)
EXTENDS Naturals, FiniteSets

CONSTANTS
    Shaders,      \* the libraries the game can ask for
    MaxWaves,     \* --max-waves
    MaxPrompts,   \* --prompt-steps
    MaxFailures   \* remote calls that fail

VARIABLES
    pipe,         \* the locals of main
    game,         \* the game process on the device
    gameLog,      \* what the wave's stray.log shows
    exact,        \* the libraries with an installed conversion
    flags,        \* diagnostic flag files on the device
    failures,     \* remote calls that failed so far
    exactBefore   \* history: exact when the wave was launched

pipeVars == <<pipe, game, gameLog, exact, flags, failures, exactBefore>>

NoGame == [who |-> 0, at |-> "none"]
EmptyLog == [fatal |-> {}, misses |-> {}, partial |-> FALSE]
\* A game that ran before the pipeline started has no wave of its own.
Stale == MaxWaves + 1

NoProgress == [fatal |-> "none", exited |-> FALSE, scene |-> FALSE, saved |-> FALSE,
               waited |-> FALSE, prompts |-> 0, misses |-> {}]

PipeInit ==
    /\ pipe = [pc |-> "arm", wave |-> 0, pid |-> 0, handle |-> FALSE, linkLost |-> FALSE,
               unheard |-> FALSE, result |-> "INCOMPLETE", seen |-> NoProgress]
    /\ game = [who |-> Stale, at |-> "scene"]
    /\ gameLog = EmptyLog
    /\ exact = {}
    /\ flags = {}
    /\ failures = 0
    /\ exactBefore = {}

-----------------------------------------------------------------------------
(* The device.                                                              *)

Alive == game.at # "none"
Windowed == game.at \in {"brightness", "menu", "save", "intro", "scene"}

\* The game gets on without input: it opens its window and leaves its movie.
GameAdvances ==
    /\ \/ game.at = "boot" /\ game' = [game EXCEPT !.at = "brightness"]
       \/ game.at = "intro" /\ game' = [game EXCEPT !.at = "scene"]
    /\ UNCHANGED <<pipe, gameLog, exact, flags, failures, exactBefore>>

\* A library without an installed conversion is refused: the hook writes the
\* capture, completely or not, and the engine spins after its fatal error.
GameMisses ==
    /\ Alive /\ game.at # "spin" /\ game.who = pipe.wave
    /\ \E s \in Shaders \ exact, partial \in BOOLEAN :
         gameLog' = [fatal |-> gameLog.fatal \cup {"shader_target_os"},
                     misses |-> gameLog.misses \cup {s},
                     partial |-> gameLog.partial \/ partial]
    /\ game' = [game EXCEPT !.at = "spin"]
    /\ UNCHANGED <<pipe, exact, flags, failures, exactBefore>>

\* A GPU error or another engine failure ends the game the same way.
GameFails ==
    /\ Alive /\ game.at # "spin" /\ game.who = pipe.wave
    /\ \E kind \in {"command_buffer", "other"} :
         gameLog' = [gameLog EXCEPT !.fatal = @ \cup {kind}]
    /\ game' = [game EXCEPT !.at = "spin"]
    /\ UNCHANGED <<pipe, exact, flags, failures, exactBefore>>

GameExits ==
    /\ Alive
    /\ game' = NoGame
    /\ UNCHANGED <<pipe, gameLog, exact, flags, failures, exactBefore>>

\* The SSH channel that carries the game's output ends while the game runs.
LinkDrops ==
    /\ pipe.handle /\ ~pipe.linkLost /\ failures < MaxFailures
    /\ pipe' = [pipe EXCEPT !.linkLost = TRUE]
    /\ failures' = failures + 1
    /\ UNCHANGED <<game, gameLog, exact, flags, exactBefore>>

\* A key reaches the game and takes it one screen further, or is lost.
Pressed ==
    LET next == [brightness |-> "menu", menu |-> "save", save |-> "intro"]
    IN  {game} \cup {[game EXCEPT !.at = next[x]] : x \in {game.at} \cap DOMAIN next}

-----------------------------------------------------------------------------
(* The steps of main.                                                       *)

\* An exception leaves the wave through its finally clause.
Unwound(p) == [p EXCEPT !.pc = "unwind"]

RemoteFails ==
    /\ pipe.pc \in {"wave", "pid", "window", "accept", "menu", "prompt", "collect", "stop", "convert"}
    /\ failures < MaxFailures
    /\ failures' = failures + 1
    /\ pipe' = Unwound(pipe)
    /\ UNCHANGED <<game, gameLog, exact, flags, exactBefore>>

\* A call made with check=False fails and nobody hears of it.
CallLost == failures < MaxFailures /\ failures' = failures + 1
Unheard(p) == [p EXCEPT !.unheard = TRUE]

\* The diagnostic flags are created, old captures removed.
ArmFlags ==
    /\ pipe.pc = "arm"
    /\ flags' = {"diagnostic"}
    /\ pipe' = [pipe EXCEPT !.pc = "wave"]
    /\ UNCHANGED <<game, gameLog, exact, failures, exactBefore>>

Finished(p, result) == [p EXCEPT !.pc = "finally", !.result = result]

(* Mutant: the device has no pkill, so the old game stays. *)
KillNothing == game

\* killall -9: whatever game is running ends before the new one starts.
KillOldGames == NoGame

\* The game that answers to the name after start_game: an old one that is left
\* is found before the new one.
start_game(wave, left) == IF left.at = "none" THEN [who |-> wave, at |-> "boot"] ELSE left

BeginWave ==
    /\ pipe.pc = "wave"
    /\ \/ /\ pipe.wave < MaxWaves
          /\ LET p == [pipe EXCEPT !.pc = "pid", !.wave = @ + 1, !.pid = 0, !.handle = TRUE,
                                   !.linkLost = FALSE, !.seen = NoProgress]
             IN  \/ /\ pipe' = p
                    /\ game' = start_game(pipe.wave + 1, KillOldGames)
                    /\ UNCHANGED failures
                 \/ CallLost /\ pipe' = Unheard(p) /\ game' = start_game(pipe.wave + 1, game)
          /\ gameLog' = EmptyLog
          /\ exactBefore' = exact
       \/ /\ pipe.wave < MaxWaves
          /\ pipe' = Finished(pipe, "THERMAL_CRITICAL")
          /\ UNCHANGED <<game, gameLog, exactBefore, failures>>
       \/ /\ pipe.wave = MaxWaves
          /\ pipe' = [pipe EXCEPT !.pc = "finally"]
          /\ UNCHANGED <<game, gameLog, exactBefore, failures>>
    /\ UNCHANGED <<exact, flags>>

\* ps shows one process of the game's name; none appears before the deadline
\* when the game exited, or starts too slowly.
wait_for_pid ==
    /\ pipe.pc = "pid"
    /\ \/ Alive /\ pipe' = [pipe EXCEPT !.pc = "window", !.pid = game.who]
       \/ pipe' = Unwound(pipe)
    /\ UNCHANGED <<game, gameLog, exact, flags, failures, exactBefore>>

\* "Target OS is incompatible" is looked for first, the spin message last.
fatal_kind ==
    CASE "shader_target_os" \in gameLog.fatal -> "shader_target_os"
      [] "command_buffer" \in gameLog.fatal -> "command_buffer"
      [] "other" \in gameLog.fatal -> "other"
      [] OTHER -> "none"

\* The wave ends on a fatal error: remember it and go on to stop the game.
FatalSeen(p) ==
    [p EXCEPT !.pc = "stop", !.seen.fatal = fatal_kind, !.seen.misses = gameLog.misses]

\* The first look for a content-sized window.  A missing catalog is an error
\* unless the log explains it with a fatal.
FirstWindow ==
    /\ pipe.pc = "window"
    /\ \/ /\ Windowed \/ game.at = "spin"
          /\ pipe' = [pipe EXCEPT !.pc = "accept"]
       \/ /\ fatal_kind = "none" /\ pipe' = Unwound(pipe)
       \/ /\ fatal_kind # "none" /\ pipe' = FatalSeen(pipe)
    /\ UNCHANGED <<game, gameLog, exact, flags, failures, exactBefore>>

\* After accept_delay the window is looked up again; without it a live game
\* is addressed through its key window.  Then Return leaves the brightness page.
fullscreen_key_window_fallback == Alive

AcceptWindow ==
    /\ pipe.pc = "accept"
    /\ \/ /\ Windowed \/ (fatal_kind = "none" /\ fullscreen_key_window_fallback)
          /\ game' \in Pressed
          /\ pipe' = [pipe EXCEPT !.pc = "menu"]
       \/ /\ ~Windowed /\ fatal_kind = "none" /\ ~fullscreen_key_window_fallback
          /\ pipe' = Unwound(pipe)
          /\ UNCHANGED game
       \/ /\ ~Windowed /\ fatal_kind # "none"
          /\ pipe' = FatalSeen(pipe)
          /\ UNCHANGED game
    /\ UNCHANGED <<gameLog, exact, flags, failures, exactBefore>>

\* process.poll(): the local ssh ended, with the game or without it.
Exited == ~Alive \/ pipe.linkLost

\* The menu_delay loop, then Return on START GAME.
MenuDelay ==
    /\ pipe.pc = "menu"
    /\ \/ /\ fatal_kind # "none"
          /\ pipe' = [pipe EXCEPT !.pc = "collect", !.seen.fatal = fatal_kind]
          /\ UNCHANGED game
       \/ /\ fatal_kind = "none" /\ Exited
          /\ pipe' = [pipe EXCEPT !.pc = "collect", !.seen.exited = TRUE]
          /\ UNCHANGED game
       \/ /\ fatal_kind = "none" /\ ~Exited
          /\ game' \in Pressed
          /\ pipe' = [pipe EXCEPT !.pc = "prompt"]
    /\ UNCHANGED <<gameLog, exact, flags, failures, exactBefore>>

\* Enough time since the save slot was confirmed to rule out the movie.
GameplayDelay ==
    /\ pipe.pc = "prompt" /\ pipe.seen.saved /\ ~pipe.seen.waited
    /\ pipe' = [pipe EXCEPT !.seen.waited = TRUE]
    /\ UNCHANGED <<game, gameLog, exact, flags, failures, exactBefore>>

\* scene_classification_ready with a colourful, edged frame.
SceneShown == pipe.seen.saved /\ pipe.seen.waited /\ game.at \in {"intro", "scene"}

\* The SELECT SAVE page: the slot is selected, confirmed and started; a page
\* that stays unchanged is an error.
SaveInput(p) ==
    /\ game.at = "save" /\ ~p.seen.saved
    /\ \E g \in Pressed :
         /\ game' = g
         /\ \/ pipe' = [p EXCEPT !.seen.saved = TRUE]
            \/ g.at = "save" /\ pipe' = Unwound(p)

\* Every other page gets Return, Escape, a held key or nothing.
PageInput(p) ==
    /\ game.at # "save" \/ p.seen.saved
    /\ game' \in Pressed
    /\ pipe' = p

Prompt ==
    /\ pipe.pc = "prompt" /\ ~Exited /\ fatal_kind = "none"
    /\ ~pipe.seen.scene /\ pipe.seen.prompts < MaxPrompts
    /\ LET p == [pipe EXCEPT !.seen.prompts = @ + 1]
       IN  \/ /\ SceneShown
              /\ pipe' = [p EXCEPT !.seen.scene = TRUE]
              /\ flags' \in {flags, flags \cup {"capture"}}
              /\ UNCHANGED game
           \/ (SaveInput(p) \/ PageInput(p)) /\ flags' \in {flags, flags \cup {"capture"}}
    /\ UNCHANGED <<gameLog, exact, failures, exactBefore>>

\* The wave_timeout loop ends: a fatal, the game's end, or the deadline.
WaveEnds ==
    /\ pipe.pc = "prompt"
    /\ pipe' = [pipe EXCEPT !.pc = "collect", !.seen.fatal = fatal_kind,
                            !.seen.exited = fatal_kind = "none" /\ Exited]
    /\ UNCHANGED <<game, gameLog, exact, flags, failures, exactBefore>>

\* The log is read again for the misses, and the wave is classified.
Classified(p) ==
    CASE p.seen.fatal # "none" -> [p EXCEPT !.pc = "stop"]
      [] p.seen.fatal = "none" /\ p.seen.exited ->
            [Finished(p, "GAME_EXITED") EXCEPT !.handle = FALSE]
      [] p.seen.fatal = "none" /\ ~p.seen.exited /\ ~p.seen.scene -> [p EXCEPT !.pc = "stop"]
      [] OTHER -> [Finished(p, "STABLE_SCENE") EXCEPT !.handle = FALSE]

Collect ==
    /\ pipe.pc = "collect"
    /\ pipe' = Classified([pipe EXCEPT !.seen.misses = gameLog.misses])
    /\ UNCHANGED <<game, gameLog, exact, flags, failures, exactBefore>>

\* stop_game: SIGKILL for the bound process, never for process group 0.
stop_game == IF pipe.pid # 0 /\ game.who = pipe.pid THEN NoGame ELSE game

\* What follows a fatal wave: report it, or convert what it missed.
AfterStop(p, auto) ==
    CASE p.seen.fatal = "none" -> Finished(p, "NO_GAMEPLAY_FRAME")
      [] p.seen.fatal # "none" /\ p.seen.misses = {} ->
            Finished(p, IF p.seen.fatal = "command_buffer" THEN "COMMAND_BUFFER_ERROR"
                        ELSE "FATAL_WITHOUT_CAPTURE")
      [] p.seen.fatal # "none" /\ p.seen.misses # {} /\ ~auto -> Finished(p, "EXACT_SHADER_MISS")
      [] OTHER -> [p EXCEPT !.pc = "convert"]

StopWave ==
    /\ pipe.pc = "stop"
    /\ \E auto \in BOOLEAN :
         LET p == AfterStop([pipe EXCEPT !.handle = FALSE], auto)
         IN  \/ game' = stop_game /\ pipe' = p /\ UNCHANGED failures
             \/ CallLost /\ pipe' = Unheard(p) /\ UNCHANGED game
    /\ UNCHANGED <<gameLog, exact, flags, exactBefore>>

(* Mutant: the captures of the wave are taken for converted already. *)
ToConvertNone == {}

\* The misses a wave still has to install.
ToConvert == pipe.seen.misses \ exact

\* One capture: a truncated one is an error, else it is copied, translated,
\* copied back and installed.  The last one ends the wave.
convert_and_install ==
    /\ pipe.pc = "convert"
    /\ \/ /\ ToConvert # {} /\ gameLog.partial
          /\ pipe' = Unwound(pipe)
          /\ UNCHANGED exact
       \/ /\ ToConvert # {} /\ ~gameLog.partial
          /\ \E s \in ToConvert : exact' = exact \cup {s}
          /\ UNCHANGED pipe
       \/ /\ ToConvert = {}
          /\ pipe' = [pipe EXCEPT !.pc = "wave"]
          /\ UNCHANGED exact
    /\ UNCHANGED <<game, gameLog, flags, failures, exactBefore>>

(* Mutant: the wave's finally clause forgets the game. *)
UnwindForgets ==
    /\ pipe.pc = "unwind"
    /\ pipe' = [pipe EXCEPT !.pc = "finally", !.handle = FALSE]
    /\ UNCHANGED <<game, gameLog, exact, flags, failures, exactBefore>>

\* The wave's finally: a game whose output is still open is stopped (again).
Unwind ==
    /\ pipe.pc = "unwind"
    /\ LET p == [pipe EXCEPT !.pc = "finally", !.handle = FALSE]
       IN  \/ /\ game' = IF pipe.handle THEN stop_game ELSE game
              /\ pipe' = p
              /\ UNCHANGED failures
           \/ pipe.handle /\ CallLost /\ pipe' = Unheard(p) /\ UNCHANGED game
    /\ UNCHANGED <<gameLog, exact, flags, exactBefore>>

(* Mutant: the capture trigger is left for the next game. *)
FlagsAfterTrigger == flags \cap {"capture"}

\* The outer finally removes the flags and the trigger.
FlagsAfter == {}

Finally ==
    /\ pipe.pc = "finally"
    /\ LET p == [pipe EXCEPT !.pc = "done"]
       IN  \/ flags' = FlagsAfter /\ pipe' = p /\ UNCHANGED failures
           \/ CallLost /\ pipe' = Unheard(p) /\ UNCHANGED flags
    /\ UNCHANGED <<game, gameLog, exact, exactBefore>>

PipeNext ==
    \/ GameAdvances \/ GameMisses \/ GameFails \/ GameExits \/ LinkDrops \/ RemoteFails
    \/ ArmFlags \/ BeginWave \/ wait_for_pid \/ FirstWindow \/ AcceptWindow \/ MenuDelay
    \/ GameplayDelay \/ Prompt \/ WaveEnds \/ Collect \/ StopWave \/ convert_and_install
    \/ Unwind \/ Finally

PipeSpec == PipeInit /\ [][PipeNext]_pipeVars

-----------------------------------------------------------------------------

(* A wave is only bound to the game it launched itself: a process left from  *)
(* an earlier wave or an earlier session is never driven or killed in its    *)
(* place (start_game ends them before wait_for_pid looks), unless the        *)
(* unchecked killall was lost.                                               *)
BoundIsOwnGame == pipe.pid # 0 /\ ~pipe.unheard => pipe.pid = pipe.wave

(* A wave that is followed by another has installed a conversion the wave    *)
(* before it lacked, whatever failed in between: the waves cannot repeat the *)
(* same miss until max_waves runs out.                                       *)
WavesProgress == pipe.pc = "wave" /\ pipe.wave > 0 => exact # exactBefore

(* A game the pipeline bound is left running only as the scene it reports:   *)
(* any other end, an exception after a failed call included, leaves it dead. *)
(* Two exceptions: a lost SSH channel is taken for the game's end, and the   *)
(* failure of stop_game's own kill is not noticed.                           *)
NoGameLeftBehind ==
    /\ pipe.pc = "done" /\ pipe.pid # 0 /\ game.who = pipe.pid
    /\ ~pipe.linkLost /\ ~pipe.unheard
    => pipe.result = "STABLE_SCENE"

(* However main ends after the flags were armed, no diagnostic flag and no   *)
(* render-target trigger stays on the device to slow down the next game,     *)
(* unless the final unchecked rm itself was lost.                            *)
DiagnosticsRemoved == pipe.pc = "done" /\ flags # {} => pipe.unheard

(* Each wave drives the game it launched and converts something new, and the *)
(* pipeline leaves neither a game nor a diagnostic flag behind, wherever one *)
(* of its calls fails or is lost.                                            *)
WavesSound == BoundIsOwnGame /\ WavesProgress /\ NoGameLeftBehind /\ DiagnosticsRemoved
=============================================================================
