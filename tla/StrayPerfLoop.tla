--------------------------- MODULE StrayPerfLoop ----------------------------
(* main() of misc/stray_perf_loop.py: one benchmark run of the game on the *)
(* device, driven over SSH.  The run suspends and replaces parts of the    *)
(* user's desktop, launches the game through Steam, scores it, and undoes  *)
(* all of it in one long finally block.  Any remote call may raise before  *)
(* or after it took effect, the user may press Control-C between any two   *)
(* steps, and Steam, the game and the device agent run on their own.       *)
(*                                                                         *)
(* dev is the device, run the locals of main, opt the parsed arguments;    *)
(* pc names the next step.                                                 *)
EXTENDS Integers, FiniteSets

CONSTANTS
    OptionSets,     \* the argument vectors of the instance
    Desktops,       \* the states in which a user left the device
    MaxSlips,       \* bound on the calls of the finally block that fail
    MaxSpawns       \* bound on the games Steam starts

VARIABLES pc, dev, run, opt, start, late, slips

vars == <<pc, dev, run, opt, start, late, slips>>

(* The arguments that change the control of main.                          *)
Switches == { "leave", "keepSteam", "keepCC", "coolRender", "coolGame",
              "applaunch", "reuse", "quiesce", "overlayEnv", "waitTrace",
              "progress", "retain", "targets", "direct", "probes",
              "skipWorkspace", "fairOnly" }
Modes == {"bench", "handoff", "preflight", "steam_preflight"}
Options == [mode : Modes, on : SUBSET Switches]
On(s) == s \in opt.on

(* The parser.error checks.                                                *)
ValidOptions(o) ==
    /\ "direct" \in o.on => "progress" \in o.on
    /\ "coolGame" \in o.on => "progress" \in o.on
    /\ "targets" \in o.on => "progress" \in o.on
    /\ o.mode = "handoff" =>
         /\ "leave" \in o.on
         /\ o.on \cap {"probes", "coolGame", "direct", "waitTrace", "retain",
                       "targets", "applaunch", "quiesce", "overlayEnv"} = {}
    /\ "applaunch" \in o.on =>
         /\ "reuse" \notin o.on
         /\ o.mode \notin {"preflight", "steam_preflight"}
    /\ ~({"leave", "quiesce"} \subseteq o.on)
    /\ ~({"keepSteam", "overlayEnv"} \subseteq o.on)

ASSUME OptionAssumption ==
    /\ OptionSets \subseteq Options
    /\ \A o \in OptionSets : ValidOptions(o)
ASSUME BoundAssumption == MaxSlips \in Nat /\ MaxSpawns \in Nat

(* Steam is none, the owner whose PIDs were captured, or another one.      *)
Device == [ game : {"none", "stale", "own"}, steam : {"none", "owner", "new"},
            launching : BOOLEAN, cc : BOOLEAN, render : BOOLEAN,
            stopped : SUBSET {"game", "steam", "render"},
            agentStopped : SUBSET {"game", "steam"},
            markers : SUBSET {"launch", "active", "target", "capture"},
            lease : BOOLEAN, env : BOOLEAN, appid : BOOLEAN,
            agent : {"none", "live", "dead"}, fatal : BOOLEAN,
            spawns : 0..MaxSpawns ]

Results == { "INCOMPLETE", "ERROR", "INTERRUPTED", "OK", "READY_FOR_USER",
             "STALL", "WALK_FATAL", "DRAG_FATAL", "GAME_EXITED", "GAME_FATAL",
             "GAME_FATAL_LATE", "NOT_SCORED", "CLEANUP_INCOMPLETE",
             "THERMAL_PRESSURE" }

(* What wait_for_launch_outcome returns.                                   *)
Outcomes == { "none", "started", "timeout", "cloud_sync_stalled",
              "cloud_sync_failed", "kicking_other_session", "app_error_49",
              "failed" }

(* The locals the finally block reads.                                     *)
Locals == [ pid : BOOLEAN, seenFatal : BOOLEAN, started : BOOLEAN, env : BOOLEAN,
            mine : SUBSET {"launch", "active"}, retained : BOOLEAN,
            restoreCC : BOOLEAN, cooled : BOOLEAN, cooledBack : BOOLEAN,
            inventory : BOOLEAN, quiesced : BOOLEAN, agent : BOOLEAN,
            signals : BOOLEAN, lease : BOOLEAN, armed : BOOLEAN,
            gameHeld : BOOLEAN, renderHeld : BOOLEAN, visual : BOOLEAN,
            byApplaunch : BOOLEAN, outcome : Outcomes,
            thermalValid : BOOLEAN, scored : {"none", "yes", "no"},
            confirmed : BOOLEAN, result : Results ]

NoLocals == [ pid |-> FALSE, seenFatal |-> FALSE, started |-> FALSE, env |-> FALSE, mine |-> {},
              retained |-> FALSE, restoreCC |-> FALSE, cooled |-> FALSE,
              cooledBack |-> FALSE, inventory |-> FALSE, quiesced |-> FALSE,
              agent |-> FALSE, signals |-> FALSE, lease |-> FALSE,
              armed |-> FALSE, gameHeld |-> FALSE, renderHeld |-> FALSE,
              visual |-> FALSE, byApplaunch |-> FALSE, outcome |-> "none",
              thermalValid |-> TRUE, scored |-> "none",
              confirmed |-> FALSE, result |-> "INCOMPLETE" ]

(* A desktop as a user may have left it: what runs needs the render path.  *)
InitialDevices ==
    { d \in [ game : {"none", "stale"}, steam : {"none", "owner"},
              cc : BOOLEAN, render : BOOLEAN ] :
        d.game = "stale" \/ d.steam = "owner" => d.render }

ASSUME DesktopAssumption == Desktops \subseteq InitialDevices

Init ==
    /\ opt \in OptionSets
    /\ start \in Desktops
    /\ dev = [ game |-> start.game, steam |-> start.steam,
               launching |-> FALSE, cc |-> start.cc, render |-> start.render,
               stopped |-> {}, agentStopped |-> {}, markers |-> {},
               lease |-> FALSE, env |-> FALSE, appid |-> FALSE,
               agent |-> "none", fatal |-> FALSE, spawns |-> 0 ]
    /\ run = NoLocals
    /\ pc = "streams"
    /\ late = {}
    /\ slips = 0

-----------------------------------------------------------------------------
(* Remote calls.  A call that turns the device d into e returns, or raises *)
(* before or after its effect: subprocess.run and select give up on an     *)
(* answer, not on the command.                                             *)
Attempt(d, e) == { [ok |-> TRUE, dev |-> e], [ok |-> FALSE, dev |-> d],
                   [ok |-> FALSE, dev |-> e] }
Fails(d) == [ok |-> FALSE, dev |-> d]

Continue(r, p) == run' = r /\ pc' = p

(* except Exception gives a result that is still INCOMPLETE its name; a    *)
(* Control-C passes by it.  Both enter the finally block.                  *)
Raised(r) == { r, [r EXCEPT !.result = IF @ = "INCOMPLETE" THEN "ERROR" ELSE @] }
Throw(r) == \E q \in Raised(r) : Continue(q, "f_render")

(* signal_exact_pids over the Steam PIDs of the process table.             *)
signal_exact_pids(d, sig) ==
    Attempt(d, IF d.steam = "none" THEN d
               ELSE [d EXCEPT !.stopped = IF sig = "STOP"
                                          THEN @ \cup {"steam"}
                                          ELSE @ \ {"steam"}])

(* signal_exact_render_path: refuses when the pair is not the captured one *)
(* and signals both otherwise.                                             *)
signal_exact_render_path(d, sig) ==
    Attempt(d, [d EXCEPT !.stopped = IF sig = "STOP" THEN @ \cup {"render"}
                                     ELSE @ \ {"render"}])

(* suspend_control_center_for_game: the unload may be followed by a        *)
(* process table that fails or still shows the agent.                      *)
suspend_control_center_for_game(d) ==
    IF d.cc THEN Attempt(d, [d EXCEPT !.cc = FALSE])
    ELSE {[ok |-> TRUE, dev |-> d], Fails(d)}

restore_control_center_after_game(d) == Attempt(d, [d EXCEPT !.cc = TRUE])

(* configure_steam_overlay_test_environment: unset all, set the requested, *)
(* read back.                                                              *)
configure_steam_overlay_test_environment(d) ==
    Attempt(d, [d EXCEPT !.env = On("overlayEnv")])

clear_steam_overlay_test_environment(d) == Attempt(d, [d EXCEPT !.env = FALSE])

(* stop_steam_ui: unload, TERM, KILL; a launch request dies with Steam.    *)
SteamGone(d) == [d EXCEPT !.steam = "none", !.launching = FALSE,
                          !.stopped = @ \ {"steam"},
                          !.agentStopped = @ \ {"steam"}]
stop_steam_ui(d) == Attempt(d, SteamGone(d))

(* ensure_steam_ui: at most two job attempts; a Steam without a window is  *)
(* stopped and loaded again.  The AppID marker is published before a load  *)
(* and consumed by the Steam that the load starts.                         *)
SteamLoaded(d) ==
    [d EXCEPT !.steam = "new", !.appid = FALSE,
              !.launching = @ \/ On("applaunch")]
ensure_steam_ui(d) ==
    LET fresh == SteamLoaded(SteamGone(d))
        first == IF d.steam = "none" THEN SteamLoaded(d) ELSE d
        unconsumed == [SteamGone(d) EXCEPT !.appid = On("applaunch")]
    IN  { [ok |-> TRUE, dev |-> first], [ok |-> TRUE, dev |-> fresh],
          Fails(d), Fails(first), Fails(fresh), Fails(unconsumed) }

(* request_running_steam_applaunch.                                        *)
request_running_steam_applaunch(d) == Attempt(d, [d EXCEPT !.launching = TRUE])

(* terminate_exact_game: no game, a confirmed exit, or a game that the     *)
(* probes could not confirm dead.                                          *)
NoGame(d) == [d EXCEPT !.game = "none", !.stopped = @ \ {"game"},
                       !.agentStopped = @ \ {"game"}]
terminate_exact_game(d) ==
    { [ok |-> TRUE, dev |-> NoGame(d), confirmed |-> TRUE],
      [ok |-> TRUE, dev |-> d, confirmed |-> d.game = "none"],
      [ok |-> FALSE, dev |-> d, confirmed |-> FALSE],
      [ok |-> FALSE, dev |-> NoGame(d), confirmed |-> FALSE] }

(* The same through the prearmed agent, which a lost channel makes raise.  *)
terminate_exact_game_with_agent(d) ==
    IF d.agent = "live" THEN terminate_exact_game(d)
    ELSE {[ok |-> FALSE, dev |-> d, confirmed |-> FALSE]}

-----------------------------------------------------------------------------
(* The input agent: a persistent process on the device.                    *)

AgentCall(d, e) == IF d.agent = "live" THEN Attempt(d, e) ELSE {Fails(d)}

(* acquire_gui_lease succeeds again when the agent already holds it.       *)
acquire_gui_lease(d) == AgentCall(d, [d EXCEPT !.lease = TRUE])
release_gui_lease(d) == AgentCall(d, [d EXCEPT !.lease = FALSE])

set_diagnostic_markers(d, ms, present) ==
    AgentCall(d, [d EXCEPT !.markers = IF present THEN @ \cup ms
                                       ELSE @ \ ms])

(* signal and signal_exact of the agent remember what they stopped.        *)
AgentSignal(d, who, sig) ==
    AgentCall(d, IF sig = "STOP"
                 THEN [d EXCEPT !.stopped = @ \cup {who},
                                !.agentStopped = @ \cup {who}]
                 ELSE [d EXCEPT !.stopped = @ \ {who},
                                !.agentStopped = @ \ {who}])

(* The finally block of the agent: resume what it stopped, drop the lease. *)
AgentGone(d, state) ==
    [d EXCEPT !.agent = state, !.stopped = @ \ d.agentStopped,
              !.agentStopped = {}, !.lease = FALSE]

(* quiesce_known_steam_ui: SIGSTOP the captured steam_osx, retire the CEF  *)
(* helpers.  The captured PIDs of a replaced Steam are gone and the call   *)
(* refuses.                                                                *)
quiesce_known_steam_ui(d) ==
    IF d.steam = "owner" THEN AgentSignal(d, "steam", "STOP") ELSE {Fails(d)}

(* arm_game_launch_observers: two log followers, the input agent and,      *)
(* where a probe needs it, the sample agent, whose failure leaves the      *)
(* agents of the raised call to the exit of the process.                   *)
arm_game_launch_observers(d) ==
    Attempt(d, [d EXCEPT !.agent = "live"])

(* thermal_checkpoint: an observation may invalidate the score; before the *)
(* game exists the functional-only mode gives up on an escalation.         *)
thermal_checkpoint(r) ==
    LET pressed == [r EXCEPT !.thermalValid = FALSE]
    IN  { [ok |-> TRUE, run |-> r], [ok |-> TRUE, run |-> pressed],
          [ok |-> FALSE, run |-> r] }
        \cup IF On("fairOnly") /\ ~r.pid THEN {[ok |-> FALSE, run |-> pressed]}
             ELSE {}

-----------------------------------------------------------------------------
(* The body of main, in program order.                                     *)

(* Thermal stream, legacy watchdog, and the choice of the mode.            *)
ArmStreams ==
    /\ pc = "streams"
    /\ \/ Continue(run, CASE opt.mode = "preflight" -> "preflight"
                          [] opt.mode = "steam_preflight" -> "suspend_cc"
                          [] OTHER -> "stale_game")
       \/ Throw(run)
    /\ UNCHANGED dev

(* --preflight-only: the workspace and an idle desktop, then return.       *)
PreflightOnly ==
    /\ pc = "preflight"
    /\ \E t \in thermal_checkpoint(run) :
         \/ Throw(t.run)
         \/ /\ t.ok /\ ~On("skipWorkspace")
            /\ Continue([t.run EXCEPT !.result = "OK"], "f_render")
    /\ dev' = [dev EXCEPT !.render = @ \/ ~On("skipWorkspace")]

(* Mutant: every mode retires a game it finds.                             *)
RetireAlways == FALSE
RefusesGame == opt.mode = "handoff"

(* A game of an earlier run is retired before the cooldown; a handoff      *)
(* refuses instead.                                                        *)
RetireStaleGame ==
    /\ pc = "stale_game"
    /\ IF RefusesGame
       THEN /\ UNCHANGED dev
            /\ \/ dev.game = "none" /\ Continue(run, "suspend_cc")
               \/ Throw(run)
       ELSE \E o \in terminate_exact_game(dev) :
              /\ dev' = o.dev
              /\ IF o.ok /\ o.dev.game = "none" THEN Continue(run, "suspend_cc")
                 ELSE Throw(run)

SuspendControlCenter ==
    /\ pc = "suspend_cc"
    /\ LET next == IF opt.mode = "steam_preflight" THEN "sp_cool"
                   ELSE "suspend_steam"
       IN  IF On("keepCC")
           THEN Continue(run, next) /\ UNCHANGED dev
           ELSE \E o \in suspend_control_center_for_game(dev) :
                  /\ dev' = o.dev
                  /\ IF o.ok THEN Continue([run EXCEPT !.restoreCC = dev.cc], next)
                     ELSE Throw(run)

(* --steam-preflight-only: cool, workspace, Steam hidden and idle.         *)
SteamPreflightStart ==
    /\ pc = "sp_cool"
    /\ \E t \in thermal_checkpoint(run), o \in ensure_steam_ui(dev) :
         LET r == [t.run EXCEPT !.started = dev.steam = "none"]
         IN  \/ Throw(run) /\ UNCHANGED dev
             \/ /\ dev' = [o.dev EXCEPT !.render = @ \/ ~On("skipWorkspace")]
                /\ IF t.ok /\ o.ok THEN Continue(r, "suspend_steam") ELSE Throw(r)

(* The retained Steam is resumed before it is returned to the caller.      *)
SteamPreflightReturn ==
    /\ pc = "sp_return"
    /\ \E o \in signal_exact_pids(dev, "CONT") :
         \/ Throw(run) /\ UNCHANGED dev
         \/ /\ dev' = o.dev
            /\ IF o.ok THEN Continue([run EXCEPT !.cooledBack = TRUE,
                                         !.retained = TRUE, !.result = "OK"],
                                     "f_render")
               ELSE Throw(run)

(* Freeze the Steam UI while the device cools.  The set is assigned before *)
(* the signal is sent.                                                     *)
SuspendSteamForCooling ==
    /\ pc = "suspend_steam"
    /\ LET next == IF opt.mode = "steam_preflight" THEN "sp_return"
                   ELSE "suspend_render"
       IN  IF On("overlayEnv") /\ opt.mode # "steam_preflight"
           THEN Continue(run, next) /\ UNCHANGED dev
           ELSE \/ Throw(run) /\ UNCHANGED dev
                \/ \E o \in signal_exact_pids(dev, "STOP") :
                     LET r == [run EXCEPT !.cooled = dev.steam # "none"]
                     IN  /\ dev' = o.dev
                         /\ IF o.ok THEN Continue(r, next) ELSE Throw(r)

(* --cool-render-path: the flag is set when the STOP has returned.         *)
SuspendRenderPath ==
    /\ pc = "suspend_render"
    /\ IF ~On("coolRender") \/ ~dev.render
       THEN Continue(run, "cooldown") /\ UNCHANGED dev
       ELSE \/ Throw(run) /\ UNCHANGED dev
            \/ \E o \in signal_exact_render_path(dev, "STOP") :
                 /\ dev' = o.dev
                 /\ IF o.ok THEN Continue([run EXCEPT !.renderHeld = TRUE],
                                         "cooldown")
                    ELSE Throw(run)

(* wait_for_cool_device under a finally that resumes the render path; the  *)
(* wait ends admitted, timed out or interrupted.                           *)
InitialCooldown ==
    /\ pc = "cooldown"
    /\ \E verdict \in {"INCOMPLETE", "ERROR", "INTERRUPTED"} :
         LET waited == [run EXCEPT !.result = verdict]
             leave(r) == IF verdict = "INCOMPLETE" THEN Continue(r, "environment")
                         ELSE Continue(r, "f_render")
         IN  IF ~run.renderHeld
             THEN leave(waited) /\ UNCHANGED dev
             ELSE \E o \in signal_exact_render_path(dev, "CONT") :
                    /\ dev' = o.dev
                    /\ \/ o.ok /\ leave([waited EXCEPT !.renderHeld = FALSE])
                       \/ o.ok /\ Throw([run EXCEPT !.renderHeld = FALSE])
                       \/ ~o.ok /\ Throw(run)

(* Diagnostic environments are inherited at start: an existing Steam is    *)
(* stopped first.                                                          *)
PrepareEnvironment ==
    /\ pc = "environment"
    /\ \/ Throw(run) /\ UNCHANGED dev
       \/ \E s \in IF On("overlayEnv") THEN stop_steam_ui(dev)
                    ELSE {[ok |-> TRUE, dev |-> dev]} :
          \/ /\ ~s.ok
             /\ dev' = s.dev
             /\ Throw(run)
          \/ /\ s.ok
             /\ \E o \in configure_steam_overlay_test_environment(s.dev) :
                  /\ dev' = o.dev
                  /\ IF o.ok THEN Continue([run EXCEPT !.env = TRUE], "workspace")
                     ELSE Throw(run)

(* Workspace, ControlCenter once more (the workspace may have started it), *)
(* idle desktop, thermal recheck.                                          *)
WorkspaceGate ==
    /\ pc = "workspace"
    /\ \E t \in thermal_checkpoint(run), restarted \in BOOLEAN :
         LET up == IF On("skipWorkspace") THEN dev
                   ELSE [dev EXCEPT !.render = TRUE, !.cc = @ \/ restarted]
         IN  \/ /\ dev' = up
                /\ Throw(t.run)
             \/ /\ t.ok
                /\ IF On("keepCC")
                   THEN Continue(t.run, "settings") /\ dev' = up
                   ELSE \E o \in suspend_control_center_for_game(up) :
                          /\ dev' = o.dev
                          /\ IF o.ok
                             THEN Continue([t.run EXCEPT !.restoreCC = @ \/ up.cc],
                                           "settings")
                             ELSE Throw(t.run)

(* Quality profile and engine settings of the game.                        *)
ApplySettings ==
    /\ pc = "settings"
    /\ Continue(run, "markers") \/ Throw(run)
    /\ UNCHANGED dev

(* The list of markers of this run is fixed, and every known marker is     *)
(* removed before one of them is published.                                *)
ChooseMarkers ==
    /\ pc = "markers"
    /\ LET r == [run EXCEPT !.mine = IF opt.mode = "handoff" THEN {}
                                     ELSE {"launch"}]
       IN  \/ Throw(r) /\ UNCHANGED dev
           \/ /\ dev' = [dev EXCEPT !.markers = {}]
              /\ Continue(r, "resume_steam") \/ Throw(r)

ResumeSteam ==
    /\ pc = "resume_steam"
    /\ \E o \in IF run.cooled THEN signal_exact_pids(dev, "CONT")
                ELSE {[ok |-> TRUE, dev |-> dev]} :
         LET r == [run EXCEPT !.cooledBack = run.cooled]
         IN  /\ dev' = o.dev
             /\ \/ Throw(IF o.ok THEN r ELSE run)
                \/ /\ o.ok
                   /\ ~(On("applaunch") /\ dev.steam # "none")
                   /\ Continue([r EXCEPT !.started = dev.steam = "none"],
                               IF On("applaunch") THEN "early_observers"
                               ELSE "ensure_steam")

(* Observers, lease and markers are armed before Steam when Steam itself   *)
(* starts the game, otherwise after it.                                    *)
ArmObservers ==
    /\ pc \in {"early_observers", "observers"}
    /\ \E o \in arm_game_launch_observers(dev) :
         /\ dev' = o.dev
         /\ IF o.ok THEN Continue([run EXCEPT !.agent = TRUE],
                                 IF pc = "observers" THEN "select" ELSE "lease")
            ELSE Throw(run)

AcquireLease ==
    /\ pc = "lease"
    /\ IF run.lease
       THEN Continue(run, "arm") /\ UNCHANGED dev
       ELSE \E o \in acquire_gui_lease(dev) :
              /\ dev' = o.dev
              /\ IF o.ok THEN Continue([run EXCEPT !.lease = TRUE], "arm")
                 ELSE Throw(run)

PublishMarkers ==
    /\ pc = "arm"
    /\ LET next == IF run.inventory THEN "play" ELSE "ensure_steam"
       IN  IF run.mine = {} \/ run.armed
           THEN Continue(run, next) /\ UNCHANGED dev
           ELSE \E o \in set_diagnostic_markers(dev, run.mine, TRUE) :
                  /\ dev' = o.dev
                  /\ IF o.ok THEN Continue([run EXCEPT !.armed = TRUE], next)
                     ELSE Throw(run)

(* Steam's window and the readiness of its library.                        *)
EnsureSteam ==
    /\ pc = "ensure_steam"
    /\ \E t \in thermal_checkpoint(run), o \in ensure_steam_ui(dev) :
         /\ dev' = o.dev
         /\ \/ Throw(t.run)
            \/ /\ t.ok /\ o.ok
               /\ Continue(t.run, IF run.agent THEN "select" ELSE "observers")

(* Selecting the game in the library; a failure falls back to the running  *)
(* client's LaunchApp, or once to a search when a selection was reused.    *)
SelectGame ==
    /\ pc = "select"
    /\ \E t \in thermal_checkpoint(run) :
         \/ Throw(t.run)
         \/ t.ok /\ Continue([t.run EXCEPT !.byApplaunch = On("applaunch")],
                             "identities")
         \/ /\ ~On("applaunch") /\ ~On("reuse") /\ opt.mode # "handoff"
            /\ Continue([t.run EXCEPT !.byApplaunch = TRUE], "identities")
    /\ UNCHANGED dev

(* A handoff ends here; otherwise the Steam PIDs are captured and the      *)
(* input agent becomes the signal agent.                                   *)
CaptureIdentities ==
    /\ pc = "identities"
    /\ IF opt.mode = "handoff"
       THEN /\ Continue([run EXCEPT !.result = "READY_FOR_USER"], "f_render")
            /\ UNCHANGED dev
       ELSE \/ Throw(run) /\ UNCHANGED dev
            \/ /\ dev' = [dev EXCEPT !.steam = IF @ = "none" THEN @ ELSE "owner"]
               /\ Continue([run EXCEPT !.inventory = TRUE,
                                       !.signals = ~On("leave") \/ On("quiesce")],
                           "lease")

(* Steam's PLAY, or LaunchApp by the launchd job or the running client.    *)
RequestLaunch ==
    /\ pc = "play"
    /\ IF On("applaunch")
       THEN Continue(run, "await") /\ UNCHANGED dev
       ELSE \E o \in request_running_steam_applaunch(dev) :
              /\ dev' = o.dev
              /\ IF o.ok THEN Continue(run, "await") ELSE Throw(run)

(* wait_for_launch_outcome: started needs the PID and Steam's Completed;   *)
(* any other verdict may come with or without a PID.                       *)
wait_for_launch_outcome(d, r, next) ==
    \E o \in Outcomes \ {"none"}, p \in BOOLEAN :
        /\ p => d.game = "own"
        /\ Continue([r EXCEPT !.outcome = o, !.pid = p], next)

AwaitLaunch ==
    /\ pc = "await"
    /\ \E t \in thermal_checkpoint(run) :
         \/ Throw(t.run)
         \/ t.ok /\ wait_for_launch_outcome(dev, t.run, "missing_task")
    /\ UNCHANGED dev

(* Replaces the Steam owner once and waits for the same launch.            *)
ReplaceOwner(next) ==
    \E s \in stop_steam_ui(dev) :
      IF ~s.ok THEN dev' = s.dev /\ Throw(run)
      ELSE \E o \in ensure_steam_ui(s.dev) :
             /\ dev' = o.dev
             /\ \/ Throw(run)
                \/ o.ok /\ wait_for_launch_outcome(o.dev, run, next)

(* A launchd-owned Steam that never created a LaunchApp task.              *)
RecoverMissingTask ==
    /\ pc = "missing_task"
    /\ \/ Continue(run, "stalled") /\ UNCHANGED dev
       \/ On("applaunch") /\ run.outcome = "timeout" /\ ReplaceOwner("stalled")

RecoverStalledCloud ==
    /\ pc = "stalled"
    /\ IF On("applaunch") /\ run.outcome = "cloud_sync_stalled"
       THEN ReplaceOwner("cloud")
       ELSE Continue(run, "cloud") /\ UNCHANGED dev

(* A dialog of Steam is answered and the same launch is awaited.           *)
AnswerDialog(next) ==
    /\ UNCHANGED dev
    /\ \/ Throw(run)
       \/ wait_for_launch_outcome(dev, run, next)

ConfirmCloudWarning ==
    /\ pc = "cloud"
    /\ IF run.outcome = "cloud_sync_failed" THEN AnswerDialog("kicking")
       ELSE Continue(run, "kicking") /\ UNCHANGED dev

ConfirmSessionHandoff ==
    /\ pc = "kicking"
    /\ IF run.outcome = "kicking_other_session" THEN AnswerDialog("error_49")
       ELSE Continue(run, "error_49") /\ UNCHANGED dev

RetryAfterAppError49 ==
    /\ pc = "error_49"
    /\ IF ~On("applaunch") /\ run.outcome = "app_error_49"
       THEN \E o \in request_running_steam_applaunch(dev) :
              /\ dev' = o.dev
              /\ \/ Throw(run)
                 \/ o.ok /\ wait_for_launch_outcome(o.dev, run, "launched")
       ELSE Continue(run, "launched") /\ UNCHANGED dev

(* Without a started game the run fails; the PID that a failed outcome     *)
(* carried stays assigned.                                                 *)
CheckLaunched ==
    /\ pc = "launched"
    /\ UNCHANGED dev
    /\ LET r == [run EXCEPT !.outcome = "none"]
       IN  IF run.outcome = "started" /\ run.pid THEN Continue(r, "started")
           ELSE Throw(r)

(* Hide Steam, trace and overlay witnesses, the first window.              *)
GameStarted ==
    /\ pc = "started"
    /\ dev' = dev
    /\ Continue(run, IF On("retain") THEN "settle" ELSE "retire") \/ Throw(run)

(* The launch markers are retired before the lease is released.            *)
RetireMarkers ==
    /\ pc = "retire"
    /\ \E o \in set_diagnostic_markers(dev, run.mine, FALSE) :
         /\ dev' = o.dev
         /\ IF o.ok THEN Continue([run EXCEPT !.armed = FALSE], "release")
            ELSE Throw(run)

ReleaseLease ==
    /\ pc = "release"
    /\ \E o \in release_gui_lease(dev) :
         /\ dev' = o.dev
         /\ IF o.ok THEN Continue([run EXCEPT !.lease = FALSE], "settle")
            ELSE Throw(run)

(* Host controls hidden, menu delay, window or presents refreshed.         *)
Settle ==
    /\ pc = "settle"
    /\ \E t \in thermal_checkpoint(run) :
         \/ Throw(t.run)
         \/ t.ok /\ Continue(t.run, "progress")
    /\ UNCHANGED dev

(* The visual state machine reaches gameplay or its deadline; it raises on *)
(* a fatal line and on a game its agent reports missing.                   *)
ProgressToGameplay ==
    /\ pc = "progress"
    /\ \E t \in thermal_checkpoint(run), reached \in BOOLEAN :
         \/ Throw(t.run)
         \/ /\ t.ok
            /\ ~(On("progress") /\ dev.fatal)
            /\ Continue([t.run EXCEPT !.visual = reached /\ On("progress")],
                        "quiesce")
    /\ UNCHANGED dev

(* The PIDs to resume are assigned before the call that stops them.        *)
QuiesceSteam ==
    /\ pc = "quiesce"
    /\ IF ~On("quiesce") THEN Continue(run, "direct") /\ UNCHANGED dev
       ELSE \/ Throw(run) /\ UNCHANGED dev
            \/ /\ On("progress") => run.visual
               /\ \E o \in quiesce_known_steam_ui(dev) :
                    LET r == [run EXCEPT !.quiesced = TRUE]
                    IN  /\ dev' = o.dev
                        /\ IF o.ok THEN Continue(r, "direct") ELSE Throw(r)

(* --direct-drawable-after-gameplay: the marker is listed for the cleanup, *)
(* then armed under a lease that is released whatever arming did.          *)
ActivateDirectDrawable ==
    /\ pc = "direct"
    /\ IF ~On("direct") THEN Continue(run, "cool_game") /\ UNCHANGED dev
       ELSE LET r == [run EXCEPT !.mine = @ \cup {"active"}]
            IN  \/ ~run.visual /\ Throw(run) /\ UNCHANGED dev
                \/ /\ run.visual
                   /\ \E a \in acquire_gui_lease(dev) :
                        IF ~a.ok THEN dev' = a.dev /\ Throw(r)
                        ELSE \E m \in set_diagnostic_markers(a.dev, {"active"}, TRUE) :
                               \E b \in release_gui_lease(m.dev) :
                                 /\ dev' = b.dev
                                 /\ IF m.ok /\ b.ok THEN Continue(r, "cool_game")
                                    ELSE Throw(r)

(* --cool-game-before-sample: SIGSTOP by the agent, the flag after it.     *)
CoolGame ==
    /\ pc = "cool_game"
    /\ IF ~On("coolGame") THEN Continue(run, "gate") /\ UNCHANGED dev
       ELSE \/ Throw(run) /\ UNCHANGED dev
            \/ /\ run.visual /\ run.signals
               /\ \E o \in AgentSignal(dev, "game", "STOP") :
                    /\ dev' = o.dev
                    /\ IF o.ok /\ dev.game = "own"
                       THEN Continue([run EXCEPT !.gameHeld = TRUE], "cool_wait")
                       ELSE Throw(run)

(* The body of the try: the render path stopped too, then the wait.        *)
CoolGameWait ==
    /\ pc = "cool_wait"
    /\ LET verdicts == {"INCOMPLETE", "ERROR", "INTERRUPTED"}
           ended(r, vs) == \E v \in vs :
                             Continue([r EXCEPT !.result = v], "cool_render")
       IN  IF ~On("coolRender") THEN ended(run, verdicts) /\ UNCHANGED dev
           ELSE \/ ended(run, {"ERROR"}) /\ UNCHANGED dev
                \/ /\ dev.render
                   /\ \E o \in signal_exact_render_path(dev, "STOP") :
                        /\ dev' = o.dev
                        /\ IF o.ok
                           THEN ended([run EXCEPT !.renderHeld = TRUE], verdicts)
                           ELSE ended(run, {"ERROR"})

(* Its finally: the render path first, and the game only when that has     *)
(* come back.                                                              *)
CoolGameRenderResume ==
    /\ pc = "cool_render"
    /\ IF ~run.renderHeld THEN Continue(run, "cool_resume") /\ UNCHANGED dev
       ELSE \E o \in signal_exact_render_path(dev, "CONT") :
              LET r == [run EXCEPT !.renderHeld = ~o.ok]
              IN  /\ dev' = o.dev
                  /\ Throw(r) \/ (o.ok /\ Continue(r, "cool_resume"))

CoolGameResume ==
    /\ pc = "cool_resume"
    /\ \E o \in AgentSignal(dev, "game", "CONT") :
         LET r == [run EXCEPT !.gameHeld = ~o.ok]
         IN  /\ dev' = o.dev
             /\ \/ Throw(r)
                \/ o.ok /\ run.result = "INCOMPLETE" /\ Continue(r, "gate")

(* RFB returns; a probe needs the gameplay visual.                         *)
ProbeGate ==
    /\ pc = "gate"
    /\ UNCHANGED dev
    /\ \E t \in thermal_checkpoint(run) :
         IF On("progress") /\ On("probes") /\ ~run.visual
         THEN Throw([t.run EXCEPT !.result = "STALL"])
         ELSE Throw(t.run) \/ (t.ok /\ Continue(t.run, "hover"))

(* A probe sends one input and compares the presents around it: verdicts   *)
(* are the results it may raise with, next is the step after a pass.       *)
Probe(here, next, verdicts) ==
    /\ pc = here
    /\ UNCHANGED dev
    /\ IF ~On("probes") THEN Continue(run, next)
       ELSE \E t \in thermal_checkpoint(run) :
              \/ Throw(t.run)
              \/ t.ok /\ run.visual /\ Continue(t.run, next)
              \/ \E v \in verdicts :
                   /\ v = "STALL" \/ dev.fatal
                   /\ Throw([t.run EXCEPT !.result = v,
                                          !.seenFatal = @ \/ v # "STALL"])

HoverProbe == Probe("hover", "host_hover", {"STALL"})
HostHoverProbe == Probe("host_hover", "drag", {"STALL"})
LongDragProbe == Probe("drag", "walk", {"STALL", "DRAG_FATAL"})
WalkProbe == Probe("walk", "targets", {"STALL", "WALK_FATAL"})

(* --capture-render-targets: the marker is retired iff arming returned.    *)
CaptureTargets ==
    /\ pc = "targets"
    /\ IF ~On("targets") THEN Continue(run, "samples") /\ UNCHANGED dev
       ELSE IF ~run.visual THEN Throw(run) /\ UNCHANGED dev
       ELSE \E a \in set_diagnostic_markers(dev, {"target"}, TRUE) :
              /\ dev' = a.dev
              /\ IF a.ok THEN Continue(run, "targets_retire") ELSE Throw(run)

RetireTargets ==
    /\ pc = "targets_retire"
    /\ \E o \in set_diagnostic_markers(dev, {"target"}, FALSE) :
         /\ dev' = o.dev
         /\ Throw(run) \/ (o.ok /\ Continue(run, "samples"))

(* Process samples and warm-up.                                            *)
TakeProcessSamples ==
    /\ pc = "samples"
    /\ \E t \in thermal_checkpoint(run) :
         Throw(t.run) \/ (t.ok /\ Continue(t.run, "pre_sample"))
    /\ UNCHANGED dev

(* The thermal reading that opens the scored interval; nominal says that   *)
(* its state was nominal.                                                  *)
PreSample ==
    /\ pc = "pre_sample"
    /\ UNCHANGED dev
    /\ \E safe, nominal \in BOOLEAN :
         /\ nominal => safe
         /\ LET r == [run EXCEPT !.thermalValid = @ /\ safe,
                                 !.scored = IF nominal THEN "yes" ELSE "no"]
            IN  Continue(r, "capture") \/ Throw(r)

(* --wait-trace: the capture marker is published just before the loop.     *)
StartTraceCapture ==
    /\ pc = "capture"
    /\ IF ~On("waitTrace") THEN Continue(run, "sample") /\ UNCHANGED dev
       ELSE \E o \in Attempt(dev, [dev EXCEPT !.markers = @ \cup {"capture"}]) :
              /\ dev' = o.dev
              /\ IF o.ok THEN Continue(run, "sample") ELSE Throw(run)

(* One round of the sampling loop, or its end with the finally's rm.       *)
SampleLoop ==
    /\ pc = "sample"
    /\ \E safe, nominal \in BOOLEAN :
         LET r == [run EXCEPT !.thermalValid = @ /\ safe,
                              !.scored = IF nominal THEN @ ELSE "no"]
             rm == IF On("waitTrace")
                   THEN {o.dev : o \in Attempt(dev, [dev EXCEPT !.markers =
                                                            @ \ {"capture"}])}
                   ELSE {dev}
         IN  /\ nominal => safe
             /\ \/ Continue(r, "sample") /\ UNCHANGED dev
                \/ dev' \in rm /\ Continue(r, "evaluate")
                \/ /\ dev.game # "own"
                   /\ dev' \in rm
                   /\ Continue([r EXCEPT !.result = "GAME_EXITED"], "evaluate")
                \/ /\ dev.fatal
                   /\ dev' \in rm
                   /\ Continue([r EXCEPT !.result = "GAME_FATAL",
                                         !.seenFatal = TRUE], "evaluate")
                \/ dev' \in rm /\ Throw(run)

(* Frame rate, profile and window evidence.                                *)
Evaluate ==
    /\ pc = "evaluate"
    /\ UNCHANGED dev
    /\ Continue(run, "classify") \/ Throw(run)

(* A complete run is OK only in the requested profile, with presents and,  *)
(* where gameplay was asked for, in gameplay.                              *)
Classify ==
    /\ pc = "classify"
    /\ UNCHANGED dev
    /\ \E r \in {"OK", "NOT_SCORED"} :
         /\ r = "OK" => (On("progress") => run.visual)
         /\ Continue([run EXCEPT !.result = IF @ = "INCOMPLETE" THEN r ELSE @],
                     "f_render")

-----------------------------------------------------------------------------
(* The finally block.  slips counts the calls of it that raised.           *)

Slip(o) == slips' = slips + (IF o.ok THEN 0 ELSE 1) /\ slips' <= MaxSlips
Calm == UNCHANGED slips
NoCall == {[ok |-> TRUE, dev |-> dev]}

ResumeRenderPath ==
    /\ pc = "f_render"
    /\ \E o \in IF run.renderHeld THEN signal_exact_render_path(dev, "CONT")
                ELSE NoCall :
         /\ dev' = o.dev
         /\ Slip(o)
         /\ Continue([run EXCEPT !.renderHeld = @ /\ ~o.ok], "f_game")

ResumeGame ==
    /\ pc = "f_game"
    /\ \E o \in IF run.gameHeld /\ run.signals /\ run.pid
                THEN AgentSignal(dev, "game", "CONT") ELSE NoCall :
         /\ dev' = o.dev
         /\ Slip(o)
         /\ Continue([run EXCEPT !.gameHeld = @ /\ ~o.ok], "f_steam")

(* Mutant: the emergency resume is missing.                                *)
SkipCooledSteam ==
    /\ pc = "f_steam"
    /\ Continue(run, "f_markers")
    /\ Calm /\ UNCHANGED dev

ResumeCooledSteam ==
    /\ pc = "f_steam"
    /\ \E o \in IF run.cooled /\ ~run.cooledBack
                THEN signal_exact_pids(dev, "CONT") ELSE NoCall :
         /\ dev' = o.dev
         /\ Slip(o)
         /\ Continue([run EXCEPT !.cooledBack = @ \/ (run.cooled /\ o.ok)],
                     "f_markers")

(* Mutant: only markers whose publication was acknowledged.                *)
MarkersAcknowledged == IF run.armed THEN run.mine ELSE {}

(* markers_to_touch, whether or not publishing them returned.              *)
MarkersToClear == run.mine

(* The agent first and, when it is gone or fails, rm as root.              *)
ClearMarkers ==
    /\ pc = "f_markers"
    /\ LET byAgent == IF run.agent
                      THEN set_diagnostic_markers(dev, MarkersToClear, FALSE)
                      ELSE {Fails(dev)}
           bySudo(d) == Attempt(d, [d EXCEPT !.markers = @ \ MarkersToClear])
           next == [run EXCEPT !.armed = FALSE]
       IN  IF MarkersToClear = {} THEN Continue(run, "f_appid") /\ Calm /\ UNCHANGED dev
           ELSE \E a \in byAgent :
                  IF a.ok THEN dev' = a.dev /\ Calm /\ Continue(next, "f_appid")
                  ELSE \E o \in bySudo(a.dev) :
                         /\ dev' = o.dev
                         /\ Slip(o)
                         /\ Continue(IF o.ok THEN next ELSE run, "f_appid")

RemoveAppid ==
    /\ pc = "f_appid"
    /\ \E o \in IF On("applaunch") THEN Attempt(dev, [dev EXCEPT !.appid = FALSE])
                ELSE NoCall :
         /\ dev' = o.dev
         /\ Slip(o)
         /\ Continue(run, "f_lease")

ReleaseHeldLease ==
    /\ pc = "f_lease"
    /\ \E o \in IF run.lease /\ run.agent THEN release_gui_lease(dev) ELSE NoCall :
         /\ dev' = o.dev
         /\ Slip(o)
         /\ Continue([run EXCEPT !.lease = @ /\ ~o.ok], "f_trace")

(* Not guarded: an exception here leaves the rest of the block undone, and *)
(* the exit of the process closes the agent's channel.                     *)
Abort(d) == dev' = (IF d.agent = "live" THEN AgentGone(d, "none") ELSE d)
            /\ Continue(run, "aborted")

RemoveTraceMarkers ==
    /\ pc = "f_trace"
    /\ \E o \in IF On("waitTrace")
                THEN Attempt(dev, [dev EXCEPT !.markers = @ \ {"capture"}])
                ELSE NoCall :
         /\ Slip(o)
         /\ IF o.ok THEN dev' = o.dev /\ Continue(run, "f_fatal") ELSE Abort(o.dev)

(* Mutant: a finished score is not reopened.                               *)
ClassifiedOrScored == {"GAME_FATAL", "WALK_FATAL", "OK"}

(* The results the check keeps.  It names the fatal of the long drag       *)
(* without HOST_, so that DRAG_FATAL is replaced.                          *)
ClassifiedFatals == {"GAME_FATAL", "WALK_FATAL"}

(* The fatal check immediately before the game is terminated.              *)
FinalFatalCheck ==
    /\ pc = "f_fatal"
    /\ UNCHANGED dev
    /\ LET found == run.pid /\ dev.fatal
           known == run.result \in ClassifiedFatals
           read == [run EXCEPT !.seenFatal = @ \/ found,
                               !.result = IF found /\ ~known
                                          THEN "GAME_FATAL_LATE" ELSE @]
       IN  \/ Calm /\ Continue(read, "f_kill")
           \/ run.pid /\ Slip(Fails(dev)) /\ Continue(run, "f_kill")

(* Mutants: only a good result is downgraded; a result outside the list.   *)
KilledOrOk(r, o) ==
    [r EXCEPT !.confirmed = o.ok /\ o.confirmed,
              !.result = IF ~(o.ok /\ o.confirmed) /\ @ = "OK"
                         THEN "CLEANUP_INCOMPLETE" ELSE @]
KilledUnknown(r, o) == [r EXCEPT !.result = IF o.ok THEN @ ELSE "UNKNOWN"]

(* confirmed_exited, and what its absence makes of any result.             *)
Killed(r, o) ==
    [r EXCEPT !.confirmed = o.ok /\ o.confirmed,
              !.result = IF o.ok /\ o.confirmed THEN @ ELSE "CLEANUP_INCOMPLETE"]

(* The game is resolved again when no PID was captured, unless the caller  *)
(* asked to leave it; a probe that fails counts as no game to look for.    *)
TerminateGame ==
    /\ pc = "f_kill"
    /\ LET byAgent == run.signals /\ (run.pid \/ dev.game # "none")
           calls == IF byAgent THEN terminate_exact_game_with_agent(dev) ELSE {}
       IN  IF On("leave")
           THEN Continue(run, "f_quiesce") /\ Calm /\ UNCHANGED dev
           ELSE \E o \in calls \cup IF byAgent /\ run.pid THEN {}
                                   ELSE terminate_exact_game(dev) :
                  /\ dev' = o.dev
                  /\ Slip(o)
                  /\ Continue(Killed(run, o), "f_quiesce")

ResumeQuiescedSteam ==
    /\ pc = "f_quiesce"
    /\ \E o \in IF run.quiesced THEN AgentSignal(dev, "steam", "CONT") ELSE NoCall :
         /\ dev' = o.dev
         /\ Slip(o)
         /\ Continue([run EXCEPT !.quiesced = @ /\ ~o.ok], "f_stop")

(* Only a Steam that this run started is stopped.                          *)
StopStartedSteam ==
    /\ pc = "f_stop"
    /\ IF On("leave") \/ On("keepSteam") \/ run.retained \/ ~run.started
       THEN Continue(run, "f_env") /\ Calm /\ UNCHANGED dev
       ELSE \E o \in stop_steam_ui(dev) :
              /\ dev' = o.dev
              /\ Slip(o)
              /\ Continue([run EXCEPT !.result = IF ~o.ok /\ @ = "OK"
                                                 THEN "CLEANUP_INCOMPLETE" ELSE @],
                          "f_env")

(* Not guarded either.                                                     *)
ClearEnvironment ==
    /\ pc = "f_env"
    /\ \E o \in IF run.env THEN clear_steam_overlay_test_environment(dev)
                ELSE NoCall :
         /\ Slip(o)
         /\ IF o.ok THEN dev' = o.dev /\ Continue(run, "f_cc") ELSE Abort(o.dev)

RestoreControlCenter ==
    /\ pc = "f_cc"
    /\ \E o \in IF run.restoreCC THEN restore_control_center_after_game(dev)
                ELSE NoCall :
         /\ dev' = o.dev
         /\ Slip(o)
         /\ Continue([run EXCEPT !.result = IF ~o.ok /\ @ = "OK"
                                            THEN "CLEANUP_INCOMPLETE" ELSE @],
                     "f_thermal")

(* The last reading, and the downgrade of a result scored under pressure.  *)
ScoreThermal ==
    /\ pc = "f_thermal"
    /\ UNCHANGED dev
    /\ Calm
    /\ \E safe \in BOOLEAN :
         LET valid == run.thermalValid /\ safe
             scored == IF On("coolGame") THEN run.scored = "yes" ELSE valid
         IN  Continue([run EXCEPT !.thermalValid = valid,
                                  !.result = IF @ = "OK" /\ ~scored
                                             THEN "THERMAL_PRESSURE" ELSE @],
                      "f_close")

(* Streams and agents are closed, the result is written, the process ends. *)
CloseAndWrite ==
    /\ pc = "f_close"
    /\ Calm
    /\ dev' = (IF dev.agent = "live" THEN AgentGone(dev, "none") ELSE dev)
    /\ Continue(run, "done")

-----------------------------------------------------------------------------
(* The device, on its own.                                                 *)

Exited == pc \in {"done", "aborted"}

(* Steam carries out a launch request, possibly after the cleanup probed.  *)
SteamSpawns ==
    /\ ~Exited
    /\ dev.launching /\ dev.steam # "none" /\ "steam" \notin dev.stopped
    /\ dev.game = "none" /\ dev.spawns < MaxSpawns
    /\ dev' = [dev EXCEPT !.game = "own", !.launching = FALSE, !.spawns = @ + 1]
    /\ late' = IF pc \in {"f_quiesce", "f_stop", "f_env", "f_cc", "f_thermal",
                          "f_close"}
               THEN late \cup {"spawn"} ELSE late
    /\ UNCHANGED <<pc, run, opt, start, slips>>

(* The game exits, or logs a fatal error and goes on or exits.             *)
GameDies ==
    /\ dev.game = "own" /\ ~Exited
    /\ \E fatal, exits \in BOOLEAN :
         /\ fatal \/ exits
         /\ LET e == [dev EXCEPT !.fatal = @ \/ fatal]
            IN  dev' = IF exits THEN NoGame(e) ELSE e
         /\ late' = IF fatal /\ pc \in {"f_kill", "f_quiesce", "f_stop", "f_env",
                                        "f_cc", "f_thermal", "f_close"}
                    THEN late \cup {"fatal"} ELSE late
    /\ UNCHANGED <<pc, run, opt, start, slips>>

(* The agent's process or its channel ends: its own finally block runs.    *)
AgentDies ==
    /\ dev.agent = "live" /\ ~Exited
    /\ dev' = AgentGone(dev, "dead")
    /\ UNCHANGED <<pc, run, opt, start, late, slips>>

Prepare ==
    \/ ArmStreams \/ PreflightOnly \/ RetireStaleGame \/ SuspendControlCenter
    \/ SteamPreflightStart \/ SteamPreflightReturn \/ SuspendSteamForCooling
    \/ SuspendRenderPath \/ InitialCooldown \/ PrepareEnvironment
    \/ WorkspaceGate \/ ApplySettings \/ ChooseMarkers \/ ResumeSteam

Launch ==
    \/ ArmObservers \/ AcquireLease \/ PublishMarkers \/ EnsureSteam
    \/ SelectGame \/ CaptureIdentities \/ RequestLaunch \/ AwaitLaunch
    \/ RecoverMissingTask \/ RecoverStalledCloud \/ ConfirmCloudWarning
    \/ ConfirmSessionHandoff \/ RetryAfterAppError49 \/ CheckLaunched

Play ==
    \/ GameStarted \/ RetireMarkers \/ ReleaseLease \/ Settle
    \/ ProgressToGameplay \/ QuiesceSteam \/ ActivateDirectDrawable \/ CoolGame
    \/ CoolGameWait \/ CoolGameRenderResume \/ CoolGameResume \/ ProbeGate
    \/ HoverProbe \/ HostHoverProbe \/ LongDragProbe \/ WalkProbe
    \/ CaptureTargets \/ RetireTargets \/ TakeProcessSamples \/ PreSample
    \/ StartTraceCapture \/ SampleLoop \/ Evaluate \/ Classify

Cleanup ==
    \/ ResumeRenderPath \/ ResumeGame \/ ResumeCooledSteam \/ ClearMarkers
    \/ RemoveAppid \/ ReleaseHeldLease \/ RemoveTraceMarkers \/ FinalFatalCheck
    \/ TerminateGame \/ ResumeQuiescedSteam \/ StopStartedSteam
    \/ ClearEnvironment \/ RestoreControlCenter \/ ScoreThermal \/ CloseAndWrite

Next ==
    \/ (Prepare \/ Launch \/ Play) /\ UNCHANGED <<opt, start, late, slips>>
    \/ Cleanup /\ UNCHANGED <<opt, start, late>>
    \/ SteamSpawns \/ GameDies \/ AgentDies

Spec == Init /\ [][Next]_vars

-----------------------------------------------------------------------------
(* Properties *)

(* Types of the device, the locals and the step.                           *)
TypeOK ==
    /\ dev \in Device
    /\ run \in Locals
    /\ opt \in OptionSets
    /\ start \in Desktops
    /\ late \subseteq {"spawn", "fatal"}
    /\ slips \in 0..MaxSlips

(* However the run ends, Steam and the game are runnable again: whichever  *)
(* of the three suspensions was in progress when a call raised, the        *)
(* emergency resumes, or the agent's own exit, undo it.                    *)
SteamAndGameRunnable ==
    Exited /\ slips = 0 => dev.stopped \cap {"steam", "game"} = {}

(* The markers this run listed, the one-shot AppID request and the GUI     *)
(* lease never outlive it, so that a later Repair Desktop and a later      *)
(* manual Steam start find a clean device.                                 *)
NothingLeftArmed ==
    Exited /\ slips = 0 =>
        /\ dev.markers \cap {"launch", "active", "capture"} = {}
        /\ ~dev.appid
        /\ ~dev.lease

(* OK is earned: the game is confirmed gone (or left on purpose), no fatal *)
(* line was logged before the final check, nothing is suspended, set or    *)
(* published any more, ControlCenter is back, Steam started by the run is  *)
(* gone, and gameplay was seen when asked for.                             *)
OkEarned ==
    pc = "done" /\ run.result = "OK" /\ slips = 0 =>
        /\ run.confirmed \/ On("leave")
        /\ run.pid /\ dev.fatal => "fatal" \in late
        /\ dev.stopped = {} /\ dev.markers = {} /\ ~dev.env
        /\ start.cc => dev.cc
        /\ run.started /\ ~run.retained =>
             On("leave") \/ On("keepSteam") \/ dev.steam = "none"
        /\ On("progress") /\ opt.mode = "bench" => run.visual

(* A game that survives a run which had to stop it is reported, unless     *)
(* Steam started it after the cleanup had looked.                          *)
SurvivorReported ==
    pc = "done" /\ dev.game = "own" /\ ~On("leave") =>
        run.result = "CLEANUP_INCOMPLETE" \/ "spawn" \in late

(* A run that is to hand a ready Steam to the user never touches a game    *)
(* which was running before it.                                            *)
HandoffKeepsGame ==
    [][opt.mode = "handoff" /\ dev.game = "stale" => dev'.game = "stale"]_vars

(* The device is left as the user needs it: at the end of a run nothing it *)
(* stopped is still stopped and nothing it armed is still armed, at        *)
(* whichever call it failed.                                               *)
DeviceRestored == SteamAndGameRunnable /\ NothingLeftArmed

(* The verdict that is written is the worst that happened: OK stands for a *)
(* scored run without a fatal line, and a game that survived is reported.  *)
ResultHonest == TypeOK /\ OkEarned /\ SurvivorReported
=============================================================================
