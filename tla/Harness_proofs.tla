---------------------------- MODULE Harness_proofs ----------------------------
(* What MCHarness checks, proved for any arguments, pictures, listings and    *)
(* bounds: main of misc/stray_perf_loop.py with its cleanup and its result,   *)
(* the captures it keeps as evidence, the taps that start the game through    *)
(* Steam, the profile of misc/macws_frame_power_profile.py, and the pictures, *)
(* series, counters and process trees both turn into figures.  Each section   *)
(* has the inductive invariant of one part and derives what the run checks of *)
(* it.                                                                        *)
EXTENDS MCHarness, SequencePieces, FiniteSetTheorems, TLAPS

-----------------------------------------------------------------------------
(* Remote calls.                                                             *)

(* What a call may answer, and the device it may leave.                      *)
LEMMA AttemptOutcome ==
  ASSUME NEW d, NEW e, NEW o \in Attempt(d, e)
  PROVE  /\ o.dev \in {d, e}
         /\ o.ok => o.dev = e
BY DEF Attempt

LEMMA AgentCallOutcome ==
  ASSUME NEW d, NEW e, NEW o \in AgentCall(d, e)
  PROVE  /\ o.dev \in {d, e}
         /\ o.ok => o.dev = e /\ d.agent = "live"
         /\ d.agent # "live" => o.dev = d
BY AttemptOutcome DEF AgentCall, Fails

(* A device keeps its type when one of its switches is set.                  *)
LEMMA SwitchType ==
  ASSUME NEW d \in Device, NEW b \in BOOLEAN
  PROVE  /\ [d EXCEPT !.cc = b] \in Device
         /\ [d EXCEPT !.env = b] \in Device
         /\ [d EXCEPT !.appid = b] \in Device
         /\ [d EXCEPT !.launching = b] \in Device
         /\ [d EXCEPT !.lease = b] \in Device
         /\ [d EXCEPT !.render = b] \in Device
         /\ [d EXCEPT !.fatal = b] \in Device
BY DEF Device

LEMMA OnType ==
  ASSUME NEW s
  PROVE  On(s) \in BOOLEAN
BY DEF On

(* A call leaves a device of the right type.                                 *)
LEMMA SignalPidsType ==
  ASSUME NEW d \in Device, NEW sig, NEW o \in signal_exact_pids(d, sig)
  PROVE  o.dev \in Device
BY AttemptOutcome DEF signal_exact_pids, Device

LEMMA SignalRenderType ==
  ASSUME NEW d \in Device, NEW sig, NEW o \in signal_exact_render_path(d, sig)
  PROVE  o.dev \in Device
BY AttemptOutcome DEF signal_exact_render_path, Device

LEMMA SuspendCCType ==
  ASSUME NEW d \in Device, NEW o \in suspend_control_center_for_game(d)
  PROVE  o.dev \in Device
<1>1. [d EXCEPT !.cc = FALSE] \in Device
  BY DEF Device
<1> QED  BY AttemptOutcome, <1>1 DEF suspend_control_center_for_game, Fails

LEMMA RestoreCCType ==
  ASSUME NEW d \in Device, NEW o \in restore_control_center_after_game(d)
  PROVE  o.dev \in Device
<1>1. [d EXCEPT !.cc = TRUE] \in Device
  BY DEF Device
<1> QED  BY AttemptOutcome, <1>1 DEF restore_control_center_after_game

LEMMA ConfigureEnvType ==
  ASSUME NEW d \in Device, NEW o \in configure_steam_overlay_test_environment(d)
  PROVE  o.dev \in Device
<1>1. [d EXCEPT !.env = On("overlayEnv")] \in Device
  BY SwitchType, OnType
<1> QED  BY AttemptOutcome, <1>1 DEF configure_steam_overlay_test_environment

LEMMA ClearEnvType ==
  ASSUME NEW d \in Device, NEW o \in clear_steam_overlay_test_environment(d)
  PROVE  o.dev \in Device
<1>1. [d EXCEPT !.env = FALSE] \in Device
  BY DEF Device
<1> QED  BY AttemptOutcome, <1>1 DEF clear_steam_overlay_test_environment

LEMMA SteamGoneType ==
  ASSUME NEW d \in Device
  PROVE  SteamGone(d) \in Device
BY DEF SteamGone, Device

LEMMA StopSteamType ==
  ASSUME NEW d \in Device, NEW o \in stop_steam_ui(d)
  PROVE  o.dev \in Device
BY AttemptOutcome, SteamGoneType DEF stop_steam_ui

LEMMA SteamLoadedType ==
  ASSUME NEW d \in Device
  PROVE  SteamLoaded(d) \in Device
BY DEF SteamLoaded, Device, On

LEMMA EnsureSteamType ==
  ASSUME NEW d \in Device, NEW o \in ensure_steam_ui(d)
  PROVE  o.dev \in Device
<1>1. SteamGone(d) \in Device /\ SteamLoaded(d) \in Device
      /\ SteamLoaded(SteamGone(d)) \in Device
  BY SteamGoneType, SteamLoadedType
<1>2. [SteamGone(d) EXCEPT !.appid = On("applaunch")] \in Device
  BY <1>1, SwitchType, OnType
<1> QED  BY <1>1, <1>2 DEF ensure_steam_ui, Fails

LEMMA ApplaunchType ==
  ASSUME NEW d \in Device, NEW o \in request_running_steam_applaunch(d)
  PROVE  o.dev \in Device
<1>1. [d EXCEPT !.launching = TRUE] \in Device
  BY DEF Device
<1> QED  BY AttemptOutcome, <1>1 DEF request_running_steam_applaunch

LEMMA NoGameType ==
  ASSUME NEW d \in Device
  PROVE  NoGame(d) \in Device
BY DEF NoGame, Device

LEMMA TerminateType ==
  ASSUME NEW d \in Device, NEW o \in terminate_exact_game(d)
  PROVE  /\ o.dev \in {d, NoGame(d)}
         /\ o.dev \in Device
         /\ o.confirmed => o.dev.game = "none"
<1>1. NoGame(d) \in Device /\ NoGame(d).game = "none"
  BY Zenon, NoGameType DEF NoGame, Device
<1>2. o.dev \in {d, NoGame(d)}
  BY DEF terminate_exact_game
<1>3. o.confirmed => o.dev.game = "none"
  <2>1. CASE o = [ok |-> TRUE, dev |-> NoGame(d), confirmed |-> TRUE]
    BY <2>1, <1>1
  <2>2. CASE o = [ok |-> TRUE, dev |-> d, confirmed |-> d.game = "none"]
    BY <2>2
  <2>3. CASE o.confirmed = FALSE
    BY <2>3
  <2> QED  BY <2>1, <2>2, <2>3 DEF terminate_exact_game
<1> QED  BY <1>1, <1>2, <1>3

LEMMA AgentTerminateType ==
  ASSUME NEW d \in Device, NEW o \in terminate_exact_game_with_agent(d)
  PROVE  /\ o.dev \in {d, NoGame(d)}
         /\ o.dev \in Device
         /\ o.confirmed => o.dev.game = "none"
BY TerminateType DEF terminate_exact_game_with_agent

LEMMA AcquireType ==
  ASSUME NEW d \in Device, NEW o \in acquire_gui_lease(d)
  PROVE  o.dev \in Device
<1>1. [d EXCEPT !.lease = TRUE] \in Device
  BY DEF Device
<1> QED  BY AgentCallOutcome, <1>1 DEF acquire_gui_lease

LEMMA ReleaseType ==
  ASSUME NEW d \in Device, NEW o \in release_gui_lease(d)
  PROVE  o.dev \in Device
<1>1. [d EXCEPT !.lease = FALSE] \in Device
  BY DEF Device
<1> QED  BY AgentCallOutcome, <1>1 DEF release_gui_lease

LEMMA MarkersType ==
  ASSUME NEW d \in Device, NEW ms \in SUBSET {"launch", "active", "target", "capture"},
         NEW present, NEW o \in set_diagnostic_markers(d, ms, present)
  PROVE  o.dev \in Device
<1>1. [d EXCEPT !.markers = IF present THEN @ \cup ms ELSE @ \ ms] \in Device
  BY DEF Device
<1> QED  BY <1>1, AgentCallOutcome DEF set_diagnostic_markers

LEMMA AgentSignalType ==
  ASSUME NEW d \in Device, NEW who \in {"game", "steam"}, NEW sig,
         NEW o \in AgentSignal(d, who, sig)
  PROVE  o.dev \in Device
<1>1. [d EXCEPT !.stopped = @ \cup {who}, !.agentStopped = @ \cup {who}] \in Device
  BY DEF Device
<1>2. [d EXCEPT !.stopped = @ \ {who}, !.agentStopped = @ \ {who}] \in Device
  BY DEF Device
<1> QED  BY <1>1, <1>2, AgentCallOutcome DEF AgentSignal

LEMMA AgentGoneType ==
  ASSUME NEW d \in Device, NEW state \in {"none", "dead"}
  PROVE  AgentGone(d, state) \in Device
BY DEF AgentGone, Device

LEMMA ObserversType ==
  ASSUME NEW d \in Device, NEW o \in arm_game_launch_observers(d)
  PROVE  o.dev \in Device
BY AttemptOutcome DEF arm_game_launch_observers, Device

-----------------------------------------------------------------------------
(* Locals and results.                                                       *)

(* What an exception makes of the locals.                                    *)
LEMMA RaisedOutcome ==
  ASSUME NEW r \in Locals, NEW q \in Raised(r)
  PROVE  /\ q \in Locals
         /\ q = [r EXCEPT !.result = q.result]
         /\ q.result = r.result \/ q.result = "ERROR"
BY DEF Raised, Locals, Results

LEMMA ThrowType ==
  ASSUME NEW r \in Locals, Throw(r)
  PROVE  /\ run' \in Locals
         /\ pc' = "f_render"
         /\ run' = [r EXCEPT !.result = run'.result]
         /\ run'.result = r.result \/ run'.result = "ERROR"
BY RaisedOutcome DEF Throw, Continue

LEMMA ThermalType ==
  ASSUME NEW r \in Locals, NEW t \in thermal_checkpoint(r)
  PROVE  /\ t.run \in Locals
         /\ t.run = r \/ t.run = [r EXCEPT !.thermalValid = FALSE]
<1> DEFINE pressed == [r EXCEPT !.thermalValid = FALSE]
<1>1. t \in { [ok |-> TRUE, run |-> r], [ok |-> TRUE, run |-> pressed],
              [ok |-> FALSE, run |-> r], [ok |-> FALSE, run |-> pressed] }
  BY Zenon DEF thermal_checkpoint
<1>2. pressed \in Locals
  BY DEF Locals
<1> HIDE DEF pressed
<1>3. t.run = r \/ t.run = pressed
  BY <1>1
<1> QED BY <1>2, <1>3 DEF pressed

LEMMA ScoredType ==
  ASSUME NEW r \in Locals, NEW safe \in BOOLEAN, NEW v \in {"none", "yes", "no"}
  PROVE  [r EXCEPT !.thermalValid = @ /\ safe, !.scored = v] \in Locals
<1>1. ASSUME NEW b \in BOOLEAN
      PROVE  [r EXCEPT !.thermalValid = b, !.scored = v] \in Locals
  BY DEF Locals
<1>2. (r.thermalValid /\ safe) \in BOOLEAN
  OBVIOUS
<1> QED  BY Zenon, <1>1, <1>2

LEMMA OutcomeType ==
  ASSUME NEW d, NEW r \in Locals, NEW next, wait_for_launch_outcome(d, r, next)
  PROVE  /\ run' \in Locals
         /\ pc' = next
         /\ \E o \in Outcomes, p \in BOOLEAN : run' = [r EXCEPT !.outcome = o, !.pid = p]
<1>1. PICK o \in Outcomes, p \in BOOLEAN : Continue([r EXCEPT !.outcome = o, !.pid = p], next)
  BY Zenon DEF wait_for_launch_outcome
<1>2. [r EXCEPT !.outcome = o, !.pid = p] \in Locals
  BY DEF Locals
<1> QED  BY Zenon, <1>1, <1>2 DEF Continue

(* The failures of the finally block are counted.                            *)
LEMMA SlipOutcome ==
  ASSUME NEW o, Slip(o), slips \in 0..MaxSlips
  PROVE  /\ slips' \in 0..MaxSlips
         /\ slips' = 0 => slips = 0 /\ o.ok
         /\ ~o.ok => slips' # 0
BY BoundAssumption DEF Slip

-----------------------------------------------------------------------------
(* The type invariant.                                                       *)

LEMMA PrepareType ==
  ASSUME TypeOK, Prepare
  PROVE  dev' \in Device /\ run' \in Locals
<1> USE DEF TypeOK, Continue
<1>0. dev.cc \in BOOLEAN /\ run.restoreCC \in BOOLEAN /\ run.cooled \in BOOLEAN
  BY DEF Device, Locals
<1>1. CASE ArmStreams
  BY <1>1, ThrowType DEF ArmStreams
<1>2. CASE PreflightOnly
  <2>1. [dev EXCEPT !.render = @ \/ ~On("skipWorkspace")] \in Device
    BY SwitchType
  <2>3. PICK t \in thermal_checkpoint(run) :
          Throw(t.run) \/ run' = [t.run EXCEPT !.result = "OK"]
    BY <1>2 DEF PreflightOnly
  <2>4. t.run \in Locals
    BY ThermalType
  <2>5. [t.run EXCEPT !.result = "OK"] \in Locals
    BY <2>4 DEF Locals, Results
  <2> QED  BY <1>2, <2>1, <2>3, <2>4, <2>5, ThrowType DEF PreflightOnly
<1>3. CASE RetireStaleGame
  BY <1>3, ThrowType, TerminateType DEF RetireStaleGame
<1>4. CASE SuspendControlCenter
  <2>1. [run EXCEPT !.restoreCC = dev.cc] \in Locals
    BY <1>0 DEF Locals
  <2> QED  BY <1>4, <2>1, ThrowType, SuspendCCType DEF SuspendControlCenter
<1>5. CASE SteamPreflightStart
  <2>1. ASSUME NEW t \in thermal_checkpoint(run)
        PROVE  [t.run EXCEPT !.started = dev.steam = "none"] \in Locals
    <3>1. t.run \in Locals
      BY ThermalType
    <3> QED  BY Zenon, <3>1 DEF Locals
  <2>2. ASSUME NEW o \in ensure_steam_ui(dev)
        PROVE  [o.dev EXCEPT !.render = @ \/ ~On("skipWorkspace")] \in Device
    BY EnsureSteamType, SwitchType
  <2> QED  BY <1>5, <2>1, <2>2, ThrowType DEF SteamPreflightStart
<1>6. CASE SteamPreflightReturn
  <2>1. [run EXCEPT !.cooledBack = TRUE, !.retained = TRUE, !.result = "OK"] \in Locals
    BY DEF Locals, Results
  <2> QED  BY <1>6, <2>1, ThrowType, SignalPidsType DEF SteamPreflightReturn
<1>7. CASE SuspendSteamForCooling
  <2>1. [run EXCEPT !.cooled = dev.steam # "none"] \in Locals
    BY DEF Locals
  <2> QED  BY <1>7, <2>1, ThrowType, SignalPidsType DEF SuspendSteamForCooling
<1>8. CASE SuspendRenderPath
  <2>1. dev' \in Device
    BY <1>8, SignalRenderType DEF SuspendRenderPath
  <2>2. Throw(run) \/ run' = run \/ run' = [run EXCEPT !.renderHeld = TRUE]
    BY <1>8 DEF SuspendRenderPath
  <2>3. [run EXCEPT !.renderHeld = TRUE] \in Locals
    BY DEF Locals
  <2> QED  BY <2>1, <2>2, <2>3, ThrowType
<1>9. CASE InitialCooldown
  <2>1. dev' \in Device
    BY <1>9, SignalRenderType DEF InitialCooldown
  <2>2. PICK v \in {"INCOMPLETE", "ERROR", "INTERRUPTED"} :
          \/ Throw(run)
          \/ Throw([run EXCEPT !.renderHeld = FALSE])
          \/ run' = [run EXCEPT !.result = v]
          \/ run' = [[run EXCEPT !.result = v] EXCEPT !.renderHeld = FALSE]
    BY <1>9 DEF InitialCooldown
  <2>3. [run EXCEPT !.result = v] \in Locals
    BY DEF Locals, Results
  <2>4. ASSUME NEW r \in Locals
        PROVE  [r EXCEPT !.renderHeld = FALSE] \in Locals
    BY DEF Locals
  <2> QED  BY <2>1, <2>2, <2>3, <2>4, ThrowType
<1>10. CASE PrepareEnvironment
  <2>1. dev' \in Device
    BY <1>10, StopSteamType, ConfigureEnvType DEF PrepareEnvironment
  <2>2. Throw(run) \/ run' = [run EXCEPT !.env = TRUE]
    BY <1>10 DEF PrepareEnvironment
  <2>3. [run EXCEPT !.env = TRUE] \in Locals
    BY DEF Locals
  <2> QED  BY <2>1, <2>2, <2>3, ThrowType
<1>11. CASE WorkspaceGate
  <2> DEFINE Up(b) == IF On("skipWorkspace") THEN dev
                      ELSE [dev EXCEPT !.render = TRUE, !.cc = @ \/ b]
  <2>1. ASSUME NEW b \in BOOLEAN
        PROVE  Up(b) \in Device
    <3>1. [dev EXCEPT !.render = TRUE, !.cc = @ \/ b] \in Device
      BY DEF Device
    <3> QED  BY <3>1
  <2>2. PICK t \in thermal_checkpoint(run), b \in BOOLEAN :
          /\ dev' = Up(b) \/ \E o \in suspend_control_center_for_game(Up(b)) : dev' = o.dev
          /\ \/ Throw(t.run)
             \/ run' = t.run
             \/ run' = [t.run EXCEPT !.restoreCC = @ \/ Up(b).cc]
    BY Zenon, <1>11 DEF WorkspaceGate
  <2>3. dev' \in Device
    BY Zenon, <2>1, <2>2, SuspendCCType
  <2> HIDE DEF Up
  <2>4. [t.run EXCEPT !.restoreCC = @ \/ Up(b).cc] \in Locals
    <3>1. t.run \in Locals
      BY ThermalType
    <3> QED  BY <3>1 DEF Locals
  <2> QED  BY Zenon, <2>2, <2>3, <2>4, ThrowType, ThermalType
<1>12. CASE ApplySettings
  BY <1>12, ThrowType DEF ApplySettings
<1>13. CASE ChooseMarkers
  BY <1>13, ThrowType DEF ChooseMarkers, Locals, Device
<1>14. CASE ResumeSteam
  <2>1. [run EXCEPT !.cooledBack = run.cooled] \in Locals
    BY <1>0 DEF Locals
  <2>5. ASSUME NEW r \in Locals
        PROVE  [r EXCEPT !.started = dev.steam = "none"] \in Locals
    BY Zenon DEF Locals
  <2>2. ASSUME NEW o, o.ok \/ ~o.ok
        PROVE  (IF o.ok THEN [run EXCEPT !.cooledBack = run.cooled] ELSE run) \in Locals
    BY <2>1
  <2>3. dev' \in Device
    BY <1>14, SignalPidsType DEF ResumeSteam
  <2>4. run' \in Locals
    BY <1>14, <2>1, <2>2, <2>5, ThrowType DEF ResumeSteam
  <2> QED  BY <2>3, <2>4
<1> QED  BY <1>1, <1>2, <1>3, <1>4, <1>5, <1>6, <1>7, <1>8, <1>9, <1>10, <1>11,
            <1>12, <1>13, <1>14 DEF Prepare

LEMMA LaunchType ==
  ASSUME TypeOK, Launch
  PROVE  dev' \in Device /\ run' \in Locals
<1> USE DEF TypeOK, Continue
<1>1. CASE ArmObservers
  <2>1. [run EXCEPT !.agent = TRUE] \in Locals
    BY DEF Locals
  <2> QED  BY <1>1, <2>1, ThrowType, ObserversType DEF ArmObservers
<1>2. CASE AcquireLease
  <2>1. [run EXCEPT !.lease = TRUE] \in Locals
    BY DEF Locals
  <2> QED  BY <1>2, <2>1, ThrowType, AcquireType DEF AcquireLease
<1>3. CASE PublishMarkers
  <2>1. [run EXCEPT !.armed = TRUE] \in Locals
    BY DEF Locals
  <2>2. run.mine \in SUBSET {"launch", "active", "target", "capture"}
    BY DEF Locals
  <2>3. ASSUME NEW o \in set_diagnostic_markers(dev, run.mine, TRUE)
        PROVE  o.dev \in Device
    BY <2>2, MarkersType
  <2> QED  BY <1>3, <2>1, <2>3, ThrowType DEF PublishMarkers
<1>4. CASE EnsureSteam
  BY <1>4, ThrowType, ThermalType, EnsureSteamType DEF EnsureSteam
<1>5. CASE SelectGame
  <2>1. PICK t \in thermal_checkpoint(run) :
          \/ Throw(t.run)
          \/ run' = [t.run EXCEPT !.byApplaunch = On("applaunch")]
          \/ run' = [t.run EXCEPT !.byApplaunch = TRUE]
    BY <1>5 DEF SelectGame
  <2>2. t.run \in Locals
    BY ThermalType
  <2>3. /\ [t.run EXCEPT !.byApplaunch = On("applaunch")] \in Locals
        /\ [t.run EXCEPT !.byApplaunch = TRUE] \in Locals
    BY <2>2, OnType DEF Locals
  <2> QED  BY <1>5, <2>1, <2>2, <2>3, ThrowType DEF SelectGame
<1>6. CASE CaptureIdentities
  <2>1. [dev EXCEPT !.steam = IF @ = "none" THEN @ ELSE "owner"] \in Device
    BY DEF Device
  <2>2. /\ [run EXCEPT !.result = "READY_FOR_USER"] \in Locals
        /\ [run EXCEPT !.inventory = TRUE, !.signals = ~On("leave") \/ On("quiesce")] \in Locals
    BY DEF Locals, Results
  <2> QED  BY <1>6, <2>1, <2>2, ThrowType DEF CaptureIdentities
<1>7. CASE RequestLaunch
  BY <1>7, ThrowType, ApplaunchType DEF RequestLaunch
<1>8. CASE AwaitLaunch
  BY Zenon, <1>8, ThrowType, ThermalType, OutcomeType DEF AwaitLaunch
<1>9. ASSUME NEW next, ReplaceOwner(next)
      PROVE  dev' \in Device /\ run' \in Locals
  BY Zenon, <1>9, ThrowType, StopSteamType, EnsureSteamType, OutcomeType DEF ReplaceOwner
<1>10. CASE RecoverMissingTask
  BY <1>9, <1>10 DEF RecoverMissingTask
<1>11. CASE RecoverStalledCloud
  BY <1>9, <1>11 DEF RecoverStalledCloud
<1>12. CASE ConfirmCloudWarning
  BY Zenon, <1>12, ThrowType, OutcomeType DEF ConfirmCloudWarning, AnswerDialog
<1>13. CASE ConfirmSessionHandoff
  BY Zenon, <1>13, ThrowType, OutcomeType DEF ConfirmSessionHandoff, AnswerDialog
<1>14. CASE RetryAfterAppError49
  BY Zenon, <1>14, ThrowType, ApplaunchType, OutcomeType DEF RetryAfterAppError49
<1>15. CASE CheckLaunched
  <2>1. [run EXCEPT !.outcome = "none"] \in Locals
    BY DEF Locals, Outcomes
  <2> QED  BY <1>15, <2>1, ThrowType DEF CheckLaunched
<1> QED  BY <1>1, <1>2, <1>3, <1>4, <1>5, <1>6, <1>7, <1>8, <1>10, <1>11,
            <1>12, <1>13, <1>14, <1>15 DEF Launch

LEMMA PlayType ==
  ASSUME TypeOK, Play
  PROVE  dev' \in Device /\ run' \in Locals
<1> USE DEF TypeOK, Continue
<1>1. CASE GameStarted
  BY <1>1, ThrowType DEF GameStarted
<1>2. CASE RetireMarkers
  <2>1. [run EXCEPT !.armed = FALSE] \in Locals
    BY DEF Locals
  <2>2. run.mine \in SUBSET {"launch", "active", "target", "capture"}
    BY DEF Locals
  <2>3. ASSUME NEW o \in set_diagnostic_markers(dev, run.mine, FALSE)
        PROVE  o.dev \in Device
    BY <2>2, MarkersType
  <2> QED  BY <1>2, <2>1, <2>3, ThrowType DEF RetireMarkers
<1>3. CASE ReleaseLease
  <2>1. [run EXCEPT !.lease = FALSE] \in Locals
    BY DEF Locals
  <2> QED  BY <1>3, <2>1, ThrowType, ReleaseType DEF ReleaseLease
<1>4. CASE Settle
  BY <1>4, ThrowType, ThermalType DEF Settle
<1>5. CASE ProgressToGameplay
  <2>1. PICK t \in thermal_checkpoint(run), reached \in BOOLEAN :
          \/ Throw(t.run)
          \/ run' = [t.run EXCEPT !.visual = reached /\ On("progress")]
    BY <1>5 DEF ProgressToGameplay
  <2>2. t.run \in Locals
    BY ThermalType
  <2>3. [t.run EXCEPT !.visual = reached /\ On("progress")] \in Locals
    BY Zenon, <2>2 DEF Locals
  <2> QED  BY <1>5, <2>1, <2>2, <2>3, ThrowType DEF ProgressToGameplay
<1>6. CASE QuiesceSteam
  <2>1. [run EXCEPT !.quiesced = TRUE] \in Locals
    BY DEF Locals
  <2>2. ASSUME NEW o \in quiesce_known_steam_ui(dev)
        PROVE  o.dev \in Device
    BY AgentSignalType DEF quiesce_known_steam_ui, Fails
  <2> QED  BY <1>6, <2>1, <2>2, ThrowType DEF QuiesceSteam
<1>7. CASE ActivateDirectDrawable
  <2>1. [run EXCEPT !.mine = @ \cup {"active"}] \in Locals
    BY DEF Locals
  <2>2. dev' \in Device
    BY <1>7, AcquireType, ReleaseType, MarkersType DEF ActivateDirectDrawable
  <2> QED  BY <1>7, <2>1, <2>2, ThrowType DEF ActivateDirectDrawable
<1>8. CASE CoolGame
  <2>1. [run EXCEPT !.gameHeld = TRUE] \in Locals
    BY DEF Locals
  <2>2. ASSUME NEW o \in AgentSignal(dev, "game", "STOP")
        PROVE  o.dev \in Device
    BY AgentSignalType
  <2> QED  BY Zenon, <1>8, <2>1, <2>2, ThrowType DEF CoolGame
<1>9. CASE CoolGameWait
  <2>1. dev' \in Device
    BY <1>9, SignalRenderType DEF CoolGameWait
  <2>2. PICK v \in {"INCOMPLETE", "ERROR", "INTERRUPTED"} :
          \/ run' = [run EXCEPT !.result = v]
          \/ run' = [[run EXCEPT !.renderHeld = TRUE] EXCEPT !.result = v]
    BY <1>9 DEF CoolGameWait
  <2>3. [run EXCEPT !.renderHeld = TRUE] \in Locals
    BY DEF Locals
  <2>4. ASSUME NEW r \in Locals
        PROVE  [r EXCEPT !.result = v] \in Locals
    BY DEF Locals, Results
  <2> QED  BY <2>1, <2>2, <2>3, <2>4
<1>10. CASE CoolGameRenderResume
  <2>1. ASSUME NEW o
        PROVE  [run EXCEPT !.renderHeld = ~o.ok] \in Locals
    BY DEF Locals
  <2>2. dev' \in Device
    BY <1>10, SignalRenderType DEF CoolGameRenderResume
  <2>3. \/ run' = run
        \/ \E o : LET r == [run EXCEPT !.renderHeld = ~o.ok] IN Throw(r) \/ run' = r
    BY <1>10 DEF CoolGameRenderResume
  <2> QED  BY <2>1, <2>2, <2>3, ThrowType
<1>11. CASE CoolGameResume
  <2>1. ASSUME NEW o
        PROVE  [run EXCEPT !.gameHeld = ~o.ok] \in Locals
    BY DEF Locals
  <2> QED  BY <1>11, <2>1, ThrowType, AgentSignalType DEF CoolGameResume
<1>12. CASE ProbeGate
  <2>1. ASSUME NEW r \in Locals
        PROVE  [r EXCEPT !.result = "STALL"] \in Locals
    BY DEF Locals, Results
  <2> QED  BY <1>12, <2>1, ThrowType, ThermalType DEF ProbeGate
<1>13. ASSUME NEW here, NEW next, NEW verdicts, Probe(here, next, verdicts),
              verdicts \subseteq {"STALL", "DRAG_FATAL", "WALK_FATAL"}
       PROVE  dev' \in Device /\ run' \in Locals
  <2>1. ASSUME NEW r \in Locals, NEW v \in verdicts
        PROVE  [r EXCEPT !.result = v, !.seenFatal = @ \/ v # "STALL"] \in Locals
    BY <1>13 DEF Locals, Results
  <2> QED  BY Zenon, <1>13, <2>1, ThrowType, ThermalType DEF Probe
<1>14. CASE HoverProbe
  BY <1>13, <1>14 DEF HoverProbe
<1>15. CASE HostHoverProbe
  BY <1>13, <1>15 DEF HostHoverProbe
<1>16. CASE LongDragProbe
  BY <1>13, <1>16 DEF LongDragProbe
<1>17. CASE WalkProbe
  BY <1>13, <1>17 DEF WalkProbe
<1>18. CASE CaptureTargets
  <2>1. ASSUME NEW o \in set_diagnostic_markers(dev, {"target"}, TRUE)
        PROVE  o.dev \in Device
    BY MarkersType
  <2> QED  BY <1>18, <2>1, ThrowType DEF CaptureTargets
<1>19. CASE RetireTargets
  BY <1>19, ThrowType, MarkersType DEF RetireTargets
<1>20. CASE TakeProcessSamples
  BY <1>20, ThrowType, ThermalType DEF TakeProcessSamples
<1>21. CASE PreSample
  <2>1. ASSUME NEW safe \in BOOLEAN, NEW nominal \in BOOLEAN
        PROVE  [run EXCEPT !.thermalValid = @ /\ safe,
                           !.scored = IF nominal THEN "yes" ELSE "no"] \in Locals
    <3>1. (IF nominal THEN "yes" ELSE "no") \in {"none", "yes", "no"}
      OBVIOUS
    <3> QED  BY Zenon, <3>1, ScoredType
  <2> QED  BY Zenon, <1>21, <2>1, ThrowType DEF PreSample
<1>22. CASE StartTraceCapture
  <2>1. [dev EXCEPT !.markers = @ \cup {"capture"}] \in Device
    BY DEF Device
  <2> QED  BY <1>22, <2>1, ThrowType, AttemptOutcome DEF StartTraceCapture
<1>23. CASE SampleLoop
  <2>1. PICK safe \in BOOLEAN, nominal \in BOOLEAN : SampleLoop!2!(safe, nominal)
    BY Zenon, <1>23 DEF SampleLoop
  <2> DEFINE r == [run EXCEPT !.thermalValid = @ /\ safe,
                              !.scored = IF nominal THEN @ ELSE "no"]
  <2>2. r \in Locals
    <3>1. (IF nominal THEN run.scored ELSE "no") \in {"none", "yes", "no"}
      BY DEF Locals
    <3> QED  BY Zenon, <3>1, ScoredType
  <2>3. ASSUME NEW q \in Locals
        PROVE  /\ [q EXCEPT !.result = "GAME_EXITED"] \in Locals
               /\ [q EXCEPT !.result = "GAME_FATAL", !.seenFatal = TRUE] \in Locals
    BY DEF Locals, Results
  <2>4. \/ run' = r
        \/ run' = [r EXCEPT !.result = "GAME_EXITED"]
        \/ run' = [r EXCEPT !.result = "GAME_FATAL", !.seenFatal = TRUE]
        \/ Throw(run)
    BY <2>1
  <2>5. run' \in Locals
    <3> HIDE DEF r
    <3> QED  BY Zenon, <2>2, <2>3, <2>4, ThrowType
  <2>6. [dev EXCEPT !.markers = @ \ {"capture"}] \in Device
    BY DEF Device
  <2>7. ASSUME NEW o \in Attempt(dev, [dev EXCEPT !.markers = @ \ {"capture"}])
        PROVE  o.dev \in Device
    BY <2>6, AttemptOutcome
  <2>8. dev' = dev \/ \E o \in Attempt(dev, [dev EXCEPT !.markers = @ \ {"capture"}]) :
                       dev' = o.dev
    BY <2>1
  <2> QED  BY <2>5, <2>7, <2>8
<1>24. CASE Evaluate
  BY <1>24, ThrowType DEF Evaluate
<1>25. CASE Classify
  <2>1. ASSUME NEW r \in {"OK", "NOT_SCORED"}
        PROVE  [run EXCEPT !.result = IF @ = "INCOMPLETE" THEN r ELSE @] \in Locals
    BY DEF Locals, Results
  <2> QED  BY <1>25, <2>1 DEF Classify
<1> QED  BY <1>1, <1>2, <1>3, <1>4, <1>5, <1>6, <1>7, <1>8, <1>9, <1>10, <1>11,
            <1>12, <1>14, <1>15, <1>16, <1>17, <1>18, <1>19, <1>20, <1>21, <1>22,
            <1>23, <1>24, <1>25 DEF Play

(* Leaving the process ends the agent.                                       *)
LEMMA AbortType ==
  ASSUME TypeOK, NEW d \in Device, Abort(d)
  PROVE  dev' \in Device /\ run' \in Locals
BY AgentGoneType DEF TypeOK, Abort, Continue

(* What terminate_exact_game, by whichever way, and its absence report.      *)
KillCalls ==
    LET byAgent == run.signals /\ (run.pid \/ dev.game # "none")
    IN  (IF byAgent THEN terminate_exact_game_with_agent(dev) ELSE {})
        \cup IF byAgent /\ run.pid THEN {} ELSE terminate_exact_game(dev)

LEMMA KillOutcome ==
  ASSUME TypeOK, NEW o \in KillCalls
  PROVE  /\ o.dev \in {dev, NoGame(dev)}
         /\ o.dev \in Device
         /\ o.confirmed => o.dev.game = "none"
BY TerminateType, AgentTerminateType DEF KillCalls, TypeOK

LEMMA CleanupType ==
  ASSUME TypeOK, Cleanup
  PROVE  dev' \in Device /\ run' \in Locals
<1> USE DEF TypeOK, Continue
<1>1. CASE ResumeRenderPath
  <2>1. ASSUME NEW o
        PROVE  [run EXCEPT !.renderHeld = @ /\ ~o.ok] \in Locals
    BY DEF Locals
  <2> QED  BY <1>1, <2>1, SignalRenderType DEF ResumeRenderPath, NoCall
<1>2. CASE ResumeGame
  <2>1. ASSUME NEW o
        PROVE  [run EXCEPT !.gameHeld = @ /\ ~o.ok] \in Locals
    BY DEF Locals
  <2> QED  BY <1>2, <2>1, AgentSignalType DEF ResumeGame, NoCall
<1>3. CASE ResumeCooledSteam
  <2>1. ASSUME NEW o
        PROVE  [run EXCEPT !.cooledBack = @ \/ (run.cooled /\ o.ok)] \in Locals
    BY DEF Locals
  <2> QED  BY <1>3, <2>1, SignalPidsType DEF ResumeCooledSteam, NoCall
<1>4. CASE ClearMarkers
  <2>1. [run EXCEPT !.armed = FALSE] \in Locals
    BY DEF Locals
  <2>2. MarkersToClear \in SUBSET {"launch", "active", "target", "capture"}
    BY DEF Locals, MarkersToClear
  <2>3. ASSUME NEW a \in IF run.agent THEN set_diagnostic_markers(dev, MarkersToClear, FALSE)
                         ELSE {Fails(dev)}
        PROVE  a.dev \in Device
    <3>1. CASE run.agent
      BY <3>1, <2>2, MarkersType
    <3>2. CASE ~run.agent
      BY <3>2 DEF Fails
    <3> QED  BY <3>1, <3>2
  <2>4. ASSUME NEW d \in Device, NEW o \in Attempt(d, [d EXCEPT !.markers = @ \ MarkersToClear])
        PROVE  o.dev \in Device
    <3>1. [d EXCEPT !.markers = @ \ MarkersToClear] \in Device
      BY DEF Device
    <3> QED  BY <3>1, AttemptOutcome
  <2> QED  BY <1>4, <2>1, <2>3, <2>4 DEF ClearMarkers
<1>5. CASE RemoveAppid
  <2>1. [dev EXCEPT !.appid = FALSE] \in Device
    BY DEF Device
  <2> QED  BY <1>5, <2>1, AttemptOutcome DEF RemoveAppid, NoCall
<1>6. CASE ReleaseHeldLease
  <2>1. ASSUME NEW o
        PROVE  [run EXCEPT !.lease = @ /\ ~o.ok] \in Locals
    BY DEF Locals
  <2> QED  BY <1>6, <2>1, ReleaseType DEF ReleaseHeldLease, NoCall
<1>7. CASE RemoveTraceMarkers
  <2>1. [dev EXCEPT !.markers = @ \ {"capture"}] \in Device
    BY DEF Device
  <2>2. PICK o \in (IF On("waitTrace")
                    THEN Attempt(dev, [dev EXCEPT !.markers = @ \ {"capture"}])
                    ELSE NoCall) :
          IF o.ok THEN dev' = o.dev /\ run' = run ELSE Abort(o.dev)
    BY <1>7 DEF RemoveTraceMarkers
  <2>3. o.dev \in Device
    BY <2>1, AttemptOutcome DEF NoCall
  <2> QED  BY <2>2, <2>3, AbortType
<1>8. CASE FinalFatalCheck
  <2>1. ASSUME NEW found, NEW known
        PROVE  [run EXCEPT !.seenFatal = @ \/ found,
                           !.result = IF found /\ ~known
                                      THEN "GAME_FATAL_LATE" ELSE @] \in Locals
    BY DEF Locals, Results
  <2> QED  BY Zenon, <1>8, <2>1 DEF FinalFatalCheck
<1>9. CASE TerminateGame
  <2>1. ASSUME NEW o
        PROVE  Killed(run, o) \in Locals
    BY Zenon DEF Locals, Results, Killed
  <2>2. \/ dev' = dev /\ run' = run
        \/ \E o \in KillCalls : dev' = o.dev /\ run' = Killed(run, o)
    BY <1>9 DEF TerminateGame, KillCalls
  <2> QED  BY <2>1, <2>2, KillOutcome
<1>10. CASE ResumeQuiescedSteam
  <2>1. ASSUME NEW o
        PROVE  [run EXCEPT !.quiesced = @ /\ ~o.ok] \in Locals
    BY DEF Locals
  <2> QED  BY <1>10, <2>1, AgentSignalType DEF ResumeQuiescedSteam, NoCall
<1>11. ASSUME NEW o
       PROVE  [run EXCEPT !.result = IF ~o.ok /\ @ = "OK"
                                     THEN "CLEANUP_INCOMPLETE" ELSE @] \in Locals
  BY DEF Locals, Results
<1>12. CASE StopStartedSteam
  BY <1>11, <1>12, StopSteamType DEF StopStartedSteam
<1>13. CASE ClearEnvironment
  <2>1. PICK o \in (IF run.env THEN clear_steam_overlay_test_environment(dev)
                    ELSE NoCall) :
          IF o.ok THEN dev' = o.dev /\ run' = run ELSE Abort(o.dev)
    BY <1>13 DEF ClearEnvironment
  <2>2. o.dev \in Device
    BY ClearEnvType DEF NoCall
  <2> QED  BY <2>1, <2>2, AbortType
<1>14. CASE RestoreControlCenter
  BY <1>11, <1>14, RestoreCCType DEF RestoreControlCenter, NoCall
<1>15. CASE ScoreThermal
  <2>1. ASSUME NEW safe \in BOOLEAN, NEW v \in Results
        PROVE  [run EXCEPT !.thermalValid = run.thermalValid /\ safe, !.result = v] \in Locals
    BY Zenon DEF Locals
  <2>2. ASSUME NEW scored
        PROVE  (IF run.result = "OK" /\ ~scored THEN "THERMAL_PRESSURE" ELSE run.result)
                 \in Results
    BY DEF Locals, Results
  <2> QED  BY Zenon, <1>15, <2>1, <2>2 DEF ScoreThermal
<1>16. CASE CloseAndWrite
  BY <1>16, AgentGoneType DEF CloseAndWrite
<1> QED  BY <1>1, <1>2, <1>3, <1>4, <1>5, <1>6, <1>7, <1>8, <1>9, <1>10, <1>12,
            <1>13, <1>14, <1>15, <1>16 DEF Cleanup

(* The failures of the finally block stay within their bound.                *)
LEMMA CleanupSlips ==
  ASSUME TypeOK, Cleanup
  PROVE  slips' \in 0..MaxSlips
<1> USE DEF TypeOK, Calm, Fails
<1>1. CASE ResumeRenderPath \/ ResumeGame \/ ResumeCooledSteam
  BY <1>1, SlipOutcome DEF ResumeRenderPath, ResumeGame, ResumeCooledSteam
<1>2. CASE ClearMarkers
  BY <1>2, SlipOutcome DEF ClearMarkers
<1>3. CASE RemoveAppid \/ ReleaseHeldLease \/ RemoveTraceMarkers
  BY <1>3, SlipOutcome DEF RemoveAppid, ReleaseHeldLease, RemoveTraceMarkers
<1>4. CASE FinalFatalCheck
  BY <1>4, SlipOutcome DEF FinalFatalCheck
<1>5. CASE TerminateGame
  BY <1>5, SlipOutcome DEF TerminateGame
<1>6. CASE ResumeQuiescedSteam \/ StopStartedSteam
  BY <1>6, SlipOutcome DEF ResumeQuiescedSteam, StopStartedSteam
<1>7. CASE ClearEnvironment \/ RestoreControlCenter
  BY <1>7, SlipOutcome DEF ClearEnvironment, RestoreControlCenter
<1>8. CASE ScoreThermal \/ CloseAndWrite
  BY Zenon, <1>8 DEF ScoreThermal, CloseAndWrite
<1> QED  BY <1>1, <1>2, <1>3, <1>4, <1>5, <1>6, <1>7, <1>8 DEF Cleanup

LEMMA DeviceMovesType ==
  ASSUME TypeOK, SteamSpawns \/ GameDies \/ AgentDies
  PROVE  dev' \in Device /\ late' \subseteq {"spawn", "fatal"}
<1> USE DEF TypeOK
<1>1. CASE SteamSpawns
  <2>1. dev.spawns \in 0..MaxSpawns /\ dev.spawns < MaxSpawns
    BY <1>1 DEF SteamSpawns, Device
  <2>2. dev.spawns + 1 \in 0..MaxSpawns
    BY <2>1, BoundAssumption
  <2>3. [dev EXCEPT !.game = "own", !.launching = FALSE, !.spawns = @ + 1] \in Device
    BY <2>2 DEF Device
  <2> QED  BY <1>1, <2>3 DEF SteamSpawns
<1>2. CASE GameDies
  <2>1. ASSUME NEW fatal \in BOOLEAN
        PROVE  [dev EXCEPT !.fatal = @ \/ fatal] \in Device
    BY DEF Device
  <2> QED  BY <1>2, <2>1, NoGameType DEF GameDies
<1>3. CASE AgentDies
  BY <1>3, AgentGoneType DEF AgentDies
<1> QED  BY <1>1, <1>2, <1>3

LEMMA TypeInit == Init => TypeOK
<1> SUFFICES ASSUME Init
             PROVE  TypeOK
  OBVIOUS
<1>1. /\ start.game \in {"none", "stale"}
      /\ start.steam \in {"none", "owner"}
      /\ start.cc \in BOOLEAN
      /\ start.render \in BOOLEAN
  BY DesktopAssumption DEF Init, InitialDevices
<1>2. dev \in Device
  BY <1>1, BoundAssumption DEF Init, Device
<1>3. run \in Locals
  BY DEF Init, NoLocals, Locals, Outcomes, Results
<1> QED  BY <1>2, <1>3, BoundAssumption DEF Init, TypeOK

LEMMA TypeStep == TypeOK /\ [Next]_vars => TypeOK'
<1> SUFFICES ASSUME TypeOK, [Next]_vars
             PROVE  TypeOK'
  OBVIOUS
<1>1. CASE (Prepare \/ Launch \/ Play) /\ UNCHANGED <<opt, start, late, slips>>
  <2>1. dev' \in Device /\ run' \in Locals
    BY <1>1, PrepareType, LaunchType, PlayType
  <2> QED  BY <1>1, <2>1 DEF TypeOK
<1>2. CASE Cleanup /\ UNCHANGED <<opt, start, late>>
  BY <1>2, CleanupType, CleanupSlips DEF TypeOK
<1>3. CASE SteamSpawns \/ GameDies \/ AgentDies
  <2>1. UNCHANGED <<pc, run, opt, start, slips>>
    BY <1>3 DEF SteamSpawns, GameDies, AgentDies
  <2> QED  BY <1>3, <2>1, DeviceMovesType DEF TypeOK
<1>4. CASE UNCHANGED vars
  BY <1>4 DEF TypeOK, vars
<1> QED  BY <1>1, <1>2, <1>3, <1>4 DEF Next

(* The device, the locals and the counters of a run have their types,        *)
(* whatever the arguments, the desktop and the bounds.                       *)
THEOREM TypeCorrect == Spec => []TypeOK
<1>1. Init => TypeOK
  BY TypeInit
<1>2. TypeOK /\ [Next]_vars => TypeOK'
  BY TypeStep
<1> QED  BY <1>1, <1>2, PTL DEF Spec

-----------------------------------------------------------------------------
(* What a call and a step leave alone.                                       *)

(* e is d but for the fields F.                                              *)
Kept(d, e, F) == \A f \in DOMAIN d \ F : e[f] = d[f]
DevOnly(F) == Kept(dev, dev', F)
RunOnly(F) == Kept(run, run', F)

SteamFields == {"steam", "launching", "stopped", "agentStopped"}

LEMMA SteamGoneKeeps ==
  ASSUME NEW d \in Device
  PROVE  Kept(d, SteamGone(d), SteamFields)
BY DEF SteamGone, Device, Kept, SteamFields

LEMMA StopSteamKeeps ==
  ASSUME NEW d \in Device, NEW o \in stop_steam_ui(d)
  PROVE  Kept(d, o.dev, SteamFields)
<1>1. o.dev \in {d, SteamGone(d)}
  BY AttemptOutcome DEF stop_steam_ui
<1> QED  BY <1>1, SteamGoneKeeps DEF Kept

LEMMA SteamLoadedKeeps ==
  ASSUME NEW d \in Device
  PROVE  Kept(d, SteamLoaded(d), SteamFields \cup {"appid"})
BY DEF SteamLoaded, Device, Kept, SteamFields

LEMMA EnsureSteamOutcome ==
  ASSUME NEW d \in Device, NEW o \in ensure_steam_ui(d)
  PROVE  o.dev \in { d, SteamLoaded(d), SteamLoaded(SteamGone(d)),
                     [SteamGone(d) EXCEPT !.appid = On("applaunch")] }
BY DEF ensure_steam_ui, Fails

LEMMA EnsureSteamKeeps ==
  ASSUME NEW d \in Device, NEW o \in ensure_steam_ui(d)
  PROVE  Kept(d, o.dev, SteamFields \cup {"appid"})
<1>1. SteamGone(d) \in Device
  BY SteamGoneType
<1>2. \A e \in Device : DOMAIN e = DOMAIN d
  BY DEF Device
<1>3. Kept(d, SteamLoaded(SteamGone(d)), SteamFields \cup {"appid"})
  BY <1>1, <1>2, SteamGoneKeeps, SteamLoadedKeeps DEF Kept
<1>4. Kept(SteamGone(d), [SteamGone(d) EXCEPT !.appid = On("applaunch")], {"appid"})
  BY <1>1 DEF Kept, Device
<1>5. Kept(d, [SteamGone(d) EXCEPT !.appid = On("applaunch")], SteamFields \cup {"appid"})
  BY <1>1, <1>2, <1>4, SteamGoneKeeps DEF Kept
<1>6. Kept(d, d, SteamFields \cup {"appid"})
  BY DEF Kept
<1> QED  BY <1>3, <1>5, <1>6, SteamLoadedKeeps, EnsureSteamOutcome

LEMMA CCKeeps ==
  ASSUME NEW d \in Device
  PROVE  /\ \A o \in suspend_control_center_for_game(d) : Kept(d, o.dev, {"cc"})
         /\ \A o \in restore_control_center_after_game(d) : Kept(d, o.dev, {"cc"})
<1>1. /\ Kept(d, [d EXCEPT !.cc = FALSE], {"cc"})
      /\ Kept(d, [d EXCEPT !.cc = TRUE], {"cc"})
      /\ Kept(d, d, {"cc"})
  BY DEF Kept, Device
<1> QED  BY <1>1, AttemptOutcome DEF suspend_control_center_for_game, Fails,
                                     restore_control_center_after_game

LEMMA EnvKeeps ==
  ASSUME NEW d \in Device
  PROVE  /\ \A o \in configure_steam_overlay_test_environment(d) : Kept(d, o.dev, {"env"})
         /\ \A o \in clear_steam_overlay_test_environment(d) : Kept(d, o.dev, {"env"})
<1>1. /\ Kept(d, [d EXCEPT !.env = FALSE], {"env"})
      /\ Kept(d, [d EXCEPT !.env = On("overlayEnv")], {"env"})
      /\ Kept(d, d, {"env"})
  BY DEF Kept, Device
<1> QED  BY <1>1, AttemptOutcome DEF configure_steam_overlay_test_environment,
                                     clear_steam_overlay_test_environment

LEMMA ApplaunchKeeps ==
  ASSUME NEW d \in Device, NEW o \in request_running_steam_applaunch(d)
  PROVE  Kept(d, o.dev, {"launching"})
<1>1. Kept(d, [d EXCEPT !.launching = TRUE], {"launching"}) /\ Kept(d, d, {"launching"})
  BY DEF Kept, Device
<1> QED  BY <1>1, AttemptOutcome DEF request_running_steam_applaunch

LEMMA PidsKeep ==
  ASSUME NEW d \in Device, NEW sig, NEW o \in signal_exact_pids(d, sig)
  PROVE  Kept(d, o.dev, {"stopped"})
<1>1. ASSUME NEW S
      PROVE  Kept(d, [d EXCEPT !.stopped = S], {"stopped"})
  BY DEF Kept, Device
<1> QED  BY <1>1, AttemptOutcome DEF signal_exact_pids, Kept

LEMMA RenderKeeps ==
  ASSUME NEW d \in Device, NEW sig, NEW o \in signal_exact_render_path(d, sig)
  PROVE  Kept(d, o.dev, {"stopped"})
<1>1. ASSUME NEW S
      PROVE  Kept(d, [d EXCEPT !.stopped = S], {"stopped"})
  BY DEF Kept, Device
<1> QED  BY <1>1, AttemptOutcome DEF signal_exact_render_path, Kept

LEMMA NoGameKeeps ==
  ASSUME NEW d \in Device
  PROVE  Kept(d, NoGame(d), {"game", "stopped", "agentStopped"})
BY DEF Kept, NoGame, Device

LEMMA LeaseKeeps ==
  ASSUME NEW d \in Device
  PROVE  /\ \A o \in acquire_gui_lease(d) : Kept(d, o.dev, {"lease"})
         /\ \A o \in release_gui_lease(d) : Kept(d, o.dev, {"lease"})
<1>1. /\ Kept(d, [d EXCEPT !.lease = TRUE], {"lease"})
      /\ Kept(d, [d EXCEPT !.lease = FALSE], {"lease"})
      /\ Kept(d, d, {"lease"})
  BY DEF Kept, Device
<1> QED  BY <1>1, AgentCallOutcome DEF acquire_gui_lease, release_gui_lease

LEMMA MarkersKeep ==
  ASSUME NEW d \in Device, NEW ms, NEW present, NEW o \in set_diagnostic_markers(d, ms, present)
  PROVE  Kept(d, o.dev, {"markers"})
<1>1. ASSUME NEW S
      PROVE  Kept(d, [d EXCEPT !.markers = S], {"markers"})
  BY DEF Kept, Device
<1> QED  BY <1>1, AgentCallOutcome DEF set_diagnostic_markers, Kept

LEMMA AgentSignalKeeps ==
  ASSUME NEW d \in Device, NEW who, NEW sig, NEW o \in AgentSignal(d, who, sig)
  PROVE  Kept(d, o.dev, {"stopped", "agentStopped"})
<1>1. ASSUME NEW S, NEW T
      PROVE  Kept(d, [d EXCEPT !.stopped = S, !.agentStopped = T], {"stopped", "agentStopped"})
  BY DEF Kept, Device
<1>2. o.dev = d \/ \E S, T : o.dev = [d EXCEPT !.stopped = S, !.agentStopped = T]
  <2>1. CASE sig = "STOP"
    <3>1. o.dev \in {d, [d EXCEPT !.stopped = @ \cup {who}, !.agentStopped = @ \cup {who}]}
      BY <2>1, AgentCallOutcome DEF AgentSignal
    <3> QED  BY Zenon, <3>1
  <2>2. CASE sig # "STOP"
    <3>1. o.dev \in {d, [d EXCEPT !.stopped = @ \ {who}, !.agentStopped = @ \ {who}]}
      BY <2>2, AgentCallOutcome DEF AgentSignal
    <3> QED  BY Zenon, <3>1
  <2> QED  BY Zenon, <2>1, <2>2
<1> QED  BY Zenon, <1>1, <1>2 DEF Kept

LEMMA ObserversKeep ==
  ASSUME NEW d \in Device, NEW o \in arm_game_launch_observers(d)
  PROVE  Kept(d, o.dev, {"agent"})
<1>1. Kept(d, [d EXCEPT !.agent = "live"], {"agent"}) /\ Kept(d, d, {"agent"})
  BY DEF Kept, Device
<1> QED  BY <1>1, AttemptOutcome DEF arm_game_launch_observers

LEMMA AgentGoneKeeps ==
  ASSUME NEW d \in Device, NEW state
  PROVE  Kept(d, AgentGone(d, state), {"agent", "stopped", "agentStopped", "lease"})
BY DEF Kept, AgentGone, Device

(* An exception only names the result.                                       *)
LEMMA ThrowKeeps ==
  ASSUME NEW r \in Locals, Throw(r)
  PROVE  Kept(r, run', {"result"})
<1>1. ASSUME NEW v
      PROVE  Kept(r, [r EXCEPT !.result = v], {"result"})
  BY DEF Kept, Locals
<1> QED  BY <1>1, ThrowType

LEMMA ThermalKeeps ==
  ASSUME NEW r \in Locals, NEW t \in thermal_checkpoint(r)
  PROVE  Kept(r, t.run, {"thermalValid"})
<1>1. Kept(r, [r EXCEPT !.thermalValid = FALSE], {"thermalValid"})
      /\ Kept(r, r, {"thermalValid"})
  BY DEF Kept, Locals
<1> QED  BY <1>1, ThermalType

LEMMA ThermalThrowKeeps ==
  ASSUME NEW r \in Locals, NEW t \in thermal_checkpoint(r), Throw(t.run)
  PROVE  Kept(r, run', {"thermalValid", "result"})
<1>1. t.run \in Locals /\ DOMAIN t.run = DOMAIN r
  BY ThermalType DEF Locals
<1> QED  BY <1>1, ThermalKeeps, ThrowKeeps DEF Kept

LEMMA OutcomeKeeps ==
  ASSUME NEW d, NEW r \in Locals, NEW next, wait_for_launch_outcome(d, r, next)
  PROVE  Kept(r, run', {"outcome", "pid"})
<1>1. ASSUME NEW o, NEW p
      PROVE  Kept(r, [r EXCEPT !.outcome = o, !.pid = p], {"outcome", "pid"})
  BY DEF Kept, Locals
<1>2. PICK o \in Outcomes, p \in BOOLEAN : run' = [r EXCEPT !.outcome = o, !.pid = p]
  BY Zenon, OutcomeType
<1> QED  BY Zenon, <1>1, <1>2

(* The fields of the device and the locals that a step of the body touches.  *)
LEMMA PrepareTouches ==
  ASSUME TypeOK
  PROVE  /\ ArmStreams \/ ApplySettings => DevOnly({}) /\ RunOnly({"result"})
         /\ PreflightOnly => DevOnly({"render"}) /\ RunOnly({"thermalValid", "result"})
         /\ RetireStaleGame => /\ DevOnly({"game", "stopped", "agentStopped"})
                               /\ RunOnly({"result"})
         /\ SuspendControlCenter => DevOnly({"cc"}) /\ RunOnly({"restoreCC", "result"})
         /\ SteamPreflightStart =>
              /\ DevOnly(SteamFields \cup {"appid", "render"})
              /\ RunOnly({"thermalValid", "started", "result"})
         /\ SteamPreflightReturn => /\ DevOnly({"stopped"})
                                    /\ RunOnly({"cooledBack", "retained", "result"})
         /\ SuspendSteamForCooling => DevOnly({"stopped"}) /\ RunOnly({"cooled", "result"})
         /\ SuspendRenderPath => DevOnly({"stopped"}) /\ RunOnly({"renderHeld", "result"})
         /\ InitialCooldown => DevOnly({"stopped"}) /\ RunOnly({"renderHeld", "result"})
         /\ PrepareEnvironment => /\ DevOnly(SteamFields \cup {"env"})
                                  /\ RunOnly({"env", "result"})
         /\ WorkspaceGate => /\ DevOnly({"render", "cc"})
                             /\ RunOnly({"thermalValid", "restoreCC", "result"})
         /\ ChooseMarkers => DevOnly({"markers"}) /\ RunOnly({"mine", "result"})
         /\ ResumeSteam => DevOnly({"stopped"}) /\ RunOnly({"cooledBack", "started", "result"})
<1> USE DEF TypeOK, DevOnly, RunOnly, Continue
<1>0. Kept(run, run, {}) /\ Kept(dev, dev, {})
  BY DEF Kept
<1>1. ASSUME ArmStreams \/ ApplySettings
      PROVE  DevOnly({}) /\ RunOnly({"result"})
  BY <1>0, <1>1, ThrowKeeps DEF ArmStreams, ApplySettings, Kept
<1>2. ASSUME PreflightOnly
      PROVE  DevOnly({"render"}) /\ RunOnly({"thermalValid", "result"})
  <2>1. DevOnly({"render"})
    BY <1>2 DEF PreflightOnly, Kept, Device
  <2>2. PICK t \in thermal_checkpoint(run) :
          Throw(t.run) \/ run' = [t.run EXCEPT !.result = "OK"]
    BY <1>2 DEF PreflightOnly
  <2>3. CASE Throw(t.run)
    BY <2>1, <2>3, ThermalThrowKeeps
  <2>4. CASE run' = [t.run EXCEPT !.result = "OK"]
    <3>1. t.run \in Locals /\ DOMAIN t.run = DOMAIN run
      BY ThermalType DEF Locals
    <3>2. Kept(t.run, run', {"result"})
      BY <2>4, <3>1 DEF Kept, Locals
    <3> QED  BY <2>1, <3>1, <3>2, ThermalKeeps DEF Kept
  <2> QED  BY <2>2, <2>3, <2>4
<1>3. ASSUME RetireStaleGame
      PROVE  DevOnly({"game", "stopped", "agentStopped"}) /\ RunOnly({"result"})
  <2>1. dev' \in {dev, NoGame(dev)}
    BY <1>3, TerminateType DEF RetireStaleGame
  <2>2. RunOnly({"result"})
    BY <1>0, <1>3, ThrowKeeps DEF RetireStaleGame, Kept
  <2> QED  BY <2>1, <2>2, NoGameKeeps DEF Kept
<1>4. ASSUME SuspendControlCenter
      PROVE  DevOnly({"cc"}) /\ RunOnly({"restoreCC", "result"})
  <2>1. DevOnly({"cc"})
    BY <1>0, <1>4, CCKeeps DEF SuspendControlCenter, Kept
  <2>2. Throw(run) \/ run' = run \/ run' = [run EXCEPT !.restoreCC = dev.cc]
    BY <1>4 DEF SuspendControlCenter
  <2>3. Kept(run, [run EXCEPT !.restoreCC = dev.cc], {"restoreCC"})
    BY DEF Kept, Locals
  <2> QED  BY <2>1, <2>2, <2>3, ThrowKeeps DEF Kept
<1>5. ASSUME SteamPreflightStart
      PROVE  /\ DevOnly(SteamFields \cup {"appid", "render"})
             /\ RunOnly({"thermalValid", "started", "result"})
  <2>1. PICK t \in thermal_checkpoint(run), o \in ensure_steam_ui(dev) :
          /\ dev' = dev \/ dev' = [o.dev EXCEPT !.render = @ \/ ~On("skipWorkspace")]
          /\ \/ Throw(run)
             \/ run' = [t.run EXCEPT !.started = dev.steam = "none"]
             \/ Throw([t.run EXCEPT !.started = dev.steam = "none"])
    BY <1>5 DEF SteamPreflightStart
  <2>2. o.dev \in Device /\ DOMAIN o.dev = DOMAIN dev
    BY EnsureSteamType DEF Device
  <2>3. Kept(o.dev, [o.dev EXCEPT !.render = @ \/ ~On("skipWorkspace")], {"render"})
    BY <2>2 DEF Kept, Device
  <2>4. DevOnly(SteamFields \cup {"appid", "render"})
    BY <1>0, <2>1, <2>2, <2>3, EnsureSteamKeeps DEF Kept
  <2> DEFINE r == [t.run EXCEPT !.started = dev.steam = "none"]
  <2>5. t.run \in Locals /\ DOMAIN t.run = DOMAIN run
    BY ThermalType DEF Locals
  <2>6. r \in Locals /\ DOMAIN r = DOMAIN run /\ Kept(t.run, r, {"started"})
    BY Zenon, <2>5 DEF Kept, Locals
  <2>7. Throw(run) \/ run' = r \/ Throw(r)
    BY <2>1
  <2> HIDE DEF r
  <2>8. Kept(run, r, {"thermalValid", "started"})
    BY <2>5, <2>6, ThermalKeeps DEF Kept
  <2> QED  BY <2>4, <2>6, <2>7, <2>8, ThrowKeeps DEF Kept
<1>6. ASSUME SteamPreflightReturn
      PROVE  DevOnly({"stopped"}) /\ RunOnly({"cooledBack", "retained", "result"})
  <2>1. DevOnly({"stopped"})
    BY <1>0, <1>6, PidsKeep DEF SteamPreflightReturn, Kept
  <2>2. Kept(run, [run EXCEPT !.cooledBack = TRUE, !.retained = TRUE, !.result = "OK"],
             {"cooledBack", "retained", "result"})
    BY DEF Kept, Locals
  <2>3. \/ Throw(run)
        \/ run' = [run EXCEPT !.cooledBack = TRUE, !.retained = TRUE, !.result = "OK"]
    BY <1>6 DEF SteamPreflightReturn
  <2> QED  BY <2>1, <2>2, <2>3, ThrowKeeps DEF Kept
<1>7. ASSUME SuspendSteamForCooling
      PROVE  DevOnly({"stopped"}) /\ RunOnly({"cooled", "result"})
  <2>1. DevOnly({"stopped"})
    BY <1>0, <1>7, PidsKeep DEF SuspendSteamForCooling, Kept
  <2> DEFINE r == [run EXCEPT !.cooled = dev.steam # "none"]
  <2>2. r \in Locals /\ DOMAIN r = DOMAIN run /\ Kept(run, r, {"cooled"})
    BY DEF Kept, Locals
  <2>3. Throw(run) \/ run' = run \/ run' = r \/ Throw(r)
    BY <1>7 DEF SuspendSteamForCooling
  <2> HIDE DEF r
  <2> QED  BY <2>1, <2>2, <2>3, ThrowKeeps DEF Kept
<1>8. ASSUME SuspendRenderPath
      PROVE  DevOnly({"stopped"}) /\ RunOnly({"renderHeld", "result"})
  <2>1. DevOnly({"stopped"})
    BY <1>0, <1>8, RenderKeeps DEF SuspendRenderPath, Kept
  <2>2. Kept(run, [run EXCEPT !.renderHeld = TRUE], {"renderHeld"})
    BY DEF Kept, Locals
  <2>3. Throw(run) \/ run' = run \/ run' = [run EXCEPT !.renderHeld = TRUE]
    BY <1>8 DEF SuspendRenderPath
  <2> QED  BY <2>1, <2>2, <2>3, ThrowKeeps DEF Kept
<1>9. ASSUME InitialCooldown
      PROVE  DevOnly({"stopped"}) /\ RunOnly({"renderHeld", "result"})
  <2>1. DevOnly({"stopped"})
    BY <1>0, <1>9, RenderKeeps DEF InitialCooldown, Kept
  <2>2. PICK v \in {"INCOMPLETE", "ERROR", "INTERRUPTED"} :
          \/ Throw(run)
          \/ Throw([run EXCEPT !.renderHeld = FALSE])
          \/ run' = [run EXCEPT !.result = v]
          \/ run' = [[run EXCEPT !.result = v] EXCEPT !.renderHeld = FALSE]
    BY <1>9 DEF InitialCooldown
  <2> DEFINE r == [run EXCEPT !.renderHeld = FALSE]
             q == [run EXCEPT !.result = v]
  <2>3. /\ r \in Locals /\ DOMAIN r = DOMAIN run /\ Kept(run, r, {"renderHeld"})
        /\ q \in Locals /\ DOMAIN q = DOMAIN run /\ Kept(run, q, {"result"})
    BY Zenon DEF Kept, Locals, Results
  <2>4. Throw(run) \/ Throw(r) \/ run' = q \/ run' = [q EXCEPT !.renderHeld = FALSE]
    BY <2>2
  <2> HIDE DEF r, q
  <2>5. Kept(q, [q EXCEPT !.renderHeld = FALSE], {"renderHeld"})
    BY <2>3 DEF Kept, Locals
  <2> QED  BY <2>1, <2>3, <2>4, <2>5, ThrowKeeps DEF Kept
<1>10. ASSUME PrepareEnvironment
       PROVE  DevOnly(SteamFields \cup {"env"}) /\ RunOnly({"env", "result"})
  <2>1. \/ dev' = dev
        \/ \E o \in stop_steam_ui(dev) : dev' = o.dev
        \/ \E o \in configure_steam_overlay_test_environment(dev) : dev' = o.dev
        \/ \E s \in stop_steam_ui(dev) :
             \E o \in configure_steam_overlay_test_environment(s.dev) : dev' = o.dev
    BY <1>10 DEF PrepareEnvironment
  <2>2. \A s \in stop_steam_ui(dev) : s.dev \in Device /\ DOMAIN s.dev = DOMAIN dev
    BY StopSteamType DEF Device
  <2>3. DevOnly(SteamFields \cup {"env"})
    BY <1>0, <2>1, <2>2, StopSteamKeeps, EnvKeeps DEF Kept
  <2>4. Throw(run) \/ run' = [run EXCEPT !.env = TRUE]
    BY <1>10 DEF PrepareEnvironment
  <2>5. Kept(run, [run EXCEPT !.env = TRUE], {"env"})
    BY DEF Kept, Locals
  <2> QED  BY <2>3, <2>4, <2>5, ThrowKeeps DEF Kept
<1>11. ASSUME WorkspaceGate
       PROVE  /\ DevOnly({"render", "cc"})
              /\ RunOnly({"thermalValid", "restoreCC", "result"})
  <2> DEFINE Up(b) == IF On("skipWorkspace") THEN dev
                      ELSE [dev EXCEPT !.render = TRUE, !.cc = @ \/ b]
  <2>1. ASSUME NEW b \in BOOLEAN
        PROVE  Up(b) \in Device /\ DOMAIN Up(b) = DOMAIN dev /\ Kept(dev, Up(b), {"render", "cc"})
    <3>1. [dev EXCEPT !.render = TRUE, !.cc = @ \/ b] \in Device
      BY DEF Device
    <3>2. Kept(dev, [dev EXCEPT !.render = TRUE, !.cc = @ \/ b], {"render", "cc"})
      BY DEF Device, Kept
    <3> QED  BY <1>0, <3>1, <3>2 DEF Device, Kept
  <2>2. PICK t \in thermal_checkpoint(run), b \in BOOLEAN :
          /\ dev' = Up(b) \/ \E o \in suspend_control_center_for_game(Up(b)) : dev' = o.dev
          /\ \/ Throw(t.run)
             \/ run' = t.run
             \/ run' = [t.run EXCEPT !.restoreCC = @ \/ Up(b).cc]
    BY Zenon, <1>11 DEF WorkspaceGate
  <2> HIDE DEF Up
  <2>3. DevOnly({"render", "cc"})
    BY <2>1, <2>2, CCKeeps DEF Kept
  <2>4. t.run \in Locals /\ DOMAIN t.run = DOMAIN run
    BY ThermalType DEF Locals
  <2>5. Kept(t.run, [t.run EXCEPT !.restoreCC = @ \/ Up(b).cc], {"restoreCC"})
    BY <2>4 DEF Kept, Locals
  <2> QED  BY <2>2, <2>3, <2>4, <2>5, ThermalKeeps, ThermalThrowKeeps DEF Kept
<1>12. ASSUME ChooseMarkers
       PROVE  DevOnly({"markers"}) /\ RunOnly({"mine", "result"})
  <2>1. DevOnly({"markers"})
    BY <1>12 DEF ChooseMarkers, Kept, Device
  <2> DEFINE r == [run EXCEPT !.mine = IF opt.mode = "handoff" THEN {} ELSE {"launch"}]
  <2>2. r \in Locals /\ DOMAIN r = DOMAIN run /\ Kept(run, r, {"mine"})
    BY DEF Kept, Locals
  <2>3. run' = r \/ Throw(r)
    BY <1>12 DEF ChooseMarkers
  <2> HIDE DEF r
  <2> QED  BY <2>1, <2>2, <2>3, ThrowKeeps DEF Kept
<1>13. ASSUME ResumeSteam
       PROVE  DevOnly({"stopped"}) /\ RunOnly({"cooledBack", "started", "result"})
  <2>1. DevOnly({"stopped"})
    BY <1>0, <1>13, PidsKeep DEF ResumeSteam, Kept
  <2> DEFINE r == [run EXCEPT !.cooledBack = run.cooled]
  <2>2. r \in Locals /\ DOMAIN r = DOMAIN run /\ Kept(run, r, {"cooledBack"})
    BY DEF Kept, Locals
  <2>3. Throw(run) \/ Throw(r) \/ run' = [r EXCEPT !.started = dev.steam = "none"]
    BY <1>13 DEF ResumeSteam
  <2> HIDE DEF r
  <2>4. Kept(r, [r EXCEPT !.started = dev.steam = "none"], {"started"})
    BY <2>2 DEF Kept, Locals
  <2> QED  BY <2>1, <2>2, <2>3, <2>4, ThrowKeeps DEF Kept
<1> QED  BY <1>1, <1>2, <1>3, <1>4, <1>5, <1>6, <1>7, <1>8, <1>9, <1>10, <1>11,
            <1>12, <1>13

LEMMA LaunchTouches ==
  ASSUME TypeOK
  PROVE  /\ ArmObservers => DevOnly({"agent"}) /\ RunOnly({"agent", "result"})
         /\ AcquireLease => DevOnly({"lease"}) /\ RunOnly({"lease", "result"})
         /\ PublishMarkers => DevOnly({"markers"}) /\ RunOnly({"armed", "result"})
         /\ EnsureSteam => /\ DevOnly(SteamFields \cup {"appid"})
                           /\ RunOnly({"thermalValid", "result"})
         /\ SelectGame => DevOnly({}) /\ RunOnly({"thermalValid", "byApplaunch", "result"})
         /\ CaptureIdentities => /\ DevOnly({"steam"})
                                 /\ RunOnly({"inventory", "signals", "result"})
         /\ RequestLaunch => DevOnly({"launching"}) /\ RunOnly({"result"})
         /\ AwaitLaunch => /\ DevOnly({})
                           /\ RunOnly({"thermalValid", "outcome", "pid", "result"})
         /\ RecoverMissingTask \/ RecoverStalledCloud =>
              /\ DevOnly(SteamFields \cup {"appid"})
              /\ RunOnly({"outcome", "pid", "result"})
         /\ ConfirmCloudWarning \/ ConfirmSessionHandoff =>
              DevOnly({}) /\ RunOnly({"outcome", "pid", "result"})
         /\ RetryAfterAppError49 =>
              DevOnly({"launching"}) /\ RunOnly({"outcome", "pid", "result"})
         /\ CheckLaunched => DevOnly({}) /\ RunOnly({"outcome", "result"})
<1> USE DEF TypeOK, DevOnly, RunOnly, Continue
<1>0. Kept(run, run, {}) /\ Kept(dev, dev, {})
  BY DEF Kept
<1>1. ASSUME ArmObservers
      PROVE  DevOnly({"agent"}) /\ RunOnly({"agent", "result"})
  <2>1. DevOnly({"agent"})
    BY <1>1, ObserversKeep DEF ArmObservers, Kept
  <2>2. Kept(run, [run EXCEPT !.agent = TRUE], {"agent"})
    BY DEF Kept, Locals
  <2>3. Throw(run) \/ run' = [run EXCEPT !.agent = TRUE]
    BY <1>1 DEF ArmObservers
  <2> QED  BY <2>1, <2>2, <2>3, ThrowKeeps DEF Kept
<1>2. ASSUME AcquireLease
      PROVE  DevOnly({"lease"}) /\ RunOnly({"lease", "result"})
  <2>1. DevOnly({"lease"})
    BY <1>0, <1>2, LeaseKeeps DEF AcquireLease, Kept
  <2>2. Kept(run, [run EXCEPT !.lease = TRUE], {"lease"})
    BY DEF Kept, Locals
  <2>3. Throw(run) \/ run' = run \/ run' = [run EXCEPT !.lease = TRUE]
    BY <1>2 DEF AcquireLease
  <2> QED  BY <2>1, <2>2, <2>3, ThrowKeeps DEF Kept
<1>3. ASSUME PublishMarkers
      PROVE  DevOnly({"markers"}) /\ RunOnly({"armed", "result"})
  <2>1. dev' = dev \/ \E o \in set_diagnostic_markers(dev, run.mine, TRUE) : dev' = o.dev
    BY <1>3 DEF PublishMarkers
  <2>2. DevOnly({"markers"})
    <3>1. ASSUME NEW o \in set_diagnostic_markers(dev, run.mine, TRUE)
          PROVE  Kept(dev, o.dev, {"markers"})
      BY MarkersKeep
    <3> QED  BY <1>0, <2>1, <3>1 DEF Kept
  <2>3. Kept(run, [run EXCEPT !.armed = TRUE], {"armed"})
    BY DEF Kept, Locals
  <2>4. Throw(run) \/ run' = run \/ run' = [run EXCEPT !.armed = TRUE]
    BY <1>3 DEF PublishMarkers
  <2> QED  BY <2>2, <2>3, <2>4, ThrowKeeps DEF Kept
<1>4. ASSUME EnsureSteam
      PROVE  DevOnly(SteamFields \cup {"appid"}) /\ RunOnly({"thermalValid", "result"})
  <2>1. DevOnly(SteamFields \cup {"appid"})
    BY <1>4, EnsureSteamKeeps DEF EnsureSteam
  <2>2. PICK t \in thermal_checkpoint(run) : Throw(t.run) \/ run' = t.run
    BY <1>4 DEF EnsureSteam
  <2> QED  BY <2>1, <2>2, ThermalKeeps, ThermalThrowKeeps DEF Kept
<1>5. ASSUME SelectGame
      PROVE  DevOnly({}) /\ RunOnly({"thermalValid", "byApplaunch", "result"})
  <2>1. PICK t \in thermal_checkpoint(run) :
          \/ Throw(t.run)
          \/ run' = [t.run EXCEPT !.byApplaunch = On("applaunch")]
          \/ run' = [t.run EXCEPT !.byApplaunch = TRUE]
    BY <1>5 DEF SelectGame
  <2>2. t.run \in Locals /\ DOMAIN t.run = DOMAIN run
    BY ThermalType DEF Locals
  <2>3. /\ Kept(t.run, [t.run EXCEPT !.byApplaunch = On("applaunch")], {"byApplaunch"})
        /\ Kept(t.run, [t.run EXCEPT !.byApplaunch = TRUE], {"byApplaunch"})
    BY <2>2 DEF Kept, Locals
  <2>4. dev' = dev
    BY <1>5 DEF SelectGame
  <2> QED  BY <1>0, <2>1, <2>2, <2>3, <2>4, ThermalKeeps, ThermalThrowKeeps DEF Kept
<1>6. ASSUME CaptureIdentities
      PROVE  DevOnly({"steam"}) /\ RunOnly({"inventory", "signals", "result"})
  <2>1. DevOnly({"steam"})
    BY <1>6 DEF CaptureIdentities, Kept, Device
  <2> DEFINE r == [run EXCEPT !.inventory = TRUE, !.signals = ~On("leave") \/ On("quiesce")]
             q == [run EXCEPT !.result = "READY_FOR_USER"]
  <2>2. Kept(run, r, {"inventory", "signals"}) /\ Kept(run, q, {"result"})
    BY DEF Kept, Locals
  <2>3. Throw(run) \/ run' = r \/ run' = q
    BY <1>6 DEF CaptureIdentities
  <2> HIDE DEF r, q
  <2> QED  BY <2>1, <2>2, <2>3, ThrowKeeps DEF Kept
<1>7. ASSUME RequestLaunch
      PROVE  DevOnly({"launching"}) /\ RunOnly({"result"})
  <2>1. DevOnly({"launching"})
    BY <1>0, <1>7, ApplaunchKeeps DEF RequestLaunch, Kept
  <2>2. Throw(run) \/ run' = run
    BY <1>7 DEF RequestLaunch
  <2> QED  BY <1>0, <2>1, <2>2, ThrowKeeps DEF Kept
<1>8. ASSUME AwaitLaunch
      PROVE  DevOnly({}) /\ RunOnly({"thermalValid", "outcome", "pid", "result"})
  <2>1. PICK t \in thermal_checkpoint(run) :
          Throw(t.run) \/ wait_for_launch_outcome(dev, t.run, "missing_task")
    BY <1>8 DEF AwaitLaunch
  <2>2. t.run \in Locals /\ DOMAIN t.run = DOMAIN run
    BY ThermalType DEF Locals
  <2>3. dev' = dev
    BY <1>8 DEF AwaitLaunch
  <2> QED  BY <1>0, <2>1, <2>2, <2>3, ThermalKeeps, ThermalThrowKeeps, OutcomeKeeps DEF Kept
<1>9. ASSUME NEW next, ReplaceOwner(next)
      PROVE  /\ DevOnly(SteamFields \cup {"appid"})
             /\ RunOnly({"outcome", "pid", "result"})
  <2>1. PICK s \in stop_steam_ui(dev) :
          \/ dev' = s.dev
          \/ \E o \in ensure_steam_ui(s.dev) : dev' = o.dev
    BY <1>9 DEF ReplaceOwner
  <2>2. s.dev \in Device /\ DOMAIN s.dev = DOMAIN dev
    BY StopSteamType DEF Device
  <2>3. DevOnly(SteamFields \cup {"appid"})
    BY <2>1, <2>2, StopSteamKeeps, EnsureSteamKeeps DEF Kept
  <2>4. Throw(run) \/ \E d : wait_for_launch_outcome(d, run, next)
    BY <1>9 DEF ReplaceOwner
  <2> QED  BY <2>3, <2>4, ThrowKeeps, OutcomeKeeps DEF Kept
<1>10. ASSUME RecoverMissingTask \/ RecoverStalledCloud
       PROVE  /\ DevOnly(SteamFields \cup {"appid"})
              /\ RunOnly({"outcome", "pid", "result"})
  <2>1. (dev' = dev /\ run' = run) \/ ReplaceOwner("stalled") \/ ReplaceOwner("cloud")
    BY <1>10 DEF RecoverMissingTask, RecoverStalledCloud
  <2>2. CASE dev' = dev /\ run' = run
    BY <1>0, <2>2 DEF Kept
  <2> QED  BY <2>1, <2>2, <1>9
<1>11. ASSUME ConfirmCloudWarning \/ ConfirmSessionHandoff
       PROVE  DevOnly({}) /\ RunOnly({"outcome", "pid", "result"})
  <2>1. dev' = dev
    BY <1>11 DEF ConfirmCloudWarning, ConfirmSessionHandoff, AnswerDialog
  <2>2. \/ Throw(run)
        \/ run' = run
        \/ \E next : wait_for_launch_outcome(dev, run, next)
    BY <1>11 DEF ConfirmCloudWarning, ConfirmSessionHandoff, AnswerDialog
  <2> QED  BY <1>0, <2>1, <2>2, ThrowKeeps, OutcomeKeeps DEF Kept
<1>12. ASSUME RetryAfterAppError49
       PROVE  DevOnly({"launching"}) /\ RunOnly({"outcome", "pid", "result"})
  <2>1. DevOnly({"launching"})
    BY <1>0, <1>12, ApplaunchKeeps DEF RetryAfterAppError49, Kept
  <2>2. \/ Throw(run)
        \/ run' = run
        \/ \E d : wait_for_launch_outcome(d, run, "launched")
    BY <1>12 DEF RetryAfterAppError49
  <2> QED  BY <1>0, <2>1, <2>2, ThrowKeeps, OutcomeKeeps DEF Kept
<1>13. ASSUME CheckLaunched
       PROVE  DevOnly({}) /\ RunOnly({"outcome", "result"})
  <2> DEFINE r == [run EXCEPT !.outcome = "none"]
  <2>1. r \in Locals /\ DOMAIN r = DOMAIN run /\ Kept(run, r, {"outcome"})
    BY DEF Kept, Locals, Outcomes
  <2>2. dev' = dev /\ (run' = r \/ Throw(r))
    BY <1>13 DEF CheckLaunched
  <2> HIDE DEF r
  <2> QED  BY <1>0, <2>1, <2>2, ThrowKeeps DEF Kept
<1> QED  BY <1>1, <1>2, <1>3, <1>4, <1>5, <1>6, <1>7, <1>8, <1>10, <1>11, <1>12, <1>13

LEMMA PlayTouches ==
  ASSUME TypeOK
  PROVE  /\ GameStarted \/ Evaluate \/ Classify => DevOnly({}) /\ RunOnly({"result"})
         /\ Settle \/ ProbeGate \/ TakeProcessSamples =>
              DevOnly({}) /\ RunOnly({"thermalValid", "result"})
         /\ ProgressToGameplay => DevOnly({}) /\ RunOnly({"thermalValid", "visual", "result"})
         /\ HoverProbe \/ HostHoverProbe \/ LongDragProbe \/ WalkProbe =>
              DevOnly({}) /\ RunOnly({"thermalValid", "seenFatal", "result"})
         /\ PreSample => DevOnly({}) /\ RunOnly({"thermalValid", "scored", "result"})
         /\ RetireMarkers => DevOnly({"markers"}) /\ RunOnly({"armed", "result"})
         /\ ReleaseLease => DevOnly({"lease"}) /\ RunOnly({"lease", "result"})
         /\ QuiesceSteam => /\ DevOnly({"stopped", "agentStopped"})
                            /\ RunOnly({"quiesced", "result"})
         /\ ActivateDirectDrawable => /\ DevOnly({"lease", "markers"})
                                      /\ RunOnly({"mine", "result"})
         /\ CoolGame \/ CoolGameResume => /\ DevOnly({"stopped", "agentStopped"})
                                          /\ RunOnly({"gameHeld", "result"})
         /\ CoolGameWait \/ CoolGameRenderResume => /\ DevOnly({"stopped"})
                                                    /\ RunOnly({"renderHeld", "result"})
         /\ CaptureTargets \/ RetireTargets \/ StartTraceCapture =>
              DevOnly({"markers"}) /\ RunOnly({"result"})
         /\ SampleLoop => /\ DevOnly({"markers"})
                          /\ RunOnly({"thermalValid", "scored", "seenFatal", "result"})
<1> USE DEF TypeOK, DevOnly, RunOnly, Continue
<1>0. Kept(run, run, {}) /\ Kept(dev, dev, {})
  BY DEF Kept
<1>1. ASSUME GameStarted \/ Evaluate \/ Classify
      PROVE  DevOnly({}) /\ RunOnly({"result"})
  <2>1. dev' = dev
    BY <1>1 DEF GameStarted, Evaluate, Classify
  <2>2. Throw(run) \/ run' = run \/ \E v : run' = [run EXCEPT !.result = v]
    BY <1>1 DEF GameStarted, Evaluate, Classify
  <2>3. ASSUME NEW v
        PROVE  Kept(run, [run EXCEPT !.result = v], {"result"})
    BY DEF Kept, Locals
  <2> QED  BY <1>0, <2>1, <2>2, <2>3, ThrowKeeps DEF Kept
<1>2. ASSUME Settle \/ ProbeGate \/ TakeProcessSamples
      PROVE  DevOnly({}) /\ RunOnly({"thermalValid", "result"})
  <2>1. dev' = dev
    BY <1>2 DEF Settle, ProbeGate, TakeProcessSamples
  <2>2. PICK t \in thermal_checkpoint(run) :
          Throw(t.run) \/ run' = t.run \/ Throw([t.run EXCEPT !.result = "STALL"])
    BY <1>2 DEF Settle, ProbeGate, TakeProcessSamples
  <2>3. t.run \in Locals /\ DOMAIN t.run = DOMAIN run
    BY ThermalType DEF Locals
  <2> DEFINE r == [t.run EXCEPT !.result = "STALL"]
  <2>4. r \in Locals /\ DOMAIN r = DOMAIN run /\ Kept(t.run, r, {"result"})
    BY <2>3 DEF Kept, Locals, Results
  <2>5. Throw(t.run) \/ run' = t.run \/ Throw(r)
    BY <2>2
  <2> HIDE DEF r
  <2> QED  BY <1>0, <2>1, <2>3, <2>4, <2>5, ThrowKeeps, ThermalKeeps, ThermalThrowKeeps DEF Kept
<1>3. ASSUME ProgressToGameplay
      PROVE  DevOnly({}) /\ RunOnly({"thermalValid", "visual", "result"})
  <2>1. dev' = dev
    BY <1>3 DEF ProgressToGameplay
  <2>2. PICK t \in thermal_checkpoint(run), reached \in BOOLEAN :
          Throw(t.run) \/ run' = [t.run EXCEPT !.visual = reached /\ On("progress")]
    BY <1>3 DEF ProgressToGameplay
  <2>3. t.run \in Locals /\ DOMAIN t.run = DOMAIN run
    BY ThermalType DEF Locals
  <2>4. Kept(t.run, [t.run EXCEPT !.visual = reached /\ On("progress")], {"visual"})
    BY <2>3 DEF Kept, Locals
  <2> QED  BY <1>0, <2>1, <2>2, <2>3, <2>4, ThermalKeeps, ThermalThrowKeeps DEF Kept
<1>4. ASSUME NEW here, NEW next, NEW verdicts, Probe(here, next, verdicts),
             verdicts \subseteq Results
      PROVE  DevOnly({}) /\ RunOnly({"thermalValid", "seenFatal", "result"})
  <2>1. dev' = dev
    BY Zenon, <1>4 DEF Probe
  <2>2. CASE run' = run
    BY <1>0, <2>1, <2>2 DEF Kept
  <2>3. ASSUME NEW t \in thermal_checkpoint(run), NEW v \in verdicts,
               \/ Throw(t.run)
               \/ run' = t.run
               \/ Throw([t.run EXCEPT !.result = v, !.seenFatal = @ \/ v # "STALL"])
        PROVE  RunOnly({"thermalValid", "seenFatal", "result"})
    <3>1. t.run \in Locals /\ DOMAIN t.run = DOMAIN run
      BY ThermalType DEF Locals
    <3> DEFINE r == [t.run EXCEPT !.result = v, !.seenFatal = @ \/ v # "STALL"]
    <3>2. r \in Locals /\ DOMAIN r = DOMAIN run /\ Kept(t.run, r, {"result", "seenFatal"})
      BY <1>4, <3>1 DEF Kept, Locals
    <3>3. Throw(t.run) \/ run' = t.run \/ Throw(r)
      BY <2>3
    <3> HIDE DEF r
    <3> QED  BY <3>1, <3>2, <3>3, ThrowKeeps, ThermalKeeps, ThermalThrowKeeps DEF Kept
  <2>4. ASSUME NEW t \in thermal_checkpoint(run), Throw(t.run) \/ run' = t.run
        PROVE  RunOnly({"thermalValid", "seenFatal", "result"})
    BY <2>4, ThermalKeeps, ThermalThrowKeeps DEF Kept
  <2>5. \/ run' = run
        \/ \E t \in thermal_checkpoint(run) :
             \/ Throw(t.run) \/ run' = t.run
             \/ \E v \in verdicts :
                  Throw([t.run EXCEPT !.result = v, !.seenFatal = @ \/ v # "STALL"])
    BY Zenon, <1>4 DEF Probe
  <2> QED  BY Zenon, <1>0, <2>1, <2>2, <2>3, <2>4, <2>5
<1>5. ASSUME HoverProbe \/ HostHoverProbe \/ LongDragProbe \/ WalkProbe
      PROVE  DevOnly({}) /\ RunOnly({"thermalValid", "seenFatal", "result"})
  BY <1>4, <1>5 DEF HoverProbe, HostHoverProbe, LongDragProbe, WalkProbe, Results
<1>6. ASSUME PreSample
      PROVE  DevOnly({}) /\ RunOnly({"thermalValid", "scored", "result"})
  <2>1. PICK safe \in BOOLEAN, nominal \in BOOLEAN :
          LET r == [run EXCEPT !.thermalValid = @ /\ safe,
                               !.scored = IF nominal THEN "yes" ELSE "no"]
          IN  run' = r \/ Throw(r)
    BY Zenon, <1>6 DEF PreSample
  <2> DEFINE r == [run EXCEPT !.thermalValid = @ /\ safe,
                              !.scored = IF nominal THEN "yes" ELSE "no"]
  <2>2. ASSUME NEW v \in {"none", "yes", "no"}
        PROVE  LET q == [run EXCEPT !.thermalValid = @ /\ safe, !.scored = v]
               IN  q \in Locals /\ DOMAIN q = DOMAIN run /\ Kept(run, q, {"thermalValid", "scored"})
    <3> DEFINE q == [run EXCEPT !.thermalValid = @ /\ safe, !.scored = v]
    <3>1. q \in Locals
      BY Zenon, ScoredType
    <3>2. DOMAIN q = DOMAIN run
      OBVIOUS
    <3>3. Kept(run, q, {"thermalValid", "scored"})
      BY DEF Kept, Locals
    <3> QED  BY <3>1, <3>2, <3>3
  <2>3. r \in Locals /\ DOMAIN r = DOMAIN run /\ Kept(run, r, {"thermalValid", "scored"})
    BY <2>2
  <2>4. run' = r \/ Throw(r)
    BY <2>1
  <2>5. dev' = dev
    BY <1>6 DEF PreSample
  <2> HIDE DEF r
  <2> QED  BY <1>0, <2>3, <2>4, <2>5, ThrowKeeps DEF Kept
<1>7. ASSUME RetireMarkers
      PROVE  DevOnly({"markers"}) /\ RunOnly({"armed", "result"})
  <2>1. \E o \in set_diagnostic_markers(dev, run.mine, FALSE) : dev' = o.dev
    BY <1>7 DEF RetireMarkers
  <2>2. DevOnly({"markers"})
    <3>1. ASSUME NEW o \in set_diagnostic_markers(dev, run.mine, FALSE)
          PROVE  Kept(dev, o.dev, {"markers"})
      BY MarkersKeep
    <3> QED  BY <2>1, <3>1 DEF Kept
  <2>3. Kept(run, [run EXCEPT !.armed = FALSE], {"armed"})
    BY DEF Kept, Locals
  <2>4. Throw(run) \/ run' = [run EXCEPT !.armed = FALSE]
    BY <1>7 DEF RetireMarkers
  <2> QED  BY <2>2, <2>3, <2>4, ThrowKeeps DEF Kept
<1>8. ASSUME ReleaseLease
      PROVE  DevOnly({"lease"}) /\ RunOnly({"lease", "result"})
  <2>1. DevOnly({"lease"})
    BY <1>8, LeaseKeeps DEF ReleaseLease
  <2>2. Kept(run, [run EXCEPT !.lease = FALSE], {"lease"})
    BY DEF Kept, Locals
  <2>3. Throw(run) \/ run' = [run EXCEPT !.lease = FALSE]
    BY <1>8 DEF ReleaseLease
  <2> QED  BY <2>1, <2>2, <2>3, ThrowKeeps DEF Kept
<1>9. ASSUME QuiesceSteam
      PROVE  DevOnly({"stopped", "agentStopped"}) /\ RunOnly({"quiesced", "result"})
  <2>1. dev' = dev \/ \E o \in AgentSignal(dev, "steam", "STOP") : dev' = o.dev
    BY <1>9 DEF QuiesceSteam, quiesce_known_steam_ui, Fails
  <2>2. DevOnly({"stopped", "agentStopped"})
    BY <1>0, <2>1, AgentSignalKeeps DEF Kept
  <2> DEFINE r == [run EXCEPT !.quiesced = TRUE]
  <2>3. r \in Locals /\ DOMAIN r = DOMAIN run /\ Kept(run, r, {"quiesced"})
    BY DEF Kept, Locals
  <2>4. Throw(run) \/ run' = run \/ run' = r \/ Throw(r)
    BY <1>9 DEF QuiesceSteam
  <2> HIDE DEF r
  <2> QED  BY <1>0, <2>2, <2>3, <2>4, ThrowKeeps DEF Kept
<1>10. ASSUME ActivateDirectDrawable
       PROVE  DevOnly({"lease", "markers"}) /\ RunOnly({"mine", "result"})
  <2>1. ASSUME NEW a \in acquire_gui_lease(dev)
        PROVE  a.dev \in Device /\ DOMAIN a.dev = DOMAIN dev /\ Kept(dev, a.dev, {"lease"})
    BY <2>1, AcquireType, LeaseKeeps DEF Device
  <2>2. ASSUME NEW a \in acquire_gui_lease(dev),
               NEW m \in set_diagnostic_markers(a.dev, {"active"}, TRUE)
        PROVE  /\ m.dev \in Device /\ DOMAIN m.dev = DOMAIN dev
               /\ Kept(dev, m.dev, {"lease", "markers"})
    <3>1. m.dev \in Device /\ Kept(a.dev, m.dev, {"markers"})
      BY <2>1, MarkersType, MarkersKeep
    <3>2. DOMAIN m.dev = DOMAIN dev
      BY <3>1 DEF Device
    <3> QED  BY <2>1, <3>1, <3>2 DEF Kept
  <2>3. ASSUME NEW a \in acquire_gui_lease(dev),
               NEW m \in set_diagnostic_markers(a.dev, {"active"}, TRUE),
               NEW b \in release_gui_lease(m.dev)
        PROVE  Kept(dev, b.dev, {"lease", "markers"})
    <3>1. Kept(m.dev, b.dev, {"lease"})
      BY <2>2, LeaseKeeps
    <3> QED  BY <2>2, <3>1 DEF Kept
  <2>4. \/ dev' = dev
        \/ \E a \in acquire_gui_lease(dev) :
             \/ dev' = a.dev
             \/ \E m \in set_diagnostic_markers(a.dev, {"active"}, TRUE) :
                  \E b \in release_gui_lease(m.dev) : dev' = b.dev
    BY <1>10 DEF ActivateDirectDrawable
  <2>5. DevOnly({"lease", "markers"})
    <3>1. CASE dev' = dev
      BY <1>0, <3>1 DEF Kept
    <3>2. CASE \E a \in acquire_gui_lease(dev) : dev' = a.dev
      BY <2>1, <3>2 DEF Kept
    <3>3. CASE \E a \in acquire_gui_lease(dev) :
                 \E m \in set_diagnostic_markers(a.dev, {"active"}, TRUE) :
                   \E b \in release_gui_lease(m.dev) : dev' = b.dev
      BY <2>3, <3>3
    <3> QED  BY <2>4, <3>1, <3>2, <3>3
  <2> DEFINE r == [run EXCEPT !.mine = @ \cup {"active"}]
  <2>6. r \in Locals /\ DOMAIN r = DOMAIN run /\ Kept(run, r, {"mine"})
    BY DEF Kept, Locals
  <2>7. Throw(run) \/ run' = run \/ run' = r \/ Throw(r)
    BY <1>10 DEF ActivateDirectDrawable
  <2> HIDE DEF r
  <2> QED  BY <1>0, <2>5, <2>6, <2>7, ThrowKeeps DEF Kept
<1>11. ASSUME CoolGame \/ CoolGameResume
       PROVE  DevOnly({"stopped", "agentStopped"}) /\ RunOnly({"gameHeld", "result"})
  <2>1. dev' = dev \/ \E sig : \E o \in AgentSignal(dev, "game", sig) : dev' = o.dev
    BY <1>11 DEF CoolGame, CoolGameResume
  <2>2. DevOnly({"stopped", "agentStopped"})
    BY <1>0, <2>1, AgentSignalKeeps DEF Kept
  <2>3. ASSUME NEW v \in BOOLEAN
        PROVE  LET r == [run EXCEPT !.gameHeld = v]
               IN  r \in Locals /\ DOMAIN r = DOMAIN run /\ Kept(run, r, {"gameHeld"})
    BY DEF Kept, Locals
  <2>4. \/ Throw(run) \/ run' = run
        \/ \E v \in BOOLEAN : LET r == [run EXCEPT !.gameHeld = v] IN run' = r \/ Throw(r)
    <3>1. CASE CoolGame
      BY <3>1 DEF CoolGame
    <3>2. ASSUME NEW o
          PROVE  (~o.ok) \in BOOLEAN
      OBVIOUS
    <3>3. CASE CoolGameResume
      BY <3>2, <3>3 DEF CoolGameResume
    <3> QED  BY <1>11, <3>1, <3>3
  <2> QED  BY <1>0, <2>2, <2>3, <2>4, ThrowKeeps DEF Kept
<1>12. ASSUME CoolGameWait
       PROVE  DevOnly({"stopped"}) /\ RunOnly({"renderHeld", "result"})
  <2>1. DevOnly({"stopped"})
    BY <1>0, <1>12, RenderKeeps DEF CoolGameWait, Kept
  <2>2. \E v :
          \/ run' = [run EXCEPT !.result = v]
          \/ run' = [[run EXCEPT !.renderHeld = TRUE] EXCEPT !.result = v]
    BY Zenon, <1>12 DEF CoolGameWait
  <2> DEFINE r == [run EXCEPT !.renderHeld = TRUE]
  <2>3. r \in Locals /\ DOMAIN r = DOMAIN run /\ Kept(run, r, {"renderHeld"})
    BY DEF Kept, Locals
  <2>4. ASSUME NEW q \in Locals, NEW v
        PROVE  Kept(q, [q EXCEPT !.result = v], {"result"})
    BY DEF Kept, Locals
  <2>5. \E v : run' = [run EXCEPT !.result = v] \/ run' = [r EXCEPT !.result = v]
    BY Zenon, <2>2
  <2> HIDE DEF r
  <2> QED  BY <2>1, <2>3, <2>4, <2>5 DEF Kept
<1>13. ASSUME CoolGameRenderResume
       PROVE  DevOnly({"stopped"}) /\ RunOnly({"renderHeld", "result"})
  <2>1. DevOnly({"stopped"})
    <3>1. dev' = dev \/ \E o \in signal_exact_render_path(dev, "CONT") : dev' = o.dev
      BY <1>13 DEF CoolGameRenderResume
    <3> QED  BY <1>0, <3>1, RenderKeeps DEF Kept
  <2>2. ASSUME NEW o
        PROVE  LET r == [run EXCEPT !.renderHeld = ~o.ok]
               IN  r \in Locals /\ DOMAIN r = DOMAIN run /\ Kept(run, r, {"renderHeld"})
    BY DEF Kept, Locals
  <2>3. \/ run' = run
        \/ \E o : LET r == [run EXCEPT !.renderHeld = ~o.ok] IN Throw(r) \/ run' = r
    BY <1>13 DEF CoolGameRenderResume
  <2> QED  BY <1>0, <2>1, <2>2, <2>3, ThrowKeeps DEF Kept
<1>14. ASSUME CaptureTargets \/ RetireTargets
       PROVE  DevOnly({"markers"}) /\ RunOnly({"result"})
  <2>1. dev' = dev \/ \E ms, p : \E o \in set_diagnostic_markers(dev, ms, p) : dev' = o.dev
    BY <1>14 DEF CaptureTargets, RetireTargets
  <2>2. Throw(run) \/ run' = run
    BY <1>14 DEF CaptureTargets, RetireTargets
  <2> QED  BY <1>0, <2>1, <2>2, ThrowKeeps, MarkersKeep DEF Kept
<1>15. ASSUME StartTraceCapture
       PROVE  DevOnly({"markers"}) /\ RunOnly({"result"})
  <2>1. dev' \in {dev, [dev EXCEPT !.markers = @ \cup {"capture"}]}
    BY <1>15, AttemptOutcome DEF StartTraceCapture
  <2>2. DevOnly({"markers"})
    BY <2>1 DEF Kept, Device
  <2>3. Throw(run) \/ run' = run
    BY <1>15 DEF StartTraceCapture
  <2> QED  BY <1>0, <2>2, <2>3, ThrowKeeps DEF Kept
<1>16. ASSUME SampleLoop
       PROVE  /\ DevOnly({"markers"})
              /\ RunOnly({"thermalValid", "scored", "seenFatal", "result"})
  <2>1. PICK safe \in BOOLEAN, nominal \in BOOLEAN : SampleLoop!2!(safe, nominal)
    BY Zenon, <1>16 DEF SampleLoop
  <2>2. dev' = dev \/ \E o \in Attempt(dev, [dev EXCEPT !.markers = @ \ {"capture"}]) :
                       dev' = o.dev
    BY <2>1
  <2>3. dev' \in {dev, [dev EXCEPT !.markers = @ \ {"capture"}]}
    BY <2>2, AttemptOutcome
  <2>4. DevOnly({"markers"})
    BY <2>3 DEF Kept, Device
  <2> DEFINE r == [run EXCEPT !.thermalValid = @ /\ safe,
                              !.scored = IF nominal THEN @ ELSE "no"]
  <2>8. ASSUME NEW v \in {"none", "yes", "no"}
        PROVE  LET q == [run EXCEPT !.thermalValid = @ /\ safe, !.scored = v]
               IN  q \in Locals /\ DOMAIN q = DOMAIN run /\ Kept(run, q, {"thermalValid", "scored"})
    <3> DEFINE q == [run EXCEPT !.thermalValid = @ /\ safe, !.scored = v]
    <3>1. q \in Locals
      BY Zenon, ScoredType
    <3>2. DOMAIN q = DOMAIN run
      OBVIOUS
    <3>3. Kept(run, q, {"thermalValid", "scored"})
      BY DEF Kept, Locals
    <3> QED  BY <3>1, <3>2, <3>3
  <2>9. run.scored \in {"none", "yes", "no"}
    BY DEF Locals
  <2>5. r \in Locals /\ DOMAIN r = DOMAIN run /\ Kept(run, r, {"thermalValid", "scored"})
    BY <2>8, <2>9
  <2>6. \/ run' = r
        \/ run' = [r EXCEPT !.result = "GAME_EXITED"]
        \/ run' = [r EXCEPT !.result = "GAME_FATAL", !.seenFatal = TRUE]
        \/ Throw(run)
    BY <2>1
  <2> HIDE DEF r
  <2>7. /\ Kept(r, [r EXCEPT !.result = "GAME_EXITED"], {"result"})
        /\ Kept(r, [r EXCEPT !.result = "GAME_FATAL", !.seenFatal = TRUE],
                {"result", "seenFatal"})
    BY <2>5 DEF Kept, Locals
  <2> QED  BY <2>4, <2>5, <2>6, <2>7, ThrowKeeps DEF Kept
<1> QED  BY <1>1, <1>2, <1>3, <1>5, <1>6, <1>7, <1>8, <1>9, <1>10, <1>11, <1>12,
            <1>13, <1>14, <1>15, <1>16

(* The same for the finally block and for what moves on its own.             *)
GoneFields == {"agent", "stopped", "agentStopped", "lease"}

LEMMA AbortKeeps ==
  ASSUME TypeOK, NEW d \in Device, Abort(d)
  PROVE  Kept(d, dev', GoneFields) /\ run' = run /\ pc' = "aborted"
BY AgentGoneKeeps DEF Abort, Continue, Kept, GoneFields

LEMMA CleanupTouches ==
  ASSUME TypeOK
  PROVE  /\ ResumeRenderPath => DevOnly({"stopped"}) /\ RunOnly({"renderHeld"})
         /\ ResumeGame => DevOnly({"stopped", "agentStopped"}) /\ RunOnly({"gameHeld"})
         /\ ResumeCooledSteam => DevOnly({"stopped"}) /\ RunOnly({"cooledBack"})
         /\ ClearMarkers => DevOnly({"markers"}) /\ RunOnly({"armed"})
         /\ RemoveAppid => DevOnly({"appid"}) /\ RunOnly({})
         /\ ReleaseHeldLease => DevOnly({"lease"}) /\ RunOnly({"lease"})
         /\ RemoveTraceMarkers => DevOnly(GoneFields \cup {"markers"}) /\ RunOnly({})
         /\ FinalFatalCheck => DevOnly({}) /\ RunOnly({"seenFatal", "result"})
         /\ TerminateGame => /\ DevOnly({"game", "stopped", "agentStopped"})
                             /\ RunOnly({"confirmed", "result"})
         /\ ResumeQuiescedSteam => /\ DevOnly({"stopped", "agentStopped"})
                                   /\ RunOnly({"quiesced"})
         /\ StopStartedSteam => DevOnly(SteamFields) /\ RunOnly({"result"})
         /\ ClearEnvironment => DevOnly(GoneFields \cup {"env"}) /\ RunOnly({})
         /\ RestoreControlCenter => DevOnly({"cc"}) /\ RunOnly({"result"})
         /\ ScoreThermal => DevOnly({}) /\ RunOnly({"thermalValid", "result"})
         /\ CloseAndWrite => DevOnly(GoneFields) /\ RunOnly({})
<1> USE DEF TypeOK, DevOnly, RunOnly, Continue
<1>0. Kept(run, run, {}) /\ Kept(dev, dev, {})
  BY DEF Kept
<1>1. ASSUME ResumeRenderPath
      PROVE  DevOnly({"stopped"}) /\ RunOnly({"renderHeld"})
  <2>1. dev' = dev \/ \E o \in signal_exact_render_path(dev, "CONT") : dev' = o.dev
    BY <1>1 DEF ResumeRenderPath, NoCall
  <2>2. \E v : run' = [run EXCEPT !.renderHeld = v]
    BY <1>1 DEF ResumeRenderPath
  <2>3. RunOnly({"renderHeld"})
    BY <2>2 DEF Kept, Locals
  <2> QED  BY <1>0, <2>1, <2>3, RenderKeeps DEF Kept
<1>2. ASSUME ResumeGame
      PROVE  DevOnly({"stopped", "agentStopped"}) /\ RunOnly({"gameHeld"})
  <2>1. dev' = dev \/ \E o \in AgentSignal(dev, "game", "CONT") : dev' = o.dev
    BY <1>2 DEF ResumeGame, NoCall
  <2>2. \E v : run' = [run EXCEPT !.gameHeld = v]
    BY <1>2 DEF ResumeGame
  <2>3. RunOnly({"gameHeld"})
    BY <2>2 DEF Kept, Locals
  <2> QED  BY <1>0, <2>1, <2>3, AgentSignalKeeps DEF Kept
<1>3. ASSUME ResumeCooledSteam
      PROVE  DevOnly({"stopped"}) /\ RunOnly({"cooledBack"})
  <2>1. dev' = dev \/ \E o \in signal_exact_pids(dev, "CONT") : dev' = o.dev
    BY <1>3 DEF ResumeCooledSteam, NoCall
  <2>2. \E v : run' = [run EXCEPT !.cooledBack = v]
    BY <1>3 DEF ResumeCooledSteam
  <2>3. RunOnly({"cooledBack"})
    BY <2>2 DEF Kept, Locals
  <2> QED  BY <1>0, <2>1, <2>3, PidsKeep DEF Kept
<1>4. ASSUME ClearMarkers
      PROVE  DevOnly({"markers"}) /\ RunOnly({"armed"})
  <2>1. ASSUME NEW a \in IF run.agent THEN set_diagnostic_markers(dev, MarkersToClear, FALSE)
                         ELSE {Fails(dev)}
        PROVE  a.dev \in Device /\ DOMAIN a.dev = DOMAIN dev /\ Kept(dev, a.dev, {"markers"})
    <3>1. MarkersToClear \in SUBSET {"launch", "active", "target", "capture"}
      BY DEF Locals, MarkersToClear
    <3>2. CASE run.agent
      <4>1. a \in set_diagnostic_markers(dev, MarkersToClear, FALSE)
        BY <3>2
      <4>2. a.dev \in Device
        BY <3>1, <4>1, MarkersType
      <4>3. Kept(dev, a.dev, {"markers"})
        BY <4>1, MarkersKeep
      <4> QED  BY <4>2, <4>3 DEF Device
    <3>3. CASE ~run.agent
      BY <1>0, <3>3 DEF Fails, Kept, Device
    <3> QED  BY <3>2, <3>3
  <2>2. ASSUME NEW d \in Device, NEW o \in Attempt(d, [d EXCEPT !.markers = @ \ MarkersToClear])
        PROVE  Kept(d, o.dev, {"markers"})
    <3>1. o.dev \in {d, [d EXCEPT !.markers = @ \ MarkersToClear]}
      BY AttemptOutcome
    <3> QED  BY <3>1 DEF Kept, Device
  <2>3. DevOnly({"markers"})
    <3>1. \/ dev' = dev
          \/ \E a \in IF run.agent THEN set_diagnostic_markers(dev, MarkersToClear, FALSE)
                    ELSE {Fails(dev)} :
               \/ dev' = a.dev
               \/ \E o \in Attempt(a.dev, [a.dev EXCEPT !.markers = @ \ MarkersToClear]) :
                    dev' = o.dev
      BY <1>4 DEF ClearMarkers
    <3>2. CASE dev' = dev
      BY <1>0, <3>2 DEF Kept
    <3>3. CASE dev' # dev
      <4>1. PICK a \in IF run.agent THEN set_diagnostic_markers(dev, MarkersToClear, FALSE)
                       ELSE {Fails(dev)} :
              \/ dev' = a.dev
              \/ \E o \in Attempt(a.dev, [a.dev EXCEPT !.markers = @ \ MarkersToClear]) :
                   dev' = o.dev
        BY <3>1, <3>3
      <4>2. a.dev \in Device /\ DOMAIN a.dev = DOMAIN dev /\ Kept(dev, a.dev, {"markers"})
        BY <2>1
      <4>3. CASE dev' = a.dev
        BY <4>2, <4>3
      <4>4. ASSUME NEW o \in Attempt(a.dev, [a.dev EXCEPT !.markers = @ \ MarkersToClear])
            PROVE  Kept(dev, o.dev, {"markers"})
        <5>1. Kept(a.dev, o.dev, {"markers"})
          BY <2>2, <4>2
        <5> QED  BY <4>2, <5>1 DEF Kept
      <4> QED  BY <4>1, <4>3, <4>4
    <3> QED  BY <3>2, <3>3
  <2>4. run' = run \/ run' = [run EXCEPT !.armed = FALSE]
    BY <1>4 DEF ClearMarkers
  <2>5. RunOnly({"armed"})
    BY <2>4 DEF Kept, Locals
  <2> QED  BY <2>3, <2>5
<1>5. ASSUME RemoveAppid
      PROVE  DevOnly({"appid"}) /\ RunOnly({})
  <2>1. dev' \in {dev, [dev EXCEPT !.appid = FALSE]}
    BY <1>5, AttemptOutcome DEF RemoveAppid, NoCall
  <2>2. run' = run
    BY <1>5 DEF RemoveAppid
  <2> QED  BY <1>0, <2>1, <2>2 DEF Kept, Device
<1>6. ASSUME ReleaseHeldLease
      PROVE  DevOnly({"lease"}) /\ RunOnly({"lease"})
  <2>1. dev' = dev \/ \E o \in release_gui_lease(dev) : dev' = o.dev
    BY <1>6 DEF ReleaseHeldLease, NoCall
  <2>2. \E v : run' = [run EXCEPT !.lease = v]
    BY <1>6 DEF ReleaseHeldLease
  <2>3. RunOnly({"lease"})
    BY <2>2 DEF Kept, Locals
  <2> QED  BY <1>0, <2>1, <2>3, LeaseKeeps DEF Kept
<1>7. ASSUME RemoveTraceMarkers
      PROVE  DevOnly(GoneFields \cup {"markers"}) /\ RunOnly({})
  <2>1. PICK o \in (IF On("waitTrace")
                    THEN Attempt(dev, [dev EXCEPT !.markers = @ \ {"capture"}])
                    ELSE NoCall) :
          (dev' = o.dev /\ run' = run) \/ Abort(o.dev)
    BY <1>7 DEF RemoveTraceMarkers
  <2>2. o.dev \in {dev, [dev EXCEPT !.markers = @ \ {"capture"}]}
    BY AttemptOutcome DEF NoCall
  <2>3. o.dev \in Device /\ DOMAIN o.dev = DOMAIN dev /\ Kept(dev, o.dev, {"markers"})
    BY <2>2 DEF Kept, Device
  <2> QED  BY <1>0, <2>1, <2>3, AbortKeeps DEF Kept
<1>8. ASSUME FinalFatalCheck
      PROVE  DevOnly({}) /\ RunOnly({"seenFatal", "result"})
  <2>1. dev' = dev
    BY <1>8 DEF FinalFatalCheck
  <2>2. run' = run \/ \E u, v : run' = [run EXCEPT !.seenFatal = u, !.result = v]
    BY Zenon, <1>8 DEF FinalFatalCheck
  <2> QED  BY Zenon, <1>0, <2>1, <2>2 DEF Kept, Locals
<1>9. ASSUME TerminateGame
      PROVE  DevOnly({"game", "stopped", "agentStopped"}) /\ RunOnly({"confirmed", "result"})
  <2>1. \/ dev' = dev /\ run' = run
        \/ \E o \in KillCalls : dev' = o.dev /\ run' = Killed(run, o)
    BY <1>9 DEF TerminateGame, KillCalls
  <2>2. dev' \in {dev, NoGame(dev)}
    BY <2>1, KillOutcome
  <2>3. run' = run \/ \E u, v : run' = [run EXCEPT !.confirmed = u, !.result = v]
    BY Zenon, <2>1 DEF Killed
  <2>4. RunOnly({"confirmed", "result"})
    BY Zenon, <2>3 DEF Kept, Locals
  <2> QED  BY <1>0, <2>2, <2>4, NoGameKeeps DEF Kept
<1>10. ASSUME ResumeQuiescedSteam
       PROVE  DevOnly({"stopped", "agentStopped"}) /\ RunOnly({"quiesced"})
  <2>1. dev' = dev \/ \E o \in AgentSignal(dev, "steam", "CONT") : dev' = o.dev
    BY <1>10 DEF ResumeQuiescedSteam, NoCall
  <2>2. \E v : run' = [run EXCEPT !.quiesced = v]
    BY <1>10 DEF ResumeQuiescedSteam
  <2>3. RunOnly({"quiesced"})
    BY <2>2 DEF Kept, Locals
  <2> QED  BY <1>0, <2>1, <2>3, AgentSignalKeeps DEF Kept
<1>11. ASSUME NEW v
       PROVE  Kept(run, [run EXCEPT !.result = v], {"result"})
  BY DEF Kept, Locals
<1>12. ASSUME StopStartedSteam
       PROVE  DevOnly(SteamFields) /\ RunOnly({"result"})
  <2>1. dev' = dev \/ \E o \in stop_steam_ui(dev) : dev' = o.dev
    BY <1>12 DEF StopStartedSteam
  <2>2. run' = run \/ \E v : run' = [run EXCEPT !.result = v]
    BY <1>12 DEF StopStartedSteam
  <2> QED  BY <1>0, <1>11, <2>1, <2>2, StopSteamKeeps DEF Kept
<1>13. ASSUME ClearEnvironment
       PROVE  DevOnly(GoneFields \cup {"env"}) /\ RunOnly({})
  <2>1. PICK o \in (IF run.env THEN clear_steam_overlay_test_environment(dev)
                    ELSE NoCall) :
          (dev' = o.dev /\ run' = run) \/ Abort(o.dev)
    BY <1>13 DEF ClearEnvironment
  <2>2. o.dev \in Device /\ DOMAIN o.dev = DOMAIN dev /\ Kept(dev, o.dev, {"env"})
    BY <1>0, ClearEnvType, EnvKeeps DEF NoCall, Kept, Device
  <2> QED  BY <1>0, <2>1, <2>2, AbortKeeps DEF Kept
<1>14. ASSUME RestoreControlCenter
       PROVE  DevOnly({"cc"}) /\ RunOnly({"result"})
  <2>1. dev' = dev \/ \E o \in restore_control_center_after_game(dev) : dev' = o.dev
    BY <1>14 DEF RestoreControlCenter, NoCall
  <2>2. run' = run \/ \E v : run' = [run EXCEPT !.result = v]
    BY <1>14 DEF RestoreControlCenter
  <2> QED  BY <1>0, <1>11, <2>1, <2>2, CCKeeps DEF Kept
<1>15. ASSUME ScoreThermal
       PROVE  DevOnly({}) /\ RunOnly({"thermalValid", "result"})
  <2>1. dev' = dev
    BY <1>15 DEF ScoreThermal
  <2>2. \E u, v : run' = [run EXCEPT !.thermalValid = u, !.result = v]
    BY Zenon, <1>15 DEF ScoreThermal
  <2> QED  BY <1>0, <2>1, <2>2 DEF Kept, Locals
<1>16. ASSUME CloseAndWrite
       PROVE  DevOnly(GoneFields) /\ RunOnly({})
  BY <1>0, <1>16, AgentGoneKeeps DEF CloseAndWrite, Kept, GoneFields
<1> QED  BY <1>1, <1>2, <1>3, <1>4, <1>5, <1>6, <1>7, <1>8, <1>9, <1>10, <1>12,
            <1>13, <1>14, <1>15, <1>16

LEMMA MovesTouch ==
  ASSUME TypeOK
  PROVE  /\ SteamSpawns => DevOnly({"game", "launching", "spawns"})
         /\ GameDies => DevOnly({"game", "fatal", "stopped", "agentStopped"})
         /\ AgentDies => DevOnly(GoneFields)
<1> USE DEF TypeOK, DevOnly
<1>1. ASSUME SteamSpawns
      PROVE  DevOnly({"game", "launching", "spawns"})
  BY <1>1 DEF SteamSpawns, Kept, Device
<1>2. ASSUME GameDies
      PROVE  DevOnly({"game", "fatal", "stopped", "agentStopped"})
  <2>1. PICK fatal \in BOOLEAN : LET e == [dev EXCEPT !.fatal = @ \/ fatal]
                                 IN  dev' \in {e, NoGame(e)}
    BY <1>2 DEF GameDies
  <2> DEFINE e == [dev EXCEPT !.fatal = @ \/ fatal]
  <2>2. e \in Device /\ DOMAIN e = DOMAIN dev /\ Kept(dev, e, {"fatal"})
    BY DEF Kept, Device
  <2>3. dev' \in {e, NoGame(e)}
    BY <2>1
  <2> HIDE DEF e
  <2> QED  BY <2>2, <2>3, NoGameKeeps DEF Kept
<1>3. ASSUME AgentDies
      PROVE  DevOnly(GoneFields)
  BY <1>3, AgentGoneKeeps DEF AgentDies, GoneFields
<1> QED  BY <1>1, <1>2, <1>3

-----------------------------------------------------------------------------
(* A handoff keeps the game it found.                                        *)

LEMMA HandoffStep ==
  ASSUME TypeOK, [Next]_vars, opt.mode = "handoff", dev.game = "stale"
  PROVE  dev'.game = "stale"
<1>0. On("leave")
  BY OptionAssumption DEF TypeOK, ValidOptions, On
<1> USE DEF DevOnly, Kept
<1>1. DOMAIN dev = { "game", "steam", "launching", "cc", "render", "stopped",
                     "agentStopped", "markers", "lease", "env", "appid", "agent",
                     "fatal", "spawns" }
  BY DEF TypeOK, Device
<1>2. CASE RetireStaleGame
  BY <1>2 DEF RetireStaleGame, RefusesGame
<1>3. CASE Prepare /\ ~RetireStaleGame
  <2>1. ASSUME NEW F, DevOnly(F), "game" \notin F
        PROVE  dev'.game = dev.game
    BY <2>1, <1>1
  <2> QED  BY <1>3, <2>1, PrepareTouches DEF Prepare, SteamFields
<1>4. CASE Launch
  BY <1>1, <1>4, LaunchTouches DEF Launch, SteamFields
<1>5. CASE Play
  BY <1>1, <1>5, PlayTouches DEF Play
<1>6. CASE TerminateGame
  BY <1>0, <1>6 DEF TerminateGame
<1>7. CASE Cleanup /\ ~TerminateGame
  BY <1>1, <1>7, CleanupTouches DEF Cleanup, SteamFields, GoneFields
<1>8. CASE SteamSpawns \/ GameDies
  BY <1>8 DEF SteamSpawns, GameDies
<1>9. CASE AgentDies
  BY <1>1, <1>9, MovesTouch DEF GoneFields
<1>10. CASE UNCHANGED vars
  BY <1>10 DEF vars
<1> QED  BY <1>2, <1>3, <1>4, <1>5, <1>6, <1>7, <1>8, <1>9, <1>10 DEF Next

(* A run that hands over to the user never ends, replaces or loses the game  *)
(* that was running before it: its arguments exclude what would retire or    *)
(* terminate it.                                                             *)
THEOREM HandoffSafe == Spec => HandoffKeepsGame
<1>1. TypeOK /\ [Next]_vars =>
        [opt.mode = "handoff" /\ dev.game = "stale" => dev'.game = "stale"]_vars
  BY HandoffStep
<1> QED  BY <1>1, TypeCorrect, PTL DEF Spec, HandoffKeepsGame

-----------------------------------------------------------------------------
(* The inductive invariant.                                                  *)

(* The steps of the body and of the finally block, and the steps of the    *)
(* latter behind one of its calls.                                         *)
BeforeCooling == { "streams", "preflight", "stale_game", "suspend_cc", "sp_cool",
                   "suspend_steam" }
BeforeMarkers == BeforeCooling \cup
    { "sp_return", "suspend_render", "cooldown", "environment", "workspace",
      "settings", "markers" }
Body == BeforeMarkers \cup
    { "resume_steam", "early_observers", "observers", "lease", "arm",
      "ensure_steam", "select", "identities", "play", "await", "missing_task",
      "stalled", "cloud", "kicking", "error_49", "launched", "started", "retire",
      "release", "settle", "progress", "quiesce", "direct", "cool_game",
      "cool_wait", "cool_render", "cool_resume", "gate", "hover", "host_hover",
      "drag", "walk", "targets", "targets_retire", "samples", "pre_sample",
      "capture", "sample", "evaluate", "classify" }
PastCC == {"f_thermal", "f_close", "done"}
PastEnv == {"f_cc"} \cup PastCC
PastStop == {"f_env"} \cup PastEnv
PastKill == {"f_quiesce", "f_stop"} \cup PastStop
PastFatal == {"f_kill"} \cup PastKill
PastTrace == {"f_fatal"} \cup PastFatal
PastLease == {"f_trace"} \cup PastTrace
PastAppid == {"f_lease"} \cup PastLease
PastMarkers == {"f_appid"} \cup PastAppid
PastSteam == {"f_markers"} \cup PastMarkers
PastRender == {"f_game", "f_steam"} \cup PastSteam
Finally == {"f_render"} \cup PastRender
Steps == Body \cup Finally \cup {"aborted"}

(* Progress of the finally block, as far as none of its calls failed.      *)
Phases ==
    /\ pc \in Steps
    /\ pc \in BeforeCooling => ~run.cooled /\ ~run.cooledBack
    /\ pc \in BeforeMarkers => run.mine = {}
    /\ Exited => dev.agent # "live"
    /\ pc = "aborted" => slips # 0

Undone ==
    /\ pc \in PastSteam /\ slips = 0 /\ run.cooled => run.cooledBack
    /\ pc \in PastMarkers /\ slips = 0 => dev.markers \cap {"launch", "active"} = {}
    /\ pc \in PastAppid /\ slips = 0 => ~dev.appid
    /\ pc \in PastTrace /\ slips = 0 => "capture" \notin dev.markers

(* A result is only OK at the end of a body that undid what it did.        *)
Good == run.result = "OK"
Failed == pc \notin Body /\ ~Good

Undecided ==
    /\ pc \in Body => ~Good
    /\ pc = "preflight" => opt.mode = "preflight"
    /\ pc \in {"sp_cool", "sp_return"} => opt.mode = "steam_preflight"
    /\ Good /\ On("progress") /\ opt.mode = "bench" => run.visual

RenderHeld ==
    /\ "render" \in dev.stopped =>
         \/ run.renderHeld
         \/ Failed
         \/ pc \in {"cool_render", "cool_resume"} /\ run.result = "ERROR"
    /\ pc \in PastRender /\ slips = 0 => ~run.renderHeld

TargetHeld == "target" \in dev.markers => pc = "targets_retire" \/ Failed

EnvHeld ==
    /\ dev.env => run.env \/ Failed
    /\ pc \in PastEnv /\ slips = 0 /\ Good => ~dev.env

CCHeld ==
    /\ pc \in {"streams", "preflight", "stale_game", "suspend_cc"} => dev.cc = start.cc
    /\ start.cc /\ ~dev.cc => run.restoreCC \/ Failed
    /\ pc \in PastCC /\ slips = 0 /\ Good /\ start.cc => dev.cc

FatalSeen ==
    pc \in PastFatal /\ slips = 0 /\ Good /\ run.pid /\ dev.fatal => "fatal" \in late

GameGone ==
    pc \in PastKill /\ ~On("leave") =>
        /\ Good => run.confirmed
        /\ dev.game = "own" => run.result = "CLEANUP_INCOMPLETE" \/ "spawn" \in late

SteamStopped ==
    pc \in PastStop /\ slips = 0 /\ run.started /\ ~run.retained =>
        On("leave") \/ On("keepSteam") \/ dev.steam = "none"

-----------------------------------------------------------------------------
(* The course of a run: which step follows which, and when a result is OK.   *)

(* A call that raises in the body enters the finally block without an OK.    *)
LEMMA ThrowCourse ==
  ASSUME NEW r \in Locals, Throw(r), r.result # "OK"
  PROVE  pc' = "f_render" /\ ~Good'
BY ThrowType DEF Good

(* What a step of the body may do to pc and to the result.                   *)
BodyCourse ==
    /\ pc \in Body
    /\ pc' \in Body \cup {"f_render"}
    /\ pc' \in BeforeCooling => pc \in BeforeCooling
    /\ pc' \in BeforeMarkers => pc \in BeforeMarkers \ {"markers"}
    /\ pc' \in {"stale_game", "suspend_cc"} => pc \in {"streams", "stale_game"}
    /\ pc' \notin {"streams", "preflight"} \/ pc = "streams"
    /\ pc' = "preflight" => opt.mode = "preflight"
    /\ pc' \in {"sp_cool", "sp_return"} => opt.mode = "steam_preflight"
    /\ Good' => /\ pc' = "f_render"
                /\ \/ pc = "preflight" \/ pc = "sp_return"
                   \/ pc = "classify" /\ (On("progress") => run'.visual)

LEMMA ThermalResult ==
  ASSUME TypeOK, ~Good, NEW t \in thermal_checkpoint(run)
  PROVE  t.run \in Locals /\ t.run.result # "OK"
<1>1. run \in Locals /\ run.result # "OK"
  BY DEF TypeOK, Good
<1>2. [run EXCEPT !.thermalValid = FALSE].result = run.result
  BY <1>1 DEF Locals
<1> QED  BY <1>1, <1>2, ThermalType

LEMMA ThermalThrowCourse ==
  ASSUME TypeOK, ~Good, NEW t \in thermal_checkpoint(run), Throw(t.run)
  PROVE  pc' = "f_render" /\ ~Good'
BY ThermalResult, ThrowCourse

LEMMA PrepareCourse ==
  ASSUME TypeOK, Undecided, Prepare
  PROVE  BodyCourse
<1> USE DEF TypeOK, Continue, BodyCourse, Body, BeforeMarkers, BeforeCooling
<1>0. pc \in Body
  BY Zenon DEF Prepare, ArmStreams, PreflightOnly, RetireStaleGame, SuspendControlCenter,
         SteamPreflightStart, SteamPreflightReturn, SuspendSteamForCooling,
         SuspendRenderPath, InitialCooldown, PrepareEnvironment, WorkspaceGate,
         ApplySettings, ChooseMarkers, ResumeSteam
<1>a. ~Good /\ run.result # "OK"
  BY <1>0 DEF Undecided, Good
<1>b. ASSUME Throw(run)
      PROVE  pc' = "f_render" /\ ~Good'
  BY <1>a, <1>b, ThrowCourse
<1>1. CASE ArmStreams
  <2>1. Throw(run) \/ (run' = run /\ pc' = "preflight" /\ opt.mode = "preflight")
                   \/ (run' = run /\ pc' \in {"suspend_cc", "stale_game"})
    BY <1>1 DEF ArmStreams
  <2>2. pc = "streams"
    BY <1>1 DEF ArmStreams
  <2> QED  BY <1>a, <1>b, <2>1, <2>2 DEF Good
<1>2. CASE PreflightOnly
  <2>1. pc = "preflight" /\ pc' = "f_render"
    BY <1>2, ThrowType, ThermalType DEF PreflightOnly
  <2> QED  BY <2>1
<1>3. CASE RetireStaleGame
  BY <1>a, <1>b, <1>3 DEF RetireStaleGame, Good
<1>4. CASE SuspendControlCenter
  <2>1. pc = "suspend_cc"
    BY <1>4 DEF SuspendControlCenter
  <2>2. \/ Throw(run)
        \/ /\ run' = run \/ run' = [run EXCEPT !.restoreCC = dev.cc]
           /\ \/ pc' = "sp_cool" /\ opt.mode = "steam_preflight"
              \/ pc' = "suspend_steam"
    BY <1>4 DEF SuspendControlCenter
  <2>3. run' = run \/ run' = [run EXCEPT !.restoreCC = dev.cc] => ~Good'
    BY <1>a DEF Good, Locals
  <2> QED  BY <1>b, <2>1, <2>2, <2>3
<1>5. CASE SteamPreflightStart
  <2>1. pc = "sp_cool"
    BY <1>5 DEF SteamPreflightStart
  <2>2. PICK t \in thermal_checkpoint(run) :
          LET r == [t.run EXCEPT !.started = dev.steam = "none"]
          IN  \/ Throw(run)
              \/ Throw(r)
              \/ run' = r /\ pc' = "suspend_steam"
    BY <1>5 DEF SteamPreflightStart
  <2> DEFINE r == [t.run EXCEPT !.started = dev.steam = "none"]
  <2>3. t.run \in Locals /\ t.run.result # "OK"
    BY <1>a, ThermalResult
  <2>4. r \in Locals /\ r.result # "OK"
    BY Zenon, <2>3 DEF Locals
  <2>5. Throw(run) \/ Throw(r) \/ (run' = r /\ pc' = "suspend_steam")
    BY <2>2
  <2> HIDE DEF r
  <2> QED  BY <1>b, <2>1, <2>4, <2>5, ThrowCourse DEF Good
<1>6. CASE SteamPreflightReturn
  <2>1. pc = "sp_return" /\ pc' = "f_render"
    BY <1>6, ThrowType DEF SteamPreflightReturn
  <2> QED  BY <2>1
<1>7. CASE SuspendSteamForCooling
  <2>1. pc = "suspend_steam"
    BY <1>7 DEF SuspendSteamForCooling
  <2> DEFINE r == [run EXCEPT !.cooled = dev.steam # "none"]
  <2>2. r \in Locals /\ r.result # "OK"
    BY <1>a DEF Locals
  <2>3. \/ Throw(run)
        \/ Throw(r)
        \/ /\ run' = run \/ run' = r
           /\ \/ pc' = "sp_return" /\ opt.mode = "steam_preflight"
              \/ pc' = "suspend_render"
    BY <1>7 DEF SuspendSteamForCooling
  <2> HIDE DEF r
  <2> QED  BY <1>a, <1>b, <2>1, <2>2, <2>3, ThrowCourse DEF Good
<1>8. CASE SuspendRenderPath
  <2>1. pc = "suspend_render"
    BY <1>8 DEF SuspendRenderPath
  <2>2. \/ Throw(run)
        \/ /\ run' = run \/ run' = [run EXCEPT !.renderHeld = TRUE]
           /\ pc' = "cooldown"
    BY <1>8 DEF SuspendRenderPath
  <2>3. run' = run \/ run' = [run EXCEPT !.renderHeld = TRUE] => ~Good'
    BY <1>a DEF Good, Locals
  <2> QED  BY <1>b, <2>1, <2>2, <2>3
<1>9. CASE InitialCooldown
  <2>1. pc = "cooldown"
    BY <1>9 DEF InitialCooldown
  <2>2. PICK v \in {"INCOMPLETE", "ERROR", "INTERRUPTED"} :
          \/ Throw(run)
          \/ Throw([run EXCEPT !.renderHeld = FALSE])
          \/ /\ \/ run' = [run EXCEPT !.result = v]
                \/ run' = [[run EXCEPT !.result = v] EXCEPT !.renderHeld = FALSE]
             /\ pc' \in {"environment", "f_render"}
    BY <1>9 DEF InitialCooldown
  <2>3. [run EXCEPT !.renderHeld = FALSE] \in Locals
        /\ [run EXCEPT !.renderHeld = FALSE].result # "OK"
    BY <1>a DEF Locals
  <2>4. CASE /\ \/ run' = [run EXCEPT !.result = v]
                \/ run' = [[run EXCEPT !.result = v] EXCEPT !.renderHeld = FALSE]
             /\ pc' \in {"environment", "f_render"}
    <3>1. run'.result = v
      BY <2>4 DEF Locals
    <3> QED  BY <2>1, <2>4, <3>1 DEF Good
  <2> QED  BY <1>b, <2>1, <2>2, <2>3, <2>4, ThrowCourse
<1>10. CASE PrepareEnvironment
  <2>1. pc = "environment"
    BY <1>10 DEF PrepareEnvironment
  <2>2. \/ Throw(run)
        \/ run' = [run EXCEPT !.env = TRUE] /\ pc' = "workspace"
    BY <1>10 DEF PrepareEnvironment
  <2>3. run' = [run EXCEPT !.env = TRUE] => ~Good'
    BY <1>a DEF Good, Locals
  <2> QED  BY <1>b, <2>1, <2>2, <2>3
<1>11. CASE WorkspaceGate
  <2>1. pc = "workspace"
    BY <1>11 DEF WorkspaceGate
  <2>2. PICK t \in thermal_checkpoint(run) :
          \/ Throw(t.run)
          \/ /\ run' = t.run \/ \E v : run' = [t.run EXCEPT !.restoreCC = v]
             /\ pc' = "settings"
    BY <1>11 DEF WorkspaceGate
  <2>3. t.run \in Locals /\ t.run.result # "OK"
    BY <1>a, ThermalResult
  <2>4. run' = t.run \/ (\E v : run' = [t.run EXCEPT !.restoreCC = v]) => ~Good'
    BY <2>3 DEF Good, Locals
  <2> QED  BY <1>a, <2>1, <2>2, <2>4, ThermalThrowCourse
<1>12. CASE ApplySettings
  BY <1>a, <1>b, <1>12 DEF ApplySettings, Good
<1>13. CASE ChooseMarkers
  <2> DEFINE r == [run EXCEPT !.mine = IF opt.mode = "handoff" THEN {} ELSE {"launch"}]
  <2>1. r \in Locals /\ r.result # "OK"
    BY <1>a DEF Locals
  <2>2. pc = "markers" /\ (Throw(r) \/ (run' = r /\ pc' = "resume_steam"))
    BY <1>13 DEF ChooseMarkers
  <2> HIDE DEF r
  <2> QED  BY <2>1, <2>2, ThrowCourse DEF Good
<1>14. CASE ResumeSteam
  <2>1. pc = "resume_steam"
    BY <1>14 DEF ResumeSteam
  <2> DEFINE r == [run EXCEPT !.cooledBack = run.cooled]
  <2>2. r \in Locals /\ r.result # "OK"
    BY <1>a DEF Locals
  <2>3. \/ Throw(run)
        \/ Throw(r)
        \/ /\ run' = [r EXCEPT !.started = dev.steam = "none"]
           /\ pc' \in {"early_observers", "ensure_steam"}
    BY <1>14 DEF ResumeSteam
  <2> HIDE DEF r
  <2>4. run' = [r EXCEPT !.started = dev.steam = "none"] => ~Good'
    BY <2>2 DEF Good, Locals
  <2> QED  BY <1>b, <2>1, <2>2, <2>3, <2>4, ThrowCourse
<1> QED  BY <1>1, <1>2, <1>3, <1>4, <1>5, <1>6, <1>7, <1>8, <1>9, <1>10, <1>11,
            <1>12, <1>13, <1>14 DEF Prepare

(* Behind the choice of the markers only the order of the steps and the OK   *)
(* of Classify matter.                                                       *)
Later == Body \ BeforeMarkers

LEMMA LaterCourse ==
  ASSUME pc \in Later, pc' \in Later \cup {"f_render"}, ~Good'
  PROVE  BodyCourse
BY DEF Later, BodyCourse, Body, BeforeMarkers, BeforeCooling

LEMMA LaunchCourse ==
  ASSUME TypeOK, Undecided, Launch
  PROVE  pc \in Later /\ pc' \in Later \cup {"f_render"} /\ ~Good'
<1> USE DEF TypeOK, Continue, Later, Body, BeforeMarkers, BeforeCooling
<1>0. pc \in Later
  BY DEF Launch, ArmObservers, AcquireLease, PublishMarkers, EnsureSteam, SelectGame,
         CaptureIdentities, RequestLaunch, AwaitLaunch, RecoverMissingTask,
         RecoverStalledCloud, ConfirmCloudWarning, ConfirmSessionHandoff,
         RetryAfterAppError49, CheckLaunched
<1>a. ~Good /\ run.result # "OK"
  BY <1>0 DEF Undecided, Good
<1>b. ASSUME Throw(run)
      PROVE  pc' \in Later \cup {"f_render"} /\ ~Good'
  BY <1>a, <1>b, ThrowCourse
<1>c. ASSUME NEW d, NEW next \in Later, wait_for_launch_outcome(d, run, next)
      PROVE  pc' \in Later /\ ~Good'
  <2>1. pc' = next /\ Kept(run, run', {"outcome", "pid"})
    BY Zenon, <1>c, OutcomeType, OutcomeKeeps
  <2> QED  BY <1>a, <2>1 DEF Kept, Locals, Good
<1>d. ASSUME NEW next \in Later, ReplaceOwner(next)
      PROVE  pc' \in Later \cup {"f_render"} /\ ~Good'
  <2>1. Throw(run) \/ \E d : wait_for_launch_outcome(d, run, next)
    BY <1>d DEF ReplaceOwner
  <2> QED  BY <1>b, <1>c, <2>1
<1>1. CASE ArmObservers
  <2>1. \/ Throw(run)
        \/ run' = [run EXCEPT !.agent = TRUE] /\ pc' \in {"select", "lease"}
    BY <1>1 DEF ArmObservers
  <2>2. run' = [run EXCEPT !.agent = TRUE] => ~Good'
    BY <1>a DEF Good, Locals
  <2> QED  BY <1>0, <1>b, <2>1, <2>2
<1>2. CASE AcquireLease
  <2>1. \/ Throw(run)
        \/ (run' = run \/ run' = [run EXCEPT !.lease = TRUE]) /\ pc' = "arm"
    BY <1>2 DEF AcquireLease
  <2>2. run' = run \/ run' = [run EXCEPT !.lease = TRUE] => ~Good'
    BY <1>a DEF Good, Locals
  <2> QED  BY <1>0, <1>b, <2>1, <2>2
<1>3. CASE PublishMarkers
  <2>1. \/ Throw(run)
        \/ /\ run' = run \/ run' = [run EXCEPT !.armed = TRUE]
           /\ pc' \in {"play", "ensure_steam"}
    BY <1>3 DEF PublishMarkers
  <2>2. run' = run \/ run' = [run EXCEPT !.armed = TRUE] => ~Good'
    BY <1>a DEF Good, Locals
  <2> QED  BY <1>0, <1>b, <2>1, <2>2
<1>4. CASE EnsureSteam
  <2>1. PICK t \in thermal_checkpoint(run) :
          Throw(t.run) \/ (run' = t.run /\ pc' \in {"select", "observers"})
    BY <1>4 DEF EnsureSteam
  <2> QED  BY <1>0, <1>a, <2>1, ThermalThrowCourse, ThermalResult DEF Good
<1>5. CASE SelectGame
  <2>1. PICK t \in thermal_checkpoint(run) :
          \/ Throw(t.run)
          \/ (\E v : run' = [t.run EXCEPT !.byApplaunch = v]) /\ pc' = "identities"
    BY <1>5 DEF SelectGame
  <2>2. (\E v : run' = [t.run EXCEPT !.byApplaunch = v]) => ~Good'
    BY <1>a, ThermalResult DEF Good, Locals
  <2> QED  BY <1>0, <1>a, <2>1, <2>2, ThermalThrowCourse
<1>6. CASE CaptureIdentities
  <2>1. \/ Throw(run)
        \/ run' = [run EXCEPT !.result = "READY_FOR_USER"] /\ pc' = "f_render"
        \/ /\ \E v : run' = [run EXCEPT !.inventory = TRUE, !.signals = v]
           /\ pc' = "lease"
    BY Zenon, <1>6 DEF CaptureIdentities
  <2>2. run' = [run EXCEPT !.result = "READY_FOR_USER"] => ~Good'
    BY DEF Good, Locals
  <2>3. (\E v : run' = [run EXCEPT !.inventory = TRUE, !.signals = v]) => ~Good'
    BY <1>a DEF Good, Locals
  <2> QED  BY Zenon, <1>0, <1>b, <2>1, <2>2, <2>3
<1>7. CASE RequestLaunch
  BY <1>0, <1>a, <1>b, <1>7 DEF RequestLaunch, Good
<1>8. CASE AwaitLaunch
  <2>1. PICK t \in thermal_checkpoint(run) :
          Throw(t.run) \/ wait_for_launch_outcome(dev, t.run, "missing_task")
    BY <1>8 DEF AwaitLaunch
  <2>2. t.run \in Locals /\ t.run.result # "OK"
    BY <1>a, ThermalResult
  <2>3. ASSUME wait_for_launch_outcome(dev, t.run, "missing_task")
        PROVE  pc' = "missing_task" /\ ~Good'
    <3>1. pc' = "missing_task" /\ Kept(t.run, run', {"outcome", "pid"})
      BY Zenon, <2>2, <2>3, OutcomeType, OutcomeKeeps
    <3> QED  BY <2>2, <3>1 DEF Kept, Locals, Good
  <2> QED  BY <1>0, <1>a, <2>1, <2>3, ThermalThrowCourse
<1>9. CASE RecoverMissingTask
  <2>1. (run' = run /\ pc' = "stalled") \/ ReplaceOwner("stalled")
    BY <1>9 DEF RecoverMissingTask
  <2> QED  BY <1>0, <1>a, <1>d, <2>1 DEF Good
<1>10. CASE RecoverStalledCloud
  <2>1. (run' = run /\ pc' = "cloud") \/ ReplaceOwner("cloud")
    BY <1>10 DEF RecoverStalledCloud
  <2> QED  BY <1>0, <1>a, <1>d, <2>1 DEF Good
<1>11. CASE ConfirmCloudWarning
  <2>1. \/ run' = run /\ pc' = "kicking"
        \/ Throw(run)
        \/ wait_for_launch_outcome(dev, run, "kicking")
    BY <1>11 DEF ConfirmCloudWarning, AnswerDialog
  <2> QED  BY <1>0, <1>a, <1>b, <1>c, <2>1 DEF Good
<1>12. CASE ConfirmSessionHandoff
  <2>1. \/ run' = run /\ pc' = "error_49"
        \/ Throw(run)
        \/ wait_for_launch_outcome(dev, run, "error_49")
    BY <1>12 DEF ConfirmSessionHandoff, AnswerDialog
  <2> QED  BY <1>0, <1>a, <1>b, <1>c, <2>1 DEF Good
<1>13. CASE RetryAfterAppError49
  <2>1. \/ run' = run /\ pc' = "launched"
        \/ Throw(run)
        \/ \E d : wait_for_launch_outcome(d, run, "launched")
    BY <1>13 DEF RetryAfterAppError49
  <2> QED  BY <1>0, <1>a, <1>b, <1>c, <2>1 DEF Good
<1>14. CASE CheckLaunched
  <2> DEFINE r == [run EXCEPT !.outcome = "none"]
  <2>1. r \in Locals /\ r.result # "OK"
    BY <1>a DEF Locals, Outcomes
  <2>2. Throw(r) \/ (run' = r /\ pc' = "started")
    BY <1>14 DEF CheckLaunched
  <2> HIDE DEF r
  <2> QED  BY <1>0, <2>1, <2>2, ThrowCourse DEF Good
<1> QED  BY <1>1, <1>2, <1>3, <1>4, <1>5, <1>6, <1>7, <1>8, <1>9, <1>10, <1>11,
            <1>12, <1>13, <1>14 DEF Launch

LEMMA PlayCourse ==
  ASSUME TypeOK, Undecided, Play
  PROVE  /\ pc \in Later
         /\ pc' \in Later \cup {"f_render"}
         /\ Good' => pc = "classify" /\ pc' = "f_render" /\ (On("progress") => run'.visual)
<1> USE DEF TypeOK, Continue, Later, Body, BeforeMarkers, BeforeCooling
<1>0. pc \in Later
  BY Zenon DEF Play, GameStarted, RetireMarkers, ReleaseLease, Settle, ProgressToGameplay,
         QuiesceSteam, ActivateDirectDrawable, CoolGame, CoolGameWait,
         CoolGameRenderResume, CoolGameResume, ProbeGate, HoverProbe, HostHoverProbe,
         LongDragProbe, WalkProbe, Probe, CaptureTargets, RetireTargets,
         TakeProcessSamples, PreSample, StartTraceCapture, SampleLoop, Evaluate, Classify
<1>a. ~Good /\ run.result # "OK"
  BY <1>0 DEF Undecided, Good
<1>b. ASSUME Throw(run)
      PROVE  pc' \in Later \cup {"f_render"} /\ ~Good'
  BY <1>a, <1>b, ThrowCourse
<1>1. CASE GameStarted
  BY <1>0, <1>a, <1>b, <1>1 DEF GameStarted, Good
<1>2. CASE RetireMarkers
  <2>1. Throw(run) \/ (run' = [run EXCEPT !.armed = FALSE] /\ pc' = "release")
    BY <1>2 DEF RetireMarkers
  <2>2. run' = [run EXCEPT !.armed = FALSE] => ~Good'
    BY <1>a DEF Good, Locals
  <2> QED  BY <1>0, <1>b, <2>1, <2>2
<1>3. CASE ReleaseLease
  <2>1. Throw(run) \/ (run' = [run EXCEPT !.lease = FALSE] /\ pc' = "settle")
    BY <1>3 DEF ReleaseLease
  <2>2. run' = [run EXCEPT !.lease = FALSE] => ~Good'
    BY <1>a DEF Good, Locals
  <2> QED  BY <1>0, <1>b, <2>1, <2>2
<1>4. CASE Settle \/ TakeProcessSamples
  <2>1. PICK t \in thermal_checkpoint(run) :
          Throw(t.run) \/ (run' = t.run /\ pc' \in {"progress", "pre_sample"})
    BY <1>4 DEF Settle, TakeProcessSamples
  <2> QED  BY <1>0, <1>a, <2>1, ThermalThrowCourse, ThermalResult DEF Good
<1>5. CASE ProgressToGameplay
  <2>1. PICK t \in thermal_checkpoint(run) :
          \/ Throw(t.run)
          \/ (\E v : run' = [t.run EXCEPT !.visual = v]) /\ pc' = "quiesce"
    BY <1>5 DEF ProgressToGameplay
  <2>2. (\E v : run' = [t.run EXCEPT !.visual = v]) => ~Good'
    BY <1>a, ThermalResult DEF Good, Locals
  <2> QED  BY <1>0, <1>a, <2>1, <2>2, ThermalThrowCourse
<1>6. CASE QuiesceSteam
  <2> DEFINE r == [run EXCEPT !.quiesced = TRUE]
  <2>1. r \in Locals /\ r.result # "OK"
    BY <1>a DEF Locals
  <2>2. Throw(run) \/ Throw(r) \/ ((run' = run \/ run' = r) /\ pc' = "direct")
    BY <1>6 DEF QuiesceSteam
  <2> HIDE DEF r
  <2> QED  BY <1>0, <1>a, <1>b, <2>1, <2>2, ThrowCourse DEF Good
<1>7. CASE ActivateDirectDrawable
  <2> DEFINE r == [run EXCEPT !.mine = @ \cup {"active"}]
  <2>1. r \in Locals /\ r.result # "OK"
    BY <1>a DEF Locals
  <2>2. Throw(run) \/ Throw(r) \/ ((run' = run \/ run' = r) /\ pc' = "cool_game")
    BY <1>7 DEF ActivateDirectDrawable
  <2> HIDE DEF r
  <2> QED  BY <1>0, <1>a, <1>b, <2>1, <2>2, ThrowCourse DEF Good
<1>8. CASE CoolGame
  <2>1. \/ Throw(run)
        \/ /\ run' = run \/ run' = [run EXCEPT !.gameHeld = TRUE]
           /\ pc' \in {"gate", "cool_wait"}
    BY <1>8 DEF CoolGame
  <2>2. run' = run \/ run' = [run EXCEPT !.gameHeld = TRUE] => ~Good'
    BY <1>a DEF Good, Locals
  <2> QED  BY <1>0, <1>b, <2>1, <2>2
<1>9. CASE CoolGameWait
  <2>1. PICK v \in {"INCOMPLETE", "ERROR", "INTERRUPTED"} :
          /\ \/ run' = [run EXCEPT !.result = v]
             \/ run' = [[run EXCEPT !.renderHeld = TRUE] EXCEPT !.result = v]
          /\ pc' = "cool_render"
    BY <1>9 DEF CoolGameWait
  <2>2. run'.result = v
    BY <2>1 DEF Locals
  <2> QED  BY <1>0, <2>1, <2>2 DEF Good
<1>10. CASE CoolGameRenderResume
  <2>1. ASSUME NEW o
        PROVE  LET r == [run EXCEPT !.renderHeld = ~o.ok]
               IN  r \in Locals /\ r.result # "OK"
    BY <1>a DEF Locals
  <2>2. \/ run' = run /\ pc' = "cool_resume"
        \/ \E o : LET r == [run EXCEPT !.renderHeld = ~o.ok]
                  IN  Throw(r) \/ (run' = r /\ pc' = "cool_resume")
    BY <1>10 DEF CoolGameRenderResume
  <2> QED  BY <1>0, <1>a, <2>1, <2>2, ThrowCourse DEF Good
<1>11. CASE CoolGameResume
  <2>1. ASSUME NEW o
        PROVE  LET r == [run EXCEPT !.gameHeld = ~o.ok]
               IN  r \in Locals /\ r.result # "OK"
    BY <1>a DEF Locals
  <2>2. \E o : LET r == [run EXCEPT !.gameHeld = ~o.ok]
               IN  Throw(r) \/ (run' = r /\ pc' = "gate")
    BY <1>11 DEF CoolGameResume
  <2> QED  BY <1>0, <2>1, <2>2, ThrowCourse DEF Good
<1>12. CASE ProbeGate
  <2>1. PICK t \in thermal_checkpoint(run) :
          \/ Throw(t.run)
          \/ run' = t.run /\ pc' = "hover"
          \/ Throw([t.run EXCEPT !.result = "STALL"])
    BY <1>12 DEF ProbeGate
  <2>2. t.run \in Locals /\ t.run.result # "OK"
    BY <1>a, ThermalResult
  <2> DEFINE r == [t.run EXCEPT !.result = "STALL"]
  <2>3. r \in Locals /\ r.result # "OK"
    BY <2>2 DEF Locals, Results
  <2>4. Throw(t.run) \/ (run' = t.run /\ pc' = "hover") \/ Throw(r)
    BY <2>1
  <2> HIDE DEF r
  <2> QED  BY <1>0, <2>2, <2>3, <2>4, ThrowCourse DEF Good
<1>13. ASSUME NEW here, NEW next \in Later, NEW verdicts, Probe(here, next, verdicts),
              verdicts \subseteq {"STALL", "DRAG_FATAL", "WALK_FATAL"}
       PROVE  pc' \in Later \cup {"f_render"} /\ ~Good'
  <2>1. \/ run' = run /\ pc' = next
        \/ \E t \in thermal_checkpoint(run) :
             \/ Throw(t.run)
             \/ run' = t.run /\ pc' = next
             \/ \E v \in verdicts :
                  Throw([t.run EXCEPT !.result = v, !.seenFatal = @ \/ v # "STALL"])
    BY Zenon, <1>13 DEF Probe
  <2>2. CASE run' = run /\ pc' = next
    BY <1>a, <2>2 DEF Good
  <2>3. ASSUME NEW t \in thermal_checkpoint(run),
               Throw(t.run) \/ (run' = t.run /\ pc' = next)
        PROVE  pc' \in Later \cup {"f_render"} /\ ~Good'
    BY <1>a, <2>3, ThermalThrowCourse, ThermalResult DEF Good
  <2>4. ASSUME NEW t \in thermal_checkpoint(run), NEW v \in verdicts,
               Throw([t.run EXCEPT !.result = v, !.seenFatal = @ \/ v # "STALL"])
        PROVE  pc' \in Later \cup {"f_render"} /\ ~Good'
    <3> DEFINE r == [t.run EXCEPT !.result = v, !.seenFatal = @ \/ v # "STALL"]
    <3>1. t.run \in Locals
      BY ThermalType
    <3>2. r \in Locals
      <4>1. ASSUME NEW q \in Locals
            PROVE  [q EXCEPT !.result = v, !.seenFatal = @ \/ v # "STALL"] \in Locals
        BY Zenon, <1>13 DEF Locals, Results
      <4> QED  BY Zenon, <3>1, <4>1
    <3>4. r.result = v
      BY <3>1 DEF Locals
    <3>5. r.result # "OK"
      BY <1>13, <3>4
    <3>3. Throw(r)
      BY <2>4
    <3> HIDE DEF r
    <3> QED  BY <3>2, <3>3, <3>5, ThrowCourse
  <2> QED  BY Zenon, <2>1, <2>2, <2>3, <2>4
<1>14. CASE HoverProbe \/ HostHoverProbe \/ LongDragProbe \/ WalkProbe
  BY <1>0, <1>13, <1>14 DEF HoverProbe, HostHoverProbe, LongDragProbe, WalkProbe
<1>15. CASE CaptureTargets \/ RetireTargets
  <2>1. Throw(run) \/ (run' = run /\ pc' \in {"samples", "targets_retire"})
    BY <1>15 DEF CaptureTargets, RetireTargets
  <2> QED  BY <1>0, <1>a, <1>b, <2>1 DEF Good
<1>16. CASE PreSample
  <2>1. PICK safe \in BOOLEAN, nominal \in BOOLEAN :
          LET r == [run EXCEPT !.thermalValid = @ /\ safe,
                               !.scored = IF nominal THEN "yes" ELSE "no"]
          IN  (run' = r /\ pc' = "capture") \/ Throw(r)
    BY Zenon, <1>16 DEF PreSample
  <2> DEFINE r == [run EXCEPT !.thermalValid = @ /\ safe,
                              !.scored = IF nominal THEN "yes" ELSE "no"]
  <2>2. (IF nominal THEN "yes" ELSE "no") \in {"none", "yes", "no"}
    OBVIOUS
  <2>3. r \in Locals
    BY Zenon, <2>2, ScoredType
  <2>4. r.result # "OK"
    BY <1>a DEF Locals
  <2>5. (run' = r /\ pc' = "capture") \/ Throw(r)
    BY <2>1
  <2> HIDE DEF r
  <2> QED  BY <1>0, <2>3, <2>4, <2>5, ThrowCourse DEF Good
<1>17. CASE StartTraceCapture
  <2>1. Throw(run) \/ (run' = run /\ pc' = "sample")
    BY <1>17 DEF StartTraceCapture
  <2> QED  BY <1>0, <1>a, <1>b, <2>1 DEF Good
<1>18. CASE SampleLoop
  <2>1. PICK safe \in BOOLEAN, nominal \in BOOLEAN : SampleLoop!2!(safe, nominal)
    BY Zenon, <1>18 DEF SampleLoop
  <2> DEFINE r == [run EXCEPT !.thermalValid = @ /\ safe,
                              !.scored = IF nominal THEN @ ELSE "no"]
  <2>2. r.result # "OK" /\ DOMAIN r = DOMAIN run
    BY <1>a DEF Locals
  <2>3. \/ Throw(run)
        \/ /\ \/ run' = r
              \/ run' = [r EXCEPT !.result = "GAME_EXITED"]
              \/ run' = [r EXCEPT !.result = "GAME_FATAL", !.seenFatal = TRUE]
           /\ pc' \in {"sample", "evaluate"}
    BY <2>1
  <2> HIDE DEF r
  <2>4. (\/ run' = r
         \/ run' = [r EXCEPT !.result = "GAME_EXITED"]
         \/ run' = [r EXCEPT !.result = "GAME_FATAL", !.seenFatal = TRUE]) => ~Good'
    BY <2>2 DEF Good, Locals
  <2> QED  BY <1>0, <1>b, <2>3, <2>4
<1>19. CASE Evaluate
  BY <1>0, <1>a, <1>b, <1>19 DEF Evaluate, Good
<1>20. CASE Classify
  <2>1. pc = "classify" /\ pc' = "f_render"
    BY <1>20 DEF Classify
  <2>2. PICK v \in {"OK", "NOT_SCORED"} :
          /\ v = "OK" => (On("progress") => run.visual)
          /\ run' = [run EXCEPT !.result = IF @ = "INCOMPLETE" THEN v ELSE @]
    BY <1>20 DEF Classify
  <2>3. run'.visual = run.visual /\ run'.result \in {run.result, v}
    BY <2>2 DEF Locals
  <2> QED  BY <1>0, <1>a, <2>1, <2>2, <2>3 DEF Good
<1> QED  BY <1>1, <1>2, <1>3, <1>4, <1>5, <1>6, <1>7, <1>8, <1>9, <1>10, <1>11,
            <1>12, <1>14, <1>15, <1>16, <1>17, <1>18, <1>19, <1>20 DEF Play


-----------------------------------------------------------------------------
(* The course of the finally block.                                          *)

(* Each step and the one behind it.                                          *)
FinallyOrder == { <<"f_render", "f_game">>, <<"f_game", "f_steam">>,
                  <<"f_steam", "f_markers">>, <<"f_markers", "f_appid">>,
                  <<"f_appid", "f_lease">>, <<"f_lease", "f_trace">>,
                  <<"f_trace", "f_fatal">>, <<"f_fatal", "f_kill">>,
                  <<"f_kill", "f_quiesce">>, <<"f_quiesce", "f_stop">>,
                  <<"f_stop", "f_env">>, <<"f_env", "f_cc">>,
                  <<"f_cc", "f_thermal">>, <<"f_thermal", "f_close">>,
                  <<"f_close", "done">> }

(* An unguarded call that raises ends the process.                           *)
Aborts == pc \in {"f_trace", "f_env"} /\ pc' = "aborted" /\ slips' # 0 /\ run' = run

LEMMA CleanupOrder ==
  ASSUME TypeOK, Cleanup
  PROVE  <<pc, pc'>> \in FinallyOrder \/ Aborts
<1> USE DEF FinallyOrder, Continue
<1>1. CASE ResumeRenderPath
  BY <1>1 DEF ResumeRenderPath
<1>2. CASE ResumeGame
  BY <1>2 DEF ResumeGame
<1>3. CASE ResumeCooledSteam
  BY <1>3 DEF ResumeCooledSteam
<1>4. CASE ClearMarkers
  BY <1>4 DEF ClearMarkers
<1>5. CASE RemoveAppid
  BY <1>5 DEF RemoveAppid
<1>6. CASE ReleaseHeldLease
  BY <1>6 DEF ReleaseHeldLease
<1>7. CASE RemoveTraceMarkers
  <2>1. PICK o : Slip(o) /\ IF o.ok THEN pc' = "f_fatal" ELSE Abort(o.dev)
    BY <1>7 DEF RemoveTraceMarkers
  <2> QED  BY <1>7, <2>1, SlipOutcome DEF RemoveTraceMarkers, Abort, Aborts, TypeOK
<1>8. CASE FinalFatalCheck
  BY <1>8 DEF FinalFatalCheck
<1>9. CASE TerminateGame
  BY <1>9 DEF TerminateGame
<1>10. CASE ResumeQuiescedSteam
  BY <1>10 DEF ResumeQuiescedSteam
<1>11. CASE StopStartedSteam
  BY <1>11 DEF StopStartedSteam
<1>12. CASE ClearEnvironment
  <2>1. PICK o : Slip(o) /\ IF o.ok THEN pc' = "f_cc" ELSE Abort(o.dev)
    BY <1>12 DEF ClearEnvironment
  <2> QED  BY <1>12, <2>1, SlipOutcome DEF ClearEnvironment, Abort, Aborts, TypeOK
<1>13. CASE RestoreControlCenter
  BY <1>13 DEF RestoreControlCenter
<1>14. CASE ScoreThermal
  BY <1>14 DEF ScoreThermal
<1>15. CASE CloseAndWrite
  BY <1>15 DEF CloseAndWrite
<1> QED  BY <1>1, <1>2, <1>3, <1>4, <1>5, <1>6, <1>7, <1>8, <1>9, <1>10, <1>11,
            <1>12, <1>13, <1>14, <1>15 DEF Cleanup

(* A failure once counted stays counted.                                     *)
LEMMA CleanupCounts ==
  ASSUME TypeOK, Cleanup
  PROVE  slips' = 0 => slips = 0
<1>1. Calm \/ \E o : Slip(o)
  <2>1. CASE FinalFatalCheck \/ ScoreThermal \/ CloseAndWrite
    BY Zenon, <2>1 DEF FinalFatalCheck, ScoreThermal, CloseAndWrite
  <2>2. CASE ResumeRenderPath \/ ResumeGame \/ ResumeCooledSteam
    BY <2>2 DEF ResumeRenderPath, ResumeGame, ResumeCooledSteam
  <2>3. CASE RemoveAppid \/ ReleaseHeldLease \/ RemoveTraceMarkers
    BY <2>3 DEF RemoveAppid, ReleaseHeldLease, RemoveTraceMarkers
  <2>4. CASE ClearMarkers
    BY <2>4 DEF ClearMarkers
  <2>5. CASE TerminateGame
    BY <2>5 DEF TerminateGame
  <2>6. CASE ResumeQuiescedSteam \/ StopStartedSteam
    BY <2>6 DEF ResumeQuiescedSteam, StopStartedSteam
  <2>7. CASE ClearEnvironment \/ RestoreControlCenter
    BY <2>7 DEF ClearEnvironment, RestoreControlCenter
  <2> QED  BY <2>1, <2>2, <2>3, <2>4, <2>5, <2>6, <2>7 DEF Cleanup
<1> QED  BY <1>1, SlipOutcome DEF Calm, TypeOK

(* No step of the finally block makes a result OK.                           *)
LEMMA CleanupGood ==
  ASSUME TypeOK, Cleanup, Good'
  PROVE  Good
<1> USE DEF Good
<1>0. "result" \in DOMAIN run
  BY DEF TypeOK, Locals
<1>1. CASE \/ ResumeRenderPath \/ ResumeGame \/ ResumeCooledSteam \/ ClearMarkers
           \/ RemoveAppid \/ ReleaseHeldLease \/ RemoveTraceMarkers
           \/ ResumeQuiescedSteam \/ ClearEnvironment \/ CloseAndWrite
  <2>1. PICK F : RunOnly(F) /\ "result" \notin F
    BY <1>1, CleanupTouches
  <2> QED  BY <1>0, <2>1 DEF RunOnly, Kept
<1>2. ASSUME NEW v, run' = [run EXCEPT !.result = v], v = "OK" => run.result = "OK"
      PROVE  Good
  BY <1>0, <1>2 DEF TypeOK, Locals
<1>3. CASE FinalFatalCheck
  <2> DEFINE found == run.pid /\ dev.fatal
             outcome == IF found /\ ~(run.result \in ClassifiedFatals)
                     THEN "GAME_FATAL_LATE" ELSE run.result
             seen == run.seenFatal \/ found
  <2>1. run' = run \/ run' = [run EXCEPT !.seenFatal = seen, !.result = outcome]
    BY Zenon, <1>3 DEF FinalFatalCheck, Continue
  <2>2. outcome = "OK" => run.result = "OK"
    OBVIOUS
  <2> HIDE DEF found, outcome, seen
  <2> QED  BY <2>1, <2>2 DEF TypeOK, Locals
<1>4. CASE TerminateGame
  <2>1. PICK o : run' = run \/ run' = Killed(run, o)
    BY <1>4 DEF TerminateGame, Continue
  <2> QED  BY <2>1 DEF TypeOK, Locals, Killed
<1>5. CASE StopStartedSteam
  <2>1. \/ run' = run
        \/ \E v : run' = [run EXCEPT !.result = v] /\ (v = "OK" => run.result = "OK")
    BY <1>5 DEF StopStartedSteam, Continue
  <2> QED  BY <1>2, <2>1
<1>6. CASE RestoreControlCenter
  <2>1. \E v : run' = [run EXCEPT !.result = v] /\ (v = "OK" => run.result = "OK")
    BY <1>6 DEF RestoreControlCenter, Continue
  <2> QED  BY <1>2, <2>1
<1>7. CASE ScoreThermal
  <2>1. PICK v, b : /\ run' = [run EXCEPT !.thermalValid = b, !.result = v]
                    /\ v = "OK" => run.result = "OK"
    BY Zenon, <1>7 DEF ScoreThermal, Continue
  <2> QED  BY <2>1 DEF TypeOK, Locals
<1> QED  BY <1>1, <1>3, <1>4, <1>5, <1>6, <1>7 DEF Cleanup

(* The process ends without an agent.                                        *)
LEMMA ExitGone ==
  ASSUME TypeOK, Cleanup, Exited'
  PROVE  dev'.agent # "live"
<1>1. ASSUME NEW d \in Device
      PROVE  (IF d.agent = "live" THEN AgentGone(d, "none") ELSE d).agent # "live"
  BY DEF Device, AgentGone
<1>2. CASE RemoveTraceMarkers
  <2>1. PICK o : /\ o \in Attempt(dev, [dev EXCEPT !.markers = @ \ {"capture"}])
                          \cup NoCall
                 /\ pc' = "f_fatal" \/ Abort(o.dev)
    BY <1>2 DEF RemoveTraceMarkers, Continue
  <2>2. o.dev \in Device
    <3>1. [dev EXCEPT !.markers = @ \ {"capture"}] \in Device
      BY DEF TypeOK, Device
    <3> QED  BY <2>1, <3>1, AttemptOutcome DEF NoCall, TypeOK
  <2> QED  BY <1>1, <2>1, <2>2 DEF Exited, Abort
<1>3. CASE ClearEnvironment
  <2>1. PICK o : /\ o \in clear_steam_overlay_test_environment(dev) \cup NoCall
                 /\ pc' = "f_cc" \/ Abort(o.dev)
    BY <1>3 DEF ClearEnvironment, Continue
  <2>2. o.dev \in Device
    BY <2>1, ClearEnvType DEF NoCall, TypeOK
  <2> QED  BY <1>1, <2>1, <2>2 DEF Exited, Abort
<1>4. CASE CloseAndWrite
  BY <1>1, <1>4 DEF CloseAndWrite, TypeOK
<1>5. CASE ~(RemoveTraceMarkers \/ ClearEnvironment \/ CloseAndWrite)
  BY Zenon, <1>5 DEF Cleanup, Exited, ResumeRenderPath, ResumeGame, ResumeCooledSteam,
     ClearMarkers, RemoveAppid, ReleaseHeldLease, FinalFatalCheck, TerminateGame,
     ResumeQuiescedSteam, StopStartedSteam, RestoreControlCenter, ScoreThermal, Continue
<1> QED  BY <1>2, <1>3, <1>4, <1>5

(* The locals that the body fixes before the finally block reads them.       *)
LEMMA BodyOutcome ==
  ASSUME TypeOK, Undecided, Prepare \/ Launch \/ Play
  PROVE  BodyCourse
<1>1. CASE Prepare
  BY <1>1, PrepareCourse
<1>2. CASE Launch
  BY <1>2, LaunchCourse, LaterCourse
<1>3. CASE Play
  <2>1. CASE ~Good'
    BY <1>3, <2>1, PlayCourse, LaterCourse
  <2>2. CASE Good'
    BY <1>3, <2>2, PlayCourse DEF BodyCourse, Later, Body, BeforeMarkers, BeforeCooling
  <2> QED  BY <2>1, <2>2
<1> QED  BY <1>1, <1>2, <1>3

LEMMA LocalFields ==
  ASSUME TypeOK
  PROVE  DOMAIN run = { "pid", "seenFatal", "started", "env", "mine", "retained",
                        "restoreCC", "cooled", "cooledBack", "inventory", "quiesced",
                        "agent", "signals", "lease", "armed", "gameHeld",
                        "renderHeld", "visual", "byApplaunch", "outcome",
                        "thermalValid", "scored", "confirmed", "result" }
BY DEF TypeOK, Locals

LEMMA DeviceFields ==
  ASSUME TypeOK
  PROVE  DOMAIN dev = { "game", "steam", "launching", "cc", "render", "stopped",
                        "agentStopped", "markers", "lease", "env", "appid", "agent",
                        "fatal", "spawns" }
BY DEF TypeOK, Device

LEMMA CoolingKept ==
  ASSUME TypeOK, Prepare \/ Launch \/ Play
  PROVE  /\ run'.cooled = run.cooled \/ pc = "suspend_steam"
         /\ run'.cooledBack = run.cooledBack \/ pc \in {"sp_return", "resume_steam"}
         /\ run'.mine = run.mine \/ pc \in {"markers", "direct"}
<1> USE LocalFields DEF RunOnly, Kept
<1>1. CASE Prepare
  <2>1. CASE SuspendSteamForCooling
    BY <2>1, PrepareTouches DEF SuspendSteamForCooling
  <2>2. CASE SteamPreflightReturn
    BY <2>2, PrepareTouches DEF SteamPreflightReturn
  <2>3. CASE ResumeSteam
    BY <2>3, PrepareTouches DEF ResumeSteam
  <2>4. CASE ChooseMarkers
    BY <2>4, PrepareTouches DEF ChooseMarkers
  <2> QED  BY <1>1, <2>1, <2>2, <2>3, <2>4, PrepareTouches DEF Prepare
<1>2. CASE Launch
  BY <1>2, LaunchTouches DEF Launch
<1>3. CASE Play
  <2>1. CASE ActivateDirectDrawable
    BY <2>1, PlayTouches DEF ActivateDirectDrawable
  <2> QED  BY <1>3, <2>1, PlayTouches DEF Play
<1> QED  BY <1>1, <1>2, <1>3

LEMMA PhasesStep ==
  ASSUME TypeOK, Phases, Undecided, [Next]_vars
  PROVE  Phases'
<1> USE DEF Phases
<1>1. CASE (Prepare \/ Launch \/ Play) /\ UNCHANGED <<opt, start, late, slips>>
  <2>1. BodyCourse
    BY <1>1, BodyOutcome
  <2>2. pc' \in Body \cup {"f_render"}
    BY <2>1 DEF BodyCourse
  <2>3. pc' \in Steps /\ ~Exited' /\ pc' # "aborted"
    BY <2>2 DEF Steps, Finally, Exited, Body, BeforeMarkers, BeforeCooling
  <2>4. pc' \in BeforeCooling => ~run'.cooled /\ ~run'.cooledBack
    <3>1. pc' \in BeforeCooling => pc \in BeforeCooling
      BY <2>1 DEF BodyCourse
    <3>2. pc = "suspend_steam" => pc' \notin BeforeCooling
      <4>1. pc = "suspend_steam" => SuspendSteamForCooling
        <5>1. CASE Launch \/ Play
          BY <5>1, LaunchCourse, PlayCourse DEF Later, BeforeMarkers, BeforeCooling
        <5>2. CASE Prepare
          BY <5>2 DEF Prepare, ArmStreams, PreflightOnly, RetireStaleGame,
             SuspendControlCenter, SteamPreflightStart, SteamPreflightReturn,
             SuspendRenderPath, InitialCooldown, PrepareEnvironment, WorkspaceGate,
             ApplySettings, ChooseMarkers, ResumeSteam
        <5> QED  BY <1>1, <5>1, <5>2
      <4> QED  BY <4>1 DEF SuspendSteamForCooling, Continue, Throw, BeforeCooling
    <3> QED  BY <1>1, <3>1, <3>2, CoolingKept DEF BeforeCooling
  <2>5. pc' \in BeforeMarkers => run'.mine = {}
    <3>1. pc' \in BeforeMarkers => pc \in BeforeMarkers \ {"markers"}
      BY <2>1 DEF BodyCourse
    <3> QED  BY <1>1, <3>1, CoolingKept DEF BeforeMarkers, BeforeCooling
  <2> QED  BY <2>3, <2>4, <2>5
<1>2. CASE Cleanup /\ UNCHANGED <<opt, start, late>>
  <2>1. pc' \in Finally \cup {"aborted"}
    BY <1>2, CleanupOrder DEF FinallyOrder, Aborts, Finally, PastRender, PastSteam,
       PastMarkers, PastAppid, PastLease, PastTrace, PastFatal, PastKill, PastStop,
       PastEnv, PastCC
  <2>2. pc' \notin Body /\ pc' \in Steps /\ pc' \notin BeforeCooling /\ pc' \notin BeforeMarkers
    BY <2>1 DEF Finally, PastRender, PastSteam, PastMarkers, PastAppid, PastLease,
       PastTrace, PastFatal, PastKill, PastStop, PastEnv, PastCC, Body, BeforeMarkers,
       BeforeCooling, Steps
  <2>3. pc' = "aborted" => slips' # 0
    BY <1>2, CleanupOrder DEF FinallyOrder, Aborts
  <2> QED  BY <1>2, <2>2, <2>3, ExitGone
<1>3. CASE SteamSpawns \/ GameDies \/ AgentDies
  <2>1. UNCHANGED <<pc, run, slips>> /\ ~Exited
    BY <1>3 DEF SteamSpawns, GameDies, AgentDies
  <2> QED  BY <2>1 DEF Exited
<1>4. CASE UNCHANGED vars
  BY <1>4 DEF vars, Exited
<1> QED  BY <1>1, <1>2, <1>3, <1>4 DEF Next

LEMMA VisualKept ==
  ASSUME TypeOK, Cleanup
  PROVE  run'.visual = run.visual
BY CleanupTouches, LocalFields DEF RunOnly, Kept, Cleanup

LEMMA UndecidedStep ==
  ASSUME TypeOK, Phases, Undecided, [Next]_vars
  PROVE  Undecided'
<1>1. CASE (Prepare \/ Launch \/ Play) /\ UNCHANGED <<opt, start, late, slips>>
  <2>1. BodyCourse
    BY <1>1, BodyOutcome
  <2>2. pc' \in Body => ~Good'
    BY <2>1 DEF BodyCourse, Body, BeforeMarkers, BeforeCooling
  <2>3. /\ pc' = "preflight" => opt.mode = "preflight"
        /\ pc' \in {"sp_cool", "sp_return"} => opt.mode = "steam_preflight"
    BY <2>1 DEF BodyCourse
  <2>4. Good' /\ On("progress") /\ opt.mode = "bench" => run'.visual
    BY <2>1 DEF BodyCourse, Undecided
  <2> QED  BY <1>1, <2>2, <2>3, <2>4 DEF Undecided, On
<1>2. CASE Cleanup /\ UNCHANGED <<opt, start, late>>
  <2>1. pc' \in Finally \cup {"aborted"}
    BY <1>2, CleanupOrder DEF FinallyOrder, Aborts, Finally, PastRender, PastSteam,
       PastMarkers, PastAppid, PastLease, PastTrace, PastFatal, PastKill, PastStop,
       PastEnv, PastCC
  <2>2. pc' \notin Body
    BY <2>1 DEF Finally, PastRender, PastSteam, PastMarkers, PastAppid, PastLease,
       PastTrace, PastFatal, PastKill, PastStop, PastEnv, PastCC, Body, BeforeMarkers,
       BeforeCooling
  <2> QED  BY <1>2, <2>2, CleanupGood, VisualKept DEF Undecided, On, Body,
              BeforeMarkers, BeforeCooling
<1>3. CASE SteamSpawns \/ GameDies \/ AgentDies
  <2>1. UNCHANGED <<pc, run, opt>>
    BY <1>3 DEF SteamSpawns, GameDies, AgentDies
  <2> QED  BY <2>1 DEF Undecided, Good, On
<1>4. CASE UNCHANGED vars
  BY <1>4 DEF vars, Undecided, Good, On
<1> QED  BY <1>1, <1>2, <1>3, <1>4 DEF Next

-----------------------------------------------------------------------------
(* Suspensions.                                                              *)

(* Whoever is stopped on the device d has somebody who will resume it: the   *)
(* agent, which remembers it and resumes it on exit, or, for a Steam stopped *)
(* while the device cooled (c), the emergency resume.  Only a live agent has *)
(* stopped somebody or holds the lease.  The render path is stopped only if  *)
(* h says so.                                                                *)
Tended(d, c, h) ==
    /\ "game" \in d.stopped => "game" \in d.agentStopped
    /\ "steam" \in d.stopped => ("steam" \in d.agentStopped \/ c) /\ d.steam # "none"
    /\ d.agentStopped # {} \/ d.lease => d.agent = "live"
    /\ "render" \in d.stopped => h

Remembered == Tended(dev, run.cooled /\ ~run.cooledBack, TRUE)

LEMMA TendedSame ==
  ASSUME NEW d \in Device, NEW e, NEW c, NEW h, Tended(d, c, h), NEW F, Kept(d, e, F),
         F \cap {"stopped", "agentStopped", "lease", "agent", "steam"} = {}
  PROVE  Tended(e, c, h)
<1>1. /\ e.stopped = d.stopped
      /\ e.agentStopped = d.agentStopped
      /\ e.lease = d.lease
      /\ e.agent = d.agent
      /\ e.steam = d.steam
  BY DEF Kept, Device
<1> QED  BY <1>1 DEF Tended

LEMMA TendedSteamGone ==
  ASSUME NEW d \in Device, NEW c, NEW h, Tended(d, c, h)
  PROVE  Tended(SteamGone(d), c, h)
BY DEF Tended, SteamGone, Device

LEMMA TendedStopSteam ==
  ASSUME NEW d \in Device, NEW c, NEW h, Tended(d, c, h), NEW o \in stop_steam_ui(d)
  PROVE  Tended(o.dev, c, h)
BY AttemptOutcome, TendedSteamGone DEF stop_steam_ui

LEMMA TendedSteamLoaded ==
  ASSUME NEW d \in Device, NEW c, NEW h, Tended(d, c, h)
  PROVE  Tended(SteamLoaded(d), c, h)
BY DEF Tended, SteamLoaded, Device

LEMMA TendedEnsureSteam ==
  ASSUME NEW d \in Device, NEW c, NEW h, Tended(d, c, h), NEW o \in ensure_steam_ui(d)
  PROVE  Tended(o.dev, c, h)
<1>1. SteamGone(d) \in Device /\ Tended(SteamGone(d), c, h)
  BY SteamGoneType, TendedSteamGone
<1>2. Tended([SteamGone(d) EXCEPT !.appid = On("applaunch")], c, h)
  BY <1>1 DEF Tended, Device
<1>3. Tended(SteamLoaded(d), c, h) /\ Tended(SteamLoaded(SteamGone(d)), c, h)
  BY <1>1, TendedSteamLoaded
<1> QED  BY <1>2, <1>3, EnsureSteamOutcome

LEMMA TendedNoGame ==
  ASSUME NEW d \in Device, NEW c, NEW h, Tended(d, c, h)
  PROVE  Tended(NoGame(d), c, h)
BY DEF Tended, NoGame, Device

LEMMA TendedAgentGone ==
  ASSUME NEW d \in Device, NEW c, NEW h, Tended(d, c, h), NEW state
  PROVE  Tended(AgentGone(d, state), c, h)
BY DEF Tended, AgentGone, Device

LEMMA TendedRender ==
  ASSUME NEW d \in Device, NEW c, NEW h, Tended(d, c, h), NEW sig,
         NEW o \in signal_exact_render_path(d, sig)
  PROVE  Tended(o.dev, c, TRUE)
<1>1. ASSUME NEW S, S = d.stopped \cup {"render"} \/ S = d.stopped \ {"render"}
      PROVE  Tended([d EXCEPT !.stopped = S], c, TRUE)
  BY <1>1 DEF Tended, Device
<1>2. Tended(d, c, TRUE)
  BY DEF Tended
<1>3. o.dev \in { d, [d EXCEPT !.stopped = @ \cup {"render"}],
                  [d EXCEPT !.stopped = @ \ {"render"}] }
  BY AttemptOutcome DEF signal_exact_render_path
<1> QED  BY <1>1, <1>2, <1>3

LEMMA TendedAgentSignal ==
  ASSUME NEW d \in Device, NEW c, NEW h, Tended(d, c, h), NEW who \in {"game", "steam"}, NEW sig,
         who = "steam" /\ sig = "STOP" => d.steam # "none", NEW o \in AgentSignal(d, who, sig)
  PROVE  Tended(o.dev, c, h)
<1> DEFINE stop == [d EXCEPT !.stopped = @ \cup {who}, !.agentStopped = @ \cup {who}]
           cont == [d EXCEPT !.stopped = @ \ {who}, !.agentStopped = @ \ {who}]
<1>1. CASE d.agent # "live"
  BY <1>1, AgentCallOutcome DEF AgentSignal
<1>2. CASE d.agent = "live"
  <2>1. o.dev \in {d, IF sig = "STOP" THEN stop ELSE cont}
    BY AgentCallOutcome DEF AgentSignal
  <2>2. sig = "STOP" => Tended(stop, c, h)
    BY <1>2 DEF Tended, Device
  <2>3. Tended(cont, c, h)
    BY <1>2 DEF Tended, Device
  <2> QED  BY <2>1, <2>2, <2>3
<1> QED  BY <1>1, <1>2

LEMMA TendedLease ==
  ASSUME NEW d \in Device, NEW c, NEW h, Tended(d, c, h),
         NEW o \in acquire_gui_lease(d) \cup release_gui_lease(d)
  PROVE  Tended(o.dev, c, h)
<1>1. CASE d.agent # "live"
  BY <1>1, AgentCallOutcome DEF acquire_gui_lease, release_gui_lease
<1>2. CASE d.agent = "live"
  <2>1. o.dev \in {d, [d EXCEPT !.lease = TRUE], [d EXCEPT !.lease = FALSE]}
    BY AgentCallOutcome DEF acquire_gui_lease, release_gui_lease
  <2>2. Tended([d EXCEPT !.lease = TRUE], c, h) /\ Tended([d EXCEPT !.lease = FALSE], c, h)
    BY <1>2 DEF Tended, Device
  <2> QED  BY <2>1, <2>2
<1> QED  BY <1>1, <1>2

LEMMA TendedObservers ==
  ASSUME NEW d \in Device, NEW c, NEW h, Tended(d, c, h), NEW o \in arm_game_launch_observers(d)
  PROVE  Tended(o.dev, c, h)
<1>1. Tended([d EXCEPT !.agent = "live"], c, h)
  BY DEF Tended, Device
<1> QED  BY <1>1, AttemptOutcome DEF arm_game_launch_observers

(* The signal that stops the Steam UI while the device cools, and the one    *)
(* that resumes it.                                                          *)
LEMMA TendedPidsStop ==
  ASSUME NEW d \in Device, NEW h, Tended(d, FALSE, h), NEW o \in signal_exact_pids(d, "STOP")
  PROVE  Tended(o.dev, d.steam # "none", h)
<1>1. CASE d.steam = "none"
  BY <1>1, AttemptOutcome DEF signal_exact_pids, Tended
<1>2. CASE d.steam # "none"
  <2>1. o.dev \in {d, [d EXCEPT !.stopped = @ \cup {"steam"}]}
    BY <1>2, AttemptOutcome DEF signal_exact_pids
  <2> QED  BY <1>2, <2>1 DEF Tended, Device
<1> QED  BY <1>1, <1>2

LEMMA TendedPidsCont ==
  ASSUME NEW d \in Device, NEW c, NEW h, Tended(d, c, h), NEW o \in signal_exact_pids(d, "CONT")
  PROVE  Tended(o.dev, c, h) /\ (o.ok => Tended(o.dev, FALSE, h))
<1>1. CASE d.steam = "none"
  <2>1. o.dev = d /\ "steam" \notin d.stopped
    BY <1>1, AttemptOutcome DEF signal_exact_pids, Tended
  <2> QED  BY <2>1 DEF Tended
<1>2. CASE d.steam # "none"
  <2> DEFINE e == [d EXCEPT !.stopped = @ \ {"steam"}]
  <2>1. o.dev \in {d, e} /\ (o.ok => o.dev = e)
    BY <1>2, AttemptOutcome DEF signal_exact_pids
  <2>2. Tended(e, FALSE, h) /\ Tended(e, c, h)
    BY DEF Tended, Device
  <2> QED  BY <2>1, <2>2
<1> QED  BY <1>1, <1>2

(* Every step of the body but the suspension for the cooldown and the        *)
(* resumption behind it leaves everybody tended.                             *)
LEMMA TendedPrepare ==
  ASSUME TypeOK, NEW c, NEW h, Tended(dev, c, h), Prepare,
         ~SuspendSteamForCooling, ~SteamPreflightReturn, ~ResumeSteam,
         ~SuspendRenderPath, ~InitialCooldown
  PROVE  Tended(dev', c, h)
<1> USE DEF TypeOK
<1>1. CASE \/ ArmStreams \/ ApplySettings \/ PreflightOnly \/ SuspendControlCenter
           \/ WorkspaceGate \/ ChooseMarkers
  <2>1. DevOnly({"cc", "render", "markers"})
    BY <1>1, PrepareTouches DEF DevOnly, Kept
  <2> QED  BY <2>1, TendedSame DEF DevOnly
<1>2. CASE RetireStaleGame
  <2>1. dev' = dev \/ \E o \in terminate_exact_game(dev) : dev' = o.dev
    BY <1>2 DEF RetireStaleGame
  <2> QED  BY <2>1, TerminateType, TendedNoGame
<1>3. CASE SteamPreflightStart
  <2>1. \/ dev' = dev
        \/ \E o \in ensure_steam_ui(dev) : \E b : dev' = [o.dev EXCEPT !.render = b]
    BY <1>3 DEF SteamPreflightStart
  <2>2. ASSUME NEW d \in Device, Tended(d, c, h), NEW b
        PROVE  Tended([d EXCEPT !.render = b], c, h)
    BY <2>2 DEF Tended, Device
  <2>3. ASSUME NEW o \in ensure_steam_ui(dev)
        PROVE  o.dev \in Device /\ Tended(o.dev, c, h)
    BY EnsureSteamType, TendedEnsureSteam
  <2> QED  BY <2>1, <2>2, <2>3
<1>4. CASE PrepareEnvironment
  <2>1. \/ dev' = dev
        \/ \E s \in stop_steam_ui(dev) : dev' = s.dev
        \/ \E s \in stop_steam_ui(dev) :
             \E o \in configure_steam_overlay_test_environment(s.dev) : dev' = o.dev
        \/ \E o \in configure_steam_overlay_test_environment(dev) : dev' = o.dev
    BY <1>4 DEF PrepareEnvironment
  <2>2. ASSUME NEW s \in stop_steam_ui(dev)
        PROVE  s.dev \in Device /\ Tended(s.dev, c, h)
    BY StopSteamType, TendedStopSteam
  <2>3. ASSUME NEW d \in Device, Tended(d, c, h),
               NEW o \in configure_steam_overlay_test_environment(d)
        PROVE  Tended(o.dev, c, h)
    BY <2>3, EnvKeeps, TendedSame
  <2> QED  BY <2>1, <2>2, <2>3
<1> QED  BY <1>1, <1>2, <1>3, <1>4 DEF Prepare

LEMMA TendedLaunch ==
  ASSUME TypeOK, NEW c, NEW h, Tended(dev, c, h), Launch
  PROVE  Tended(dev', c, h)
<1> USE DEF TypeOK
<1>1. CASE \/ PublishMarkers \/ SelectGame \/ RequestLaunch \/ AwaitLaunch
           \/ ConfirmCloudWarning \/ ConfirmSessionHandoff \/ RetryAfterAppError49
           \/ CheckLaunched
  <2>1. DevOnly({"markers", "launching"})
    BY <1>1, LaunchTouches DEF DevOnly, Kept
  <2> QED  BY <2>1, TendedSame DEF DevOnly
<1>2. CASE ArmObservers
  <2>1. \E o \in arm_game_launch_observers(dev) : dev' = o.dev
    BY <1>2 DEF ArmObservers
  <2> QED  BY <2>1, TendedObservers
<1>3. CASE AcquireLease
  <2>1. dev' = dev \/ \E o \in acquire_gui_lease(dev) : dev' = o.dev
    BY <1>3 DEF AcquireLease
  <2> QED  BY <2>1, TendedLease
<1>4. CASE EnsureSteam
  <2>1. \E o \in ensure_steam_ui(dev) : dev' = o.dev
    BY <1>4 DEF EnsureSteam
  <2> QED  BY <2>1, TendedEnsureSteam
<1>5. CASE CaptureIdentities
  <2>1. \/ dev' = dev
        \/ dev' = [dev EXCEPT !.steam = IF @ = "none" THEN @ ELSE "owner"]
    BY <1>5 DEF CaptureIdentities
  <2> QED  BY <2>1 DEF Tended, Device
<1>6. CASE RecoverMissingTask \/ RecoverStalledCloud
  <2>1. dev' = dev \/ \E next : ReplaceOwner(next)
    BY <1>6 DEF RecoverMissingTask, RecoverStalledCloud
  <2>2. ASSUME NEW s \in stop_steam_ui(dev)
        PROVE  s.dev \in Device /\ Tended(s.dev, c, h)
    BY StopSteamType, TendedStopSteam
  <2>3. ASSUME NEW next, ReplaceOwner(next)
        PROVE  Tended(dev', c, h)
    <3>1. \/ \E s \in stop_steam_ui(dev) : dev' = s.dev
          \/ \E s \in stop_steam_ui(dev) : \E o \in ensure_steam_ui(s.dev) : dev' = o.dev
      BY <2>3 DEF ReplaceOwner
    <3> QED  BY <2>2, <3>1, TendedEnsureSteam
  <2> QED  BY <2>1, <2>3
<1> QED  BY <1>1, <1>2, <1>3, <1>4, <1>5, <1>6 DEF Launch

LEMMA TendedPlay ==
  ASSUME TypeOK, NEW c, NEW h, Tended(dev, c, h), Play,
         ~CoolGameWait, ~CoolGameRenderResume
  PROVE  Tended(dev', c, h)
<1> USE DEF TypeOK
<1>1. CASE \/ GameStarted \/ Evaluate \/ Classify \/ Settle \/ ProbeGate
           \/ TakeProcessSamples \/ ProgressToGameplay \/ HoverProbe \/ HostHoverProbe
           \/ LongDragProbe \/ WalkProbe \/ PreSample \/ RetireMarkers
           \/ CaptureTargets \/ RetireTargets \/ StartTraceCapture \/ SampleLoop
  <2>1. DevOnly({"markers"})
    BY <1>1, PlayTouches DEF DevOnly, Kept
  <2> QED  BY <2>1, TendedSame DEF DevOnly
<1>2. CASE ReleaseLease
  <2>1. \E o \in release_gui_lease(dev) : dev' = o.dev
    BY <1>2 DEF ReleaseLease
  <2> QED  BY <2>1, TendedLease
<1>3. CASE QuiesceSteam
  <2>1. dev' = dev \/ \E o \in quiesce_known_steam_ui(dev) : dev' = o.dev
    BY <1>3 DEF QuiesceSteam
  <2>2. ASSUME NEW o \in quiesce_known_steam_ui(dev)
        PROVE  Tended(o.dev, c, h)
    <3>1. CASE dev.steam = "owner"
      <4>1. o \in AgentSignal(dev, "steam", "STOP")
        BY <3>1 DEF quiesce_known_steam_ui
      <4> QED  BY <3>1, <4>1, TendedAgentSignal
    <3>2. CASE dev.steam # "owner"
      BY <3>2 DEF quiesce_known_steam_ui, Fails
    <3> QED  BY <3>1, <3>2
  <2> QED  BY <2>1, <2>2
<1>4. CASE ActivateDirectDrawable
  <2>1. \/ dev' = dev
        \/ \E a \in acquire_gui_lease(dev) : dev' = a.dev
        \/ \E a \in acquire_gui_lease(dev) :
             \E m \in set_diagnostic_markers(a.dev, {"active"}, TRUE) :
               \E b \in release_gui_lease(m.dev) : dev' = b.dev
    BY <1>4 DEF ActivateDirectDrawable
  <2>2. ASSUME NEW a \in acquire_gui_lease(dev)
        PROVE  a.dev \in Device /\ Tended(a.dev, c, h)
    BY AcquireType, TendedLease
  <2>3. ASSUME NEW d \in Device, Tended(d, c, h),
               NEW m \in set_diagnostic_markers(d, {"active"}, TRUE)
        PROVE  m.dev \in Device /\ Tended(m.dev, c, h)
    BY <2>3, MarkersType, MarkersKeep, TendedSame
  <2>4. ASSUME NEW d \in Device, Tended(d, c, h), NEW b \in release_gui_lease(d)
        PROVE  Tended(b.dev, c, h)
    BY <2>4, TendedLease
  <2> QED  BY <2>1, <2>2, <2>3, <2>4
<1>5. CASE CoolGame
  <2>1. dev' = dev \/ \E o \in AgentSignal(dev, "game", "STOP") : dev' = o.dev
    BY <1>5 DEF CoolGame
  <2> QED  BY <2>1, TendedAgentSignal
<1>6. CASE CoolGameResume
  <2>1. \E o \in AgentSignal(dev, "game", "CONT") : dev' = o.dev
    BY <1>6 DEF CoolGameResume
  <2> QED  BY <2>1, TendedAgentSignal
<1> QED  BY <1>1, <1>2, <1>3, <1>4, <1>5, <1>6 DEF Play

LEMMA TendedAbort ==
  ASSUME TypeOK, NEW d \in Device, NEW c, NEW h, Tended(d, c, h), Abort(d)
  PROVE  Tended(dev', c, h)
BY TendedAgentGone DEF Abort

LEMMA TendedCleanup ==
  ASSUME TypeOK, NEW c, NEW h, Tended(dev, c, h), Cleanup,
         ~ResumeCooledSteam, ~ResumeRenderPath
  PROVE  Tended(dev', c, h)
<1> USE DEF TypeOK, NoCall
<1>1. CASE \/ ClearMarkers \/ RemoveAppid \/ FinalFatalCheck \/ RestoreControlCenter
           \/ ScoreThermal
  <2>1. DevOnly({"markers", "appid", "cc"})
    BY <1>1, CleanupTouches DEF DevOnly, Kept
  <2> QED  BY <2>1, TendedSame DEF DevOnly
<1>3. CASE ResumeGame
  <2>1. dev' = dev \/ \E o \in AgentSignal(dev, "game", "CONT") : dev' = o.dev
    BY <1>3 DEF ResumeGame
  <2> QED  BY <2>1, TendedAgentSignal
<1>4. CASE ReleaseHeldLease
  <2>1. dev' = dev \/ \E o \in release_gui_lease(dev) : dev' = o.dev
    BY <1>4 DEF ReleaseHeldLease
  <2> QED  BY <2>1, TendedLease
<1>5. CASE RemoveTraceMarkers
  <2> DEFINE e == [dev EXCEPT !.markers = @ \ {"capture"}]
  <2>1. PICK o : o \in Attempt(dev, e) \cup NoCall /\ (dev' = o.dev \/ Abort(o.dev))
    BY <1>5 DEF RemoveTraceMarkers
  <2>2. e \in Device /\ Tended(e, c, h)
    BY DEF Tended, Device
  <2>3. o.dev \in Device /\ Tended(o.dev, c, h)
    BY <2>1, <2>2, AttemptOutcome
  <2> QED  BY <2>1, <2>3, TendedAbort
<1>6. CASE TerminateGame
  <2>1. dev' = dev \/ \E o \in KillCalls : dev' = o.dev
    BY <1>6 DEF TerminateGame, KillCalls
  <2> QED  BY <2>1, KillOutcome, TendedNoGame
<1>7. CASE ResumeQuiescedSteam
  <2>1. dev' = dev \/ \E o \in AgentSignal(dev, "steam", "CONT") : dev' = o.dev
    BY <1>7 DEF ResumeQuiescedSteam
  <2> QED  BY <2>1, TendedAgentSignal
<1>8. CASE StopStartedSteam
  <2>1. dev' = dev \/ \E o \in stop_steam_ui(dev) : dev' = o.dev
    BY <1>8 DEF StopStartedSteam
  <2> QED  BY <2>1, TendedStopSteam
<1>9. CASE ClearEnvironment
  <2>1. PICK o : /\ o \in clear_steam_overlay_test_environment(dev) \cup NoCall
                 /\ dev' = o.dev \/ Abort(o.dev)
    BY <1>9 DEF ClearEnvironment
  <2>2. CASE o \in NoCall
    BY <2>1, <2>2, TendedAbort
  <2>3. CASE o \in clear_steam_overlay_test_environment(dev)
    <3>1. o.dev \in Device /\ Kept(dev, o.dev, {"env"})
      BY <2>3, ClearEnvType, EnvKeeps
    <3>2. Tended(o.dev, c, h)
      BY <3>1, TendedSame
    <3> QED  BY <2>1, <3>1, <3>2, TendedAbort
  <2> QED  BY <2>1, <2>2, <2>3
<1>10. CASE CloseAndWrite
  BY <1>10, TendedAgentGone DEF CloseAndWrite
<1> QED  BY <1>1, <1>3, <1>4, <1>5, <1>6, <1>7, <1>8, <1>9, <1>10 DEF Cleanup

LEMMA TendedMoves ==
  ASSUME TypeOK, NEW c, NEW h, Tended(dev, c, h), SteamSpawns \/ GameDies \/ AgentDies
  PROVE  Tended(dev', c, h)
<1> USE DEF TypeOK
<1>1. CASE SteamSpawns
  BY <1>1, MovesTouch, TendedSame DEF DevOnly
<1>2. CASE GameDies
  <2>1. PICK b \in BOOLEAN : LET e == [dev EXCEPT !.fatal = @ \/ b]
                             IN  dev' \in {e, NoGame(e)}
    BY <1>2 DEF GameDies
  <2> DEFINE e == [dev EXCEPT !.fatal = @ \/ b]
  <2>2. e \in Device /\ Tended(e, c, h)
    <3>1. (dev.fatal \/ b) \in BOOLEAN
      OBVIOUS
    <3>2. e = [dev EXCEPT !.fatal = dev.fatal \/ b]
      OBVIOUS
    <3>3. e \in Device
      BY <3>1, <3>2, SwitchType
    <3>4. Tended(e, c, h)
      BY DEF Tended, Device
    <3> QED  BY <3>3, <3>4
  <2>3. dev' \in {e, NoGame(e)}
    BY <2>1
  <2> HIDE DEF e
  <2> QED  BY <2>2, <2>3, TendedNoGame
<1>3. CASE AgentDies
  BY <1>3, TendedAgentGone DEF AgentDies
<1> QED  BY <1>1, <1>2, <1>3

(* The steps that stop and resume the render path.                           *)
RenderStep == \/ SuspendRenderPath \/ InitialCooldown \/ CoolGameWait
              \/ CoolGameRenderResume \/ ResumeRenderPath

LEMMA TendedRenderStep ==
  ASSUME TypeOK, NEW c, NEW h, Tended(dev, c, h), RenderStep
  PROVE  Tended(dev', c, TRUE)
<1>1. \/ dev' = dev
      \/ \E sig : \E o \in signal_exact_render_path(dev, sig) : dev' = o.dev
  <2>1. CASE SuspendRenderPath
    BY <2>1 DEF SuspendRenderPath
  <2>2. CASE InitialCooldown
    BY <2>2 DEF InitialCooldown
  <2>3. CASE CoolGameWait
    BY <2>3 DEF CoolGameWait
  <2>4. CASE CoolGameRenderResume
    BY <2>4 DEF CoolGameRenderResume
  <2>5. CASE ResumeRenderPath
    BY <2>5 DEF ResumeRenderPath, NoCall
  <2> QED  BY <2>1, <2>2, <2>3, <2>4, <2>5 DEF RenderStep
<1>2. Tended(dev, c, TRUE)
  BY DEF Tended
<1> QED  BY <1>1, <1>2, TendedRender DEF TypeOK

(* The locals that tell whether the cooled Steam has been resumed.           *)
LEMMA CooledKept ==
  ASSUME TypeOK
  PROVE  /\ Prepare /\ ~(SuspendSteamForCooling \/ SteamPreflightReturn \/ ResumeSteam) =>
              run'.cooled = run.cooled /\ run'.cooledBack = run.cooledBack
         /\ Launch \/ Play =>
              run'.cooled = run.cooled /\ run'.cooledBack = run.cooledBack
         /\ Cleanup /\ ~ResumeCooledSteam =>
              run'.cooled = run.cooled /\ run'.cooledBack = run.cooledBack
<1> USE LocalFields DEF RunOnly, Kept
<1>1. ASSUME Prepare, ~(SuspendSteamForCooling \/ SteamPreflightReturn \/ ResumeSteam)
      PROVE  run'.cooled = run.cooled /\ run'.cooledBack = run.cooledBack
  BY <1>1, PrepareTouches DEF Prepare
<1>2. ASSUME Launch \/ Play
      PROVE  run'.cooled = run.cooled /\ run'.cooledBack = run.cooledBack
  BY <1>2, LaunchTouches, PlayTouches DEF Launch, Play
<1>3. ASSUME Cleanup, ~ResumeCooledSteam
      PROVE  run'.cooled = run.cooled /\ run'.cooledBack = run.cooledBack
  BY <1>3, CleanupTouches DEF Cleanup
<1> QED  BY <1>1, <1>2, <1>3

LEMMA RememberedStep ==
  ASSUME TypeOK, Phases, Undecided, Remembered, [Next]_vars
  PROVE  Remembered'
<1> USE DEF TypeOK, Remembered
<1> DEFINE c == run.cooled /\ ~run.cooledBack
<1>0. Remembered' <=> Tended(dev', run'.cooled /\ ~run'.cooledBack, TRUE)
  BY DEF Tended
<1>a. ASSUME NEW d, Tended(d, FALSE, TRUE), NEW b
      PROVE  Tended(d, b, TRUE)
  BY <1>a DEF Tended
<1>1. CASE SuspendSteamForCooling
  <2>1. ~run.cooled /\ ~run.cooledBack /\ Tended(dev, FALSE, TRUE)
    BY <1>1 DEF SuspendSteamForCooling, Phases, BeforeCooling, Tended
  <2>2. \/ dev' = dev
        \/ /\ \E o \in signal_exact_pids(dev, "STOP") : dev' = o.dev
           /\ LET r == [run EXCEPT !.cooled = dev.steam # "none"]
              IN  run' = r \/ Throw(r)
    BY <1>1 DEF SuspendSteamForCooling, Continue
  <2>3. CASE dev' = dev
    BY <1>0, <1>a, <2>1, <2>3
  <2>4. CASE /\ \E o \in signal_exact_pids(dev, "STOP") : dev' = o.dev
             /\ LET r == [run EXCEPT !.cooled = dev.steam # "none"]
                IN  run' = r \/ Throw(r)
    <3> DEFINE r == [run EXCEPT !.cooled = dev.steam # "none"]
    <3>1. Tended(dev', dev.steam # "none", TRUE)
      BY <2>1, <2>4, TendedPidsStop
    <3>2. r \in Locals /\ (r.cooled <=> dev.steam # "none") /\ r.cooledBack = run.cooledBack
      BY DEF Locals
    <3>3. run' = r \/ Throw(r)
      BY <2>4
    <3> HIDE DEF r
    <3>4. run'.cooled = r.cooled /\ run'.cooledBack = r.cooledBack
      BY <3>2, <3>3, ThrowKeeps DEF Kept, Locals
    <3>5. Tended(dev', run'.cooled /\ ~run'.cooledBack, TRUE)
      BY <2>1, <3>1, <3>2, <3>4 DEF Tended
    <3> QED  BY <1>0, <3>5
  <2> QED  BY <2>2, <2>3, <2>4
<1>2. ASSUME NEW o \in signal_exact_pids(dev, "CONT"), dev' = o.dev,
             \/ o.ok
             \/ run'.cooled = run.cooled /\ run'.cooledBack = run.cooledBack
      PROVE  Remembered'
  <2>1. Tended(dev', c, TRUE) /\ (o.ok => Tended(dev', FALSE, TRUE))
    BY <1>2, TendedPidsCont
  <2> QED  BY <1>0, <1>2, <1>a, <2>1 DEF Tended
<1>3. ASSUME Throw(run)
      PROVE  run'.cooled = run.cooled /\ run'.cooledBack = run.cooledBack
  BY <1>3, LocalFields, ThrowKeeps DEF Kept
<1>4. CASE SteamPreflightReturn
  <2>1. \/ dev' = dev /\ Throw(run)
        \/ \E o \in signal_exact_pids(dev, "CONT") : dev' = o.dev /\ (o.ok \/ Throw(run))
    BY <1>4 DEF SteamPreflightReturn
  <2> QED  BY <1>0, <1>2, <1>3, <2>1 DEF Tended
<1>5. CASE ResumeSteam
  <2>1. CASE run.cooled
    <3>1. \E o \in signal_exact_pids(dev, "CONT") : dev' = o.dev /\ (o.ok \/ Throw(run))
      BY <1>5, <2>1 DEF ResumeSteam
    <3> QED  BY <1>2, <1>3, <3>1
  <2>2. CASE ~run.cooled
    <3>1. dev' = dev /\ Tended(dev, FALSE, TRUE)
      BY <1>5, <2>2 DEF ResumeSteam, Tended
    <3> QED  BY <1>0, <1>a, <3>1
  <2> QED  BY <2>1, <2>2
<1>6. CASE ResumeCooledSteam
  <2>1. CASE c
    <3>1. PICK o \in signal_exact_pids(dev, "CONT") :
            /\ dev' = o.dev
            /\ run' = [run EXCEPT !.cooledBack = @ \/ (run.cooled /\ o.ok)]
      BY <1>6, <2>1 DEF ResumeCooledSteam, Continue
    <3>2. run'.cooled = run.cooled /\ (~o.ok => (run'.cooledBack <=> run.cooledBack))
      BY <3>1 DEF Locals
    <3>3. Tended(dev', c, TRUE) /\ (o.ok => Tended(dev', FALSE, TRUE))
      BY <3>1, TendedPidsCont
    <3> QED  BY <1>0, <1>a, <3>2, <3>3 DEF Tended
  <2>2. CASE ~c
    <3>1. dev' = dev /\ Tended(dev, FALSE, TRUE)
      BY <1>6, <2>2 DEF ResumeCooledSteam, NoCall, Tended
    <3> QED  BY <1>0, <1>a, <3>1
  <2> QED  BY <2>1, <2>2
<1>7. ASSUME Tended(dev', c, TRUE), run'.cooled = run.cooled /\ run'.cooledBack = run.cooledBack
      PROVE  Remembered'
  BY <1>0, <1>7 DEF Tended
<1>8. CASE Prepare /\ ~(SuspendSteamForCooling \/ SteamPreflightReturn \/ ResumeSteam)
  BY <1>7, <1>8, CooledKept, TendedPrepare, TendedRenderStep DEF RenderStep
<1>9. CASE Launch \/ Play
  BY <1>7, <1>9, CooledKept, TendedLaunch, TendedPlay, TendedRenderStep DEF RenderStep
<1>10. CASE Cleanup /\ ~ResumeCooledSteam
  BY <1>7, <1>10, CooledKept, TendedCleanup, TendedRenderStep DEF RenderStep
<1>11. CASE SteamSpawns \/ GameDies \/ AgentDies
  <2>1. run' = run
    BY <1>11 DEF SteamSpawns, GameDies, AgentDies
  <2> QED  BY <1>7, <1>11, <2>1, TendedMoves
<1>12. CASE UNCHANGED vars
  BY <1>0, <1>12 DEF vars, Tended
<1> QED  BY <1>1, <1>4, <1>5, <1>6, <1>8, <1>9, <1>10, <1>11, <1>12 DEF Next

-----------------------------------------------------------------------------
(* What is armed.                                                            *)

(* What is armed on the device d is listed for the finally block: the        *)
(* markers among m, the AppID request and the trace by their options.  The   *)
(* marker of the render targets is only there if t says so.                  *)
Armed(d, m, t) ==
    /\ d.markers \cap {"launch", "active"} \subseteq m
    /\ d.appid => On("applaunch")
    /\ "capture" \in d.markers => On("waitTrace")
    /\ "target" \in d.markers => t

Listed == Armed(dev, run.mine, TRUE)

LEMMA ArmedSame ==
  ASSUME NEW d \in Device, NEW e, NEW m, NEW t, Armed(d, m, t), NEW F, Kept(d, e, F),
         F \cap {"markers", "appid"} = {}
  PROVE  Armed(e, m, t)
<1>1. e.markers = d.markers /\ e.appid = d.appid
  BY DEF Kept, Device
<1> QED  BY <1>1 DEF Armed

LEMMA ArmedSubset ==
  ASSUME NEW d \in Device, NEW m, NEW t, Armed(d, m, t), NEW S \in SUBSET d.markers
  PROVE  Armed([d EXCEPT !.markers = S], m, t)
BY DEF Armed, Device

LEMMA ArmedMarkers ==
  ASSUME NEW d \in Device, NEW m, NEW t, Armed(d, m, t),
         NEW ms, ms \cap {"launch", "active"} \subseteq m, "capture" \notin ms,
         "target" \in ms => t, NEW present, NEW o \in set_diagnostic_markers(d, ms, present)
  PROVE  Armed(o.dev, m, t)
<1>1. Armed([d EXCEPT !.markers = @ \cup ms], m, t)
  BY DEF Armed, Device
<1>2. Armed([d EXCEPT !.markers = @ \ ms], m, t)
  BY DEF Armed, Device
<1>3. [d EXCEPT !.markers = IF present THEN @ \cup ms ELSE @ \ ms] \in
        {[d EXCEPT !.markers = @ \cup ms], [d EXCEPT !.markers = @ \ ms]}
  OBVIOUS
<1> QED  BY <1>1, <1>2, <1>3, AgentCallOutcome DEF set_diagnostic_markers

LEMMA ArmedEnsureSteam ==
  ASSUME NEW d \in Device, NEW m, NEW t, Armed(d, m, t), NEW o \in ensure_steam_ui(d)
  PROVE  Armed(o.dev, m, t)
<1>1. SteamGone(d) \in Device /\ Armed(SteamGone(d), m, t)
  BY SteamGoneType, SteamGoneKeeps, ArmedSame DEF SteamFields
<1>2. ASSUME NEW e \in Device, Armed(e, m, t)
      PROVE  Armed(SteamLoaded(e), m, t)
  BY <1>2 DEF Armed, SteamLoaded, Device
<1>3. Armed([SteamGone(d) EXCEPT !.appid = On("applaunch")], m, t)
  BY <1>1 DEF Armed, Device
<1> QED  BY <1>1, <1>2, <1>3, EnsureSteamOutcome

LEMMA ArmedPrepare ==
  ASSUME TypeOK, Phases, NEW t, Armed(dev, run.mine, t), Prepare
  PROVE  Armed(dev', run'.mine, t)
<1> USE LocalFields DEF TypeOK
<1>1. CASE ~(SteamPreflightStart \/ ChooseMarkers)
  <2>1. DevOnly(SteamFields \cup {"game", "render", "cc", "env"})
    BY <1>1, PrepareTouches DEF Prepare, DevOnly, Kept, SteamFields
  <2>2. run'.mine = run.mine
    BY <1>1, PrepareTouches DEF Prepare, RunOnly, Kept
  <2> QED  BY <2>1, <2>2, ArmedSame DEF DevOnly, SteamFields
<1>2. CASE SteamPreflightStart
  <2>1. \/ dev' = dev
        \/ \E o \in ensure_steam_ui(dev) : \E b : dev' = [o.dev EXCEPT !.render = b]
    BY <1>2 DEF SteamPreflightStart
  <2>2. ASSUME NEW d \in Device, Armed(d, run.mine, t), NEW b
        PROVE  Armed([d EXCEPT !.render = b], run.mine, t)
    BY <2>2 DEF Armed, Device
  <2>3. ASSUME NEW o \in ensure_steam_ui(dev)
        PROVE  o.dev \in Device /\ Armed(o.dev, run.mine, t)
    BY EnsureSteamType, ArmedEnsureSteam
  <2>4. run'.mine = run.mine
    BY <1>2, PrepareTouches DEF RunOnly, Kept
  <2> QED  BY <2>1, <2>2, <2>3, <2>4
<1>3. CASE ChooseMarkers
  <2>1. dev' = dev \/ dev' = [dev EXCEPT !.markers = {}]
    BY <1>3 DEF ChooseMarkers
  <2>2. run.mine = {}
    BY <1>3 DEF ChooseMarkers, Phases, BeforeMarkers
  <2>3. Armed(dev, {}, t) /\ Armed([dev EXCEPT !.markers = {}], {}, t)
    BY <2>2, ArmedSubset
  <2> QED  BY <2>1, <2>3 DEF Armed
<1> QED  BY <1>1, <1>2, <1>3

LEMMA ArmedLaunch ==
  ASSUME TypeOK, NEW t, Armed(dev, run.mine, t), Launch
  PROVE  Armed(dev', run'.mine, t)
<1> USE LocalFields DEF TypeOK
<1>0. run'.mine = run.mine
  BY LaunchTouches DEF Launch, RunOnly, Kept
<1>1. CASE ~(PublishMarkers \/ EnsureSteam \/ RecoverMissingTask \/ RecoverStalledCloud)
  <2>1. DevOnly({"agent", "lease", "steam", "launching"})
    BY <1>1, LaunchTouches DEF Launch, DevOnly, Kept
  <2> QED  BY <1>0, <2>1, ArmedSame DEF DevOnly
<1>2. CASE PublishMarkers
  <2>1. \/ dev' = dev
        \/ \E o \in set_diagnostic_markers(dev, run.mine, TRUE) : dev' = o.dev
    BY <1>2 DEF PublishMarkers
  <2>2. ASSUME NEW o \in set_diagnostic_markers(dev, run.mine, TRUE)
        PROVE  Armed(o.dev, run.mine, t)
    <3>1. run.mine \subseteq {"launch", "active"}
      BY DEF Locals
    <3> QED  BY <3>1, ArmedMarkers
  <2> QED  BY <1>0, <2>1, <2>2
<1>3. CASE EnsureSteam
  <2>1. \E o \in ensure_steam_ui(dev) : dev' = o.dev
    BY <1>3 DEF EnsureSteam
  <2> QED  BY <1>0, <2>1, ArmedEnsureSteam
<1>4. CASE RecoverMissingTask \/ RecoverStalledCloud
  <2>1. dev' = dev \/ \E next : ReplaceOwner(next)
    BY <1>4 DEF RecoverMissingTask, RecoverStalledCloud
  <2>2. ASSUME NEW s \in stop_steam_ui(dev)
        PROVE  s.dev \in Device /\ Armed(s.dev, run.mine, t)
    BY StopSteamType, StopSteamKeeps, ArmedSame DEF SteamFields
  <2>3. ASSUME NEW next, ReplaceOwner(next)
        PROVE  Armed(dev', run.mine, t)
    <3>1. \/ \E s \in stop_steam_ui(dev) : dev' = s.dev
          \/ \E s \in stop_steam_ui(dev) : \E o \in ensure_steam_ui(s.dev) : dev' = o.dev
      BY <2>3 DEF ReplaceOwner
    <3> QED  BY <2>2, <3>1, ArmedEnsureSteam
  <2> QED  BY <1>0, <2>1, <2>3
<1> QED  BY <1>1, <1>2, <1>3, <1>4

LEMMA ArmedPlay ==
  ASSUME TypeOK, NEW t, Armed(dev, run.mine, t), Play,
         ~CaptureTargets, ~RetireTargets
  PROVE  Armed(dev', run'.mine, t)
<1> USE LocalFields DEF TypeOK
<1>0. ~ActivateDirectDrawable => run'.mine = run.mine
  BY PlayTouches DEF Play, RunOnly, Kept
<1>1. CASE ~(\/ RetireMarkers \/ ActivateDirectDrawable \/ StartTraceCapture
             \/ SampleLoop)
  <2>1. DevOnly({"lease", "stopped", "agentStopped"})
    BY <1>1, PlayTouches DEF Play, DevOnly, Kept
  <2> QED  BY <1>0, <1>1, <2>1, ArmedSame DEF DevOnly
<1>2. ASSUME NEW ms, NEW present, NEW m, Armed(dev, m, t),
             ms \cap {"launch", "active"} \subseteq m,
             "capture" \notin ms, "target" \notin ms,
             \E o \in set_diagnostic_markers(dev, ms, present) : dev' = o.dev
      PROVE  Armed(dev', m, t)
  BY <1>2, ArmedMarkers
<1>3. CASE RetireMarkers
  <2>1. \E o \in set_diagnostic_markers(dev, run.mine, FALSE) : dev' = o.dev
    BY <1>3 DEF RetireMarkers
  <2>2. run.mine \subseteq {"launch", "active"}
    BY DEF Locals
  <2>3. Armed(dev', run.mine, t)
    BY <1>2, <2>1, <2>2
  <2> QED  BY <1>0, <2>3, <1>3 DEF RetireMarkers, ActivateDirectDrawable
<1>5. CASE StartTraceCapture
  <2>1. dev' = dev \/ (On("waitTrace") /\ dev' = [dev EXCEPT !.markers = @ \cup {"capture"}])
    BY <1>5, AttemptOutcome DEF StartTraceCapture
  <2>2. Armed(dev', run.mine, t)
    BY <2>1 DEF Armed, Device
  <2> QED  BY <1>0, <2>2, <1>5 DEF StartTraceCapture, ActivateDirectDrawable
<1>6. CASE SampleLoop
  <2>1. dev' = dev \/ dev' = [dev EXCEPT !.markers = @ \ {"capture"}]
    BY <1>6, AttemptOutcome DEF SampleLoop
  <2>2. Armed(dev', run.mine, t)
    BY <2>1, ArmedSubset
  <2> QED  BY <1>0, <2>2, <1>6 DEF SampleLoop, ActivateDirectDrawable
<1>7. CASE ActivateDirectDrawable
  <2> DEFINE r == [run EXCEPT !.mine = @ \cup {"active"}]
  <2>1. \/ dev' = dev /\ (run' = run \/ Throw(run))
        \/ /\ \/ \E a \in acquire_gui_lease(dev) : dev' = a.dev
              \/ \E a \in acquire_gui_lease(dev) :
                   \E m \in set_diagnostic_markers(a.dev, {"active"}, TRUE) :
                     \E b \in release_gui_lease(m.dev) : dev' = b.dev
           /\ run' = r \/ Throw(r)
    BY <1>7 DEF ActivateDirectDrawable, Continue
  <2>2. r \in Locals /\ r.mine = run.mine \cup {"active"}
    BY DEF Locals
  <2> HIDE DEF r
  <2>3. Armed(dev, r.mine, t)
    BY <2>2 DEF Armed
  <2>4. ASSUME NEW a \in acquire_gui_lease(dev)
        PROVE  a.dev \in Device /\ Armed(a.dev, r.mine, t)
    BY <2>3, AcquireType, LeaseKeeps, ArmedSame
  <2>5. ASSUME NEW d \in Device, Armed(d, r.mine, t),
               NEW m \in set_diagnostic_markers(d, {"active"}, TRUE)
        PROVE  m.dev \in Device /\ Armed(m.dev, r.mine, t)
    BY <2>2, <2>5, MarkersType, ArmedMarkers
  <2>6. ASSUME NEW d \in Device, Armed(d, r.mine, t), NEW b \in release_gui_lease(d)
        PROVE  Armed(b.dev, r.mine, t)
    BY <2>6, LeaseKeeps, ArmedSame
  <2>7. CASE dev' = dev /\ (run' = run \/ Throw(run))
    BY <2>7, ThrowKeeps DEF Kept
  <2>8. CASE /\ \/ \E a \in acquire_gui_lease(dev) : dev' = a.dev
                \/ \E a \in acquire_gui_lease(dev) :
                     \E m \in set_diagnostic_markers(a.dev, {"active"}, TRUE) :
                       \E b \in release_gui_lease(m.dev) : dev' = b.dev
             /\ run' = r \/ Throw(r)
    <3>1. Armed(dev', r.mine, t)
      BY <2>4, <2>5, <2>6, <2>8
    <3>2. run'.mine = r.mine
      BY <2>2, <2>8, ThrowKeeps DEF Kept, Locals
    <3> QED  BY <3>1, <3>2
  <2> QED  BY <2>1, <2>7, <2>8
<1> QED  BY <1>1, <1>3, <1>5, <1>6, <1>7 DEF Play

LEMMA ArmedTargets ==
  ASSUME TypeOK, NEW t, Armed(dev, run.mine, t), CaptureTargets \/ RetireTargets
  PROVE  Armed(dev', run'.mine, TRUE)
<1>1. \/ dev' = dev
      \/ \E present : \E o \in set_diagnostic_markers(dev, {"target"}, present) :
           dev' = o.dev
  BY DEF CaptureTargets, RetireTargets
<1>2. Armed(dev, run.mine, TRUE)
  BY DEF Armed
<1>3. ASSUME NEW present, NEW o \in set_diagnostic_markers(dev, {"target"}, present)
      PROVE  Armed(o.dev, run.mine, TRUE)
  BY <1>2, ArmedMarkers DEF TypeOK
<1>4. run'.mine = run.mine
  BY LocalFields, PlayTouches DEF RunOnly, Kept
<1> QED  BY <1>1, <1>2, <1>3, <1>4

LEMMA ArmedAbort ==
  ASSUME TypeOK, NEW d \in Device, NEW m, NEW t, Armed(d, m, t), Abort(d)
  PROVE  Armed(dev', m, t)
BY AbortKeeps, ArmedSame DEF GoneFields

LEMMA ArmedCleanup ==
  ASSUME TypeOK, NEW t, Armed(dev, run.mine, t), Cleanup
  PROVE  Armed(dev', run'.mine, t)
<1> USE LocalFields DEF TypeOK, NoCall
<1>0. run'.mine = run.mine
  BY CleanupTouches DEF Cleanup, RunOnly, Kept
<1>1. CASE ~(ClearMarkers \/ RemoveAppid \/ RemoveTraceMarkers \/ ClearEnvironment)
  <2>1. DevOnly(SteamFields \cup GoneFields \cup {"game", "cc"})
    BY <1>1, CleanupTouches DEF Cleanup, DevOnly, Kept, SteamFields, GoneFields
  <2> QED  BY <1>0, <2>1, ArmedSame DEF DevOnly, SteamFields, GoneFields
<1>2. CASE ClearMarkers
  <2> DEFINE gone(d) == [d EXCEPT !.markers = @ \ run.mine]
  <2>1. CASE run.mine = {}
    BY <1>0, <1>2, <2>1 DEF ClearMarkers, MarkersToClear
  <2>2. CASE run.mine # {}
    <3>1. PICK a : /\ a \in set_diagnostic_markers(dev, run.mine, FALSE) \cup {Fails(dev)}
                   /\ \/ dev' = a.dev
                      \/ \E o \in Attempt(a.dev, gone(a.dev)) : dev' = o.dev
      BY <1>2, <2>2 DEF ClearMarkers, MarkersToClear
    <3>2. ASSUME NEW d \in Device, Armed(d, run.mine, t)
          PROVE  gone(d) \in Device /\ Armed(gone(d), run.mine, t)
      BY <3>2, ArmedSubset DEF Device
    <3>3. a.dev \in {dev, gone(dev)}
      BY <3>1, AgentCallOutcome DEF set_diagnostic_markers, Fails
    <3>4. dev' \in {a.dev, gone(a.dev)}
      BY <3>1, AttemptOutcome
    <3> HIDE DEF gone
    <3>5. Armed(dev', run.mine, t)
      BY <3>2, <3>3, <3>4
    <3> QED  BY <1>0, <3>5
  <2> QED  BY <2>1, <2>2
<1>3. CASE RemoveAppid
  <2>1. dev' = dev \/ dev' = [dev EXCEPT !.appid = FALSE]
    BY <1>3, AttemptOutcome DEF RemoveAppid
  <2> QED  BY <1>0, <2>1 DEF Armed, Device
<1>4. CASE RemoveTraceMarkers
  <2> DEFINE e == [dev EXCEPT !.markers = @ \ {"capture"}]
  <2>1. PICK o : o \in Attempt(dev, e) \cup NoCall /\ (dev' = o.dev \/ Abort(o.dev))
    BY <1>4 DEF RemoveTraceMarkers
  <2>2. e \in Device /\ Armed(e, run.mine, t)
    BY ArmedSubset DEF Device
  <2>3. o.dev \in Device /\ Armed(o.dev, run.mine, t)
    BY <2>1, <2>2, AttemptOutcome
  <2> QED  BY <1>0, <2>1, <2>3, ArmedAbort
<1>5. CASE ClearEnvironment
  <2>1. DevOnly(GoneFields \cup {"env"})
    BY <1>5, CleanupTouches
  <2> QED  BY <1>0, <2>1, ArmedSame DEF DevOnly, GoneFields
<1> QED  BY <1>1, <1>2, <1>3, <1>4, <1>5

LEMMA ListedStep ==
  ASSUME TypeOK, Phases, Listed, [Next]_vars
  PROVE  Listed'
<1>1. CASE Next /\ ~(SteamSpawns \/ GameDies \/ AgentDies)
  <2>1. Armed(dev', run'.mine, TRUE) /\ opt' = opt
    <3>0. opt' = opt
      BY <1>1 DEF Next
    <3>1. CASE CaptureTargets \/ RetireTargets
      BY <3>0, <3>1, ArmedTargets DEF Listed
    <3>2. CASE Prepare \/ Launch \/ (Play /\ ~(CaptureTargets \/ RetireTargets))
      BY <3>0, <3>2, ArmedPrepare, ArmedLaunch, ArmedPlay DEF Listed
    <3>3. CASE Cleanup
      BY <3>0, <3>3, ArmedCleanup DEF Listed
    <3> QED  BY <1>1, <3>1, <3>2, <3>3 DEF Next
  <2> QED  BY <2>1 DEF Listed, Armed, On
<1>2. CASE SteamSpawns \/ GameDies \/ AgentDies
  <2>1. UNCHANGED <<run, opt>>
    BY <1>2 DEF SteamSpawns, GameDies, AgentDies
  <2>2. Armed(dev', run.mine, TRUE)
    BY <1>2, MovesTouch, ArmedSame DEF Listed, TypeOK, DevOnly, GoneFields
  <2> QED  BY <2>1, <2>2 DEF Listed, Armed, On
<1>3. CASE UNCHANGED vars
  BY <1>3 DEF vars, Listed, Armed, On
<1> QED  BY <1>1, <1>2, <1>3

-----------------------------------------------------------------------------
(* What the finally block has undone.                                        *)

(* The steps of the finally block and where each stands.                     *)
LEMMA FinallyMap ==
  ASSUME TypeOK, Cleanup
  PROVE  /\ pc' \in PastSteam => pc \in PastSteam \/ pc = "f_steam"
         /\ pc' \in PastMarkers => pc \in PastMarkers \/ pc = "f_markers"
         /\ pc' \in PastAppid => pc \in PastAppid \/ pc = "f_appid"
         /\ pc' \in PastTrace => pc \in PastTrace \/ pc = "f_trace"
         /\ pc' \in PastRender => pc \in PastRender \/ pc = "f_render"
         /\ pc' \in PastFatal => pc \in PastFatal \/ pc = "f_fatal"
         /\ pc' \in PastKill => pc \in PastKill \/ pc = "f_kill"
         /\ pc' \in PastStop => pc \in PastStop \/ pc = "f_stop"
         /\ pc' \in PastEnv => pc \in PastEnv \/ pc = "f_env"
         /\ pc' \in PastCC => pc \in PastCC \/ pc = "f_cc"
BY CleanupOrder DEF FinallyOrder, Aborts, PastRender, PastSteam, PastMarkers, PastAppid,
   PastLease, PastTrace, PastFatal, PastKill, PastStop, PastEnv, PastCC

LEMMA CooledUndone ==
  ASSUME TypeOK, Undone, Cleanup, pc' \in PastSteam, slips' = 0, run'.cooled
  PROVE  run'.cooledBack
<1>1. slips = 0
  BY CleanupCounts
<1>2. CASE ~ResumeCooledSteam
  <2>1. pc # "f_steam"
    BY Zenon, <1>2 DEF Cleanup, ResumeRenderPath, ResumeGame, ClearMarkers, RemoveAppid,
       ReleaseHeldLease, RemoveTraceMarkers, FinalFatalCheck, TerminateGame,
       ResumeQuiescedSteam, StopStartedSteam, ClearEnvironment, RestoreControlCenter,
       ScoreThermal, CloseAndWrite
  <2> QED  BY <1>1, <1>2, <2>1, CooledKept, FinallyMap DEF Undone
<1>3. CASE ResumeCooledSteam
  <2>1. PICK o : /\ Slip(o)
                 /\ run' = [run EXCEPT !.cooledBack = @ \/ (run.cooled /\ o.ok)]
    BY <1>3 DEF ResumeCooledSteam, Continue
  <2>2. o.ok
    BY <2>1, SlipOutcome DEF TypeOK
  <2>3. run'.cooled = run.cooled
    BY <2>1 DEF TypeOK, Locals
  <2>4. run' = [run EXCEPT !.cooledBack = run.cooledBack \/ (run.cooled /\ o.ok)]
    BY <2>1
  <2>5. (run.cooledBack \/ (run.cooled /\ o.ok)) = TRUE
    BY <2>2, <2>3
  <2> QED  BY <2>4, <2>5 DEF TypeOK, Locals
<1> QED  BY <1>2, <1>3

LEMMA MarkersUndone ==
  ASSUME TypeOK, Listed, Undone, Cleanup, pc' \in PastMarkers, slips' = 0
  PROVE  dev'.markers \cap {"launch", "active"} = {}
<1>1. slips = 0
  BY CleanupCounts
<1>2. CASE ~(ClearMarkers \/ RemoveTraceMarkers)
  <2>1. pc # "f_markers"
    BY Zenon, <1>2 DEF Cleanup, ResumeRenderPath, ResumeGame, ResumeCooledSteam, RemoveAppid,
       ReleaseHeldLease, FinalFatalCheck, TerminateGame,
       ResumeQuiescedSteam, StopStartedSteam, ClearEnvironment, RestoreControlCenter,
       ScoreThermal, CloseAndWrite
  <2>2. dev'.markers = dev.markers
    BY <1>2, CleanupTouches, DeviceFields DEF Cleanup, DevOnly, Kept, SteamFields, GoneFields
  <2> QED  BY <1>1, <2>1, <2>2, FinallyMap DEF Undone
<1>3. CASE RemoveTraceMarkers
  <2>1. pc \in PastMarkers
    BY <1>3 DEF RemoveTraceMarkers, PastMarkers, PastAppid, PastLease
  <2>2. dev'.markers \subseteq dev.markers
    <3> DEFINE e == [dev EXCEPT !.markers = @ \ {"capture"}]
    <3>1. PICK o : o \in Attempt(dev, e) \cup NoCall /\ (dev' = o.dev \/ Abort(o.dev))
      BY <1>3 DEF RemoveTraceMarkers
    <3>2. e \in Device /\ e.markers \subseteq dev.markers
      BY DEF TypeOK, Device
    <3>3. o.dev \in {dev, e}
      BY <3>1, AttemptOutcome DEF NoCall
    <3>4. o.dev \in Device /\ o.dev.markers \subseteq dev.markers
      BY <3>2, <3>3 DEF TypeOK
    <3>5. Abort(o.dev) => dev'.markers = o.dev.markers
      BY <3>4, AbortKeeps DEF Kept, GoneFields, Device
    <3> QED  BY <3>1, <3>4, <3>5
  <2> QED  BY <1>1, <2>1, <2>2 DEF Undone
<1>4. CASE ClearMarkers
  <2> DEFINE cleared(d) == d.markers \cap {"launch", "active"} = {}
  <2>1. dev.markers \cap {"launch", "active"} \subseteq run.mine
    BY DEF Listed, Armed
  <2>2. ASSUME NEW d \in Device, d.markers \cap {"launch", "active"} \subseteq run.mine
        PROVE  cleared([d EXCEPT !.markers = @ \ run.mine])
    BY <2>2 DEF Device
  <2>3. CASE run.mine = {}
    BY <1>4, <2>1, <2>3 DEF ClearMarkers, MarkersToClear
  <2>4. CASE run.mine # {}
    <3>1. PICK a : /\ a \in set_diagnostic_markers(dev, run.mine, FALSE) \cup {Fails(dev)}
                   /\ \/ a.ok /\ dev' = a.dev
                      \/ \E o \in Attempt(a.dev, [a.dev EXCEPT !.markers = @ \ run.mine]) :
                           dev' = o.dev /\ Slip(o)
      BY <1>4, <2>4 DEF ClearMarkers, MarkersToClear
    <3>2. /\ a.dev \in {dev, [dev EXCEPT !.markers = @ \ run.mine]}
          /\ a.ok => a.dev = [dev EXCEPT !.markers = @ \ run.mine]
      BY <3>1, AgentCallOutcome DEF set_diagnostic_markers, Fails
    <3>3. /\ a.dev \in Device
          /\ a.dev.markers \cap {"launch", "active"} \subseteq run.mine
          /\ a.ok => cleared(a.dev)
      BY <2>1, <2>2, <3>2 DEF TypeOK, Device
    <3>4. CASE a.ok /\ dev' = a.dev
      BY <3>3, <3>4
    <3>5. ASSUME NEW o \in Attempt(a.dev, [a.dev EXCEPT !.markers = @ \ run.mine]),
                 dev' = o.dev, Slip(o)
          PROVE  cleared(dev')
      <4>1. o.ok
        BY <3>5, SlipOutcome DEF TypeOK
      <4>2. o.dev = [a.dev EXCEPT !.markers = @ \ run.mine]
        BY <3>5, <4>1, AttemptOutcome
      <4> QED  BY <2>2, <3>3, <3>5, <4>2
    <3> QED  BY <3>1, <3>4, <3>5
  <2> QED  BY <2>3, <2>4
<1> QED  BY <1>2, <1>3, <1>4

LEMMA AppidUndone ==
  ASSUME TypeOK, Listed, Undone, Cleanup, pc' \in PastAppid, slips' = 0
  PROVE  ~dev'.appid
<1>1. slips = 0
  BY CleanupCounts
<1>2. CASE ~RemoveAppid
  <2>1. pc # "f_appid"
    BY Zenon, <1>2 DEF Cleanup, ResumeRenderPath, ResumeGame, ResumeCooledSteam, ClearMarkers,
       ReleaseHeldLease, RemoveTraceMarkers, FinalFatalCheck, TerminateGame,
       ResumeQuiescedSteam, StopStartedSteam, ClearEnvironment, RestoreControlCenter,
       ScoreThermal, CloseAndWrite
  <2>2. dev'.appid = dev.appid
    BY <1>2, CleanupTouches, DeviceFields DEF Cleanup, DevOnly, Kept, SteamFields, GoneFields
  <2> QED  BY <1>1, <2>1, <2>2, FinallyMap DEF Undone
<1>3. CASE RemoveAppid
  <2>1. PICK o : /\ o \in IF On("applaunch")
                          THEN Attempt(dev, [dev EXCEPT !.appid = FALSE]) ELSE NoCall
                 /\ dev' = o.dev /\ Slip(o)
    BY <1>3 DEF RemoveAppid
  <2>2. o.ok
    BY <2>1, SlipOutcome DEF TypeOK
  <2>3. CASE On("applaunch")
    BY <2>1, <2>2, <2>3, AttemptOutcome DEF TypeOK, Device
  <2>4. CASE ~On("applaunch")
    BY <2>1, <2>4 DEF NoCall, Listed, Armed
  <2> QED  BY <2>3, <2>4
<1> QED  BY <1>2, <1>3

LEMMA TraceUndone ==
  ASSUME TypeOK, Listed, Undone, Cleanup, pc' \in PastTrace, slips' = 0
  PROVE  "capture" \notin dev'.markers
<1>1. slips = 0
  BY CleanupCounts
<1>2. CASE ~(RemoveTraceMarkers \/ ClearMarkers)
  <2>1. pc # "f_trace"
    BY Zenon, <1>2 DEF Cleanup, ResumeRenderPath, ResumeGame, ResumeCooledSteam, RemoveAppid,
       ReleaseHeldLease, FinalFatalCheck, TerminateGame,
       ResumeQuiescedSteam, StopStartedSteam, ClearEnvironment, RestoreControlCenter,
       ScoreThermal, CloseAndWrite
  <2>2. dev'.markers = dev.markers
    BY <1>2, CleanupTouches, DeviceFields DEF Cleanup, DevOnly, Kept, SteamFields, GoneFields
  <2> QED  BY <1>1, <2>1, <2>2, FinallyMap DEF Undone
<1>3. CASE ClearMarkers
  BY <1>3 DEF ClearMarkers, Continue, PastTrace, PastFatal, PastKill, PastStop, PastEnv, PastCC
<1>4. CASE RemoveTraceMarkers
  <2>1. PICK o : /\ o \in IF On("waitTrace")
                          THEN Attempt(dev, [dev EXCEPT !.markers = @ \ {"capture"}])
                          ELSE NoCall
                 /\ Slip(o)
                 /\ o.ok => dev' = o.dev
    BY <1>4 DEF RemoveTraceMarkers
  <2>2. o.ok
    BY <2>1, SlipOutcome DEF TypeOK
  <2>3. CASE On("waitTrace")
    BY <2>1, <2>2, <2>3, AttemptOutcome DEF TypeOK, Device
  <2>4. CASE ~On("waitTrace")
    BY <2>1, <2>2, <2>4 DEF NoCall, Listed, Armed
  <2> QED  BY <2>3, <2>4
<1> QED  BY <1>2, <1>3, <1>4

LEMMA UndoneStep ==
  ASSUME TypeOK, Undecided, Listed, Undone, [Next]_vars
  PROVE  Undone'
<1>1. CASE (Prepare \/ Launch \/ Play) /\ UNCHANGED <<opt, start, late, slips>>
  <2>1. pc' \in Body \cup {"f_render"}
    BY <1>1, BodyOutcome DEF BodyCourse
  <2>2. pc' \notin PastSteam
    BY <2>1 DEF Body, BeforeMarkers, BeforeCooling, PastSteam, PastMarkers, PastAppid,
       PastLease, PastTrace, PastFatal, PastKill, PastStop, PastEnv, PastCC
  <2> QED  BY <2>2 DEF Undone, PastSteam, PastMarkers, PastAppid, PastLease
<1>2. CASE Cleanup
  BY <1>2, CooledUndone, MarkersUndone, AppidUndone, TraceUndone DEF Undone
<1>3. CASE SteamSpawns \/ GameDies \/ AgentDies
  <2>1. UNCHANGED <<pc, run, slips>>
    BY <1>3 DEF SteamSpawns, GameDies, AgentDies
  <2>2. dev'.markers = dev.markers /\ dev'.appid = dev.appid
    BY <1>3, MovesTouch, DeviceFields DEF DevOnly, Kept, GoneFields
  <2> QED  BY <2>1, <2>2 DEF Undone
<1>4. CASE UNCHANGED vars
  BY <1>4 DEF vars, Undone
<1> QED  BY <1>1, <1>2, <1>3, <1>4 DEF Next

-----------------------------------------------------------------------------
(* The device is restored.                                                   *)

Course == TypeOK /\ Phases /\ Undecided
Restored == Course /\ Remembered /\ Listed /\ Undone

LEMMA CourseInit == Init => Course
<1> SUFFICES ASSUME Init
             PROVE  Course
  OBVIOUS
<1>1. /\ pc = "streams" /\ run = NoLocals /\ slips = 0
      /\ dev.agent = "none"
  BY DEF Init
<1>2. Phases
  BY <1>1 DEF Phases, NoLocals, Steps, Body, BeforeMarkers, BeforeCooling, Exited
<1>3. Undecided
  BY <1>1 DEF Undecided, Good, NoLocals
<1> QED  BY <1>2, <1>3, TypeInit DEF Course

LEMMA CourseStep == Course /\ [Next]_vars => Course'
BY TypeStep, PhasesStep, UndecidedStep DEF Course

LEMMA RestoredInit == Init => Restored
<1> SUFFICES ASSUME Init
             PROVE  Restored
  OBVIOUS
<1>1. /\ pc = "streams" /\ run = NoLocals
      /\ dev.stopped = {} /\ dev.agentStopped = {} /\ dev.markers = {}
      /\ ~dev.lease /\ ~dev.appid
  BY DEF Init
<1>2. Remembered
  BY <1>1 DEF Remembered, Tended
<1>3. Listed
  BY <1>1 DEF Listed, Armed
<1>4. Undone
  BY <1>1 DEF Undone, PastSteam, PastMarkers, PastAppid, PastLease, PastTrace, PastFatal,
     PastKill, PastStop, PastEnv, PastCC
<1> QED  BY <1>2, <1>3, <1>4, CourseInit DEF Restored

LEMMA RestoredStep == Restored /\ [Next]_vars => Restored'
BY CourseStep, RememberedStep, ListedStep, UndoneStep DEF Course, Restored

(* At the end nothing is suspended: the agent is gone and has resumed what   *)
(* it remembered, and a Steam that was suspended for the cooldown has been   *)
(* resumed.                                                                  *)
LEMMA RestoredSafe == Restored => DeviceRestored
<1> SUFFICES ASSUME Restored, Exited, slips = 0
             PROVE  /\ dev.stopped \cap {"steam", "game"} = {}
                    /\ dev.markers \cap {"launch", "active", "capture"} = {}
                    /\ ~dev.appid
                    /\ ~dev.lease
  BY DEF DeviceRestored, SteamAndGameRunnable, NothingLeftArmed
<1>1. pc = "done" /\ dev.agent # "live"
  BY DEF Restored, Course, Phases, Exited
<1>2. dev.agentStopped = {} /\ ~dev.lease
  BY <1>1 DEF Restored, Remembered, Tended
<1>3. pc \in PastSteam /\ pc \in PastMarkers /\ pc \in PastAppid /\ pc \in PastTrace
  BY <1>1 DEF PastSteam, PastMarkers, PastAppid, PastLease, PastTrace, PastFatal,
     PastKill, PastStop, PastEnv, PastCC
<1>4. run.cooled => run.cooledBack
  BY <1>3 DEF Restored, Undone
<1>5. dev.stopped \cap {"steam", "game"} = {}
  BY <1>2, <1>4 DEF Restored, Remembered, Tended
<1> QED  BY <1>2, <1>3, <1>5 DEF Restored, Undone

(* Whichever call raised and whenever the user pressed Control-C: a run      *)
(* whose cleanup calls succeeded leaves Steam and the game runnable and no   *)
(* marker, request, trace or lease behind.                                   *)
THEOREM DeviceRestoredAlways == Spec => []DeviceRestored
BY RestoredInit, RestoredStep, RestoredSafe, PTL DEF Spec

-----------------------------------------------------------------------------
(* The verdict.                                                              *)

LEMMA StepOf ==
  ASSUME [Next]_vars
  PROVE  \/ (Prepare \/ Launch \/ Play) /\ UNCHANGED <<opt, start, late, slips>>
         \/ Cleanup /\ UNCHANGED <<opt, start, late>>
         \/ (SteamSpawns \/ GameDies \/ AgentDies) /\ UNCHANGED <<pc, run, opt, start, slips>>
         \/ UNCHANGED vars
BY DEF Next, SteamSpawns, GameDies, AgentDies

(* A step of the body stays in it or enters the finally block at its start.  *)
LEMMA BodyStep ==
  ASSUME Course, Prepare \/ Launch \/ Play
  PROVE  /\ pc \in Body
         /\ ~Good /\ ~Failed
         /\ pc' \notin PastRender
<1>1. pc \in Body /\ pc' \in Body \cup {"f_render"}
  BY BodyOutcome DEF BodyCourse, Course
<1>2. pc' \notin PastRender
  BY <1>1 DEF Body, BeforeMarkers, BeforeCooling, PastRender, PastSteam, PastMarkers,
     PastAppid, PastLease, PastTrace, PastFatal, PastKill, PastStop, PastEnv, PastCC
<1> QED  BY <1>1, <1>2 DEF Failed, Course, Undecided

(* A step of the finally block comes from outside the body.                  *)
LEMMA CleanupStep ==
  ASSUME Course, Cleanup
  PROVE  /\ pc \notin Body /\ pc' \notin Body
         /\ Good' => Good
<1>1. pc \in Finally /\ pc' \in Finally \cup {"aborted"}
  BY CleanupOrder DEF Course, FinallyOrder, Aborts, Finally, PastRender, PastSteam,
     PastMarkers, PastAppid, PastLease, PastTrace, PastFatal, PastKill, PastStop,
     PastEnv, PastCC
<1>2. pc \notin Body /\ pc' \notin Body
  BY <1>1 DEF Finally, PastRender, PastSteam, PastMarkers, PastAppid, PastLease,
     PastTrace, PastFatal, PastKill, PastStop, PastEnv, PastCC, Body, BeforeMarkers,
     BeforeCooling
<1> QED  BY <1>2, CleanupGood DEF Course

(* A run that failed has failed.                                             *)
LEMMA FailedStays ==
  ASSUME Course, Failed, [Next]_vars
  PROVE  Failed'
<1>1. CASE Prepare \/ Launch \/ Play
  BY <1>1, BodyStep
<1>2. CASE Cleanup
  BY <1>2, CleanupStep DEF Failed
<1>3. CASE UNCHANGED <<pc, run>>
  BY <1>3 DEF Failed, Good
<1> QED  BY <1>1, <1>2, <1>3, StepOf DEF vars

(* A call of the body that raises fails the run.                             *)
LEMMA ThrowFails ==
  ASSUME NEW r \in Locals, Throw(r), r.result # "OK"
  PROVE  Failed'
BY ThrowCourse DEF Failed, Body, BeforeMarkers, BeforeCooling

-----------------------------------------------------------------------------
(* The render path.                                                          *)

(* Nothing else stops the render path.                                       *)
LEMMA RenderSame ==
  ASSUME Course, Remembered, [Next]_vars, ~RenderStep, "render" \in dev'.stopped
  PROVE  "render" \in dev.stopped
<1> USE DEF Course
<1> SUFFICES ASSUME "render" \notin dev.stopped
             PROVE  FALSE
  OBVIOUS
<1> DEFINE c == run.cooled /\ ~run.cooledBack
<1>1. Tended(dev, c, FALSE)
  BY DEF Remembered, Tended
<1>2. ~Tended(dev', c, FALSE)
  BY DEF Tended
<1> HIDE DEF c
<1>3. CASE \/ SuspendSteamForCooling \/ SteamPreflightReturn \/ ResumeSteam
           \/ ResumeCooledSteam
  <2>1. dev' = dev \/ \E sig : \E o \in signal_exact_pids(dev, sig) : dev' = o.dev
    <3>1. CASE SuspendSteamForCooling
      BY <3>1 DEF SuspendSteamForCooling
    <3>2. CASE SteamPreflightReturn
      BY <3>2 DEF SteamPreflightReturn
    <3>3. CASE ResumeSteam
      BY <3>3 DEF ResumeSteam
    <3>4. CASE ResumeCooledSteam
      BY <3>4 DEF ResumeCooledSteam, NoCall
    <3> QED  BY <1>3, <3>1, <3>2, <3>3, <3>4
  <2>2. ASSUME NEW sig, NEW o \in signal_exact_pids(dev, sig)
        PROVE  "render" \notin o.dev.stopped
    <3>1. o.dev \in { dev, [dev EXCEPT !.stopped = @ \cup {"steam"}],
                      [dev EXCEPT !.stopped = @ \ {"steam"}] }
      BY AttemptOutcome DEF signal_exact_pids
    <3> QED  BY <3>1 DEF TypeOK, Device
  <2> QED  BY <2>1, <2>2
<1>4. CASE Prepare /\ ~(SuspendSteamForCooling \/ SteamPreflightReturn \/ ResumeSteam)
  BY <1>1, <1>2, <1>4, TendedPrepare DEF RenderStep
<1>5. CASE Launch \/ Play
  BY <1>1, <1>2, <1>5, TendedLaunch, TendedPlay DEF RenderStep
<1>6. CASE Cleanup /\ ~ResumeCooledSteam
  BY <1>1, <1>2, <1>6, TendedCleanup DEF RenderStep
<1>7. CASE SteamSpawns \/ GameDies \/ AgentDies
  BY <1>1, <1>2, <1>7, TendedMoves
<1> QED  BY <1>3, <1>4, <1>5, <1>6, <1>7, StepOf DEF vars

LEMMA RenderFlagSame ==
  ASSUME TypeOK, [Next]_vars, ~RenderStep
  PROVE  run'.renderHeld = run.renderHeld
<1> USE LocalFields DEF RunOnly, Kept, RenderStep
<1>1. CASE Prepare
  BY <1>1, PrepareTouches DEF Prepare
<1>2. CASE Launch
  BY <1>2, LaunchTouches DEF Launch
<1>3. CASE Play
  BY <1>3, PlayTouches DEF Play
<1>4. CASE Cleanup
  BY <1>4, CleanupTouches DEF Cleanup
<1> QED  BY <1>1, <1>2, <1>3, <1>4, StepOf DEF vars

(* The signals to the render path.                                           *)
LEMMA RenderSignal ==
  ASSUME NEW d \in Device
  PROVE  /\ \A o \in signal_exact_render_path(d, "CONT") :
              /\ o.ok => "render" \notin o.dev.stopped
              /\ "render" \in o.dev.stopped => "render" \in d.stopped
<1>1. ASSUME NEW o \in signal_exact_render_path(d, "CONT")
      PROVE  /\ o.dev \in {d, [d EXCEPT !.stopped = @ \ {"render"}]}
             /\ o.ok => o.dev = [d EXCEPT !.stopped = @ \ {"render"}]
  BY AttemptOutcome DEF signal_exact_render_path
<1> QED  BY <1>1 DEF Device

LEMMA RenderHeldSteps ==
  ASSUME Course, RenderHeld, [Next]_vars, RenderStep
  PROVE  \/ "render" \notin dev'.stopped
         \/ run'.renderHeld
         \/ Failed'
         \/ pc' \in {"cool_render", "cool_resume"} /\ run'.result = "ERROR"
<1> USE DEF Course, TypeOK, Continue
<1>a. ASSUME "render" \in dev.stopped, pc \notin {"cool_render", "cool_resume"}
      PROVE  run.renderHeld \/ Failed
  BY <1>a DEF RenderHeld
<1>b. pc \in Body => ~Failed /\ run.result # "OK"
  BY DEF Failed, Undecided, Good
<1>1. CASE SuspendRenderPath
  <2>1. pc = "suspend_render" /\ pc \in Body
    BY <1>1 DEF SuspendRenderPath, Body, BeforeMarkers
  <2>2. \/ dev' = dev /\ run' = run
        \/ Throw(run)
        \/ run' = [run EXCEPT !.renderHeld = TRUE]
    BY <1>1 DEF SuspendRenderPath
  <2>3. run' = [run EXCEPT !.renderHeld = TRUE] => run'.renderHeld
    BY DEF Locals
  <2> QED  BY <1>a, <1>b, <2>1, <2>2, <2>3, ThrowFails
<1>2. CASE InitialCooldown
  <2>1. pc = "cooldown" /\ pc \in Body
    BY <1>2 DEF InitialCooldown, Body, BeforeMarkers
  <2>2. \/ dev' = dev /\ ~run.renderHeld
        \/ Throw(run)
        \/ \E o \in signal_exact_render_path(dev, "CONT") : dev' = o.dev /\ o.ok
    BY <1>2 DEF InitialCooldown
  <2> QED  BY <1>a, <1>b, <2>1, <2>2, ThrowFails, RenderSignal
<1>3. CASE CoolGameWait
  <2>1. pc = "cool_wait" /\ pc \in Body
    BY <1>3 DEF CoolGameWait, Body
  <2>2. PICK v : /\ pc' = "cool_render"
                 /\ \/ dev' = dev /\ run' = [run EXCEPT !.result = v]
                    \/ run' = [[run EXCEPT !.renderHeld = TRUE] EXCEPT !.result = v]
                    \/ v = "ERROR" /\ run' = [run EXCEPT !.result = v]
    BY Zenon, <1>3 DEF CoolGameWait
  <2>3. run' = [run EXCEPT !.result = v] =>
          run'.renderHeld = run.renderHeld /\ run'.result = v
    BY DEF Locals
  <2>4. run' = [[run EXCEPT !.renderHeld = TRUE] EXCEPT !.result = v] => run'.renderHeld
    BY DEF Locals
  <2> QED  BY <1>a, <1>b, <2>1, <2>2, <2>3, <2>4
<1>4. CASE CoolGameRenderResume
  <2>1. pc = "cool_render" /\ pc \in Body
    BY <1>4 DEF CoolGameRenderResume, Body
  <2>2. CASE ~run.renderHeld
    <3>1. dev' = dev /\ run' = run /\ pc' = "cool_resume"
      BY <1>4, <2>2 DEF CoolGameRenderResume
    <3> QED  BY <1>b, <2>1, <2>2, <3>1 DEF RenderHeld
  <2>3. CASE run.renderHeld
    <3>1. PICK o \in signal_exact_render_path(dev, "CONT") :
            /\ dev' = o.dev
            /\ o.ok \/ Throw([run EXCEPT !.renderHeld = ~o.ok])
      BY <1>4, <2>3 DEF CoolGameRenderResume
    <3> DEFINE r == [run EXCEPT !.renderHeld = ~o.ok]
    <3>2. r \in Locals /\ r.result # "OK"
      BY <1>b, <2>1 DEF Locals
    <3>3. o.ok \/ Throw(r)
      BY <3>1
    <3> HIDE DEF r
    <3> QED  BY <3>1, <3>2, <3>3, ThrowFails, RenderSignal
  <2> QED  BY <2>2, <2>3
<1>5. CASE ResumeRenderPath
  <2>1. pc = "f_render"
    BY <1>5 DEF ResumeRenderPath
  <2>2. CASE ~run.renderHeld
    <3>1. dev' = dev
      BY <1>5, <2>2 DEF ResumeRenderPath, NoCall
    <3> QED  BY <1>a, <2>1, <2>2, <3>1, FailedStays
  <2>3. CASE run.renderHeld
    <3>1. PICK o \in signal_exact_render_path(dev, "CONT") :
            dev' = o.dev /\ run' = [run EXCEPT !.renderHeld = @ /\ ~o.ok]
      BY <1>5, <2>3 DEF ResumeRenderPath
    <3>2. ~o.ok => run'.renderHeld
      BY <2>3, <3>1 DEF Locals
    <3> QED  BY <3>1, <3>2, RenderSignal
  <2> QED  BY <2>2, <2>3
<1> QED  BY <1>1, <1>2, <1>3, <1>4, <1>5 DEF RenderStep

LEMMA CoolSteps ==
  ASSUME pc \in {"cool_render", "cool_resume"}, Prepare \/ Launch \/ Play
  PROVE  CoolGameRenderResume \/ CoolGameResume
<1>1. ~Prepare
  BY Zenon DEF Prepare, ArmStreams, PreflightOnly, RetireStaleGame, SuspendControlCenter,
     SteamPreflightStart, SteamPreflightReturn, SuspendSteamForCooling,
     SuspendRenderPath, InitialCooldown, PrepareEnvironment, WorkspaceGate,
     ApplySettings, ChooseMarkers, ResumeSteam
<1>2. ~Launch
  BY DEF Launch, ArmObservers, AcquireLease, PublishMarkers, EnsureSteam, SelectGame,
     CaptureIdentities, RequestLaunch, AwaitLaunch, RecoverMissingTask,
     RecoverStalledCloud, ConfirmCloudWarning, ConfirmSessionHandoff,
     RetryAfterAppError49, CheckLaunched
<1>3. Play => CoolGameRenderResume \/ CoolGameResume
  BY Zenon DEF Play, GameStarted, RetireMarkers, ReleaseLease, Settle, ProgressToGameplay,
     QuiesceSteam, ActivateDirectDrawable, CoolGame, CoolGameWait, ProbeGate, HoverProbe,
     HostHoverProbe, LongDragProbe, WalkProbe, Probe, CaptureTargets, RetireTargets,
     TakeProcessSamples, PreSample, StartTraceCapture, SampleLoop, Evaluate, Classify
<1> QED  BY <1>1, <1>2, <1>3

LEMMA RenderHeldStep ==
  ASSUME Course, Remembered, RenderHeld, [Next]_vars
  PROVE  RenderHeld'
<1>1. \/ "render" \notin dev'.stopped
      \/ run'.renderHeld
      \/ Failed'
      \/ pc' \in {"cool_render", "cool_resume"} /\ run'.result = "ERROR"
  <2>1. CASE RenderStep
    BY <2>1, RenderHeldSteps
  <2>2. CASE ~RenderStep
    <3>1. CASE pc \in {"cool_render", "cool_resume"} /\ run.result = "ERROR"
      <4>1. CASE CoolGameResume
        <5>1. PICK o : LET r == [run EXCEPT !.gameHeld = ~o.ok]
                       IN  Throw(r) \/ run.result = "INCOMPLETE"
          BY <4>1 DEF CoolGameResume
        <5> DEFINE r == [run EXCEPT !.gameHeld = ~o.ok]
        <5>2. r \in Locals /\ r.result # "OK"
          BY <3>1 DEF Course, TypeOK, Locals
        <5>3. Throw(r)
          BY <3>1, <5>1
        <5> HIDE DEF r
        <5> QED  BY <5>2, <5>3, ThrowFails
      <4>2. CASE Prepare \/ Launch \/ Play
        BY <2>2, <3>1, <4>1, <4>2, CoolSteps DEF RenderStep
      <4>3. ~Cleanup
        BY <3>1, CleanupStep DEF Body
      <4>4. CASE UNCHANGED <<pc, run>>
        BY <3>1, <4>4
      <4> QED  BY <4>2, <4>3, <4>4, StepOf DEF vars
    <3>3. CASE ~(pc \in {"cool_render", "cool_resume"} /\ run.result = "ERROR")
      BY <2>2, <3>3, RenderSame, RenderFlagSame, FailedStays DEF RenderHeld, Course
    <3> QED  BY <3>1, <3>3
  <2> QED  BY <2>1, <2>2
<1>2. pc' \in PastRender /\ slips' = 0 => ~run'.renderHeld
  <2> SUFFICES ASSUME pc' \in PastRender, slips' = 0
               PROVE  ~run'.renderHeld
    OBVIOUS
  <2>1. CASE Cleanup /\ ~ResumeRenderPath
    <3>1. pc # "f_render"
      BY Zenon, <2>1 DEF Cleanup, ResumeGame, ResumeCooledSteam, ClearMarkers, RemoveAppid,
         ReleaseHeldLease, RemoveTraceMarkers, FinalFatalCheck, TerminateGame,
         ResumeQuiescedSteam, StopStartedSteam, ClearEnvironment,
         RestoreControlCenter, ScoreThermal, CloseAndWrite
    <3>2. run'.renderHeld = run.renderHeld
      BY <2>1, CleanupTouches, LocalFields DEF Cleanup, RunOnly, Kept, Course
    <3> QED  BY <2>1, <3>1, <3>2, FinallyMap, CleanupCounts DEF RenderHeld, Course
  <2>2. CASE ResumeRenderPath
    <3>1. PICK o : Slip(o) /\ run' = [run EXCEPT !.renderHeld = @ /\ ~o.ok]
      BY <2>2 DEF ResumeRenderPath, Continue
    <3>2. o.ok
      BY <3>1, SlipOutcome DEF Course, TypeOK
    <3> QED  BY <3>1, <3>2 DEF Course, TypeOK, Locals
  <2>3. CASE Prepare \/ Launch \/ Play
    BY <2>3, BodyStep
  <2>4. CASE UNCHANGED <<pc, run, slips>>
    BY <2>4 DEF RenderHeld
  <2> QED  BY <2>1, <2>2, <2>3, <2>4, StepOf DEF vars
<1> QED  BY <1>1, <1>2 DEF RenderHeld

-----------------------------------------------------------------------------
(* The marker of the render targets.                                         *)

LEMMA TargetSame ==
  ASSUME Course, Listed, [Next]_vars, ~CaptureTargets, ~RetireTargets,
         "target" \in dev'.markers
  PROVE  "target" \in dev.markers
<1> USE DEF Course
<1> SUFFICES ASSUME "target" \notin dev.markers
             PROVE  FALSE
  OBVIOUS
<1>1. Armed(dev, run.mine, FALSE)
  BY DEF Listed, Armed
<1>2. ~Armed(dev', run'.mine, FALSE)
  BY DEF Armed
<1>3. CASE Prepare \/ Launch \/ Play
  BY <1>1, <1>2, <1>3, ArmedPrepare, ArmedLaunch, ArmedPlay
<1>4. CASE Cleanup
  BY <1>1, <1>2, <1>4, ArmedCleanup
<1>5. CASE SteamSpawns \/ GameDies \/ AgentDies
  BY <1>5, MovesTouch, DeviceFields DEF DevOnly, Kept, GoneFields
<1> QED  BY <1>3, <1>4, <1>5, StepOf DEF vars

LEMMA TargetHeldStep ==
  ASSUME Course, Listed, TargetHeld, [Next]_vars
  PROVE  TargetHeld'
<1> SUFFICES ASSUME "target" \in dev'.markers
             PROVE  pc' = "targets_retire" \/ Failed'
  BY DEF TargetHeld
<1> USE DEF Course, TypeOK
<1>a. pc \in Body => run.result # "OK"
  BY DEF Undecided, Good
<1>1. CASE CaptureTargets
  <2>1. pc = "targets" /\ pc \in Body
    BY <1>1 DEF CaptureTargets, Body
  <2>2. \/ dev' = dev \/ Throw(run) \/ pc' = "targets_retire"
    BY <1>1 DEF CaptureTargets, Continue
  <2> QED  BY <1>a, <2>1, <2>2, ThrowFails, FailedStays DEF TargetHeld
<1>2. CASE RetireTargets
  <2>1. pc \in Body
    BY <1>2 DEF RetireTargets, Body
  <2>2. \/ Throw(run)
        \/ \E o \in set_diagnostic_markers(dev, {"target"}, FALSE) : dev' = o.dev /\ o.ok
    BY <1>2 DEF RetireTargets
  <2>3. ASSUME NEW o \in set_diagnostic_markers(dev, {"target"}, FALSE), o.ok
        PROVE  "target" \notin o.dev.markers
    <3>1. o.dev = [dev EXCEPT !.markers = @ \ {"target"}]
      BY <2>3, AgentCallOutcome DEF set_diagnostic_markers
    <3> QED  BY <3>1 DEF Device
  <2> QED  BY <1>a, <2>1, <2>2, <2>3, ThrowFails
<1>3. CASE ~CaptureTargets /\ ~RetireTargets
  <2>1. pc = "targets_retire" \/ Failed
    BY <1>3, TargetSame DEF TargetHeld
  <2>2. CASE Failed
    BY <2>2, FailedStays
  <2>3. CASE pc = "targets_retire"
    <3>1. ~(Prepare \/ Launch \/ Play)
      <4>1. ~Prepare
        BY <2>3 DEF Prepare, ArmStreams, PreflightOnly, RetireStaleGame,
           SuspendControlCenter, SteamPreflightStart, SteamPreflightReturn,
           SuspendSteamForCooling, SuspendRenderPath, InitialCooldown,
           PrepareEnvironment, WorkspaceGate, ApplySettings, ChooseMarkers, ResumeSteam
      <4>2. ~Launch
        BY <2>3 DEF Launch, ArmObservers, AcquireLease, PublishMarkers, EnsureSteam,
           SelectGame, CaptureIdentities, RequestLaunch, AwaitLaunch,
           RecoverMissingTask, RecoverStalledCloud, ConfirmCloudWarning,
           ConfirmSessionHandoff, RetryAfterAppError49, CheckLaunched
      <4>3. ~Play
        BY <1>3, <2>3 DEF Play, GameStarted, RetireMarkers, ReleaseLease, Settle,
           ProgressToGameplay, QuiesceSteam, ActivateDirectDrawable, CoolGame,
           CoolGameWait, CoolGameRenderResume, CoolGameResume, ProbeGate, HoverProbe,
           HostHoverProbe, LongDragProbe, WalkProbe, Probe,
           TakeProcessSamples, PreSample, StartTraceCapture, SampleLoop, Evaluate,
           Classify
      <4> QED  BY <4>1, <4>2, <4>3
    <3>2. ~Cleanup
      BY <2>3, CleanupStep DEF Body
    <3> QED  BY <2>3, <3>1, <3>2, StepOf DEF vars
  <2> QED  BY <2>1, <2>2, <2>3
<1> QED  BY <1>1, <1>2, <1>3

-----------------------------------------------------------------------------
(* The environment of the overlay test.                                      *)

LEMMA EnvHeldStep ==
  ASSUME Course, EnvHeld, [Next]_vars
  PROVE  EnvHeld'
<1> USE DEF Course
<1>1. CASE PrepareEnvironment
  <2>1. pc \in Body /\ run.result # "OK"
    BY <1>1 DEF PrepareEnvironment, Body, BeforeMarkers, Undecided, Good
  <2>2. \/ Throw(run)
        \/ run' = [run EXCEPT !.env = TRUE]
    BY <1>1 DEF PrepareEnvironment, Continue
  <2>3. run' = [run EXCEPT !.env = TRUE] => run'.env
    BY DEF TypeOK, Locals
  <2>4. run'.env \/ Failed'
    BY <2>1, <2>2, <2>3, ThrowFails DEF TypeOK
  <2>5. pc' \notin PastEnv
    BY <1>1, BodyStep DEF Prepare, PastRender, PastSteam, PastMarkers, PastAppid, PastLease,
       PastTrace, PastFatal, PastKill, PastStop
  <2> QED  BY <2>4, <2>5 DEF EnvHeld
<1>2. CASE (Prepare /\ ~PrepareEnvironment) \/ Launch \/ Play
  <2>1. dev'.env = dev.env
    <3>1. CASE Prepare /\ ~PrepareEnvironment
      BY <3>1, PrepareTouches, DeviceFields DEF Prepare, DevOnly, Kept, SteamFields
    <3>2. CASE Launch
      BY <3>2, LaunchTouches, DeviceFields DEF Launch, DevOnly, Kept, SteamFields
    <3>3. CASE Play
      BY <3>3, PlayTouches, DeviceFields DEF Play, DevOnly, Kept
    <3> QED  BY <1>2, <3>1, <3>2, <3>3
  <2>2. run'.env = run.env
    <3>1. CASE Prepare /\ ~PrepareEnvironment
      BY <3>1, PrepareTouches, LocalFields DEF Prepare, RunOnly, Kept
    <3>2. CASE Launch
      BY <3>2, LaunchTouches, LocalFields DEF Launch, RunOnly, Kept
    <3>3. CASE Play
      BY <3>3, PlayTouches, LocalFields DEF Play, RunOnly, Kept
    <3> QED  BY <1>2, <3>1, <3>2, <3>3
  <2>3. pc' \notin PastEnv
    BY <1>2, BodyStep DEF PastRender, PastSteam, PastMarkers, PastAppid, PastLease,
       PastTrace, PastFatal, PastKill, PastStop
  <2> QED  BY <2>1, <2>2, <2>3, FailedStays DEF EnvHeld
<1>3. CASE Cleanup
  <2>1. run'.env = run.env
    BY <1>3, CleanupTouches, LocalFields DEF Cleanup, RunOnly, Kept
  <2>2. CASE ~ClearEnvironment
    <3>1. dev'.env = dev.env
      BY <1>3, <2>2, CleanupTouches, DeviceFields DEF Cleanup, DevOnly, Kept, SteamFields,
         GoneFields
    <3>2. pc # "f_env"
      BY Zenon, <1>3, <2>2 DEF Cleanup, ResumeRenderPath, ResumeGame, ResumeCooledSteam,
         ClearMarkers, RemoveAppid, ReleaseHeldLease, RemoveTraceMarkers,
         FinalFatalCheck, TerminateGame, ResumeQuiescedSteam, StopStartedSteam,
         RestoreControlCenter, ScoreThermal, CloseAndWrite
    <3>3. pc' \in PastEnv => pc \in PastEnv
      BY <1>3, <3>2, FinallyMap
    <3> QED  BY <1>3, <2>1, <3>1, <3>3, FailedStays, CleanupCounts, CleanupGood DEF EnvHeld
  <2>3. CASE ClearEnvironment
    <3>1. PICK o : /\ o \in IF run.env THEN clear_steam_overlay_test_environment(dev)
                            ELSE NoCall
                   /\ Slip(o)
                   /\ IF o.ok THEN dev' = o.dev ELSE Abort(o.dev)
      BY <2>3 DEF ClearEnvironment
    <3>2. /\ o.dev \in {dev, [dev EXCEPT !.env = FALSE]}
          /\ o.ok /\ run.env => o.dev = [dev EXCEPT !.env = FALSE]
          /\ ~run.env => o.dev = dev
      BY <3>1, AttemptOutcome DEF clear_steam_overlay_test_environment, NoCall
    <3>3. /\ o.dev \in Device
          /\ o.dev.env => dev.env
          /\ o.ok /\ run.env => ~o.dev.env
      BY <3>2 DEF TypeOK, Device
    <3>4. dev'.env = o.dev.env
      <4>1. Abort(o.dev) => dev'.env = o.dev.env
        BY <3>3, AbortKeeps DEF Kept, GoneFields, Device
      <4> QED  BY <3>1, <4>1
    <3>5. dev'.env => run'.env \/ Failed'
      BY <2>1, <3>3, <3>4, FailedStays DEF EnvHeld
    <3>6. ASSUME pc' \in PastEnv, slips' = 0, Good'
          PROVE  ~dev'.env
      <4>1. o.ok
        BY <3>1, <3>6, SlipOutcome DEF TypeOK
      <4>2. ~Failed
        BY <1>3, <3>6, CleanupGood DEF Failed
      <4> QED  BY <3>3, <3>4, <4>1, <4>2 DEF EnvHeld
    <3> QED  BY <3>5, <3>6 DEF EnvHeld
  <2> QED  BY <2>2, <2>3
<1>4. CASE SteamSpawns \/ GameDies \/ AgentDies
  <2>1. dev'.env = dev.env
    BY <1>4, MovesTouch, DeviceFields DEF DevOnly, Kept, GoneFields
  <2>2. UNCHANGED <<pc, run, slips>>
    BY <1>4 DEF SteamSpawns, GameDies, AgentDies
  <2> QED  BY <2>1, <2>2 DEF EnvHeld, Failed, Good
<1>5. CASE UNCHANGED vars
  BY <1>5 DEF vars, EnvHeld, Failed, Good
<1> QED  BY <1>1, <1>2, <1>3, <1>4, <1>5, StepOf

-----------------------------------------------------------------------------
(* ControlCenter.                                                            *)

(* Before the game exists: who takes ControlCenter away remembers it.        *)
LEMMA CCTaken ==
  ASSUME Course, CCHeld, [Next]_vars, SuspendControlCenter \/ WorkspaceGate,
         start.cc, ~dev'.cc
  PROVE  run'.restoreCC \/ Failed'
<1> USE DEF Course, TypeOK
<1>1. CASE SuspendControlCenter
  <2>1. pc = "suspend_cc" /\ pc \in Body
    BY <1>1 DEF SuspendControlCenter, Body, BeforeMarkers, BeforeCooling
  <2>2. dev.cc = start.cc /\ run.result # "OK"
    BY <2>1 DEF CCHeld, Undecided, Good
  <2>3. \/ dev' = dev
        \/ Throw(run)
        \/ run' = [run EXCEPT !.restoreCC = dev.cc]
    BY <1>1 DEF SuspendControlCenter, Continue
  <2>4. run' = [run EXCEPT !.restoreCC = dev.cc] => run'.restoreCC = dev.cc
    BY DEF Locals
  <2> QED  BY <2>2, <2>3, <2>4, ThrowFails
<1>2. CASE WorkspaceGate
  <2>1. pc \in Body
    BY Zenon, <1>2 DEF WorkspaceGate, Body, BeforeMarkers
  <2>2. ~Good /\ ~Failed
    BY <2>1 DEF Undecided, Failed
  <2>3. PICK t \in thermal_checkpoint(run), restarted \in BOOLEAN :
          LET up == IF On("skipWorkspace") THEN dev
                    ELSE [dev EXCEPT !.render = TRUE, !.cc = @ \/ restarted]
          IN  \/ Throw(t.run)
              \/ dev' = up /\ run' = t.run
              \/ /\ \E o \in suspend_control_center_for_game(up) : dev' = o.dev
                 /\ run' = [t.run EXCEPT !.restoreCC = @ \/ up.cc]
    BY Zenon, <1>2 DEF WorkspaceGate, Continue
  <2> DEFINE up == IF On("skipWorkspace") THEN dev
                   ELSE [dev EXCEPT !.render = TRUE, !.cc = @ \/ restarted]
  <2>4. dev.cc => up.cc
    BY DEF Device
  <2>5. t.run \in Locals /\ t.run.result # "OK" /\ t.run.restoreCC = run.restoreCC
    BY <2>2, ThermalResult, ThermalKeeps, LocalFields DEF Kept
  <2>6. CASE Throw(t.run)
    BY <2>5, <2>6, ThrowFails
  <2>7. CASE dev' = up /\ run' = t.run
    BY <2>2, <2>4, <2>5, <2>7 DEF CCHeld
  <2>8. CASE run' = [t.run EXCEPT !.restoreCC = @ \/ up.cc]
    <3>1. run'.restoreCC <=> t.run.restoreCC \/ up.cc
      BY <2>5, <2>8 DEF Locals
    <3>2. dev.cc \/ run.restoreCC
      BY <2>2 DEF CCHeld
    <3> QED  BY <2>4, <2>5, <3>1, <3>2
  <2> QED  BY <2>3, <2>6, <2>7, <2>8
<1> QED  BY <1>1, <1>2

LEMMA CCHeldStep ==
  ASSUME Course, CCHeld, [Next]_vars
  PROVE  CCHeld'
<1> USE DEF Course
<1>1. CASE (SuspendControlCenter \/ WorkspaceGate) /\ UNCHANGED start
  <2>1. Prepare /\ BodyCourse
    BY <1>1, BodyOutcome DEF Prepare
  <2>2. pc' \notin {"streams", "preflight", "stale_game", "suspend_cc"}
    BY Zenon, <1>1, <2>1 DEF BodyCourse, SuspendControlCenter, WorkspaceGate
  <2>3. pc' \notin PastCC
    BY <2>1, BodyStep DEF PastRender, PastSteam, PastMarkers, PastAppid, PastLease,
       PastTrace, PastFatal, PastKill, PastStop, PastEnv
  <2> QED  BY <1>1, <2>2, <2>3, CCTaken DEF CCHeld
<1>2. CASE /\ (Prepare /\ ~(SuspendControlCenter \/ WorkspaceGate)) \/ Launch \/ Play
           /\ UNCHANGED start
  <2>1. dev'.cc = dev.cc
    <3>1. CASE Prepare /\ ~(SuspendControlCenter \/ WorkspaceGate)
      BY <3>1, PrepareTouches, DeviceFields DEF Prepare, DevOnly, Kept, SteamFields
    <3>2. CASE Launch
      BY <3>2, LaunchTouches, DeviceFields DEF Launch, DevOnly, Kept, SteamFields
    <3>3. CASE Play
      BY <3>3, PlayTouches, DeviceFields DEF Play, DevOnly, Kept
    <3> QED  BY <1>2, <3>1, <3>2, <3>3
  <2>2. run'.restoreCC = run.restoreCC
    <3>1. CASE Prepare /\ ~(SuspendControlCenter \/ WorkspaceGate)
      BY <3>1, PrepareTouches, LocalFields DEF Prepare, RunOnly, Kept
    <3>2. CASE Launch
      BY <3>2, LaunchTouches, LocalFields DEF Launch, RunOnly, Kept
    <3>3. CASE Play
      BY <3>3, PlayTouches, LocalFields DEF Play, RunOnly, Kept
    <3> QED  BY <1>2, <3>1, <3>2, <3>3
  <2>3. pc' \notin PastCC
    BY <1>2, BodyStep DEF PastRender, PastSteam, PastMarkers, PastAppid, PastLease,
       PastTrace, PastFatal, PastKill, PastStop, PastEnv
  <2>4. pc' \in {"streams", "preflight", "stale_game", "suspend_cc"} =>
          pc \in {"streams", "preflight", "stale_game", "suspend_cc"}
    BY <1>2, BodyOutcome DEF BodyCourse
  <2> QED  BY <1>2, <2>1, <2>2, <2>3, <2>4, FailedStays DEF CCHeld
<1>3. CASE Cleanup /\ UNCHANGED start
  <2>1. run'.restoreCC = run.restoreCC
    BY <1>3, CleanupTouches, LocalFields DEF Cleanup, RunOnly, Kept
  <2>2. pc' \notin {"streams", "preflight", "stale_game", "suspend_cc"}
    BY <1>3, CleanupStep DEF Body, BeforeMarkers, BeforeCooling
  <2>3. CASE ~RestoreControlCenter
    <3>1. dev'.cc = dev.cc
      BY <1>3, <2>3, CleanupTouches, DeviceFields DEF Cleanup, DevOnly, Kept, SteamFields,
         GoneFields
    <3>2. pc # "f_cc"
      BY Zenon, <1>3, <2>3 DEF Cleanup, ResumeRenderPath, ResumeGame, ResumeCooledSteam,
         ClearMarkers, RemoveAppid, ReleaseHeldLease, RemoveTraceMarkers,
         FinalFatalCheck, TerminateGame, ResumeQuiescedSteam, StopStartedSteam,
         ClearEnvironment, ScoreThermal, CloseAndWrite
    <3>3. pc' \in PastCC => pc \in PastCC
      BY <1>3, <3>2, FinallyMap
    <3> QED  BY <1>3, <2>1, <2>2, <3>1, <3>3, FailedStays, CleanupCounts, CleanupGood
             DEF CCHeld
  <2>4. CASE RestoreControlCenter
    <3>1. PICK o : /\ o \in IF run.restoreCC THEN restore_control_center_after_game(dev)
                            ELSE NoCall
                   /\ Slip(o)
                   /\ dev' = o.dev
      BY <2>4 DEF RestoreControlCenter
    <3>2. /\ o.dev \in {dev, [dev EXCEPT !.cc = TRUE]}
          /\ o.ok /\ run.restoreCC => o.dev = [dev EXCEPT !.cc = TRUE]
      BY <3>1, AttemptOutcome DEF restore_control_center_after_game, NoCall
    <3>3. (dev.cc => dev'.cc) /\ (o.ok /\ run.restoreCC => dev'.cc)
      BY <3>1, <3>2 DEF TypeOK, Device
    <3>4. start.cc /\ ~dev'.cc => run'.restoreCC \/ Failed'
      BY <2>1, <3>3, FailedStays DEF CCHeld
    <3>5. ASSUME slips' = 0, Good', start.cc
          PROVE  dev'.cc
      <4>1. o.ok
        BY <3>1, <3>5, SlipOutcome DEF TypeOK
      <4>2. ~Failed
        BY <1>3, <3>5, CleanupGood DEF Failed
      <4> QED  BY <3>3, <3>5, <4>1, <4>2 DEF CCHeld
    <3> QED  BY <1>3, <2>2, <3>4, <3>5 DEF CCHeld
  <2> QED  BY <2>3, <2>4
<1>4. CASE (SteamSpawns \/ GameDies \/ AgentDies) /\ UNCHANGED <<pc, run, start, slips>>
  <2>1. dev'.cc = dev.cc
    BY <1>4, MovesTouch, DeviceFields DEF DevOnly, Kept, GoneFields
  <2> QED  BY <1>4, <2>1 DEF CCHeld, Failed, Good
<1>5. CASE UNCHANGED vars
  BY <1>5 DEF vars, CCHeld, Failed, Good
<1> QED  BY <1>1, <1>2, <1>3, <1>4, <1>5, StepOf

-----------------------------------------------------------------------------
(* The fatal check, the game and Steam.                                      *)

LEMMA FatalSeenStep ==
  ASSUME Course, FatalSeen, [Next]_vars
  PROVE  FatalSeen'
<1> USE DEF Course
<1>1. CASE Prepare \/ Launch \/ Play
  BY <1>1, BodyStep DEF FatalSeen, PastRender, PastSteam, PastMarkers, PastAppid,
     PastLease, PastTrace
<1>2. CASE Cleanup /\ UNCHANGED late
  <2>1. run'.pid = run.pid
    BY <1>2, CleanupTouches, LocalFields DEF Cleanup, RunOnly, Kept
  <2>2. dev'.fatal = dev.fatal
    BY <1>2, CleanupTouches, DeviceFields DEF Cleanup, DevOnly, Kept, SteamFields, GoneFields
  <2>3. CASE ~FinalFatalCheck
    <3>1. pc # "f_fatal"
      BY Zenon, <1>2, <2>3 DEF Cleanup, ResumeRenderPath, ResumeGame, ResumeCooledSteam,
         ClearMarkers, RemoveAppid, ReleaseHeldLease, RemoveTraceMarkers,
         RestoreControlCenter, TerminateGame, ResumeQuiescedSteam, StopStartedSteam,
         ClearEnvironment, ScoreThermal, CloseAndWrite
    <3>2. pc' \in PastFatal => pc \in PastFatal
      BY <1>2, <3>1, FinallyMap
    <3> QED  BY <1>2, <2>1, <2>2, <3>2, CleanupCounts, CleanupGood DEF FatalSeen
  <2>4. CASE FinalFatalCheck
    <3> SUFFICES ASSUME slips' = 0, Good', run.pid, dev.fatal
                 PROVE  FALSE
      BY <2>1, <2>2 DEF FatalSeen
    <3>1. ~Slip(Fails(dev))
      BY SlipOutcome DEF Fails, TypeOK
    <3>2. PICK v : /\ run' = [run EXCEPT !.seenFatal = @ \/ (run.pid /\ dev.fatal),
                                         !.result = v]
                   /\ v = IF run.result \notin ClassifiedFatals THEN "GAME_FATAL_LATE"
                          ELSE run.result
      BY Zenon, <2>4, <3>1 DEF FinalFatalCheck, Continue
    <3>3. v # "OK"
      BY <3>2 DEF ClassifiedFatals
    <3> QED  BY <3>2, <3>3 DEF Good, TypeOK, Locals
  <2> QED  BY <2>3, <2>4
<1>3. CASE SteamSpawns \/ AgentDies
  <2>1. dev'.fatal = dev.fatal
    BY <1>3, MovesTouch, DeviceFields DEF DevOnly, Kept, GoneFields
  <2>2. UNCHANGED <<pc, run, slips>> /\ late \subseteq late'
    BY <1>3 DEF SteamSpawns, AgentDies
  <2> QED  BY <2>1, <2>2 DEF FatalSeen, Good
<1>4. CASE GameDies
  <2>1. PICK fatal \in BOOLEAN :
          /\ \E exits \in BOOLEAN :
               LET e == [dev EXCEPT !.fatal = @ \/ fatal]
               IN  dev' = IF exits THEN NoGame(e) ELSE e
          /\ late' = IF fatal /\ pc \in {"f_kill", "f_quiesce", "f_stop", "f_env",
                                         "f_cc", "f_thermal", "f_close"}
                     THEN late \cup {"fatal"} ELSE late
    BY <1>4 DEF GameDies
  <2>2. UNCHANGED <<pc, run, slips>> /\ ~Exited
    BY <1>4 DEF GameDies
  <2>3. dev'.fatal => dev.fatal \/ fatal
    <3>1. [dev EXCEPT !.fatal = @ \/ fatal].fatal = (dev.fatal \/ fatal)
      BY DEF TypeOK, Device
    <3>2. NoGame([dev EXCEPT !.fatal = @ \/ fatal]).fatal = (dev.fatal \/ fatal)
      BY DEF TypeOK, Device, NoGame
    <3> QED  BY <2>1, <3>1, <3>2
  <2>4. late \subseteq late' /\ (fatal /\ pc \in PastFatal => "fatal" \in late')
    BY <2>1, <2>2 DEF Exited, PastFatal, PastKill, PastStop, PastEnv, PastCC
  <2> QED  BY <2>2, <2>3, <2>4 DEF FatalSeen, Good
<1>5. CASE UNCHANGED vars
  BY <1>5 DEF vars, FatalSeen, Good
<1> QED  BY <1>1, <1>2, <1>3, <1>4, <1>5, StepOf

LEMMA GameGoneStep ==
  ASSUME Course, GameGone, [Next]_vars
  PROVE  GameGone'
<1> USE DEF Course
<1>1. CASE Prepare \/ Launch \/ Play
  BY <1>1, BodyStep DEF GameGone, PastRender, PastSteam, PastMarkers, PastAppid,
     PastLease, PastTrace, PastFatal
<1>2. CASE Cleanup /\ UNCHANGED <<opt, start, late>>
  <2>1. CASE TerminateGame
    <3> SUFFICES ASSUME ~On("leave")
                 PROVE  /\ Good' => run'.confirmed
                        /\ dev'.game = "own" => run'.result = "CLEANUP_INCOMPLETE"
      BY <1>2 DEF GameGone, On
    <3>1. PICK o \in KillCalls : dev' = o.dev /\ run' = Killed(run, o)
      BY <2>1 DEF TerminateGame, KillCalls, Continue
    <3>2. /\ run'.confirmed = (o.ok /\ o.confirmed)
          /\ ~(o.ok /\ o.confirmed) => run'.result = "CLEANUP_INCOMPLETE"
      BY <3>1 DEF Killed, TypeOK, Locals
    <3>3. o.confirmed => o.dev.game = "none"
      BY KillOutcome
    <3> QED  BY <3>1, <3>2, <3>3 DEF Good
  <2>2. CASE ~TerminateGame
    <3>1. pc # "f_kill"
      BY Zenon, <1>2, <2>2 DEF Cleanup, ResumeRenderPath, ResumeGame, ResumeCooledSteam,
         ClearMarkers, RemoveAppid, ReleaseHeldLease, RemoveTraceMarkers,
         FinalFatalCheck, RestoreControlCenter, ResumeQuiescedSteam, StopStartedSteam,
         ClearEnvironment, ScoreThermal, CloseAndWrite
    <3>2. pc' \in PastKill => pc \in PastKill
      BY <1>2, <3>1, FinallyMap
    <3>3. dev'.game = dev.game
      BY <1>2, <2>2, CleanupTouches, DeviceFields DEF Cleanup, DevOnly, Kept, SteamFields,
         GoneFields
    <3>4. run'.confirmed = run.confirmed
      BY <1>2, <2>2, CleanupTouches, LocalFields DEF Cleanup, RunOnly, Kept
    <3>5. ASSUME pc \in PastKill, run.result = "CLEANUP_INCOMPLETE"
          PROVE  run'.result = "CLEANUP_INCOMPLETE"
      <4>1. ASSUME NEW v, run' = [run EXCEPT !.result = v], v = run.result
            PROVE  run'.result = run.result
        BY <4>1 DEF TypeOK, Locals
      <4>2. CASE \/ ResumeRenderPath \/ ResumeGame \/ ResumeCooledSteam \/ ClearMarkers
                 \/ RemoveAppid \/ ReleaseHeldLease \/ RemoveTraceMarkers
                 \/ ResumeQuiescedSteam \/ ClearEnvironment \/ CloseAndWrite
        BY <3>5, <4>2, CleanupTouches, LocalFields DEF RunOnly, Kept
      <4>3. CASE FinalFatalCheck
        BY <3>5, <4>3 DEF FinalFatalCheck, PastKill, PastStop, PastEnv, PastCC
      <4>4. CASE StopStartedSteam
        <5>1. \/ run' = run
              \/ \E v : run' = [run EXCEPT !.result = v] /\ v = run.result
          BY <3>5, <4>4 DEF StopStartedSteam, Continue
        <5> QED  BY <3>5, <4>1, <5>1
      <4>5. CASE RestoreControlCenter
        <5>1. \E v : run' = [run EXCEPT !.result = v] /\ v = run.result
          BY <3>5, <4>5 DEF RestoreControlCenter, Continue
        <5> QED  BY <3>5, <4>1, <5>1
      <4>6. CASE ScoreThermal
        <5>1. PICK v, b : run' = [run EXCEPT !.thermalValid = b, !.result = v]
                          /\ v = run.result
          BY Zenon, <3>5, <4>6 DEF ScoreThermal, Continue
        <5> QED  BY <3>5, <5>1 DEF TypeOK, Locals
      <4> QED  BY <1>2, <2>2, <4>2, <4>3, <4>4, <4>5, <4>6 DEF Cleanup
    <3> QED  BY <1>2, <3>2, <3>3, <3>4, <3>5, CleanupGood DEF GameGone, On
  <2> QED  BY <2>1, <2>2
<1>3. CASE (SteamSpawns \/ GameDies \/ AgentDies) /\ UNCHANGED <<pc, run, opt, start, slips>>
  <2>1. dev'.game = "own" /\ pc \in PastKill => dev.game = "own" \/ "spawn" \in late'
    <3>1. CASE SteamSpawns
      BY <3>1 DEF SteamSpawns, Exited, PastKill, PastStop, PastEnv, PastCC
    <3>2. CASE GameDies
      BY <3>2 DEF GameDies
    <3>3. CASE AgentDies
      BY <3>3, MovesTouch, DeviceFields DEF DevOnly, Kept, GoneFields
    <3> QED  BY <1>3, <3>1, <3>2, <3>3
  <2>2. late \subseteq late'
    BY <1>3 DEF SteamSpawns, GameDies, AgentDies
  <2> QED  BY <1>3, <2>1, <2>2 DEF GameGone, Good, On
<1>4. CASE UNCHANGED vars
  BY <1>4 DEF vars, GameGone, Good, On
<1> QED  BY <1>1, <1>2, <1>3, <1>4, StepOf

LEMMA SteamStoppedStep ==
  ASSUME Course, SteamStopped, [Next]_vars
  PROVE  SteamStopped'
<1> USE DEF Course
<1>1. CASE Prepare \/ Launch \/ Play
  BY <1>1, BodyStep DEF SteamStopped, PastRender, PastSteam, PastMarkers, PastAppid,
     PastLease, PastTrace, PastFatal, PastKill
<1>2. CASE Cleanup /\ UNCHANGED <<opt, start, late>>
  <2>1. run'.started = run.started /\ run'.retained = run.retained
    BY <1>2, CleanupTouches, LocalFields DEF Cleanup, RunOnly, Kept
  <2>2. CASE StopStartedSteam
    <3> SUFFICES ASSUME slips' = 0, run.started, ~run.retained, ~On("leave"), ~On("keepSteam")
                 PROVE  dev'.steam = "none"
      BY <1>2, <2>1 DEF SteamStopped, On
    <3>1. PICK o \in stop_steam_ui(dev) : dev' = o.dev /\ Slip(o)
      BY <2>2 DEF StopStartedSteam
    <3>2. o.ok
      BY <3>1, SlipOutcome DEF TypeOK
    <3>3. dev' = SteamGone(dev)
      BY <3>1, <3>2, AttemptOutcome DEF stop_steam_ui
    <3> QED  BY <3>3 DEF SteamGone, TypeOK, Device
  <2>3. CASE ~StopStartedSteam
    <3>1. pc # "f_stop"
      BY Zenon, <1>2, <2>3 DEF Cleanup, ResumeRenderPath, ResumeGame, ResumeCooledSteam,
         ClearMarkers, RemoveAppid, ReleaseHeldLease, RemoveTraceMarkers,
         FinalFatalCheck, RestoreControlCenter, ResumeQuiescedSteam, TerminateGame,
         ClearEnvironment, ScoreThermal, CloseAndWrite
    <3>2. pc' \in PastStop => pc \in PastStop
      BY <1>2, <3>1, FinallyMap
    <3>3. dev'.steam = dev.steam
      BY <1>2, <2>3, CleanupTouches, DeviceFields DEF Cleanup, DevOnly, Kept, GoneFields
    <3> QED  BY <1>2, <2>1, <3>2, <3>3, CleanupCounts DEF SteamStopped, On
  <2> QED  BY <2>2, <2>3
<1>3. CASE (SteamSpawns \/ GameDies \/ AgentDies) /\ UNCHANGED <<pc, run, opt, start, slips>>
  <2>1. dev'.steam = dev.steam
    BY <1>3, MovesTouch, DeviceFields DEF DevOnly, Kept, GoneFields
  <2> QED  BY <1>3, <2>1 DEF SteamStopped, On
<1>4. CASE UNCHANGED vars
  BY <1>4 DEF vars, SteamStopped, On
<1> QED  BY <1>1, <1>2, <1>3, <1>4, StepOf

Honest == /\ Restored
          /\ RenderHeld /\ TargetHeld /\ EnvHeld /\ CCHeld
          /\ FatalSeen /\ GameGone /\ SteamStopped

LEMMA HonestInit == Init => Honest
<1> SUFFICES ASSUME Init
             PROVE  Honest
  OBVIOUS
<1>1. /\ pc = "streams" /\ run = NoLocals
      /\ dev.stopped = {} /\ dev.markers = {} /\ ~dev.env /\ dev.cc = start.cc
  BY DEF Init
<1>2. pc \notin PastRender
  BY <1>1 DEF PastRender, PastSteam, PastMarkers, PastAppid, PastLease, PastTrace,
     PastFatal, PastKill, PastStop, PastEnv, PastCC
<1>3. RenderHeld /\ TargetHeld
  BY <1>1, <1>2 DEF RenderHeld, TargetHeld
<1>4. EnvHeld /\ CCHeld
  BY <1>1, <1>2 DEF EnvHeld, CCHeld, PastRender, PastSteam, PastMarkers, PastAppid,
     PastLease, PastTrace, PastFatal, PastKill, PastStop, PastEnv
<1>5. FatalSeen /\ GameGone /\ SteamStopped
  BY <1>2 DEF FatalSeen, GameGone, SteamStopped, PastRender, PastSteam, PastMarkers,
     PastAppid, PastLease, PastTrace, PastFatal, PastKill
<1> QED  BY <1>3, <1>4, <1>5, RestoredInit DEF Honest

LEMMA HonestStep == Honest /\ [Next]_vars => Honest'
BY RestoredStep, RenderHeldStep, TargetHeldStep, EnvHeldStep, CCHeldStep, FatalSeenStep,
   GameGoneStep, SteamStoppedStep DEF Restored, Honest

LEMMA HonestSafe == Honest => ResultHonest
<1> SUFFICES ASSUME Honest
             PROVE  OkEarned /\ SurvivorReported
  BY DEF ResultHonest, Honest, Restored, Course
<1>0. ASSUME pc = "done"
      PROVE  /\ pc \in PastRender /\ pc \in PastMarkers /\ pc \in PastTrace
             /\ pc \in PastFatal /\ pc \in PastKill /\ pc \in PastStop
             /\ pc \in PastEnv /\ pc \in PastCC /\ Exited
  BY <1>0 DEF Exited, PastRender, PastSteam, PastMarkers, PastAppid, PastLease, PastTrace,
     PastFatal, PastKill, PastStop, PastEnv, PastCC
<1>1. SurvivorReported
  BY <1>0 DEF SurvivorReported, Honest, GameGone
<1>2. ASSUME pc = "done", run.result = "OK", slips = 0
      PROVE  /\ run.confirmed \/ On("leave")
             /\ run.pid /\ dev.fatal => "fatal" \in late
             /\ dev.stopped = {} /\ dev.markers = {} /\ ~dev.env
             /\ start.cc => dev.cc
             /\ run.started /\ ~run.retained =>
                  On("leave") \/ On("keepSteam") \/ dev.steam = "none"
             /\ On("progress") /\ opt.mode = "bench" => run.visual
  <2>1. Good /\ ~Failed
    BY <1>2 DEF Good, Failed
  <2>2. run.confirmed \/ On("leave")
    BY <1>0, <1>2, <2>1 DEF Honest, GameGone
  <2>3. run.pid /\ dev.fatal => "fatal" \in late
    BY <1>0, <1>2, <2>1 DEF Honest, FatalSeen
  <2>4. dev.stopped = {}
    <3>1. dev.stopped \cap {"steam", "game"} = {}
      BY <1>0, <1>2, RestoredSafe DEF Honest, DeviceRestored, SteamAndGameRunnable
    <3>2. "render" \notin dev.stopped
      BY <1>0, <1>2, <2>1 DEF Honest, RenderHeld
    <3>3. dev.stopped \subseteq {"game", "steam", "render"}
      BY DEF Honest, Restored, Course, TypeOK, Device
    <3> QED  BY <3>1, <3>2, <3>3
  <2>5. dev.markers = {}
    <3>1. dev.markers \cap {"launch", "active", "capture"} = {}
      BY <1>0, <1>2, RestoredSafe DEF Honest, DeviceRestored, NothingLeftArmed
    <3>2. "target" \notin dev.markers
      BY <1>2, <2>1 DEF Honest, TargetHeld
    <3>3. dev.markers \subseteq {"launch", "active", "target", "capture"}
      BY DEF Honest, Restored, Course, TypeOK, Device
    <3> QED  BY <3>1, <3>2, <3>3
  <2>6. ~dev.env
    BY <1>0, <1>2, <2>1 DEF Honest, EnvHeld
  <2>7. start.cc => dev.cc
    BY <1>0, <1>2, <2>1 DEF Honest, CCHeld
  <2>8. run.started /\ ~run.retained =>
          On("leave") \/ On("keepSteam") \/ dev.steam = "none"
    BY <1>0, <1>2 DEF Honest, SteamStopped
  <2>9. On("progress") /\ opt.mode = "bench" => run.visual
    BY <2>1 DEF Honest, Restored, Course, Undecided
  <2> QED  BY <2>2, <2>3, <2>4, <2>5, <2>6, <2>7, <2>8, <2>9
<1> QED  BY <1>1, <1>2 DEF OkEarned

(* OK is earned, whatever failed on the way and in whichever order Steam,    *)
(* the game and the agent acted: it stands for a confirmed exit, no fatal    *)
(* line before the last check and a desktop that is undone in every respect; *)
(* a game that survived is reported.                                         *)
THEOREM ResultHonestAlways == Spec => []ResultHonest
BY HonestInit, HonestStep, HonestSafe, PTL DEF Spec

-----------------------------------------------------------------------------
(* StrayCapture.                                                             *)

\* What a call returned.
Retrieved == [kind : {"none", "exact"}]
        \cup [kind : Kinds, asked : Nat, quiet : BOOLEAN, witnessed : BOOLEAN,
              shows : Nat, files : SUBSET Nat]

\* A result is of this run: of its request, its clean-up c and its reset z.
ThisRun(r, c, z) ==
    /\ r.kind = "picture" /\ r.witnessed /\ r.quiet => r.shows >= r.asked
    /\ r.kind = "layers" /\ c > 0 => \A shows \in r.files : shows >= c
    /\ r.kind = "export" => r.shows >= z

\* The results so far; layers come in the fourth call and an export in the last.
ResultsFine(res, call, c, z) ==
    /\ res \in Seq(Retrieved)
    /\ \A i \in 1 .. Len(res) :
         /\ ThisRun(res[i], c, z)
         /\ res[i].kind = "layers" => call > 4
         /\ res[i].kind = "export" => call = 6

HostFine ==
    /\ hostlog \in Seq([kind : Kinds, written : BOOLEAN])
    /\ DOMAIN hostfs = {"moment", "picture", "begun", "exported", "layers"}
    /\ hostfs.moment \in Nat /\ hostfs.picture \in Nat
    /\ hostfs.begun \in 0 .. hostfs.moment /\ hostfs.exported \in Nat
    /\ hostfs.layers \in [Layers -> Nat]

\* What the answers since the request say of the files.
AnswersTrue ==
    /\ CallNow = "picture" /\ shot.offset >= 0
         => \A i \in AnswersAfter(shot.offset, "picture") :
              hostlog[i].written => hostfs.picture >= shot.asked
    /\ CallNow = "reset" /\ AnswersAfter(shot.offset, "reset") # {}
         => hostfs.begun >= shot.asked
    /\ CallNow = "export" /\ AnswersAfter(shot.offset, "export") # {}
         => hostfs.exported >= shot.reset

ShotFine ==
    /\ DOMAIN shot = {"call", "at", "offset", "asked", "quiet", "foreign", "cleaned", "reset",
                      "result"}
    /\ shot.call \in 1 .. 6 /\ shot.offset \in -1 .. Len(hostlog)
    /\ shot.at \in {"idle", "asked", "over"}
    /\ shot.quiet \in BOOLEAN /\ shot.foreign \in Nat
    /\ shot.asked \in 0 .. hostfs.moment
    /\ shot.cleaned \in 0 .. hostfs.moment /\ shot.reset \in 0 .. hostfs.begun
    /\ shot.cleaned > 0 => \A w \in Layers : hostfs.layers[w] = 0 \/ hostfs.layers[w] >= shot.cleaned
    /\ shot.at = "asked" => CallNow \in Kinds /\ AnswersTrue
    /\ shot.at = "asked" /\ CallNow # "picture" => shot.offset >= 0
    /\ ResultsFine(shot.result, shot.call, shot.cleaned, shot.reset)

\* A file that is copied is whole, as its sample has ended.
SampleFine ==
    /\ DOMAIN sampler = {"at", "shell", "data", "copy", "used"}
    /\ sampler.at = "sampling" =>
         \/ sampler.shell = "sample" /\ sampler.data = "part"
         \/ sampler.shell = "done" /\ sampler.data = "whole"
         \/ sampler.shell = "failed"
    /\ sampler.at = "copying" => sampler.shell = "done" /\ sampler.data = "whole"
    /\ sampler.at = "returned" =>
         sampler.shell = "done" /\ sampler.copy = "whole" /\ sampler.data = "none"

CaptureInv == HostFine /\ ShotFine /\ SampleFine

LEMMA PlanCalls ==
    /\ Len(Plan) = 6 /\ Plan[1] = "picture" /\ Plan[2] = "cleanup" /\ Plan[3] = "picture"
    /\ Plan[4] = "layers" /\ Plan[5] = "reset" /\ Plan[6] = "export"
BY DEF Plan

LEMMA CaptureStart == CaptureInit => CaptureInv
<1>1. SUFFICES ASSUME CaptureInit PROVE CaptureInv
  OBVIOUS
<1>2. HostFine /\ SampleFine
  BY <1>1 DEF CaptureInit, HostFine, SampleFine
<1>3. ResultsFine(shot.result, shot.call, shot.cleaned, shot.reset)
  BY <1>1 DEF CaptureInit, ResultsFine
<1>4. ShotFine
  BY <1>1, <1>3 DEF CaptureInit, ShotFine
<1> QED  BY <1>2, <1>4 DEF CaptureInv

LEMMA ResultKept ==
  ASSUME NEW res, NEW call \in 1 .. 6, NEW next \in 1 .. 6, NEW c, NEW z, NEW r \in Retrieved,
         ResultsFine(res, call, c, z), ThisRun(r, c, z),
         next >= call,
         r.kind = "layers" => next > 4, r.kind = "export" => next = 6
  PROVE  ResultsFine(Append(res, r), next, c, z)
<1>1. PICK n \in Nat, s \in Seq(Retrieved) : s = res /\ n = Len(s)
  BY DEF ResultsFine
<1>2. PICK t : t = Append(s, r)
  OBVIOUS
<1>3. t \in Seq(Retrieved) /\ Len(t) = n + 1 /\ t[n + 1] = r /\ \A i \in 1 .. n : t[i] = s[i]
  BY <1>1, <1>2
<1>4. ASSUME NEW i \in 1 .. n + 1
      PROVE  /\ ThisRun(t[i], c, z)
             /\ t[i].kind = "layers" => next > 4
             /\ t[i].kind = "export" => next = 6
  <2>1. CASE i = n + 1
    BY <1>3, <2>1
  <2>2. CASE i # n + 1
    <3>1. i \in 1 .. n
      BY <2>2
    <3> QED  BY <1>1, <1>3, <3>1 DEF ResultsFine
  <2> QED  BY <2>1, <2>2
<1> QED  BY <1>1, <1>2, <1>3, <1>4 DEF ResultsFine

\* A line is added to the log: the earlier ones keep their places.
LEMMA AnswersGrow ==
  ASSUME HostFine, NEW e \in [kind : Kinds, written : BOOLEAN], hostlog' = Append(hostlog, e)
  PROVE  /\ hostlog' \in Seq([kind : Kinds, written : BOOLEAN])
         /\ Len(hostlog) \in Nat /\ Len(hostlog') = Len(hostlog) + 1
         /\ hostlog'[Len(hostlog')] = e
         /\ \A i \in 1 .. Len(hostlog) : hostlog'[i] = hostlog[i]
         /\ \A f \in Nat : \A k :
              /\ AnswersAfter(f, k)' \subseteq AnswersAfter(f, k) \cup {Len(hostlog')}
              /\ k # e.kind => AnswersAfter(f, k)' \subseteq AnswersAfter(f, k)
              /\ AnswersAfter(f, k) \subseteq 1 .. Len(hostlog)
<1>1. PICK n \in Nat, s \in Seq([kind : Kinds, written : BOOLEAN]) : s = hostlog /\ n = Len(s)
  BY DEF HostFine
<1>2. PICK t : t = Append(s, e)
  OBVIOUS
<1>3. /\ t \in Seq([kind : Kinds, written : BOOLEAN]) /\ Len(t) = n + 1 /\ t[n + 1] = e
      /\ \A i \in 1 .. n : t[i] = s[i]
  BY <1>1, <1>2
<1>4. \A f, k : AnswersAfter(f, k) = {i \in f + 1 .. n : s[i].kind = k}
  BY <1>1 DEF AnswersAfter
<1>5. \A f, k : AnswersAfter(f, k)' = {i \in f + 1 .. n + 1 : t[i].kind = k}
  BY <1>1, <1>2, <1>3 DEF AnswersAfter
<1>6. ASSUME NEW f \in Nat, NEW k, NEW i \in f + 1 .. n + 1, t[i].kind = k
      PROVE  i = n + 1 \/ (i \in f + 1 .. n /\ i \in 1 .. n /\ s[i].kind = k)
  BY <1>3, <1>6
<1>7. ASSUME NEW f \in Nat, NEW k
      PROVE  /\ AnswersAfter(f, k)' \subseteq AnswersAfter(f, k) \cup {n + 1}
             /\ k # e.kind => AnswersAfter(f, k)' \subseteq AnswersAfter(f, k)
  BY <1>3, <1>4, <1>5, <1>6
<1>8. \A f \in Nat : \A k : AnswersAfter(f, k) \subseteq 1 .. n
  BY <1>4
<1> QED  BY <1>1, <1>2, <1>3, <1>7, <1>8

LEMMA AnswerChosen ==
  ASSUME HostFine, NEW f \in Nat, NEW k, AnswersAfter(f, k) # {}
  PROVE  LastOf(AnswersAfter(f, k)) \in AnswersAfter(f, k)
<1>1. Len(hostlog) \in Nat
  BY DEF HostFine
<1>2. AnswersAfter(f, k) \subseteq 1 .. Len(hostlog)
  BY <1>1 DEF AnswersAfter
<1>3. \E i \in AnswersAfter(f, k) : \A j \in AnswersAfter(f, k) : j <= i
  BY <1>1, <1>2, Greatest
<1> QED  BY <1>3 DEF LastOf

\* Host serves a request, or another tool's are added.
LEMMA HostKeep ==
  ASSUME CaptureInv, HostSteps
  PROVE  CaptureInv'
<1>1. /\ HostFine /\ ShotFine /\ SampleFine /\ sampler' = sampler
  BY DEF CaptureInv, HostSteps, HostServes, HostNeverHears, AnotherAsks
<1>2. SampleFine'
  BY <1>1 DEF SampleFine
<1>3. CASE HostNeverHears
  <2>1. UNCHANGED <<hostlog, hostfs, shot>>
    BY <1>3 DEF HostNeverHears
  <2>2. HostFine'
    BY <1>1, <2>1 DEF HostFine
  <2>3. ShotFine'
    BY <1>1, <2>1 DEF ShotFine, AnswersTrue, AnswersAfter, CallNow
  <2> QED  BY <1>2, <2>2, <2>3 DEF CaptureInv
<1>4. CASE AnotherAsks
  <2>1. /\ hostlog' = hostlog /\ hostfs' = [hostfs EXCEPT !.moment = @ + 1]
        /\ shot' = [shot EXCEPT !.foreign = @ + 1]
    BY <1>4 DEF AnotherAsks
  <2>2. /\ DOMAIN hostfs' = DOMAIN hostfs /\ hostfs'.moment = hostfs.moment + 1
        /\ hostfs'.picture = hostfs.picture /\ hostfs'.begun = hostfs.begun
        /\ hostfs'.exported = hostfs.exported /\ hostfs'.layers = hostfs.layers
    BY <1>1, <2>1 DEF HostFine
  <2>3. HostFine'
    BY <1>1, <2>1, <2>2 DEF HostFine
  <2>4. /\ DOMAIN shot' = DOMAIN shot /\ shot'.foreign = shot.foreign + 1
        /\ \A x \in DOMAIN shot : x # "foreign" => shot'[x] = shot[x]
    BY <1>1, <2>1 DEF ShotFine
  <2>5. /\ shot'.call = shot.call /\ shot'.at = shot.at /\ shot'.offset = shot.offset
        /\ shot'.asked = shot.asked /\ shot'.quiet = shot.quiet /\ shot'.cleaned = shot.cleaned
        /\ shot'.reset = shot.reset /\ shot'.result = shot.result
    BY <1>1, <2>4 DEF ShotFine
  <2>6. CallNow' = CallNow /\ \A f, k : AnswersAfter(f, k)' = AnswersAfter(f, k)
    BY <2>1, <2>5 DEF CallNow, AnswersAfter
  <2>7. AnswersTrue' = AnswersTrue
    BY <2>1, <2>2, <2>5, <2>6 DEF AnswersTrue
  <2>8. shot.asked \in 0 .. hostfs'.moment /\ shot.cleaned \in 0 .. hostfs'.moment
    BY <1>1, <2>2 DEF HostFine, ShotFine
  <2>9. shot.foreign + 1 \in Nat
    BY <1>1 DEF ShotFine
  <2>10. ShotFine'
    BY <1>1, <2>1, <2>2, <2>4, <2>5, <2>6, <2>7, <2>8, <2>9 DEF ShotFine
  <2> QED  BY <1>2, <2>3, <2>10 DEF CaptureInv
<1>5. CASE HostServes
  <2>1. shot' = shot /\ CallNow' = CallNow
    BY <1>5 DEF HostServes, CallNow
  <2>2. PICK e \in [kind : Kinds, written : BOOLEAN] :
          /\ hostlog' = Append(hostlog, e)
          /\ \/ ~e.written /\ e.kind = "picture" /\ hostfs' = hostfs
             \/ e.kind = "picture" /\ hostfs' = [hostfs EXCEPT !.picture = hostfs.moment]
             \/ /\ e.kind = "layers"
                /\ \E open \in SUBSET Layers :
                     hostfs' = [hostfs EXCEPT !.layers =
                        [w \in Layers |-> IF w \in open THEN hostfs.moment ELSE @[w]]]
             \/ e.kind = "reset" /\ hostfs' = [hostfs EXCEPT !.begun = hostfs.moment]
             \/ e.kind = "export" /\ hostfs' = [hostfs EXCEPT !.exported = hostfs.begun]
    <3>1. CASE HostWrites(Head(urls))
      <4>1. PICK kind : HostWrites(kind)
        BY <3>1
      <4>2. kind \in Kinds
        BY <4>1 DEF HostWrites, Kinds
      <4>3. PICK e : e = [kind |-> kind, written |-> TRUE]
        OBVIOUS
      <4>4. e \in [kind : Kinds, written : BOOLEAN] /\ e.kind = kind
        BY <4>2, <4>3
      <4> QED  BY <4>1, <4>3, <4>4 DEF HostWrites
    <3>2. CASE hostlog' = Append(hostlog, [kind |-> "picture", written |-> FALSE])
                 /\ UNCHANGED hostfs
      <4>1. PICK e : e = [kind |-> "picture", written |-> FALSE]
        OBVIOUS
      <4>2. e \in [kind : Kinds, written : BOOLEAN] /\ e.kind = "picture" /\ ~e.written
        BY <4>1 DEF Kinds
      <4> QED  BY <3>2, <4>1, <4>2
    <3> QED  BY <1>5, <3>1, <3>2 DEF HostServes
  <2>3. /\ hostlog' \in Seq([kind : Kinds, written : BOOLEAN])
        /\ Len(hostlog) \in Nat /\ Len(hostlog') = Len(hostlog) + 1
        /\ hostlog'[Len(hostlog')] = e
        /\ \A i \in 1 .. Len(hostlog) : hostlog'[i] = hostlog[i]
        /\ \A f \in Nat : \A k :
              /\ AnswersAfter(f, k)' \subseteq AnswersAfter(f, k) \cup {Len(hostlog')}
              /\ k # e.kind => AnswersAfter(f, k)' \subseteq AnswersAfter(f, k)
              /\ AnswersAfter(f, k) \subseteq 1 .. Len(hostlog)
    BY <1>1, <2>2, AnswersGrow
  <2>4. /\ DOMAIN hostfs' = DOMAIN hostfs /\ hostfs'.moment = hostfs.moment
        /\ hostfs'.picture \in {hostfs.picture, hostfs.moment}
        /\ hostfs'.begun \in {hostfs.begun, hostfs.moment}
        /\ hostfs'.exported \in {hostfs.exported, hostfs.begun}
        /\ e.kind = "picture" /\ e.written => hostfs'.picture = hostfs.moment
        /\ e.kind = "reset" => hostfs'.begun = hostfs.moment
        /\ e.kind = "export" => hostfs'.exported = hostfs.begun
    BY <1>1, <2>2 DEF HostFine
  <2>5. /\ hostfs'.layers \in [Layers -> Nat]
        /\ \A w \in Layers : hostfs'.layers[w] \in {hostfs.layers[w], hostfs.moment}
    <3>1. CASE hostfs'.layers = hostfs.layers
      BY <1>1, <3>1 DEF HostFine
    <3>2. ASSUME NEW open \in SUBSET Layers,
                 hostfs' = [hostfs EXCEPT !.layers =
                        [w \in Layers |-> IF w \in open THEN hostfs.moment ELSE @[w]]]
          PROVE  /\ hostfs'.layers \in [Layers -> Nat]
                 /\ \A w \in Layers : hostfs'.layers[w] \in {hostfs.layers[w], hostfs.moment}
      BY <1>1, <3>2 DEF HostFine
    <3> QED  BY <1>1, <2>2, <3>1, <3>2 DEF HostFine
  <2>6. HostFine'
    BY <1>1, <2>3, <2>4, <2>5 DEF HostFine
  <2>7. AnswersTrue /\ shot.at = "asked" => AnswersTrue'
    <3> SUFFICES ASSUME AnswersTrue, shot.at = "asked" PROVE AnswersTrue'
      OBVIOUS
    <3>1. shot.asked \in Nat /\ shot.asked <= hostfs.moment /\ shot.reset <= hostfs.begun
          /\ hostfs.moment \in Nat /\ shot.offset \in Int
      BY <1>1 DEF HostFine, ShotFine
    <3>2. ASSUME CallNow = "picture", shot.offset >= 0,
                 NEW i \in AnswersAfter(shot.offset, "picture")', hostlog'[i].written
          PROVE  hostfs'.picture >= shot.asked
      <4>1. shot.offset \in Nat
        BY <3>1, <3>2
      <4>2. CASE i \in AnswersAfter(shot.offset, "picture")
        <5>1. i \in 1 .. Len(hostlog)
          BY <2>3, <4>1, <4>2
        <5>2. hostfs.picture >= shot.asked
          BY <2>3, <3>2, <4>2, <5>1 DEF AnswersTrue
        <5> QED  BY <2>4, <3>1, <5>2
      <4>3. CASE i \notin AnswersAfter(shot.offset, "picture")
        <5>1. i = Len(hostlog') /\ e.kind = "picture"
          BY <2>1, <2>3, <3>2, <4>1, <4>3
        <5> QED  BY <2>3, <2>4, <3>1, <3>2, <5>1
      <4> QED  BY <4>2, <4>3
    <3>3. ASSUME CallNow = "reset", AnswersAfter(shot.offset, "reset")' # {}
          PROVE  hostfs'.begun >= shot.asked
      <4>1. shot.offset \in Nat
        BY <1>1, <3>1, <3>3 DEF ShotFine
      <4>2. CASE e.kind = "reset"
        BY <2>4, <3>1, <4>2
      <4>3. CASE e.kind # "reset"
        <5>1. AnswersAfter(shot.offset, "reset") # {}
          BY <2>1, <2>3, <3>3, <4>1, <4>3
        <5> QED  BY <1>1, <2>4, <3>1, <3>3, <5>1 DEF AnswersTrue, HostFine
      <4> QED  BY <4>2, <4>3
    <3>4. ASSUME CallNow = "export", AnswersAfter(shot.offset, "export")' # {}
          PROVE  hostfs'.exported >= shot.reset
      <4>1. shot.offset \in Nat
        BY <1>1, <3>1, <3>4 DEF ShotFine
      <4>2. CASE e.kind = "export"
        BY <2>4, <3>1, <4>2
      <4>3. CASE e.kind # "export"
        <5>1. AnswersAfter(shot.offset, "export") # {}
          BY <2>1, <2>3, <3>4, <4>1, <4>3
        <5> QED  BY <1>1, <2>4, <3>1, <3>4, <5>1 DEF AnswersTrue, HostFine
      <4> QED  BY <4>2, <4>3
    <3> QED  BY <2>1, <3>2, <3>3, <3>4 DEF AnswersTrue
  <2>8. shot.offset \in -1 .. Len(hostlog') /\ shot.reset \in 0 .. hostfs'.begun
    BY <1>1, <2>3, <2>4 DEF HostFine, ShotFine
  <2>9. shot.cleaned > 0 =>
          \A w \in Layers : hostfs'.layers[w] = 0 \/ hostfs'.layers[w] >= shot.cleaned
    <3>1. hostfs.moment \in Nat /\ shot.cleaned \in Nat /\ shot.cleaned <= hostfs.moment
      BY <1>1 DEF HostFine, ShotFine
    <3>2. shot.cleaned > 0 =>
            \A w \in Layers : hostfs.layers[w] = 0 \/ hostfs.layers[w] >= shot.cleaned
      BY <1>1 DEF ShotFine
    <3> QED  BY <2>5, <3>1, <3>2
  <2>10. ShotFine'
    BY <1>1, <2>1, <2>4, <2>7, <2>8, <2>9 DEF ShotFine
  <2> QED  BY <1>2, <2>6, <2>10 DEF CaptureInv
<1> QED  BY <1>3, <1>4, <1>5 DEF HostSteps

\* A call returns r, or raises: nothing but shot changes.
LEMMA ReturnKeep ==
  ASSUME CaptureInv, UNCHANGED <<hostlog, hostfs, sampler>>, NEW r \in Retrieved,
         shot.at # "over", Returned(r),
         ThisRun(r, shot.cleaned, shot.reset),
         r.kind = "layers" => shot.call = 4, r.kind = "export" => shot.call = 6
  PROVE  CaptureInv'
<1>1. HostFine /\ ShotFine /\ SampleFine
  BY DEF CaptureInv
<1>2. HostFine' /\ SampleFine'
  BY <1>1 DEF HostFine, SampleFine
<1>3. PICK next : next = IF shot.call = 6 THEN shot.call ELSE shot.call + 1
  OBVIOUS
<1>4. next \in 1 .. 6 /\ next >= shot.call /\ (shot.call = 4 => next > 4)
      /\ (shot.call = 6 => next = 6)
  BY <1>1, <1>3 DEF ShotFine
<1>5. /\ DOMAIN shot' = DOMAIN shot /\ shot'.at \in {"idle", "over"} /\ shot'.call = next
      /\ shot'.result = Append(shot.result, r)
      /\ shot'.offset = shot.offset /\ shot'.asked = shot.asked /\ shot'.quiet = shot.quiet
      /\ shot'.foreign = shot.foreign /\ shot'.cleaned = shot.cleaned
      /\ shot'.reset = shot.reset
  BY <1>1, <1>3, PlanCalls DEF Returned, ShotFine
<1>6. ResultsFine(shot'.result, shot'.call, shot'.cleaned, shot'.reset)
  <2>1. /\ shot.call \in 1 .. 6
        /\ ResultsFine(shot.result, shot.call, shot.cleaned, shot.reset)
    BY <1>1 DEF ShotFine
  <2>2. ResultsFine(Append(shot.result, r), next, shot.cleaned, shot.reset)
    BY <1>4, <2>1, ResultKept
  <2> QED  BY <1>5, <2>2
<1>7. ShotFine'
  BY <1>1, <1>4, <1>5, <1>6 DEF ShotFine
<1> QED  BY <1>2, <1>7 DEF CaptureInv

LEMMA RaiseKeep ==
  ASSUME CaptureInv, UNCHANGED <<hostlog, hostfs, sampler>>, shot.at # "over", Raises
  PROVE  CaptureInv'
<1>1. CASE shot.call = 1
  <2>1. PICK r : r = [kind |-> "none"]
    OBVIOUS
  <2>2. r \in Retrieved /\ r.kind = "none" /\ Returned(r)
    BY <1>1, <2>1 DEF Retrieved, Raises
  <2>3. ThisRun(r, shot.cleaned, shot.reset)
    BY <2>2 DEF ThisRun
  <2> QED  BY <2>2, <2>3, ReturnKeep
<1>2. CASE shot.call # 1
  <2>1. shot' = [shot EXCEPT !.at = "over"]
    BY <1>2 DEF Raises, Ends
  <2>2. HostFine /\ ShotFine /\ SampleFine
    BY DEF CaptureInv
  <2>3. /\ DOMAIN shot' = DOMAIN shot /\ shot'.at = "over" /\ shot'.call = shot.call
        /\ shot'.result = shot.result
        /\ shot'.offset = shot.offset /\ shot'.asked = shot.asked /\ shot'.quiet = shot.quiet
        /\ shot'.foreign = shot.foreign /\ shot'.cleaned = shot.cleaned
        /\ shot'.reset = shot.reset
    BY <2>1, <2>2 DEF ShotFine
  <2>4. ShotFine'
    BY <2>2, <2>3 DEF ShotFine
  <2>5. HostFine' /\ SampleFine'
    BY <2>2 DEF HostFine, SampleFine
  <2> QED  BY <2>4, <2>5 DEF CaptureInv
<1> QED  BY <1>1, <1>2

\* The copied file is a result that may be kept.
LEMMA CopyKept ==
  ASSUME CaptureInv, NEW kind \in {"picture", "layers", "export"}
  PROVE  /\ Copied(kind) \in Retrieved /\ Copied(kind).kind = kind
         /\ Copied(kind).asked = shot.asked
         /\ Copied(kind).witnessed => shot.offset >= 0
         /\ kind = "picture" => Copied(kind).shows = hostfs.picture
         /\ kind = "export" => Copied(kind).shows = hostfs.exported
         /\ kind = "layers" => Copied(kind).files = {hostfs.layers[w] : w \in Layers} \ {0}
<1>1. HostFine /\ ShotFine
  BY DEF CaptureInv
<1>2. PICK shows : shows = CASE kind = "picture" -> hostfs.picture
                             [] kind = "export"  -> hostfs.exported
                             [] OTHER            -> 0
  OBVIOUS
<1>3. PICK files : files = IF kind = "layers" THEN {hostfs.layers[w] : w \in Layers} \ {0}
                           ELSE {}
  OBVIOUS
<1>4. shows \in Nat
  BY <1>1, <1>2 DEF HostFine
<1>5. files \in SUBSET Nat
  BY <1>1, <1>3 DEF HostFine
<1>6. shot.asked \in Nat /\ shot.quiet \in BOOLEAN /\ (shot.offset >= 0) \in BOOLEAN
  BY <1>1 DEF HostFine, ShotFine
<1>7. kind \in Kinds
  BY DEF Kinds
<1>8. PICK known \in BOOLEAN : known = (shot.offset >= 0)
  BY <1>6
<1>9. known => shot.offset >= 0
  BY <1>8
<1>10. Copied(kind) = [kind |-> kind, asked |-> shot.asked, quiet |-> shot.quiet,
                       witnessed |-> known, shows |-> shows, files |-> files]
  BY <1>2, <1>3, <1>8 DEF Copied
<1>11. Copied(kind) \in Retrieved
  BY <1>4, <1>5, <1>6, <1>7, <1>10 DEF Retrieved
<1>12. Copied(kind).witnessed = known
  BY <1>10
<1>13. Copied(kind).witnessed => shot.offset >= 0
  BY <1>9, <1>12
<1> QED  BY <1>2, <1>3, <1>10, <1>11, <1>13

LEMMA AnsweredKeep ==
  ASSUME CaptureInv, ExactCaptured \/ PictureAnswered \/ LayersAnswered \/ ExportAnswered
                       \/ CaptureTimesOut
  PROVE  CaptureInv'
<1>1. /\ HostFine /\ ShotFine /\ shot.at # "over" /\ UNCHANGED <<hostlog, hostfs, sampler>>
  BY DEF CaptureInv, ExactCaptured, PictureAnswered, LayersAnswered, ExportAnswered,
         CaptureTimesOut
<1>2. CASE CaptureTimesOut
  BY <1>1, <1>2, RaiseKeep DEF CaptureTimesOut
<1>3. CASE ExactCaptured
  <2>1. PICK r : r = [kind |-> "exact"]
    OBVIOUS
  <2>2. r \in Retrieved /\ r.kind = "exact" /\ Returned(r)
    BY <1>3, <2>1 DEF Retrieved, ExactCaptured
  <2>3. ThisRun(r, shot.cleaned, shot.reset)
    BY <2>2 DEF ThisRun
  <2> QED  BY <1>1, <2>2, <2>3, ReturnKeep
<1>4. CASE PictureAnswered
  <2>1. PICK r : r = Copied("picture")
    OBVIOUS
  <2>2. /\ r \in Retrieved /\ r.kind = "picture" /\ r.asked = shot.asked
        /\ r.shows = hostfs.picture /\ (r.witnessed => shot.offset >= 0)
    BY <2>1, CopyKept
  <2>3. CASE Raises
    BY <1>1, <2>3, RaiseKeep
  <2>4. CASE shot.offset = -1 /\ Returned(r)
    <3>1. ThisRun(r, shot.cleaned, shot.reset)
      BY <2>2, <2>4 DEF ThisRun
    <3> QED  BY <1>1, <2>2, <2>4, <3>1, ReturnKeep
  <2>5. CASE /\ shot.offset >= 0 /\ AnswersAfter(shot.offset, "picture") # {}
             /\ hostlog[LastOf(AnswersAfter(shot.offset, "picture"))].written /\ Returned(r)
    <3>1. shot.offset \in Nat
      BY <1>1, <2>5 DEF HostFine, ShotFine
    <3>2. LastOf(AnswersAfter(shot.offset, "picture")) \in AnswersAfter(shot.offset, "picture")
      BY <1>1, <2>5, <3>1, AnswerChosen
    <3>3. shot.at = "asked" /\ CallNow = "picture"
      BY <1>4 DEF PictureAnswered
    <3>4. hostfs.picture >= shot.asked
      BY <1>1, <2>5, <3>2, <3>3 DEF ShotFine, AnswersTrue
    <3>5. ThisRun(r, shot.cleaned, shot.reset)
      BY <2>2, <3>4 DEF ThisRun
    <3> QED  BY <1>1, <2>2, <2>5, <3>5, ReturnKeep
  <2> QED  BY <1>4, <2>1, <2>3, <2>4, <2>5 DEF PictureAnswered
<1>5. CASE LayersAnswered
  <2>1. PICK r : r = Copied("layers")
    OBVIOUS
  <2>2. /\ r \in Retrieved /\ r.kind = "layers"
        /\ r.files = {hostfs.layers[w] : w \in Layers} \ {0}
    BY <2>1, CopyKept
  <2>3. Returned(r) /\ CallNow = "layers"
    BY <1>5, <2>1 DEF LayersAnswered
  <2>4. shot.call = 4
    BY <1>1, <2>3, PlanCalls DEF CallNow, ShotFine
  <2>5. ThisRun(r, shot.cleaned, shot.reset)
    BY <1>1, <2>2 DEF ThisRun, ShotFine
  <2> QED  BY <1>1, <2>2, <2>3, <2>4, <2>5, ReturnKeep
<1>6. CASE ExportAnswered
  <2>1. PICK r : r = Copied("export")
    OBVIOUS
  <2>2. r \in Retrieved /\ r.kind = "export" /\ r.shows = hostfs.exported
    BY <2>1, CopyKept
  <2>3. CASE Raises
    BY <1>1, <2>3, RaiseKeep
  <2>4. CASE Returned(r)
    <3>1. shot.at = "asked" /\ CallNow = "export" /\ AnswersAfter(shot.offset, "export") # {}
      BY <1>6 DEF ExportAnswered
    <3>2. shot.call = 6
      BY <1>1, <3>1, PlanCalls DEF CallNow, ShotFine
    <3>3. hostfs.exported >= shot.reset
      BY <1>1, <3>1 DEF ShotFine, AnswersTrue
    <3>4. ThisRun(r, shot.cleaned, shot.reset)
      BY <2>2, <3>3 DEF ThisRun
    <3> QED  BY <1>1, <2>2, <2>4, <3>2, <3>4, ReturnKeep
  <2> QED  BY <1>6, <2>1, <2>3, <2>4 DEF ExportAnswered
<1> QED  BY <1>2, <1>3, <1>4, <1>5, <1>6

LEMMA ResetKeep ==
  ASSUME CaptureInv, ResetAnswered
  PROVE  CaptureInv'
<1>1. /\ HostFine /\ ShotFine /\ SampleFine /\ UNCHANGED <<hostlog, hostfs, sampler>>
      /\ shot.at = "asked" /\ CallNow = "reset" /\ AnswersAfter(shot.offset, "reset") # {}
  BY DEF CaptureInv, ResetAnswered, ResetsAfter
<1>2. shot.call = 5
  BY <1>1, PlanCalls DEF CallNow, ShotFine
<1>3. PICK r : r = [kind |-> "none"]
  OBVIOUS
<1>4. r \in Retrieved /\ r.kind = "none"
  BY <1>3 DEF Retrieved
<1>5. /\ DOMAIN shot' = DOMAIN shot /\ shot'.at = "idle" /\ shot'.call = 6
      /\ shot'.result = Append(shot.result, r)
      /\ shot'.offset = shot.offset /\ shot'.asked = shot.asked /\ shot'.quiet = shot.quiet
      /\ shot'.foreign = shot.foreign /\ shot'.cleaned = shot.cleaned
      /\ shot'.reset = shot.asked
  BY <1>1, <1>2, <1>3 DEF ResetAnswered, ShotFine
<1>6. ResultsFine(shot.result, shot.call, shot.cleaned, shot.asked)
  BY <1>1, <1>2 DEF ShotFine, ResultsFine, ThisRun
<1>7. ThisRun(r, shot.cleaned, shot.asked)
  BY <1>4 DEF ThisRun
<1>8. ResultsFine(shot'.result, shot'.call, shot'.cleaned, shot'.reset)
  <2>1. ResultsFine(Append(shot.result, r), 6, shot.cleaned, shot.asked)
    <3>1. 5 \in 1 .. 6 /\ 6 \in 1 .. 6 /\ 6 >= 5
      OBVIOUS
    <3> QED  BY <1>2, <1>4, <1>6, <1>7, <3>1, ResultKept
  <2> QED  BY <1>5, <2>1
<1>9. shot.asked \in 0 .. hostfs.begun
  BY <1>1 DEF ShotFine, AnswersTrue, HostFine
<1>10. ShotFine'
  BY <1>1, <1>5, <1>8, <1>9 DEF ShotFine
<1>11. HostFine' /\ SampleFine'
  BY <1>1 DEF HostFine, SampleFine
<1> QED  BY <1>10, <1>11 DEF CaptureInv

LEMMA AskKeep ==
  ASSUME CaptureInv, AskHost
  PROVE  CaptureInv'
<1>1. /\ HostFine /\ ShotFine /\ SampleFine /\ UNCHANGED <<hostlog, sampler>>
      /\ CallNow \in Kinds
      /\ hostfs' = [hostfs EXCEPT !.moment = @ + 1]
  BY DEF CaptureInv, AskHost
<1>2. /\ DOMAIN hostfs' = DOMAIN hostfs /\ hostfs'.moment = hostfs.moment + 1
      /\ hostfs'.picture = hostfs.picture /\ hostfs'.begun = hostfs.begun
      /\ hostfs'.exported = hostfs.exported /\ hostfs'.layers = hostfs.layers
  BY <1>1 DEF HostFine
<1>3. HostFine' /\ SampleFine'
  BY <1>1, <1>2 DEF HostFine, SampleFine
<1>4. PICK known \in (IF CallNow = "picture" THEN BOOLEAN ELSE {TRUE}) :
          shot' = [shot EXCEPT !.at = "asked",
                      !.asked = hostfs.moment + 1,
                      !.quiet = urls = <<>>,
                      !.offset = IF known THEN OffsetNow ELSE -1]
  BY DEF AskHost
<1>5. /\ DOMAIN shot' = DOMAIN shot /\ shot'.at = "asked" /\ shot'.call = shot.call
      /\ shot'.result = shot.result /\ shot'.asked = hostfs.moment + 1
      /\ shot'.quiet \in BOOLEAN /\ shot'.foreign = shot.foreign
      /\ shot'.cleaned = shot.cleaned /\ shot'.reset = shot.reset
      /\ shot'.offset = Len(hostlog) \/ (shot'.offset = -1 /\ CallNow = "picture")
  BY <1>1, <1>4 DEF ShotFine, OffsetNow
<1>6. Len(hostlog) \in Nat /\ CallNow' = CallNow
  BY <1>1, <1>5 DEF HostFine, CallNow
<1>7. shot'.offset = Len(hostlog) => \A k : AnswersAfter(shot.offset, k)' = {}
  BY <1>1, <1>6 DEF AnswersAfter
<1>8. AnswersTrue'
  <2>1. CASE shot'.offset = Len(hostlog)
    BY <1>7, <2>1 DEF AnswersTrue
  <2>2. CASE shot'.offset = -1 /\ CallNow = "picture"
    BY <1>6, <2>2 DEF AnswersTrue
  <2> QED  BY <1>5, <2>1, <2>2
<1>9. /\ shot'.asked \in 0 .. hostfs'.moment /\ shot.cleaned \in 0 .. hostfs'.moment
      /\ shot'.offset \in -1 .. Len(hostlog')
  BY <1>1, <1>2, <1>5, <1>6 DEF HostFine, ShotFine
<1>10. shot'.at = "asked" /\ CallNow' # "picture" => shot'.offset >= 0
  BY <1>5, <1>6
<1>11. ShotFine'
  BY <1>1, <1>2, <1>5, <1>6, <1>8, <1>9, <1>10 DEF ShotFine
<1> QED  BY <1>3, <1>11 DEF CaptureInv

LEMMA CleanKeep ==
  ASSUME CaptureInv, CleanUp
  PROVE  CaptureInv'
<1>1. /\ HostFine /\ ShotFine /\ SampleFine /\ UNCHANGED <<hostlog, sampler>>
      /\ shot.at = "idle" /\ CallNow = "cleanup"
  BY DEF CaptureInv, CleanUp
<1>2. shot.call = 2
  BY <1>1, PlanCalls DEF CallNow, ShotFine
<1>3. PICK works \in BOOLEAN :
          /\ hostfs' = [hostfs EXCEPT
                 !.layers = IF works THEN CleanLayers(@) ELSE @,
                 !.moment = @ + 1]
          /\ shot' = [shot EXCEPT !.call = @ + 1,
                 !.cleaned = IF works THEN hostfs.moment ELSE 0,
                 !.result = Append(@, [kind |-> "none"])]
  BY DEF CleanUp
<1>4. /\ DOMAIN hostfs' = DOMAIN hostfs /\ hostfs'.moment = hostfs.moment + 1
      /\ hostfs'.picture = hostfs.picture /\ hostfs'.begun = hostfs.begun
      /\ hostfs'.exported = hostfs.exported
      /\ hostfs'.layers = IF works THEN [w \in Layers |-> 0] ELSE hostfs.layers
  BY <1>1, <1>3 DEF HostFine, CleanLayers
<1>5. HostFine'
  BY <1>1, <1>4 DEF HostFine
<1>6. PICK r : r = [kind |-> "none"]
  OBVIOUS
<1>7. r \in Retrieved /\ r.kind = "none"
  BY <1>6 DEF Retrieved
<1>8. /\ DOMAIN shot' = DOMAIN shot /\ shot'.at = "idle" /\ shot'.call = 3
      /\ shot'.result = Append(shot.result, r)
      /\ shot'.offset = shot.offset /\ shot'.asked = shot.asked /\ shot'.quiet = shot.quiet
      /\ shot'.foreign = shot.foreign /\ shot'.reset = shot.reset
      /\ shot'.cleaned = IF works THEN hostfs.moment ELSE 0
  BY <1>1, <1>2, <1>3, <1>6 DEF ShotFine
<1>9. ResultsFine(shot.result, shot.call, shot'.cleaned, shot.reset)
  BY <1>1, <1>2 DEF ShotFine, ResultsFine, ThisRun
<1>10. ThisRun(r, shot'.cleaned, shot.reset)
  BY <1>7 DEF ThisRun
<1>11. ResultsFine(shot'.result, shot'.call, shot'.cleaned, shot'.reset)
  <2>1. ResultsFine(Append(shot.result, r), 3, shot'.cleaned, shot.reset)
    <3>1. 2 \in 1 .. 6 /\ 3 \in 1 .. 6 /\ 3 >= 2
      OBVIOUS
    <3> QED  BY <1>2, <1>7, <1>9, <1>10, <3>1, ResultKept
  <2> QED  BY <1>8, <2>1
<1>12. /\ shot.asked \in 0 .. hostfs'.moment /\ shot'.cleaned \in 0 .. hostfs'.moment
       /\ shot'.cleaned > 0 => works
  BY <1>1, <1>4, <1>8 DEF HostFine, ShotFine
<1>13. works => \A w \in Layers : hostfs'.layers[w] = 0
  BY <1>4
<1>14. ShotFine'
  BY <1>1, <1>4, <1>8, <1>11, <1>12, <1>13 DEF ShotFine
<1>15. SampleFine'
  BY <1>1 DEF SampleFine
<1> QED  BY <1>5, <1>14, <1>15 DEF CaptureInv

LEMMA SampleKeep ==
  ASSUME CaptureInv, SampleNext
  PROVE  CaptureInv'
<1>1. HostFine /\ ShotFine /\ SampleFine /\ UNCHANGED <<hostlog, hostfs, shot>>
  BY DEF CaptureInv, SampleNext, ArmSample, TriggerSample, SampleEnds, Communicated, CopySample,
         CloseSample, SampleOver, OnlySampler, captureVars
<1>2. HostFine' /\ ShotFine'
  BY <1>1 DEF HostFine, ShotFine, AnswersTrue, AnswersAfter, CallNow
<1>3. CASE ArmSample \/ CloseSample \/ TriggerSample \/ SampleOver
  <2>1. SampleFine'
    BY <1>1, <1>3 DEF SampleFine, ArmSample, CloseSample, TriggerSample, SampleOver, captureVars
  <2> QED  BY <1>2, <2>1 DEF CaptureInv
<1>4. CASE SampleEnds
  <2>1. PICK ok \in BOOLEAN :
          sampler' = [sampler EXCEPT !.shell = IF ok THEN "done" ELSE "failed",
                         !.data = IF ok /\ @ # "none" THEN "whole" ELSE @]
    BY <1>4 DEF SampleEnds
  <2>2. sampler.shell = "sample"
    BY <1>4 DEF SampleEnds
  <2>3. SampleFine'
    BY <1>1, <2>1, <2>2 DEF SampleFine
  <2> QED  BY <1>2, <2>3 DEF CaptureInv
<1>5. CASE Communicated
  <2>1. /\ sampler.at = "sampling"
        /\ \/ sampler' = [sampler EXCEPT !.at = "raised"]
           \/ sampler.shell = "done" /\ sampler' = [sampler EXCEPT !.at = "copying"]
    BY <1>5 DEF Communicated, AfterCommunicate
  <2>2. SampleFine'
    BY <1>1, <2>1 DEF SampleFine
  <2> QED  BY <1>2, <2>2 DEF CaptureInv
<1>6. CASE CopySample
  <2>1. PICK copied \in BOOLEAN, removed \in BOOLEAN :
          sampler' = [sampler EXCEPT
              !.at = IF copied /\ removed THEN "returned" ELSE "raised",
              !.copy = IF copied THEN sampler.data ELSE "none",
              !.data = IF removed THEN "none" ELSE @]
    BY <1>6 DEF CopySample
  <2>2. sampler.at = "copying"
    BY <1>6 DEF CopySample
  <2>3. SampleFine'
    BY <1>1, <2>1, <2>2 DEF SampleFine
  <2> QED  BY <1>2, <2>3 DEF CaptureInv
<1> QED  BY <1>3, <1>4, <1>5, <1>6 DEF SampleNext

LEMMA CaptureStep == CaptureInv /\ [AskNext \/ SampleNext]_captureVars => CaptureInv'
<1>1. SUFFICES ASSUME CaptureInv, AskNext \/ SampleNext \/ UNCHANGED captureVars
               PROVE  CaptureInv'
  OBVIOUS
<1>2. CASE CaptureOver \/ UNCHANGED captureVars
  BY <1>1, <1>2 DEF CaptureOver, captureVars, CaptureInv, HostFine, ShotFine, SampleFine,
     AnswersTrue, AnswersAfter, CallNow
<1> QED  BY <1>1, <1>2, HostKeep, CleanKeep, AskKeep, AnsweredKeep, ResetKeep, SampleKeep
         DEF AskNext

\* What is kept of a run, its pictures with Host's own line, its layers, its
\* frame counters and its stack sample, was made by that run, whatever another
\* tool asks of Host meanwhile and whichever request is never heard.
THEOREM EvidenceOfThisRunAlways == CaptureSpec => []EvidenceOfThisRun
<1>1. CaptureInv => EvidenceOfThisRun
  <2>1. SUFFICES ASSUME CaptureInv PROVE EvidenceOfThisRun
    OBVIOUS
  <2>2. \A r \in CaptureResults : ThisRun(r, shot.cleaned, shot.reset)
    BY <2>1 DEF CaptureInv, ShotFine, ResultsFine, CaptureResults
  <2>3. PictureWitnessed /\ LayersOfThisRun /\ FpsSinceReset
    BY <2>2 DEF ThisRun, PictureWitnessed, LayersOfThisRun, FpsSinceReset
  <2> QED  BY <2>1, <2>3 DEF CaptureInv, SampleFine, SampleWhole, EvidenceOfThisRun
<1> QED  BY <1>1, CaptureStart, CaptureStep, PTL DEF CaptureSpec

-----------------------------------------------------------------------------
(* StraySteamUI.                                                             *)

\* A game that lives was started by a tap of the runner, and not since the
\* process list was read.
TapsFine ==
    /\ DOMAIN steamUI = {"page", "live", "lost", "button", "killed", "started"}
    /\ DOMAIN play = {"at", "reuse", "handoff", "attempt", "recovered", "fallback", "seen",
                      "absent", "outcome"}
    /\ steamUI.button \in {"stop", "play", "exit-confirmation"} /\ steamUI.page \in Pages
    /\ steamUI.lost \in Nat /\ play.attempt \in Nat
    /\ steamUI.killed = FALSE /\ steamUI.live \in BOOLEAN
    /\ steamUI.live => steamUI.started
    /\ play.absent /\ play.at = "judge" => ~steamUI.live
    /\ play.at = "look" => ~play.absent
    /\ play.seen = "play" /\ play.at \in {"judge", "ready"}
         => steamUI.page = "stray" /\ steamUI.button = "play"
    /\ play.at = "ready" => play.seen = "play"

\* A page that was searched for, with no tap lost and no game started.
Smooth == steamUI.lost = 0 /\ ~steamUI.started /\ (~play.reuse \/ play.fallback)

\* Then each attempt brings the button nearer to PLAY.
Converges ==
    Smooth =>
      /\ play.at \in {"look", "judge"} =>
           /\ steamUI.page = "stray"
           /\ steamUI.button = "stop" => play.attempt = 1
           /\ steamUI.button = "exit-confirmation" => play.attempt <= 2
           /\ play.attempt <= 3
      /\ play.at = "judge" =>
           /\ play.seen = "stop" => steamUI.button # "exit-confirmation" /\ play.attempt = 1
           /\ play.seen = "exit-confirmation"
                => steamUI.button = "exit-confirmation" /\ play.attempt <= 2
           /\ play.seen \in {"play", "stop", "exit-confirmation"}
      /\ play.at = "failed" => play.outcome # "no-play"

UIInv ==
    /\ TapsFine /\ Converges
    /\ play.at = "raised" /\ play.outcome = "no-play" => steamUI.lost > 0 \/ steamUI.started

LEMMA SteamUIStart == SteamUIInit => UIInv
BY DEF SteamUIInit, UIInv, TapsFine, Converges, Smooth, Pages

LEMMA GameKeep ==
  ASSUME UIInv, GameExits \/ SteamNotices
  PROVE  UIInv'
<1>1. /\ play' = play /\ DOMAIN steamUI' = DOMAIN steamUI
      /\ steamUI'.page = steamUI.page /\ steamUI'.lost = steamUI.lost
      /\ steamUI'.killed = steamUI.killed /\ steamUI'.started = steamUI.started
      /\ \/ steamUI'.live = FALSE /\ steamUI'.button = steamUI.button
         \/ /\ steamUI'.live = steamUI.live /\ steamUI'.button = "play"
            /\ steamUI.button = "stop"
  BY DEF UIInv, TapsFine, GameExits, SteamNotices
<1>2. TapsFine'
  BY <1>1 DEF UIInv, TapsFine
<1>3. Converges'
  BY <1>1 DEF UIInv, TapsFine, Converges, Smooth
<1> QED  BY <1>1, <1>2, <1>3 DEF UIInv

\* The runner navigates: from p it goes on, or finds no library.
Moved(p) ==
    /\ DOMAIN play' = DOMAIN p /\ DOMAIN steamUI' = DOMAIN steamUI
    /\ steamUI'.live = steamUI.live /\ steamUI'.button = steamUI.button
    /\ steamUI'.killed = steamUI.killed /\ steamUI'.started = steamUI.started
    /\ play'.reuse = p.reuse /\ play'.fallback = p.fallback /\ play'.absent = p.absent
    /\ play'.seen = p.seen /\ play'.attempt = p.attempt
    /\ \/ /\ play'.at = p.at /\ play'.outcome = p.outcome
          /\ \/ steamUI'.page = "stray" /\ steamUI'.lost = steamUI.lost
             \/ steamUI'.page = steamUI.page /\ steamUI'.lost = steamUI.lost + 1
       \/ /\ play'.at = "failed" /\ play'.outcome = "no-library"
          /\ steamUI'.page = steamUI.page /\ steamUI'.lost = steamUI.lost + 1

LEMMA NavigatedMoves ==
  ASSUME UIInv, NEW p, DOMAIN p = DOMAIN play, Navigated(p)
  PROVE  Moved(p)
BY DEF UIInv, TapsFine, Navigated, Moved

LEMMA SelectKeep ==
  ASSUME UIInv, Attempts >= 3, select_stray_in_steam \/ reuse_selected_stray_in_steam
  PROVE  UIInv'
<1>1. CASE select_stray_in_steam
  <2>1. PICK p : p = [Looking(play) EXCEPT !.attempt = 1, !.recovered = FALSE]
    OBVIOUS
  <2>2. /\ DOMAIN p = DOMAIN play /\ p.at = "look" /\ p.seen = "none" /\ p.absent = FALSE
        /\ p.attempt = 1 /\ p.reuse = play.reuse /\ p.fallback = play.fallback
    BY <2>1 DEF UIInv, TapsFine, Looking
  <2>3. Navigated(p) /\ (~play.reuse \/ play.fallback)
    BY <1>1, <2>1 DEF select_stray_in_steam
  <2>4. Moved(p)
    BY <2>2, <2>3, NavigatedMoves
  <2>5. TapsFine'
    BY <2>2, <2>4 DEF UIInv, TapsFine, Moved, Pages
  <2>6. Converges'
    BY <2>2, <2>4 DEF UIInv, TapsFine, Moved, Converges, Smooth
  <2> QED  BY <2>2, <2>4, <2>5, <2>6 DEF UIInv, Moved
<1>2. CASE reuse_selected_stray_in_steam
  <2>1. /\ steamUI' = steamUI /\ play' = Looking(play) /\ play.reuse /\ ~play.fallback
    BY <1>2 DEF reuse_selected_stray_in_steam
  <2>2. /\ DOMAIN play' = DOMAIN play /\ play'.at = "look" /\ play'.seen = "none"
        /\ play'.absent = FALSE /\ play'.attempt = play.attempt
        /\ play'.reuse /\ ~play'.fallback
    BY <2>1 DEF UIInv, TapsFine, Looking
  <2>3. TapsFine'
    BY <2>1, <2>2 DEF UIInv, TapsFine
  <2>4. Converges'
    BY <2>2 DEF Converges, Smooth
  <2> QED  BY <2>2, <2>3, <2>4 DEF UIInv
<1> QED  BY <1>1, <1>2

LEMMA LookKeep ==
  ASSUME UIInv, Look \/ ShowsPlay
  PROVE  UIInv'
<1>1. CASE Look
  <2>1. /\ steamUI' = steamUI /\ play.at = "look"
        /\ DOMAIN play' = DOMAIN play /\ play'.at = "judge"
        /\ play'.seen = IF steamUI.page = "stray" THEN steamUI.button ELSE "unrecognized"
        /\ play'.absent = play.absent /\ play'.attempt = play.attempt
        /\ play'.reuse = play.reuse /\ play'.fallback = play.fallback
    BY <1>1 DEF UIInv, TapsFine, Look, steam_primary_action_state
  <2>2. TapsFine'
    BY <2>1 DEF UIInv, TapsFine
  <2>3. Converges'
    BY <2>1 DEF UIInv, TapsFine, Converges, Smooth
  <2> QED  BY <2>1, <2>2, <2>3 DEF UIInv
<1>2. CASE ShowsPlay
  <2>1. /\ steamUI' = steamUI /\ play.at = "judge" /\ play.seen = "play"
        /\ play' = [play EXCEPT !.at = "ready"]
    BY <1>2 DEF ShowsPlay
  <2>2. /\ DOMAIN play' = DOMAIN play /\ play'.at = "ready"
        /\ play'.seen = "play" /\ play'.absent = play.absent /\ play'.attempt = play.attempt
    BY <2>1 DEF UIInv, TapsFine
  <2>3. TapsFine'
    BY <2>1, <2>2 DEF UIInv, TapsFine
  <2>4. Converges'
    BY <2>2 DEF Converges, Smooth
  <2> QED  BY <2>2, <2>3, <2>4 DEF UIInv
<1> QED  BY <1>1, <1>2

\* The next attempt of p begins, or the attempts are used up.
Tried(q, p) ==
    /\ DOMAIN q = DOMAIN p /\ q.reuse = p.reuse /\ q.fallback = p.fallback
    /\ \/ /\ q.at = "look" /\ q.seen = "none" /\ q.absent = FALSE
          /\ q.attempt = p.attempt + 1
       \/ /\ q.at = "failed" /\ q.outcome = "no-play" /\ q.attempt = p.attempt
          /\ p.attempt = Attempts

LEMMA NextTries ==
  ASSUME UIInv, NEW p, DOMAIN p = DOMAIN play
  PROVE  Tried(NextAttempt(p), p)
BY DEF UIInv, TapsFine, Tried, NextAttempt, Looking

LEMMA RecoverKeep ==
  ASSUME UIInv, Attempts >= 3, RecoverStore
  PROVE  UIInv'
<1>1. PICK p : p = [play EXCEPT !.recovered = TRUE]
  OBVIOUS
<1>2. /\ DOMAIN p = DOMAIN play /\ p.reuse = play.reuse /\ p.fallback = play.fallback
      /\ p.attempt = play.attempt
  BY <1>1 DEF UIInv, TapsFine
<1>3. PICK q : q = NextAttempt(p)
  OBVIOUS
<1>4. Tried(q, p)
  BY <1>2, <1>3, NextTries
<1>5. /\ play.at = "judge" /\ steamUI.page = "store" /\ Navigated(q)
  BY <1>1, <1>3 DEF RecoverStore
<1>6. Moved(q)
  BY <1>2, <1>4, <1>5, NavigatedMoves DEF Tried
<1>7. ~Smooth
  BY <1>5 DEF UIInv, Converges
<1>8. TapsFine'
  BY <1>2, <1>4, <1>6, SteamUIAssumption DEF UIInv, TapsFine, Moved, Tried, Pages
<1>9. ~Smooth'
  BY <1>2, <1>4, <1>6, <1>7 DEF UIInv, TapsFine, Moved, Tried, Smooth
<1> QED  BY <1>4, <1>6, <1>8, <1>9 DEF UIInv, Converges, Moved, Tried

LEMMA CheckKeep ==
  ASSUME UIInv, CheckGame
  PROVE  UIInv'
<1>1. /\ steamUI' = steamUI /\ play.at = "judge" /\ play.seen # "play"
      /\ \/ ~steamUI.live /\ play' = [play EXCEPT !.absent = TRUE]
         \/ play' = [play EXCEPT !.at = "failed", !.outcome = "live-game"]
  BY DEF CheckGame, Mutable, NoLiveGame
<1>2. /\ DOMAIN play' = DOMAIN play /\ play'.seen = play.seen
      /\ play'.attempt = play.attempt /\ play'.reuse = play.reuse
      /\ play'.fallback = play.fallback
      /\ \/ ~steamUI.live /\ play'.at = "judge"
         \/ play'.at = "failed" /\ play'.outcome = "live-game"
  BY <1>1 DEF UIInv, TapsFine
<1>3. TapsFine'
  BY <1>1, <1>2 DEF UIInv, TapsFine
<1>4. Converges'
  BY <1>1, <1>2 DEF UIInv, Converges, Smooth
<1> QED  BY <1>2, <1>3, <1>4 DEF UIInv

LEMMA ReconcileKeep ==
  ASSUME UIInv, Attempts >= 3, Reconcile
  PROVE  UIInv'
<1>1. Tried(play', play)
  BY NextTries DEF Reconcile
<1>2. play.at = "judge" /\ play.absent /\ play.seen # "play" /\ ~steamUI.live
  BY DEF Reconcile, Mutable, UIInv, TapsFine
<1>3. \/ steamUI' = steamUI /\ play.seen = "unrecognized"
      \/ steamUI' = [steamUI EXCEPT !.lost = @ + 1]
      \/ play.seen = "stop" /\ steamUI' = TapButton(steamUI)
      \/ play.seen = "exit-confirmation" /\ steamUI' = TapConfirm(steamUI)
  BY DEF Reconcile, Taps
<1>4. /\ DOMAIN steamUI' = DOMAIN steamUI /\ steamUI'.page = steamUI.page
      /\ steamUI'.killed = FALSE /\ steamUI'.live \in BOOLEAN
      /\ \/ /\ steamUI'.lost = steamUI.lost + 1 /\ steamUI'.live = steamUI.live
            /\ steamUI'.started = steamUI.started /\ steamUI'.button = steamUI.button
         \/ /\ steamUI'.started /\ steamUI'.lost = steamUI.lost
            /\ steamUI'.button \in {"stop", "play", "exit-confirmation"}
         \/ /\ steamUI'.started = steamUI.started /\ steamUI'.lost = steamUI.lost
            /\ steamUI'.live = FALSE
            /\ \/ /\ steamUI'.button = steamUI.button
                  /\ play.seen = "stop" => steamUI.button = "exit-confirmation"
                  /\ play.seen = "exit-confirmation" => steamUI.button # "exit-confirmation"
               \/ /\ play.seen = "stop" /\ steamUI.button = "stop"
                  /\ steamUI'.button = "exit-confirmation"
               \/ play.seen = "exit-confirmation" /\ steamUI'.button = "play"
  <2>1. CASE steamUI' = steamUI /\ play.seen = "unrecognized"
    BY <1>2, <2>1 DEF UIInv, TapsFine
  <2>2. CASE steamUI' = [steamUI EXCEPT !.lost = @ + 1]
    BY <1>2, <2>2 DEF UIInv, TapsFine
  <2>3. CASE play.seen = "stop" /\ steamUI' = TapButton(steamUI)
    <3>1. CASE steamUI.button = "stop"
      <4>1. steamUI' = [steamUI EXCEPT !.button = "exit-confirmation"]
        BY <2>3, <3>1 DEF TapButton
      <4> QED  BY <1>2, <2>3, <3>1, <4>1 DEF UIInv, TapsFine
    <3>2. CASE steamUI.button = "play"
      <4>1. steamUI' = [steamUI EXCEPT !.button = "stop", !.live = TRUE, !.started = TRUE]
        BY <2>3, <3>2 DEF TapButton
      <4> QED  BY <4>1 DEF UIInv, TapsFine
    <3>3. CASE steamUI.button = "exit-confirmation"
      <4>1. steamUI' = steamUI
        BY <2>3, <3>3 DEF TapButton
      <4> QED  BY <1>2, <2>3, <3>3, <4>1 DEF UIInv, TapsFine
    <3> QED  BY <3>1, <3>2, <3>3 DEF UIInv, TapsFine
  <2>4. CASE play.seen = "exit-confirmation" /\ steamUI' = TapConfirm(steamUI)
    <3>1. CASE steamUI.button = "exit-confirmation"
      <4>1. steamUI' = [steamUI EXCEPT !.button = "play", !.live = FALSE,
                                       !.killed = @ \/ steamUI.live]
        BY <2>4, <3>1 DEF TapConfirm
      <4>2. (steamUI.killed \/ steamUI.live) = FALSE
        BY <1>2 DEF UIInv, TapsFine
      <4> QED  BY <2>4, <4>1, <4>2 DEF UIInv, TapsFine
    <3>2. CASE steamUI.button # "exit-confirmation"
      <4>1. steamUI' = steamUI
        BY <2>4, <3>2 DEF TapConfirm
      <4> QED  BY <1>2, <2>4, <3>2, <4>1 DEF UIInv, TapsFine
    <3> QED  BY <3>1, <3>2
  <2> QED  BY <1>3, <2>1, <2>2, <2>3, <2>4
<1>5. TapsFine'
  BY <1>1, <1>2, <1>4 DEF UIInv, TapsFine, Tried
<1>6. Converges'
  <2>1. SUFFICES ASSUME Smooth' PROVE Converges'
    BY DEF Converges
  <2>2. Smooth /\ steamUI'.started = steamUI.started /\ steamUI'.lost = steamUI.lost
    BY <1>1, <1>4, <2>1 DEF UIInv, TapsFine, Tried, Smooth
  <2>3. /\ steamUI.page = "stray" /\ play.attempt <= 2
        /\ play.seen \in {"stop", "exit-confirmation"}
        /\ play.seen = "stop" => steamUI.button # "exit-confirmation" /\ play.attempt = 1
        /\ play.seen = "exit-confirmation" => steamUI.button = "exit-confirmation"
    BY <1>2, <2>2 DEF UIInv, Converges
  <2>4. play'.at = "look" /\ play'.attempt = play.attempt + 1
    BY <1>1, <2>3 DEF Tried, UIInv, TapsFine
  <2>5. steamUI'.button = "exit-confirmation" => play'.attempt <= 2
    BY <1>4, <2>1, <2>2, <2>3, <2>4 DEF Smooth
  <2>6. steamUI'.button # "stop"
    BY <1>4, <2>1, <2>2, <2>3 DEF Smooth
  <2>7. play'.attempt <= 3
    BY <2>3, <2>4 DEF UIInv, TapsFine
  <2> QED  BY <1>4, <2>3, <2>4, <2>5, <2>6, <2>7 DEF Converges
<1> QED  BY <1>1, <1>5, <1>6 DEF UIInv, Tried

LEMMA FailedKeep ==
  ASSUME UIInv, SelectionFailed
  PROVE  UIInv'
<1>1. /\ steamUI' = steamUI /\ play.at = "failed"
      /\ \/ play' = [play EXCEPT !.at = "applaunch"]
         \/ play' = [play EXCEPT !.at = "select", !.fallback = TRUE]
         \/ /\ play' = [play EXCEPT !.at = "raised"]
            /\ play.outcome = "no-play" => ~play.reuse \/ play.fallback
  BY DEF SelectionFailed
<1>2. /\ DOMAIN play' = DOMAIN play /\ play'.seen = play.seen
      /\ play'.attempt = play.attempt /\ play'.outcome = play.outcome
      /\ play'.absent = play.absent
      /\ \/ play'.at \in {"applaunch", "select"}
         \/ /\ play'.at = "raised"
            /\ play.outcome = "no-play" => ~play.reuse \/ play.fallback
  BY <1>1 DEF UIInv, TapsFine
<1>3. TapsFine'
  BY <1>1, <1>2 DEF UIInv, TapsFine
<1>4. Converges'
  BY <1>2 DEF Converges
<1>5. play'.at = "raised" /\ play'.outcome = "no-play" => ~Smooth
  BY <1>1, <1>2 DEF UIInv, Converges
<1>6. play'.at = "raised" /\ play'.outcome = "no-play" => steamUI.lost > 0 \/ steamUI.started
  BY <1>1, <1>2, <1>5 DEF UIInv, TapsFine, Smooth
<1> QED  BY <1>1, <1>3, <1>4, <1>6 DEF UIInv

LEMMA SteamUIStep ==
  ASSUME Attempts >= 3
  PROVE  UIInv /\ [SteamUINext]_steamUIVars => UIInv'
<1>1. SUFFICES ASSUME UIInv, SteamUINext \/ UNCHANGED steamUIVars PROVE UIInv'
  OBVIOUS
<1>2. CASE UNCHANGED steamUIVars
  BY <1>1, <1>2 DEF steamUIVars, UIInv, TapsFine, Converges, Smooth
<1> QED  BY <1>1, <1>2, GameKeep, SelectKeep, LookKeep, RecoverKeep, CheckKeep, ReconcileKeep,
            FailedKeep DEF SteamUINext, SteamUIOver

\* With the three attempts that STOP, its confirmation and PLAY take, the taps
\* end no game, come to stand on PLAY, and fail only when one was lost.
THEOREM PlayReachedSafelyAlways ==
  ASSUME Attempts >= 3
  PROVE  SteamUISpec => []PlayReachedSafely
<1>1. UIInv => PlayReachedSafely
  BY DEF UIInv, TapsFine, PlayReachedSafely, ConfirmKillsNothing, PlayStandsReady,
         ConvergesUnlessLost
<1> QED  BY <1>1, SteamUIStart, SteamUIStep, PTL DEF SteamUISpec

-----------------------------------------------------------------------------
(* FramePower: the run of main.                                              *)

\* The children of each stage, the file that only grows newer, and the clean-up.
ProfileInv ==
    /\ DOMAIN prof = {"at", "nominal", "cleanup", "workload", "cleaned", "marker", "from",
                      "accepted", "exit"}
    /\ DOMAIN perf = {"now", "begun", "file", "asked", "exports"}
    /\ DOMAIN helpers = {"cadence", "power", "workload"}
    /\ prof.at \in {"thermal", "before", "reset", "start", "power", "workload", "cadence",
                    "export", "fresh", "after", "atexit", "gone"}
    /\ prof.cleanup \in BOOLEAN /\ prof.cleaned \in 0 .. 1
    /\ prof.cleaned = 1 => prof.cleanup
    /\ prof.at = "gone" => prof.cleaned = (IF prof.cleanup THEN 1 ELSE 0)
    /\ prof.at \in {"workload", "cadence", "export", "fresh", "after"} => helpers.power # Running
    /\ prof.at \in {"cadence", "export", "fresh", "after"} => helpers.workload # Running
    /\ prof.at \in {"export", "fresh", "after"} => helpers.cadence # Running
    /\ prof.exit \in {0, 2, 3} => /\ prof.at \in {"atexit", "gone"}
                                  /\ helpers.power # Running /\ helpers.workload # Running
                                  /\ helpers.cadence # Running
    /\ perf.now \in Nat /\ perf.file \in Nat /\ perf.file < perf.now
    /\ prof.marker \in Nat /\ prof.marker <= perf.file
    /\ prof.accepted # 0 => prof.accepted \in Nat /\ prof.accepted > prof.marker
    /\ prof.at = "thermal" \/ prof.at = "before" => prof.accepted = 0

LEMMA ProfileStart == PowerInit => ProfileInv
BY DEF PowerInit, ProfileInv, Running

\* An exception leaves what was true of the children and the file as it was.
LEMMA ProfileLeft ==
  ASSUME ProfileInv, prof' = [prof EXCEPT !.at = "atexit", !.exit = 1],
         perf' = perf, helpers' = helpers
  PROVE  ProfileInv'
<1>1. /\ DOMAIN prof' = DOMAIN prof /\ prof'.at = "atexit" /\ prof'.exit = 1
        /\ prof'.cleanup = prof.cleanup /\ prof'.cleaned = prof.cleaned
        /\ prof'.marker = prof.marker /\ prof'.accepted = prof.accepted
  BY DEF ProfileInv
<1>2. /\ DOMAIN prof' = {"at", "nominal", "cleanup", "workload", "cleaned", "marker", "from",
                          "accepted", "exit"}
        /\ prof'.cleanup \in BOOLEAN /\ prof'.cleaned \in 0 .. 1
        /\ (prof'.cleaned = 1 => prof'.cleanup)
        /\ prof'.marker \in Nat /\ prof'.marker <= perf'.file
  BY <1>1 DEF ProfileInv
<1>3. prof'.accepted # 0 => prof'.accepted \in Nat /\ prof'.accepted > prof'.marker
  BY <1>1 DEF ProfileInv
<1>4. prof'.at # "gone" /\ prof'.exit \notin {0, 2, 3} /\ prof'.at # "thermal"
  BY <1>1
<1>5. /\ DOMAIN perf' = {"now", "begun", "file", "asked", "exports"}
        /\ DOMAIN helpers' = {"cadence", "power", "workload"}
        /\ perf'.now \in Nat /\ perf'.file \in Nat /\ perf'.file < perf'.now
  BY DEF ProfileInv
<1> QED  BY <1>1, <1>2, <1>3, <1>4, <1>5 DEF ProfileInv

LEMMA ProfileStep == ProfileInv /\ [ProfilerNext]_powerVars => ProfileInv'
<1>1. SUFFICES ASSUME ProfileInv, ProfilerNext \/ UNCHANGED powerVars PROVE ProfileInv'
  OBVIOUS
<1>2. CASE SomethingFails
  BY <1>1, <1>2, ProfileLeft DEF SomethingFails, PowerFails
<1>3. CASE thermal_precondition
  <2>1. /\ prof.at = "thermal" /\ perf' = perf /\ helpers' = helpers
        /\ \/ prof' = [prof EXCEPT !.at = "atexit", !.exit = 1]
           \/ prof' = [prof EXCEPT !.at = "before"]
    BY <1>3 DEF thermal_precondition
  <2>2. CASE prof' = [prof EXCEPT !.at = "atexit", !.exit = 1]
    BY <1>1, <2>1, <2>2, ProfileLeft
  <2>3. CASE prof' = [prof EXCEPT !.at = "before"]
    BY <1>1, <2>1, <2>3 DEF ProfileInv
  <2> QED  BY <2>1, <2>2, <2>3
<1>4. CASE Before
  <2>1. /\ prof.at = "before" /\ UNCHANGED <<perf, helpers>>
        /\ prof' = [prof EXCEPT !.at = "reset", !.marker = perf.file]
    BY <1>4 DEF Before
  <2> QED  BY <1>1, <2>1 DEF ProfileInv
<1>5. CASE Reset
  <2>1. /\ prof.at = "reset" /\ helpers' = helpers
        /\ prof' = [prof EXCEPT !.at = "start", !.from = perf.now + 1]
        /\ perf' = [perf EXCEPT !.asked = Append(@, "reset"), !.now = @ + 1]
    BY <1>5 DEF Reset, Asks
  <2> QED  BY <1>1, <2>1 DEF ProfileInv
<1>6. CASE StartChildren
  <2>1. /\ prof.at = "start" /\ prof' = [prof EXCEPT !.at = "power"] /\ perf' = perf
        /\ helpers' = [cadence |-> Running, power |-> Running,
                       workload |-> IF prof.workload THEN Running ELSE "none"]
    BY <1>6 DEF StartChildren, Goes
  <2> QED  BY <1>1, <2>1 DEF ProfileInv
<1>7. CASE ChildEnds
  <2>1. PICK c \in DOMAIN helpers : helpers' = [helpers EXCEPT ![c] = "ended"]
    BY <1>7 DEF ChildEnds
  <2>2. UNCHANGED <<prof, perf>>
    BY <1>7 DEF ChildEnds
  <2>3. DOMAIN helpers' = DOMAIN helpers
        /\ \A d \in DOMAIN helpers : helpers'[d] = helpers[d] \/ helpers'[d] # Running
    BY <2>1 DEF Running
  <2>4. /\ helpers.power # Running => helpers'.power # Running
        /\ helpers.workload # Running => helpers'.workload # Running
        /\ helpers.cadence # Running => helpers'.cadence # Running
    BY <1>1, <2>3 DEF ProfileInv
  <2> QED  BY <1>1, <2>2, <2>3, <2>4 DEF ProfileInv
<1>8. CASE PowerSampled
  <2>1. /\ prof.at = "power" /\ prof' = [prof EXCEPT !.at = "workload"]
        /\ helpers.power = "ended" /\ UNCHANGED <<perf, helpers>>
    BY <1>8 DEF PowerSampled, Goes
  <2> QED  BY <1>1, <2>1 DEF ProfileInv, Running
<1>9. CASE finish_workload
  <2>1. /\ prof.at = "workload" /\ prof' = [prof EXCEPT !.at = "cadence"] /\ perf' = perf
        /\ helpers' = [helpers EXCEPT !.workload = FinishedWith(@)]
    BY <1>9 DEF finish_workload, Goes
  <2> QED  BY <1>1, <2>1 DEF ProfileInv, Running, FinishedWith
<1>10. CASE CadenceRead
  <2>1. /\ prof.at = "cadence" /\ prof' = [prof EXCEPT !.at = "export"]
        /\ helpers.cadence = "ended" /\ UNCHANGED <<perf, helpers>>
    BY <1>10 DEF CadenceRead, Goes
  <2> QED  BY <1>1, <2>1 DEF ProfileInv, Running
<1>11. CASE AskExport
  <2>1. /\ prof.at = "export" /\ prof' = [prof EXCEPT !.at = "fresh"] /\ helpers' = helpers
        /\ perf' = [perf EXCEPT !.asked = Append(@, "export"), !.now = @ + 1]
    BY <1>11 DEF AskExport, Goes, Asks
  <2> QED  BY <1>1, <2>1 DEF ProfileInv
<1>12. CASE fresh_host_profile
  <2>1. /\ prof.at = "fresh" /\ perf.file # prof.marker /\ UNCHANGED <<perf, helpers>>
        /\ prof' = [prof EXCEPT !.at = "after", !.accepted = perf.file]
    BY <1>12 DEF fresh_host_profile, MarkerFresh
  <2> QED  BY <1>1, <2>1 DEF ProfileInv
<1>13. CASE ReportProfile
  <2>1. PICK code \in {0, 2} \cup (IF prof.cleanup THEN {3} ELSE {}) :
          prof' = [prof EXCEPT !.at = "atexit", !.exit = code, !.cleaned = CleanedOnce(prof)]
    BY <1>13 DEF ReportProfile
  <2>2. prof.at = "after" /\ UNCHANGED <<perf, helpers>>
    BY <1>13 DEF ReportProfile
  <2>3. CleanedOnce(prof) \in 0 .. 1 /\ (CleanedOnce(prof) = 1 => prof.cleanup)
    BY <1>1 DEF ProfileInv, CleanedOnce
  <2> QED  BY <1>1, <2>1, <2>2, <2>3 DEF ProfileInv
<1>14. CASE AtExit
  <2>1. /\ prof.at = "atexit" /\ UNCHANGED <<perf, helpers>>
        /\ prof' = [prof EXCEPT !.at = "gone", !.cleaned = CleanedOnce(prof)]
    BY <1>14 DEF AtExit
  <2>2. /\ CleanedOnce(prof) \in 0 .. 1 /\ (CleanedOnce(prof) = 1 => prof.cleanup)
        /\ CleanedOnce(prof) = (IF prof.cleanup THEN 1 ELSE 0)
    BY <1>1 DEF ProfileInv, CleanedOnce
  <2> QED  BY <1>1, <2>1, <2>2 DEF ProfileInv
<1>15. CASE HostActs \/ OtherExport
  <2>1. /\ UNCHANGED <<prof, helpers>> /\ DOMAIN perf' = DOMAIN perf
        /\ \/ perf'.now = perf.now + 1 /\ perf'.file \in {perf.file, perf.now}
           \/ perf'.now = perf.now /\ perf'.file = perf.file
    BY <1>1, <1>15 DEF HostActs, OtherExport, ProfileInv
  <2>2. perf'.now \in Nat /\ perf'.file \in Nat /\ perf'.file < perf'.now /\ perf'.file >= perf.file
    BY <1>1, <2>1 DEF ProfileInv
  <2> QED  BY <1>1, <2>1, <2>2 DEF ProfileInv
<1>16. CASE ProfileGone \/ UNCHANGED powerVars
  BY <1>1, <1>16 DEF ProfileGone, powerVars, ProfileInv
<1> QED  BY <1>1, <1>2, <1>3, <1>4, <1>5, <1>6, <1>7, <1>8, <1>9, <1>10, <1>11, <1>12, <1>13,
            <1>14, <1>15, <1>16 DEF ProfilerNext

\* A report follows the ends of the workload and both observers and rests on a
\* file that Host wrote after the marker was read, and the cleanup command ran
\* once when the profiler is gone, however many exports others ask for.
THEOREM ProfileHonestAlways == ProfilerSpec => []ProfileHonest
<1>1. ProfileInv => ProfileHonest
  BY DEF ProfileInv, ProfileHonest, CleanupRanOnce, ReportAfterChildren, ProfileIsFresh
<1> QED  BY <1>1, ProfileStart, ProfileStep, PTL DEF ProfilerSpec

-----------------------------------------------------------------------------
(* FramePower: the rates and the process tree.                               *)

Counting(record) == record.sequence # 0 /\ record.stamp # 0

\* The record before is the last that counts.
RatesInv ==
    /\ DOMAIN cadence = {"records", "at", "previous", "rates"}
    /\ cadence.at \in Nat /\ cadence.previous \in Nat
    /\ cadence.previous < cadence.at
    /\ \A k \in cadence.previous + 1 .. cadence.at - 1 : ~Counting(cadence.records[k])
    /\ \A r \in cadence.rates :
         \A k \in r[1] .. r[2] :
           Counting(cadence.records[k])
             => cadence.records[k].pid = cadence.records[r[1]].pid /\ k \in {r[1], r[2]}

LEMMA RatesStep == RatesInv /\ [producer_rates]_powerVars => RatesInv'
<1>1. CASE UNCHANGED cadence
  BY <1>1 DEF RatesInv
<1>2. SUFFICES ASSUME RatesInv, producer_rates PROVE RatesInv'
  BY <1>1 DEF powerVars
<1>3. PICK i, before, record : /\ i = cadence.at /\ before = cadence.previous
                               /\ record = cadence.records[i]
  OBVIOUS
<1>4. i \in Nat /\ before \in Nat /\ before < i
  BY <1>2, <1>3 DEF RatesInv
<1>5. /\ DOMAIN cadence' = DOMAIN cadence /\ cadence'.at = i + 1
      /\ cadence'.records = cadence.records
      /\ cadence'.previous = IF Counting(record) THEN i ELSE before
      /\ \/ cadence'.rates = cadence.rates
         \/ /\ cadence'.rates = cadence.rates \cup {<<before, i>>}
            /\ record.pid = cadence.records[before].pid
  BY <1>2, <1>3 DEF RatesInv, producer_rates, PreviousAfter, Counting, CountsFrom
<1>6. ASSUME NEW k \in cadence'.previous + 1 .. i PROVE ~Counting(cadence.records[k])
  <2>1. ~Counting(record) /\ cadence'.previous = before
    BY <1>4, <1>5, <1>6
  <2>2. k = i \/ k \in before + 1 .. i - 1
    BY <1>4, <1>6, <2>1
  <2> QED  BY <1>2, <1>3, <2>1, <2>2 DEF RatesInv
<1>7. ASSUME NEW k \in before .. i, Counting(cadence.records[k]),
             record.pid = cadence.records[before].pid
      PROVE  cadence.records[k].pid = cadence.records[before].pid /\ k \in {before, i}
  <2>1. k = before \/ k = i \/ k \in before + 1 .. i - 1
    BY <1>4
  <2> QED  BY <1>2, <1>3, <1>7, <2>1 DEF RatesInv
<1>8. ASSUME NEW r \in cadence'.rates, NEW k \in r[1] .. r[2], Counting(cadence.records[k])
      PROVE  cadence.records[k].pid = cadence.records[r[1]].pid /\ k \in {r[1], r[2]}
  <2>1. CASE r \in cadence.rates
    BY <1>2, <1>8, <2>1 DEF RatesInv
  <2>2. CASE r = <<before, i>> /\ record.pid = cadence.records[before].pid
    <3>1. r[1] = before /\ r[2] = i
      BY <2>2
    <3> QED  BY <1>7, <1>8, <2>2, <3>1
  <2> QED  BY <1>5, <1>8, <2>1, <2>2
<1>9. /\ cadence'.at \in Nat /\ cadence'.previous \in Nat /\ cadence'.previous < cadence'.at
      /\ cadence'.at - 1 = i
  <2>1. i + 1 \in Nat /\ i + 1 - 1 = i /\ i < i + 1 /\ before < i + 1
    BY <1>4
  <2> QED  BY <1>4, <1>5, <2>1
<1> QED  BY <1>2, <1>5, <1>6, <1>8, <1>9 DEF RatesInv

\* For records of any producers and counts, a rate compares two records of one
\* producer with no other that counts between them.
THEOREM RatesOneProducerAlways == RateSpec => []RatesOneProducer
<1>1. RateInit => RatesInv
  BY DEF RateInit, RatesInv
<1>2. RatesInv => RatesOneProducer
  BY DEF RatesInv, RatesOneProducer, Counting
<1> QED  BY <1>1, <1>2, RatesStep, PTL DEF RateSpec

\* What was found is in every set that has the target and the children of its
\* members, and a pass that changed nothing has left no child out so far.
TreeInv ==
    /\ DOMAIN tree = {"parent", "target", "found", "at", "changed", "done"}
    /\ tree.changed \in BOOLEAN /\ tree.at \in 1 .. Cardinality(Pids) + 1
    /\ tree.target \in tree.found
    /\ \A S : Holds(S) => tree.found \subseteq S
    /\ ~tree.changed =>
         \A p \in 1 .. tree.at - 1 : tree.parent[p] \in tree.found => p \in tree.found
    /\ tree.done => Holds(tree.found)

LEMMA PidsCounted == Cardinality(Pids) \in Nat /\ Pids = 1 .. Cardinality(Pids)
<1>1. IsFiniteSet(Pids) /\ Pids = 1 .. Cardinality(Pids)
  BY PowerAssumption
<1>2. \A S : IsFiniteSet(S) => Cardinality(S) \in Nat
  BY FS_CardinalityType
<1> QED  BY <1>1, <1>2

LEMMA TreeStep == TreeInv /\ [TreeNext]_powerVars => TreeInv'
<1>1. SUFFICES ASSUME TreeInv, TreeNext \/ UNCHANGED powerVars PROVE TreeInv'
  OBVIOUS
<1>2. PICK n \in Nat : n = Cardinality(Pids) /\ Pids = 1 .. n
  BY PidsCounted
<1>3. CASE VisitProcess
  <2>1. PICK joins : joins = (tree.at \notin tree.found /\ tree.parent[tree.at] \in tree.found)
    OBVIOUS
  <2>2. /\ tree.at \in Pids /\ ~tree.done
        /\ tree' = [tree EXCEPT !.at = @ + 1,
                       !.found = IF joins THEN @ \cup {tree.at} ELSE @,
                       !.changed = @ \/ joins]
    BY <1>3, <2>1 DEF VisitProcess
  <2>3. /\ DOMAIN tree' = DOMAIN tree /\ tree'.at = tree.at + 1
        /\ tree'.parent = tree.parent /\ tree'.target = tree.target /\ tree'.done = tree.done
        /\ tree'.found = IF joins THEN tree.found \cup {tree.at} ELSE tree.found
    BY <1>1, <2>2 DEF TreeInv
  <2>4. tree'.changed \in BOOLEAN /\ (~tree'.changed => ~tree.changed /\ ~joins)
    <3>1. tree'.changed = (tree.changed \/ joins)
      BY <1>1, <2>2 DEF TreeInv
    <3> QED  BY <3>1
  <2>5. tree'.at \in 1 .. n + 1
    <3>1. tree.at \in 1 .. n
      BY <1>2, <2>2
    <3>2. tree'.at = tree.at + 1
      BY <2>3
    <3> QED  BY <3>1, <3>2
  <2>6. \A S : Holds(S)' <=> Holds(S)
    BY <2>3 DEF Holds
  <2>7. ASSUME NEW S, Holds(S) PROVE tree'.found \subseteq S
    <3>1. tree.found \subseteq S
      BY <1>1, <2>7 DEF TreeInv
    <3>2. CASE joins
      <4>1. tree.parent[tree.at] \in S
        BY <2>1, <3>1, <3>2
      <4>2. tree.at \in S
        BY <2>2, <2>7, <4>1 DEF Holds
      <4> QED  BY <2>3, <3>1, <4>2
    <3>3. CASE ~joins
      BY <2>3, <3>1, <3>3
    <3> QED  BY <3>2, <3>3
  <2>8. ASSUME ~tree'.changed, NEW p \in 1 .. tree'.at - 1, tree.parent[p] \in tree'.found
        PROVE  p \in tree'.found
    <3>1. ~tree.changed /\ ~joins /\ tree'.found = tree.found
      BY <2>3, <2>4, <2>8
    <3>2. p = tree.at \/ p \in 1 .. tree.at - 1
      BY <1>2, <2>2, <2>3
    <3>3. CASE p = tree.at
      BY <2>1, <2>8, <3>1, <3>3
    <3>4. CASE p \in 1 .. tree.at - 1
      BY <1>1, <2>8, <3>1, <3>4 DEF TreeInv
    <3> QED  BY <3>2, <3>3, <3>4
  <2>9. tree'.target \in tree'.found
    BY <1>1, <2>3 DEF TreeInv
  <2> QED  BY <1>1, <1>2, <2>2, <2>3, <2>4, <2>5, <2>6, <2>7, <2>8, <2>9 DEF TreeInv
<1>4. CASE EndPass
  <2>1. /\ tree.at \notin Pids /\ ~tree.done
        /\ tree' = [tree EXCEPT !.at = 1, !.changed = FALSE, !.done = ~tree.changed]
    BY <1>4 DEF EndPass, PassesEnd
  <2>2. /\ DOMAIN tree' = DOMAIN tree /\ tree'.at = 1 /\ tree'.changed = FALSE
        /\ tree'.parent = tree.parent /\ tree'.target = tree.target
        /\ tree'.found = tree.found /\ tree'.done = ~tree.changed
    BY <1>1, <2>1 DEF TreeInv
  <2>3. \A S : Holds(S)' <=> Holds(S)
    BY <2>2 DEF Holds
  <2>4. tree.at = n + 1
    <3>1. tree.at \in 1 .. n + 1
      BY <1>1, <1>2 DEF TreeInv
    <3>2. tree.at \notin 1 .. n
      BY <1>2, <2>1
    <3> QED  BY <3>1, <3>2
  <2>5. ~tree.changed => Holds(tree.found)
    <3>1. SUFFICES ASSUME ~tree.changed, NEW p \in 1 .. n, tree.parent[p] \in tree.found
                   PROVE  p \in tree.found
      BY <1>1, <1>2 DEF TreeInv, Holds
    <3>2. p \in 1 .. tree.at - 1
      BY <2>4
    <3> QED  BY <1>1, <3>1, <3>2 DEF TreeInv
  <2>6. tree'.done => Holds(tree.found)
    BY <2>2, <2>5
  <2>7. 1 \in 1 .. n + 1 /\ \A p \in 1 .. 1 - 1 : FALSE
    OBVIOUS
  <2> QED  BY <1>1, <1>2, <2>2, <2>3, <2>6, <2>7 DEF TreeInv
<1>5. CASE UNCHANGED powerVars
  BY <1>1, <1>5 DEF powerVars, TreeInv, Holds
<1> QED  BY <1>1, <1>3, <1>4, <1>5 DEF TreeNext

\* For listings of any length, in any order and with cycles among the parents,
\* what is collected is the target with its descendants and nothing else.
THEOREM TreeIsDescendantsAlways == TreeSpec => []TreeIsDescendants
<1>1. TreeInit => TreeInv
  <2>1. SUFFICES ASSUME TreeInit PROVE TreeInv
    OBVIOUS
  <2>2. PICK parents, target :
          tree = [parent |-> parents, target |-> target, found |-> {target},
                  at |-> 1, changed |-> FALSE, done |-> FALSE]
    BY <2>1 DEF TreeInit
  <2>3. 1 \in 1 .. Cardinality(Pids) + 1 /\ \A p \in 1 .. 1 - 1 : FALSE
    BY PidsCounted
  <2>4. \A S : Holds(S) => tree.found \subseteq S
    BY <2>2 DEF Holds
  <2> QED  BY <2>2, <2>3, <2>4 DEF TreeInv
<1>2. TreeInv => TreeIsDescendants
  BY DEF TreeInv, TreeIsDescendants
<1> QED  BY <1>1, <1>2, TreeStep, PTL DEF TreeSpec

-----------------------------------------------------------------------------
(* DarkRegions: the grid.                                                    *)

LEMMA ProductBetween ==
  ASSUME NEW W \in Nat, NEW a \in Int, NEW b \in Int, a < b, W > 0
  PROVE  a * W + W <= b * W
<1>1. (b - a - 1) * W >= 0
  OBVIOUS
<1>2. (b - a - 1) * W = b * W - a * W - W
  OBVIOUS
<1>3. a * W \in Int /\ b * W \in Int
  OBVIOUS
<1> QED  BY <1>1, <1>2, <1>3

LEMMA DivMod ==
  ASSUME NEW W \in Nat, W > 0
  PROVE  \A n \in Int : n \div W \in Int /\ n % W \in 0 .. W - 1
                        /\ n = (n \div W) * W + (n % W)
<1>1. \A n \in Int : n \div W \in Int /\ n % W \in 0 .. W - 1
  OBVIOUS
<1>2. \A n \in Int : n = (n \div W) * W + (n % W)
  OBVIOUS
<1> QED  BY <1>1, <1>2

LEMMA DivModIs ==
  ASSUME NEW W \in Nat, W > 0, NEW x \in 0 .. W - 1, NEW y \in Int
  PROVE  y * W + x \in Int /\ (y * W + x) \div W = y /\ (y * W + x) % W = x
<1>1. PICK n \in Int : n = y * W + x
  OBVIOUS
<1>2. PICK q \in Int, r \in 0 .. W - 1 : q = n \div W /\ r = n % W /\ n = q * W + r
  BY DivMod
<1>3. ~(q < y)
  BY <1>1, <1>2, ProductBetween
<1>4. ~(y < q)
  BY <1>1, <1>2, ProductBetween
<1>5. q = y
  BY <1>3, <1>4
<1>6. r = x
  BY <1>1, <1>2, <1>5
<1> QED  BY <1>1, <1>2, <1>5, <1>6

(* A sample and its place in the grid.                                       *)
Columns == 0 .. GridWidth - 1
Rows == 0 .. GridHeight - 1

LEMMA PlaceOfSample ==
  \A s \in Samples : /\ X(s) \in Columns /\ Y(s) \in Rows /\ s \in Int
                     /\ s = Y(s) * GridWidth + X(s)
<1> SUFFICES ASSUME NEW s \in Samples
             PROVE  X(s) \in Columns /\ Y(s) \in Rows /\ s \in Int /\ s = Y(s) * GridWidth + X(s)
  OBVIOUS
<1>1. PICK W \in Nat, H \in Nat : W = GridWidth /\ H = GridHeight /\ W > 0 /\ H > 0
  BY RegionAssumption
<1>2. s \in Int /\ 0 <= s /\ s < W * H
  <2>1. W * H \in Int
    OBVIOUS
  <2> QED  BY <1>1, <2>1 DEF Samples
<1>3. PICK q \in Int, r \in 0 .. W - 1 : q = s \div W /\ r = s % W /\ s = q * W + r
  BY <1>1, <1>2, DivMod
<1>4. q < H
  <2>1. SUFFICES ASSUME H <= q PROVE FALSE
    OBVIOUS
  <2>2. H * W <= q * W
    <3>1. H = q \/ H * W + W <= q * W
      BY <1>1, <2>1, ProductBetween
    <3>2. H * W \in Int /\ q * W \in Int
      OBVIOUS
    <3> QED  BY <1>1, <3>1, <3>2
  <2>3. H * W = W * H /\ H * W \in Int /\ q * W \in Int
    OBVIOUS
  <2> QED  BY <1>2, <1>3, <2>2, <2>3
<1>5. q >= 0
  <2>1. SUFFICES ASSUME q < 0 PROVE FALSE
    OBVIOUS
  <2>2. q * W + W <= 0 * W
    BY <1>1, <2>1, ProductBetween
  <2>3. 0 * W = 0 /\ q * W \in Int
    OBVIOUS
  <2> QED  BY <1>2, <1>3, <2>2, <2>3
<1> QED  BY <1>1, <1>2, <1>3, <1>4, <1>5 DEF X, Y, Columns, Rows

LEMMA SampleAtPlace ==
  \A x \in Columns, y \in Rows :
    /\ y * GridWidth + x \in Samples
    /\ X(y * GridWidth + x) = x /\ Y(y * GridWidth + x) = y
<1> SUFFICES ASSUME NEW x \in Columns, NEW y \in Rows
             PROVE  /\ y * GridWidth + x \in Samples
                    /\ X(y * GridWidth + x) = x /\ Y(y * GridWidth + x) = y
  OBVIOUS
<1>1. PICK W \in Nat, H \in Nat : W = GridWidth /\ H = GridHeight /\ W > 0 /\ H > 0
  BY RegionAssumption
<1>2. x \in 0 .. W - 1 /\ y \in 0 .. H - 1
  BY <1>1 DEF Columns, Rows
<1>3. (y * W + x) \in Int /\ (y * W + x) \div W = y /\ (y * W + x) % W = x
  BY <1>1, <1>2, DivModIs
<1>4. y * W + x < H * W /\ y * W \in Int /\ H * W \in Int
  <2>1. y * W + W <= H * W
    BY <1>1, <1>2, ProductBetween
  <2>2. y * W \in Int /\ H * W \in Int
    BY <1>2
  <2> QED  BY <1>2, <2>1, <2>2
<1>5. y * W >= 0
  <2>1. y = 0 \/ 0 * W + W <= y * W
    BY <1>1, <1>2, ProductBetween
  <2>2. 0 * W = 0
    OBVIOUS
  <2> QED  BY <1>1, <1>4, <2>1, <2>2
<1>6. y * W + x \in 0 .. W * H - 1
  <2>1. H * W = W * H
    OBVIOUS
  <2> QED  BY <1>2, <1>4, <1>5, <2>1
<1> QED  BY <1>1, <1>3, <1>6 DEF Samples, X, Y

(* The fill.                                                                 *)
Grid == dark \subseteq Samples

LEMMA PushIs ==
  ASSUME Grid, NEW x \in Int, NEW y \in Int
  PROVE  /\ Push(<<x, y>>) \in Seq(Samples) /\ NoRepeats(Push(<<x, y>>))
         /\ ToSet(Push(<<x, y>>)) = {n \in dark \ visited : X(n) = x /\ Y(n) = y}
<1>1. PICK c : c = <<x, y>> /\ c[1] = x /\ c[2] = y
  <2>1. <<x, y>>[1] = x /\ <<x, y>>[2] = y
    OBVIOUS
  <2> QED  BY <2>1
<1>2. CASE InGrid(c) /\ At(c) \in dark \ visited
  <2>1. Push(c) = <<At(c)>>
    BY <1>2 DEF Push
  <2>2. At(c) \in Samples /\ X(At(c)) = x /\ Y(At(c)) = y
    BY <1>1, <1>2, SampleAtPlace DEF InGrid, At, Columns, Rows
  <2>3. \A n \in Samples : X(n) = x /\ Y(n) = y => n = At(c)
    BY <1>1, PlaceOfSample DEF At
  <2>4. \A n : ToSet(<<n>>) = {n} /\ NoRepeats(<<n>>)
    BY DEF ToSet, NoRepeats
  <2>5. \A n \in Samples : <<n>> \in Seq(Samples)
    OBVIOUS
  <2>6. {n \in dark \ visited : X(n) = x /\ Y(n) = y} = {At(c)}
    BY <1>2, <2>2, <2>3 DEF Grid
  <2> QED  BY <1>1, <2>1, <2>2, <2>4, <2>5, <2>6
<1>3. CASE ~(InGrid(c) /\ At(c) \in dark \ visited)
  <2>1. Push(c) = <<>>
    BY <1>3 DEF Push
  <2>2. ASSUME NEW n \in dark \ visited, X(n) = x, Y(n) = y PROVE FALSE
    <3>1. n \in Samples
      BY DEF Grid
    <3>2. X(n) \in Columns /\ Y(n) \in Rows /\ n = Y(n) * GridWidth + X(n)
      BY <3>1, PlaceOfSample
    <3>3. At(c) = n /\ InGrid(c)
      BY <1>1, <2>2, <3>2 DEF At, InGrid, Columns, Rows
    <3> QED  BY <1>3, <2>2, <3>3
  <2>3. ToSet(<<>>) = {} /\ NoRepeats(<<>>) /\ <<>> \in Seq(Samples)
    BY DEF ToSet, NoRepeats
  <2> QED  BY <1>1, <2>1, <2>2, <2>3
<1> QED  BY <1>1, <1>2, <1>3

LEMMA PushedAre ==
  ASSUME Grid, NEW s \in Samples
  PROVE  /\ Pushed(X(s), Y(s)) \in Seq(Samples) /\ NoRepeats(Pushed(X(s), Y(s)))
         /\ ToSet(Pushed(X(s), Y(s))) = {n \in dark \ visited : Adjacent(s, n)}
<1>0. \A q \in Seq(Samples), r \in Seq(Samples) :
        /\ q \o r \in Seq(Samples) /\ ToSet(q \o r) = ToSet(q) \cup ToSet(r)
        /\ NoRepeats(q) /\ NoRepeats(r) /\ ToSet(q) \cap ToSet(r) = {} => NoRepeats(q \o r)
  BY CatElements
<1>1. PICK x \in Int, y \in Int : x = X(s) /\ y = Y(s)
  BY PlaceOfSample DEF Columns, Rows
<1>2. PICK a \in Seq(Samples) : /\ a = Push(<<x - 1, y>>) /\ NoRepeats(a)
                                /\ ToSet(a) = {n \in dark \ visited : X(n) = x - 1 /\ Y(n) = y}
  BY PushIs
<1>3. PICK b \in Seq(Samples) : /\ b = Push(<<x + 1, y>>) /\ NoRepeats(b)
                                /\ ToSet(b) = {n \in dark \ visited : X(n) = x + 1 /\ Y(n) = y}
  BY PushIs
<1>4. PICK c \in Seq(Samples) : /\ c = Push(<<x, y - 1>>) /\ NoRepeats(c)
                                /\ ToSet(c) = {n \in dark \ visited : X(n) = x /\ Y(n) = y - 1}
  BY PushIs
<1>5. PICK d \in Seq(Samples) : /\ d = Push(<<x, y + 1>>) /\ NoRepeats(d)
                                /\ ToSet(d) = {n \in dark \ visited : X(n) = x /\ Y(n) = y + 1}
  BY PushIs
<1>a. /\ x - 1 # x + 1 /\ x - 1 # x /\ x + 1 # x
      /\ y - 1 # y + 1 /\ y - 1 # y /\ y + 1 # y
  OBVIOUS
<1>6. a \o b \in Seq(Samples) /\ ToSet(a \o b) = ToSet(a) \cup ToSet(b) /\ NoRepeats(a \o b)
  <2>1. ToSet(a) \cap ToSet(b) = {}
    BY <1>2, <1>3, <1>a
  <2> QED  BY <1>0, <1>2, <1>3, <2>1
<1>7. /\ (a \o b) \o c \in Seq(Samples) /\ NoRepeats((a \o b) \o c)
      /\ ToSet((a \o b) \o c) = ToSet(a) \cup ToSet(b) \cup ToSet(c)
  <2>1. (ToSet(a) \cup ToSet(b)) \cap ToSet(c) = {}
    BY <1>2, <1>3, <1>4, <1>a
  <2> QED  BY <1>0, <1>4, <1>6, <2>1
<1>8. /\ ((a \o b) \o c) \o d \in Seq(Samples) /\ NoRepeats(((a \o b) \o c) \o d)
      /\ ToSet(((a \o b) \o c) \o d) = ToSet(a) \cup ToSet(b) \cup ToSet(c) \cup ToSet(d)
  <2>1. (ToSet(a) \cup ToSet(b) \cup ToSet(c)) \cap ToSet(d) = {}
    BY <1>2, <1>3, <1>4, <1>5, <1>a
  <2> QED  BY <1>0, <1>5, <1>7, <2>1
<1>9. Pushed(X(s), Y(s)) = ((a \o b) \o c) \o d
  BY <1>1, <1>2, <1>3, <1>4, <1>5 DEF Pushed
<1>10. ToSet(a) \cup ToSet(b) \cup ToSet(c) \cup ToSet(d) = {n \in dark \ visited : Adjacent(s, n)}
  <2>1. \A n \in dark : X(n) \in Int /\ Y(n) \in Int
    BY PlaceOfSample DEF Grid, Columns, Rows
  <2>2. \A n \in dark : Adjacent(s, n) <=> \/ X(n) = x - 1 /\ Y(n) = y
                                           \/ X(n) = x + 1 /\ Y(n) = y
                                           \/ X(n) = x /\ Y(n) = y - 1
                                           \/ X(n) = x /\ Y(n) = y + 1
    BY <1>1, <2>1 DEF Adjacent
  <2> QED  BY <1>2, <1>3, <1>4, <1>5, <2>2
<1> QED  BY <1>8, <1>9, <1>10

\* The box of the samples counted so far.
Boxes == [minX : Int, maxX : Int, minY : Int, maxY : Int]

Bounds(box, D) ==
  /\ \A s \in D : /\ box.minX <= X(s) /\ X(s) <= box.maxX
                  /\ box.minY <= Y(s) /\ Y(s) <= box.maxY
  /\ \E s \in D : X(s) = box.minX
  /\ \E s \in D : X(s) = box.maxX
  /\ \E s \in D : Y(s) = box.minY
  /\ \E s \in D : Y(s) = box.maxY

BoxSoFar(box, D) == IF D = {} THEN box = NoBox ELSE Bounds(box, D)

LEMMA NoBoxIs == NoBox \in Boxes
BY RegionAssumption DEF NoBox, Boxes

LEMMA GrownIs ==
  ASSUME NEW box \in Boxes, NEW D \in SUBSET Samples, NEW s \in Samples, BoxSoFar(box, D)
  PROVE  Grown(box, s) \in Boxes /\ Bounds(Grown(box, s), D \cup {s})
<1>1. \A t \in Samples : X(t) \in Int /\ Y(t) \in Int /\ 0 <= X(t) /\ X(t) <= GridWidth
                         /\ 0 <= Y(t) /\ Y(t) <= GridHeight
  BY PlaceOfSample, RegionAssumption DEF Columns, Rows
<1>2. PICK x \in Int, y \in Int : x = X(s) /\ y = Y(s) /\ 0 <= x /\ x <= GridWidth /\ 0 <= y /\ y <= GridHeight
  BY <1>1
<1>3. PICK a \in Int, b \in Int, c \in Int, d \in Int :
        a = box.minX /\ b = box.maxX /\ c = box.minY /\ d = box.maxY
  BY DEF Boxes
<1>4. PICK e \in Int, f \in Int, g \in Int, h \in Int :
        e = Smaller(a, x) /\ f = Larger(b, x) /\ g = Smaller(c, y) /\ h = Larger(d, y)
  BY DEF Smaller, Larger
<1>5. Grown(box, s) = [minX |-> e, maxX |-> f, minY |-> g, maxY |-> h]
  BY <1>2, <1>3, <1>4 DEF Grown
<1>6. PICK G \in Boxes : G = Grown(box, s) /\ G.minX = e /\ G.maxX = f /\ G.minY = g /\ G.maxY = h
  BY <1>5 DEF Boxes
<1>7. CASE D = {}
  <2>1. a = GridWidth /\ b = 0 /\ c = GridHeight /\ d = 0
    BY <1>3, <1>7 DEF BoxSoFar, NoBox
  <2>2. e = x /\ f = x /\ g = y /\ h = y
    BY <1>2, <1>4, <2>1 DEF Smaller, Larger
  <2>3. Bounds(G, D \cup {s})
    BY <1>2, <1>6, <1>7, <2>2 DEF Bounds
  <2> QED  BY <1>6, <2>3
<1>8. CASE D # {}
  <2>1. /\ e <= a /\ e <= x /\ (e = a \/ e = x)
        /\ b <= f /\ x <= f /\ (f = b \/ f = x)
        /\ g <= c /\ g <= y /\ (g = c \/ g = y)
        /\ d <= h /\ y <= h /\ (h = d \/ h = y)
    BY <1>4 DEF Smaller, Larger
  <2>2. /\ \A t \in D : a <= X(t) /\ X(t) <= b /\ c <= Y(t) /\ Y(t) <= d
        /\ \E t \in D : X(t) = a
        /\ \E t \in D : X(t) = b
        /\ \E t \in D : Y(t) = c
        /\ \E t \in D : Y(t) = d
    BY <1>3, <1>8 DEF BoxSoFar, Bounds
  <2>3. \A t \in D \cup {s} : e <= X(t) /\ X(t) <= f /\ g <= Y(t) /\ Y(t) <= h
    <3>1. \A t \in D : X(t) \in Int /\ Y(t) \in Int
      BY <1>1
    <3>2. \A t \in D : e <= X(t) /\ X(t) <= f /\ g <= Y(t) /\ Y(t) <= h
      BY <2>1, <2>2, <3>1
    <3> QED  BY <1>2, <2>1, <3>2
  <2>4. /\ \E t \in D \cup {s} : X(t) = e
        /\ \E t \in D \cup {s} : X(t) = f
        /\ \E t \in D \cup {s} : Y(t) = g
        /\ \E t \in D \cup {s} : Y(t) = h
    BY <1>2, <2>1, <2>2
  <2>5. Bounds(G, D \cup {s})
    BY <1>6, <2>3, <2>4 DEF Bounds
  <2> QED  BY <1>6, <2>5
<1> QED  BY <1>7, <1>8

LEMMA BoxIsBoxOf ==
  ASSUME NEW box \in Boxes, NEW D \in SUBSET Samples, Bounds(box, D)
  PROVE  box = BoxOf(D)
<1>1. \A s \in D : X(s) \in Int /\ Y(s) \in Int
  BY PlaceOfSample DEF Columns, Rows
<1>2. PICK a \in Int, b \in Int, c \in Int, d \in Int :
        a = box.minX /\ b = box.maxX /\ c = box.minY /\ d = box.maxY
  BY DEF Boxes
<1>3. /\ \A t \in D : a <= X(t) /\ X(t) <= b /\ c <= Y(t) /\ Y(t) <= d
      /\ \E t \in D : X(t) = a
      /\ \E t \in D : X(t) = b
      /\ \E t \in D : Y(t) = c
      /\ \E t \in D : Y(t) = d
  BY <1>2 DEF Bounds
<1>4. (CHOOSE m \in {X(s) : s \in D} : \A s \in D : m <= X(s)) = a
  <2>1. a \in {X(s) : s \in D} /\ \A s \in D : a <= X(s)
    BY <1>3
  <2>2. \A m \in {X(s) : s \in D} : (\A s \in D : m <= X(s)) => m = a
    BY <1>1, <1>3
  <2> QED  BY <2>1, <2>2
<1>5. (CHOOSE m \in {X(s) : s \in D} : \A s \in D : m >= X(s)) = b
  <2>1. b \in {X(s) : s \in D} /\ \A s \in D : b >= X(s)
    BY <1>1, <1>3
  <2>2. \A m \in {X(s) : s \in D} : (\A s \in D : m >= X(s)) => m = b
    BY <1>1, <1>3
  <2> QED  BY <2>1, <2>2
<1>6. (CHOOSE m \in {Y(s) : s \in D} : \A s \in D : m <= Y(s)) = c
  <2>1. c \in {Y(s) : s \in D} /\ \A s \in D : c <= Y(s)
    BY <1>3
  <2>2. \A m \in {Y(s) : s \in D} : (\A s \in D : m <= Y(s)) => m = c
    BY <1>1, <1>3
  <2> QED  BY <2>1, <2>2
<1>7. (CHOOSE m \in {Y(s) : s \in D} : \A s \in D : m >= Y(s)) = d
  <2>1. d \in {Y(s) : s \in D} /\ \A s \in D : d >= Y(s)
    BY <1>1, <1>3
  <2>2. \A m \in {Y(s) : s \in D} : (\A s \in D : m >= Y(s)) => m = d
    BY <1>1, <1>3
  <2> QED  BY <2>1, <2>2
<1>8. box = [minX |-> a, maxX |-> b, minY |-> c, maxY |-> d]
  BY <1>2 DEF Boxes
<1> QED  BY <1>4, <1>5, <1>6, <1>7, <1>8 DEF BoxOf

\* The samples counted by the fill, and those of the fills before it.
Filling(D, Old) ==
  /\ visited = Old \cup D \cup ToSet(pending)
  /\ Old \cap D = {} /\ Old \cap ToSet(pending) = {} /\ D \cap ToSet(pending) = {}
  /\ Closed(Old)
  /\ IsFiniteSet(D) /\ scan.count = Cardinality(D)
  /\ BoxSoFar(scan.box, D)
  /\ scan.seed \in D \cup ToSet(pending)
  /\ \A s \in D, n \in dark : Adjacent(s, n) => n \in D \cup ToSet(pending)
  /\ \A T \in SUBSET dark : scan.seed \in T /\ Closed(T) => D \cup ToSet(pending) \subseteq T

\* A box that an island is reported with.
Surrounded(box) ==
  /\ box \in Boxes
  /\ 0 < box.minX /\ box.minX <= box.maxX /\ box.maxX < GridWidth - 1
  /\ 0 < box.minY /\ box.minY <= box.maxY /\ box.maxY < GridHeight - 1
  /\ Ring(box) # {}
  /\ 8 * Cardinality(Ring(box) \ dark) >= 5 * Cardinality(Ring(box))

Scans == [at : {"seek", "fill", "done"}, seed : Nat, count : Nat, box : Boxes]

RegionInv ==
  /\ Grid /\ visited \subseteq dark
  /\ pending \in Seq(Samples) /\ NoRepeats(pending)
  /\ scan \in Scans
  /\ scan.at # "fill" => pending = <<>> /\ Closed(visited)
  /\ scan.at = "fill" => \E D \in SUBSET dark, Old \in SUBSET dark : Filling(D, Old)
  /\ \A r \in regions : Surrounded(r.box)

LEMMA SamplesCounted == Samples \subseteq Nat /\ IsFiniteSet(Samples)
<1>1. PICK n \in Int : n = GridWidth * GridHeight - 1
  BY RegionAssumption
<1>2. 0 .. n \subseteq Nat /\ IsFiniteSet(0 .. n)
  BY FS_Interval
<1> QED  BY <1>1, <1>2 DEF Samples

LEMMA RegionStarts == RegionInit => RegionInv
<1> SUFFICES ASSUME RegionInit PROVE RegionInv
  OBVIOUS
<1>1. dark \subseteq Samples /\ visited = {} /\ pending = <<>> /\ regions = {}
  BY DEF RegionInit
<1>2. scan \in Scans /\ scan.at = "seek"
  BY NoBoxIs DEF RegionInit, Scans
<1>3. pending \in Seq(Samples) /\ NoRepeats(pending)
  BY <1>1 DEF NoRepeats
<1> QED  BY <1>1, <1>2, <1>3 DEF RegionInv, Grid, Closed

LEMMA SeekSteps == RegionInv /\ SeekSeed => RegionInv'
<1> SUFFICES ASSUME RegionInv, SeekSeed PROVE RegionInv'
  OBVIOUS
<1>1. /\ scan.at = "seek" /\ pending = <<>> /\ Closed(visited) /\ scan \in Scans
      /\ Grid /\ visited \subseteq dark /\ dark' = dark /\ regions' = regions
      /\ \A r \in regions : Surrounded(r.box)
  BY DEF RegionInv, SeekSeed
<1>2. Grid' /\ (\A r \in regions' : Surrounded(r.box)')
  <2>1. \A box : Surrounded(box)' <=> Surrounded(box)
    BY <1>1 DEF Surrounded, Ring
  <2> QED  BY <1>1, <2>1 DEF Grid
<1>3. CASE {s \in dark \ visited : s >= scan.seed} = {}
  <2>1. scan' = [scan EXCEPT !.at = "done"] /\ visited' = visited /\ pending' = pending
    BY <1>3 DEF SeekSeed
  <2>2. scan' \in Scans /\ scan'.at = "done"
    BY <1>1, <2>1 DEF Scans
  <2>3. pending' \in Seq(Samples) /\ NoRepeats(pending')
    BY <2>1 DEF RegionInv
  <2>4. Closed(visited)' <=> Closed(visited)
    BY <1>1, <2>1 DEF Closed
  <2> QED  BY <1>1, <1>2, <2>1, <2>2, <2>3, <2>4 DEF RegionInv
<1>4. CASE {s \in dark \ visited : s >= scan.seed} # {}
  <2> DEFINE fresh == {s \in dark \ visited : s >= scan.seed}
  <2>1. PICK seed \in fresh : \A t \in fresh : seed <= t
    <3>1. fresh \subseteq Nat /\ fresh # {}
      BY <1>1, <1>4, SamplesCounted DEF Grid
    <3> HIDE DEF fresh
    <3> QED  BY <3>1, LeastOf
  <2>2. fresh \subseteq Samples /\ fresh \subseteq Nat
    BY <1>1, SamplesCounted DEF Grid
  <2>3. (CHOOSE s \in fresh : \A t \in fresh : s <= t) = seed
    BY <2>1, <2>2
  <2>4. /\ scan' = [at |-> "fill", seed |-> seed, count |-> 0, box |-> NoBox]
        /\ visited' = visited \cup {seed} /\ pending' = <<seed>>
    BY <1>4, <2>3 DEF SeekSeed
  <2>5. seed \in dark /\ seed \in Samples /\ seed \in Nat /\ seed \notin visited
    BY <2>1, <2>2
  <2>6. scan' \in Scans /\ scan'.at = "fill" /\ scan'.seed = seed /\ scan'.count = 0 /\ scan'.box = NoBox
    BY <2>4, <2>5, NoBoxIs DEF Scans
  <2>7. pending' \in Seq(Samples) /\ NoRepeats(pending') /\ ToSet(pending') = {seed}
    BY <2>4, <2>5 DEF NoRepeats, ToSet
  <2>c. PICK Old \in SUBSET dark : Old = visited
    BY <1>1
  <2>8. Filling({}, Old)'
    <3>1. IsFiniteSet({}) /\ Cardinality({}) = 0
      BY FS_EmptySet
    <3>2. \A S : Closed(S)' <=> Closed(S)
      BY <1>1 DEF Closed
    <3> QED  BY <1>1, <2>c, <2>4, <2>5, <2>6, <2>7, <3>1, <3>2 DEF Filling, BoxSoFar
  <2>9. {} \in SUBSET dark' /\ Old \in SUBSET dark' /\ visited' \subseteq dark'
    BY <1>1, <2>c, <2>4, <2>5
  <2> QED  BY <1>2, <2>6, <2>7, <2>8, <2>9 DEF RegionInv
<1> QED  BY <1>3, <1>4

LEMMA PopSteps == RegionInv /\ PopSample => RegionInv'
<1> SUFFICES ASSUME RegionInv, PopSample PROVE RegionInv'
  OBVIOUS
<1>1. /\ scan.at = "fill" /\ pending \in Seq(Samples) /\ NoRepeats(pending) /\ pending # <<>>
      /\ scan \in Scans
      /\ Grid /\ visited \subseteq dark /\ dark' = dark /\ regions' = regions
      /\ \A r \in regions : Surrounded(r.box)
  BY DEF RegionInv, PopSample
<1>2. Grid' /\ (\A r \in regions' : Surrounded(r.box)')
  <2>1. \A box : Surrounded(box)' <=> Surrounded(box)
    BY <1>1 DEF Surrounded, Ring
  <2> QED  BY <1>1, <2>1 DEF Grid
<1>3. PICK D \in SUBSET dark, Old \in SUBSET dark : Filling(D, Old)
  BY <1>1 DEF RegionInv
<1>4. PICK Q \in SUBSET Samples : Q = ToSet(pending)
  <2>1. \A i \in DOMAIN pending : pending[i] \in Samples
    BY <1>1
  <2> QED  BY <2>1 DEF ToSet
<1>5. PICK s \in Q, rest \in Seq(Samples) :
        /\ s = pending[Len(pending)] /\ rest = SubSeq(pending, 1, Len(pending) - 1)
        /\ NoRepeats(rest) /\ ToSet(rest) = Q \ {s}
  BY <1>1, <1>4, DropLast
<1>6. PICK found \in Seq(Samples) :
        /\ found = Pushed(X(s), Y(s)) /\ NoRepeats(found)
        /\ ToSet(found) = {n \in dark \ visited : Adjacent(s, n)}
  BY <1>1, <1>5, PushedAre
<1>7. PICK F \in SUBSET dark : F = ToSet(found) /\ F = {n \in dark \ visited : Adjacent(s, n)}
  BY <1>6
<1>8. /\ pending' = rest \o found /\ visited' = visited \cup F
      /\ scan' = [scan EXCEPT !.count = @ + 1, !.box = Grown(@, s)]
  BY <1>5, <1>6, <1>7 DEF PopSample, ToSet
<1>9. /\ visited = Old \cup D \cup Q
      /\ Old \cap D = {} /\ Old \cap Q = {} /\ D \cap Q = {}
      /\ Closed(Old)
      /\ IsFiniteSet(D) /\ scan.count = Cardinality(D)
      /\ BoxSoFar(scan.box, D)
      /\ scan.seed \in D \cup Q
      /\ \A t \in D, n \in dark : Adjacent(t, n) => n \in D \cup Q
      /\ \A T \in SUBSET dark : scan.seed \in T /\ Closed(T) => D \cup Q \subseteq T
  BY <1>3, <1>4 DEF Filling
<1>10. s \in dark /\ s \notin D /\ s \notin Old /\ s \in Samples
  BY <1>1, <1>9
<1>11. PICK E \in SUBSET dark : E = D \cup {s}
  BY <1>10
<1>12. scan' \in Scans /\ scan'.at = "fill" /\ scan'.seed = scan.seed /\ scan'.count = Cardinality(E)
       /\ Bounds(scan'.box, E) /\ IsFiniteSet(E)
  <2>1. scan.box \in Boxes /\ scan.count \in Nat
    BY <1>1 DEF Scans
  <2>2. Grown(scan.box, s) \in Boxes /\ Bounds(Grown(scan.box, s), D \cup {s})
    BY <1>1, <1>9, <1>10, <2>1, GrownIs DEF Grid
  <2>3. IsFiniteSet(E) /\ Cardinality(E) = Cardinality(D) + 1
    BY <1>9, <1>10, <1>11, FS_AddElement
  <2>4. /\ scan'.at = "fill" /\ scan'.seed = scan.seed /\ scan'.count = scan.count + 1
        /\ scan'.box = Grown(scan.box, s)
    BY <1>1, <1>8 DEF Scans
  <2>5. scan' \in Scans
    <3>1. scan' = [at |-> scan.at, seed |-> scan.seed, count |-> scan.count + 1, box |-> Grown(scan.box, s)]
      BY <1>1, <1>8 DEF Scans
    <3>2. scan.at \in {"seek", "fill", "done"} /\ scan.seed \in Nat /\ scan.count + 1 \in Nat
      BY <1>1, <2>1 DEF Scans
    <3> QED  BY <2>2, <3>1, <3>2 DEF Scans
  <2> QED  BY <1>9, <1>11, <2>2, <2>3, <2>4, <2>5
<1>13. pending' \in Seq(Samples) /\ NoRepeats(pending') /\ ToSet(pending') = (Q \ {s}) \cup F
  <2>1. F \cap (Q \ {s}) = {}
    BY <1>7, <1>9
  <2>2. /\ rest \o found \in Seq(Samples) /\ ToSet(rest \o found) = ToSet(rest) \cup ToSet(found)
        /\ NoRepeats(rest) /\ NoRepeats(found) /\ ToSet(rest) \cap ToSet(found) = {} => NoRepeats(rest \o found)
    BY CatElements
  <2> QED  BY <1>5, <1>6, <1>7, <1>8, <2>1, <2>2
<1>14. PICK R \in SUBSET dark : R = (Q \ {s}) \cup F
  BY <1>1, <1>9
<1>15. ASSUME NEW n \in dark, Adjacent(s, n) PROVE n \in E \cup R
  <2>1. CASE n \notin visited
    BY <1>7, <1>14, <1>15, <2>1
  <2>2. CASE n \in Old
    <3>1. Adjacent(n, s)
      BY <1>15 DEF Adjacent
    <3>2. s \in Old
      BY <1>9, <1>10, <2>2, <3>1 DEF Closed
    <3> QED  BY <1>10, <3>2
  <2> QED  BY <1>9, <1>11, <1>14, <2>1, <2>2
<1>16. E \cup R = D \cup Q \cup F
  BY <1>5, <1>11, <1>14
<1>17. ASSUME NEW T \in SUBSET dark, scan.seed \in T, Closed(T) PROVE E \cup R \subseteq T
  <2>1. D \cup Q \subseteq T
    BY <1>9, <1>17
  <2>2. F \subseteq T
    BY <1>5, <1>7, <1>17, <2>1 DEF Closed
  <2> QED  BY <1>16, <2>1, <2>2
<1>18. \A S : Closed(S)' <=> Closed(S)
  BY <1>1 DEF Closed
<1>19. /\ visited' = Old \cup E \cup R
       /\ Old \cap E = {} /\ Old \cap R = {} /\ E \cap R = {}
       /\ scan.seed \in E \cup R /\ visited' \subseteq dark
  BY <1>1, <1>5, <1>7, <1>8, <1>9, <1>10, <1>11, <1>14, <1>16
<1>20. \A t \in E, n \in dark : Adjacent(t, n) => n \in E \cup R
  BY <1>9, <1>11, <1>15, <1>16
<1>21. Filling(E, Old)'
  <2>1. BoxSoFar(scan.box, E)'
    BY <1>11, <1>12 DEF BoxSoFar
  <2>2. \A T \in SUBSET dark' : scan'.seed \in T /\ Closed(T)' => E \cup ToSet(pending') \subseteq T
    BY <1>1, <1>12, <1>13, <1>14, <1>17, <1>18
  <2>3. \A t \in E, n \in dark' : Adjacent(t, n) => n \in E \cup ToSet(pending')
    BY <1>1, <1>13, <1>14, <1>20
  <2>4. Closed(Old)'
    BY <1>9, <1>18
  <2> QED  BY <1>12, <1>13, <1>14, <1>19, <2>1, <2>2, <2>3, <2>4 DEF Filling, BoxSoFar
<1>22. E \in SUBSET dark' /\ Old \in SUBSET dark' /\ visited' \subseteq dark'
  BY <1>1, <1>19
<1> QED  BY <1>2, <1>12, <1>13, <1>21, <1>22 DEF RegionInv

LEMMA BoxInGrid ==
  ASSUME NEW box \in Boxes, NEW D \in SUBSET Samples, Bounds(box, D)
  PROVE  /\ 0 <= box.minX /\ box.minX <= box.maxX /\ box.maxX <= GridWidth - 1
         /\ 0 <= box.minY /\ box.minY <= box.maxY /\ box.maxY <= GridHeight - 1
<1>1. \A t \in D : X(t) \in Int /\ Y(t) \in Int /\ 0 <= X(t) /\ X(t) <= GridWidth - 1
                   /\ 0 <= Y(t) /\ Y(t) <= GridHeight - 1
  BY PlaceOfSample, RegionAssumption DEF Columns, Rows
<1>2. PICK a \in Int, b \in Int, c \in Int, d \in Int :
        a = box.minX /\ b = box.maxX /\ c = box.minY /\ d = box.maxY
  BY DEF Boxes
<1>3. /\ \A t \in D : a <= X(t) /\ X(t) <= b /\ c <= Y(t) /\ Y(t) <= d
      /\ \E t \in D : X(t) = a
      /\ \E t \in D : X(t) = b
      /\ \E t \in D : Y(t) = c
      /\ \E t \in D : Y(t) = d
  BY <1>2 DEF Bounds
<1>4. a <= b /\ 0 <= a /\ b <= GridWidth - 1
  BY <1>1, <1>3
<1>5. c <= d /\ 0 <= c /\ d <= GridHeight - 1
  BY <1>1, <1>3
<1> QED  BY <1>2, <1>4, <1>5

LEMMA ClassifySteps == RegionInv /\ ClassifyPixels => RegionInv'
<1> SUFFICES ASSUME RegionInv, ClassifyPixels PROVE RegionInv'
  OBVIOUS
<1>1. /\ scan.at = "fill" /\ pending = <<>> /\ pending' = <<>> /\ scan \in Scans
      /\ Grid /\ visited \subseteq dark /\ dark' = dark /\ visited' = visited
      /\ pending \in Seq(Samples) /\ NoRepeats(pending)
      /\ \A r \in regions : Surrounded(r.box)
      /\ scan' = [scan EXCEPT !.at = "seek", !.seed = @ + 1]
      /\ regions' = IF Accepted(scan.count, scan.box)
                    THEN regions \cup {[count |-> scan.count, box |-> scan.box]}
                    ELSE regions
  BY DEF RegionInv, ClassifyPixels
<1>2. PICK D \in SUBSET dark, Old \in SUBSET dark : Filling(D, Old)
  BY <1>1 DEF RegionInv
<1>3. ToSet(pending) = {}
  BY <1>1 DEF ToSet
<1>4. /\ visited = Old \cup D /\ Old \cap D = {} /\ Closed(Old) /\ BoxSoFar(scan.box, D)
      /\ scan.seed \in D /\ \A t \in D, n \in dark : Adjacent(t, n) => n \in D
  BY <1>2, <1>3 DEF Filling
<1>5. Closed(visited)'
  BY <1>1, <1>4 DEF Closed
<1>6. Accepted(scan.count, scan.box) => Surrounded(scan.box)
  <2>1. SUFFICES ASSUME Accepted(scan.count, scan.box) PROVE Surrounded(scan.box)
    OBVIOUS
  <2>2. PICK box \in Boxes : box = scan.box
    BY <1>1 DEF Scans
  <2>3. Bounds(box, D)
    BY <1>4, <2>2 DEF BoxSoFar
  <2>4. /\ 0 <= box.minX /\ box.minX <= box.maxX /\ box.maxX <= GridWidth - 1
        /\ 0 <= box.minY /\ box.minY <= box.maxY /\ box.maxY <= GridHeight - 1
    BY <1>1, <2>3, BoxInGrid DEF Grid
  <2>5. /\ box.minX # 0 /\ box.minY # 0 /\ box.maxX # GridWidth - 1 /\ box.maxY # GridHeight - 1
        /\ Ring(box) # {} /\ 8 * Cardinality(Ring(box) \ dark) >= 5 * Cardinality(Ring(box))
    BY <2>1, <2>2 DEF Accepted, TouchesEdge
  <2>6. box.minX \in Int /\ box.maxX \in Int /\ box.minY \in Int /\ box.maxY \in Int
        /\ GridWidth \in Int /\ GridHeight \in Int
    BY RegionAssumption DEF Boxes
  <2>7. /\ 0 < box.minX /\ box.maxX < GridWidth - 1
        /\ 0 < box.minY /\ box.maxY < GridHeight - 1
    BY <2>4, <2>5, <2>6
  <2> QED  BY <2>2, <2>4, <2>5, <2>7 DEF Surrounded
<1>7. \A r \in regions' : Surrounded(r.box)'
  <2>1. \A box : Surrounded(box)' <=> Surrounded(box)
    BY <1>1 DEF Surrounded, Ring
  <2>2. \A r \in regions' : Surrounded(r.box)
    BY <1>1, <1>6
  <2> QED  BY <2>1, <2>2
<1>8. scan' \in Scans /\ scan'.at = "seek"
  <2>1. scan' = [at |-> "seek", seed |-> scan.seed + 1, count |-> scan.count, box |-> scan.box]
    BY <1>1 DEF Scans
  <2>2. scan.seed + 1 \in Nat /\ scan.count \in Nat /\ scan.box \in Boxes
    BY <1>1 DEF Scans
  <2> QED  BY <2>1, <2>2 DEF Scans
<1> QED  BY <1>1, <1>5, <1>7, <1>8 DEF RegionInv, Grid

LEMMA RegionStep == RegionInv /\ [RegionNext]_regionVars => RegionInv'
<1> SUFFICES ASSUME RegionInv, [RegionNext]_regionVars PROVE RegionInv'
  OBVIOUS
<1>1. CASE SeekSeed
  BY <1>1, SeekSteps
<1>2. CASE PopSample
  BY <1>2, PopSteps
<1>3. CASE ClassifyPixels
  BY <1>3, ClassifySteps
<1>4. CASE UNCHANGED regionVars
  <2>1. dark' = dark /\ visited' = visited /\ pending' = pending /\ scan' = scan /\ regions' = regions
    BY <1>4 DEF regionVars
  <2>2. \A S : Closed(S)' <=> Closed(S)
    BY <2>1 DEF Closed
  <2>3. \A box : Surrounded(box)' <=> Surrounded(box)
    BY <2>1 DEF Surrounded, Ring
  <2>4. \A D, Old : Filling(D, Old)' <=> Filling(D, Old)
    BY <2>1, <2>2 DEF Filling, BoxSoFar
  <2> QED  BY <2>1, <2>2, <2>3, <2>4 DEF RegionInv, Grid
<1> QED  BY <1>1, <1>2, <1>3, <1>4 DEF RegionNext, RegionsDone

\* A fill that ended has found the least closed set round its seed.
LEMMA RegionsFound == RegionInv => FillIsComponent
<1> SUFFICES ASSUME RegionInv, scan.at = "fill", pending = <<>>
             PROVE  scan.count = Cardinality(Component(scan.seed)) /\ scan.box = BoxOf(Component(scan.seed))
  BY DEF FillIsComponent
<1>1. PICK D \in SUBSET dark, Old \in SUBSET dark : Filling(D, Old)
  BY DEF RegionInv
<1>2. ToSet(pending) = {}
  BY DEF ToSet
<1>3. /\ scan.count = Cardinality(D) /\ BoxSoFar(scan.box, D)
      /\ scan.seed \in D /\ Closed(D)
      /\ \A T \in SUBSET dark : scan.seed \in T /\ Closed(T) => D \subseteq T
  BY <1>1, <1>2 DEF Filling, Closed
<1>4. Component(scan.seed) = D
  <2>1. \A T \in SUBSET D : scan.seed \in T /\ Closed(T) => T = D
    BY <1>3
  <2>2. ASSUME NEW S \in SUBSET dark, scan.seed \in S, Closed(S),
               \A T \in SUBSET S : scan.seed \in T /\ Closed(T) => T = S
        PROVE  S = D
    <3>1. D \in SUBSET S
      BY <1>3, <2>2
    <3> QED  BY <1>3, <2>2, <3>1
  <2>3. \A S \in SUBSET dark : (/\ scan.seed \in S /\ Closed(S)
                                /\ \A T \in SUBSET S : scan.seed \in T /\ Closed(T) => T = S) => S = D
    BY <2>2
  <2> QED  BY <1>3, <2>1, <2>3 DEF Component
<1>5. scan.box = BoxOf(D)
  <2>1. scan.box \in Boxes /\ D \in SUBSET Samples /\ Bounds(scan.box, D)
    BY <1>3 DEF RegionInv, Scans, Grid, BoxSoFar
  <2> QED  BY <2>1, BoxIsBoxOf
<1> QED  BY <1>3, <1>4, <1>5

LEMMA RegionsRinged == RegionInv => IslandsSurrounded
<1> SUFFICES ASSUME RegionInv, NEW r \in regions
             PROVE  /\ \E n \in Ring(r.box) : X(n) < r.box.minX
                    /\ \E n \in Ring(r.box) : X(n) > r.box.maxX
                    /\ \E n \in Ring(r.box) : Y(n) < r.box.minY
                    /\ \E n \in Ring(r.box) : Y(n) > r.box.maxY
                    /\ 2 * Cardinality(Ring(r.box) \ dark) >= Cardinality(Ring(r.box))
  BY DEF IslandsSurrounded
<1>1. PICK box \in Boxes : box = r.box /\ Surrounded(box)
  BY DEF RegionInv, Surrounded
<1>2. PICK a \in Int, b \in Int, c \in Int, d \in Int, W \in Int, H \in Int, R \in Nat :
        /\ a = box.minX /\ b = box.maxX /\ c = box.minY /\ d = box.maxY
        /\ W = GridWidth /\ H = GridHeight /\ R = RingRadius
  BY RegionAssumption DEF Boxes
<1>3. 0 < a /\ a <= b /\ b < W - 1 /\ 0 < c /\ c <= d /\ d < H - 1 /\ Ring(box) # {}
  BY <1>1, <1>2 DEF Surrounded
<1>4. \A n \in Samples :
        n \in Ring(box) <=> /\ ~(a <= X(n) /\ X(n) <= b /\ c <= Y(n) /\ Y(n) <= d)
                            /\ a - R <= X(n) /\ X(n) <= b + R /\ c - R <= Y(n) /\ Y(n) <= d + R
  BY <1>2 DEF Ring, InBox
<1>5. R > 0
  <2>1. SUFFICES ASSUME R = 0 PROVE FALSE
    OBVIOUS
  <2>2. PICK n \in Samples : n \in Ring(box)
    BY <1>3 DEF Ring
  <2>3. X(n) \in Int /\ Y(n) \in Int
    BY PlaceOfSample DEF Columns, Rows
  <2> QED  BY <1>4, <2>1, <2>2, <2>3
<1>6. \A x \in 0 .. W - 1, y \in 0 .. H - 1 : \E n \in Samples : X(n) = x /\ Y(n) = y
  BY <1>2, SampleAtPlace DEF Columns, Rows
<1>7. \E n \in Ring(box) : X(n) < a
  <2>1. PICK n \in Samples : X(n) = a - 1 /\ Y(n) = c
    BY <1>3, <1>6
  <2> QED  BY <1>3, <1>4, <1>5, <2>1
<1>8. \E n \in Ring(box) : X(n) > b
  <2>1. PICK n \in Samples : X(n) = b + 1 /\ Y(n) = c
    BY <1>3, <1>6
  <2> QED  BY <1>3, <1>4, <1>5, <2>1
<1>9. \E n \in Ring(box) : Y(n) < c
  <2>1. PICK n \in Samples : X(n) = a /\ Y(n) = c - 1
    BY <1>3, <1>6
  <2> QED  BY <1>3, <1>4, <1>5, <2>1
<1>10. \E n \in Ring(box) : Y(n) > d
  <2>1. PICK n \in Samples : X(n) = a /\ Y(n) = d + 1
    BY <1>3, <1>6
  <2> QED  BY <1>3, <1>4, <1>5, <2>1
<1>11. 2 * Cardinality(Ring(box) \ dark) >= Cardinality(Ring(box))
  <2>1. IsFiniteSet(Ring(box)) /\ IsFiniteSet(Ring(box) \ dark)
    BY SamplesCounted, FS_Subset DEF Ring
  <2>2. PICK m \in Nat, k \in Nat : m = Cardinality(Ring(box)) /\ k = Cardinality(Ring(box) \ dark)
    BY <2>1, FS_CardinalityType
  <2>3. 8 * k >= 5 * m
    BY <1>1, <2>2 DEF Surrounded
  <2>4. 2 * k >= m
    BY <2>3
  <2> QED  BY <2>2, <2>4
<1> QED  BY <1>1, <1>2, <1>7, <1>8, <1>9, <1>10, <1>11

-----------------------------------------------------------------------------
(* FramePower: the percentile.                                               *)

\* How many places of a series hold at most v, and how many hold v.
UpTo(s, n, v) == Cardinality({i \in 1 .. n : s[i] <= v})
Holding(s, n, v) == Cardinality({i \in 1 .. n : s[i] = v})

Numbers(s, n) == n \in Nat /\ \A i \in 1 .. n : s[i] \in Nat

LEMMA CountsSum ==
  ASSUME NEW s, NEW n, Numbers(s, n)
  PROVE  /\ \A v \in Int : UpTo(s, n, v) \in 0 .. n /\ Holding(s, n, v) \in 0 .. n
         /\ UpTo(s, n, -1) = 0
         /\ \A v \in Int : UpTo(s, n, v + 1) = UpTo(s, n, v) + Holding(s, n, v + 1)
         /\ \A v \in Int, w \in Int : v <= w => UpTo(s, n, v) <= UpTo(s, n, w)
         /\ \A i \in 1 .. n : UpTo(s, n, s[i]) >= 1
         /\ \A v \in Int : Holding(s, n, v) > 0 => \E i \in 1 .. n : s[i] = v
<1>0. n \in Nat /\ \A i \in 1 .. n : s[i] \in Nat
  BY DEF Numbers
<1>1. IsFiniteSet(1 .. n) /\ Cardinality(1 .. n) = n
  <2>1. IsFiniteSet(1 .. n) /\ Cardinality(1 .. n) = IF 1 > n THEN 0 ELSE n - 1 + 1
    BY <1>0, FS_Interval
  <2> QED  BY <1>0, <2>1
<1>2. \A S \in SUBSET (1 .. n) : IsFiniteSet(S) /\ Cardinality(S) \in 0 .. n
  <2>1. SUFFICES ASSUME NEW S \in SUBSET (1 .. n)
                 PROVE  IsFiniteSet(S) /\ Cardinality(S) \in 0 .. n
    OBVIOUS
  <2>2. IsFiniteSet(S) /\ Cardinality(S) <= n
    BY <1>1, FS_Subset
  <2> QED  BY <1>0, <2>2, FS_CardinalityType
<1>3. \A v \in Int : UpTo(s, n, v) \in 0 .. n /\ Holding(s, n, v) \in 0 .. n
  BY <1>2 DEF UpTo, Holding
<1>4. UpTo(s, n, -1) = 0
  <2>1. {i \in 1 .. n : s[i] <= -1} = {}
    BY <1>0
  <2> QED  BY <2>1, FS_EmptySet DEF UpTo
<1>5. ASSUME NEW v \in Int PROVE UpTo(s, n, v + 1) = UpTo(s, n, v) + Holding(s, n, v + 1)
  <2>1. PICK A \in SUBSET (1 .. n), B \in SUBSET (1 .. n) :
          A = {i \in 1 .. n : s[i] <= v} /\ B = {i \in 1 .. n : s[i] = v + 1}
    OBVIOUS
  <2>2. {i \in 1 .. n : s[i] <= v + 1} = A \cup B /\ A \cap B = {}
    BY <1>0, <2>1
  <2>3. Cardinality(A \cup B) = Cardinality(A) + Cardinality(B) - Cardinality({})
    BY <1>2, <2>2, FS_Union
  <2>4. Cardinality(A) \in Nat /\ Cardinality(B) \in Nat /\ Cardinality({}) = 0
    BY <1>2, FS_EmptySet
  <2>5. Cardinality(A \cup B) = Cardinality(A) + Cardinality(B)
    BY <2>3, <2>4
  <2> QED  BY <2>1, <2>2, <2>5 DEF UpTo, Holding
<1>6. ASSUME NEW v \in Int, NEW w \in Int, v <= w PROVE UpTo(s, n, v) <= UpTo(s, n, w)
  <2>1. PICK A \in SUBSET (1 .. n), B \in SUBSET (1 .. n) :
          A = {i \in 1 .. n : s[i] <= v} /\ B = {i \in 1 .. n : s[i] <= w}
    OBVIOUS
  <2>2. A \subseteq B
    BY <1>0, <1>6, <2>1
  <2>3. Cardinality(A) <= Cardinality(B)
    BY <1>2, <2>2, FS_Subset
  <2> QED  BY <2>1, <2>3 DEF UpTo
<1>7. ASSUME NEW i \in 1 .. n PROVE UpTo(s, n, s[i]) >= 1
  <2>1. PICK A \in SUBSET (1 .. n) : A = {j \in 1 .. n : s[j] <= s[i]}
    OBVIOUS
  <2>2. i \in A
    BY <1>0, <2>1
  <2>3. Cardinality(A) # 0 /\ Cardinality(A) \in Nat
    BY <1>2, <2>2, FS_EmptySet
  <2> QED  BY <2>1, <2>3 DEF UpTo
<1>8. ASSUME NEW v \in Int, Holding(s, n, v) > 0 PROVE \E i \in 1 .. n : s[i] = v
  <2>1. SUFFICES ASSUME \A i \in 1 .. n : s[i] # v PROVE FALSE
    OBVIOUS
  <2>2. {i \in 1 .. n : s[i] = v} = {}
    BY <2>1
  <2> QED  BY <1>8, <2>2, FS_EmptySet DEF Holding
<1> QED  BY <1>3, <1>4, <1>5, <1>6, <1>7, <1>8

\* Some number is above the whole series.
LEMMA SeriesBounded ==
  ASSUME NEW s, NEW n, Numbers(s, n)
  PROVE  \E b \in Nat : \A i \in 1 .. n : s[i] <= b
<1>0. n \in Nat /\ \A i \in 1 .. n : s[i] \in Nat
  BY DEF Numbers
<1>1. PICK U \in SUBSET (0 .. n) : U = {m \in 0 .. n : \E b \in Nat : \A i \in 1 .. m : s[i] <= b}
  OBVIOUS
<1>2. 0 \in U
  BY <1>0, <1>1
<1>3. ASSUME NEW m \in 0 .. n - 1, m \in U PROVE m + 1 \in U
  <2>1. PICK b \in Nat : \A i \in 1 .. m : s[i] <= b
    BY <1>1, <1>3
  <2>2. PICK c \in Nat : c = s[m + 1]
    BY <1>0
  <2>3. PICK d \in Nat : b <= d /\ c <= d
    OBVIOUS
  <2>4. \A i \in 1 .. m + 1 : i \in 1 .. m \/ i = m + 1
    OBVIOUS
  <2>5. \A i \in 1 .. m : s[i] <= d
    BY <1>0, <2>1, <2>3
  <2>6. \A i \in 1 .. m + 1 : s[i] <= d
    BY <2>2, <2>3, <2>4, <2>5
  <2> QED  BY <1>0, <1>1, <2>6
<1>4. n \in U
  <2>1. \A m \in 0 .. n : m \in U
    BY <1>0, <1>2, <1>3, Stepwise
  <2> QED  BY <1>0, <2>1
<1> QED  BY <1>0, <1>1, <1>4

\* What Ordered chooses from.
Sorting(s, n, t) ==
  /\ t \in [1 .. n -> {s[i] : i \in 1 .. n}]
  /\ \A i, j \in 1 .. n : i < j => t[i] <= t[j]
  /\ \A v \in Values : Holding(t, n, v) = Holding(s, n, v)

\* A series has a sorting: place i gets the least number that i places reach.
LEMMA SortingExists ==
  ASSUME NEW s, NEW n, Numbers(s, n)
  PROVE  \E t : Sorting(s, n, t)
<1>0. n \in Nat /\ \A i \in 1 .. n : s[i] \in Nat
  BY DEF Numbers
<1>1. PICK b \in Nat : \A i \in 1 .. n : s[i] <= b
  BY SeriesBounded
<1>2. UpTo(s, n, b) = n
  <2>1. {i \in 1 .. n : s[i] <= b} = 1 .. n
    BY <1>1
  <2>2. Cardinality(1 .. n) = IF 1 > n THEN 0 ELSE n - 1 + 1
    BY <1>0, FS_Interval
  <2>3. Cardinality(1 .. n) = n
    BY <1>0, <2>2
  <2> QED  BY <2>1, <2>3 DEF UpTo
<1>3. \A i \in 1 .. n : \E v \in Nat : UpTo(s, n, v) >= i /\ \A w \in Nat : UpTo(s, n, w) >= i => v <= w
  <2>1. SUFFICES ASSUME NEW i \in 1 .. n
                 PROVE  \E v \in Nat : UpTo(s, n, v) >= i /\ \A w \in Nat : UpTo(s, n, w) >= i => v <= w
    OBVIOUS
  <2>2. PICK S \in SUBSET Nat : S = {v \in Nat : UpTo(s, n, v) >= i}
    OBVIOUS
  <2>3. b \in S
    BY <1>0, <1>2, <2>2
  <2>4. PICK m \in S : \A k \in S : m <= k
    BY <2>3, LeastOf
  <2> QED  BY <2>2, <2>4
<1> DEFINE t == [i \in 1 .. n |-> CHOOSE v \in Nat : UpTo(s, n, v) >= i /\ \A w \in Nat : UpTo(s, n, w) >= i => v <= w]
<1>4. \A i \in 1 .. n : t[i] \in Nat /\ UpTo(s, n, t[i]) >= i /\ \A w \in Nat : UpTo(s, n, w) >= i => t[i] <= w
  BY <1>3
<1>5. t = [i \in 1 .. n |-> t[i]] /\ DOMAIN t = 1 .. n
  OBVIOUS
<1> HIDE DEF t
<1>6. \A v \in Int : UpTo(s, n, v) \in 0 .. n /\ Holding(s, n, v) \in 0 .. n
  BY CountsSum
<1>7. \A v \in Int, w \in Int : v <= w => UpTo(s, n, v) <= UpTo(s, n, w)
  BY CountsSum
<1>8. \A i \in 1 .. n, v \in Nat : t[i] <= v <=> i <= UpTo(s, n, v)
  <2>1. SUFFICES ASSUME NEW i \in 1 .. n, NEW v \in Nat PROVE t[i] <= v <=> i <= UpTo(s, n, v)
    OBVIOUS
  <2>2. PICK k \in Nat : k = t[i] /\ UpTo(s, n, k) >= i /\ (UpTo(s, n, v) >= i => k <= v)
    BY <1>4
  <2>3. k <= v => UpTo(s, n, k) <= UpTo(s, n, v)
    BY <1>7
  <2>4. PICK p \in Nat, q \in Nat : p = UpTo(s, n, k) /\ q = UpTo(s, n, v)
    BY <1>0, <1>6
  <2> QED  BY <2>2, <2>3, <2>4
<1>9. \A i, j \in 1 .. n : i < j => t[i] <= t[j]
  <2>1. SUFFICES ASSUME NEW i \in 1 .. n, NEW j \in 1 .. n, i < j PROVE t[i] <= t[j]
    OBVIOUS
  <2>2. t[j] \in Nat /\ j <= UpTo(s, n, t[j]) /\ UpTo(s, n, t[j]) \in Int
    BY <1>4, <1>6, <1>8
  <2>3. i <= UpTo(s, n, t[j])
    BY <2>1, <2>2
  <2> QED  BY <1>8, <2>2, <2>3
<1>10. \A i \in 1 .. n : t[i] \in {s[j] : j \in 1 .. n}
  <2>1. SUFFICES ASSUME NEW i \in 1 .. n PROVE \E j \in 1 .. n : s[j] = t[i]
    OBVIOUS
  <2>2. PICK k \in Nat : k = t[i] /\ i <= UpTo(s, n, k)
    BY <1>4, <1>8
  <2>3. i > UpTo(s, n, k - 1)
    <3>1. CASE k = 0
      BY <3>1, CountsSum
    <3>2. CASE k # 0
      <4>1. k - 1 \in Nat /\ ~(k <= k - 1)
        BY <3>2
      <4>2. ~(i <= UpTo(s, n, k - 1))
        BY <1>8, <2>2, <4>1
      <4>3. UpTo(s, n, k - 1) \in Int
        BY <1>6, <4>1
      <4> QED  BY <4>2, <4>3
    <3> QED  BY <3>1, <3>2
  <2>4. PICK p \in Nat, q \in Nat, h \in Nat :
          p = UpTo(s, n, k) /\ q = UpTo(s, n, k - 1) /\ h = Holding(s, n, k)
    BY <1>0, <1>6
  <2>5. UpTo(s, n, (k - 1) + 1) = UpTo(s, n, k - 1) + Holding(s, n, (k - 1) + 1)
    BY CountsSum
  <2>6. p = q + h
    <3>1. (k - 1) + 1 = k
      OBVIOUS
    <3> QED  BY <2>4, <2>5, <3>1
  <2>7. Holding(s, n, k) > 0
    BY <2>2, <2>3, <2>4, <2>6
  <2>8. \A v \in Int : Holding(s, n, v) > 0 => \E j \in 1 .. n : s[j] = v
    BY CountsSum
  <2>9. \E j \in 1 .. n : s[j] = k
    BY <2>7, <2>8
  <2> QED  BY <2>2, <2>9
<1>11. Numbers(t, n)
  BY <1>0, <1>4 DEF Numbers
<1>12. \A v \in Nat : UpTo(t, n, v) = UpTo(s, n, v)
  <2>1. SUFFICES ASSUME NEW v \in Nat PROVE UpTo(t, n, v) = UpTo(s, n, v)
    OBVIOUS
  <2>2. PICK p \in 0 .. n : p = UpTo(s, n, v)
    BY <1>6
  <2>3. {i \in 1 .. n : t[i] <= v} = 1 .. p
    BY <1>0, <1>8, <2>2
  <2>4. Cardinality(1 .. p) = IF 1 > p THEN 0 ELSE p - 1 + 1
    BY FS_Interval
  <2>5. Cardinality(1 .. p) = p
    BY <2>4
  <2> QED  BY <2>2, <2>3, <2>5 DEF UpTo
<1>13. \A v \in Nat : Holding(t, n, v) = Holding(s, n, v)
  <2>1. SUFFICES ASSUME NEW v \in Nat PROVE Holding(t, n, v) = Holding(s, n, v)
    OBVIOUS
  <2>2. UpTo(t, n, v - 1) = UpTo(s, n, v - 1)
    <3>1. CASE v = 0
      <4>1. UpTo(t, n, -1) = 0 /\ UpTo(s, n, -1) = 0
        BY <1>11, CountsSum
      <4>2. v - 1 = -1
        BY <3>1
      <4> QED  BY <4>1, <4>2
    <3>2. CASE v # 0
      BY <1>12, <3>2
    <3> QED  BY <3>1, <3>2
  <2>3. UpTo(t, n, v) = UpTo(s, n, v)
    BY <1>12
  <2>4. UpTo(s, n, (v - 1) + 1) = UpTo(s, n, v - 1) + Holding(s, n, (v - 1) + 1)
    BY CountsSum
  <2>5. UpTo(t, n, (v - 1) + 1) = UpTo(t, n, v - 1) + Holding(t, n, (v - 1) + 1)
    BY <1>11, CountsSum
  <2>6. (v - 1) + 1 = v
    OBVIOUS
  <2>7. PICK p \in Int, q \in Int, h \in Int, g \in Int :
          /\ p = UpTo(s, n, v) /\ q = UpTo(s, n, v - 1) /\ h = Holding(s, n, v)
          /\ g = Holding(t, n, v)
    <3>1. \A w \in Int : Holding(t, n, w) \in 0 .. n
      BY <1>11, CountsSum
    <3>2. v \in Int /\ v - 1 \in Int
      OBVIOUS
    <3>3. \A w \in Int : UpTo(s, n, w) \in Int /\ Holding(s, n, w) \in Int
      BY <1>0, <1>6
    <3>4. Holding(t, n, v) \in Int
      BY <1>0, <3>1, <3>2
    <3> QED  BY <3>2, <3>3, <3>4
  <2> QED  BY <2>2, <2>3, <2>4, <2>5, <2>6, <2>7
<1>14. Sorting(s, n, t)
  BY <1>5, <1>9, <1>10, <1>13, PowerAssumption DEF Sorting
<1> QED  BY <1>14

\* Two series that hold every number alike hold as many up to each number.
LEMMA SameUpTo ==
  ASSUME NEW s, NEW n, Numbers(s, n), \A i \in 1 .. n : s[i] \in Values, NEW t, Sorting(s, n, t)
  PROVE  Numbers(t, n) /\ \A v \in Nat : UpTo(t, n, v) = UpTo(s, n, v)
<1>1. \A i \in 1 .. n : t[i] \in {s[j] : j \in 1 .. n}
  BY DEF Sorting
<1>2. \A i \in 1 .. n : t[i] \in Values /\ t[i] \in Nat /\ s[i] \in Nat
  BY <1>1, PowerAssumption
<1>3. Numbers(t, n)
  BY <1>2 DEF Numbers
<1>4. \A v \in Int : Holding(t, n, v) = Holding(s, n, v)
  <2>1. SUFFICES ASSUME NEW v \in Int PROVE Holding(t, n, v) = Holding(s, n, v)
    OBVIOUS
  <2>2. CASE v \in Values
    BY <2>2 DEF Sorting
  <2>3. CASE v \notin Values
    <3>1. {i \in 1 .. n : t[i] = v} = {i \in 1 .. n : s[i] = v}
      BY <1>2, <2>3
    <3> QED  BY <3>1 DEF Holding
  <2> QED  BY <2>2, <2>3
<1>5. SUFFICES ASSUME NEW v \in Nat PROVE UpTo(t, n, v) = UpTo(s, n, v)
  BY <1>3
<1>6. PICK U \in SUBSET (0 .. v + 1) : U = {k \in 0 .. v + 1 : UpTo(t, n, k - 1) = UpTo(s, n, k - 1)}
  OBVIOUS
<1>7. 0 \in U
  <2>1. 0 - 1 = -1
    OBVIOUS
  <2>2. UpTo(t, n, -1) = 0 /\ UpTo(s, n, -1) = 0
    BY <1>3, CountsSum
  <2> QED  BY <1>6, <2>1, <2>2
<1>8. ASSUME NEW k \in 0 .. v, k \in U PROVE k + 1 \in U
  <2>1. UpTo(s, n, (k - 1) + 1) = UpTo(s, n, k - 1) + Holding(s, n, (k - 1) + 1)
    BY CountsSum
  <2>2. UpTo(t, n, (k - 1) + 1) = UpTo(t, n, k - 1) + Holding(t, n, (k - 1) + 1)
    BY <1>3, CountsSum
  <2>3. UpTo(t, n, k - 1) = UpTo(s, n, k - 1)
    BY <1>6, <1>8
  <2>4. (k - 1) + 1 = (k + 1) - 1 /\ (k - 1) + 1 \in Int
    OBVIOUS
  <2>5. UpTo(t, n, (k + 1) - 1) = UpTo(s, n, (k + 1) - 1)
    BY <1>4, <2>1, <2>2, <2>3, <2>4
  <2> QED  BY <1>6, <2>5
<1>9. \A k \in 0 .. v + 1 : k \in U
  <2>1. PICK N \in Nat : N = v + 1
    OBVIOUS
  <2>2. \A k \in 0 .. N - 1 : k \in U => k + 1 \in U
    BY <1>8, <2>1
  <2> QED  BY <1>7, <2>1, <2>2, Stepwise
<1>10. v + 1 \in U /\ (v + 1) - 1 = v
  BY <1>9
<1> QED  BY <1>6, <1>10

\* In a sorted series, k places hold at most what place k holds, and fewer
\* than k hold less.
LEMMA SortedPlaces ==
  ASSUME NEW t, NEW n, Numbers(t, n), \A i, j \in 1 .. n : i < j => t[i] <= t[j], NEW k \in 1 .. n
  PROVE  /\ UpTo(t, n, t[k]) >= k
         /\ \A v \in Nat : v < t[k] => UpTo(t, n, v) <= k - 1
<1>0. n \in Nat /\ \A i \in 1 .. n : t[i] \in Nat
  BY DEF Numbers
<1>1. \A m \in Nat : IsFiniteSet(1 .. m) /\ Cardinality(1 .. m) = m
  <2>1. SUFFICES ASSUME NEW m \in Nat PROVE IsFiniteSet(1 .. m) /\ Cardinality(1 .. m) = m
    OBVIOUS
  <2>2. IsFiniteSet(1 .. m) /\ Cardinality(1 .. m) = IF 1 > m THEN 0 ELSE m - 1 + 1
    BY FS_Interval
  <2> QED  BY <2>2
<1>2. \A S \in SUBSET (1 .. n) : IsFiniteSet(S) /\ Cardinality(S) \in Nat
  BY <1>0, <1>1, FS_Subset, FS_CardinalityType
<1>3. UpTo(t, n, t[k]) >= k
  <2>1. PICK S \in SUBSET (1 .. n) : S = {i \in 1 .. n : t[i] <= t[k]}
    OBVIOUS
  <2>2. \A i \in 1 .. k : i \in 1 .. n /\ (i < k \/ i = k)
    BY <1>0
  <2>3. 1 .. k \subseteq S
    BY <1>0, <2>1, <2>2
  <2>4. Cardinality(1 .. k) <= Cardinality(S)
    BY <1>2, <2>3, FS_Subset
  <2>5. Cardinality(1 .. k) = k
    BY <1>1
  <2>6. Cardinality(S) \in Nat
    BY <1>2
  <2> QED  BY <2>1, <2>4, <2>5, <2>6 DEF UpTo
<1>4. ASSUME NEW v \in Nat, v < t[k] PROVE UpTo(t, n, v) <= k - 1
  <2>1. PICK S \in SUBSET (1 .. n) : S = {i \in 1 .. n : t[i] <= v}
    OBVIOUS
  <2>2. \A i \in 1 .. n : i < k \/ i = k \/ k < i
    BY <1>0
  <2>3. \A i \in S : i < k
    BY <1>0, <1>4, <2>1, <2>2
  <2>4. PICK m \in Nat : m = k - 1
    BY <1>0
  <2>5. S \subseteq 1 .. m
    BY <2>3, <2>4
  <2>6. Cardinality(S) <= Cardinality(1 .. m)
    BY <1>1, <2>5, FS_Subset
  <2>7. Cardinality(S) <= m
    BY <1>1, <2>6
  <2> QED  BY <2>1, <2>4, <2>7 DEF UpTo
<1> QED  BY <1>3, <1>4

\* The rank is the least that covers the asked share of the places.
LEMMA RankCovers ==
  ASSUME NEW n \in Nat, n > 0, NEW f \in Fractions
  PROVE  /\ Rank(n, f) + 1 \in 1 .. n
         /\ 100 * (Rank(n, f) + 1) >= f * n
         /\ Rank(n, f) + 1 > 1 => 100 * Rank(n, f) < f * n
<1>1. PICK p \in Nat : p = n * f /\ p = f * n /\ p <= 100 * n
  BY DEF Fractions
<1>2. PICK q \in Int : q = (p + 99) \div 100 /\ 100 * q <= p + 99 /\ p + 99 < 100 * q + 100
  OBVIOUS
<1>3. q >= 0 /\ q <= n
  BY <1>1, <1>2
<1>4. Rank(n, f) = IF q = 0 THEN 0 ELSE q - 1
  BY <1>1, <1>2, <1>3 DEF Rank
<1>5. CASE q = 0
  BY <1>1, <1>2, <1>4, <1>5
<1>6. CASE q # 0
  <2>1. Rank(n, f) = q - 1
    BY <1>4, <1>6
  <2>2. q \in 1 .. n /\ 100 * q >= p /\ 100 * (q - 1) < p
    BY <1>2, <1>3, <1>6
  <2>3. (q - 1) + 1 = q
    OBVIOUS
  <2> QED  BY <1>1, <2>1, <2>2, <2>3
<1> QED  BY <1>5, <1>6

\* What a summarized series carries is its nearest-rank percentile.
NearestRank(s, n, f, v) ==
  /\ 100 * UpTo(s, n, v) >= f * n
  /\ \A i \in 1 .. n : 100 * UpTo(s, n, s[i]) >= f * n => v <= s[i]

LEMMA PercentileIs ==
  ASSUME NEW n \in Nat, n > 0, NEW s \in [1 .. n -> Values], NEW f \in Fractions
  PROVE  NearestRank(s, n, f, percentile(s, f))
<1>0. Numbers(s, n) /\ (\A i \in 1 .. n : s[i] \in Values) /\ Len(s) = n
  <2>1. s \in Seq(Values) /\ Len(s) = n
    OBVIOUS
  <2> QED  BY <2>1, PowerAssumption DEF Numbers
<1>1. PICK t : t = Ordered(s)
  OBVIOUS
<1>2. Sorting(s, n, t)
  <2>1. Ordered(s) = CHOOSE u : Sorting(s, n, u)
    <3>1. \A u : u \in [1..Len(s) -> {s[i] : i \in 1..Len(s)}] /\
                 (/\ \A i, j \in 1..Len(s) : i < j => u[i] <= u[j]
                  /\ \A v \in Values : Cardinality({i \in 1..Len(s) : u[i] = v})
                               = Cardinality({i \in 1..Len(s) : s[i] = v}))
                 <=> Sorting(s, n, u)
      BY <1>0 DEF Sorting, Holding
    <3> QED  BY <3>1 DEF Ordered
  <2>2. \E u : Sorting(s, n, u)
    BY <1>0, SortingExists
  <2> QED  BY <1>1, <2>1, <2>2
<1>3. Numbers(t, n) /\ \A v \in Nat : UpTo(t, n, v) = UpTo(s, n, v)
  BY <1>0, <1>2, SameUpTo
<1>4. PICK k \in 1 .. n : k = Rank(n, f) + 1 /\ 100 * k >= f * n /\ (k > 1 => 100 * (k - 1) < f * n)
  <2>1. Rank(n, f) \in Int
    BY DEF Rank, Fractions
  <2>2. /\ Rank(n, f) + 1 \in 1 .. n
        /\ 100 * (Rank(n, f) + 1) >= f * n
        /\ Rank(n, f) + 1 > 1 => 100 * Rank(n, f) < f * n
    BY RankCovers
  <2>3. (Rank(n, f) + 1) - 1 = Rank(n, f)
    BY <2>1
  <2> QED  BY <2>2, <2>3
<1>5. PICK v \in Nat : v = t[k] /\ v = percentile(s, f)
  BY <1>0, <1>1, <1>3, <1>4 DEF percentile, Numbers
<1>6. UpTo(t, n, v) >= k /\ \A w \in Nat : w < v => UpTo(t, n, w) <= k - 1
  BY <1>2, <1>3, <1>5, SortedPlaces DEF Sorting
<1>7. PICK p \in Nat : p = f * n
  BY DEF Fractions
<1>8. \A w \in Nat : UpTo(s, n, w) \in Nat
  <2>1. \A w \in Int : UpTo(s, n, w) \in 0 .. n
    BY <1>0, CountsSum
  <2> QED  BY <2>1
<1>9. 100 * UpTo(s, n, v) >= p
  BY <1>3, <1>4, <1>6, <1>7, <1>8
<1>10. ASSUME NEW i \in 1 .. n, 100 * UpTo(s, n, s[i]) >= p PROVE v <= s[i]
  <2>1. PICK w \in Nat : w = s[i] /\ UpTo(s, n, w) >= 1
    BY <1>0, CountsSum DEF Numbers
  <2>2. SUFFICES ASSUME w < v PROVE FALSE
    BY <2>1
  <2>3. PICK c \in Nat : c = UpTo(s, n, w) /\ c <= k - 1 /\ c >= 1 /\ 100 * c >= p
    BY <1>3, <1>6, <1>8, <1>10, <2>1, <2>2
  <2>4. 100 * (k - 1) < p
    BY <1>4, <1>7, <2>3
  <2> QED  BY <2>3, <2>4
<1> QED  BY <1>5, <1>7, <1>9, <1>10 DEF NearestRank

-----------------------------------------------------------------------------
(* StrayCounters: the timing window.                                         *)
Sums(c, N, g) ==
  /\ g[0] = 0 /\ \A n \in 0 .. N : g[n] \in Nat
  /\ \A n \in 0 .. N - 1 : g[n + 1] = g[n] + c[n + 1]

LEMMA TotalSums ==
  ASSUME NEW c \in Seq(Nat)
  PROVE  Sums(c, Len(c), Total(c))
<1>0. PICK N \in Nat : N = Len(c) /\ \A i \in 1 .. N : c[i] \in Nat
  OBVIOUS
<1> DEFINE Upto(n, g) == g[0] = 0 /\ \A i \in Nat : i < n => g[i + 1] = g[i] + c[i + 1]
<1> DEFINE Has(n) == \E g \in [0 .. n -> Nat] : Upto(n, g)
<1> DEFINE U == {n \in 0 .. N : Has(n)}
<1>1. 0 \in U
  <2>1. PICK g : g = [i \in 0 .. 0 |-> 0]
    OBVIOUS
  <2>2. g \in [0 .. 0 -> Nat] /\ Upto(0, g)
    <3>1. \A i \in Nat : ~(i < 0)
      OBVIOUS
    <3>2. g \in [0 .. 0 -> Nat] /\ g[0] = 0
      BY <2>1
    <3> QED  BY <3>1, <3>2
  <2>3. Has(0)
    BY <2>2
  <2> HIDE DEF Has
  <2> QED  BY <2>3
<1>2. ASSUME NEW n \in 0 .. N - 1, n \in U PROVE n + 1 \in U
  <2>1. PICK g \in [0 .. n -> Nat] : Upto(n, g)
    BY <1>2
  <2>2. PICK x \in Nat : x = g[n] + c[n + 1]
    <3>1. c[n + 1] \in Nat /\ g[n] \in Nat
      BY <1>0
    <3> QED  BY <3>1
  <2>3. PICK h : h = [i \in 0 .. n + 1 |-> IF i = n + 1 THEN x ELSE g[i]]
    OBVIOUS
  <2>4. h \in [0 .. n + 1 -> Nat]
    <3>1. \A i \in 0 .. n + 1 : i = n + 1 \/ i \in 0 .. n
      OBVIOUS
    <3> QED  BY <2>2, <2>3, <3>1
  <2>5. h[0] = 0
    BY <2>1, <2>3
  <2>6. ASSUME NEW i \in Nat, i < n + 1 PROVE h[i + 1] = h[i] + c[i + 1]
    <3>1. i \in 0 .. n + 1 /\ i + 1 \in 0 .. n + 1 /\ i # n + 1
      BY <2>6
    <3>2. h[i] = g[i] /\ h[i + 1] = IF i = n THEN x ELSE g[i + 1]
      BY <2>3, <3>1
    <3>3. i # n => i < n
      BY <2>6
    <3> QED  BY <2>1, <2>2, <3>2, <3>3
  <2>7. Has(n + 1)
    BY <2>4, <2>5, <2>6
  <2> HIDE DEF Has
  <2> QED  BY <2>7
<1>3. PICK g \in [0 .. N -> Nat] : Upto(N, g)
  <2>1. U \in SUBSET (0 .. N)
    OBVIOUS
  <2> HIDE DEF U
  <2>2. \A n \in 0 .. N : n \in U
    BY <1>1, <1>2, <2>1, Stepwise
  <2>3. N \in U
    BY <2>2
  <2> QED  BY <2>3 DEF U
<1> DEFINE IsTotal(f) == f = [n \in 0 .. Len(c) |-> IF n = 0 THEN 0 ELSE f[n - 1] + c[n]]
<1>4. IsTotal(g)
  <2>1. ASSUME NEW n \in 0 .. N PROVE g[n] = IF n = 0 THEN 0 ELSE g[n - 1] + c[n]
    <3>1. CASE n = 0
      BY <1>3, <3>1
    <3>2. CASE n # 0
      <4>1. n - 1 \in Nat /\ n - 1 < N /\ n - 1 + 1 = n
        BY <3>2
      <4> QED  BY <1>3, <3>2, <4>1
    <3> QED  BY <3>1, <3>2
  <2>2. g = [n \in 0 .. N |-> g[n]]
    OBVIOUS
  <2> QED  BY <1>0, <2>1, <2>2
<1>5. PICK f : f = Total(c)
  OBVIOUS
<1>6. IsTotal(f)
  <2>1. f = CHOOSE x : IsTotal(x)
    BY <1>5 DEF Total
  <2> HIDE DEF IsTotal
  <2> QED  BY <1>4, <2>1
<1>7. \A n \in 0 .. N : f[n] = IF n = 0 THEN 0 ELSE f[n - 1] + c[n]
  BY <1>0, <1>6
<1> HIDE DEF IsTotal
<1>8. ASSUME NEW n \in 0 .. N - 1 PROVE f[n + 1] = f[n] + c[n + 1]
  <2>1. n + 1 \in 0 .. N /\ n + 1 # 0 /\ (n + 1) - 1 = n
    OBVIOUS
  <2>2. f[n + 1] = f[(n + 1) - 1] + c[n + 1]
    BY <1>7, <2>1
  <2> QED  BY <2>1, <2>2
<1>9. f[0] = 0
  BY <1>7
<1>10. \A n \in 0 .. N : f[n] \in Nat
  <2>1. PICK V \in SUBSET (0 .. N) : V = {n \in 0 .. N : f[n] \in Nat}
    OBVIOUS
  <2>2. 0 \in V
    BY <1>9, <2>1
  <2>3. ASSUME NEW n \in 0 .. N - 1, n \in V PROVE n + 1 \in V
    <3>1. n + 1 \in 1 .. N /\ n + 1 \in 0 .. N
      OBVIOUS
    <3>2. f[n] \in Nat /\ c[n + 1] \in Nat
      BY <1>0, <2>1, <2>3, <3>1
    <3>3. f[n + 1] \in Nat
      BY <1>8, <3>2
    <3> QED  BY <2>1, <3>1, <3>3
  <2>4. \A n \in 0 .. N : n \in V
    BY <2>2, <2>3, Stepwise
  <2> QED  BY <2>1, <2>4
<1> QED  BY <1>0, <1>5, <1>8, <1>9, <1>10 DEF Sums

\* The totals of a part are the differences of the totals of the whole.
LEMMA TotalOfPart ==
  ASSUME NEW c \in Seq(Nat), NEW a \in Nat, NEW k \in Nat, a + k <= Len(c)
  PROVE  Total(c)[a + k] = Total(c)[a] + Total(SubSeq(c, a + 1, a + k))[k]
<1>0. PICK N \in Nat : N = Len(c) /\ \A i \in 1 .. N : c[i] \in Nat
  OBVIOUS
<1>a. \A i \in a + 1 .. a + k : c[i] \in Nat
  BY <1>0
<1>b. /\ SubSeq(c, a + 1, a + k) \in Seq(Nat)
      /\ Len(SubSeq(c, a + 1, a + k)) = k
      /\ \A i \in 1 .. k : SubSeq(c, a + 1, a + k)[i] = c[a + i]
  <2>1. a + 1 \in Int /\ a + k \in Int
    OBVIOUS
  <2>2. /\ SubSeq(c, a + 1, a + k) \in Seq(Nat)
        /\ Len(SubSeq(c, a + 1, a + k)) = IF a + 1 <= a + k THEN (a + k) - (a + 1) + 1 ELSE 0
        /\ \A i \in 1 .. (a + k) - (a + 1) + 1 : SubSeq(c, a + 1, a + k)[i] = c[(a + 1) + i - 1]
    BY <1>a, <2>1, SubSeqProperties
  <2>3. (a + k) - (a + 1) + 1 = k /\ (IF a + 1 <= a + k THEN (a + k) - (a + 1) + 1 ELSE 0) = k
    OBVIOUS
  <2>4. \A i \in 1 .. k : (a + 1) + i - 1 = a + i
    OBVIOUS
  <2> QED  BY <2>2, <2>3, <2>4
<1>1. PICK s \in Seq(Nat) : s = SubSeq(c, a + 1, a + k) /\ Len(s) = k /\ \A i \in 1 .. k : s[i] = c[a + i]
  BY <1>b
<1>2. PICK f, g : f = Total(c) /\ g = Total(s)
  OBVIOUS
<1>3. Sums(c, N, f) /\ Sums(s, k, g)
  BY <1>0, <1>1, <1>2, TotalSums
<1>4. PICK U \in SUBSET (0 .. k) : U = {n \in 0 .. k : f[a + n] = f[a] + g[n]}
  OBVIOUS
<1>5. 0 \in U
  <2>1. a \in 0 .. N /\ a + 0 = a
    BY <1>0
  <2>2. f[a] \in Nat /\ g[0] = 0
    BY <1>3, <2>1 DEF Sums
  <2>3. f[a + 0] = f[a] + g[0]
    BY <2>1, <2>2
  <2> QED  BY <1>4, <2>3
<1>6. ASSUME NEW n \in 0 .. k - 1, n \in U PROVE n + 1 \in U
  <2>1. a + n \in 0 .. N - 1 /\ (a + n) + 1 = a + (n + 1) /\ n + 1 \in 1 .. k /\ a \in 0 .. N
        /\ a + (n + 1) \in 1 .. N /\ n + 1 \in 0 .. k /\ n \in 0 .. k
    BY <1>0
  <2>2. f[(a + n) + 1] = f[a + n] + c[(a + n) + 1]
    BY <1>3, <2>1 DEF Sums
  <2>3. g[n + 1] = g[n] + s[n + 1]
    BY <1>3 DEF Sums
  <2>4. s[n + 1] = c[a + (n + 1)]
    BY <1>1, <2>1
  <2>5. f[a + n] = f[a] + g[n]
    BY <1>4, <1>6
  <2>6. PICK x \in Nat, y \in Nat, z \in Nat : x = f[a] /\ y = g[n] /\ z = c[a + (n + 1)]
    BY <1>0, <1>3, <2>1 DEF Sums
  <2>7. f[a + (n + 1)] = x + y + z /\ g[n + 1] = y + z
    BY <2>1, <2>2, <2>3, <2>4, <2>5, <2>6
  <2>8. f[a + (n + 1)] = f[a] + g[n + 1]
    BY <2>6, <2>7
  <2> QED  BY <1>4, <2>1, <2>8
<1>7. \A n \in 0 .. k : n \in U
  BY <1>5, <1>6, Stepwise
<1>8. k \in U
  BY <1>7
<1> QED  BY <1>1, <1>2, <1>4, <1>8

\* The records are the reported counts in rising order with their totals.
RecordsAre(records, c, reported) ==
  /\ records \in Seq([count : Nat, total : Nat])
  /\ \A i \in DOMAIN records : records[i].count \in reported /\ records[i].total = Total(c)[records[i].count]
  /\ \A r \in reported : \E i \in DOMAIN records : records[i].count = r
  /\ \A i, j \in DOMAIN records : i < j => records[i].count < records[j].count

LEMMA RecordsFound ==
  ASSUME NEW t, t.costs \in Seq(Nat), t.reported \subseteq 1 .. Len(t.costs)
  PROVE  RecordsAre(Records(t), t.costs, t.reported)
<1>0. PICK c \in Seq(Nat), N \in Nat : c = t.costs /\ N = Len(c)
  OBVIOUS
<1>1. PICK A \in SUBSET (1 .. N) : c = t.costs /\ N = Len(c) /\ A = t.reported
  BY <1>0
<1>2. PICK f : f = Total(c) /\ \A n \in 0 .. N : f[n] \in Nat
  BY <1>1, TotalSums DEF Sums
<1>3. PICK T : T = [count : Nat, total : Nat]
  OBVIOUS
<1>4. \A n \in 1 .. N : [count |-> n, total |-> f[n]] \in T
  BY <1>2, <1>3
<1>5. PICK p : p = [n \in 1 .. N |-> IF n \in A THEN <<[count |-> n, total |-> f[n]]>> ELSE <<>>]
  OBVIOUS
<1>6. p \in Seq(Seq(T)) /\ DOMAIN p = 1 .. N
  <2>1. \A x \in T : <<x>> \in Seq(T)
    OBVIOUS
  <2>2. <<>> \in Seq(T)
    OBVIOUS
  <2>3. p \in [1 .. N -> Seq(T)]
    BY <1>4, <1>5, <2>1, <2>2
  <2> QED  BY <2>3
<1>7. PICK r : r = FlattenSeq(p) /\ r = Records(t)
  BY <1>1, <1>2, <1>5 DEF Records
<1>8. \A k \in 1 .. N : \A j \in DOMAIN p[k] : j = 1 /\ k \in A /\ p[k][j].count = k /\ p[k][j].total = f[k]
  <2>1. \A x : DOMAIN <<x>> = {1} /\ <<x>>[1] = x
    OBVIOUS
  <2>2. DOMAIN <<>> = {}
    OBVIOUS
  <2>3. \A n \in 1 .. N : [count |-> n, total |-> f[n]].count = n /\ [count |-> n, total |-> f[n]].total = f[n]
    OBVIOUS
  <2> QED  BY <1>5, <2>1, <2>2, <2>3
<1>9. \A k \in A : 1 \in DOMAIN p[k]
  <2>1. \A x : DOMAIN <<x>> = {1}
    OBVIOUS
  <2> QED  BY <1>1, <1>5, <2>1
<1>10. /\ r \in Seq(T)
       /\ \A i \in DOMAIN r : \E k \in DOMAIN p : \E j \in DOMAIN p[k] : r[i] = p[k][j]
       /\ \A k \in DOMAIN p : \A j \in DOMAIN p[k] : \E i \in DOMAIN r : r[i] = p[k][j]
  <2>1. r \in Seq(T) /\ Drawn(p, r)
    BY <1>6, <1>7, FlattenElements
  <2> QED  BY <2>1 DEF Drawn
<1>11. \A i \in DOMAIN r : r[i].count \in A /\ r[i].total = f[r[i].count]
  BY <1>6, <1>8, <1>10
<1>12. \A k \in A : \E i \in DOMAIN r : r[i].count = k
  <2>1. SUFFICES ASSUME NEW k \in A PROVE \E i \in DOMAIN r : r[i].count = k
    OBVIOUS
  <2>2. k \in DOMAIN p /\ k \in 1 .. N /\ 1 \in DOMAIN p[k]
    BY <1>6, <1>9
  <2>3. PICK i \in DOMAIN r : r[i] = p[k][1]
    BY <1>10, <2>2
  <2> QED  BY <1>8, <2>2, <2>3
<1>13. PICK R : R = {x \in T \X T : x[1].count < x[2].count}
  OBVIOUS
<1>14. PiecesInOrder(R, p)
  <2>1. \A k \in 1 .. N : \A j \in DOMAIN p[k] : p[k][j] \in T
    BY <1>6
  <2>2. \A k \in DOMAIN p : InOrder(R, p[k])
    BY <1>6, <1>8 DEF InOrder
  <2>3. \A k, l \in DOMAIN p : k < l =>
          \A i \in DOMAIN p[k], j \in DOMAIN p[l] : <<p[k][i], p[l][j]>> \in R
    <3>1. SUFFICES ASSUME NEW k \in 1 .. N, NEW l \in 1 .. N, k < l, NEW i \in DOMAIN p[k], NEW j \in DOMAIN p[l]
                   PROVE  <<p[k][i], p[l][j]>> \in R
      BY <1>6
    <3>2. PICK a \in T, b \in T : a = p[k][i] /\ b = p[l][j] /\ a.count = k /\ b.count = l
      BY <1>8, <2>1
    <3>a. <<a, b>> \in T \X T /\ <<a, b>>[1] = a /\ <<a, b>>[2] = b
      OBVIOUS
    <3>3. <<a, b>> \in R
      BY <1>13, <3>1, <3>2, <3>a
    <3> QED  BY <3>2, <3>3
  <2> QED  BY <2>2, <2>3 DEF PiecesInOrder
<1>15. InOrder(R, r)
  BY <1>6, <1>7, <1>14, FlattenInOrder
<1>16. \A i, j \in DOMAIN r : i < j => r[i].count < r[j].count
  <2>0. \A a, b : <<a, b>>[1] = a /\ <<a, b>>[2] = b
    OBVIOUS
  <2>1. \A a, b : <<a, b>> \in R => a.count < b.count
    BY <1>13, <2>0
  <2> QED  BY <1>15, <2>1 DEF InOrder
<1> QED  BY <1>1, <1>2, <1>3, <1>7, <1>10, <1>11, <1>12, <1>16 DEF RecordsAre

TimingInv ==
  /\ DOMAIN timing = {"costs", "reported", "floor", "done", "window"}
  /\ timing.costs \in Seq(Nat) /\ timing.reported \subseteq 1 .. Len(timing.costs)
  /\ timing.floor \in Nat
  /\ timing.done => timing.window = cumulative_timing_window(Records(timing), timing.floor)

LEMMA TimingStarts == TimingInit => TimingInv
<1> SUFFICES ASSUME TimingInit PROVE TimingInv
  OBVIOUS
<1>1. PICK n \in 0 .. MaxEvents : \E c \in [1 .. n -> {1, 3}], r \in SUBSET (1 .. n), f \in 0 .. n :
        timing = [costs |-> c, reported |-> r, floor |-> f, done |-> FALSE,
                  window |-> [count |-> 0, total |-> 0, from |-> 0]]
  BY DEF TimingInit
<1>2. PICK c \in [1 .. n -> {1, 3}], r \in SUBSET (1 .. n), f \in 0 .. n :
        timing = [costs |-> c, reported |-> r, floor |-> f, done |-> FALSE,
                  window |-> [count |-> 0, total |-> 0, from |-> 0]]
  BY <1>1
<1>3. n \in Nat /\ c \in Seq(Nat) /\ Len(c) = n
  BY CounterAssumption
<1> QED  BY <1>2, <1>3 DEF TimingInv

LEMMA TimingStep == TimingInv /\ (ReadWindow \/ UNCHANGED timing) => TimingInv'
<1>1. CASE UNCHANGED timing
  <2>1. Records(timing)' = Records(timing)
    BY <1>1 DEF Records
  <2> QED  BY <1>1, <2>1 DEF TimingInv, cumulative_timing_window, BaselineAt
<1>2. SUFFICES ASSUME TimingInv, ReadWindow PROVE TimingInv'
  BY <1>1
<1>3. /\ DOMAIN timing' = DOMAIN timing /\ timing'.costs = timing.costs /\ timing'.reported = timing.reported
      /\ timing'.floor = timing.floor
      /\ timing'.window = cumulative_timing_window(Records(timing), timing.floor)
  BY <1>2 DEF ReadWindow, TimingInv
<1>4. Records(timing') = Records(timing)
  BY <1>3 DEF Records
<1> QED  BY <1>2, <1>3, <1>4 DEF TimingInv

LEMMA WindowFound == TimingInv => TimingWindowExact
<1> SUFFICES ASSUME TimingInv, timing.done, timing.window.count > 0 PROVE TimingWindowExact
  BY DEF TimingWindowExact
<1>0. PICK w : w = timing.window
  OBVIOUS
<1>1. PICK c \in Seq(Nat), N \in Nat, floor \in Nat :
        /\ c = timing.costs /\ N = Len(c) /\ floor = timing.floor /\ w = timing.window
  BY <1>0 DEF TimingInv
<1>2. PICK A \in SUBSET (1 .. N) : A = timing.reported
  BY <1>1 DEF TimingInv
<1>3. PICK f : f = Total(c) /\ \A n \in 0 .. N : f[n] \in Nat
  BY <1>1, TotalSums DEF Sums
<1>4. PICK R : R = Records(timing) /\ RecordsAre(R, c, A)
  BY <1>1, <1>2, RecordsFound DEF TimingInv
<1>5. /\ R \in Seq([count : Nat, total : Nat])
      /\ \A i \in DOMAIN R : R[i].count \in A /\ R[i].total = f[R[i].count]
      /\ \A r \in A : \E i \in DOMAIN R : R[i].count = r
      /\ \A i, j \in DOMAIN R : i < j => R[i].count < R[j].count
  BY <1>3, <1>4 DEF RecordsAre
<1>6. PICK last \in Nat : last = Len(R) /\ DOMAIN R = 1 .. last
  BY <1>5
<1>7. PICK below \in SUBSET (1 .. last) : below = {i \in 1 .. last : R[i].count <= floor}
  OBVIOUS
<1>8. PICK base : base = BaselineAt(R, floor)
  OBVIOUS
<1>9. w = IF base = 0 \/ last = base THEN [count |-> 0, total |-> 0, from |-> 0]
          ELSE [count |-> R[last].count - R[base].count, total |-> R[last].total - R[base].total,
                from |-> R[base].count]
  BY <1>1, <1>4, <1>6, <1>8 DEF TimingInv, cumulative_timing_window
<1>10. base # 0 /\ last # base
  <2>1. SUFFICES ASSUME base = 0 \/ last = base PROVE FALSE
    OBVIOUS
  <2>2. w.count = 0
    BY <1>9, <2>1
  <2> QED  BY <1>1, <2>2
<1>11. base \in below /\ \A j \in below : j <= base
  <2>1. base = IF below = {} THEN 0 ELSE CHOOSE i \in below : \A j \in below : i >= j
    BY <1>6, <1>7, <1>8 DEF BaselineAt
  <2>2. below # {}
    BY <1>10, <2>1
  <2>3. \E i \in below : \A j \in below : j <= i
    BY <2>2, Greatest
  <2>4. \A i \in below, j \in below : j <= i <=> i >= j
    OBVIOUS
  <2>5. \E i \in below : \A j \in below : i >= j
    BY <2>3, <2>4
  <2>6. base \in below /\ \A j \in below : base >= j
    BY <2>1, <2>2, <2>5
  <2> QED  BY <2>4, <2>6
<1>12. last \in 1 .. last /\ base \in 1 .. last /\ base < last
  BY <1>10, <1>11
<1>13. PICK from \in 1 .. N, upto \in 1 .. N :
         /\ from = R[base].count /\ upto = R[last].count /\ from \in A /\ upto \in A
         /\ from < upto /\ from <= floor
  BY <1>5, <1>6, <1>7, <1>11, <1>12
<1>14. /\ w.count = upto - from /\ w.from = from
       /\ w.total = f[upto] - f[from]
  BY <1>5, <1>6, <1>9, <1>10, <1>12, <1>13
<1>15. w.from + w.count = upto
  BY <1>14
<1>16. \A r \in A : r <= upto /\ ~(from < r /\ r <= floor)
  <2>1. SUFFICES ASSUME NEW r \in A PROVE r <= upto /\ ~(from < r /\ r <= floor)
    OBVIOUS
  <2>2. PICK i \in 1 .. last : R[i].count = r
    BY <1>5, <1>6
  <2>3. i < last \/ i = last
    BY <1>12
  <2>4. r <= upto
    <3>1. i < last => r < upto
      BY <1>5, <1>6, <1>12, <1>13, <2>2
    <3>2. i = last => r = upto
      BY <1>13, <2>2
    <3>3. r \in Int /\ upto \in Int
      OBVIOUS
    <3> QED  BY <2>3, <3>1, <3>2, <3>3
  <2>5. r <= floor => r <= from
    <3>1. SUFFICES ASSUME r <= floor PROVE r <= from
      OBVIOUS
    <3>2. i \in below
      BY <1>7, <2>2, <3>1
    <3>3. i < base \/ i = base
      BY <1>11, <1>12, <3>2
    <3>4. i < base => r < from
      BY <1>5, <1>6, <1>12, <1>13, <2>2
    <3>5. i = base => r = from
      BY <1>13, <2>2
    <3>6. r \in Int /\ from \in Int
      OBVIOUS
    <3> QED  BY <3>3, <3>4, <3>5, <3>6
  <2> QED  BY <2>4, <2>5
<1>17. w.total = Total(SubSeq(c, from + 1, upto))[w.count]
  <2>1. PICK k \in Nat : k = upto - from
    BY <1>13
  <2>2. from + k = upto /\ from \in Nat /\ from + k <= N
    BY <2>1
  <2>3. Total(c)[from + k] = Total(c)[from] + Total(SubSeq(c, from + 1, from + k))[k]
    BY <1>1, <2>2, TotalOfPart
  <2>4. PICK s : s = SubSeq(c, from + 1, upto)
    OBVIOUS
  <2>5. f[upto] = f[from] + Total(s)[k]
    BY <1>3, <2>2, <2>3, <2>4
  <2>6. Total(s)[k] \in Nat
    <3>1. \A i \in from + 1 .. upto : c[i] \in Nat
      BY <1>1
    <3>2. s \in Seq(Nat) /\ Len(s) = IF from + 1 <= upto THEN upto - (from + 1) + 1 ELSE 0
      BY <2>4, <3>1, SubSeqProperties
    <3>3. Len(s) = k
      BY <1>13, <2>1, <3>2
    <3> QED  BY <3>2, <3>3, TotalSums DEF Sums
  <2>7. PICK x \in Nat, y \in Nat, z \in Nat : x = f[upto] /\ y = f[from] /\ z = Total(s)[k]
    BY <1>3, <2>6
  <2>8. w.total = z
    BY <1>14, <2>5, <2>7
  <2> QED  BY <1>14, <2>1, <2>4, <2>7, <2>8
<1> QED  BY <1>1, <1>2, <1>13, <1>14, <1>15, <1>16, <1>17 DEF TimingWindowExact

-----------------------------------------------------------------------------
(* StrayCounters: the rates of one counter domain.                           *)
Intervals == [level : Levels, start : Nat, cycles : Int, ticks : Int]

\* In the order of their snapshots, of one pair the Performance level first.
Chronological ==
  {x \in Intervals \X Intervals :
     \/ x[1].start < x[2].start
     \/ x[1].start = x[2].start /\ x[1].level # x[2].level}

\* An interval of two snapshots that were read.
Measured(snapshots, r) ==
  /\ snapshots[r.start][r.level] # <<>> /\ snapshots[r.start + 1][r.level] # <<>>
  /\ r.cycles > 0 => snapshots[r.start][r.level][1] < snapshots[r.start + 1][r.level][1]

LEMMA CounterIs == \A c \in Counter : c = <<>> \/ (c[1] \in Int /\ c[2] \in Int)
<1>1. \A c \in {0, 2} \X {0, 1} : c[1] \in Int /\ c[2] \in Int
  OBVIOUS
<1> QED  BY <1>1 DEF Counter

LEMMA IntervalIs ==
  ASSUME NEW s \in Seq([Levels -> Counter]), NEW i \in 1 .. Len(s) - 1, NEW l \in Levels
  PROVE  \/ Interval(s, i, l) = <<>>
         \/ \E r \in Intervals : /\ Interval(s, i, l) = <<r>> /\ r.level = l /\ r.start = i
                                 /\ Measured(s, r)
<1>1. PICK before \in Counter, after \in Counter : before = s[i][l] /\ after = s[i + 1][l]
  <2>1. i \in 1 .. Len(s) /\ i + 1 \in 1 .. Len(s)
    OBVIOUS
  <2>2. s[i] \in [Levels -> Counter] /\ s[i + 1] \in [Levels -> Counter]
    BY <2>1
  <2> QED  BY <2>2
<1>2. SUFFICES ASSUME Interval(s, i, l) # <<>>
               PROVE  \E r \in Intervals : /\ Interval(s, i, l) = <<r>> /\ r.level = l /\ r.start = i
                                           /\ Measured(s, r)
  OBVIOUS
<1>3. before # <<>> /\ after # <<>>
  BY <1>1, <1>2 DEF Interval
<1>4. PICK a \in Int, b \in Int, c \in Int, d \in Int :
        a = before[1] /\ b = after[1] /\ c = before[2] /\ d = after[2]
  BY <1>3, CounterIs
<1>5. PICK r : r = [level |-> l, start |-> i, cycles |-> b - a, ticks |-> d - c]
  OBVIOUS
<1>6. Interval(s, i, l) = <<r>>
  BY <1>1, <1>2, <1>3, <1>4, <1>5 DEF Interval
<1>7. r \in Intervals /\ r.level = l /\ r.start = i /\ r.cycles = b - a
  BY <1>5 DEF Intervals
<1>8. Measured(s, r)
  BY <1>1, <1>3, <1>4, <1>7 DEF Measured
<1> QED  BY <1>6, <1>7, <1>8

\* The intervals of one pair of snapshots.
PairOf(s, i, q) ==
  /\ q \in Seq(Intervals) /\ InOrder(Chronological, q)
  /\ \A j \in DOMAIN q : q[j].start = i /\ Measured(s, q[j])

LEMMA ShortInOrder ==
  /\ \A R : InOrder(R, <<>>)
  /\ \A R, x : InOrder(R, <<x>>)
<1>1. DOMAIN <<>> = {} /\ \A x : DOMAIN <<x>> = {1}
  OBVIOUS
<1> QED  BY <1>1 DEF InOrder

LEMMA PairIs ==
  ASSUME NEW s \in Seq([Levels -> Counter]), NEW i \in 1 .. Len(s) - 1
  PROVE  PairOf(s, i, Interval(s, i, "Performance") \o Interval(s, i, "Efficiency"))
<1>0. "Performance" \in Levels /\ "Efficiency" \in Levels /\ "Performance" # "Efficiency"
  BY DEF Levels
<1>1. PICK a, b : a = Interval(s, i, "Performance") /\ b = Interval(s, i, "Efficiency")
  OBVIOUS
<1>2. \/ a = <<>>
      \/ \E r \in Intervals : a = <<r>> /\ r.level = "Performance" /\ r.start = i /\ Measured(s, r)
  BY <1>0, <1>1, IntervalIs
<1>3. \/ b = <<>>
      \/ \E r \in Intervals : b = <<r>> /\ r.level = "Efficiency" /\ r.start = i /\ Measured(s, r)
  BY <1>0, <1>1, IntervalIs
<1>4. \A r \in Intervals : <<r>> \in Seq(Intervals) /\ DOMAIN <<r>> = {1} /\ <<r>>[1] = r
  OBVIOUS
<1>5. <<>> \in Seq(Intervals) /\ DOMAIN <<>> = {}
  OBVIOUS
<1>6. /\ a \in Seq(Intervals) /\ InOrder(Chronological, a)
      /\ \A j \in DOMAIN a : a[j].level = "Performance" /\ a[j].start = i /\ Measured(s, a[j])
  <2>1. CASE a = <<>>
    BY <1>5, <2>1, ShortInOrder
  <2>2. ASSUME NEW r \in Intervals, a = <<r>>, r.level = "Performance", r.start = i, Measured(s, r)
        PROVE  /\ a \in Seq(Intervals) /\ InOrder(Chronological, a)
               /\ \A j \in DOMAIN a : a[j].level = "Performance" /\ a[j].start = i /\ Measured(s, a[j])
    BY <1>4, <2>2, ShortInOrder
  <2> QED  BY <1>2, <2>1, <2>2
<1>7. /\ b \in Seq(Intervals) /\ InOrder(Chronological, b)
      /\ \A j \in DOMAIN b : b[j].level = "Efficiency" /\ b[j].start = i /\ Measured(s, b[j])
  <2>1. CASE b = <<>>
    BY <1>5, <2>1, ShortInOrder
  <2>2. ASSUME NEW r \in Intervals, b = <<r>>, r.level = "Efficiency", r.start = i, Measured(s, r)
        PROVE  /\ b \in Seq(Intervals) /\ InOrder(Chronological, b)
               /\ \A j \in DOMAIN b : b[j].level = "Efficiency" /\ b[j].start = i /\ Measured(s, b[j])
    BY <1>4, <2>2, ShortInOrder
  <2> QED  BY <1>3, <2>1, <2>2
<1>8. \A j \in DOMAIN a, k \in DOMAIN b : <<a[j], b[k]>> \in Chronological
  <2>1. SUFFICES ASSUME NEW j \in DOMAIN a, NEW k \in DOMAIN b PROVE <<a[j], b[k]>> \in Chronological
    OBVIOUS
  <2>2. PICK x \in Intervals, y \in Intervals : x = a[j] /\ y = b[k]
    BY <1>6, <1>7
  <2>3. x.start = y.start /\ x.level # y.level
    BY <1>0, <1>6, <1>7, <2>2
  <2>4. <<x, y>> \in Intervals \X Intervals /\ <<x, y>>[1] = x /\ <<x, y>>[2] = y
    OBVIOUS
  <2> QED  BY <2>2, <2>3, <2>4 DEF Chronological
<1>9. InOrder(Chronological, a \o b)
  BY <1>6, <1>7, <1>8, CatInOrder
<1>10. Joins(a, b, a \o b) /\ a \o b \in Seq(Intervals)
  BY <1>6, <1>7, CatJoins
<1>11. PICK q : q = a \o b
  OBVIOUS
<1>12. \A j \in DOMAIN q : q[j].start = i /\ Measured(s, q[j])
  <2>1. SUFFICES ASSUME NEW j \in DOMAIN q PROVE q[j].start = i /\ Measured(s, q[j])
    OBVIOUS
  <2>2. (\E h \in DOMAIN a : q[j] = a[h]) \/ (\E h \in DOMAIN b : q[j] = b[h])
    BY <1>10, <1>11 DEF Joins
  <2> QED  BY <1>6, <1>7, <2>2
<1> QED  BY <1>1, <1>9, <1>10, <1>11, <1>12 DEF PairOf

\* All the intervals of the snapshots.
History(s, L) ==
  /\ L \in Seq(Intervals) /\ InOrder(Chronological, L)
  /\ \A j \in DOMAIN L : Measured(s, L[j])

LEMMA SummaryIs ==
  ASSUME NEW s \in Seq([Levels -> Counter])
  PROVE  History(s, perf_level_summary(s))
<1>1. PICK n \in Nat : n = (IF s = <<>> THEN 0 ELSE Len(s) - 1) /\ (n = 0 \/ n = Len(s) - 1)
  <2>1. s # <<>> => Len(s) # 0
    BY EmptySeq
  <2>2. Len(s) \in Nat
    OBVIOUS
  <2>3. CASE s = <<>>
    BY <2>3
  <2>4. CASE s # <<>>
    <3>1. Len(s) - 1 \in Nat
      BY <2>1, <2>2, <2>4
    <3> QED  BY <2>4, <3>1
  <2> QED  BY <2>3, <2>4
<1>2. \A i \in 1 .. n : i \in 1 .. Len(s) - 1
  <2>1. Len(s) \in Nat
    OBVIOUS
  <2> QED  BY <1>1, <2>1
<1>3. PICK p : p = [i \in 1 .. n |-> Interval(s, i, "Performance") \o Interval(s, i, "Efficiency")]
  OBVIOUS
<1>4. \A i \in 1 .. n : PairOf(s, i, p[i])
  <2>1. \A i \in 1 .. Len(s) - 1 : PairOf(s, i, Interval(s, i, "Performance") \o Interval(s, i, "Efficiency"))
    BY PairIs
  <2> QED  BY <1>2, <1>3, <2>1
<1>5. p \in Seq(Seq(Intervals)) /\ DOMAIN p = 1 .. n
  <2>1. p \in [1 .. n -> Seq(Intervals)]
    BY <1>3, <1>4 DEF PairOf
  <2> QED  BY <2>1
<1>6. PICK L : L = perf_level_summary(s) /\ L = FlattenSeq(p)
  BY <1>1, <1>3 DEF perf_level_summary
<1>7. L \in Seq(Intervals) /\ Drawn(p, L)
  BY <1>5, <1>6, FlattenElements
<1>8. PiecesInOrder(Chronological, p)
  <2>1. \A k \in DOMAIN p : InOrder(Chronological, p[k])
    BY <1>4, <1>5 DEF PairOf
  <2>2. \A k, l \in DOMAIN p : k < l =>
          \A i \in DOMAIN p[k], j \in DOMAIN p[l] : <<p[k][i], p[l][j]>> \in Chronological
    <3>1. SUFFICES ASSUME NEW k \in 1 .. n, NEW l \in 1 .. n, k < l
                   PROVE  \A i \in DOMAIN p[k], j \in DOMAIN p[l] : <<p[k][i], p[l][j]>> \in Chronological
      BY <1>5
    <3>2. SUFFICES ASSUME NEW i \in DOMAIN p[k], NEW j \in DOMAIN p[l]
                   PROVE  <<p[k][i], p[l][j]>> \in Chronological
      OBVIOUS
    <3>3. PICK x \in Intervals, y \in Intervals : x = p[k][i] /\ y = p[l][j] /\ x.start = k /\ y.start = l
      BY <1>4 DEF PairOf
    <3>4. <<x, y>> \in Intervals \X Intervals /\ <<x, y>>[1] = x /\ <<x, y>>[2] = y
      OBVIOUS
    <3>5. <<x, y>> \in Chronological
      BY <3>1, <3>3, <3>4 DEF Chronological
    <3> QED  BY <3>3, <3>5
  <2> QED  BY <2>1, <2>2 DEF PiecesInOrder
<1>9. InOrder(Chronological, L)
  BY <1>5, <1>6, <1>8, FlattenInOrder
<1>10. \A j \in DOMAIN L : Measured(s, L[j])
  BY <1>4, <1>5, <1>7 DEF Drawn, PairOf
<1> QED  BY <1>6, <1>7, <1>9, <1>10 DEF History

\* The rates drawn from them for one level.
LEMMA RatesAre ==
  ASSUME NEW s \in Seq([Levels -> Counter]), NEW L, History(s, L), NEW l
  PROVE  /\ History(s, RatesOf(L, l))
         /\ \A j \in DOMAIN RatesOf(L, l) : RatesOf(L, l)[j].level = l /\ RatesOf(L, l)[j].cycles > 0
<1>1. PICK n \in Nat : n = Len(L) /\ DOMAIN L = 1 .. n /\ \A j \in 1 .. n : L[j] \in Intervals
  BY DEF History
<1>2. PICK p : p = [j \in 1 .. n |-> IF L[j].cycles > 0 /\ L[j].level = l THEN <<L[j]>> ELSE <<>>]
  OBVIOUS
<1>3. \A r \in Intervals : <<r>> \in Seq(Intervals) /\ DOMAIN <<r>> = {1} /\ <<r>>[1] = r
  OBVIOUS
<1>4. <<>> \in Seq(Intervals) /\ DOMAIN <<>> = {}
  OBVIOUS
<1>5. p \in Seq(Seq(Intervals)) /\ DOMAIN p = 1 .. n
  <2>1. p \in [1 .. n -> Seq(Intervals)]
    BY <1>1, <1>2, <1>3, <1>4
  <2> QED  BY <2>1
<1>6. \A k \in 1 .. n : \A j \in DOMAIN p[k] : j = 1 /\ p[k][j] = L[k] /\ L[k].cycles > 0 /\ L[k].level = l
  BY <1>1, <1>2, <1>3, <1>4
<1>7. PICK r : r = RatesOf(L, l) /\ r = FlattenSeq(p)
  BY <1>1, <1>2 DEF RatesOf
<1>8. r \in Seq(Intervals) /\ Drawn(p, r)
  BY <1>5, <1>7, FlattenElements
<1>9. PiecesInOrder(Chronological, p)
  <2>1. \A k \in DOMAIN p : InOrder(Chronological, p[k])
    BY <1>5, <1>6 DEF InOrder
  <2>2. \A k, h \in DOMAIN p : k < h =>
          \A i \in DOMAIN p[k], j \in DOMAIN p[h] : <<p[k][i], p[h][j]>> \in Chronological
    <3>1. \A k, h \in DOMAIN L : k < h => <<L[k], L[h]>> \in Chronological
      BY DEF History, InOrder
    <3> QED  BY <1>1, <1>5, <1>6, <3>1
  <2> QED  BY <2>1, <2>2 DEF PiecesInOrder
<1>10. InOrder(Chronological, r)
  BY <1>5, <1>7, <1>9, FlattenInOrder
<1>11. \A j \in DOMAIN r : Measured(s, r[j]) /\ r[j].level = l /\ r[j].cycles > 0
  <2>1. SUFFICES ASSUME NEW j \in DOMAIN r PROVE Measured(s, r[j]) /\ r[j].level = l /\ r[j].cycles > 0
    OBVIOUS
  <2>2. PICK k \in 1 .. n : \E h \in DOMAIN p[k] : r[j] = p[k][h]
    BY <1>5, <1>8 DEF Drawn
  <2>3. r[j] = L[k] /\ L[k].cycles > 0 /\ L[k].level = l
    BY <1>6, <2>2
  <2>4. Measured(s, L[k])
    BY <1>1 DEF History
  <2> QED  BY <2>3, <2>4
<1> QED  BY <1>7, <1>8, <1>10, <1>11 DEF History

CpuInv ==
  /\ DOMAIN cpu = {"snapshots", "done", "level", "rates"}
  /\ cpu.snapshots \in Seq([Levels -> Counter])
  /\ cpu.done => cpu.rates = RatesOf(perf_level_summary(cpu.snapshots), cpu.level)

LEMMA CpuStarts == CpuInit => CpuInv
<1> SUFFICES ASSUME CpuInit PROVE CpuInv
  OBVIOUS
<1>1. PICK n \in 0 .. MaxSnapshots : \E s \in [1 .. n -> [Levels -> Counter]] :
        cpu = [snapshots |-> s, done |-> FALSE, level |-> "none", rates |-> <<>>]
  BY DEF CpuInit
<1>2. PICK s \in [1 .. n -> [Levels -> Counter]] :
        cpu = [snapshots |-> s, done |-> FALSE, level |-> "none", rates |-> <<>>]
  BY <1>1
<1>3. s \in Seq([Levels -> Counter])
  BY CounterAssumption
<1> QED  BY <1>2, <1>3 DEF CpuInv

LEMMA CpuStep == CpuInv /\ (throttle_summary \/ UNCHANGED cpu) => CpuInv'
<1>1. CASE UNCHANGED cpu
  <2>1. perf_level_summary(cpu.snapshots)' = perf_level_summary(cpu.snapshots)
    BY <1>1 DEF perf_level_summary, Interval
  <2>2. RatesOf(perf_level_summary(cpu.snapshots), cpu.level)' = RatesOf(perf_level_summary(cpu.snapshots), cpu.level)
    BY <1>1, <2>1
  <2> QED  BY <1>1, <2>2 DEF CpuInv
<1>2. SUFFICES ASSUME CpuInv, throttle_summary PROVE CpuInv'
  BY <1>1
<1>3. /\ DOMAIN cpu' = DOMAIN cpu /\ cpu'.snapshots = cpu.snapshots
      /\ cpu'.rates = RatesOf(perf_level_summary(cpu.snapshots), cpu'.level)
  BY <1>2 DEF throttle_summary, CpuInv
<1> QED  BY <1>2, <1>3 DEF CpuInv

LEMMA RatesFound == CpuInv => RatesOneDomain
<1> SUFFICES ASSUME CpuInv, cpu.done PROVE RatesOneDomain
  BY DEF RatesOneDomain
<1>1. PICK s \in Seq([Levels -> Counter]) : s = cpu.snapshots
  BY DEF CpuInv
<1>2. PICK L, l, r : L = perf_level_summary(s) /\ l = cpu.level /\ r = cpu.rates /\ r = RatesOf(L, l)
  BY <1>1 DEF CpuInv
<1>3. History(s, L)
  BY <1>2, SummaryIs
<1>4. History(s, r) /\ \A j \in DOMAIN r : r[j].level = l /\ r[j].cycles > 0
  BY <1>2, <1>3, RatesAre
<1>5. \A i \in DOMAIN r : /\ s[r[i].start][l] # <<>> /\ s[r[i].start + 1][l] # <<>>
                          /\ s[r[i].start][l][1] < s[r[i].start + 1][l][1]
  BY <1>4 DEF History, Measured
<1>6. \A i, j \in DOMAIN r : i < j => r[i].start < r[j].start
  <2>0. \A x, y : <<x, y>>[1] = x /\ <<x, y>>[2] = y
    OBVIOUS
  <2>1. \A x, y : <<x, y>> \in Chronological => x.start < y.start \/ x.level # y.level
    BY <2>0 DEF Chronological
  <2> QED  BY <1>4, <2>1 DEF History, InOrder
<1> QED  BY <1>1, <1>2, <1>4, <1>5, <1>6 DEF RatesOneDomain

-----------------------------------------------------------------------------
(* The figures of a report together.                                         *)

\* The series is summarized only in its own part.
SeriesInv ==
  /\ part = "series" /\ ~series.done =>
       /\ series.fraction \in Fractions
       /\ \E n \in Nat \ {0} : series.values \in [1 .. n -> Values]
  /\ series.done =>
       \E n \in Nat : /\ DOMAIN series.values = 1 .. n /\ Len(series.values) = n
                      /\ NearestRank(series.values, n, series.fraction, series.result)

LEMMA SeriesStep ==
  /\ SeriesInv /\ part' = part
  /\ (part = "series" /\ summarize_numbers) \/ UNCHANGED series
  => SeriesInv'
<1>1. ASSUME SeriesInv, UNCHANGED <<part, series>> PROVE SeriesInv'
  BY <1>1 DEF SeriesInv, NearestRank, UpTo
<1>2. ASSUME SeriesInv, part' = part, part = "series", summarize_numbers PROVE SeriesInv'
  <2>1. PICK n \in Nat \ {0}, f \in Fractions : series.values \in [1 .. n -> Values] /\ f = series.fraction
    BY <1>2 DEF SeriesInv, summarize_numbers
  <2>2. PICK s \in [1 .. n -> Values] : s = series.values
    BY <2>1
  <2>3. series' = [values |-> s, fraction |-> f, done |-> TRUE, result |-> percentile(s, f)]
    BY <1>2, <2>1, <2>2 DEF summarize_numbers
  <2>4. NearestRank(s, n, f, percentile(s, f))
    BY PercentileIs
  <2>5. DOMAIN s = 1 .. n /\ Len(s) = n
    OBVIOUS
  <2>6. /\ series'.done = TRUE /\ series'.values = s /\ series'.fraction = f
        /\ series'.result = percentile(s, f)
    BY <2>3
  <2>7. n \in Nat
    OBVIOUS
  <2>8. /\ DOMAIN series'.values = 1 .. n /\ Len(series'.values) = n
        /\ NearestRank(series'.values, n, series'.fraction, series'.result)
    BY <2>4, <2>5, <2>6
  <2>9. \E m \in Nat : /\ DOMAIN series'.values = 1 .. m /\ Len(series'.values) = m
                       /\ NearestRank(series'.values, m, series'.fraction, series'.result)
    BY <2>7, <2>8
  <2> QED  BY <2>6, <2>9 DEF SeriesInv
<1> QED  BY <1>1, <1>2

LEMMA SeriesFound == SeriesInv => PercentileIsNearest
<1> SUFFICES ASSUME SeriesInv, series.done PROVE PercentileIsNearest
  BY DEF PercentileIsNearest
<1>1. PICK n \in Nat : /\ DOMAIN series.values = 1 .. n /\ Len(series.values) = n
                       /\ NearestRank(series.values, n, series.fraction, series.result)
  BY DEF SeriesInv
<1> QED  BY <1>1 DEF NearestRank, UpTo, PercentileIsNearest

\* The profiler leaves the summaries alone.
LEMMA ProfilerKeeps == ProfilerNext => UNCHANGED <<series, cadence, tree>>
BY DEF ProfilerNext, SomethingFails, thermal_precondition, Before, Reset, StartChildren, ChildEnds,
       PowerSampled, finish_workload, CadenceRead, AskExport, fresh_host_profile, ReportProfile,
       AtExit, HostActs, OtherExport, ProfileGone, OnlyMain, powerVars

FiguresInv == RegionInv /\ SeriesInv /\ RatesInv /\ TreeInv /\ TimingInv /\ CpuInv

\* One part moves at a time.
FigureMoves ==
  /\ part' = part
  /\ RegionNext \/ UNCHANGED regionVars
  /\ (part = "series" /\ summarize_numbers) \/ UNCHANGED series
  /\ producer_rates \/ UNCHANGED cadence
  /\ TreeNext \/ UNCHANGED tree
  /\ ReadWindow \/ UNCHANGED timing
  /\ throttle_summary \/ UNCHANGED cpu

LEMMA FiguresMove == [MCNext]_harnessVars => FigureMoves
<1> SUFFICES ASSUME [MCNext]_harnessVars PROVE FigureMoves
  OBVIOUS
<1>1. CASE UNCHANGED harnessVars
  BY <1>1 DEF harnessVars, powerVars, counterVars, FigureMoves
<1>2. CASE MCNext
  <2>1. part' = part
    BY <1>2 DEF MCNext
  <2>2. CASE UNCHANGED <<regionVars, powerVars, counterVars>>
    BY <2>1, <2>2 DEF powerVars, counterVars, FigureMoves
  <2>3. CASE part = "regions" /\ RegionNext /\ UNCHANGED <<powerVars, counterVars>>
    BY <2>1, <2>3 DEF powerVars, counterVars, FigureMoves
  <2>4. CASE ProfilerNext /\ UNCHANGED <<regionVars, counterVars>>
    BY <2>1, <2>4, ProfilerKeeps DEF counterVars, FigureMoves
  <2>5. CASE part = "series" /\ summarize_numbers /\ UNCHANGED <<regionVars, counterVars>>
    BY <2>1, <2>5 DEF summarize_numbers, counterVars, FigureMoves
  <2>6. CASE producer_rates /\ UNCHANGED <<regionVars, counterVars>>
    BY <2>1, <2>6 DEF producer_rates, counterVars, FigureMoves
  <2>7. CASE TreeNext /\ UNCHANGED <<regionVars, counterVars>>
    BY <2>1, <2>7 DEF TreeNext, VisitProcess, EndPass, counterVars, FigureMoves
  <2>8. CASE ReadWindow /\ UNCHANGED <<regionVars, powerVars>>
    BY <2>1, <2>8 DEF ReadWindow, powerVars, FigureMoves
  <2>9. CASE throttle_summary /\ UNCHANGED <<regionVars, powerVars>>
    BY <2>1, <2>9 DEF throttle_summary, powerVars, FigureMoves
  <2> QED  BY <1>2, <2>2, <2>3, <2>4, <2>5, <2>6, <2>7, <2>8, <2>9 DEF MCNext
<1> QED  BY <1>1, <1>2

LEMMA FiguresStep == FiguresInv /\ [MCNext]_harnessVars => FiguresInv'
<1> SUFFICES ASSUME FiguresInv, FigureMoves PROVE FiguresInv'
  BY FiguresMove
<1>1. RegionInv'
  BY RegionStep DEF FiguresInv, FigureMoves
<1>2. SeriesInv'
  BY SeriesStep DEF FiguresInv, FigureMoves
<1>3. RatesInv'
  <2>1. CASE UNCHANGED cadence
    BY <2>1 DEF FiguresInv, RatesInv
  <2>2. CASE producer_rates
    BY <2>2, RatesStep DEF FiguresInv
  <2> QED  BY <2>1, <2>2 DEF FigureMoves
<1>4. TreeInv'
  <2>1. CASE UNCHANGED tree
    BY <2>1 DEF FiguresInv, TreeInv, Holds
  <2>2. CASE TreeNext
    BY <2>2, TreeStep DEF FiguresInv
  <2> QED  BY <2>1, <2>2 DEF FigureMoves
<1>5. TimingInv'
  BY TimingStep DEF FiguresInv, FigureMoves
<1>6. CpuInv'
  BY CpuStep DEF FiguresInv, FigureMoves
<1> QED  BY <1>1, <1>2, <1>3, <1>4, <1>5, <1>6 DEF FiguresInv

LEMMA FiguresStart == MCInit => FiguresInv
<1> SUFFICES ASSUME MCInit PROVE FiguresInv
  OBVIOUS
<1>1. RegionInv
  BY RegionStarts DEF MCInit
<1>2. SeriesInv
  <2>1. CASE part = "series"
    <3>1. series.values \in Series /\ series.fraction \in Fractions /\ series.done = FALSE
      BY <2>1 DEF MCInit, SeriesInit
    <3>2. PICK n \in 1 .. MaxSeries : series.values \in [1 .. n -> Values]
      BY <3>1 DEF Series
    <3>3. n \in Nat \ {0}
      BY PowerAssumption
    <3> QED  BY <3>1, <3>2, <3>3 DEF SeriesInv
  <2>2. CASE part # "series"
    BY <2>2 DEF MCInit, SeriesInv
  <2> QED  BY <2>1, <2>2
<1>3. RatesInv
  BY DEF MCInit, RateInit, RatesInv
<1>4. TreeInv
  <2>1. PICK parents, target :
          tree = [parent |-> parents, target |-> target, found |-> {target},
                  at |-> 1, changed |-> FALSE, done |-> FALSE]
    BY DEF MCInit, TreeInit
  <2>2. 1 \in 1 .. Cardinality(Pids) + 1 /\ \A p \in 1 .. 1 - 1 : FALSE
    BY PidsCounted
  <2>3. \A S : Holds(S) => tree.found \subseteq S
    BY <2>1 DEF Holds
  <2> QED  BY <2>1, <2>2, <2>3 DEF TreeInv
<1>5. TimingInv
  <2>1. CASE part = "timing"
    BY <2>1, TimingStarts DEF MCInit
  <2>2. CASE part # "timing"
    <3>1. timing = [costs |-> <<>>, reported |-> {}, floor |-> 0, done |-> FALSE,
                    window |-> [count |-> 0, total |-> 0, from |-> 0]]
      BY <2>2 DEF MCInit
    <3>2. <<>> \in Seq(Nat)
      OBVIOUS
    <3> QED  BY <3>1, <3>2 DEF TimingInv
  <2> QED  BY <2>1, <2>2
<1>6. CpuInv
  <2>1. CASE part = "cpu"
    BY <2>1, CpuStarts DEF MCInit
  <2>2. CASE part # "cpu"
    <3>1. cpu = [snapshots |-> <<>>, done |-> FALSE, level |-> "none", rates |-> <<>>]
      BY <2>2 DEF MCInit
    <3>2. <<>> \in Seq([Levels -> Counter])
      OBVIOUS
    <3> QED  BY <3>1, <3>2 DEF CpuInv
  <2> QED  BY <2>1, <2>2
<1> QED  BY <1>1, <1>2, <1>3, <1>4, <1>5, <1>6 DEF FiguresInv

\* For pictures, series, records, listings and snapshots of any size: a fill
\* finds one connected island and its box, a reported island lies inside the
\* picture in a bright ring, a percentile is the nearest rank, a rate compares
\* two records of one producer or two intervals of one counter domain in their
\* order, a process tree is the target's descendants, and a window of drawables
\* costs what they cost.
THEOREM FiguresExactAlways == MCSpec => []FiguresExact
<1>1. FiguresInv => FiguresExact
  <2>1. RatesInv => RatesOneProducer
    BY DEF RatesInv, RatesOneProducer, Counting
  <2>2. TreeInv => TreeIsDescendants
    BY DEF TreeInv, TreeIsDescendants
  <2> QED  BY <2>1, <2>2, RegionsFound, RegionsRinged, SeriesFound, WindowFound, RatesFound
           DEF FiguresInv, FiguresExact
<1> QED  BY <1>1, FiguresStart, FiguresStep, PTL DEF MCSpec
=============================================================================
