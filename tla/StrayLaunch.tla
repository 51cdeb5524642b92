---------------------------- MODULE StrayLaunch ----------------------------
(* How misc/stray_perf_loop.py follows one launch: Steam writes LaunchApp  *)
(* lines to its log, wait_for_launch_outcome classifies the lines since an *)
(* offset, and main answers dialogs, replaces a stuck Steam or presses     *)
(* Play again, each at most once and in a fixed order.  Steam runs         *)
(* concurrently: an answer takes effect after the runner read the log.     *)
EXTENDS Integers, Sequences

CONSTANTS
    LaunchTimeout,  \* polls before wait_for_launch_outcome gives up
    StallAfter,     \* polls of an unchanged SynchronizingCloud: the 30 s
    MaxWarnings     \* bound on the cloud warnings Steam raises

ASSUME LaunchAssumption ==
    /\ LaunchTimeout \in Nat \ {0} /\ StallAfter \in Nat \ {0}
    /\ MaxWarnings \in Nat

VARIABLES
    steam,      \* the LaunchApp task of the current Steam generation
    log,        \* the lines of the runtime log that the runner looks for
    wait,       \* the locals of the wait_for_launch_outcome in progress
    runner      \* where main is, and what it knows

launchVars == <<steam, log, wait, runner>>

Tasks == {"idle", "SynchronizingCloud", "SynchronizingStats",
          "CreatingProcess", "Completed", "Failed"}
Events == (Tasks \ {"idle"})
            \cup {"cloudWait", "IgnoreCloud", "kickWait", "KickingOtherSession",
                  "AppError_49", "AppError_46", "spawn"}
Outcomes == {"cloud_sync_failed", "kicking_other_session",
             "cloud_sync_stalled", "app_error_49", "app_error_46", "failed",
             "started", "timeout"}

(* The positions of a line at or after a floor.                            *)
At(events, from) == {i \in 1..Len(log) : i > from /\ log[i] \in events}
Latest(S) == IF S = {} THEN 0 ELSE CHOOSE i \in S : \A j \in S : j <= i

LaunchInit ==
    /\ steam = [task |-> "idle", dialog |-> "none", click |-> "none",
                asked |-> FALSE, game |-> FALSE]
    /\ log = <<>>
    /\ wait = [offset |-> 0, cloudFloor |-> 0, kickFloor |-> 0, task |-> "idle",
               since |-> 0, left |-> 0, pid |-> FALSE]
    /\ runner = [stage |-> "request", applaunch |-> FALSE, next |-> "none",
                 offset |-> 0, asked |-> 0, last |-> "none", saw |-> {},
                 clicked |-> {}]

-----------------------------------------------------------------------------
(* Steam.                                                                  *)
Writes(event) == log' = Append(log, event)
SteamOnly == UNCHANGED <<wait, runner>>

SteamTakesTask ==
    /\ steam.asked /\ steam.task = "idle"
    /\ steam' = [steam EXCEPT !.task = "SynchronizingCloud", !.asked = FALSE]
    /\ Writes("SynchronizingCloud")
    /\ SteamOnly

(* A fresh session may reject the action before it has a task.             *)
SteamRejects ==
    /\ steam.asked /\ steam.task = "idle"
    /\ steam' = [steam EXCEPT !.asked = FALSE]
    /\ \E error \in {"AppError_49", "AppError_46"} : Writes(error)
    /\ SteamOnly

(* syncfailed or pendingcloudsessions; the second may follow the first.    *)
SteamWarns ==
    /\ steam.task = "SynchronizingCloud" /\ steam.dialog = "none"
    /\ Len(SelectSeq(log, LAMBDA e : e = "cloudWait")) < MaxWarnings
    /\ steam' = [steam EXCEPT !.dialog = "cloud"]
    /\ Writes("cloudWait")
    /\ SteamOnly

SteamKicks ==
    /\ steam.task = "SynchronizingStats" /\ steam.dialog = "none"
    /\ At({"kickWait"}, 0) = {}
    /\ steam' = [steam EXCEPT !.dialog = "kick"]
    /\ Writes("kickWait")
    /\ SteamOnly

(* The gesture reaches the dialog.                                         *)
SteamAnswered ==
    /\ steam.dialog # "none" /\ steam.click = steam.dialog
    /\ steam' = [steam EXCEPT !.dialog = "none", !.click = "none"]
    /\ Writes(IF steam.dialog = "cloud" THEN "IgnoreCloud"
              ELSE "KickingOtherSession")
    /\ SteamOnly

SteamAdvances ==
    /\ steam.dialog = "none"
    /\ \/ /\ steam.task = "SynchronizingCloud"
          /\ steam' = [steam EXCEPT !.task = "SynchronizingStats"]
       \/ /\ steam.task = "SynchronizingStats"
          /\ steam' = [steam EXCEPT !.task = "CreatingProcess"]
       \/ /\ steam.task = "CreatingProcess" /\ steam.game
          /\ steam' = [steam EXCEPT !.task = "Completed"]
       \/ /\ steam.task \in {"SynchronizingCloud", "CreatingProcess"}
          /\ steam' = [steam EXCEPT !.task = "Failed"]
    /\ Writes(steam'.task)
    /\ SteamOnly

SteamSpawns ==
    /\ steam.task = "CreatingProcess" /\ ~steam.game
    /\ steam' = [steam EXCEPT !.game = TRUE]
    /\ Writes("spawn")
    /\ SteamOnly

-----------------------------------------------------------------------------
(* wait_for_launch_outcome.                                                *)
StartWait(offset, cloudFloor, kickFloor) ==
    wait' = [offset |-> offset, cloudFloor |-> cloudFloor,
             kickFloor |-> kickFloor, task |-> "idle", since |-> 0,
             left |-> LaunchTimeout, pid |-> FALSE]

Suffix(events) == At(events, wait.offset)

(* A warning that Steam has not left behind and the caller has not         *)
(* acknowledged.                                                           *)
CloudPending ==
    LET shown == Latest(Suffix({"cloudWait"}))
        advanced == Latest(Suffix({"IgnoreCloud", "SynchronizingStats",
                                 "CreatingProcess", "Completed", "Failed"}))
    IN  shown > 0 /\ shown > advanced /\ shown > wait.cloudFloor

KickPending ==
    LET shown == Latest(Suffix({"kickWait"}))
        advanced == Latest(Suffix({"KickingOtherSession", "CreatingProcess",
                                 "Completed", "Failed"}))
    IN  shown > 0 /\ shown > advanced /\ shown > wait.kickFloor

CurrentTask ==
    LET i == Latest(Suffix(Tasks \ {"idle"})) IN IF i = 0 THEN "idle" ELSE log[i]

UnchangedFor == IF CurrentTask = wait.task THEN wait.since ELSE 0

AddPoll(n) == IF n < StallAfter THEN n + 1 ELSE n

(* The first of these that holds is the outcome of a poll.                 *)
Verdict(pid) ==
    CASE CloudPending -> "cloud_sync_failed"
      [] ~CloudPending /\ KickPending -> "kicking_other_session"
      [] OTHER ->
         IF CurrentTask = "SynchronizingCloud" /\ UnchangedFor >= StallAfter
         THEN "cloud_sync_stalled"
         ELSE IF Suffix({"AppError_49"}) # {} THEN "app_error_49"
         ELSE IF Suffix({"AppError_46"}) # {} THEN "app_error_46"
         ELSE IF Suffix({"Failed"}) # {} THEN "failed"
         ELSE IF pid /\ Suffix({"Completed"}) # {} THEN "started"
         ELSE "none"

(* The spawn line names the child; before it the process table may.        *)
ObservedPid(scanned) ==
    Suffix({"spawn"}) # {} \/ wait.pid \/ (scanned /\ steam.game)

(* Mutant: the deadline restarts with every poll.                          *)
SleptForever(left) == left

(* time.sleep(0.25)                                                        *)
Slept(left) == left - 1

Poll ==
    /\ runner.stage = "wait" /\ wait.left > 0
    /\ \E scanned \in BOOLEAN :
         LET pid == ObservedPid(scanned)
             verdict == Verdict(pid)
         IN  /\ wait' = [wait EXCEPT !.pid = pid, !.task = CurrentTask,
                                     !.since = AddPoll(UnchangedFor),
                                     !.left = Slept(@)]
             /\ runner' = IF verdict = "none"
                          THEN runner
                          ELSE [runner EXCEPT !.stage = runner.next,
                                              !.last = verdict]
    /\ UNCHANGED <<steam, log>>

LaunchTimesOut ==
    /\ runner.stage = "wait" /\ wait.left = 0
    /\ runner' = [runner EXCEPT !.stage = runner.next, !.last = "timeout",
                                !.saw = Suffix(Events)]
    /\ UNCHANGED <<steam, log, wait>>

-----------------------------------------------------------------------------
(* main, after Play or -applaunch.                                         *)
Await(next) == [runner EXCEPT !.stage = "wait", !.next = next]

RequestPlay ==
    /\ runner.stage = "request"
    /\ \E applaunch \in BOOLEAN :
         runner' = [Await("missing") EXCEPT !.applaunch = applaunch]
    /\ steam' = [steam EXCEPT !.asked = TRUE]
    /\ StartWait(0, 0, 0)
    /\ UNCHANGED log

(* A Steam that consumed -applaunch too early never creates the task.      *)
SteamForgets ==
    /\ steam.asked /\ runner.applaunch
    /\ steam' = [steam EXCEPT !.asked = FALSE]
    /\ UNCHANGED <<log, wait, runner>>

MissingTask ==
    /\ runner.stage = "missing"
    /\ runner.applaunch /\ runner.last = "timeout"
    /\ runner.saw \subseteq At({"spawn"}, 0)

StalledCloud ==
    /\ runner.stage = "stalled"
    /\ runner.applaunch /\ runner.last = "cloud_sync_stalled"

(* stop_steam_ui, log_size, ensure_steam_ui with the one-shot AppID again. *)
ReplaceOwner ==
    /\ MissingTask \/ StalledCloud
    /\ steam' = [task |-> "idle", dialog |-> "none", click |-> "none",
                 asked |-> TRUE, game |-> steam.game]
    /\ runner' = [Await(IF runner.stage = "missing" THEN "stalled" ELSE "cloud")
                    EXCEPT !.asked = Len(log)]
    /\ StartWait(Len(log), 0, 0)
    /\ UNCHANGED log

(* find_steam_text_window: the dialog is there, or the runner gives up.    *)
ClickDialog ==
    /\ \/ runner.stage = "cloud" /\ runner.last = "cloud_sync_failed"
       \/ runner.stage = "kick" /\ runner.last = "kicking_other_session"
    /\ IF steam.dialog = runner.stage
       THEN /\ steam' = [steam EXCEPT !.click = runner.stage]
            /\ runner' = [runner EXCEPT
                 !.stage = IF @ = "cloud" THEN "cloudAck" ELSE "kickAck",
                 !.clicked = @ \cup {Latest(At({"cloudWait", "kickWait"}, 0))}]
       ELSE /\ runner' = [runner EXCEPT !.stage = "raised"]
            /\ UNCHANGED steam
    /\ UNCHANGED <<log, wait>>

(* Mutant: the wait after the click looks at every warning again.          *)
AcknowledgeNothing ==
    /\ runner.stage \in {"cloudAck", "kickAck"}
    /\ runner' = Await(IF runner.stage = "cloudAck" THEN "kick" ELSE "error49")
    /\ StartWait(runner.offset, 0, 0)
    /\ UNCHANGED <<steam, log>>

(* The log is read again, and its last warning becomes the floor.  Both    *)
(* waits start from the offset of the first request.                       *)
Acknowledge ==
    /\ runner.stage \in {"cloudAck", "kickAck"}
    /\ runner' = Await(IF runner.stage = "cloudAck" THEN "kick" ELSE "error49")
    /\ StartWait(runner.offset,
                 IF runner.stage = "cloudAck"
                 THEN Latest(At({"cloudWait"}, runner.offset)) ELSE 0,
                 IF runner.stage = "kickAck"
                 THEN Latest(At({"kickWait"}, runner.offset)) ELSE 0)
    /\ UNCHANGED <<steam, log>>

(* Mutant: the second wait begins where the first one did.                 *)
RetryFromStart ==
    /\ runner.stage = "error49"
    /\ ~runner.applaunch /\ runner.last = "app_error_49"
    /\ steam' = [steam EXCEPT !.asked = TRUE]
    /\ runner' = [Await("check") EXCEPT !.asked = Len(log)]
    /\ StartWait(runner.offset, 0, 0)
    /\ UNCHANGED log

(* Escape, and Play once more.                                             *)
RetryPlay ==
    /\ runner.stage = "error49"
    /\ ~runner.applaunch /\ runner.last = "app_error_49"
    /\ steam' = [steam EXCEPT !.asked = TRUE]
    /\ runner' = [Await("check") EXCEPT !.asked = Len(log)]
    /\ StartWait(Len(log), 0, 0)
    /\ UNCHANGED log

(* The handlers in their order; one that does not apply is passed over.    *)
Following == [missing |-> "stalled", stalled |-> "cloud", cloud |-> "kick",
              kick |-> "error49", error49 |-> "check"]

PassOver ==
    /\ \/ runner.stage = "missing" /\ ~MissingTask
       \/ runner.stage = "stalled" /\ ~StalledCloud
       \/ runner.stage = "cloud" /\ runner.last # "cloud_sync_failed"
       \/ runner.stage = "kick" /\ runner.last # "kicking_other_session"
       \/ runner.stage = "error49"
            /\ (runner.applaunch \/ runner.last # "app_error_49")
    /\ runner' = [runner EXCEPT !.stage = Following[runner.stage]]
    /\ UNCHANGED <<steam, log, wait>>

CheckLaunched ==
    /\ runner.stage = "check"
    /\ runner' = [runner EXCEPT !.stage =
                    IF runner.last = "started" /\ wait.pid THEN "launched"
                    ELSE "raised"]
    /\ UNCHANGED <<steam, log, wait>>

LaunchOver == runner.stage \in {"launched", "raised"} /\ UNCHANGED launchVars

SteamSteps ==
    \/ SteamTakesTask \/ SteamRejects \/ SteamWarns \/ SteamKicks
    \/ SteamAnswered \/ SteamAdvances \/ SteamSpawns \/ SteamForgets

RunnerSteps ==
    \/ RequestPlay \/ Poll \/ LaunchTimesOut \/ ReplaceOwner \/ ClickDialog
    \/ Acknowledge \/ RetryPlay \/ PassOver \/ CheckLaunched

LaunchNext == SteamSteps \/ RunnerSteps \/ LaunchOver

LaunchSpec == LaunchInit /\ [][LaunchNext]_launchVars

-----------------------------------------------------------------------------
(* A cloud or session dialog that main answered with a click is not the    *)
(* reason of a failed launch: the gesture is asynchronous, and the log     *)
(* still ends in the warning when the next wait reads it.                  *)
AnsweredNotBlamed ==
    runner.stage = "raised" /\ runner.last = "cloud_sync_failed"
      => \E i \in At({"cloudWait"}, 0) : i \notin runner.clicked

(* The lines that a verdict rests on.                                      *)
Grounds == [app_error_49 |-> "AppError_49", app_error_46 |-> "AppError_46",
            failed |-> "Failed", started |-> "Completed"]

Current ==
    runner.stage \in {"launched", "raised"} /\ runner.last \in DOMAIN Grounds
      => At({Grounds[runner.last]}, runner.asked) # {}

(* The verdict on a launch by the Play button rests on a line of the       *)
(* attempt it is about, also when Play was pressed again after AppError_49 *)
(* and the first attempt's lines are still in the log.                     *)
PlayVerdictIsCurrent == ~runner.applaunch => Current

(* Every launch is decided: each wait has a deadline and each recovery     *)
(* happens once.                                                           *)
LaunchDecided == (runner.stage = "wait") ~> (runner.stage \in {"launched", "raised"})

(* What is said of a launch rests on what Steam wrote about it: no dialog  *)
(* that was answered and no line of an earlier attempt decides it.         *)
VerdictsGrounded == AnsweredNotBlamed /\ PlayVerdictIsCurrent
=============================================================================
