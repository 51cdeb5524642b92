---------------------------- MODULE StraySteamUI ----------------------------
(* How misc/stray_perf_loop.py brings a Steam client to a visible PLAY     *)
(* button: select_stray_in_steam or reuse_selected_stray_in_steam, then    *)
(* prepare_steam_play_action, and main's fallbacks when that fails.  The   *)
(* runner sees Steam by OCR of a picture and acts by taps at fixed points; *)
(* Steam may be frozen for a while, lose taps and lag behind the game.     *)
EXTENDS Integers

CONSTANTS
    Attempts,       \* range(1, 13) of prepare_steam_play_action
    MaxLostTaps     \* bound on the taps Steam does not act on

ASSUME SteamUIAssumption == Attempts \in Nat \ {0} /\ MaxLostTaps \in Nat

VARIABLES
    steamUI,    \* the page in front, Steam's belief about the game, the game
    play        \* the runner: its step, its last picture, its attempts

steamUIVars == <<steamUI, play>>

Pages == {"store", "library", "stray"}

(* main has ended every game, but a Steam that was frozen meanwhile may    *)
(* still believe that one runs.                                            *)
SteamUIInit ==
    \E page \in Pages, running, reuse, handoff \in BOOLEAN :
        /\ steamUI = [page |-> page, live |-> FALSE, lost |-> 0,
                      button |-> IF running THEN "stop" ELSE "play",
                      killed |-> FALSE, started |-> FALSE]
        /\ play = [at |-> "select", reuse |-> reuse, handoff |-> handoff,
                   attempt |-> 1, recovered |-> FALSE, fallback |-> FALSE,
                   seen |-> "none", absent |-> FALSE, outcome |-> "none"]

-----------------------------------------------------------------------------
(* Steam and the game.                                                     *)

(* A game exits; Steam notices later, and redraws its button.              *)
GameExits ==
    /\ steamUI.live
    /\ steamUI' = [steamUI EXCEPT !.live = FALSE]
    /\ UNCHANGED play

SteamNotices ==
    /\ ~steamUI.live /\ steamUI.button = "stop"
    /\ steamUI' = [steamUI EXCEPT !.button = "play"]
    /\ UNCHANGED play

(* A tap at the point of the button: PLAY and STOP stand at the same one.  *)
TapButton(ui) ==
    CASE ui.button = "stop" -> [ui EXCEPT !.button = "exit-confirmation"]
      [] ui.button = "play" -> [ui EXCEPT !.button = "stop", !.live = TRUE,
                                                !.started = TRUE]
      [] OTHER              -> ui

(* Mutant: the tap lands on Cancel.                                        *)
TapCancel(ui) ==
    IF ui.button = "exit-confirmation"
    THEN [ui EXCEPT !.button = "stop"] ELSE ui

(* The confirmation is tapped where its text was read: it ends the game.   *)
TapConfirm(ui) ==
    IF ui.button = "exit-confirmation"
    THEN [ui EXCEPT !.button = "play", !.live = FALSE,
                    !.killed = @ \/ ui.live]
    ELSE ui

Taps(acted) ==
    \/ steamUI' = acted
    \/ /\ steamUI.lost < MaxLostTaps
       /\ steamUI' = [steamUI EXCEPT !.lost = @ + 1]

-----------------------------------------------------------------------------
(* The runner.                                                             *)

(* LIBRARY, Home, then "Stray" in the search field; between them           *)
(* wait_for_steam_library_surface raises when HOME and ALL never show.     *)
Navigated(p) ==
    \/ /\ steamUI' = [steamUI EXCEPT !.page = "stray"]
       /\ play' = p
    \/ /\ steamUI.lost < MaxLostTaps
       /\ steamUI' = [steamUI EXCEPT !.lost = @ + 1]
       /\ play' = IF steamUI.page = "store"
                  THEN [p EXCEPT !.at = "failed", !.outcome = "no-library"]
                  ELSE p

Looking(p) == [p EXCEPT !.at = "look", !.seen = "none", !.absent = FALSE]

select_stray_in_steam ==
    /\ play.at = "select" /\ (~play.reuse \/ play.fallback)
    /\ Navigated([Looking(play) EXCEPT !.attempt = 1, !.recovered = FALSE])

(* Activation only: the page the preceding run left stays in front.        *)
reuse_selected_stray_in_steam ==
    /\ play.at = "select" /\ play.reuse /\ ~play.fallback
    /\ play' = Looking(play)
    /\ UNCHANGED steamUI

(* Mutant: the line PLAY TIME of a page counts as the action.              *)
ActionOrTime(ui) == IF ui.page = "library" THEN "play"
                    ELSE IF ui.page = "stray" THEN ui.button ELSE "unrecognized"

(* steam_primary_action_state of the picture's text.                       *)
steam_primary_action_state(ui) ==
    IF ui.page = "stray" THEN ui.button ELSE "unrecognized"

(* The picture of one attempt.                                             *)
Look ==
    /\ play.at = "look"
    /\ play' = [play EXCEPT !.at = "judge",
                   !.seen = steam_primary_action_state(steamUI)]
    /\ UNCHANGED steamUI

ShowsPlay ==
    /\ play.at = "judge" /\ play.seen = "play"
    /\ play' = [play EXCEPT !.at = "ready"]
    /\ UNCHANGED steamUI

NextAttempt(p) ==
    IF p.attempt = Attempts
    THEN [p EXCEPT !.at = "failed", !.outcome = "no-play"]
    ELSE [Looking(p) EXCEPT !.attempt = @ + 1]

(* The Store's address is read: the whole navigation, once.                *)
RecoverStore ==
    /\ play.at = "judge" /\ play.seen = "unrecognized"
    /\ steamUI.page = "store" /\ ~play.recovered
    /\ Navigated(NextAttempt([play EXCEPT !.recovered = TRUE]))

Mutable == play.at = "judge" /\ play.seen # "play"
             /\ ~(steamUI.page = "store" /\ ~play.recovered)

(* Mutant: the process list is not read again.                             *)
AssumeAbsent(live) == TRUE

(* game_pid finds no Stray.                                                *)
NoLiveGame(live) == ~live

CheckGame ==
    /\ Mutable /\ ~play.absent
    /\ play' = IF NoLiveGame(steamUI.live)
               THEN [play EXCEPT !.absent = TRUE]
               ELSE [play EXCEPT !.at = "failed", !.outcome = "live-game"]
    /\ UNCHANGED steamUI

(* STOP is tapped, the confirmation is tapped; nothing else is.            *)
Reconcile ==
    /\ Mutable /\ play.absent
    /\ play' = NextAttempt(play)
    /\ \/ play.seen = "unrecognized" /\ UNCHANGED steamUI
       \/ /\ play.seen \in {"stop", "exit-confirmation"}
          /\ Taps(IF play.seen = "stop" THEN TapButton(steamUI)
                  ELSE TapConfirm(steamUI))

(* main: a failed selection is retried by a real search when the retained  *)
(* page did not show PLAY; a fresh client is asked to launch by itself;    *)
(* any other failure ends the run.                                         *)
SelectionFailed ==
    /\ play.at = "failed"
    /\ play' = CASE ~play.handoff /\ ~play.reuse
                      -> [play EXCEPT !.at = "applaunch"]
                 [] play.reuse /\ play.outcome = "no-play" /\ ~play.fallback
                      -> [play EXCEPT !.at = "select", !.fallback = TRUE]
                 [] OTHER -> [play EXCEPT !.at = "raised"]
    /\ UNCHANGED steamUI

SteamUIOver ==
    play.at \in {"ready", "applaunch", "raised"} /\ UNCHANGED steamUIVars

SteamUINext ==
    \/ GameExits \/ SteamNotices \/ select_stray_in_steam
    \/ reuse_selected_stray_in_steam \/ Look \/ ShowsPlay \/ RecoverStore
    \/ CheckGame \/ Reconcile \/ SelectionFailed \/ SteamUIOver

SteamUISpec == SteamUIInit /\ [][SteamUINext]_steamUIVars

-----------------------------------------------------------------------------
(* "The process is already absent, so confirmation only reconciles Steam's *)
(* stale state": no tap of the runner ends a live game.                    *)
ConfirmKillsNothing == ~steamUI.killed

(* When PLAY was seen the button is still PLAY as the click follows: no    *)
(* tap in flight turned the page.                                          *)
PlayStandsReady ==
    play.at = "ready" => steamUI.page = "stray" /\ steamUI.button = "play"

(* The attempts suffice: "did not converge" ends a run only when Steam     *)
(* lost a tap or one of the runner's started a game.                       *)
ConvergesUnlessLost ==
    play.at = "raised" /\ play.outcome = "no-play"
        => steamUI.lost > 0 \/ steamUI.started

(* The taps that bring Steam to the Play button end no game, come to stand *)
(* on that button, and get there unless taps were lost.                    *)
PlayReachedSafely == ConfirmKillsNothing /\ PlayStandsReady /\ ConvergesUnlessLost
=============================================================================
