----------------------------- MODULE DevinWatch -----------------------------
(* The watchdog loop of DevinWatchdog_mac/devin_iterm_watch.py: it polls   *)
(* terminal sessions and types a message into one that is rate limited or  *)
(* rests at its prompt.  Times are kept relative to `now`, the time the    *)
(* round took when it began; lag is how far the clock has moved since, as  *)
(* the loop awaits the limit of one session before it turns to the next.   *)
EXTENDS Integers, Sequences, FiniteSets

CONSTANTS
    Watched,            \* the sessions, in the order app.terminal_windows lists
    Interval,           \* --interval
    LimitWait,          \* --wait with its margin and jitter
    IdleSeconds,        \* --idle-seconds
    Cooldown,           \* --cooldown
    Dedup,              \* the 60 seconds of seen_screens
    MaxReadFailures,    \* bound on reads that raise
    MaxPrinted          \* bound on the changes of all screens

Tabs == {Watched[i] : i \in 1 .. Len(Watched)}

ASSUME WatchBounds ==
    /\ Watched \in Seq(Tabs) /\ Len(Watched) > 0
    /\ {Interval, LimitWait, IdleSeconds, Cooldown, Dedup} \subseteq Nat \ {0}
    /\ {MaxReadFailures, MaxPrinted} \subseteq Nat

(* What a screen shows.  The limit notice stays in the scrollback of a     *)
(* session that resumed ("resumed").                                       *)
Shown == {"working", "resumed", "limited", "idle"}
is_working(s) == s \in {"working", "resumed"}
tail_has_rate_limit(s) == s \in {"limited", "resumed"}
at_idle_prompt(s) == s = "idle"

Unread == "unread"
(* Ages stop at the threshold they are compared with.                      *)
Aged(a, d, limit) == IF a + d > limit THEN limit ELSE a + d

VARIABLES
    wpc,        \* where the loop stands
    turn,       \* index of the session the round is at
    lag,        \* time passed since the round took `now`
    awaited,    \* what is left of the sleep
    wread,      \* the tail last read for this session
    screen,     \* screen[s]: what session s shows
    hashed,     \* st[s]["hash"]
    stable,     \* now - st[s]["since"]
    injected,   \* now - st[s]["last_inject"]
    seen,       \* now - seen_screens[h][1], Dedup for no entry
    readFailures,
    printed,    \* changes of screens so far
    gap,        \* gap[s]: the true time since the last message, ghost
    typed       \* the last injection of the round and what was known, ghost

watchVars == <<wpc, turn, lag, awaited, wread, screen, hashed, stable, injected,
               seen, readFailures, printed, gap, typed>>
loopVars == <<hashed, stable, injected, seen>>

NoInjection == [by |-> "none", read |-> Unread, gap |-> Cooldown]

WatchInit ==
    /\ wpc = "round" /\ turn = 1 /\ lag = 0 /\ awaited = 0 /\ wread = Unread
    /\ screen = [s \in Tabs |-> "working"]
    /\ hashed = [s \in Tabs |-> Unread] /\ stable = [s \in Tabs |-> 0]
    /\ injected = [s \in Tabs |-> Cooldown] /\ gap = [s \in Tabs |-> Cooldown]
    /\ seen = [h \in {"limited"} |-> Dedup]
    /\ readFailures = 0 /\ printed = 0 /\ typed = NoInjection

(* One unit of the sleep the loop is in; the next action follows it.       *)
Tick ==
    /\ awaited > 0 /\ awaited' = awaited - 1 /\ lag' = lag + 1
    /\ gap' = [s \in Tabs |-> Aged(gap[s], 1, Cooldown)]
    /\ UNCHANGED <<wpc, turn, wread, screen, loopVars, readFailures, printed, typed>>

(* A session prints something else.                                        *)
ScreenChanges(s, k) ==
    /\ screen[s] # k /\ printed < MaxPrinted
    /\ printed' = printed + 1
    /\ screen' = [screen EXCEPT ![s] = k]
    /\ UNCHANGED <<wpc, turn, lag, awaited, wread, loopVars, readFailures, gap, typed>>

(* The top of the while loop: `now` is taken anew, once for the round.     *)
Round ==
    /\ wpc = "round" /\ awaited = 0
    /\ stable' = [s \in Tabs |-> Aged(stable[s], lag, IdleSeconds)]
    /\ injected' = [s \in Tabs |-> Aged(injected[s], lag, Cooldown)]
    /\ seen' = [h \in DOMAIN seen |-> Aged(seen[h], lag, Dedup)]
    /\ lag' = 0 /\ turn' = 1 /\ wpc' = "read"
    /\ typed' = NoInjection
    /\ UNCHANGED <<awaited, wread, screen, hashed, readFailures, printed, gap>>

(* The end of a session's turn: the next one, or the sleep of the round.   *)
EndTurn ==
    /\ wread' = Unread
    /\ IF turn < Len(Watched)
         THEN turn' = turn + 1 /\ wpc' = "read" /\ awaited' = 0
         ELSE turn' = 1 /\ wpc' = "round" /\ awaited' = Interval

(* Mutant: a look at a screen already seen makes it new again.             *)
SeenRefreshed(tail) == [seen EXCEPT ![tail] = 0]
(* seen_screens, where one screen counts once in Dedup.                    *)
SeenWith(tail) == IF seen[tail] < Dedup THEN seen ELSE [seen EXCEPT ![tail] = 0]

(* read_screen, and what the turn decides from it before any wait.         *)
MayContinue(s) == ~ (injected[s] < Cooldown)

Decide(s, tail, still) ==
    \/ is_working(tail) /\ EndTurn /\ UNCHANGED seen
    \/ /\ ~is_working(tail) /\ tail_has_rate_limit(tail)
       /\ seen' = SeenWith(tail)
       /\ IF ~ (seen[tail] < Dedup) /\ MayContinue(s)
            THEN wpc' = "recheck" /\ awaited' = LimitWait /\ wread' = tail /\ UNCHANGED turn
            ELSE EndTurn
    \/ /\ ~is_working(tail) /\ ~tail_has_rate_limit(tail) /\ UNCHANGED seen
       /\ IF at_idle_prompt(tail) /\ ~ (still < IdleSeconds) /\ MayContinue(s)
            THEN wpc' = "body" /\ wread' = tail /\ UNCHANGED <<turn, awaited>>
            ELSE EndTurn

ReadScreen ==
    LET s == Watched[turn]
        tail == screen[s]
        still == IF hashed[s] = tail THEN stable[s] ELSE 0
    IN /\ wpc = "read" /\ awaited = 0
       /\ hashed' = [hashed EXCEPT ![s] = tail]
       /\ stable' = [stable EXCEPT ![s] = still]
       /\ Decide(s, tail, still)
       /\ UNCHANGED <<lag, screen, injected, readFailures, printed, gap, typed>>

(* read_screen returns None: the turn ends before a wait, and the message  *)
(* is sent all the same after it.                                          *)
ReadFails ==
    /\ wpc \in {"read", "recheck"} /\ awaited = 0 /\ readFailures < MaxReadFailures
    /\ readFailures' = readFailures + 1
    /\ IF wpc = "read" THEN EndTurn
       ELSE wpc' = "body" /\ wread' = Unread /\ UNCHANGED <<turn, awaited>>
    /\ UNCHANGED <<lag, screen, loopVars, printed, gap, typed>>

(* After the wait: a limit notice that is gone ends the turn.              *)
RecheckLimit ==
    LET tail == screen[Watched[turn]]
    IN /\ wpc = "recheck" /\ awaited = 0
       /\ IF ~tail_has_rate_limit(tail) THEN EndTurn
          ELSE wpc' = "body" /\ wread' = tail /\ UNCHANGED <<turn, awaited>>
       /\ UNCHANGED <<lag, screen, loopVars, readFailures, printed, gap, typed>>

(* send_message: the body and, after enter_delay, the return.              *)
SendBody ==
    /\ wpc = "body" /\ wpc' = "enter" /\ awaited' = 1
    /\ UNCHANGED <<turn, lag, wread, screen, loopVars, readFailures, printed, gap, typed>>

(* Mutant: last_inject is left as it was.                                  *)
InjectedForgotten(s) == injected[s]
(* state["last_inject"] = time.time(), which is after the round's `now`.   *)
InjectedNow(s) == 0 - lag

SendEnter ==
    LET s == Watched[turn]
    IN /\ wpc = "enter" /\ awaited = 0
       /\ injected' = [injected EXCEPT ![s] = InjectedNow(s)]
       /\ stable' = [stable EXCEPT ![s] = 0 - lag]
       /\ hashed' = [hashed EXCEPT ![s] = Unread]
       /\ typed' = [by |-> s, read |-> wread, gap |-> gap[s]]
       /\ gap' = [gap EXCEPT ![s] = 0]
       /\ EndTurn
       /\ UNCHANGED <<lag, screen, seen, readFailures, printed>>

WatchLoop == Tick \/ Round \/ ReadScreen \/ RecheckLimit \/ SendBody \/ SendEnter

WatchNext ==
    \/ WatchLoop
    \/ ReadFails
    \/ \E s \in Tabs, k \in Shown : ScreenChanges(s, k)

WatchSpec == WatchInit /\ [][WatchNext]_watchVars

(* Two messages to one session are never closer than the cooldown, even    *)
(* though the loop compares a `now` that other sessions' waits made stale. *)
CooldownKept == typed.gap >= Cooldown

(* The session listed first, when it stays rate limited for good, is       *)
(* continued again and again: neither the record of seen screens, which    *)
(* other sessions share and every look refreshes, nor the cooldown keeps   *)
(* it waiting for ever.                                                    *)
FirstIsContinued ==
    LET s == Watched[1]
    IN (<>[](screen[s] = "limited")) => []<>(wpc = "enter" /\ turn = 1)
=============================================================================
