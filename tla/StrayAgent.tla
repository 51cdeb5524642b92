----------------------------- MODULE StrayAgent -----------------------------
(* RemoteInputAgent of misc/stray_perf_loop.py: the script that runs on    *)
(* the device and the client that writes one request line and reads one    *)
(* reply line.  Neither carries an identifier: a reply that comes after    *)
(* the client gave up is read by the next call.  macos_gui.sh takes the    *)
(* same lock directory, and the PID of the game may die and be used again. *)
EXTENDS Integers, Sequences

CONSTANTS
    MaxCalls,       \* bound on the calls of the client
    MaxLate         \* bound on the calls that time out

ASSUME AgentBounds == MaxCalls \in Nat /\ MaxLate \in Nat

VARIABLES
    requests,       \* stdin of the script
    replies,        \* its stdout
    script,         \* gui_lease_held, stopped_processes, running
    device,         \* the game's PID, the lock directory, the markers
    client          \* the call in progress and what the caller concluded

agentVars == <<requests, replies, script, device, client>>

Signals == {"STOP", "CONT", "TERM", "KILL"}
Request == [op : {"status", "acquire", "release", "input", "file", "quit"}]
             \cup [op : {"exact"}, sig : Signals]
             \cup [op : {"markers"}, present : BOOLEAN]
Verdicts == {"match", "missing", "mismatch", "signaled", "denied"}

Call(op) == [op |-> op]

AgentInit ==
    /\ requests = <<>> /\ replies = <<>>
    /\ script = [alive |-> TRUE, lease |-> FALSE, stopped |-> FALSE]
    /\ device = [game |-> "live", lock |-> "free", marker |-> FALSE]
    /\ client = [call |-> Call("none"), calls |-> 0, late |-> 0,
                 exited |-> FALSE, lease |-> FALSE, closed |-> FALSE]

-----------------------------------------------------------------------------
(* The script.                                                             *)

(* process_basename against the expected name.                             *)
process_basename(game) ==
    CASE game = "gone"  -> "missing"
      [] game = "other" -> "mismatch"
      [] OTHER          -> "match"

(* send_signal: what the signal makes of the game, and what is remembered. *)
send_signal(sig) ==
    [ game |-> CASE sig = "KILL" -> "gone"
                 [] sig = "STOP" -> "stopped"
                 [] sig = "CONT" -> "live"
                 [] sig = "TERM" /\ device.game = "live" -> "gone"
                 [] OTHER -> device.game,
      stopped |-> CASE sig = "STOP" -> TRUE
                    [] sig = "CONT" -> FALSE
                    [] OTHER -> script.stopped ]

Reply(line) == replies' = Append(replies, line)
Served == requests' = Tail(requests)
Serving(op) == script.alive /\ requests # <<>> /\ Head(requests).op = op

ServeStatus ==
    /\ Serving("status")
    /\ Served /\ Reply(process_basename(device.game))
    /\ UNCHANGED <<script, device, client>>

(* Mutant: the signal is sent and its failure is reported as an absence.   *)
ServeExactUnchecked ==
    /\ Serving("exact")
    /\ Served
    /\ Reply(IF device.game = "other" THEN "missing" ELSE "signaled")
    /\ UNCHANGED <<script, client>>
    /\ device' = [device EXCEPT !.game = send_signal(Head(requests).sig).game]

(* signal_exact: only the expected executable is signalled.                *)
ServeExact ==
    /\ Serving("exact")
    /\ LET seen == process_basename(device.game)
           s == send_signal(Head(requests).sig)
       IN  \/ /\ seen # "match"
              /\ Reply(seen)
              /\ UNCHANGED <<script, device>>
           \/ /\ seen = "match"
              /\ Reply("denied")
              /\ UNCHANGED <<script, device>>
           \/ /\ seen = "match"
              /\ Reply("signaled")
              /\ device' = [device EXCEPT !.game = s.game]
              /\ script' = [script EXCEPT !.stopped = s.stopped]
    /\ Served
    /\ UNCHANGED client

(* acquire_gui_lease: mkdir of the lock directory.                         *)
ServeAcquire ==
    /\ Serving("acquire")
    /\ IF script.lease
       THEN Reply("held") /\ UNCHANGED <<script, device>>
       ELSE IF device.lock = "free"
       THEN /\ Reply("held")
            /\ device' = [device EXCEPT !.lock = "agent"]
            /\ script' = [script EXCEPT !.lease = TRUE]
       ELSE Reply("ERROR") /\ UNCHANGED <<script, device>>
    /\ Served
    /\ UNCHANGED client

(* Mutant: the lock is removed without a look at gui_lease_held.           *)
UnlockedAlways(d, held) == [d EXCEPT !.lock = "free"]

(* release_gui_lease removes only a lock this script holds.                *)
Unlocked(d, held) == IF held THEN [d EXCEPT !.lock = "free"] ELSE d

ServeRelease ==
    /\ Serving("release")
    /\ Served /\ Reply("held")
    /\ device' = Unlocked(device, script.lease)
    /\ script' = [script EXCEPT !.lease = FALSE]
    /\ UNCHANGED client

ServeMarkers ==
    /\ Serving("markers")
    /\ Served /\ Reply("changed")
    /\ device' = [device EXCEPT !.marker = Head(requests).present]
    /\ UNCHANGED <<script, client>>

(* open_url, key and gesture.                                              *)
ServeInput ==
    /\ Serving("input")
    /\ Served /\ \E line \in {"opened", "ERROR"} : Reply(line)
    /\ UNCHANGED <<script, device, client>>

(* get_file: a header and the bytes, or an error before the header.        *)
ServeFile ==
    /\ Serving("file")
    /\ Served
    /\ replies' \in { Append(replies, "ERROR"), replies \o <<"DATA", "bytes">> }
    /\ UNCHANGED <<script, device, client>>

(* Mutant: the lease is dropped, what was stopped is forgotten.            *)
TornDownFrozen(d) == Unlocked(d, script.lease)

(* The finally block: resume what was stopped, release the lease.          *)
TornDown(d) ==
    LET e == Unlocked(d, script.lease)
    IN  IF script.stopped /\ e.game = "stopped" THEN [e EXCEPT !.game = "live"]
        ELSE e

Stops ==
    /\ device' = TornDown(device)
    /\ script' = [alive |-> FALSE, lease |-> FALSE, stopped |-> FALSE]

ServeQuit ==
    /\ Serving("quit")
    /\ Served /\ Reply("quit")
    /\ Stops
    /\ UNCHANGED client

(* The channel breaks, or stdin ends after the client has closed it.       *)
ChannelEnds ==
    /\ script.alive
    /\ requests = <<>> \/ ~client.closed
    /\ Stops
    /\ UNCHANGED <<requests, replies, client>>

-----------------------------------------------------------------------------
(* The client.                                                             *)

Idle == client.call.op = "none" /\ ~client.closed

(* _request writes the line unless the process has ended.                  *)
Issue ==
    /\ Idle /\ script.alive /\ client.calls < MaxCalls
    /\ \E r \in Request \ {Call("quit")} :
         /\ requests' = Append(requests, r)
         /\ client' = [client EXCEPT !.call = r, !.calls = @ + 1]
    /\ UNCHANGED <<replies, script, device>>

(* What a call takes for its own answer.  The states are checked, the      *)
(* operation is not.                                                       *)
Accepts(op, line) ==
    CASE op = "status" -> line \in {"match", "missing", "mismatch"}
      [] op = "exact"  -> line \in Verdicts \ {"match"}
      [] op = "input"  -> line = "opened"
      [] op = "file"   -> line = "DATA"
      [] OTHER         -> line \notin {"ERROR", "DATA", "bytes"}

(* Mutant: a PID used by another program counts as an exit that was asked  *)
(* for, whatever the signal.                                               *)
ConcludesBroad(c, line) ==
    [c EXCEPT !.exited = @ \/ line \in {"missing", "signaled"}]

(* terminate_exact_game_with_agent and root_pid_liveness: only "missing"   *)
(* means that the game is gone.                                            *)
Concludes(c, line) ==
    [c EXCEPT !.exited = @ \/ (c.call.op \in {"status", "exact"}
                                 /\ line = "missing"),
              !.lease = CASE c.call.op = "acquire" -> TRUE
                          [] c.call.op = "release" -> FALSE
                          [] OTHER -> @]

(* _readline returns the oldest line; copy_file also reads the bytes.      *)
Answered ==
    /\ client.call.op # "none" /\ replies # <<>>
    /\ LET line == Head(replies)
           took == Accepts(client.call.op, line)
           c == IF took THEN Concludes(client, line) ELSE client
           whole == took /\ client.call.op = "file"
       IN  /\ whole => Len(replies) > 1
           /\ replies' = IF whole THEN Tail(Tail(replies)) ELSE Tail(replies)
           /\ client' = [c EXCEPT !.call = Call("none")]
    /\ UNCHANGED <<requests, script, device>>

(* select gives up; the request and its reply stay in the channel.         *)
TimesOut ==
    /\ client.call.op # "none" /\ client.late < MaxLate
    /\ script.alive => replies = <<>>
    /\ client' = [client EXCEPT !.call = Call("none"), !.late = @ + 1]
    /\ UNCHANGED <<requests, replies, script, device>>

(* close: quit, then wait and terminate.                                   *)
Close ==
    /\ Idle
    /\ requests' = IF script.alive THEN Append(requests, Call("quit"))
                   ELSE requests
    /\ client' = [client EXCEPT !.closed = TRUE]
    /\ UNCHANGED <<replies, script, device>>

-----------------------------------------------------------------------------
(* The game exits by itself, its PID is used again; macos_gui.sh takes and *)
(* drops the lock.                                                         *)
GameChanges ==
    /\ device' \in { [device EXCEPT !.game = CASE @ = "gone" -> "other"
                                               [] @ = "other" -> "other"
                                               [] OTHER -> "gone"],
                     [device EXCEPT !.lock = CASE @ = "free" -> "gui"
                                               [] @ = "gui"  -> "free"
                                               [] OTHER -> @] }
    /\ device' # device
    /\ UNCHANGED <<requests, replies, script, client>>

Serve == \/ ServeStatus \/ ServeExact \/ ServeAcquire \/ ServeRelease
         \/ ServeMarkers \/ ServeInput \/ ServeFile \/ ServeQuit

AgentNext == \/ Serve \/ ChannelEnds \/ Issue \/ Answered \/ TimesOut
             \/ Close \/ GameChanges

AgentSpec == AgentInit /\ [][AgentNext]_agentVars

-----------------------------------------------------------------------------
(* Properties *)

(* A caller that concluded the game is gone is right even when the reply   *)
(* it read was that of an earlier call, because no reply says "missing" of *)
(* a game that is still there and a dead game does not come back.          *)
ExitIsTrue == client.exited => device.game \in {"gone", "other"}

(* The program that took over the PID of the game is never signalled.      *)
StrangerSpared == device.game = "other" => device'.game = "other"

(* The lock of macos_gui.sh is only dropped by macos_gui.sh: no request,   *)
(* no late one and no teardown of the agent removes it.                    *)
GuiLockRespected ==
    device.lock = "gui" /\ device'.lock # "gui" => UNCHANGED script /\ UNCHANGED requests

(* Once the client has closed, the lease it held is dropped and a game it  *)
(* froze runs again, however the agent ends and whatever requests were     *)
(* still in its channel.                                                   *)
AgentLetsGo == client.closed ~> (device.lock # "agent" /\ device.game # "stopped")

(* What the agent does to the device is confined to the game and the lease *)
(* it was given, whatever request is served late or after its caller gave  *)
(* up, and what its caller concludes from a reply is so.                   *)
AgentHarmless == [][StrangerSpared /\ GuiLockRespected /\ ExitIsTrue']_agentVars
=============================================================================
