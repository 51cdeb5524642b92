---------------------------- MODULE StrayParts_proofs ----------------------------
(* Proofs about the parts of misc/stray_perf_loop.py that main relies on: the *)
(* agent on the device, the measurement streams, the following of a launch,   *)
(* the polling loops and the editors of the settings files.  Each section     *)
(* gives the inductive invariant of one part and derives what the runs of     *)
(* MCStrayParts check of it.                                                  *)
EXTENDS StrayAgent, StrayStreams, StrayLaunch, StrayReady, StrayProfile, SequencePieces,
        FiniteSetTheorems, WellFoundedInduction, TLAPS

-----------------------------------------------------------------------------
(* StrayAgent.                                                               *)

ReplyLines == Verdicts \cup {"held", "ERROR", "changed", "opened", "DATA", "bytes", "quit"}

GameGone == device.game \in {"gone", "other"}

\* No reply in the channel says "missing" of a game that is there.
RepliesTrue ==
    /\ replies \in Seq(ReplyLines)
    /\ \A i \in 1 .. Len(replies) : replies[i] = "missing" => GameGone

\* The script remembers its lock as long as it is its own.
ScriptFits ==
    /\ DOMAIN script = {"alive", "lease", "stopped"}
    /\ script.lease => device.lock = "agent"

AgentInv ==
    /\ ScriptFits
    /\ DOMAIN device = {"game", "lock", "marker"}
    /\ DOMAIN client = {"call", "calls", "late", "exited", "lease", "closed"}
    /\ RepliesTrue /\ ExitIsTrue

\* What a step may do to the device, and to the replies.
DeviceSafe ==
    /\ DOMAIN device' = {"game", "lock", "marker"}
    /\ GameGone => GameGone'
    /\ StrangerSpared /\ GuiLockRespected

LEMMA AgentStart == AgentInit => AgentInv
BY DEF AgentInit, AgentInv, ScriptFits, RepliesTrue, ExitIsTrue, GameGone

LEMMA ReplyAdded ==
  ASSUME RepliesTrue, NEW line \in ReplyLines, replies' = Append(replies, line),
         GameGone => GameGone', line = "missing" => GameGone'
  PROVE  RepliesTrue'
<1>1. /\ replies' \in Seq(ReplyLines) /\ Len(replies') = Len(replies) + 1
      /\ replies'[Len(replies) + 1] = line
      /\ \A i \in 1 .. Len(replies) : replies'[i] = replies[i]
      /\ Len(replies) \in Nat
  BY DEF RepliesTrue
<1> QED  BY <1>1 DEF RepliesTrue

LEMMA ReplyTaken ==
  ASSUME RepliesTrue, replies # <<>>, replies' = Tail(replies), GameGone => GameGone'
  PROVE  RepliesTrue'
<1>1. /\ replies' \in Seq(ReplyLines) /\ Len(replies) \in Nat \ {0} /\ Len(replies') = Len(replies) - 1
      /\ \A i \in 1 .. Len(replies) - 1 : replies'[i] = replies[i + 1]
  BY DEF RepliesTrue
<1> QED  BY <1>1 DEF RepliesTrue

\* The script answers the request at the head of its input with one line.
ServedWith(line) ==
    /\ replies' = Append(replies, line) /\ line \in ReplyLines
    /\ line = "missing" => GameGone'
    /\ DeviceSafe /\ ScriptFits' /\ client' = client

LEMMA ServedKeeps ==
  ASSUME AgentInv, NEW line, ServedWith(line)
  PROVE  AgentInv' /\ DeviceSafe
<1>1. GameGone => GameGone'
  BY DEF ServedWith, DeviceSafe
<1>2. RepliesTrue'
  BY <1>1, ReplyAdded DEF AgentInv, ServedWith
<1>3. ExitIsTrue'
  BY <1>1 DEF AgentInv, ServedWith, ExitIsTrue, GameGone
<1> QED  BY <1>2, <1>3 DEF AgentInv, ServedWith, DeviceSafe

LEMMA ReplyLinesAre ==
  {"held", "ERROR", "changed", "opened", "DATA", "bytes", "quit", "denied", "signaled"}
    \subseteq ReplyLines
BY DEF ReplyLines, Verdicts

LEMMA SeenIs ==
  /\ process_basename(device.game) \in ReplyLines
  /\ process_basename(device.game) = "missing" => device.game = "gone"
  /\ process_basename(device.game) = "match" => ~GameGone
BY DEF process_basename, ReplyLines, Verdicts, GameGone

\* A step that leaves the device and the script alone.
LEMMA DeviceAlone ==
  ASSUME AgentInv, UNCHANGED <<script, device>>
  PROVE  DeviceSafe /\ ScriptFits'
BY DEF AgentInv, ScriptFits, DeviceSafe, StrangerSpared, GuiLockRespected, GameGone

LEMMA TornDownSafe ==
  ASSUME AgentInv, device' = TornDown(device),
         script' = [alive |-> FALSE, lease |-> FALSE, stopped |-> FALSE]
  PROVE  DeviceSafe /\ ScriptFits'
BY DEF AgentInv, ScriptFits, DeviceSafe, StrangerSpared, GuiLockRespected, GameGone, TornDown,
   Unlocked

LEMMA ExactServed ==
  ASSUME AgentInv, ServeExact
  PROVE  \E line : ServedWith(line)
<1>1. PICK seen : seen = process_basename(device.game)
  OBVIOUS
<1>2. PICK s : s = send_signal(Head(requests).sig)
  OBVIOUS
<1>3. client' = client
  BY DEF ServeExact
<1>4. CASE seen # "match" /\ replies' = Append(replies, seen) /\ UNCHANGED <<script, device>>
  <2>1. seen = "missing" => GameGone'
    BY <1>1, <1>4, SeenIs DEF GameGone
  <2>2. ServedWith(seen)
    BY <1>1, <1>3, <1>4, <2>1, SeenIs, DeviceAlone DEF ServedWith
  <2> QED  BY <2>2
<1>5. CASE replies' = Append(replies, "denied") /\ UNCHANGED <<script, device>>
  <2>1. ServedWith("denied")
    BY <1>3, <1>5, ReplyLinesAre, DeviceAlone DEF ServedWith
  <2> QED  BY <2>1
<1>6. CASE /\ seen = "match" /\ replies' = Append(replies, "signaled")
           /\ device' = [device EXCEPT !.game = s.game]
           /\ script' = [script EXCEPT !.stopped = s.stopped]
  <2>1. /\ ~GameGone /\ device'.lock = device.lock
        /\ DOMAIN device' = {"game", "lock", "marker"}
        /\ DOMAIN script' = {"alive", "lease", "stopped"} /\ script'.lease = script.lease
    BY <1>1, <1>6, SeenIs DEF AgentInv, ScriptFits
  <2>2. DeviceSafe /\ ScriptFits'
    BY <2>1 DEF AgentInv, ScriptFits, DeviceSafe, StrangerSpared, GuiLockRespected, GameGone
  <2>3. ServedWith("signaled")
    BY <1>3, <1>6, <2>2, ReplyLinesAre DEF ServedWith
  <2> QED  BY <2>3
<1> QED  BY <1>1, <1>2, <1>4, <1>5, <1>6 DEF ServeExact, Reply

LEMMA LockServed ==
  ASSUME AgentInv, ServeAcquire \/ ServeRelease
  PROVE  \E line : ServedWith(line)
<1>1. PICK line \in {"held", "ERROR"} : replies' = Append(replies, line)
  BY DEF ServeAcquire, ServeRelease, Reply
<1>2. \/ UNCHANGED <<script, device>>
      \/ /\ device.lock = "free" /\ device' = [device EXCEPT !.lock = "agent"]
         /\ script' = [script EXCEPT !.lease = TRUE]
      \/ /\ script' = [script EXCEPT !.lease = FALSE]
         /\ device' = IF script.lease THEN [device EXCEPT !.lock = "free"] ELSE device
  BY DEF ServeAcquire, ServeRelease, Unlocked
<1>3. DeviceSafe /\ ScriptFits'
  BY <1>2 DEF AgentInv, ScriptFits, DeviceSafe, StrangerSpared, GuiLockRespected, GameGone
<1>4. client' = client
  BY DEF ServeAcquire, ServeRelease
<1>5. ServedWith(line)
  BY <1>1, <1>3, <1>4, ReplyLinesAre DEF ServedWith
<1> QED  BY <1>5

LEMMA PlainServed ==
  ASSUME AgentInv, ServeStatus \/ ServeMarkers \/ ServeInput \/ ServeQuit
  PROVE  \E line : ServedWith(line)
<1>1. PICK line : /\ replies' = Append(replies, line) /\ line \in ReplyLines
                  /\ line = "missing" => device.game = "gone" /\ device' = device
  BY ReplyLinesAre, SeenIs DEF ServeStatus, ServeMarkers, ServeInput, ServeQuit, Reply
<1>2. \/ UNCHANGED <<script, device>>
      \/ script' = script /\ device' = [device EXCEPT !.marker = Head(requests).present]
      \/ /\ device' = TornDown(device)
         /\ script' = [alive |-> FALSE, lease |-> FALSE, stopped |-> FALSE]
  BY DEF ServeStatus, ServeMarkers, ServeInput, ServeQuit, Stops
<1>3. ASSUME script' = script, device' = [device EXCEPT !.marker = Head(requests).present]
      PROVE  DeviceSafe /\ ScriptFits'
  BY <1>3 DEF AgentInv, ScriptFits, DeviceSafe, StrangerSpared, GuiLockRespected, GameGone
<1>4. DeviceSafe /\ ScriptFits'
  BY <1>2, <1>3, DeviceAlone, TornDownSafe
<1>5. client' = client
  BY DEF ServeStatus, ServeMarkers, ServeInput, ServeQuit
<1>6. ServedWith(line)
  BY <1>1, <1>4, <1>5 DEF ServedWith, GameGone
<1> QED  BY <1>6

LEMMA FileServed ==
  ASSUME AgentInv, ServeFile
  PROVE  AgentInv' /\ DeviceSafe
<1>1. UNCHANGED <<script, device, client>> /\ RepliesTrue
      /\ (replies' = Append(replies, "ERROR") \/ replies' = replies \o <<"DATA", "bytes">>)
  BY DEF AgentInv, ServeFile
<1>2. CASE replies' = Append(replies, "ERROR")
  <2>1. ServedWith("ERROR")
    BY <1>1, <1>2, ReplyLinesAre, DeviceAlone DEF ServedWith
  <2> QED  BY <2>1, ServedKeeps
<1>3. CASE replies' = replies \o <<"DATA", "bytes">>
  <2>1. <<"DATA", "bytes">> \in Seq(ReplyLines)
    BY ReplyLinesAre
  <2>2. /\ replies' \in Seq(ReplyLines) /\ Len(replies') = Len(replies) + 2 /\ Len(replies) \in Nat
        /\ \A i \in 1 .. Len(replies) : replies'[i] = replies[i]
        /\ replies'[Len(replies) + 1] = "DATA" /\ replies'[Len(replies) + 2] = "bytes"
    BY <1>1, <1>3, <2>1 DEF RepliesTrue
  <2>3. RepliesTrue'
    BY <1>1, <2>2 DEF RepliesTrue, GameGone
  <2> QED  BY <1>1, <2>3, DeviceAlone DEF AgentInv, ExitIsTrue
<1> QED  BY <1>1, <1>2, <1>3

\* Whatever the client makes of a reply, it concludes an exit from a true one.
LEMMA AnsweredKeeps ==
  ASSUME AgentInv, Answered
  PROVE  AgentInv' /\ DeviceSafe
<1>0. RepliesTrue /\ replies # <<>> /\ UNCHANGED <<requests, script, device>>
  BY DEF AgentInv, Answered
<1>1. PICK line, c : /\ line = Head(replies) /\ client' = [c EXCEPT !.call = Call("none")]
                     /\ c = IF Accepts(client.call.op, line) THEN Concludes(client, line) ELSE client
                     /\ \/ replies' = Tail(replies)
                        \/ Len(replies) > 1 /\ replies' = Tail(Tail(replies))
  BY DEF Answered
<1>2. line = "missing" => GameGone
  BY <1>0, <1>1 DEF RepliesTrue
<1>3. /\ DOMAIN client' = {"call", "calls", "late", "exited", "lease", "closed"}
      /\ client'.exited => client.exited \/ line = "missing"
  <2>1. DOMAIN c = DOMAIN client /\ (c.exited => client.exited \/ line = "missing")
    BY <1>1 DEF Concludes, AgentInv
  <2> QED  BY <1>1, <2>1 DEF AgentInv
<1>4. RepliesTrue'
  <2>1. CASE replies' = Tail(replies)
    <3>1. GameGone => GameGone'
      BY <1>0 DEF GameGone
    <3> QED  BY <1>0, <2>1, <3>1, ReplyTaken
  <2>2. CASE Len(replies) > 1 /\ replies' = Tail(Tail(replies))
    <3>1. PICK n : n = Len(replies) /\ n \in Nat /\ n > 1
      BY <1>0, <2>2 DEF RepliesTrue
    <3>2. /\ Tail(replies) \in Seq(ReplyLines) /\ Len(Tail(replies)) = n - 1
          /\ \A i \in 1 .. n - 1 : Tail(replies)[i] = replies[i + 1]
      BY <1>0, <3>1 DEF RepliesTrue
    <3>3. /\ replies' \in Seq(ReplyLines) /\ Len(replies') = n - 2
          /\ \A i \in 1 .. n - 2 : replies'[i] = replies[i + 2]
      BY <2>2, <3>1, <3>2
    <3> QED  BY <1>0, <3>1, <3>3 DEF RepliesTrue, GameGone
  <2> QED  BY <1>1, <2>1, <2>2
<1> QED  BY <1>0, <1>2, <1>3, <1>4
         DEF AgentInv, ScriptFits, DeviceSafe, StrangerSpared, GuiLockRespected, ExitIsTrue, GameGone

LEMMA AgentStep == AgentInv /\ [AgentNext]_agentVars => AgentInv' /\ DeviceSafe
<1> SUFFICES ASSUME AgentInv, [AgentNext]_agentVars PROVE AgentInv' /\ DeviceSafe
  OBVIOUS
<1> USE DEF StrangerSpared, GuiLockRespected, ExitIsTrue, GameGone
<1>1. CASE Serve
  BY <1>1, ServedKeeps, ExactServed, LockServed, PlainServed, FileServed DEF Serve
<1>2. CASE ChannelEnds
  <2>1. /\ device' = TornDown(device) /\ UNCHANGED <<requests, replies, client>>
        /\ script' = [alive |-> FALSE, lease |-> FALSE, stopped |-> FALSE]
    BY <1>2 DEF ChannelEnds, Stops
  <2>2. DeviceSafe /\ ScriptFits'
    BY <2>1, TornDownSafe
  <2> QED  BY <2>1, <2>2 DEF AgentInv, ScriptFits, DeviceSafe, RepliesTrue
<1>3. CASE Issue \/ TimesOut \/ Close
  <2>1. /\ UNCHANGED <<replies, script, device>> /\ DOMAIN client' = DOMAIN client
        /\ client'.exited = client.exited
    BY <1>3 DEF Issue, TimesOut, Close, AgentInv
  <2> QED  BY <2>1 DEF AgentInv, ScriptFits, DeviceSafe, RepliesTrue
<1>4. CASE GameChanges
  <2>1. /\ UNCHANGED <<requests, replies, script, client>>
        /\ DOMAIN device' = DOMAIN device
        /\ GameGone => GameGone'
        /\ device.game = "other" => device'.game = "other"
        /\ device.lock = "agent" => device'.lock = "agent"
    BY <1>4 DEF GameChanges, AgentInv
  <2> QED  BY <2>1 DEF AgentInv, ScriptFits, DeviceSafe, RepliesTrue
<1>5. CASE UNCHANGED agentVars
  BY <1>5 DEF agentVars, AgentInv, ScriptFits, DeviceSafe, RepliesTrue
<1> QED  BY <1>1, <1>2, <1>3, <1>4, <1>5, AnsweredKeeps DEF AgentNext

\* Whatever the requests and however late the replies, the agent leaves
\* the program alone that took over the PID of the game and the lock of
\* macos_gui.sh, and its client concludes an exit only of a game that is gone.
THEOREM AgentHarmlessAlways == AgentSpec => AgentHarmless
<1>1. AgentInv /\ [AgentNext]_agentVars
        => [StrangerSpared /\ GuiLockRespected /\ ExitIsTrue']_agentVars
  BY AgentStep DEF AgentInv, DeviceSafe
<1>2. AgentInv /\ [AgentNext]_agentVars => AgentInv'
  BY AgentStep
<1> QED  BY AgentStart, <1>1, <1>2, PTL DEF AgentSpec, AgentHarmless

-----------------------------------------------------------------------------
(* StrayStreams.                                                             *)

\* The lines that were not reported follow the last reading without a gap:
\* those read ahead (h) and those in the pipe (l), after the reading t, up to a.
Follows(h, l, t, a) ==
    /\ h \in Seq(Nat) /\ l \in Seq(Nat) /\ t \in Nat
    /\ a = t + Len(h) + Len(l)
    /\ \A i \in 1 .. Len(h) : h[i] = t + i
    /\ \A i \in 1 .. Len(l) : l[i] = t + Len(h) + i

LinesFollow == Follows(held, lines, latest, arrived)

LEMMA FollowsMore ==
  ASSUME NEW h, NEW l, NEW t, NEW a, Follows(h, l, t, a), NEW new \in Seq(Nat),
         \A i \in 1 .. Len(new) : new[i] = a + i
  PROVE  Follows(h, l \o new, t, a + Len(new))
<1>1. /\ h \in Seq(Nat) /\ l \in Seq(Nat) /\ t \in Nat
      /\ a = t + Len(h) + Len(l)
      /\ \A i \in 1 .. Len(h) : h[i] = t + i
      /\ \A i \in 1 .. Len(l) : l[i] = t + Len(h) + i
  BY DEF Follows
<1>2. PICK hn \in Nat, ln \in Nat, nn \in Nat : hn = Len(h) /\ ln = Len(l) /\ nn = Len(new)
  BY <1>1
<1>3. PICK m : m = l \o new
  OBVIOUS
<1>4. m \in Seq(Nat) /\ Len(m) = ln + nn
  BY <1>1, <1>2, <1>3
<1>5. \A i \in 1 .. ln : m[i] = l[i]
  BY <1>1, <1>2, <1>3
<1>6. ASSUME NEW i \in 1 .. ln + nn PROVE m[i] = t + hn + i
  <2>1. CASE i \in 1 .. ln
    BY <1>1, <1>2, <1>5, <2>1
  <2>2. CASE i > ln
    <3>1. i - ln \in 1 .. nn /\ m[i] = new[i - ln]
      BY <1>1, <1>2, <1>3, <2>2
    <3>2. new[i - ln] = a + (i - ln)
      BY <1>2, <3>1
    <3> QED  BY <1>1, <1>2, <3>1, <3>2
  <2> QED  BY <1>2, <2>1, <2>2
<1>7. a + nn = t + hn + (ln + nn)
  BY <1>1, <1>2
<1> QED  BY <1>1, <1>2, <1>3, <1>4, <1>6, <1>7 DEF Follows

LEMMA FollowsTaken ==
  ASSUME NEW h, NEW l, NEW t, NEW a, Follows(h, l, t, a), NEW n \in 1 .. Len(h)
  PROVE  h[n] = t + n /\ Follows(SubSeq(h, n + 1, Len(h)), l, t + n, a)
<1>1. /\ h \in Seq(Nat) /\ l \in Seq(Nat) /\ t \in Nat
      /\ a = t + Len(h) + Len(l)
      /\ \A i \in 1 .. Len(h) : h[i] = t + i
      /\ \A i \in 1 .. Len(l) : l[i] = t + Len(h) + i
  BY DEF Follows
<1>2. PICK hn \in Nat, ln \in Nat : hn = Len(h) /\ ln = Len(l)
  BY <1>1
<1>3. PICK m : m = SubSeq(h, n + 1, hn)
  OBVIOUS
<1>4. m \in Seq(Nat) /\ Len(m) = hn - n /\ \A i \in 1 .. hn - n : m[i] = h[n + i]
  <2>1. n \in Nat /\ n >= 1 /\ n <= hn
    BY <1>2
  <2>2. m = [i \in 1 .. hn - n |-> h[n + i]]
    BY <1>1, <1>2, <1>3, <2>1
  <2>3. \A i \in 1 .. hn - n : h[n + i] \in Nat
    BY <1>1, <1>2, <2>1
  <2> QED  BY <1>2, <2>1, <2>2, <2>3
<1>5. \A i \in 1 .. hn - n : m[i] = t + n + i
  BY <1>1, <1>2, <1>4
<1>6. \A i \in 1 .. ln : l[i] = t + n + (hn - n) + i
  BY <1>1, <1>2
<1>7. a = t + n + (hn - n) + ln /\ t + n \in Nat
  BY <1>1, <1>2
<1> QED  BY <1>1, <1>2, <1>3, <1>4, <1>5, <1>6, <1>7 DEF Follows

LEMMA FollowsRead ==
  ASSUME NEW h, NEW l, NEW t, NEW a, Follows(h, l, t, a), l # <<>>
  PROVE  l[1] = t + Len(h) + 1 /\ Follows(Tail(l), <<>>, t + Len(h) + 1, a)
<1>1. /\ h \in Seq(Nat) /\ l \in Seq(Nat) /\ t \in Nat
      /\ a = t + Len(h) + Len(l)
      /\ \A i \in 1 .. Len(l) : l[i] = t + Len(h) + i
  BY DEF Follows
<1>2. PICK hn \in Nat, ln \in Nat : hn = Len(h) /\ ln = Len(l) /\ ln > 0
  BY <1>1
<1>3. PICK m : m = Tail(l)
  OBVIOUS
<1>4. m \in Seq(Nat) /\ Len(m) = ln - 1 /\ \A i \in 1 .. ln - 1 : m[i] = l[i + 1]
  BY <1>1, <1>2, <1>3
<1>5. \A i \in 1 .. ln - 1 : m[i] = t + hn + 1 + i
  BY <1>1, <1>2, <1>4
<1>6. <<>> \in Seq(Nat) /\ Len(<<>>) = 0
  OBVIOUS
<1>7. a = t + hn + 1 + (ln - 1) + 0 /\ t + hn + 1 \in Nat
  BY <1>1, <1>2
<1>8. l[1] = t + hn + 1
  BY <1>1, <1>2
<1> QED  BY <1>2, <1>3, <1>4, <1>5, <1>6, <1>7, <1>8 DEF Follows

Counters == produced \in Nat /\ arrived \in Nat /\ start \in Nat /\ end \in Nat

\* A mark is taken after everything that had arrived.
MarkTaken == scored.ok => scored.mark \in Nat /\ scored.before \in Nat /\ scored.mark >= scored.before

StreamInv ==
    /\ Counters /\ LinesFollow /\ MarkTaken
    /\ StreamBounded /\ EvidenceContiguous

LEMMA StreamStart == StreamInit => StreamInv
BY StreamAssumption DEF StreamInit, StreamInv, Counters, LinesFollow, MarkTaken, StreamBounded,
   EvidenceContiguous, Ranged, Raise, Follows

\* A drain moves on and discards what no longer fits the window, no more.
LEMMA DrainedIs ==
  ASSUME NEW b, NEW s \in Nat, NEW e \in Nat, b.start = s, b.end = e, s <= e, e - s <= Window,
         NEW upTo \in Nat, e <= upTo
  PROVE  /\ Drained(b, upTo).start \in Nat /\ Drained(b, upTo).end \in Nat
         /\ e <= Drained(b, upTo).end /\ Drained(b, upTo).end <= upTo
         /\ Drained(b, upTo).end <= e + Quota
         /\ Drained(b, upTo).start <= Drained(b, upTo).end
         /\ Drained(b, upTo).end - Drained(b, upTo).start <= Window
         /\ \/ Drained(b, upTo).start = s
            \/ Drained(b, upTo).start = Drained(b, upTo).end - Window
<1>1. PICK last : last = IF upTo - e > Quota THEN e + Quota ELSE upTo
  OBVIOUS
<1>2. last \in Nat /\ e <= last /\ last <= upTo /\ last <= e + Quota
  BY <1>1, StreamAssumption
<1>3. /\ Drained(b, upTo).end = last
      /\ Drained(b, upTo).start = IF last - s > Window THEN last - Window ELSE s
  BY <1>1 DEF Drained
<1> QED  BY <1>2, <1>3, StreamAssumption

LEMMA LinesArrive ==
  ASSUME StreamInv, NEW more \in Nat, arrived' = arrived + more,
         lines' = lines \o [i \in 1 .. more |-> arrived + i], UNCHANGED <<held, latest>>
  PROVE  LinesFollow'
<1>1. PICK new : new = [i \in 1 .. more |-> arrived + i]
  OBVIOUS
<1>2. Follows(held, lines, latest, arrived) /\ arrived \in Nat
  BY DEF StreamInv, Counters, LinesFollow
<1>3. new \in Seq(Nat) /\ Len(new) = more /\ \A i \in 1 .. more : new[i] = arrived + i
  BY <1>1, <1>2
<1>4. Follows(held, lines \o new, latest, arrived + more)
  BY <1>2, <1>3, FollowsMore
<1> QED  BY <1>1, <1>4 DEF LinesFollow

\* What the invariant says of the last reading.
LEMMA ReadingsKnown ==
  ASSUME LinesFollow PROVE latest \in Nat /\ latest <= arrived
BY DEF LinesFollow, Follows

LEMMA SnapshotKeeps == ASSUME StreamInv, snapshot_from PROVE StreamInv' /\ ReadingsAdvance
<1>1. PICK offset \in 0 .. MaxProduced : \E more \in 0 .. (produced - arrived) :
      LET once == Drained(Buffer, arrived)
          ahead == offset - once.start > once.end - once.start
          twice == IF ahead THEN Drained(once, arrived + more) ELSE once
          from == offset - twice.start
      IN  /\ more > 0 => ahead
          /\ arrived' = arrived + more
          /\ lines' = lines \o [i \in 1 .. more |-> arrived + i]
          /\ start' = twice.start /\ end' = twice.end
          /\ answer' = IF offset < once.start \/ from > twice.end - twice.start
                       THEN Raise
                       ELSE [ok |-> TRUE, offset |-> offset,
                             first |-> SliceFrom(twice, from), last |-> twice.end]
          /\ UNCHANGED <<produced, scored, held, latest>>
  BY DEF snapshot_from
<1>2. PICK once : once = Drained(Buffer, arrived)
  OBVIOUS
<1>3. PICK more \in 0 .. (produced - arrived) :
      LET ahead == offset - once.start > once.end - once.start
          twice == IF ahead THEN Drained(once, arrived + more) ELSE once
          from == offset - twice.start
      IN  /\ more > 0 => ahead
          /\ arrived' = arrived + more
          /\ lines' = lines \o [i \in 1 .. more |-> arrived + i]
          /\ start' = twice.start /\ end' = twice.end
          /\ answer' = IF offset < once.start \/ from > twice.end - twice.start
                       THEN Raise
                       ELSE [ok |-> TRUE, offset |-> offset,
                             first |-> SliceFrom(twice, from), last |-> twice.end]
          /\ UNCHANGED <<produced, scored, held, latest>>
  BY <1>1, <1>2
<1>4. PICK twice : twice = IF offset - once.start > once.end - once.start
                           THEN Drained(once, arrived + more) ELSE once
  OBVIOUS
<1>5. /\ arrived' = arrived + more
      /\ lines' = lines \o [i \in 1 .. more |-> arrived + i]
      /\ start' = twice.start /\ end' = twice.end
      /\ UNCHANGED <<produced, scored, held, latest>>
      /\ \/ answer' = Raise
         \/ /\ ~(offset < once.start) /\ ~(offset - twice.start > twice.end - twice.start)
            /\ answer' = [ok |-> TRUE, offset |-> offset,
                          first |-> SliceFrom(twice, offset - twice.start), last |-> twice.end]
  BY <1>3, <1>4
<1>6. Counters /\ StreamBounded /\ MaxProduced \in Nat /\ more \in Nat /\ offset \in Nat
      /\ arrived + more <= produced /\ arrived + more \in Nat
  BY <1>1, <1>3, StreamAssumption DEF StreamInv, Counters, StreamBounded
<1>7. /\ once.start \in Nat /\ once.end \in Nat /\ once.end <= arrived
      /\ once.start <= once.end /\ once.end - once.start <= Window
  BY <1>2, <1>6, DrainedIs DEF Counters, StreamBounded, Buffer
<1>8. /\ twice.start \in Nat /\ twice.end \in Nat /\ twice.end <= arrived + more
      /\ twice.start <= twice.end /\ twice.end - twice.start <= Window
      /\ twice.start <= offset \/ offset < once.start
  <2>1. CASE offset - once.start > once.end - once.start
    <3>1. twice = Drained(once, arrived + more)
      BY <1>4, <2>1
    <3>2. once.end <= arrived + more
      BY <1>6, <1>7 DEF Counters
    <3>3. /\ twice.start \in Nat /\ twice.end \in Nat /\ twice.end <= arrived + more
          /\ twice.end <= once.end + Quota
          /\ twice.start <= twice.end /\ twice.end - twice.start <= Window
          /\ twice.start = once.start \/ twice.start = twice.end - Window
      BY <1>6, <1>7, <3>1, <3>2, DrainedIs
    <3>4. once.end < offset
      BY <1>6, <1>7, <2>1
    <3>5. twice.start <= offset
      BY <1>6, <1>7, <3>3, <3>4, StreamAssumption
    <3> QED  BY <3>3, <3>5
  <2>2. CASE ~(offset - once.start > once.end - once.start)
    BY <1>4, <1>6, <1>7, <2>2 DEF Counters
  <2> QED  BY <2>1, <2>2
<1>9. LinesFollow'
  BY <1>5, <1>6, LinesArrive
<1>10. EvidenceContiguous'
  <2>1. CASE answer' = Raise
    BY <2>1 DEF EvidenceContiguous, Ranged, Raise
  <2>2. CASE /\ ~(offset < once.start) /\ ~(offset - twice.start > twice.end - twice.start)
             /\ answer' = [ok |-> TRUE, offset |-> offset,
                           first |-> SliceFrom(twice, offset - twice.start), last |-> twice.end]
    <3>1. SliceFrom(twice, offset - twice.start) = offset /\ offset <= twice.end
      BY <1>6, <1>7, <1>8, <2>2 DEF SliceFrom
    <3> QED  BY <1>6, <1>8, <2>2, <3>1 DEF EvidenceContiguous
  <2> QED  BY <1>5, <2>1, <2>2
<1>11. Counters' /\ StreamBounded' /\ MarkTaken'
  <2>1. latest' \in 0 .. arrived'
    BY <1>5, <1>6, <1>9, ReadingsKnown DEF LinesFollow, Follows
  <2> QED  BY <1>5, <1>6, <1>8, <2>1 DEF Counters, StreamBounded, StreamInv, MarkTaken
<1>12. ReadingsAdvance
  BY <1>5, ReadingsKnown DEF StreamInv, ReadingsAdvance
<1> QED  BY <1>9, <1>10, <1>11, <1>12 DEF StreamInv

\* Both readers of the power stream drain the whole backlog first.
LEMMA BacklogIs ==
  ASSUME StreamInv
  PROVE  /\ _drain_backlog.end = arrived /\ _drain_backlog.start \in 0 .. arrived
         /\ arrived - _drain_backlog.start <= Window
BY StreamAssumption DEF StreamInv, Counters, StreamBounded, _drain_backlog

LEMMA PowerKeeps == ASSUME StreamInv, mark \/ samples_since PROVE StreamInv' /\ ReadingsAdvance
<1>1. PICK b : b = _drain_backlog
  OBVIOUS
<1>2. b.end = arrived /\ b.start \in 0 .. arrived /\ arrived - b.start <= Window
  BY <1>1, BacklogIs
<1>3. /\ start' = b.start /\ end' = b.end /\ UNCHANGED <<produced, arrived, lines, held, latest>>
      /\ \/ scored' = [ok |-> TRUE, mark |-> b.end, before |-> arrived] /\ answer' = Raise
         \/ /\ scored.ok /\ scored' = scored
            /\ \/ answer' = Raise
               \/ /\ ~FellBehind(scored.mark - b.start)
                  /\ ~(scored.mark - b.start > b.end - b.start)
                  /\ answer' = [ok |-> TRUE, offset |-> scored.mark,
                                first |-> SliceFrom(b, scored.mark - b.start), last |-> b.end]
  BY <1>1 DEF mark, samples_since
<1>4. Counters' /\ StreamBounded' /\ LinesFollow'
  BY <1>2, <1>3 DEF StreamInv, Counters, StreamBounded, LinesFollow
<1>5. MarkTaken'
  BY <1>2, <1>3 DEF StreamInv, Counters, MarkTaken
<1>6. EvidenceContiguous'
  <2>1. CASE answer' = Raise
    BY <2>1 DEF EvidenceContiguous, Ranged, Raise
  <2>2. CASE /\ scored.ok /\ ~FellBehind(scored.mark - b.start)
             /\ ~(scored.mark - b.start > b.end - b.start)
             /\ answer' = [ok |-> TRUE, offset |-> scored.mark,
                           first |-> SliceFrom(b, scored.mark - b.start), last |-> b.end]
    <3>1. scored.mark \in Nat /\ arrived \in Nat
      BY <2>2 DEF StreamInv, Counters, MarkTaken
    <3>2. SliceFrom(b, scored.mark - b.start) = scored.mark /\ scored.mark <= b.end
      BY <1>2, <2>2, <3>1 DEF SliceFrom, FellBehind
    <3> QED  BY <1>2, <2>2, <3>1, <3>2 DEF EvidenceContiguous
  <2> QED  BY <1>3, <2>1, <2>2
<1>7. ReadingsAdvance
  BY <1>3, ReadingsKnown DEF StreamInv, ReadingsAdvance
<1> QED  BY <1>3, <1>4, <1>5, <1>6, <1>7 DEF StreamInv

LEMMA ThermalKeeps == ASSUME StreamInv, thermal_snapshot PROVE StreamInv' /\ ReadingsAdvance
<1>1. PICK n \in RoundsTaken :
          /\ lines' = ReadLines(n).lines /\ held' = ReadLines(n).held
          /\ latest' = Retained(ReadLines(n).newest)
          /\ answer' = IF Retained(ReadLines(n).newest) = 0 THEN Raise
                       ELSE [ok |-> TRUE, sample |-> Retained(ReadLines(n).newest)]
          /\ UNCHANGED <<produced, arrived, start, end, scored>>
  BY DEF thermal_snapshot
<1>2. /\ Follows(held, lines, latest, arrived) /\ latest \in Nat /\ arrived \in Nat
      /\ held \in Seq(Nat) /\ lines \in Seq(Nat) /\ Len(held) \in Nat
  BY DEF StreamInv, LinesFollow, Follows, Counters
<1>3. LinesFollow' /\ latest' >= latest
  <2>1. CASE n = 0
    <3>1. lines' = lines /\ held' = SubSeq(held, 1, Len(held)) /\ latest' = latest
      BY <1>1, <1>2, <2>1 DEF ReadLines, Retained
    <3>2. held' = held
      BY <1>2, <3>1
    <3>3. Follows(held', lines', latest', arrived')
      BY <1>1, <1>2, <3>1, <3>2
    <3> QED  BY <1>2, <3>1, <3>3 DEF LinesFollow
  <2>2. CASE n \in 1 .. Len(held)
    <3>1. held[n] = latest + n /\ Follows(SubSeq(held, n + 1, Len(held)), lines, latest + n, arrived)
      BY <1>2, <2>2, FollowsTaken
    <3>2. (held \o lines)[n] = latest + n
      BY <1>2, <2>2, <3>1
    <3>3. lines' = lines /\ held' = SubSeq(held, n + 1, Len(held)) /\ latest' = latest + n
      BY <1>1, <1>2, <2>2, <3>2 DEF ReadLines, Retained
    <3> QED  BY <1>1, <1>2, <2>2, <3>1, <3>3 DEF LinesFollow
  <2>3. CASE n = Len(held) + 1 /\ lines # <<>>
    <3>1. /\ lines[1] = latest + Len(held) + 1
          /\ Follows(Tail(lines), <<>>, latest + Len(held) + 1, arrived)
      BY <1>2, <2>3, FollowsRead
    <3>2. (held \o lines)[n] = lines[1]
      BY <1>2, <2>3
    <3>3. lines' = <<>> /\ held' = Tail(lines) /\ latest' = latest + Len(held) + 1
      BY <1>1, <1>2, <2>3, <3>1, <3>2 DEF ReadLines, Retained
    <3> QED  BY <1>1, <1>2, <3>1, <3>3 DEF LinesFollow
  <2>4. n = 0 \/ n \in 1 .. Len(held) \/ (n = Len(held) + 1 /\ lines # <<>>)
    BY <1>2 DEF RoundsTaken
  <2> QED  BY <2>1, <2>2, <2>3, <2>4
<1>4. EvidenceContiguous'
  BY <1>1 DEF EvidenceContiguous, Ranged, Raise
<1>5. Counters' /\ MarkTaken' /\ StreamBounded'
  <2>1. latest' \in Nat /\ latest' <= arrived'
    BY <1>1, <1>3 DEF LinesFollow, Follows
  <2> QED  BY <1>1, <2>1 DEF StreamInv, Counters, MarkTaken, StreamBounded
<1> QED  BY <1>3, <1>4, <1>5 DEF StreamInv, ReadingsAdvance

LEMMA StreamStep == StreamInv /\ [StreamNext]_streamVars => StreamInv' /\ ReadingsAdvance
<1> SUFFICES ASSUME StreamInv, [StreamNext]_streamVars PROVE StreamInv' /\ ReadingsAdvance
  OBVIOUS
<1>1. CASE Produce
  BY <1>1, StreamAssumption DEF Produce, StreamInv, Counters, LinesFollow, MarkTaken,
     StreamBounded, EvidenceContiguous, Ranged, ReadingsAdvance
<1>2. CASE Arrive
  <2>1. /\ arrived' = arrived + 1 /\ arrived < produced /\ lines' = Append(lines, arrived + 1)
        /\ UNCHANGED <<produced, start, end, scored, held, latest, answer>>
    BY <1>2 DEF Arrive
  <2>2. LinesFollow'
    <3>1. /\ Follows(held, lines, latest, arrived) /\ arrived \in Nat /\ lines \in Seq(Nat)
          /\ Append(lines, arrived + 1) = lines \o <<arrived + 1>>
          /\ <<arrived + 1>> \in Seq(Nat) /\ Len(<<arrived + 1>>) = 1
          /\ \A i \in 1 .. 1 : <<arrived + 1>>[i] = arrived + i
      <4>1. /\ Follows(held, lines, latest, arrived) /\ arrived \in Nat /\ lines \in Seq(Nat)
        BY DEF StreamInv, Counters, LinesFollow, Follows
      <4> QED  BY <4>1
    <3>2. Follows(held, lines \o <<arrived + 1>>, latest, arrived + 1)
      BY <3>1, FollowsMore
    <3> QED  BY <2>1, <3>1, <3>2 DEF LinesFollow
  <2>3. ReadingsAdvance
    BY <2>1, ReadingsKnown DEF StreamInv, ReadingsAdvance
  <2> QED  BY <2>1, <2>2, <2>3 DEF StreamInv, Counters, MarkTaken, StreamBounded,
           EvidenceContiguous, Ranged
<1>3. CASE UNCHANGED streamVars
  BY <1>3 DEF streamVars, StreamInv, Counters, LinesFollow, MarkTaken, StreamBounded,
     EvidenceContiguous, Ranged, ReadingsAdvance
<1> QED  BY <1>1, <1>2, <1>3, SnapshotKeeps, PowerKeeps, ThermalKeeps DEF StreamNext

\* What a benchmark scores is the lines of its own window, each once and in
\* order: reading late, reading ahead and losing the oldest lines never opens a
\* gap or counts the backlog.
THEOREM EvidenceSoundAlways == StreamSpec => EvidenceSound
<1>1. StreamInv /\ [StreamNext]_streamVars
        => [StreamBounded' /\ EvidenceContiguous' /\ BacklogNotScored' /\ ReadingsAdvance]_streamVars
  BY StreamStep DEF StreamInv, MarkTaken, BacklogNotScored
<1>2. StreamInv /\ [StreamNext]_streamVars => StreamInv'
  BY StreamStep
<1> QED  BY StreamStart, <1>1, <1>2, PTL DEF StreamSpec, EvidenceSound

-----------------------------------------------------------------------------
(* StrayLaunch.                                                              *)

Past == steam.task \in {"SynchronizingStats", "CreatingProcess", "Completed", "Failed"}
Leaving == {"SynchronizingStats", "CreatingProcess", "Completed", "Failed"}

\* A task that has left the cloud said so behind every cloud warning.
SteamFine ==
    /\ DOMAIN steam = {"task", "dialog", "click", "asked", "game"}
    /\ log \in Seq(Events)
    /\ steam.task \in Tasks
    /\ steam.dialog \in {"none", "cloud", "kick"}
    /\ steam.dialog = "kick" => steam.task = "SynchronizingStats"
    /\ Past => \E s \in At(Leaving, 0) : \A i \in At({"cloudWait"}, 0) : i < s

\* What a wait may still blame on a cloud warning was not clicked away.
BlameFine ==
    /\ runner.clicked \subseteq 0 .. Len(log)
    /\ runner.stage \in {"request", "missing", "stalled", "cloud"} => runner.clicked = {}
    /\ runner.stage = "kickAck" => Past
    /\ runner.stage = "wait" =>
         \/ runner.next \in {"missing", "stalled", "cloud"} /\ runner.clicked = {}
         \/ /\ runner.next = "kick"
            /\ \A i \in At({"cloudWait"}, 0) : i \in runner.clicked => i <= wait.cloudFloor
         \/ runner.next = "error49" /\ wait.offset = 0 /\ Past
         \/ runner.next = "check" /\ \A i \in runner.clicked : i <= wait.offset
    /\ runner.stage \notin {"wait", "cloudAck"} /\ runner.last = "cloud_sync_failed"
         => \E i \in At({"cloudWait"}, 0) : i \notin runner.clicked

\* A launch by Play is judged by the lines behind its last request.
PlayFine ==
    ~runner.applaunch =>
      /\ wait.offset = runner.asked
      /\ runner.asked # 0 => \/ runner.stage \in {"check", "launched", "raised"}
                             \/ runner.stage = "wait" /\ runner.next = "check"
      /\ runner.stage # "wait" /\ runner.last \in DOMAIN Grounds
           => At({Grounds[runner.last]}, runner.asked) # {}

RunnerFine ==
    /\ DOMAIN runner = {"stage", "applaunch", "next", "offset", "asked", "last", "saw", "clicked"}
    /\ DOMAIN wait = {"offset", "cloudFloor", "kickFloor", "task", "since", "left", "pid"}
    /\ runner.offset = 0 /\ runner.asked \in Nat /\ wait.offset \in Nat
    /\ wait.cloudFloor \in Nat
    /\ runner.stage = "request" => runner.asked = 0
    /\ runner.next \in {"none", "missing", "stalled", "cloud", "kick", "error49", "check"}
    /\ runner.stage = "wait" => runner.next # "none"

LaunchInv == SteamFine /\ RunnerFine /\ BlameFine /\ PlayFine

\* The last line of some that were found is one of them and behind the rest.
LEMMA LastOfSome ==
  ASSUME NEW n \in Nat, NEW S \in SUBSET (1 .. n), S # {}
  PROVE  Latest(S) \in S /\ \A j \in S : j <= Latest(S)
<1> DEFINE U == {m \in Nat : \A j \in S : j <= m}
<1>1. n \in U
  OBVIOUS
<1>2. PICK m \in U : \A k \in U : m <= k
  <2>1. PICK m \in U : \A k \in U : <<k, m>> \notin OpToRel(<, Nat)
    BY <1>1, NatLessThanWellFounded, WFMin
  <2>2. \A k \in U : ~(k < m)
    BY <2>1 DEF OpToRel
  <2> QED  BY <2>2
<1>3. m \in S
  <2>1. SUFFICES ASSUME m \notin S PROVE FALSE
    OBVIOUS
  <2>2. PICK j \in S : TRUE
    OBVIOUS
  <2>3. m - 1 \in U
    BY <2>1, <2>2
  <2> QED  BY <1>2, <2>3
<1>4. \E i \in S : \A j \in S : j <= i
  BY <1>3
<1> QED  BY <1>4 DEF Latest

LEMMA LastLine ==
  ASSUME log \in Seq(Events), NEW E, NEW from
  PROVE  /\ At(E, from) = {} => Latest(At(E, from)) = 0
         /\ At(E, from) # {} => /\ Latest(At(E, from)) \in At(E, from)
                                /\ \A j \in At(E, from) : j <= Latest(At(E, from))
<1>1. Len(log) \in Nat /\ At(E, from) \subseteq 1 .. Len(log)
  BY DEF At
<1>2. CASE At(E, from) = {}
  BY <1>2 DEF Latest
<1>3. CASE At(E, from) # {}
  BY <1>1, <1>3, LastOfSome
<1> QED  BY <1>2, <1>3

LEMMA LastRange ==
  ASSUME log \in Seq(Events), NEW E, NEW from
  PROVE  Latest(At(E, from)) \in 0 .. Len(log)
<1>1. Len(log) \in Nat /\ At(E, from) \subseteq 1 .. Len(log)
  BY DEF At
<1>2. Latest(At(E, from)) = 0 \/ Latest(At(E, from)) \in At(E, from)
  BY LastLine
<1>3. Latest(At(E, from)) = 0 \/ Latest(At(E, from)) \in 1 .. Len(log)
  BY <1>1, <1>2
<1> QED  BY <1>1, <1>3

\* Lines stay where they are, and a new one is the last.
LEMMA LogGrows ==
  ASSUME log \in Seq(Events), NEW e \in Events, log' = Append(log, e)
  PROVE  /\ log' \in Seq(Events) /\ Len(log) \in Nat /\ Len(log') = Len(log) + 1
         /\ \A E, from : At(E, from) \subseteq At(E, from)'
         /\ \A E, from : At(E, from)' \subseteq At(E, from) \cup {Len(log')}
         /\ \A E, from : e \notin E => At(E, from)' = At(E, from)
         /\ \A E : e \in E => Len(log') \in At(E, 0)'
<1>1. PICK n \in Nat, s \in Seq(Events) : s = log /\ n = Len(s)
  OBVIOUS
<1>2. /\ log' \in Seq(Events) /\ Len(log') = n + 1 /\ log'[n + 1] = e
      /\ \A i \in 1 .. n : log'[i] = log[i]
  BY <1>1
<1>3. \A E, from : At(E, from) = {i \in 1 .. n : i > from /\ log[i] \in E}
  BY <1>1 DEF At
<1>4. \A E, from : At(E, from)' = {i \in 1 .. n + 1 : i > from /\ log'[i] \in E}
  BY <1>2 DEF At
<1>5. \A i \in 1 .. n + 1 : i \in 1 .. n \/ i = n + 1
  OBVIOUS
<1>6. 1 .. n \subseteq 1 .. n + 1
  OBVIOUS
<1>7. \A E, from : At(E, from) \subseteq At(E, from)'
  BY <1>2, <1>3, <1>4, <1>6
<1>8. \A E, from : At(E, from)' \subseteq At(E, from) \cup {n + 1}
  BY <1>2, <1>3, <1>4, <1>5
<1>9. ASSUME NEW E, NEW from, e \notin E PROVE At(E, from)' = At(E, from)
  BY <1>2, <1>3, <1>4, <1>5, <1>6, <1>9
<1>10. ASSUME NEW E, e \in E PROVE n + 1 \in At(E, 0)'
  BY <1>2, <1>4, <1>10
<1> QED  BY <1>1, <1>2, <1>7, <1>8, <1>9, <1>10

LEMMA LaunchStart == LaunchInit => LaunchInv
<1>1. SUFFICES ASSUME LaunchInit PROVE LaunchInv
  OBVIOUS
<1>2. \A E, from : At(E, from) = {}
  BY <1>1 DEF LaunchInit, At
<1>3. SteamFine
  BY <1>1 DEF LaunchInit, SteamFine, Past, Tasks
<1>4. RunnerFine
  BY <1>1 DEF LaunchInit, RunnerFine
<1>5. BlameFine
  BY <1>1 DEF LaunchInit, BlameFine
<1>6. PlayFine
  BY <1>1 DEF LaunchInit, PlayFine, Grounds
<1> QED  BY <1>3, <1>4, <1>5, <1>6 DEF LaunchInv

\* What Steam may do while the runner is at any point: it writes a line, and
\* its task only moves on.
Moves(e) ==
    /\ log' = Append(log, e) /\ UNCHANGED <<wait, runner>>
    /\ DOMAIN steam' = DOMAIN steam
    /\ steam'.task \in Tasks
    /\ steam'.dialog \in {"none", "cloud", "kick"}
    /\ steam'.dialog = "kick" => steam'.task = "SynchronizingStats"
    /\ Past => Past'
    /\ Past' => Past \/ e \in Leaving
    /\ e = "cloudWait" => ~Past'

LEMMA SteamMoves ==
  ASSUME LaunchInv, SteamSteps, ~SteamForgets
  PROVE  \E e \in Events : Moves(e)
<1>1. SteamFine
  BY DEF LaunchInv
<1>2. CASE SteamTakesTask
  <2>1. /\ steam.task = "idle" /\ UNCHANGED <<wait, runner>>
        /\ steam' = [steam EXCEPT !.task = "SynchronizingCloud", !.asked = FALSE]
        /\ log' = Append(log, "SynchronizingCloud")
    BY <1>2 DEF SteamTakesTask, Writes, SteamOnly
  <2>2. Moves("SynchronizingCloud")
    BY <1>1, <2>1 DEF Moves, SteamFine, Past, Tasks, Leaving
  <2> QED  BY <2>2 DEF Events, Tasks
<1>3. CASE SteamRejects
  <2>1. PICK e \in {"AppError_49", "AppError_46"} :
          /\ UNCHANGED <<wait, runner>> /\ log' = Append(log, e)
          /\ steam' = [steam EXCEPT !.asked = FALSE]
    BY <1>3 DEF SteamRejects, Writes, SteamOnly
  <2>2. Moves(e)
    BY <1>1, <2>1 DEF Moves, SteamFine, Past, Tasks, Leaving
  <2> QED  BY <2>2 DEF Events, Tasks
<1>4. CASE SteamWarns
  <2>1. /\ steam.task = "SynchronizingCloud" /\ UNCHANGED <<wait, runner>>
        /\ steam' = [steam EXCEPT !.dialog = "cloud"]
        /\ log' = Append(log, "cloudWait")
    BY <1>4 DEF SteamWarns, Writes, SteamOnly
  <2>2. Moves("cloudWait")
    BY <1>1, <2>1 DEF Moves, SteamFine, Past, Tasks, Leaving
  <2> QED  BY <2>2 DEF Events, Tasks
<1>5. CASE SteamKicks
  <2>1. /\ steam.task = "SynchronizingStats" /\ UNCHANGED <<wait, runner>>
        /\ steam' = [steam EXCEPT !.dialog = "kick"]
        /\ log' = Append(log, "kickWait")
    BY <1>5 DEF SteamKicks, Writes, SteamOnly
  <2>2. Moves("kickWait")
    BY <1>1, <2>1 DEF Moves, SteamFine, Past, Tasks, Leaving
  <2> QED  BY <2>2 DEF Events, Tasks
<1>6. CASE SteamAnswered
  <2>1. PICK e \in {"IgnoreCloud", "KickingOtherSession"} :
          /\ UNCHANGED <<wait, runner>> /\ log' = Append(log, e)
          /\ steam' = [steam EXCEPT !.dialog = "none", !.click = "none"]
    BY <1>6 DEF SteamAnswered, Writes, SteamOnly
  <2>2. Moves(e)
    BY <1>1, <2>1 DEF Moves, SteamFine, Past, Tasks, Leaving
  <2> QED  BY <2>2 DEF Events, Tasks
<1>7. CASE SteamAdvances
  <2>1. PICK task \in Leaving :
          /\ steam' = [steam EXCEPT !.task = task] /\ steam.dialog = "none"
          /\ log' = Append(log, task) /\ UNCHANGED <<wait, runner>>
    BY <1>1, <1>7 DEF SteamAdvances, Writes, SteamOnly, Leaving, SteamFine
  <2>2. Moves(task)
    BY <1>1, <2>1 DEF Moves, SteamFine, Past, Tasks, Leaving
  <2> QED  BY <2>2 DEF Events, Tasks, Leaving
<1>8. CASE SteamSpawns
  <2>1. /\ UNCHANGED <<wait, runner>> /\ log' = Append(log, "spawn")
        /\ steam' = [steam EXCEPT !.game = TRUE]
    BY <1>8 DEF SteamSpawns, Writes, SteamOnly
  <2>2. Moves("spawn")
    BY <1>1, <2>1 DEF Moves, SteamFine, Past, Tasks, Leaving
  <2> QED  BY <2>2 DEF Events, Tasks
<1> QED  BY <1>2, <1>3, <1>4, <1>5, <1>6, <1>7, <1>8 DEF SteamSteps

LEMMA SteamKeep ==
  ASSUME LaunchInv, NEW e \in Events, Moves(e)
  PROVE  LaunchInv'
<1>1. /\ SteamFine /\ RunnerFine /\ BlameFine /\ PlayFine /\ log \in Seq(Events)
      /\ log' = Append(log, e) /\ UNCHANGED <<wait, runner>>
  BY DEF LaunchInv, SteamFine, Moves
<1>2. /\ log' \in Seq(Events) /\ Len(log) \in Nat /\ Len(log') = Len(log) + 1
      /\ \A E, from : At(E, from) \subseteq At(E, from)'
      /\ \A E, from : At(E, from)' \subseteq At(E, from) \cup {Len(log')}
      /\ \A E, from : e \notin E => At(E, from)' = At(E, from)
      /\ \A E : e \in E => Len(log') \in At(E, 0)'
  BY <1>1, LogGrows
<1>3. SteamFine'
  <2>1. ASSUME Past' PROVE \E s \in At(Leaving, 0)' : \A i \in At({"cloudWait"}, 0)' : i < s
    <3>1. e # "cloudWait"
      BY <2>1 DEF Moves
    <3>2. At({"cloudWait"}, 0)' = At({"cloudWait"}, 0)
      BY <1>2, <3>1
    <3>3. CASE Past
      <4>1. PICK s \in At(Leaving, 0) : \A i \in At({"cloudWait"}, 0) : i < s
        BY <1>1, <3>3 DEF SteamFine
      <4> QED  BY <1>2, <3>2, <4>1
    <3>4. CASE e \in Leaving
      <4>1. Len(log') \in At(Leaving, 0)'
        BY <1>2, <3>4
      <4>2. \A i \in At({"cloudWait"}, 0) : i < Len(log')
        BY <1>2 DEF At
      <4> QED  BY <3>2, <4>1, <4>2
    <3> QED  BY <2>1, <3>3, <3>4 DEF Moves
  <2> QED  BY <1>1, <1>2, <2>1 DEF SteamFine, Moves, Leaving
<1>4. RunnerFine'
  BY <1>1 DEF RunnerFine
<1>5. BlameFine'
  <2>1. runner.clicked \subseteq 0 .. Len(log')
    BY <1>1, <1>2 DEF BlameFine
  <2>2. \A i \in At({"cloudWait"}, 0)' : i \in runner.clicked => i \in At({"cloudWait"}, 0)
    <3>1. Len(log') \notin runner.clicked
      BY <1>1, <1>2 DEF BlameFine
    <3> QED  BY <1>2, <3>1
  <2>3. At({"cloudWait"}, 0) \subseteq At({"cloudWait"}, 0)'
    BY <1>2
  <2>4. Past => Past'
    BY DEF Moves
  <2> QED  BY <1>1, <2>1, <2>2, <2>3, <2>4 DEF BlameFine
<1>6. PlayFine'
  BY <1>1, <1>2 DEF PlayFine
<1> QED  BY <1>3, <1>4, <1>5, <1>6 DEF LaunchInv

\* What a poll reports it has read.
LEMMA VerdictRests ==
  ASSUME LaunchInv, NEW pid
  PROVE  /\ Verdict(pid) = "cloud_sync_failed" => CloudPending
         /\ Verdict(pid) \in DOMAIN Grounds => Suffix({Grounds[Verdict(pid)]}) # {}
BY DEF Verdict, Grounds

LEMMA BlameRests ==
  ASSUME LaunchInv, runner.stage = "wait", CloudPending
  PROVE  \E i \in At({"cloudWait"}, 0) : i \notin runner.clicked
<1>1. /\ SteamFine /\ RunnerFine /\ BlameFine /\ log \in Seq(Events) /\ wait.offset \in Nat
      /\ wait.cloudFloor \in Nat
  BY DEF LaunchInv, SteamFine, RunnerFine
<1>2. PICK shown : shown = Latest(Suffix({"cloudWait"}))
  OBVIOUS
<1>3. shown > 0 /\ shown > wait.cloudFloor
  BY <1>2 DEF CloudPending
<1>4. shown \in Suffix({"cloudWait"})
  BY <1>1, <1>2, <1>3, LastLine DEF Suffix
<1>5. shown \in At({"cloudWait"}, 0) /\ shown > wait.offset /\ shown \in Nat
  BY <1>1, <1>4 DEF Suffix, At
<1>6. CASE runner.next \in {"missing", "stalled", "cloud"} /\ runner.clicked = {}
  BY <1>5, <1>6
<1>7. CASE \A i \in At({"cloudWait"}, 0) : i \in runner.clicked => i <= wait.cloudFloor
  BY <1>1, <1>3, <1>5, <1>7
<1>8. CASE wait.offset = 0 /\ Past
  <2>1. PICK s \in At(Leaving, 0) : \A i \in At({"cloudWait"}, 0) : i < s
    BY <1>1, <1>8 DEF SteamFine
  <2> DEFINE Left == Suffix({"IgnoreCloud", "SynchronizingStats",
                             "CreatingProcess", "Completed", "Failed"})
  <2>2. s \in Left /\ s \in Nat
    BY <1>8, <2>1 DEF At, Suffix, Leaving
  <2>3. Latest(Left) \in Left /\ s <= Latest(Left)
    BY <1>1, <2>2, LastLine DEF Suffix
  <2>4. shown > Latest(Left)
    BY <1>2 DEF CloudPending
  <2>5. Latest(Left) \in Nat
    BY <2>3 DEF Suffix, At
  <2>6. shown < s
    BY <1>5, <2>1
  <2> QED  BY <1>5, <2>2, <2>3, <2>4, <2>5, <2>6
<1>9. CASE \A i \in runner.clicked : i <= wait.offset
  BY <1>1, <1>5, <1>9
<1> QED  BY <1>1, <1>6, <1>7, <1>8, <1>9 DEF BlameFine

\* A wait ends.
Ends(verdict) ==
    /\ DOMAIN runner' = DOMAIN runner
    /\ runner'.stage = runner.next /\ runner'.last = verdict
    /\ runner'.next = runner.next /\ runner'.applaunch = runner.applaunch
    /\ runner'.offset = runner.offset /\ runner'.asked = runner.asked
    /\ runner'.clicked = runner.clicked

LEMMA WaitKeep ==
  ASSUME LaunchInv, Poll \/ LaunchTimesOut
  PROVE  LaunchInv'
<1>1. /\ SteamFine /\ RunnerFine /\ BlameFine /\ PlayFine /\ runner.stage = "wait"
      /\ UNCHANGED <<steam, log>>
  BY DEF LaunchInv, Poll, LaunchTimesOut
<1>2. /\ DOMAIN wait' = DOMAIN wait /\ wait'.offset = wait.offset
      /\ wait'.cloudFloor = wait.cloudFloor
  BY <1>1 DEF Poll, LaunchTimesOut, RunnerFine
<1>3. runner' = runner
      \/ \E v : /\ Ends(v)
                /\ v = "cloud_sync_failed" => \E i \in At({"cloudWait"}, 0) : i \notin runner.clicked
                /\ v \in DOMAIN Grounds => Suffix({Grounds[v]}) # {}
  <2>1. CASE LaunchTimesOut
    <3>1. Ends("timeout")
      BY <1>1, <2>1 DEF LaunchTimesOut, Ends, RunnerFine
    <3> QED  BY <3>1 DEF Grounds
  <2>2. CASE Poll
    <3>1. PICK pid : runner' = IF Verdict(pid) = "none" THEN runner
                               ELSE [runner EXCEPT !.stage = runner.next, !.last = Verdict(pid)]
      BY <2>2 DEF Poll
    <3>2. CASE Verdict(pid) # "none"
      <4>1. Ends(Verdict(pid))
        BY <1>1, <3>1, <3>2 DEF Ends, RunnerFine
      <4> QED  BY <1>1, <4>1, VerdictRests, BlameRests
    <3> QED  BY <3>1, <3>2
  <2> QED  BY <2>1, <2>2
<1>4. At({"cloudWait"}, 0)' = At({"cloudWait"}, 0) /\ Past' = Past
      /\ At(Leaving, 0)' = At(Leaving, 0)
      /\ \A E, from : At(E, from)' = At(E, from)
  BY <1>1 DEF At, Past
<1>5. SteamFine'
  BY <1>1, <1>4 DEF SteamFine
<1>6. CASE runner' = runner
  <2>1. RunnerFine'
    BY <1>1, <1>2, <1>6 DEF RunnerFine
  <2>2. BlameFine'
    BY <1>1, <1>2, <1>4, <1>6 DEF BlameFine
  <2>3. PlayFine'
    BY <1>1, <1>2, <1>4, <1>6 DEF PlayFine
  <2> QED  BY <1>5, <2>1, <2>2, <2>3 DEF LaunchInv
<1>7. ASSUME NEW v, Ends(v),
             v = "cloud_sync_failed" => \E i \in At({"cloudWait"}, 0) : i \notin runner.clicked,
             v \in DOMAIN Grounds => Suffix({Grounds[v]}) # {}
      PROVE  LaunchInv'
  <2>1. RunnerFine'
    BY <1>1, <1>2, <1>7 DEF RunnerFine, Ends
  <2>2. BlameFine'
    BY <1>1, <1>2, <1>4, <1>7 DEF BlameFine, Ends, RunnerFine
  <2>3. PlayFine'
    BY <1>1, <1>2, <1>4, <1>7 DEF PlayFine, Ends, RunnerFine, Suffix
  <2> QED  BY <1>5, <2>1, <2>2, <2>3 DEF LaunchInv
<1> QED  BY <1>3, <1>6, <1>7

LEMMA RunnerKeep ==
  ASSUME LaunchInv, RequestPlay \/ ReplaceOwner \/ ClickDialog \/ Acknowledge
                      \/ RetryPlay \/ PassOver \/ CheckLaunched \/ SteamForgets
  PROVE  LaunchInv'
<1>1. /\ SteamFine /\ RunnerFine /\ BlameFine /\ PlayFine /\ log' = log
      /\ log \in Seq(Events) /\ Len(log) \in Nat
  BY DEF LaunchInv, SteamFine, RequestPlay, ReplaceOwner, ClickDialog, Acknowledge,
         RetryPlay, PassOver, CheckLaunched, SteamForgets
<1>2. \A E, from : At(E, from)' = At(E, from)
  BY <1>1 DEF At
<1>3. ASSUME steam'.task = steam.task, DOMAIN steam' = DOMAIN steam,
             steam'.dialog = steam.dialog
      PROVE  SteamFine' /\ Past' = Past
  BY <1>1, <1>2, <1>3 DEF SteamFine, Past
<1>4. CASE RequestPlay
  <2>1. /\ runner.stage = "request" /\ steam' = [steam EXCEPT !.asked = TRUE]
        /\ \E a \in BOOLEAN : runner' = [Await("missing") EXCEPT !.applaunch = a]
        /\ StartWait(0, 0, 0)
    BY <1>4 DEF RequestPlay
  <2>2. /\ DOMAIN runner' = DOMAIN runner /\ runner'.stage = "wait" /\ runner'.next = "missing"
        /\ runner'.offset = 0 /\ runner'.asked = 0 /\ runner'.clicked = {}
    BY <1>1, <2>1 DEF Await, RunnerFine, BlameFine
  <2>3. DOMAIN wait' = DOMAIN wait /\ wait'.offset = 0 /\ wait'.cloudFloor = 0
    BY <1>1, <2>1 DEF StartWait, RunnerFine
  <2>4. SteamFine'
    BY <1>1, <1>3, <2>1 DEF SteamFine
  <2>5. RunnerFine'
    BY <1>1, <2>2, <2>3 DEF RunnerFine
  <2>6. BlameFine'
    BY <2>2 DEF BlameFine
  <2>7. PlayFine'
    BY <2>2, <2>3 DEF PlayFine
  <2> QED  BY <2>4, <2>5, <2>6, <2>7 DEF LaunchInv
<1>5. CASE ReplaceOwner
  <2>1. /\ runner.stage \in {"missing", "stalled"} /\ runner.applaunch
        /\ steam' = [task |-> "idle", dialog |-> "none", click |-> "none",
                     asked |-> TRUE, game |-> steam.game]
        /\ runner' = [Await(IF runner.stage = "missing" THEN "stalled" ELSE "cloud")
                        EXCEPT !.asked = Len(log)]
        /\ StartWait(Len(log), 0, 0)
    BY <1>5 DEF ReplaceOwner, MissingTask, StalledCloud
  <2>2. /\ DOMAIN runner' = DOMAIN runner /\ runner'.stage = "wait" /\ runner'.applaunch
        /\ runner'.next \in {"stalled", "cloud"}
        /\ runner'.offset = 0 /\ runner'.asked = Len(log) /\ runner'.clicked = {}
    BY <1>1, <2>1 DEF Await, RunnerFine, BlameFine
  <2>3. DOMAIN wait' = DOMAIN wait /\ wait'.offset = Len(log) /\ wait'.cloudFloor = 0
    BY <1>1, <2>1 DEF StartWait, RunnerFine
  <2>4. SteamFine'
    BY <1>1, <2>1 DEF SteamFine, Past, Tasks
  <2>5. RunnerFine'
    BY <1>1, <2>2, <2>3 DEF RunnerFine
  <2>6. BlameFine'
    BY <2>2 DEF BlameFine
  <2>7. PlayFine'
    BY <2>2 DEF PlayFine
  <2> QED  BY <2>4, <2>5, <2>6, <2>7 DEF LaunchInv
<1>6. CASE ClickDialog
  <2>1. /\ \/ runner.stage = "cloud" /\ runner.last = "cloud_sync_failed"
           \/ runner.stage = "kick" /\ runner.last = "kicking_other_session"
        /\ wait' = wait
        /\ steam' = steam \/ steam' = [steam EXCEPT !.click = runner.stage]
    BY <1>6 DEF ClickDialog
  <2>2. SteamFine' /\ Past' = Past
    BY <1>1, <1>3, <2>1 DEF SteamFine
  <2>3. CASE runner' = [runner EXCEPT !.stage = "raised"]
    <3>1. /\ DOMAIN runner' = DOMAIN runner /\ runner'.stage = "raised"
          /\ runner'.last = runner.last /\ runner'.next = runner.next
          /\ runner'.applaunch = runner.applaunch /\ runner'.offset = runner.offset
          /\ runner'.asked = runner.asked /\ runner'.clicked = runner.clicked
      BY <1>1, <2>3 DEF RunnerFine
    <3>2. RunnerFine'
      BY <1>1, <2>1, <3>1 DEF RunnerFine
    <3>3. BlameFine'
      BY <1>1, <1>2, <2>1, <3>1 DEF BlameFine
    <3>4. PlayFine'
      BY <1>1, <1>2, <2>1, <3>1 DEF PlayFine
    <3> QED  BY <2>2, <3>2, <3>3, <3>4 DEF LaunchInv
  <2>4. CASE /\ steam.dialog = runner.stage
             /\ runner' = [runner EXCEPT
                  !.stage = IF @ = "cloud" THEN "cloudAck" ELSE "kickAck",
                  !.clicked = @ \cup {Latest(At({"cloudWait", "kickWait"}, 0))}]
    <3>1. PICK p : p = Latest(At({"cloudWait", "kickWait"}, 0))
      OBVIOUS
    <3>2. p \in 0 .. Len(log)
      BY <1>1, <3>1, LastRange
    <3>3. /\ DOMAIN runner' = DOMAIN runner
          /\ runner'.stage = IF runner.stage = "cloud" THEN "cloudAck" ELSE "kickAck"
          /\ runner'.last = runner.last /\ runner'.next = runner.next
          /\ runner'.applaunch = runner.applaunch /\ runner'.offset = runner.offset
          /\ runner'.asked = runner.asked /\ runner'.clicked = runner.clicked \cup {p}
      BY <1>1, <2>4, <3>1 DEF RunnerFine
    <3>4. RunnerFine'
      BY <1>1, <2>1, <3>3 DEF RunnerFine
    <3>5. runner.stage = "kick" => Past
      BY <1>1, <2>4 DEF SteamFine, Past
    <3>6. BlameFine'
      <4>1. runner'.clicked \subseteq 0 .. Len(log')
        BY <1>1, <3>2, <3>3 DEF BlameFine
      <4> QED  BY <2>1, <2>2, <3>3, <3>5, <4>1 DEF BlameFine
    <3>7. PlayFine'
      BY <1>1, <1>2, <2>1, <3>3 DEF PlayFine
    <3> QED  BY <2>2, <3>4, <3>6, <3>7 DEF LaunchInv
  <2> QED  BY <1>6, <2>3, <2>4 DEF ClickDialog
<1>7. CASE Acknowledge
  <2>1. PICK floor, kickFloor :
        /\ runner.stage \in {"cloudAck", "kickAck"}
        /\ runner' = Await(IF runner.stage = "cloudAck" THEN "kick" ELSE "error49")
        /\ StartWait(runner.offset, floor, kickFloor)
        /\ floor = IF runner.stage = "cloudAck" THEN Latest(At({"cloudWait"}, runner.offset)) ELSE 0
        /\ UNCHANGED steam
    BY <1>7 DEF Acknowledge
  <2>2. floor \in Nat
    BY <1>1, <2>1, LastRange
  <2>3. /\ DOMAIN runner' = DOMAIN runner /\ runner'.stage = "wait"
        /\ runner'.next = IF runner.stage = "cloudAck" THEN "kick" ELSE "error49"
        /\ runner'.last = runner.last
        /\ runner'.applaunch = runner.applaunch /\ runner'.offset = 0
        /\ runner'.asked = runner.asked /\ runner'.clicked = runner.clicked
    BY <1>1, <2>1 DEF RunnerFine, Await
  <2>4. DOMAIN wait' = DOMAIN wait /\ wait'.offset = 0 /\ wait'.cloudFloor = floor
    BY <1>1, <2>1 DEF StartWait, RunnerFine
  <2>5. SteamFine' /\ Past' = Past
    BY <1>1, <1>3, <2>1 DEF SteamFine
  <2>6. RunnerFine'
    BY <1>1, <2>2, <2>3, <2>4 DEF RunnerFine
  <2>7. runner.stage = "cloudAck" => \A i \in At({"cloudWait"}, 0) : i <= floor
    BY <1>1, <2>1, LastLine DEF RunnerFine
  <2>8. BlameFine'
    BY <1>1, <1>2, <2>1, <2>3, <2>4, <2>5, <2>7 DEF BlameFine
  <2>9. PlayFine'
    BY <1>1, <2>1, <2>3, <2>4 DEF PlayFine
  <2> QED  BY <2>5, <2>6, <2>8, <2>9 DEF LaunchInv
<1>8. CASE RetryPlay
  <2>1. /\ runner.stage = "error49" /\ steam' = [steam EXCEPT !.asked = TRUE]
        /\ runner' = [Await("check") EXCEPT !.asked = Len(log)]
        /\ StartWait(Len(log), 0, 0)
    BY <1>8 DEF RetryPlay
  <2>2. /\ DOMAIN runner' = DOMAIN runner /\ runner'.stage = "wait" /\ runner'.next = "check"
        /\ runner'.offset = 0 /\ runner'.asked = Len(log) /\ runner'.clicked = runner.clicked
    BY <1>1, <2>1 DEF Await, RunnerFine
  <2>3. DOMAIN wait' = DOMAIN wait /\ wait'.offset = Len(log) /\ wait'.cloudFloor = 0
    BY <1>1, <2>1 DEF StartWait, RunnerFine
  <2>4. SteamFine'
    BY <1>1, <1>3, <2>1 DEF SteamFine
  <2>5. RunnerFine'
    BY <1>1, <2>2, <2>3 DEF RunnerFine
  <2>6. BlameFine'
    BY <1>1, <2>2, <2>3 DEF BlameFine
  <2>7. PlayFine'
    BY <2>2, <2>3 DEF PlayFine
  <2> QED  BY <2>4, <2>5, <2>6, <2>7 DEF LaunchInv
<1>9. CASE PassOver \/ CheckLaunched
  <2>1. PICK stage \in {"stalled", "cloud", "kick", "error49", "check", "launched", "raised"} :
        /\ runner' = [runner EXCEPT !.stage = stage]
        /\ runner.stage \in {"missing", "stalled", "cloud", "kick", "error49", "check"}
        /\ stage = "stalled" => runner.stage = "missing"
        /\ stage = "cloud" => runner.stage = "stalled"
        /\ runner.stage = "check" => stage \in {"launched", "raised"}
        /\ UNCHANGED <<steam, wait>>
    BY <1>9 DEF PassOver, CheckLaunched, Following
  <2>2. /\ DOMAIN runner' = DOMAIN runner /\ runner'.stage = stage
        /\ runner'.next = runner.next /\ runner'.last = runner.last
        /\ runner'.applaunch = runner.applaunch /\ runner'.offset = runner.offset
        /\ runner'.asked = runner.asked /\ runner'.clicked = runner.clicked
    BY <1>1, <2>1 DEF RunnerFine
  <2>3. SteamFine' /\ Past' = Past
    BY <1>3, <2>1
  <2>4. RunnerFine'
    BY <1>1, <2>1, <2>2 DEF RunnerFine
  <2>5. BlameFine'
    BY <1>1, <1>2, <2>1, <2>2 DEF BlameFine
  <2>6. PlayFine'
    BY <1>1, <1>2, <2>1, <2>2 DEF PlayFine
  <2> QED  BY <2>3, <2>4, <2>5, <2>6 DEF LaunchInv
<1>10. CASE SteamForgets
  <2>1. UNCHANGED <<wait, runner>> /\ steam' = [steam EXCEPT !.asked = FALSE]
    BY <1>10 DEF SteamForgets
  <2>2. SteamFine' /\ Past' = Past
    BY <1>1, <1>3, <2>1 DEF SteamFine
  <2>3. RunnerFine'
    BY <1>1, <2>1 DEF RunnerFine
  <2>4. BlameFine'
    BY <1>1, <1>2, <2>1, <2>2 DEF BlameFine
  <2>5. PlayFine'
    BY <1>1, <1>2, <2>1 DEF PlayFine
  <2> QED  BY <2>2, <2>3, <2>4, <2>5 DEF LaunchInv
<1> QED  BY <1>4, <1>5, <1>6, <1>7, <1>8, <1>9, <1>10

LEMMA LaunchStays ==
  ASSUME LaunchInv, UNCHANGED launchVars
  PROVE  LaunchInv'
<1>1. /\ SteamFine /\ RunnerFine /\ BlameFine /\ PlayFine
      /\ UNCHANGED <<steam, log, wait, runner>>
  BY DEF LaunchInv, launchVars
<1>2. Past' = Past /\ \A E, from : At(E, from)' = At(E, from)
  BY <1>1 DEF Past, At
<1>3. SteamFine' /\ RunnerFine'
  BY <1>1, <1>2 DEF SteamFine, RunnerFine
<1>4. BlameFine' /\ PlayFine'
  BY <1>1, <1>2 DEF BlameFine, PlayFine
<1> QED  BY <1>3, <1>4 DEF LaunchInv

LEMMA LaunchKeep == LaunchInv /\ [LaunchNext]_launchVars => LaunchInv'
<1>1. SUFFICES ASSUME LaunchInv, LaunchNext \/ UNCHANGED launchVars PROVE LaunchInv'
  OBVIOUS
<1>2. CASE SteamSteps /\ ~SteamForgets
  BY <1>1, <1>2, SteamMoves, SteamKeep
<1>3. CASE SteamForgets
  BY <1>1, <1>3, RunnerKeep
<1>4. CASE RunnerSteps
  BY <1>1, <1>4, RunnerKeep, WaitKeep DEF RunnerSteps
<1>5. CASE LaunchOver \/ UNCHANGED launchVars
  BY <1>1, <1>5, LaunchStays DEF LaunchOver
<1> QED  BY <1>1, <1>2, <1>3, <1>4, <1>5 DEF LaunchNext

\* Whatever Steam writes in whichever order, no verdict blames a dialog that
\* was answered, and a launch by Play is judged by its own lines.
THEOREM VerdictsGroundedAlways == LaunchSpec => []VerdictsGrounded
<1>1. LaunchInv => VerdictsGrounded
  BY DEF LaunchInv, BlameFine, PlayFine, VerdictsGrounded, AnsweredNotBlamed,
         PlayVerdictIsCurrent, Current
<1> QED  BY <1>1, LaunchStart, LaunchKeep, PTL DEF LaunchSpec

-----------------------------------------------------------------------------
(* StrayReady.                                                               *)

\* The row of good samples is the end of all samples.
SamplesFine ==
    /\ DOMAIN world = {"good", "samples"} /\ DOMAIN local = {"need", "run"}
    /\ world.good \in BOOLEAN /\ world.samples \in Seq(BOOLEAN)
    /\ local.need \in Nat /\ local.run \in 0 .. Len(world.samples)
    /\ \A i \in 1 .. Len(world.samples) :
         i > Len(world.samples) - local.run => world.samples[i]
    /\ result \in {"none", "timeout"} \/ (result = "admitted" /\ local.run >= local.need)

\* Offsets in a file grow, so what was written after a line is behind it.
LibraryFine ==
    /\ DOMAIN world = {"len", "since", "at"}
    /\ DOMAIN world.len = {"login", "js", "web"}
    /\ DOMAIN world.since = {"connected", "Starting"}
    /\ DOMAIN world.at = UNION {Marks[f] : f \in Files}
    /\ \A f \in Files : world.len[f] \in Nat
    /\ \A f \in Files : \A m \in Marks[f] : world.at[m] \in Int /\ world.at[m] < world.len[f]
    /\ world.at["Success"] > world.at["Starting"] /\ world.at["Starting"] >= 0
         => "Success" \in world.since["Starting"]
    /\ "disconnected" \in world.since["connected"]
         => world.at["disconnected"] > world.at["connected"]
    /\ result \in {"none", "raised"}
         \/ (result = "ready" /\ LoggedIn(world.at) /\ Connected(world.at))

\* Frames are of a generation that was up, or of none.
WorkspaceFine ==
    /\ DOMAIN world = {"locked", "host", "stack", "inputd", "txn", "gen", "failed", "shown", "frames"}
    /\ world.gen \in Nat \ {0} /\ world.stack \in 0 .. world.gen
    /\ world.frames \subseteq 0 .. world.gen
    /\ result \in {"none", "raised"} \/ (result = "ready" /\ FrameWitnessed)

\* The count that was read is one the game had reached.
SurfaceFine ==
    /\ DOMAIN world = {"game", "window", "presents"}
    /\ DOMAIN local = {"step", "seen", "last", "probed"}
    /\ world.presents \in Nat /\ local.last \in 0 .. world.presents
    /\ result \in {"none", "raised", "window"}
         \/ (result = "retained" /\ world.presents > 0 /\ local.probed # "gone")

\* Once a save is chosen no screen but the last two follows the save menus,
\* and on another one than the scene only unread frames lengthen the row.
GameplayFine ==
    /\ DOMAIN world = {"screen", "input", "blurred", "misses"}
    /\ DOMAIN local = {"saving", "run", "advanced"}
    /\ world.misses \in 0 .. MaxMisses /\ local.run \in Nat
    /\ world.blurred => world.misses > 0
    /\ world.screen \in {"logo", "startup-prompt", "main-menu", "save-select", "start-save",
                         "black", "scene"}
    /\ local.saving => world.screen \in {"save-select", "start-save", "black", "scene"}
    /\ local.run > 0 => local.saving
    /\ world.screen # "scene" => local.run + (IF world.blurred THEN 1 ELSE 0) <= world.misses
    /\ \/ result \in {"none", "timeout"}
       \/ result = "gameplay" /\ (world.screen = "scene" \/ world.misses >= 2)

ReadyInv ==
    /\ loop \in {"none", "samples", "library", "workspace", "surface", "gameplay"}
    /\ loop = "none" => result = "none"
    /\ loop = "samples" => SamplesFine
    /\ loop = "library" => LibraryFine
    /\ loop = "workspace" => WorkspaceFine
    /\ loop = "surface" => SurfaceFine
    /\ loop = "gameplay" => GameplayFine

LEMMA ReadyStart == ReadyInit => ReadyInv
BY DEF ReadyInit, ReadyInv

LEMMA SamplesKeep ==
  ASSUME ReadyInv, BeginSamples \/ DeviceDrifts \/ TakeSample
  PROVE  ReadyInv'
<1>1. CASE BeginSamples
  <2>1. PICK need \in {Stable, 2} :
          /\ loop' = "samples" /\ world' = [good |-> FALSE, samples |-> <<>>]
          /\ local' = [need |-> need, run |-> 0] /\ result' = "none"
    BY <1>1 DEF BeginSamples, Start
  <2>2. SamplesFine'
    BY <2>1, ReadyAssumption DEF SamplesFine
  <2> QED  BY <2>1, <2>2 DEF ReadyInv
<1>2. CASE DeviceDrifts
  <2>1. /\ loop = "samples" /\ SamplesFine /\ UNCHANGED <<loop, local, result>>
        /\ world' = [world EXCEPT !.good = ~@]
    BY <1>2 DEF DeviceDrifts, Running, ReadyInv
  <2>2. /\ DOMAIN world' = {"good", "samples"} /\ world'.samples = world.samples
        /\ world'.good \in BOOLEAN
    BY <2>1 DEF SamplesFine
  <2>3. SamplesFine'
    BY <2>1, <2>2 DEF SamplesFine
  <2> QED  BY <2>1, <2>3 DEF ReadyInv
<1>3. CASE TakeSample
  <2>1. /\ loop = "samples" /\ SamplesFine /\ loop' = loop
        /\ world' = [world EXCEPT !.samples = Append(@, world.good)]
        /\ local' = [local EXCEPT !.run = RunOf(world.good)]
        /\ result' \in {"none", "timeout"}
             \/ (result' = "admitted" /\ RunOf(world.good) >= local.need)
    BY <1>3 DEF TakeSample, Running, Returns, Continues, ReadyInv
  <2>2. PICK n \in Nat, s \in Seq(BOOLEAN) : s = world.samples /\ n = Len(s)
    BY <2>1 DEF SamplesFine
  <2>3. PICK t : t = Append(s, world.good)
    OBVIOUS
  <2>4. /\ t \in Seq(BOOLEAN) /\ Len(t) = n + 1 /\ t[n + 1] = world.good
        /\ \A i \in 1 .. n : t[i] = s[i]
    BY <2>1, <2>2, <2>3 DEF SamplesFine
  <2>5. /\ DOMAIN world' = {"good", "samples"} /\ world'.samples = t /\ world'.good = world.good
        /\ DOMAIN local' = {"need", "run"} /\ local'.need = local.need
        /\ local'.run = IF world.good THEN local.run + 1 ELSE 0
    BY <2>1, <2>2, <2>3 DEF SamplesFine, RunOf
  <2>6. local.run \in 0 .. n /\ \A i \in 1 .. n : i > n - local.run => s[i]
    BY <2>1, <2>2 DEF SamplesFine
  <2>7. ASSUME NEW i \in 1 .. n + 1, i > n + 1 - local'.run PROVE t[i]
    BY <2>4, <2>5, <2>6, <2>7
  <2>8. local'.run \in 0 .. n + 1
    BY <2>5, <2>6
  <2>9. SamplesFine'
    BY <2>1, <2>4, <2>5, <2>7, <2>8 DEF SamplesFine, RunOf
  <2> QED  BY <2>1, <2>9 DEF ReadyInv
<1> QED  BY <1>1, <1>2, <1>3

LEMMA LibraryKeep ==
  ASSUME ReadyInv, BeginLibrary \/ SteamWrites \/ PollLibrary
  PROVE  ReadyInv'
<1>0. /\ Files = {"login", "js", "web"}
      /\ Marks["login"] = {"Starting", "Success"} /\ Marks["web"] = {"WasHidden"}
      /\ Marks["js"] = {"connected", "disconnected", "AppStore", "FriendsUI"}
      /\ \A f \in Files : Marks[f] \subseteq UNION {Marks[h] : h \in Files}
  BY DEF Files, Marks
<1>1. CASE BeginLibrary
  <2>1. /\ loop' = "library" /\ result' = "none"
        /\ world' = [len |-> [f \in Files |-> 0],
                     since |-> [connected |-> {}, Starting |-> {}],
                     at |-> [m \in UNION {Marks[f] : f \in Files} |-> -1]]
    BY <1>1 DEF BeginLibrary, Start
  <2>2. LibraryFine'
    BY <1>0, <2>1 DEF LibraryFine
  <2> QED  BY <2>1, <2>2 DEF ReadyInv
<1>2. CASE SteamWrites
  <2>1. loop = "library" /\ LibraryFine /\ UNCHANGED <<loop, local, result>> /\ result = "none"
    BY <1>2 DEF SteamWrites, Running, ReadyInv
  <2>2. PICK source \in Files, pad \in {0, 2} : \E line \in Marks[source] :
           world' = [world EXCEPT !.len[source] = @ + pad + 1,
                                  !.at[line] = world.len[source] + pad,
                                  !.since = [m \in DOMAIN @ |->
                                    IF m = line THEN {}
                                    ELSE @[m] \cup ({line} \cap Awaited[m])]]
    BY <1>2 DEF SteamWrites
  <2>3. PICK line \in Marks[source] :
           world' = [world EXCEPT !.len[source] = @ + pad + 1,
                                  !.at[line] = world.len[source] + pad,
                                  !.since = [m \in DOMAIN @ |->
                                    IF m = line THEN {}
                                    ELSE @[m] \cup ({line} \cap Awaited[m])]]
    BY <2>2
  <2>4. /\ DOMAIN world' = {"len", "since", "at"}
        /\ world'.len = [world.len EXCEPT ![source] = @ + pad + 1]
        /\ world'.at = [world.at EXCEPT ![line] = world.len[source] + pad]
        /\ world'.since = [m \in DOMAIN world.since |->
                             IF m = line THEN {}
                             ELSE world.since[m] \cup ({line} \cap Awaited[m])]
    BY <2>1, <2>3 DEF LibraryFine
  <2>5. /\ DOMAIN world'.len = {"login", "js", "web"} /\ world.len[source] \in Nat
        /\ world'.len[source] = world.len[source] + pad + 1
        /\ \A f \in Files : f # source => world'.len[f] = world.len[f]
    BY <1>0, <2>1, <2>4 DEF LibraryFine
  <2>6. /\ DOMAIN world'.at = UNION {Marks[f] : f \in Files}
        /\ world'.at[line] = world.len[source] + pad
        /\ \A m \in DOMAIN world.at : m # line => world'.at[m] = world.at[m]
    BY <1>0, <2>1, <2>4 DEF LibraryFine
  <2>7. \A f \in Files : \A m \in Marks[f] : world.at[m] \in Int /\ world.at[m] < world.len[f]
    BY <2>1 DEF LibraryFine
  <2>8. \A m \in Marks[source] : world.at[m] < world'.at[line]
    BY <2>5, <2>6, <2>7
  <2>9. ASSUME NEW f \in Files, NEW m \in Marks[f]
        PROVE  world'.at[m] \in Int /\ world'.at[m] < world'.len[f]
    <3>1. m \in DOMAIN world.at /\ world.len[f] \in Nat
      BY <1>0, <2>1 DEF LibraryFine
    <3>2. m = line => f = source
      BY <1>0
    <3>3. pad \in Nat
      OBVIOUS
    <3> QED  BY <2>5, <2>6, <2>7, <3>1, <3>2, <3>3
  <2>10. /\ DOMAIN world'.since = {"connected", "Starting"}
         /\ world'.since["Starting"] = IF line = "Starting" THEN {}
              ELSE world.since["Starting"] \cup ({line} \cap {"Success"})
         /\ world'.since["connected"] = IF line = "connected" THEN {}
              ELSE world.since["connected"] \cup ({line} \cap {"disconnected", "WasHidden"})
    BY <2>1, <2>4 DEF LibraryFine, Awaited
  <2>11. /\ world.at["Success"] > world.at["Starting"] /\ world.at["Starting"] >= 0
             => "Success" \in world.since["Starting"]
         /\ "disconnected" \in world.since["connected"]
             => world.at["disconnected"] > world.at["connected"]
    BY <2>1 DEF LibraryFine
  <2>12. \A m \in {"Starting", "Success", "connected", "disconnected"} :
            m \in DOMAIN world.at /\ world.at[m] \in Int
    BY <1>0, <2>1, <2>7 DEF LibraryFine
  <2>13. world'.at["Success"] > world'.at["Starting"] /\ world'.at["Starting"] >= 0
             => "Success" \in world'.since["Starting"]
    <3>1. CASE line = "Success"
      BY <2>10, <3>1
    <3>2. CASE line = "Starting"
      <4>1. source = "login"
        BY <1>0, <3>2
      <4>2. world'.at["Success"] = world.at["Success"] /\ world.at["Success"] < world'.at["Starting"]
        BY <1>0, <2>6, <2>8, <2>12, <3>2, <4>1
      <4>3. world'.at["Starting"] \in Int
        BY <2>5, <2>6, <3>2
      <4> QED  BY <2>12, <4>2, <4>3
    <3>3. CASE line \notin {"Success", "Starting"}
      BY <2>6, <2>10, <2>11, <2>12, <3>3
    <3> QED  BY <3>1, <3>2, <3>3
  <2>14. "disconnected" \in world'.since["connected"]
             => world'.at["disconnected"] > world'.at["connected"]
    <3>1. CASE line = "disconnected"
      <4>1. source = "js"
        BY <1>0, <3>1
      <4>2. world'.at["connected"] = world.at["connected"]
            /\ world.at["connected"] < world'.at["disconnected"]
        BY <1>0, <2>6, <2>8, <2>12, <3>1, <4>1
      <4>3. world'.at["disconnected"] \in Int
        BY <2>5, <2>6, <3>1
      <4> QED  BY <2>12, <4>2, <4>3
    <3>2. CASE line = "connected"
      BY <2>10, <3>2
    <3>3. CASE line \notin {"connected", "disconnected"}
      BY <2>6, <2>10, <2>11, <2>12, <3>3
    <3> QED  BY <3>1, <3>2, <3>3
  <2>15. \A f \in Files : world'.len[f] \in Nat
    BY <2>1, <2>5 DEF LibraryFine
  <2>16. LibraryFine'
    BY <2>1, <2>4, <2>5, <2>6, <2>9, <2>10, <2>13, <2>14, <2>15 DEF LibraryFine
  <2> QED  BY <2>1, <2>16 DEF ReadyInv
<1>3. CASE PollLibrary
  <2>1. /\ loop = "library" /\ LibraryFine /\ UNCHANGED <<loop, world, local>>
        /\ \/ result' \in {"none", "raised"}
           \/ result' = "ready" /\ LoggedIn(world.at) /\ Connected(world.at)
    BY <1>3 DEF PollLibrary, Running, Returns, Continues, ReadyInv
  <2>2. LibraryFine'
    BY <2>1 DEF LibraryFine
  <2> QED  BY <2>1, <2>2 DEF ReadyInv
<1> QED  BY <1>1, <1>2, <1>3

LEMMA WorkspaceKeep ==
  ASSUME ReadyInv,
         \/ BeginWorkspace \/ HostComesUp \/ TransactionEnds \/ HostReports
         \/ EnterWorkspace \/ StartWorkspace \/ PollStartup \/ PollPresentation
  PROVE  ReadyInv'
<1>1. CASE BeginWorkspace
  <2>1. PICK locked \in BOOLEAN, host \in BOOLEAN, part \in BOOLEAN, txn \in BOOLEAN :
          /\ loop' = "workspace" /\ result' = "none"
          /\ world' = [locked |-> locked, host |-> host, stack |-> IF part THEN 1 ELSE 0,
                       inputd |-> FALSE, txn |-> txn, gen |-> 1, failed |-> FALSE,
                       shown |-> FALSE, frames |-> {}]
    BY <1>1 DEF BeginWorkspace, Start
  <2>2. WorkspaceFine'
    BY <2>1 DEF WorkspaceFine
  <2> QED  BY <2>1, <2>2 DEF ReadyInv
<1>2. ASSUME loop = "workspace", result = "none", result' \in {"none", "raised"}, loop' = loop,
             DOMAIN world' = DOMAIN world,
             world'.gen \in Nat \ {0}, world'.stack \in 0 .. world'.gen,
             world'.frames \subseteq 0 .. world'.gen
      PROVE  ReadyInv'
  <2>1. WorkspaceFine'
    BY <1>2 DEF ReadyInv, WorkspaceFine
  <2> QED  BY <1>2, <2>1 DEF ReadyInv
<1>3. loop = "workspace" => WorkspaceFine
  BY DEF ReadyInv
<1>4. CASE HostComesUp
  <2>1. loop = "workspace" /\ result = "none" /\ UNCHANGED <<loop, result>>
        /\ world' = [world EXCEPT !.host = TRUE]
    BY <1>4 DEF HostComesUp, Running
  <2> QED  BY <1>2, <1>3, <2>1 DEF WorkspaceFine
<1>5. CASE TransactionEnds
  <2>1. /\ loop = "workspace" /\ result = "none" /\ UNCHANGED <<loop, result>>
        /\ \/ world' = [world EXCEPT !.txn = FALSE, !.stack = world.gen + 1,
                                     !.gen = @ + 1, !.inputd = TRUE]
           \/ world' = [world EXCEPT !.txn = FALSE, !.stack = 0,
                                     !.failed = (local.stage # "lock")]
    BY <1>5 DEF TransactionEnds, Running
  <2>2. /\ world.gen \in Nat \ {0} /\ world.frames \subseteq 0 .. world.gen
        /\ DOMAIN world = {"locked", "host", "stack", "inputd", "txn", "gen", "failed", "shown",
                           "frames"}
    BY <1>3, <2>1 DEF WorkspaceFine
  <2>3. /\ DOMAIN world' = DOMAIN world /\ world'.frames = world.frames
        /\ \/ world'.gen = world.gen + 1 /\ world'.stack = world.gen + 1
           \/ world'.gen = world.gen /\ world'.stack = 0
    BY <2>1, <2>2
  <2>4. world'.frames \subseteq 0 .. world'.gen
    BY <2>2, <2>3
  <2> QED  BY <1>2, <2>1, <2>2, <2>3, <2>4
<1>6. CASE HostReports
  <2>1. /\ loop = "workspace" /\ result = "none" /\ UNCHANGED <<loop, result>>
        /\ \/ world' = [world EXCEPT !.shown = TRUE]
           \/ world' = [world EXCEPT !.frames = @ \cup {world.stack}]
    BY <1>6 DEF HostReports, Running
  <2> QED  BY <1>2, <1>3, <2>1 DEF WorkspaceFine
<1>7. CASE EnterWorkspace \/ StartWorkspace \/ PollStartup
  <2>1. /\ loop = "workspace" /\ result = "none" /\ loop' = loop
        /\ result' \in {"none", "raised"}
        /\ world' = world \/ world' = [world EXCEPT !.txn = TRUE]
    BY <1>7 DEF EnterWorkspace, StartWorkspace, PollStartup, Running, Returns, Continues
  <2> QED  BY <1>2, <1>3, <2>1 DEF WorkspaceFine
<1>8. CASE PollPresentation
  <2>1. /\ loop = "workspace" /\ WorkspaceFine /\ UNCHANGED <<loop, world, local>>
        /\ \/ result' \in {"none", "raised"}
           \/ result' = "ready" /\ FrameWitnessed
    BY <1>8 DEF PollPresentation, Running, Returns, Continues, ReadyInv
  <2>2. WorkspaceFine'
    BY <2>1 DEF WorkspaceFine, FrameWitnessed
  <2> QED  BY <2>1, <2>2 DEF ReadyInv
<1> QED  BY <1>1, <1>4, <1>5, <1>6, <1>7, <1>8

LEMMA SurfaceKeep ==
  ASSUME ReadyInv, BeginSurface \/ GameMoves \/ ReadCatalog \/ ReadPresents \/ ReadLiveness
  PROVE  ReadyInv'
<1>1. CASE BeginSurface
  <2>1. /\ loop' = "surface" /\ result' = "none"
        /\ world' = [game |-> "live", window |-> FALSE, presents |-> 0]
        /\ local' = [step |-> "catalog", seen |-> FALSE, last |-> 0, probed |-> "none"]
    BY <1>1 DEF BeginSurface, Start
  <2>2. SurfaceFine'
    BY <2>1 DEF SurfaceFine
  <2> QED  BY <2>1, <2>2 DEF ReadyInv
<1>2. CASE GameMoves
  <2>1. loop = "surface" /\ result = "none" /\ SurfaceFine /\ UNCHANGED <<loop, local, result>>
    BY <1>2 DEF GameMoves, Running, ReadyInv
  <2>2. DOMAIN world' = DOMAIN world
        /\ (world'.presents = world.presents \/ world'.presents = world.presents + 1)
    BY <1>2, <2>1 DEF GameMoves, SurfaceFine
  <2>3. SurfaceFine'
    BY <2>1, <2>2 DEF SurfaceFine
  <2> QED  BY <2>1, <2>3 DEF ReadyInv
<1>3. CASE ReadCatalog \/ ReadPresents
  <2>1. /\ loop = "surface" /\ SurfaceFine /\ UNCHANGED <<loop, world>> /\ result = "none"
        /\ result' \in {"none", "raised"}
        /\ \/ local' = local
           \/ local' = [local EXCEPT !.seen = world.window, !.step = "log"]
           \/ local' = [local EXCEPT !.last = world.presents, !.step = "pid"]
    BY <1>3 DEF ReadCatalog, ReadPresents, Running, Returns, ReadyInv
  <2>2. DOMAIN local' = DOMAIN local /\ (local'.last = local.last \/ local'.last = world.presents)
    BY <2>1 DEF SurfaceFine
  <2>3. SurfaceFine'
    BY <2>1, <2>2 DEF SurfaceFine
  <2> QED  BY <2>1, <2>3 DEF ReadyInv
<1>4. CASE ReadLiveness
  <2>1. /\ loop = "surface" /\ SurfaceFine /\ UNCHANGED <<loop, world>>
        /\ local' = [local EXCEPT !.step = "catalog", !.probed = world.game]
        /\ \/ result' \in {"none", "raised", "window"}
           \/ result' = "retained" /\ local.last > 0 /\ world.game # "gone"
    BY <1>4 DEF ReadLiveness, Running, Returns, Continues, ReadyInv, root_pid_liveness
  <2>2. DOMAIN local' = DOMAIN local /\ local'.last = local.last /\ local'.probed = world.game
    BY <2>1 DEF SurfaceFine
  <2>3. SurfaceFine'
    BY <2>1, <2>2 DEF SurfaceFine
  <2> QED  BY <2>1, <2>3 DEF ReadyInv
<1> QED  BY <1>1, <1>2, <1>3, <1>4

\* One frame is seen, and at most one input is sent.
LEMMA FrameSeen ==
  ASSUME GameplayFine, CaptureFrame
  PROVE  GameplayFine'
<1>1. PICK fps \in BOOLEAN :
         LET state == stray_visual_state(world.screen, world.blurred)
         IN  IF state = "non-menu" THEN UnreadFrame(world.screen # "black", fps)
             ELSE MenuFrame(state)
  BY DEF CaptureFrame
<1>2. PICK state : state = stray_visual_state(world.screen, world.blurred)
  OBVIOUS
<1>3. /\ state = "non-menu" => world.blurred \/ world.screen \in {"logo", "black", "scene"}
      /\ state = "save-select" => world.screen \in {"save-select", "start-save"}
  <2>1. world.screen \in {"logo", "startup-prompt", "main-menu", "save-select", "start-save",
                          "black", "scene"}
    BY DEF GameplayFine
  <2>2. CASE world.blurred
    BY <1>2, <2>2 DEF stray_visual_state
  <2>3. CASE ~world.blurred
    BY <1>2, <2>1, <2>3 DEF stray_visual_state
  <2> QED  BY <2>2, <2>3
<1>4. \/ Sends(state)
      \/ Observes(0)
      \/ /\ Observes(local.run + 1) /\ local.saving
         /\ world.screen # "black" /\ state = "non-menu"
  BY <1>1, <1>2 DEF UnreadFrame, MenuFrame
<1>5. /\ DOMAIN world' = DOMAIN world /\ world'.screen = world.screen
      /\ world'.misses = world.misses /\ world'.blurred = FALSE
  BY <1>4 DEF Sends, Observes, GameplayFine
<1>6. /\ DOMAIN local' = DOMAIN local
      /\ \/ local'.run = 0 /\ (local'.saving => local.saving \/ state = "save-select")
         \/ /\ local'.run = local.run + 1 /\ local'.saving = local.saving /\ local.saving
            /\ world.screen # "black" /\ state = "non-menu"
  BY <1>4 DEF Sends, Observes, GameplayFine
<1>7. world.screen # "scene" => local'.run <= world.misses
  <2>1. CASE local'.run = 0
    BY <2>1, ReadyAssumption DEF GameplayFine
  <2>2. CASE /\ local'.run = local.run + 1 /\ local.saving
             /\ world.screen # "black" /\ state = "non-menu"
    BY <1>3, <2>2 DEF GameplayFine
  <2> QED  BY <1>6, <2>1, <2>2
<1>8. local'.run \in Nat /\ (local'.run > 0 => local'.saving)
  BY <1>6 DEF GameplayFine
<1>9. local'.saving => world.screen \in {"save-select", "start-save", "black", "scene"}
  BY <1>3, <1>6 DEF GameplayFine
<1>10. result' = "none" \/ (result' = "gameplay" /\ local'.run >= 2)
  BY DEF CaptureFrame, ReachedAfter
<1>11. world.misses \in Nat
  BY ReadyAssumption DEF GameplayFine
<1>12. \/ result' = "none"
       \/ result' = "gameplay" /\ (world.screen = "scene" \/ world.misses >= 2)
  BY <1>7, <1>8, <1>10, <1>11
<1> QED  BY <1>5, <1>6, <1>7, <1>8, <1>9, <1>12 DEF GameplayFine

LEMMA GameplayKeep ==
  ASSUME ReadyInv,
         BeginGameplay \/ GameAnswers \/ CaptureFrame \/ GameplayTimesOut
  PROVE  ReadyInv'
<1>1. CASE BeginGameplay
  <2>1. /\ loop' = "gameplay" /\ result' = "none"
        /\ world' = [screen |-> "logo", input |-> FALSE, blurred |-> FALSE, misses |-> 0]
        /\ local' = [saving |-> FALSE, run |-> 0, advanced |-> {}]
    BY <1>1 DEF BeginGameplay, Start
  <2>2. GameplayFine'
    BY <2>1, ReadyAssumption DEF GameplayFine
  <2> QED  BY <2>1, <2>2 DEF ReadyInv
<1>2. CASE GameAnswers
  <2>1. loop = "gameplay" /\ result = "none" /\ GameplayFine /\ UNCHANGED <<loop, local, result>>
    BY <1>2 DEF GameAnswers, Running, ReadyInv
  <2>2. CASE \E screen \in {AfterReturn(world.screen), world.screen} :
               world' = [world EXCEPT !.input = FALSE, !.screen = screen]
    <3>1. PICK screen \in {AfterReturn(world.screen), world.screen} :
               world' = [world EXCEPT !.input = FALSE, !.screen = screen]
      BY <2>2
    <3>2. /\ DOMAIN world' = DOMAIN world /\ world'.screen = screen
          /\ world'.misses = world.misses /\ world'.blurred = world.blurred
      BY <2>1, <3>1 DEF GameplayFine
    <3>3. /\ screen \in {"logo", "startup-prompt", "main-menu", "save-select", "start-save",
                         "black", "scene"}
          /\ world.screen \in {"save-select", "start-save", "black", "scene"}
               => screen \in {"save-select", "start-save", "black", "scene"}
          /\ world.screen = "scene" => screen = "scene"
      BY <2>1 DEF GameplayFine, AfterReturn
    <3>4. GameplayFine'
      BY <2>1, <3>2, <3>3 DEF GameplayFine
    <3> QED  BY <2>1, <3>4 DEF ReadyInv
  <2>3. CASE world.screen = "black" /\ world' = [world EXCEPT !.screen = "scene"]
    <3>1. /\ DOMAIN world' = DOMAIN world /\ world'.screen = "scene"
          /\ world'.misses = world.misses /\ world'.blurred = world.blurred
      BY <2>1, <2>3 DEF GameplayFine
    <3>2. GameplayFine'
      BY <2>1, <3>1 DEF GameplayFine
    <3> QED  BY <2>1, <3>2 DEF ReadyInv
  <2>4. CASE world.screen = "logo" /\ world' = [world EXCEPT !.screen = "main-menu"]
    <3>1. /\ DOMAIN world' = DOMAIN world /\ world'.screen = "main-menu" /\ ~local.saving
          /\ world'.misses = world.misses /\ world'.blurred = world.blurred
      BY <2>1, <2>4 DEF GameplayFine
    <3>2. GameplayFine'
      BY <2>1, <2>4, <3>1 DEF GameplayFine
    <3> QED  BY <2>1, <3>2 DEF ReadyInv
  <2>5. CASE /\ ~world.blurred /\ world.misses < MaxMisses
             /\ world' = [world EXCEPT !.blurred = TRUE, !.misses = @ + 1]
    <3>1. /\ DOMAIN world' = DOMAIN world /\ world'.screen = world.screen
          /\ world'.misses = world.misses + 1 /\ world'.blurred = TRUE
      BY <2>1, <2>5 DEF GameplayFine
    <3>2. GameplayFine'
      BY <2>1, <2>5, <3>1, ReadyAssumption DEF GameplayFine
    <3> QED  BY <2>1, <3>2 DEF ReadyInv
  <2> QED  BY <1>2, <2>2, <2>3, <2>4, <2>5 DEF GameAnswers
<1>3. CASE CaptureFrame
  <2>1. loop = "gameplay" /\ GameplayFine /\ loop' = loop
    BY <1>3 DEF CaptureFrame, Running, ReadyInv
  <2>2. GameplayFine'
    BY <1>3, <2>1, FrameSeen
  <2> QED  BY <2>1, <2>2 DEF ReadyInv
<1>4. CASE GameplayTimesOut
  <2>1. loop = "gameplay" /\ GameplayFine /\ UNCHANGED <<loop, world, local>> /\ result' = "timeout"
    BY <1>4 DEF GameplayTimesOut, Running, Returns, ReadyInv
  <2>2. GameplayFine'
    BY <2>1 DEF GameplayFine
  <2> QED  BY <2>1, <2>2 DEF ReadyInv
<1> QED  BY <1>1, <1>2, <1>3, <1>4

LEMMA ReadyStep == ReadyInv /\ [ReadyNext]_readyVars => ReadyInv'
<1> SUFFICES ASSUME ReadyInv, [ReadyNext]_readyVars PROVE ReadyInv'
  OBVIOUS
<1>1. CASE UNCHANGED readyVars
  BY <1>1 DEF readyVars, ReadyInv, SamplesFine, LibraryFine, WorkspaceFine, SurfaceFine,
     GameplayFine, FrameWitnessed
<1> QED  BY <1>1, SamplesKeep, LibraryKeep, WorkspaceKeep, SurfaceKeep, GameplayKeep
         DEF ReadyNext, ReadyOver

LEMMA ReadyMeans ==
  ASSUME ReadyInv
  PROVE  /\ AdmittedInARow /\ LibraryIsCurrent /\ WorkspaceShowedFrame /\ RetainedWasLive
         /\ MaxMisses <= 1 => ReachedIsScene
<1>1. AdmittedInARow
  <2> SUFFICES ASSUME result = "admitted"
               PROVE  /\ Len(world.samples) >= local.need
                      /\ \A i \in (Len(world.samples) - local.need + 1) .. Len(world.samples) :
                           world.samples[i]
    BY DEF AdmittedInARow
  <2>1. SamplesFine /\ local.run >= local.need
    BY DEF ReadyInv, SamplesFine, LibraryFine, WorkspaceFine, SurfaceFine, GameplayFine
  <2>2. PICK n \in Nat, need \in Nat, row \in Nat :
          n = Len(world.samples) /\ need = local.need /\ row = local.run
    BY <2>1 DEF SamplesFine
  <2>3. /\ row <= n /\ need <= row
        /\ \A i \in 1 .. n : i > n - row => world.samples[i]
    BY <2>1, <2>2 DEF SamplesFine
  <2>4. \A i \in (n - need + 1) .. n : i \in 1 .. n /\ i > n - row
    BY <2>3
  <2> QED  BY <2>2, <2>3, <2>4
<1>2. LibraryIsCurrent
  <2> SUFFICES ASSUME loop = "library", result = "ready"
               PROVE  /\ "Success" \in world.since["Starting"]
                      /\ "disconnected" \notin world.since["connected"]
    BY DEF LibraryIsCurrent
  <2>1. LibraryFine /\ LoggedIn(world.at) /\ Connected(world.at)
    BY DEF ReadyInv, LibraryFine
  <2>2. world.at["connected"] \in Int /\ world.at["disconnected"] \in Int
    <3>1. "js" \in Files /\ {"connected", "disconnected"} \subseteq Marks["js"]
      BY DEF Files, Marks
    <3> QED  BY <2>1, <3>1 DEF LibraryFine
  <2> QED  BY <2>1, <2>2 DEF LibraryFine, LoggedIn, Connected
<1>3. WorkspaceShowedFrame
  BY DEF ReadyInv, WorkspaceFine, FrameWitnessed, WorkspaceShowedFrame
<1>4. RetainedWasLive
  BY DEF ReadyInv, SamplesFine, LibraryFine, WorkspaceFine, SurfaceFine, GameplayFine,
     RetainedWasLive
<1>5. MaxMisses <= 1 => ReachedIsScene
  <2> SUFFICES ASSUME MaxMisses <= 1, result = "gameplay" PROVE world.screen = "scene"
    BY DEF ReachedIsScene
  <2>1. GameplayFine
    BY DEF ReadyInv, SamplesFine, LibraryFine, WorkspaceFine, SurfaceFine
  <2>2. world.misses \in 0 .. 1
    BY <2>1, ReadyAssumption DEF GameplayFine
  <2> QED  BY <2>1, <2>2 DEF GameplayFine
<1> QED  BY <1>1, <1>2, <1>3, <1>4, <1>5

\* A loop that reports readiness has seen it hold: an unbroken row of samples,
\* a login and a connection that were not undone, a frame of a running stack, a
\* game that lives.
THEOREM GatesGroundedAlways ==
  ReadySpec => [](AdmittedInARow /\ LibraryIsCurrent /\ WorkspaceShowedFrame /\ RetainedWasLive)
<1> QED  BY ReadyMeans, ReadyStart, ReadyStep, PTL DEF ReadySpec

\* When at most one frame is misread the gameplay gate, too, only opens on the
\* scene itself; with two in a row it opens on the screen before.
THEOREM GatesSoundAlways == ASSUME MaxMisses <= 1 PROVE ReadySpec => []GatesSound
<1>1. ReadyInv => GatesSound
  BY ReadyMeans DEF GatesSound
<1> QED  BY <1>1, ReadyStart, ReadyStep, PTL DEF ReadySpec

-----------------------------------------------------------------------------
(* StrayProfile: lines and entries.                                          *)

\* The settings an edit asks for.
Demand(v) == DOMAIN v \in SUBSET Keys /\ v = [k \in DOMAIN v |-> "new"]

LEMMA LineKinds ==
  /\ \A l \in FileLines :
       \/ l.kind = "section" /\ l.name \in Sections /\ l = Section(l.name)
       \/ l.kind = "setting" /\ l.name \in Keys /\ l.value \in {"old", "new"}
          /\ l = Setting(l.name, l.value)
       \/ l.kind = "blank" /\ l = Blank
  /\ \A n \in Sections : Section(n) \in FileLines /\ Section(n).kind = "section"
                         /\ Section(n).name = n
  /\ \A k \in Keys, x \in {"old", "new"} :
       Setting(k, x) \in FileLines /\ Setting(k, x).kind = "setting"
       /\ Setting(k, x).name = k /\ Setting(k, x).value = x
  /\ Blank \in FileLines /\ Blank.kind = "blank"
BY DEF FileLines, Section, Setting, Blank, Sections, Keys

\* SetToSeq lists each element of a finite set once.
LEMMA SetListed ==
  ASSUME NEW S, IsFiniteSet(S)
  PROVE  SetToSeq(S) \in Seq(S) /\ NoRepeats(SetToSeq(S)) /\ ToSet(SetToSeq(S)) = S
<1>1. Cardinality(S) \in Nat /\ ExistsBijection(1 .. Cardinality(S), S)
  BY FS_CardinalityType
<1>2. PICK n \in Nat : n = Cardinality(S)
  BY <1>1
<1>3. \E f \in [1 .. n -> S] : IsInjective(f)
  BY <1>1, <1>2 DEF ExistsBijection, Bijection, Injection
<1>4. PICK f \in [1 .. n -> S] : IsInjective(f) /\ f = SetToSeq(S)
  BY <1>2, <1>3 DEF SetToSeq
<1>5. f \in Seq(S) /\ DOMAIN f = 1 .. n
  BY <1>4
<1>6. NoRepeats(f)
  BY <1>4 DEF IsInjective, NoRepeats
<1>7. f \in Surjection(1 .. n, S)
  <2>1. Cardinality(1 .. n) = n
    BY FS_Interval
  <2>2. f \in Injection(1 .. n, S)
    BY <1>4 DEF Injection
  <2> QED  BY <1>2, <2>1, <2>2, FS_Injection
<1>8. ToSet(f) = S
  BY <1>4, <1>7 DEF Surjection, ToSet
<1> QED  BY <1>4, <1>5, <1>6, <1>8

\* The entries written for a set of keys.
EntriesOf(e, J) ==
  /\ e \in Seq(FileLines) /\ NoRepeats(e)
  /\ ToSet(e) = {Setting(k, "new") : k \in J}
  /\ J = {} => e = <<>>

LEMMA EntriesAre ==
  ASSUME NEW v, Demand(v), NEW J \in SUBSET DOMAIN v
  PROVE  EntriesOf(Entries(v, J), J)
<1>1. PICK S : S = {Setting(k, "new") : k \in J}
  OBVIOUS
<1>2. {Setting(k, v[k]) : k \in J} = S
  BY <1>1 DEF Demand
<1>3. S \subseteq {Setting("sg", "new"), Setting("fps", "new")} /\ S \subseteq FileLines
  BY <1>1, LineKinds DEF Demand, Keys
<1>4. IsFiniteSet({Setting("sg", "new"), Setting("fps", "new")})
  <2>1. IsFiniteSet({Setting("sg", "new")})
    BY FS_Singleton
  <2>2. IsFiniteSet({Setting("sg", "new")} \cup {Setting("fps", "new")})
    BY <2>1, FS_AddElement
  <2> QED  BY <2>2
<1>5. IsFiniteSet(S)
  BY <1>3, <1>4, FS_Subset
<1>6. PICK e \in Seq(S) : e = SetToSeq(S) /\ NoRepeats(e) /\ ToSet(e) = S
  BY <1>5, SetListed
<1>7. e \in Seq(FileLines)
  BY <1>3, <1>6
<1>8. ASSUME J = {} PROVE e = <<>>
  <2>1. S = {}
    BY <1>1, <1>8
  <2>2. DOMAIN e = {} /\ Len(e) \in Nat /\ DOMAIN e = 1 .. Len(e)
    BY <1>6, <2>1 DEF ToSet
  <2> QED  BY <1>6, <2>2
<1>9. Entries(v, J) = e
  BY <1>2, <1>6 DEF Entries
<1> QED  BY <1>1, <1>6, <1>7, <1>8, <1>9 DEF EntriesOf

\* An entry is the setting of one of the keys, and each key has one.
LEMMA EntryLines ==
  ASSUME NEW e, NEW J \in SUBSET Keys, EntriesOf(e, J)
  PROVE  /\ \A i \in DOMAIN e : e[i].kind = "setting" /\ e[i].name \in J
                                /\ e[i] = Setting(e[i].name, "new")
         /\ \A k \in J : \E i \in DOMAIN e : e[i] = Setting(k, "new")
         /\ \A i, j \in DOMAIN e : e[i].name = e[j].name => i = j
<1>1. \A i \in DOMAIN e : \E k \in J : e[i] = Setting(k, "new")
  BY DEF EntriesOf, ToSet
<1>2. \A i \in DOMAIN e : e[i].kind = "setting" /\ e[i].name \in J
                          /\ e[i] = Setting(e[i].name, "new")
  BY <1>1, LineKinds
<1>3. \A k \in J : \E i \in DOMAIN e : e[i] = Setting(k, "new")
  BY DEF EntriesOf, ToSet
<1>4. \A i, j \in DOMAIN e : e[i].name = e[j].name => i = j
  BY <1>2 DEF EntriesOf, NoRepeats
<1> QED  BY <1>2, <1>3, <1>4

-----------------------------------------------------------------------------
(* The section a line is under.                                              *)

Heads(s, i) == {j \in 1 .. i : s[j].kind = "section"}
LastOf(s, H) == IF H = {} THEN "none" ELSE s[CHOOSE j \in H : \A h \in H : h <= j].name

LEMMA SectionIs == \A s, i : SectionAt(s, i) = LastOf(s, Heads(s, i))
BY Zenon DEF SectionAt, LastOf, Heads

LEMMA SectionSteps ==
  ASSUME NEW s \in Seq(FileLines)
  PROVE  /\ SectionAt(s, 0) = "none"
         /\ \A i \in 0 .. Len(s) - 1 :
              SectionAt(s, i + 1) = IF s[i + 1].kind = "section" THEN s[i + 1].name
                                    ELSE SectionAt(s, i)
<1>1. SectionAt(s, 0) = "none"
  BY DEF SectionAt
<1>2. PICK N \in Nat : N = Len(s)
  OBVIOUS
<1>3. ASSUME NEW i \in 0 .. N - 1, s[i + 1].kind = "section"
      PROVE  SectionAt(s, i + 1) = s[i + 1].name
  <2> DEFINE H == {j \in 1 .. i + 1 : s[j].kind = "section"}
  <2>1. i + 1 \in H /\ \A h \in H : h <= i + 1
    BY <1>3
  <2>2. (CHOOSE j \in H : \A h \in H : h <= j) = i + 1
    <3>1. \A j \in H : (\A h \in H : h <= j) => j = i + 1
      BY <2>1
    <3> HIDE DEF H
    <3> QED  BY <2>1, <3>1
  <2> QED  BY <2>1, <2>2 DEF SectionAt
<1>4. ASSUME NEW i \in 0 .. N - 1, s[i + 1].kind # "section"
      PROVE  SectionAt(s, i + 1) = SectionAt(s, i)
  <2>1. Heads(s, i + 1) = Heads(s, i)
    BY <1>4 DEF Heads
  <2> QED  BY <2>1, SectionIs
<1> QED  BY <1>1, <1>2, <1>3, <1>4

\* Equal lines after equal sections are under equal sections.
Alike(s, a, t, b, m) ==
  /\ a \in Nat /\ b \in Nat /\ m \in Nat /\ a + m <= Len(s) /\ b + m <= Len(t)
  /\ SectionAt(s, a) = SectionAt(t, b)
  /\ \A j \in 1 .. m : s[a + j] = t[b + j]

LEMMA SectionsAlike ==
  ASSUME NEW s \in Seq(FileLines), NEW t \in Seq(FileLines), NEW a, NEW b, NEW m,
         Alike(s, a, t, b, m)
  PROVE  \A n \in 0 .. m : SectionAt(s, a + n) = SectionAt(t, b + n)
<1> DEFINE U == {n \in 0 .. m : SectionAt(s, a + n) = SectionAt(t, b + n)}
<1>1. a \in Nat /\ b \in Nat /\ m \in Nat /\ a + m <= Len(s) /\ b + m <= Len(t)
      /\ Len(s) \in Nat /\ Len(t) \in Nat
  BY DEF Alike
<1>2. 0 \in U
  BY <1>1 DEF Alike
<1>3. ASSUME NEW n \in 0 .. m - 1, n \in U PROVE n + 1 \in U
  <2>1. a + n \in 0 .. Len(s) - 1 /\ b + n \in 0 .. Len(t) - 1
    BY <1>1
  <2>2. s[(a + n) + 1] = t[(b + n) + 1]
    <3>1. n + 1 \in 1 .. m /\ a + (n + 1) = (a + n) + 1 /\ b + (n + 1) = (b + n) + 1
      BY <1>1
    <3>2. s[a + (n + 1)] = t[b + (n + 1)]
      BY <3>1 DEF Alike
    <3> QED  BY <3>1, <3>2
  <2>3. SectionAt(s, (a + n) + 1) = SectionAt(t, (b + n) + 1)
    BY <1>3, <2>1, <2>2, SectionSteps
  <2> QED  BY <1>1, <2>3
<1>4. \A n \in 0 .. m : n \in U
  <2> HIDE DEF U
  <2>1. U \in SUBSET (0 .. m)
    BY DEF U
  <2> QED  BY <1>1, <1>2, <1>3, <2>1, Stepwise
<1> QED  BY <1>4

\* Lines that are no headers are under the section before them.
Headless(s, a, m) ==
  /\ a \in Nat /\ m \in Nat /\ a + m <= Len(s)
  /\ \A j \in 1 .. m : s[a + j].kind # "section"

LEMMA SectionStays ==
  ASSUME NEW s \in Seq(FileLines), NEW a, NEW m, Headless(s, a, m)
  PROVE  \A n \in 0 .. m : SectionAt(s, a + n) = SectionAt(s, a)
<1> DEFINE U == {n \in 0 .. m : SectionAt(s, a + n) = SectionAt(s, a)}
<1>1. a \in Nat /\ m \in Nat /\ a + m <= Len(s) /\ Len(s) \in Nat
  BY DEF Headless
<1>2. 0 \in U
  BY <1>1
<1>3. ASSUME NEW n \in 0 .. m - 1, n \in U PROVE n + 1 \in U
  <2>1. a + n \in 0 .. Len(s) - 1
    BY <1>1
  <2>2. s[(a + n) + 1].kind # "section"
    <3>1. n + 1 \in 1 .. m /\ a + (n + 1) = (a + n) + 1
      BY <1>1
    <3>2. s[a + (n + 1)].kind # "section"
      BY <3>1 DEF Headless
    <3> QED  BY <3>1, <3>2
  <2>3. SectionAt(s, (a + n) + 1) = SectionAt(s, a)
    BY <1>3, <2>1, <2>2, SectionSteps
  <2> QED  BY <1>1, <2>3
<1>4. \A n \in 0 .. m : n \in U
  <2> HIDE DEF U
  <2>1. U \in SUBSET (0 .. m)
    BY DEF U
  <2> QED  BY <1>1, <1>2, <1>3, <2>1, Stepwise
<1> QED  BY <1>4

-----------------------------------------------------------------------------
(* The passes over Engine.ini.                                               *)

LEMMA PieceFacts ==
  /\ <<>> \in Seq(FileLines) /\ Len(<<>>) = 0 /\ DOMAIN <<>> = {}
  /\ \A l \in FileLines : <<l>> \in Seq(FileLines) /\ Len(<<l>>) = 1 /\ <<l>>[1] = l
                          /\ DOMAIN <<l>> = {1} /\ <<l>> # <<>>
OBVIOUS

\* x is y with one more line.
Appends(y, l, x) ==
  /\ x \in Seq(FileLines) /\ Len(x) = Len(y) + 1
  /\ DOMAIN x = DOMAIN y \cup {Len(y) + 1} /\ Len(y) + 1 \notin DOMAIN y
  /\ \A j \in DOMAIN y : x[j] = y[j]
  /\ x[Len(y) + 1] = l
  /\ \A j \in DOMAIN y : \A J : IsSystem(x, j, J) <=> IsSystem(y, j, J)
  /\ SectionAt(x, Len(x)) = IF l.kind = "section" THEN l.name ELSE SectionAt(y, Len(y))

LEMMA Appended ==
  ASSUME NEW y \in Seq(FileLines), NEW l \in FileLines
  PROVE  Appends(y, l, y \o <<l>>)
<1>1. PICK N \in Nat : N = Len(y) /\ DOMAIN y = 1 .. N
  OBVIOUS
<1>2. PICK x \in Seq(FileLines) : x = y \o <<l>>
  <2>1. <<l>> \in Seq(FileLines)
    OBVIOUS
  <2>2. y \o <<l>> \in Seq(FileLines)
    BY <2>1
  <2> QED  BY <2>2
<1>3. Len(x) = N + 1 /\ DOMAIN x = 1 .. N + 1 /\ x[N + 1] = l /\ \A j \in 1 .. N : x[j] = y[j]
  BY <1>1, <1>2
<1>4. DOMAIN x = DOMAIN y \cup {N + 1} /\ N + 1 \notin DOMAIN y
  BY <1>1, <1>3
<1>5. \A n \in 0 .. N : SectionAt(x, 0 + n) = SectionAt(y, 0 + n)
  <2>1. SectionAt(x, 0) = SectionAt(y, 0)
    BY SectionSteps
  <2>2. Alike(x, 0, y, 0, N)
    BY <1>1, <1>3, <2>1 DEF Alike
  <2> QED  BY <2>2, SectionsAlike
<1>6. \A n \in 0 .. N : SectionAt(x, n) = SectionAt(y, n)
  BY <1>5
<1>7. SectionAt(x, N + 1) = IF l.kind = "section" THEN l.name ELSE SectionAt(y, N)
  <2>1. N \in 0 .. Len(x) - 1
    BY <1>3
  <2>2. SectionAt(x, N + 1) = IF x[N + 1].kind = "section" THEN x[N + 1].name
                              ELSE SectionAt(x, N)
    BY <2>1, SectionSteps
  <2> QED  BY <1>3, <1>6, <2>2
<1>8. \A j \in DOMAIN y : \A J : IsSystem(x, j, J) <=> IsSystem(y, j, J)
  BY <1>1, <1>3, <1>6 DEF IsSystem
<1> QED  BY <1>1, <1>2, <1>3, <1>4, <1>7, <1>8 DEF Appends

\* A pass leaves the headers and replaces other lines by at most one that is none.
Passes(s, p) ==
  /\ p \in Seq(Seq(FileLines)) /\ Len(p) = Len(s)
  /\ \A i \in DOMAIN s :
       IF s[i].kind = "section" THEN p[i] = <<s[i]>>
       ELSE p[i] = <<>> \/ \E l \in FileLines : l.kind # "section" /\ p[i] = <<l>>

\* What one more line of s adds: nothing, or a line under the section of s's.
PassStep(s, n, y, q, x) ==
  \/ q = <<>> /\ x = y
  \/ \E l \in FileLines : /\ q = <<l>> /\ Appends(y, l, x)
                          /\ SectionAt(x, Len(x)) = SectionAt(s, n)

LEMMA PassSteps ==
  ASSUME NEW s \in Seq(FileLines), NEW p, Passes(s, p),
         NEW out \in [0 .. Len(p) -> Seq(FileLines)], Grows(out, p, Len(p))
  PROVE  \A n \in 0 .. Len(p) - 1 : PassStep(s, n + 1, out[n], p[n + 1], out[n + 1])
<1>1. PICK N \in Nat : N = Len(s) /\ N = Len(p) /\ DOMAIN s = 1 .. N
  BY DEF Passes
<1> DEFINE U == {n \in 0 .. N : SectionAt(out[n], Len(out[n])) = SectionAt(s, n)}
<1>2. 0 \in U
  <2>1. out[0] = <<>> /\ <<>> \in Seq(FileLines) /\ Len(<<>>) = 0
    BY DEF Grows
  <2> QED  BY <1>1, <2>1, SectionSteps
<1>3. ASSUME NEW n \in 0 .. N - 1, n \in U
      PROVE  n + 1 \in U /\ PassStep(s, n + 1, out[n], p[n + 1], out[n + 1])
  <2>1. PICK y \in Seq(FileLines) : y = out[n]
    BY <1>1, <1>3
  <2>2. PICK q : q = p[n + 1] /\ out[n + 1] = y \o q
    BY <1>1, <2>1 DEF Grows
  <2>3. SectionAt(s, n + 1) = IF s[n + 1].kind = "section" THEN s[n + 1].name
                              ELSE SectionAt(s, n)
    BY <1>1, SectionSteps
  <2>4. n + 1 \in DOMAIN s /\ s[n + 1] \in FileLines
    BY <1>1
  <2>5. SectionAt(y, Len(y)) = SectionAt(s, n)
    BY <1>3, <2>1
  <2>6. CASE q = <<>>
    <3>1. out[n + 1] = y /\ s[n + 1].kind # "section"
      <4>1. y \o <<>> = y
        BY <2>1
      <4>2. <<s[n + 1]>> # <<>>
        OBVIOUS
      <4> QED  BY <2>2, <2>4, <2>6, <4>1, <4>2 DEF Passes
    <3>2. SectionAt(out[n + 1], Len(out[n + 1])) = SectionAt(s, n + 1)
      BY <2>3, <2>5, <3>1
    <3>3. PassStep(s, n + 1, out[n], p[n + 1], out[n + 1])
      BY <2>1, <2>2, <2>6, <3>1 DEF PassStep
    <3> QED  BY <3>2, <3>3, <1>1
  <2>7. CASE q # <<>>
    <3>1. PICK l \in FileLines : q = <<l>> /\ IF s[n + 1].kind = "section" THEN l = s[n + 1]
                                              ELSE l.kind # "section"
      BY <2>2, <2>4, <2>7 DEF Passes
    <3>2. Appends(y, l, out[n + 1])
      BY <2>2, <3>1, Appended
    <3>3. SectionAt(out[n + 1], Len(out[n + 1])) = SectionAt(s, n + 1)
      BY <2>3, <2>5, <3>1, <3>2 DEF Appends
    <3>4. PassStep(s, n + 1, out[n], p[n + 1], out[n + 1])
      BY <2>1, <2>2, <3>1, <3>2, <3>3 DEF PassStep
    <3> QED  BY <3>3, <3>4, <1>1
  <2> QED  BY <2>6, <2>7
<1>4. \A n \in 0 .. N : n \in U
  <2> HIDE DEF U
  <2>1. U \in SUBSET (0 .. N)
    BY DEF U
  <2> QED  BY <1>1, <1>2, <1>3, <2>1, Stepwise
<1> QED  BY <1>1, <1>3, <1>4

\* A key has no line under the system's header, or exactly one with the value asked for.
ClearOf(s, k) == \A i \in DOMAIN s : ~IsSystem(s, i, {k})
OnceOf(s, k) ==
  \E i \in DOMAIN s : /\ IsSystem(s, i, {k}) /\ s[i] = Setting(k, "new")
                      /\ \A j \in DOMAIN s : IsSystem(s, j, {k}) => j = i

LEMMA AppendOther ==
  ASSUME NEW k, NEW y, NEW l, NEW x, Appends(y, l, x), ~IsSystem(x, Len(x), {k})
  PROVE  /\ ClearOf(y, k) => ClearOf(x, k)
         /\ OnceOf(y, k) => OnceOf(x, k)
<1>1. DOMAIN x = DOMAIN y \cup {Len(y) + 1} /\ Len(x) = Len(y) + 1
  BY DEF Appends
<1>2. \A j \in DOMAIN y : x[j] = y[j] /\ (IsSystem(x, j, {k}) <=> IsSystem(y, j, {k}))
  BY DEF Appends
<1>3. ~IsSystem(x, Len(y) + 1, {k})
  BY <1>1
<1>4. ClearOf(y, k) => ClearOf(x, k)
  BY <1>1, <1>2, <1>3 DEF ClearOf
<1>5. ASSUME OnceOf(y, k) PROVE OnceOf(x, k)
  <2>1. PICK i \in DOMAIN y : /\ IsSystem(y, i, {k}) /\ y[i] = Setting(k, "new")
                              /\ \A j \in DOMAIN y : IsSystem(y, j, {k}) => j = i
    BY <1>5 DEF OnceOf
  <2>2. i \in DOMAIN x /\ IsSystem(x, i, {k}) /\ x[i] = Setting(k, "new")
    BY <1>1, <1>2, <2>1
  <2>3. \A j \in DOMAIN x : IsSystem(x, j, {k}) => j = i
    BY <1>1, <1>2, <1>3, <2>1
  <2> QED  BY <2>2, <2>3 DEF OnceOf
<1> QED  BY <1>4, <1>5

LEMMA AppendFirst ==
  ASSUME NEW k, NEW y, NEW x, Appends(y, Setting(k, "new"), x), IsSystem(x, Len(x), {k}),
         ClearOf(y, k)
  PROVE  OnceOf(x, k)
<1>1. DOMAIN x = DOMAIN y \cup {Len(y) + 1} /\ Len(x) = Len(y) + 1
  BY DEF Appends
<1>2. \A j \in DOMAIN y : x[j] = y[j] /\ (IsSystem(x, j, {k}) <=> IsSystem(y, j, {k}))
  BY DEF Appends
<1>3. x[Len(y) + 1] = Setting(k, "new") /\ IsSystem(x, Len(y) + 1, {k})
  BY <1>1 DEF Appends
<1>4. \A j \in DOMAIN y : ~IsSystem(x, j, {k})
  BY <1>2 DEF ClearOf
<1> QED  BY <1>1, <1>3, <1>4 DEF OnceOf

EnginePieces(s, v) == [i \in DOMAIN s |-> EngineLine(s, v, i)]
RemovePieces(s, J) == [i \in DOMAIN s |-> IF IsSystem(s, i, J) THEN <<>> ELSE <<s[i]>>]

\* What is left of line i of s.
EnginePiece(s, v, i, q) ==
  \/ q = <<s[i]>> /\ ~IsSystem(s, i, DOMAIN v)
  \/ /\ IsSystem(s, i, DOMAIN v)
     /\ \E k \in DOMAIN v : /\ s[i].name = k /\ s[i].kind = "setting"
                            /\ IF \A j \in 1 .. i - 1 : ~IsSystem(s, j, {k})
                               THEN q = <<Setting(k, "new")>> ELSE q = <<>>

LEMMA EngineLineIs ==
  ASSUME NEW v, Demand(v), NEW s \in Seq(FileLines), NEW i \in DOMAIN s
  PROVE  EnginePiece(s, v, i, EngineLine(s, v, i))
<1>1. CASE ~IsSystem(s, i, DOMAIN v)
  BY <1>1 DEF EngineLine, EnginePiece
<1>2. CASE IsSystem(s, i, DOMAIN v)
  <2>1. PICK k \in DOMAIN v : k = s[i].name /\ s[i].kind = "setting"
    BY <1>2 DEF IsSystem, IsSetting
  <2>2. v[k] = "new"
    BY DEF Demand
  <2>3. EngineLine(s, v, i) = IF \A j \in 1 .. i - 1 : ~IsSystem(s, j, {k})
                              THEN <<Setting(k, "new")>> ELSE <<>>
    BY <1>2, <2>1, <2>2 DEF EngineLine
  <2> QED  BY <1>2, <2>1, <2>3 DEF EnginePiece
<1> QED  BY <1>1, <1>2

LEMMA EnginePasses ==
  ASSUME NEW v, Demand(v), NEW s \in Seq(FileLines)
  PROVE  Passes(s, EnginePieces(s, v))
<1>1. PICK N \in Nat : N = Len(s) /\ DOMAIN s = 1 .. N
  OBVIOUS
<1>2. ASSUME NEW i \in DOMAIN s
      PROVE  /\ EngineLine(s, v, i) \in Seq(FileLines)
             /\ IF s[i].kind = "section" THEN EngineLine(s, v, i) = <<s[i]>>
                ELSE \/ EngineLine(s, v, i) = <<>>
                     \/ \E l \in FileLines : l.kind # "section" /\ EngineLine(s, v, i) = <<l>>
  <2>1. PICK q : q = EngineLine(s, v, i) /\ EnginePiece(s, v, i, q)
    BY EngineLineIs
  <2>2. s[i] \in FileLines /\ <<s[i]>> \in Seq(FileLines)
    OBVIOUS
  <2>3. \A k \in DOMAIN v : /\ Setting(k, "new") \in FileLines
                            /\ Setting(k, "new").kind # "section"
                            /\ <<Setting(k, "new")>> \in Seq(FileLines)
    BY LineKinds DEF Demand
  <2> QED  BY <2>1, <2>2, <2>3, PieceFacts DEF EnginePiece
<1>3. EnginePieces(s, v) \in [1 .. N -> Seq(FileLines)]
  BY <1>1, <1>2 DEF EnginePieces
<1>4. EnginePieces(s, v) \in Seq(Seq(FileLines)) /\ Len(EnginePieces(s, v)) = Len(s)
  BY <1>1, <1>3
<1> QED  BY <1>2, <1>4 DEF Passes, EnginePieces

LEMMA RemovePasses ==
  ASSUME NEW J \in SUBSET Keys, NEW s \in Seq(FileLines)
  PROVE  Passes(s, RemovePieces(s, J))
<1>1. PICK N \in Nat : N = Len(s) /\ DOMAIN s = 1 .. N
  OBVIOUS
<1>2. \A i \in DOMAIN s : s[i] \in FileLines /\ <<s[i]>> \in Seq(FileLines)
  OBVIOUS
<1>3. RemovePieces(s, J) \in [1 .. N -> Seq(FileLines)]
  BY <1>1, <1>2, PieceFacts DEF RemovePieces
<1>4. RemovePieces(s, J) \in Seq(Seq(FileLines)) /\ Len(RemovePieces(s, J)) = Len(s)
  BY <1>1, <1>3
<1>5. \A i \in DOMAIN s : s[i].kind = "section" => ~IsSystem(s, i, J)
  BY DEF IsSystem, IsSetting
<1> QED  BY <1>2, <1>4, <1>5 DEF Passes, RemovePieces

\* A line that a pass adds is a system line of what a line of s was one of.
LEMMA LineAdded ==
  ASSUME NEW s, NEW n, NEW l, NEW y, NEW x, Appends(y, l, x),
         SectionAt(x, Len(x)) = SectionAt(s, n), NEW k
  PROVE  IsSystem(x, Len(x), {k}) <=> IsSetting(l, {k}) /\ SectionAt(s, n) = "System"
BY DEF Appends, IsSystem

LEMMA EngineStep ==
  ASSUME NEW v, Demand(v), NEW k \in DOMAIN v, NEW s \in Seq(FileLines), NEW n \in DOMAIN s,
         NEW q, EnginePiece(s, v, n, q), NEW y, NEW x, PassStep(s, n, y, q, x),
         IF \E i \in 1 .. n - 1 : IsSystem(s, i, {k}) THEN OnceOf(y, k) ELSE ClearOf(y, k)
  PROVE  IF \E i \in 1 .. n : IsSystem(s, i, {k}) THEN OnceOf(x, k) ELSE ClearOf(x, k)
<1>1. n \in Nat /\ 1 .. n = 1 .. n - 1 \cup {n}
  OBVIOUS
<1>2. IsSystem(s, n, {k}) <=> IsSystem(s, n, DOMAIN v) /\ s[n].name = k
  BY DEF IsSystem, IsSetting
<1>3. CASE q = <<>>
  <2>1. x = y
    BY <1>3, PieceFacts DEF PassStep
  <2>2. q # <<s[n]>> /\ \A j \in DOMAIN v : q # <<Setting(j, "new")>>
    BY <1>3
  <2>3. PICK j \in DOMAIN v : s[n].name = j /\ \E i \in 1 .. n - 1 : IsSystem(s, i, {j})
    BY <2>2 DEF EnginePiece
  <2>4. (\E i \in 1 .. n : IsSystem(s, i, {k})) <=> \E i \in 1 .. n - 1 : IsSystem(s, i, {k})
    BY <1>1, <1>2, <2>3
  <2> QED  BY <2>1, <2>4
<1>4. CASE q # <<>>
  <2>1. PICK l \in FileLines : /\ q = <<l>> /\ Appends(y, l, x)
                               /\ SectionAt(x, Len(x)) = SectionAt(s, n)
    BY <1>4 DEF PassStep
  <2>2. IsSystem(x, Len(x), {k}) <=> IsSetting(l, {k}) /\ SectionAt(s, n) = "System"
    BY <2>1, LineAdded
  <2>3. CASE ~IsSystem(s, n, DOMAIN v)
    <3>1. l = s[n]
      BY <2>1, <2>3 DEF EnginePiece
    <3>2. ~IsSystem(s, n, {k}) /\ ~IsSystem(x, Len(x), {k})
      BY <1>2, <2>2, <2>3, <3>1 DEF IsSystem
    <3>3. (\E i \in 1 .. n : IsSystem(s, i, {k})) <=> \E i \in 1 .. n - 1 : IsSystem(s, i, {k})
      BY <1>1, <3>2
    <3> QED  BY <2>1, <3>2, <3>3, AppendOther
  <2>4. CASE IsSystem(s, n, DOMAIN v)
    <3>1. PICK j \in DOMAIN v : /\ s[n].name = j /\ l = Setting(j, "new")
                                /\ \A i \in 1 .. n - 1 : ~IsSystem(s, i, {j})
      BY <1>4, <2>1, <2>4 DEF EnginePiece
    <3>2. l.kind = "setting" /\ l.name = j /\ SectionAt(s, n) = "System"
      BY <2>4, <3>1, LineKinds DEF IsSystem, Demand
    <3>3. CASE j = k
      <4>1. IsSystem(s, n, {k}) /\ IsSystem(x, Len(x), {k}) /\ ClearOf(y, k)
        BY <1>2, <2>2, <2>4, <3>1, <3>2, <3>3 DEF IsSetting
      <4>2. Appends(y, Setting(k, "new"), x)
        BY <2>1, <3>1, <3>3
      <4>3. OnceOf(x, k)
        BY <4>1, <4>2, AppendFirst
      <4> QED  BY <1>1, <4>1, <4>3
    <3>4. CASE j # k
      <4>1. ~IsSystem(s, n, {k}) /\ ~IsSystem(x, Len(x), {k})
        BY <1>2, <2>2, <3>1, <3>2, <3>4 DEF IsSetting
      <4>2. (\E i \in 1 .. n : IsSystem(s, i, {k})) <=> \E i \in 1 .. n - 1 : IsSystem(s, i, {k})
        BY <1>1, <4>1
      <4> QED  BY <2>1, <4>1, <4>2, AppendOther
    <3> QED  BY <3>3, <3>4
  <2> QED  BY <2>3, <2>4
<1> QED  BY <1>3, <1>4

\* Each key that had lines under the system's header has one now.
LEMMA EngineCounts ==
  ASSUME NEW v, Demand(v), NEW k \in DOMAIN v, NEW s \in Seq(FileLines)
  PROVE  /\ FlattenSeq(EnginePieces(s, v)) \in Seq(FileLines)
         /\ IF \E i \in DOMAIN s : IsSystem(s, i, {k})
            THEN OnceOf(FlattenSeq(EnginePieces(s, v)), k)
            ELSE ClearOf(FlattenSeq(EnginePieces(s, v)), k)
<1>1. PICK p \in Seq(Seq(FileLines)) : p = EnginePieces(s, v) /\ Passes(s, p)
  BY EnginePasses DEF Passes
<1>2. PICK N \in Nat : N = Len(s) /\ N = Len(p) /\ DOMAIN s = 1 .. N
  BY <1>1 DEF Passes
<1>3. PICK out \in [0 .. Len(p) -> Seq(FileLines)] : Grows(out, p, Len(p))
  BY FlattenSteps
<1> DEFINE U == {n \in 0 .. N : IF \E i \in 1 .. n : IsSystem(s, i, {k})
                                THEN OnceOf(out[n], k) ELSE ClearOf(out[n], k)}
<1>4. 0 \in U
  <2>1. out[0] = <<>> /\ 1 .. 0 = {}
    BY <1>3 DEF Grows
  <2> QED  BY <1>2, <2>1, PieceFacts DEF ClearOf
<1>5. ASSUME NEW n \in 0 .. N - 1, n \in U PROVE n + 1 \in U
  <2>1. PassStep(s, n + 1, out[n], p[n + 1], out[n + 1])
    BY <1>1, <1>2, <1>3, PassSteps
  <2>2. n + 1 \in DOMAIN s /\ (n + 1) - 1 = n /\ n + 1 \in 0 .. N
    BY <1>2
  <2>3. EnginePiece(s, v, n + 1, p[n + 1])
    BY <1>1, <2>2, EngineLineIs DEF EnginePieces
  <2>4. IF \E i \in 1 .. (n + 1) - 1 : IsSystem(s, i, {k})
        THEN OnceOf(out[n], k) ELSE ClearOf(out[n], k)
    BY <1>5, <2>2
  <2>5. IF \E i \in 1 .. n + 1 : IsSystem(s, i, {k})
        THEN OnceOf(out[n + 1], k) ELSE ClearOf(out[n + 1], k)
    BY <2>1, <2>2, <2>3, <2>4, EngineStep
  <2> QED  BY <2>2, <2>5
<1>6. N \in U
  <2> HIDE DEF U
  <2>1. U \in SUBSET (0 .. N)
    BY DEF U
  <2>2. \A n \in 0 .. N : n \in U
    BY <1>2, <1>4, <1>5, <2>1, Stepwise
  <2> QED  BY <1>2, <2>2
<1>7. out[N] = FlattenSeq(p) /\ out[N] \in Seq(FileLines)
  BY <1>2, <1>3 DEF Grows
<1> QED  BY <1>1, <1>2, <1>6, <1>7

LEMMA RemoveCounts ==
  ASSUME NEW J \in SUBSET Keys, NEW k \in J, NEW s \in Seq(FileLines)
  PROVE  /\ FlattenSeq(RemovePieces(s, J)) \in Seq(FileLines)
         /\ ClearOf(FlattenSeq(RemovePieces(s, J)), k)
<1>1. PICK p \in Seq(Seq(FileLines)) : p = RemovePieces(s, J) /\ Passes(s, p)
  BY RemovePasses DEF Passes
<1>2. PICK N \in Nat : N = Len(s) /\ N = Len(p) /\ DOMAIN s = 1 .. N
  BY <1>1 DEF Passes
<1>3. PICK out \in [0 .. Len(p) -> Seq(FileLines)] : Grows(out, p, Len(p))
  BY FlattenSteps
<1> DEFINE U == {n \in 0 .. N : ClearOf(out[n], k)}
<1>4. 0 \in U
  <2>1. out[0] = <<>>
    BY <1>3 DEF Grows
  <2> QED  BY <1>2, <2>1, PieceFacts DEF ClearOf
<1>5. ASSUME NEW n \in 0 .. N - 1, n \in U PROVE n + 1 \in U
  <2>1. PassStep(s, n + 1, out[n], p[n + 1], out[n + 1])
    BY <1>1, <1>2, <1>3, PassSteps
  <2>2. n + 1 \in DOMAIN s /\ n + 1 \in 0 .. N /\ ClearOf(out[n], k)
    BY <1>2, <1>5
  <2>3. p[n + 1] = IF IsSystem(s, n + 1, J) THEN <<>> ELSE <<s[n + 1]>>
    BY <1>1, <2>2 DEF RemovePieces
  <2>4. CASE p[n + 1] = <<>>
    <3>1. out[n + 1] = out[n]
      BY <2>1, <2>4, PieceFacts DEF PassStep
    <3> QED  BY <2>2, <3>1
  <2>5. CASE p[n + 1] # <<>>
    <3>1. PICK l \in FileLines :
             /\ p[n + 1] = <<l>> /\ Appends(out[n], l, out[n + 1])
             /\ SectionAt(out[n + 1], Len(out[n + 1])) = SectionAt(s, n + 1)
      BY <2>1, <2>5 DEF PassStep
    <3>2. l = s[n + 1] /\ ~IsSystem(s, n + 1, J)
      BY <2>3, <2>5, <3>1
    <3>3. ~IsSystem(out[n + 1], Len(out[n + 1]), {k})
      <4>1. IsSystem(out[n + 1], Len(out[n + 1]), {k})
              <=> IsSetting(l, {k}) /\ SectionAt(s, n + 1) = "System"
        <5>1. PICK y, x : y = out[n] /\ x = out[n + 1]
          OBVIOUS
        <5>2. Appends(y, l, x) /\ SectionAt(x, Len(x)) = SectionAt(s, n + 1)
          BY <3>1, <5>1
        <5>3. IsSystem(x, Len(x), {k}) <=> IsSetting(l, {k}) /\ SectionAt(s, n + 1) = "System"
          BY <5>2, LineAdded
        <5> QED  BY <5>1, <5>3
      <4>2. IsSetting(l, {k}) => IsSetting(l, J)
        BY DEF IsSetting
      <4> QED  BY <3>2, <4>1, <4>2 DEF IsSystem
    <3>4. ClearOf(out[n + 1], k)
      BY <2>2, <3>1, <3>3, AppendOther
    <3> QED  BY <2>2, <3>4
  <2> QED  BY <2>4, <2>5
<1>6. N \in U
  <2> HIDE DEF U
  <2>1. U \in SUBSET (0 .. N)
    BY DEF U
  <2>2. \A n \in 0 .. N : n \in U
    BY <1>2, <1>4, <1>5, <2>1, Stepwise
  <2> QED  BY <1>2, <2>2
<1>7. out[N] = FlattenSeq(p) /\ out[N] \in Seq(FileLines)
  BY <1>2, <1>3 DEF Grows
<1> QED  BY <1>1, <1>2, <1>6, <1>7

LEMMA CatLines ==
  ASSUME NEW s \in Seq(FileLines), NEW t \in Seq(FileLines)
  PROVE  /\ s \o t \in Seq(FileLines) /\ Len(s \o t) = Len(s) + Len(t)
         /\ Len(s) \in Nat /\ Len(t) \in Nat
         /\ DOMAIN s = 1 .. Len(s) /\ DOMAIN (s \o t) = 1 .. Len(s) + Len(t)
         /\ \A i \in 1 .. Len(s) : (s \o t)[i] = s[i]
         /\ \A m \in 1 .. Len(t) : (s \o t)[Len(s) + m] = t[m]
<1>1. Len(s) \in Nat /\ Len(t) \in Nat /\ DOMAIN s = 1 .. Len(s)
  OBVIOUS
<1>2. /\ s \o t \in Seq(FileLines) /\ Len(s \o t) = Len(s) + Len(t)
      /\ DOMAIN (s \o t) = 1 .. Len(s) + Len(t)
      /\ \A i \in 1 .. Len(s) + Len(t) :
           (s \o t)[i] = IF i <= Len(s) THEN s[i] ELSE t[i - Len(s)]
  BY CatIndices
<1>3. \A i \in 1 .. Len(s) : (s \o t)[i] = s[i]
  BY <1>1, <1>2
<1>4. ASSUME NEW m \in 1 .. Len(t) PROVE (s \o t)[Len(s) + m] = t[m]
  <2>1. Len(s) + m \in 1 .. Len(s) + Len(t) /\ ~(Len(s) + m <= Len(s)) /\ (Len(s) + m) - Len(s) = m
    BY <1>1
  <2> QED  BY <1>2, <2>1
<1> QED  BY <1>1, <1>2, <1>3, <1>4

LEMMA CatSections ==
  ASSUME NEW s \in Seq(FileLines), NEW t \in Seq(FileLines)
  PROVE  \A n \in 0 .. Len(s) : SectionAt(s \o t, n) = SectionAt(s, n)
<1>1. PICK N \in Nat, M \in Nat : N = Len(s) /\ M = Len(t)
  OBVIOUS
<1>2. PICK r \in Seq(FileLines) : r = s \o t /\ Len(r) = N + M /\ \A i \in 1 .. N : r[i] = s[i]
  BY <1>1, CatLines
<1>3. Alike(r, 0, s, 0, N)
  <2>1. SectionAt(r, 0) = SectionAt(s, 0)
    BY SectionSteps
  <2> QED  BY <1>1, <1>2, <2>1 DEF Alike
<1>4. \A n \in 0 .. N : SectionAt(r, 0 + n) = SectionAt(s, 0 + n)
  BY <1>3, SectionsAlike
<1> QED  BY <1>1, <1>2, <1>4

\* Lines put between a and b leave those of b under the section they were under.
Between(a, x, b) ==
  b = <<>> \/ SectionAt(a \o x, Len(a) + Len(x)) = SectionAt(a, Len(a))

\* q is a then b, r has x between them.
Inserted(q, r, a, x, A, X, B) ==
  /\ DOMAIN q = 1 .. A + B /\ DOMAIN r = 1 .. A + X + B /\ DOMAIN x = 1 .. X
  /\ \A i \in 1 .. A : r[i] = q[i] /\ SectionAt(r, i) = SectionAt(q, i)
  /\ \A m \in 1 .. B : r[A + X + m] = q[A + m] /\ SectionAt(r, A + X + m) = SectionAt(q, A + m)
  /\ \A j \in 1 .. X : r[A + j] = x[j] /\ SectionAt(r, A + j) = SectionAt(a \o x, A + j)

LEMMA InsertPlaces ==
  ASSUME NEW a \in Seq(FileLines), NEW x \in Seq(FileLines), NEW b \in Seq(FileLines),
         Between(a, x, b)
  PROVE  Inserted(a \o b, (a \o x) \o b, a, x, Len(a), Len(x), Len(b))
<1>1. PICK A \in Nat, X \in Nat, B \in Nat : A = Len(a) /\ X = Len(x) /\ B = Len(b)
  OBVIOUS
<1>2. PICK q \in Seq(FileLines) :
         /\ q = a \o b /\ Len(q) = A + B
         /\ \A i \in 1 .. A : q[i] = a[i]
         /\ \A m \in 1 .. B : q[A + m] = b[m]
  <2>1. /\ a \o b \in Seq(FileLines) /\ Len(a \o b) = Len(a) + Len(b)
        /\ \A i \in 1 .. Len(a) : (a \o b)[i] = a[i]
        /\ \A m \in 1 .. Len(b) : (a \o b)[Len(a) + m] = b[m]
    BY CatLines
  <2> QED  BY <1>1, <2>1
<1>3. PICK y \in Seq(FileLines) :
         /\ y = a \o x /\ Len(y) = A + X
         /\ \A i \in 1 .. A : y[i] = a[i]
         /\ \A j \in 1 .. X : y[A + j] = x[j]
  <2>1. /\ a \o x \in Seq(FileLines) /\ Len(a \o x) = Len(a) + Len(x)
        /\ \A i \in 1 .. Len(a) : (a \o x)[i] = a[i]
        /\ \A m \in 1 .. Len(x) : (a \o x)[Len(a) + m] = x[m]
    BY CatLines
  <2> QED  BY <1>1, <2>1
<1>4. PICK r \in Seq(FileLines) :
         /\ r = y \o b /\ Len(r) = A + X + B
         /\ \A i \in 1 .. A + X : r[i] = y[i]
         /\ \A m \in 1 .. B : r[A + X + m] = b[m]
  <2>1. /\ y \o b \in Seq(FileLines) /\ Len(y \o b) = Len(y) + Len(b)
        /\ \A i \in 1 .. Len(y) : (y \o b)[i] = y[i]
        /\ \A m \in 1 .. Len(b) : (y \o b)[Len(y) + m] = b[m]
    BY CatLines
  <2>2. Len(y) = A + X /\ Len(b) = B
    BY <1>1, <1>3
  <2>3. PICK r : r = y \o b
    OBVIOUS
  <2>4. r \in Seq(FileLines) /\ Len(r) = A + X + B
    BY <2>1, <2>2, <2>3
  <2>5. \A i \in 1 .. A + X : r[i] = y[i]
    BY <2>1, <2>2, <2>3
  <2>6. \A m \in 1 .. B : r[A + X + m] = b[m]
    BY <2>1, <2>2, <2>3
  <2> QED  BY <2>3, <2>4, <2>5, <2>6
<1>5. \A n \in 0 .. A : SectionAt(q, n) = SectionAt(a, n) /\ SectionAt(y, n) = SectionAt(a, n)
  BY <1>1, <1>2, <1>3, CatSections
<1>6. \A n \in 0 .. A + X : SectionAt(r, n) = SectionAt(y, n)
  <2>1. \A n \in 0 .. Len(y) : SectionAt(y \o b, n) = SectionAt(y, n)
    BY CatSections
  <2> QED  BY <1>3, <1>4, <2>1
<1>7. ASSUME B # 0 PROVE \A m \in 0 .. B : SectionAt(r, A + X + m) = SectionAt(q, A + m)
  <2>1. b # <<>>
    BY <1>1, <1>7
  <2>2. SectionAt(y, A + X) = SectionAt(a, A)
    BY <1>1, <1>3, <2>1 DEF Between
  <2>3. SectionAt(r, A + X) = SectionAt(q, A)
    <3>1. A + X \in 0 .. A + X /\ A \in 0 .. A
      OBVIOUS
    <3> QED  BY <1>5, <1>6, <2>2, <3>1
  <2>4. \A j \in 1 .. B : r[(A + X) + j] = q[A + j]
    BY <1>2, <1>4
  <2>5. Alike(r, A + X, q, A, B)
    <3>1. A + X \in Nat /\ (A + X) + B <= Len(r) /\ A + B <= Len(q)
      BY <1>2, <1>4
    <3> QED  BY <2>3, <2>4, <3>1 DEF Alike
  <2>6. \A n \in 0 .. B : SectionAt(r, (A + X) + n) = SectionAt(q, A + n)
    <3>1. PICK C : C = A + X
      OBVIOUS
    <3>2. Alike(r, C, q, A, B)
      BY <2>5, <3>1
    <3>3. \A n \in 0 .. B : SectionAt(r, C + n) = SectionAt(q, A + n)
      BY <3>2, SectionsAlike
    <3> QED  BY <3>1, <3>3
  <2> QED  BY <2>6
<1>8. \A i \in 1 .. A : r[i] = q[i] /\ SectionAt(r, i) = SectionAt(q, i)
  <2>1. \A i \in 1 .. A : i \in 1 .. A + X /\ i \in 0 .. A /\ i \in 0 .. A + X
    OBVIOUS
  <2> QED  BY <1>2, <1>3, <1>4, <1>5, <1>6, <2>1
<1>9. \A m \in 1 .. B : r[A + X + m] = q[A + m] /\ SectionAt(r, A + X + m) = SectionAt(q, A + m)
  <2>1. \A m \in 1 .. B : B # 0 /\ m \in 0 .. B
    OBVIOUS
  <2> QED  BY <1>2, <1>4, <1>7, <2>1
<1>10. \A j \in 1 .. X : r[A + j] = x[j] /\ SectionAt(r, A + j) = SectionAt(y, A + j)
  <2>1. \A j \in 1 .. X : A + j \in 1 .. A + X /\ A + j \in 0 .. A + X
    OBVIOUS
  <2> QED  BY <1>3, <1>4, <1>6, <2>1
<1>11. DOMAIN q = 1 .. A + B /\ DOMAIN r = 1 .. A + X + B /\ DOMAIN x = 1 .. X
  BY <1>1, <1>2, <1>4
<1> QED  BY <1>1, <1>2, <1>3, <1>4, <1>8, <1>9, <1>10, <1>11 DEF Inserted

\* What is inserted for the keys in M: their settings, under the system's header.
Brings(a, x, M) ==
  /\ \A j \in DOMAIN x : x[j].kind = "setting" =>
       SectionAt(a \o x, Len(a) + j) = "System" /\ x[j].name \in M
  /\ \A k \in M : \E j \in DOMAIN x : x[j] = Setting(k, "new")
  /\ \A i, j \in DOMAIN x :
       x[i].kind = "setting" /\ x[j].kind = "setting" /\ x[i].name = x[j].name => i = j

LEMMA InsertCounts ==
  ASSUME NEW a \in Seq(FileLines), NEW x \in Seq(FileLines), NEW b \in Seq(FileLines),
         Between(a, x, b), NEW M \in SUBSET Keys, Brings(a, x, M), NEW k \in Keys
  PROVE  /\ k \in M /\ ClearOf(a \o b, k) => OnceOf((a \o x) \o b, k)
         /\ k \notin M /\ OnceOf(a \o b, k) => OnceOf((a \o x) \o b, k)
<1>1. PICK A \in Nat, X \in Nat, B \in Nat : A = Len(a) /\ X = Len(x) /\ B = Len(b)
  OBVIOUS
<1>2. PICK q, r : q = a \o b /\ r = (a \o x) \o b
  OBVIOUS
<1>3. Inserted(q, r, a, x, A, X, B)
  BY <1>1, <1>2, InsertPlaces
<1>4. /\ DOMAIN q = 1 .. A + B /\ DOMAIN r = 1 .. A + X + B /\ DOMAIN x = 1 .. X
      /\ \A i \in 1 .. A : r[i] = q[i] /\ (IsSystem(r, i, {k}) <=> IsSystem(q, i, {k}))
      /\ \A m \in 1 .. B : r[A + X + m] = q[A + m]
           /\ (IsSystem(r, A + X + m, {k}) <=> IsSystem(q, A + m, {k}))
      /\ \A j \in 1 .. X : r[A + j] = x[j] /\ SectionAt(r, A + j) = SectionAt(a \o x, A + j)
  BY <1>3 DEF Inserted, IsSystem
<1>5. \A j \in 1 .. X : IsSystem(r, A + j, {k}) => k \in M /\ x[j].kind = "setting" /\ x[j].name = k
  <2>1. SUFFICES ASSUME NEW j \in 1 .. X, IsSystem(r, A + j, {k})
                 PROVE  k \in M /\ x[j].kind = "setting" /\ x[j].name = k
    OBVIOUS
  <2>2. r[A + j] = x[j]
    BY <1>4
  <2>3. x[j].kind = "setting" /\ x[j].name = k
    BY <2>1, <2>2 DEF IsSystem, IsSetting
  <2>4. k \in M
    BY <1>4, <2>3 DEF Brings
  <2> QED  BY <2>3, <2>4
<1>6. \A i \in 1 .. A + X + B :
        \/ i \in 1 .. A
        \/ \E j \in 1 .. X : i = A + j
        \/ \E m \in 1 .. B : i = A + X + m
  <2>1. SUFFICES ASSUME NEW i \in 1 .. A + X + B, i \notin 1 .. A,
                        ~\E j \in 1 .. X : i = A + j
                 PROVE  \E m \in 1 .. B : i = A + X + m
    OBVIOUS
  <2>2. i > A /\ ~(i - A \in 1 .. X)
    BY <2>1
  <2>3. i - A - X \in 1 .. B /\ i = A + X + (i - A - X)
    BY <2>1, <2>2
  <2> QED  BY <2>3
<1>7. ASSUME k \in M, ClearOf(q, k) PROVE OnceOf(r, k)
  <2>1. PICK j \in 1 .. X : x[j] = Setting(k, "new")
    BY <1>4, <1>7 DEF Brings
  <2>2. x[j].kind = "setting" /\ x[j].name = k
    BY <2>1, LineKinds
  <2>3. A + j \in DOMAIN r /\ r[A + j] = Setting(k, "new") /\ IsSystem(r, A + j, {k})
    <3>1. SectionAt(a \o x, A + j) = "System"
      BY <1>1, <1>4, <2>2 DEF Brings
    <3>2. A + j \in 1 .. A + X + B
      OBVIOUS
    <3> QED  BY <1>4, <2>1, <2>2, <3>1, <3>2 DEF IsSystem, IsSetting
  <2>4. (\A i \in 1 .. A : ~IsSystem(r, i, {k})) /\ (\A m \in 1 .. B : ~IsSystem(r, A + X + m, {k}))
    <3>1. (\A i \in 1 .. A : i \in 1 .. A + B) /\ (\A m \in 1 .. B : A + m \in 1 .. A + B)
      OBVIOUS
    <3> QED  BY <1>4, <1>7, <3>1 DEF ClearOf
  <2>5. \A i \in 1 .. X : IsSystem(r, A + i, {k}) => i = j
    BY <1>4, <1>5, <2>2 DEF Brings
  <2>6. \A i \in DOMAIN r : IsSystem(r, i, {k}) => i = A + j
    <3>1. SUFFICES ASSUME NEW i \in 1 .. A + X + B, IsSystem(r, i, {k}) PROVE i = A + j
      BY <1>4
    <3> QED  BY <1>6, <2>4, <2>5, <3>1
  <2> QED  BY <2>3, <2>6 DEF OnceOf
<1>8. ASSUME k \notin M, OnceOf(q, k) PROVE OnceOf(r, k)
  <2>1. PICK i \in 1 .. A + B : /\ IsSystem(q, i, {k}) /\ q[i] = Setting(k, "new")
                                /\ \A j \in 1 .. A + B : IsSystem(q, j, {k}) => j = i
    BY <1>4, <1>8 DEF OnceOf
  <2>2. \A j \in 1 .. X : ~IsSystem(r, A + j, {k})
    BY <1>5, <1>8
  <2>3. (\A j \in 1 .. A : j \in 1 .. A + B) /\ (\A m \in 1 .. B : A + m \in 1 .. A + B)
    OBVIOUS
  <2>4. CASE i \in 1 .. A
    <3>1. i \in DOMAIN r /\ IsSystem(r, i, {k}) /\ r[i] = Setting(k, "new")
      <4>1. i \in 1 .. A + X + B
        BY <2>4
      <4>2. r[i] = q[i] /\ (IsSystem(r, i, {k}) <=> IsSystem(q, i, {k}))
        BY <1>4, <2>4
      <4> QED  BY <1>4, <2>1, <4>1, <4>2
    <3>2. \A m \in 1 .. B : ~IsSystem(r, A + X + m, {k})
      <4>1. \A m \in 1 .. B : A + m # i
        BY <2>4
      <4> QED  BY <1>4, <2>1, <2>3, <4>1
    <3>3. \A j \in 1 .. A : IsSystem(r, j, {k}) => j = i
      BY <1>4, <2>1, <2>3
    <3>4. \A j \in DOMAIN r : IsSystem(r, j, {k}) => j = i
      <4>1. SUFFICES ASSUME NEW j \in 1 .. A + X + B, IsSystem(r, j, {k}) PROVE j = i
        BY <1>4
      <4> QED  BY <1>6, <2>2, <3>2, <3>3, <4>1
    <3> QED  BY <3>1, <3>4 DEF OnceOf
  <2>5. CASE i \notin 1 .. A
    <3>1. PICK n \in 1 .. B : i = A + n
      <4>1. i - A \in 1 .. B /\ i = A + (i - A)
        BY <2>5
      <4> QED  BY <4>1
    <3>2. A + X + n \in DOMAIN r /\ IsSystem(r, A + X + n, {k}) /\ r[A + X + n] = Setting(k, "new")
      <4>1. A + X + n \in 1 .. A + X + B
        OBVIOUS
      <4> QED  BY <1>4, <2>1, <3>1, <4>1
    <3>3. \A m \in 1 .. B : IsSystem(r, A + X + m, {k}) => m = n
      <4>1. \A m \in 1 .. B : IsSystem(r, A + X + m, {k}) => A + m = i
        BY <1>4, <2>1, <2>3
      <4> QED  BY <3>1, <4>1
    <3>4. \A j \in 1 .. A : ~IsSystem(r, j, {k})
      BY <1>4, <2>1, <2>3, <2>5
    <3>5. \A j \in DOMAIN r : IsSystem(r, j, {k}) => j = A + X + n
      <4>1. SUFFICES ASSUME NEW j \in 1 .. A + X + B, IsSystem(r, j, {k}) PROVE j = A + X + n
        BY <1>4
      <4> QED  BY <1>6, <2>2, <3>3, <3>4, <4>1
    <3> QED  BY <3>2, <3>5 DEF OnceOf
  <2> QED  BY <2>4, <2>5
<1> QED  BY <1>2, <1>7, <1>8

\* A section put at the end of y: a blank line unless there is one, the header, the entries.
SectionLines(x, name, e, Z) ==
  /\ x \in Seq(FileLines) /\ DOMAIN x = 1 .. Z + 1 + Len(e)
  /\ Z \in {0, 1} /\ (Z = 1 => x[1] = Blank)
  /\ x[Z + 1] = Section(name)
  /\ \A j \in 1 .. Len(e) : x[Z + 1 + j] = e[j]

LEMMA NewSectionIs ==
  ASSUME NEW y \in Seq(FileLines), NEW name \in Sections, NEW e \in Seq(FileLines)
  PROVE  \E Z : SectionLines(NewSection(y, name, e), name, e, Z)
<1>1. PICK z : z = IF Len(y) > 0 /\ y[Len(y)] # Blank THEN <<Blank>> ELSE <<>>
  OBVIOUS
<1>2. PICK h : h = <<Section(name)>>
  OBVIOUS
<1>3. h \in Seq(FileLines) /\ Len(h) = 1 /\ h[1] = Section(name)
  BY <1>2, LineKinds, PieceFacts
<1>4. PICK Z \in {0, 1} : Z = Len(z) /\ (Z = 1 => z[1] = Blank)
  BY <1>1, LineKinds, PieceFacts
<1>5. z \in Seq(FileLines)
  BY <1>1, LineKinds, PieceFacts
<1>6. PICK w : w = z \o h
  OBVIOUS
<1>7. w \in Seq(FileLines) /\ Len(w) = Z + 1 /\ (Z = 1 => w[1] = Blank) /\ w[Z + 1] = Section(name)
  <2>1. /\ z \o h \in Seq(FileLines) /\ Len(z \o h) = Len(z) + Len(h)
        /\ \A i \in 1 .. Len(z) : (z \o h)[i] = z[i]
        /\ \A m \in 1 .. Len(h) : (z \o h)[Len(z) + m] = h[m]
    BY <1>3, <1>5, CatLines
  <2> QED  BY <1>3, <1>4, <1>6, <2>1
<1>8. PICK x : x = w \o e /\ x = NewSection(y, name, e)
  BY <1>1, <1>2, <1>6 DEF NewSection
<1>9. SectionLines(x, name, e, Z)
  <2>1. /\ w \o e \in Seq(FileLines) /\ DOMAIN (w \o e) = 1 .. Len(w) + Len(e)
        /\ \A i \in 1 .. Len(w) : (w \o e)[i] = w[i]
        /\ \A m \in 1 .. Len(e) : (w \o e)[Len(w) + m] = e[m]
    BY <1>7, CatLines
  <2>2. Z + 1 \in 1 .. Len(w) /\ 1 \in 1 .. Len(w)
    BY <1>7
  <2> QED  BY <1>7, <1>8, <2>1, <2>2 DEF SectionLines
<1> QED  BY <1>8, <1>9

\* Entries below a header of the system.
LEMMA HeaderBrings ==
  ASSUME NEW M \in SUBSET Keys, NEW e, EntriesOf(e, M), NEW a \in Seq(FileLines),
         a # <<>>, a[Len(a)] = Section("System")
  PROVE  Brings(a, e, M) /\ SectionAt(a \o e, Len(a) + Len(e)) = SectionAt(a, Len(a))
<1>1. e \in Seq(FileLines)
  BY DEF EntriesOf
<1>2. PICK A \in Nat, E \in Nat : A = Len(a) /\ E = Len(e) /\ A > 0 /\ DOMAIN e = 1 .. E
  BY <1>1
<1>3. PICK y \in Seq(FileLines) : /\ y = a \o e /\ Len(y) = A + E
                                  /\ \A j \in 1 .. E : y[A + j] = e[j]
  <2>1. /\ a \o e \in Seq(FileLines) /\ Len(a \o e) = Len(a) + Len(e)
        /\ \A m \in 1 .. Len(e) : (a \o e)[Len(a) + m] = e[m]
    BY <1>1, CatLines
  <2> QED  BY <1>2, <2>1
<1>4. SectionAt(a, A) = "System"
  <2>1. A - 1 \in 0 .. Len(a) - 1 /\ (A - 1) + 1 = A
    BY <1>2
  <2>2. SectionAt(a, (A - 1) + 1) = IF a[(A - 1) + 1].kind = "section" THEN a[(A - 1) + 1].name
                                    ELSE SectionAt(a, A - 1)
    BY <2>1, SectionSteps
  <2>3. a[A].kind = "section" /\ a[A].name = "System"
    BY <1>2, LineKinds DEF Sections
  <2> QED  BY <2>1, <2>2, <2>3
<1>5. SectionAt(y, A) = "System"
  <2>1. \A n \in 0 .. Len(a) : SectionAt(a \o e, n) = SectionAt(a, n)
    BY <1>1, CatSections
  <2> QED  BY <1>2, <1>3, <1>4, <2>1
<1>6. /\ \A i \in DOMAIN e : e[i].kind = "setting" /\ e[i].name \in M
      /\ \A k \in M : \E i \in DOMAIN e : e[i] = Setting(k, "new")
      /\ \A i, j \in DOMAIN e : e[i].name = e[j].name => i = j
  BY EntryLines
<1>7. \A n \in 0 .. E : SectionAt(y, A + n) = SectionAt(y, A)
  <2>1. Headless(y, A, E)
    BY <1>2, <1>3, <1>6 DEF Headless
  <2> QED  BY <2>1, SectionStays
<1>8. \A j \in DOMAIN e : SectionAt(a \o e, Len(a) + j) = "System"
  <2>1. SUFFICES ASSUME NEW j \in 1 .. E PROVE SectionAt(y, A + j) = "System"
    BY <1>2, <1>3
  <2>2. j \in 0 .. E
    OBVIOUS
  <2> QED  BY <1>5, <1>7, <2>2
<1>9. SectionAt(a \o e, Len(a) + Len(e)) = SectionAt(a, Len(a))
  <2>1. SectionAt(y, A + E) = SectionAt(a, A)
    BY <1>4, <1>5, <1>7
  <2> QED  BY <1>2, <1>3, <2>1
<1> QED  BY <1>6, <1>8, <1>9 DEF Brings

\* Entries in a new section of the system.
LEMMA NewBrings ==
  ASSUME NEW M \in SUBSET Keys, NEW e, EntriesOf(e, M), NEW y \in Seq(FileLines),
         NEW x, x = NewSection(y, "System", e)
  PROVE  x \in Seq(FileLines) /\ Brings(y, x, M)
<1>1. e \in Seq(FileLines) /\ "System" \in Sections
  BY DEF EntriesOf, Sections
<1>2. PICK Z : SectionLines(x, "System", e, Z)
  BY <1>1, NewSectionIs
<1>3. PICK E \in Nat : E = Len(e) /\ DOMAIN e = 1 .. E
  BY <1>1
<1>4. /\ x \in Seq(FileLines) /\ DOMAIN x = 1 .. Z + 1 + E /\ Z \in {0, 1}
      /\ x[Z + 1] = Section("System") /\ (Z = 1 => x[1] = Blank)
      /\ \A j \in 1 .. E : x[Z + 1 + j] = e[j]
  <2>1. /\ x \in Seq(FileLines) /\ DOMAIN x = 1 .. Z + 1 + Len(e) /\ Z \in {0, 1}
        /\ x[Z + 1] = Section("System") /\ (Z = 1 => x[1] = Blank)
        /\ \A j \in 1 .. Len(e) : x[Z + 1 + j] = e[j]
    BY <1>2 DEF SectionLines
  <2> QED  BY <1>3, <2>1
<1>5. PICK A \in Nat : A = Len(y)
  OBVIOUS
<1>6. PICK r \in Seq(FileLines) : /\ r = y \o x /\ Len(r) = A + Len(x)
                                  /\ \A j \in DOMAIN x : r[A + j] = x[j]
  <2>1. /\ y \o x \in Seq(FileLines) /\ Len(y \o x) = Len(y) + Len(x)
        /\ \A m \in 1 .. Len(x) : (y \o x)[Len(y) + m] = x[m]
    BY <1>4, CatLines
  <2>2. DOMAIN x = 1 .. Len(x)
    BY <1>4
  <2> QED  BY <1>5, <2>1, <2>2
<1>7. Len(x) = Z + 1 + E
  BY <1>4
<1>8. PICK H \in Nat : H = A + Z + 1 /\ H <= Len(r) /\ r[H] = Section("System")
  <2>1. A + Z + 1 \in Nat /\ A + Z + 1 <= Len(r)
    BY <1>4, <1>6, <1>7
  <2>2. Z + 1 \in DOMAIN x
    BY <1>4
  <2>3. r[A + (Z + 1)] = Section("System")
    BY <1>4, <1>6, <2>2
  <2>4. A + (Z + 1) = A + Z + 1
    BY <1>4
  <2> QED  BY <2>1, <2>3, <2>4
<1>9. SectionAt(r, H) = "System"
  <2>1. H - 1 \in 0 .. Len(r) - 1 /\ (H - 1) + 1 = H
    BY <1>4, <1>8
  <2>2. SectionAt(r, (H - 1) + 1) = IF r[(H - 1) + 1].kind = "section" THEN r[(H - 1) + 1].name
                                    ELSE SectionAt(r, H - 1)
    BY <2>1, SectionSteps
  <2>3. r[H].kind = "section" /\ r[H].name = "System"
    BY <1>8, LineKinds DEF Sections
  <2> QED  BY <2>1, <2>2, <2>3
<1>10. /\ \A i \in DOMAIN e : e[i].kind = "setting" /\ e[i].name \in M
       /\ \A k \in M : \E i \in DOMAIN e : e[i] = Setting(k, "new")
       /\ \A i, j \in DOMAIN e : e[i].name = e[j].name => i = j
  BY EntryLines
<1>11. \A j \in 1 .. E : r[H + j] = e[j]
  <2>1. SUFFICES ASSUME NEW j \in 1 .. E PROVE r[H + j] = e[j]
    OBVIOUS
  <2>2. Z + 1 + j \in DOMAIN x /\ A + (Z + 1 + j) = H + j
    BY <1>4, <1>8
  <2> QED  BY <1>4, <1>6, <2>2
<1>12. \A n \in 0 .. E : SectionAt(r, H + n) = SectionAt(r, H)
  <2>1. Headless(r, H, E)
    <3>1. H + E <= Len(r)
      BY <1>4, <1>6, <1>7, <1>8
    <3> QED  BY <1>3, <1>10, <1>11, <3>1 DEF Headless
  <2> QED  BY <2>1, SectionStays
<1>13. \A j \in DOMAIN x : x[j].kind = "setting" =>
          \E i \in 1 .. E : j = Z + 1 + i /\ x[j] = e[i] /\ A + j = H + i
  <2>1. SUFFICES ASSUME NEW j \in DOMAIN x, x[j].kind = "setting"
                 PROVE  \E i \in 1 .. E : j = Z + 1 + i /\ x[j] = e[i] /\ A + j = H + i
    OBVIOUS
  <2>2. Section("System").kind # "setting" /\ Blank.kind # "setting"
    BY DEF Section, Blank
  <2>3. j # Z + 1 /\ (Z = 1 => j # 1)
    BY <1>4, <2>1, <2>2
  <2>4. j - Z - 1 \in 1 .. E /\ j = Z + 1 + (j - Z - 1) /\ A + j = H + (j - Z - 1)
    <3>1. j \in 1 .. Z + 1 + E
      BY <1>4
    <3>2. j > Z + 1
      BY <1>4, <2>3, <3>1
    <3>3. Z \in Nat
      BY <1>4
    <3>4. j - Z - 1 \in 1 .. E
      BY <3>1, <3>2, <3>3
    <3>5. j = Z + 1 + (j - Z - 1) /\ A + j = H + (j - Z - 1)
      BY <1>8, <3>1, <3>3
    <3> QED  BY <3>4, <3>5
  <2>5. x[Z + 1 + (j - Z - 1)] = e[j - Z - 1]
    BY <1>4, <2>4
  <2> QED  BY <2>4, <2>5
<1>14. \A j \in DOMAIN x : x[j].kind = "setting" =>
          SectionAt(y \o x, Len(y) + j) = "System" /\ x[j].name \in M
  <2>1. SUFFICES ASSUME NEW j \in DOMAIN x, x[j].kind = "setting"
                 PROVE  SectionAt(r, A + j) = "System" /\ x[j].name \in M
    BY <1>5, <1>6
  <2>2. PICK i \in 1 .. E : j = Z + 1 + i /\ x[j] = e[i] /\ A + j = H + i
    BY <1>13, <2>1
  <2>3. i \in 0 .. E
    OBVIOUS
  <2>4. SectionAt(r, H + i) = "System"
    BY <1>9, <1>12, <2>3
  <2>5. e[i].name \in M
    BY <1>3, <1>10
  <2> QED  BY <2>2, <2>4, <2>5
<1>15. \A k \in M : \E j \in DOMAIN x : x[j] = Setting(k, "new")
  <2>1. SUFFICES ASSUME NEW k \in M PROVE \E j \in DOMAIN x : x[j] = Setting(k, "new")
    OBVIOUS
  <2>2. PICK i \in 1 .. E : e[i] = Setting(k, "new")
    BY <1>3, <1>10
  <2>3. Z + 1 + i \in DOMAIN x /\ x[Z + 1 + i] = Setting(k, "new")
    BY <1>4, <2>2
  <2> QED  BY <2>3
<1>16. \A i, j \in DOMAIN x :
         x[i].kind = "setting" /\ x[j].kind = "setting" /\ x[i].name = x[j].name => i = j
  <2>1. SUFFICES ASSUME NEW i \in DOMAIN x, NEW j \in DOMAIN x, x[i].kind = "setting",
                        x[j].kind = "setting", x[i].name = x[j].name
                 PROVE  i = j
    OBVIOUS
  <2>2. PICK m \in 1 .. E : i = Z + 1 + m /\ x[i] = e[m]
    BY <1>13, <2>1
  <2>3. PICK n \in 1 .. E : j = Z + 1 + n /\ x[j] = e[n]
    BY <1>13, <2>1
  <2>4. m = n
    BY <1>3, <1>10, <2>1, <2>2, <2>3
  <2> QED  BY <2>2, <2>3, <2>4
<1> QED  BY <1>4, <1>14, <1>15, <1>16 DEF Brings

\* Where the missing entries go: below the first header, or to the end.
Placed(q, e, r, a, x, b) ==
  /\ a \in Seq(FileLines) /\ x \in Seq(FileLines) /\ b \in Seq(FileLines)
  /\ q = a \o b /\ r = (a \o x) \o b
  /\ \/ b = <<>> /\ x = NewSection(a, "System", e)
     \/ x = e /\ a # <<>> /\ a[Len(a)] = Section("System")

LEMMA BelowHeaderIs ==
  ASSUME NEW q \in Seq(FileLines), NEW e \in Seq(FileLines)
  PROVE  \E a, x, b : Placed(q, e, BelowHeader(q, e), a, x, b)
<1>1. PICK at : at = {i \in DOMAIN q : q[i] = Section("System")}
  OBVIOUS
<1>2. CASE at = {}
  <2>1. PICK x : x = NewSection(q, "System", e)
    OBVIOUS
  <2>2. x \in Seq(FileLines)
    <3>1. "System" \in Sections
      BY DEF Sections
    <3> QED  BY <2>1, <3>1, NewSectionIs DEF SectionLines
  <2>3. BelowHeader(q, e) = q \o x
    BY <1>1, <1>2, <2>1 DEF BelowHeader
  <2>4. q \o <<>> = q /\ (q \o x) \o <<>> = q \o x
    <3>1. q \o x \in Seq(FileLines)
      BY <2>2
    <3> QED  BY <3>1
  <2>5. Placed(q, e, BelowHeader(q, e), q, x, <<>>)
    BY <2>1, <2>2, <2>3, <2>4, PieceFacts DEF Placed
  <2> QED  BY <2>5
<1>3. CASE at # {}
  <2>1. \E m \in at : \A j \in at : m <= j
    <3>1. at \in SUBSET Nat
      BY <1>1
    <3> QED  BY <1>3, <3>1, LeastOf
  <2>2. PICK h \in at : h = CHOOSE i \in at : \A j \in at : i <= j
    BY <2>1
  <2>3. PICK N \in Nat : N = Len(q) /\ h \in 1 .. N /\ q[h] = Section("System")
    <3>1. h \in DOMAIN q /\ q[h] = Section("System")
      BY <1>1
    <3> QED  BY <3>1
  <2>4. PICK a, b : a = SubSeq(q, 1, h) /\ b = SubSeq(q, h + 1, N)
    OBVIOUS
  <2>5. a \in Seq(FileLines) /\ b \in Seq(FileLines) /\ Len(a) = h /\ a[h] = Section("System")
    BY <2>3, <2>4
  <2>6. q = a \o b
    BY <2>3, <2>4, <2>5
  <2>7. BelowHeader(q, e) = (a \o e) \o b
    BY <1>1, <1>3, <2>2, <2>3, <2>4 DEF BelowHeader
  <2>8. a # <<>>
    BY <2>3, <2>5
  <2>9. Placed(q, e, BelowHeader(q, e), a, e, b)
    BY <2>5, <2>6, <2>7, <2>8 DEF Placed
  <2> QED  BY <2>9
<1> QED  BY <1>2, <1>3

-----------------------------------------------------------------------------
(* What an edit of Engine.ini gives.                                         *)

LEMMA EngineOnce ==
  ASSUME NEW v, Demand(v), NEW s \in Seq(FileLines)
  PROVE  /\ ApplyEngine(s, v) \in Seq(FileLines)
         /\ \A k \in DOMAIN v : OnceOf(ApplyEngine(s, v), k)
<1>1. PICK q \in Seq(FileLines) : q = FlattenSeq(EnginePieces(s, v))
  <2>1. PICK p \in Seq(Seq(FileLines)) : p = EnginePieces(s, v)
    BY EnginePasses DEF Passes
  <2>2. FlattenSeq(p) \in Seq(FileLines)
    BY FlattenElements
  <2> QED  BY <2>1, <2>2
<1>2. PICK M \in SUBSET DOMAIN v : M = MissingSystem(s, v)
  BY DEF MissingSystem
<1>3. \A k \in DOMAIN v : IF k \in M THEN ClearOf(q, k) ELSE OnceOf(q, k)
  <2>1. SUFFICES ASSUME NEW k \in DOMAIN v PROVE IF k \in M THEN ClearOf(q, k) ELSE OnceOf(q, k)
    OBVIOUS
  <2>2. IF \E i \in DOMAIN s : IsSystem(s, i, {k}) THEN OnceOf(q, k) ELSE ClearOf(q, k)
    BY <1>1, EngineCounts
  <2>3. k \in M <=> ~\E i \in DOMAIN s : IsSystem(s, i, {k})
    BY <1>2 DEF MissingSystem
  <2> QED  BY <2>2, <2>3
<1>4. CASE M = {}
  <2>1. ApplyEngine(s, v) = q
    BY <1>1, <1>2, <1>4 DEF ApplyEngine, EnginePieces
  <2> QED  BY <1>1, <1>3, <1>4, <2>1
<1>5. CASE M # {}
  <2>1. PICK e : e = Entries(v, M) /\ EntriesOf(e, M)
    BY EntriesAre
  <2>2. e \in Seq(FileLines) /\ M \in SUBSET Keys
    BY <2>1 DEF EntriesOf, Demand
  <2>3. PICK r : r = BelowHeader(q, e) /\ r = ApplyEngine(s, v)
    BY <1>1, <1>2, <1>5, <2>1 DEF ApplyEngine, EnginePieces
  <2>4. PICK a, x, b : Placed(q, e, r, a, x, b)
    <3>1. \E a, x, b : Placed(q, e, BelowHeader(q, e), a, x, b)
      BY <2>2, BelowHeaderIs
    <3> QED  BY <2>3, <3>1
  <2>5. /\ a \in Seq(FileLines) /\ x \in Seq(FileLines) /\ b \in Seq(FileLines)
        /\ q = a \o b /\ r = (a \o x) \o b
        /\ \/ b = <<>> /\ x = NewSection(a, "System", e)
           \/ x = e /\ a # <<>> /\ a[Len(a)] = Section("System")
    BY <2>4 DEF Placed
  <2>6. Brings(a, x, M) /\ Between(a, x, b)
    <3>1. CASE b = <<>> /\ x = NewSection(a, "System", e)
      <4>1. Brings(a, x, M)
        BY <2>1, <2>2, <2>5, <3>1, NewBrings
      <4> QED  BY <3>1, <4>1 DEF Between
    <3>2. CASE x = e /\ a # <<>> /\ a[Len(a)] = Section("System")
      <4>1. Brings(a, e, M) /\ SectionAt(a \o e, Len(a) + Len(e)) = SectionAt(a, Len(a))
        BY <2>1, <2>2, <2>5, <3>2, HeaderBrings
      <4> QED  BY <3>2, <4>1 DEF Between
    <3> QED  BY <2>5, <3>1, <3>2
  <2>7. r \in Seq(FileLines)
    <3>1. PICK y \in Seq(FileLines) : y = a \o x
      BY <2>5, CatLines
    <3>2. y \o b \in Seq(FileLines)
      BY <2>5, CatLines
    <3> QED  BY <2>5, <3>1, <3>2
  <2>8. \A k \in DOMAIN v : OnceOf(r, k)
    <3>1. SUFFICES ASSUME NEW k \in DOMAIN v PROVE OnceOf(r, k)
      OBVIOUS
    <3>2. k \in Keys
      BY DEF Demand
    <3>3. /\ (k \in M /\ ClearOf(a \o b, k)) => OnceOf((a \o x) \o b, k)
          /\ (k \notin M /\ OnceOf(a \o b, k)) => OnceOf((a \o x) \o b, k)
      BY <2>2, <2>5, <2>6, <3>2, InsertCounts
    <3> QED  BY <1>3, <2>5, <3>3
  <2> QED  BY <2>3, <2>7, <2>8
<1> QED  BY <1>4, <1>5

\* The line that is read for a key.
SystemLine(s, k) ==
  CHOOSE i \in DOMAIN s : /\ IsSystem(s, i, {k})
                          /\ \A j \in (i + 1) .. Len(s) : ~IsSystem(s, j, {k})

LEMMA ReadIs ==
  \A s, J : read_engine_system_settings(s, J) =
              [k \in {k \in J : ~ClearOf(s, k)} |-> s[SystemLine(s, k)].value]
<1>1. SUFFICES ASSUME NEW s, NEW J
               PROVE  read_engine_system_settings(s, J) =
                        [k \in {k \in J : ~ClearOf(s, k)} |-> s[SystemLine(s, k)].value]
  OBVIOUS
<1>2. {k \in J : ~ClearOf(s, k)} = {k \in J : \E i \in DOMAIN s : IsSystem(s, i, {k})}
  BY DEF ClearOf
<1>3. read_engine_system_settings(s, J) =
        [k \in {k \in J : \E i \in DOMAIN s : IsSystem(s, i, {k})} |-> s[SystemLine(s, k)].value]
  BY Zenon DEF read_engine_system_settings, SystemLine
<1> QED  BY <1>2, <1>3

LEMMA ReadOnce ==
  ASSUME NEW v, Demand(v), NEW s \in Seq(FileLines), \A k \in DOMAIN v : OnceOf(s, k)
  PROVE  read_engine_system_settings(s, DOMAIN v) = v
<1>1. PICK N \in Nat : N = Len(s) /\ DOMAIN s = 1 .. N
  OBVIOUS
<1>2. ASSUME NEW k \in DOMAIN v PROVE ~ClearOf(s, k) /\ s[SystemLine(s, k)].value = "new"
  <2>1. PICK i \in DOMAIN s : /\ IsSystem(s, i, {k}) /\ s[i] = Setting(k, "new")
                              /\ \A j \in DOMAIN s : IsSystem(s, j, {k}) => j = i
    BY OnceOf(s, k) DEF OnceOf
  <2>2. \A j \in (i + 1) .. Len(s) : ~IsSystem(s, j, {k})
    <3>1. \A j \in (i + 1) .. Len(s) : j \in DOMAIN s /\ j # i
      BY <1>1
    <3> QED  BY <2>1, <3>1
  <2>3. SystemLine(s, k) = i
    <3>1. \A j \in DOMAIN s : IsSystem(s, j, {k}) => j = i
      BY <2>1
    <3> QED  BY <2>1, <2>2, <3>1 DEF SystemLine
  <2>4. s[i].value = "new"
    BY <2>1 DEF Setting
  <2> QED  BY <2>1, <2>3, <2>4 DEF ClearOf
<1>3. {k \in DOMAIN v : ~ClearOf(s, k)} = DOMAIN v
  BY <1>2
<1>4. read_engine_system_settings(s, DOMAIN v) = [k \in DOMAIN v |-> s[SystemLine(s, k)].value]
  BY <1>3, ReadIs
<1> QED  BY <1>2, <1>4 DEF Demand

LEMMA ReadClear ==
  ASSUME NEW J, NEW s, \A k \in J : ClearOf(s, k)
  PROVE  read_engine_system_settings(s, J) = <<>>
<1>1. {k \in J : ~ClearOf(s, k)} = {}
  OBVIOUS
<1>2. read_engine_system_settings(s, J) = [k \in {} |-> s[SystemLine(s, k)].value]
  BY <1>1, ReadIs
<1> QED  BY <1>2

LEMMA EngineSettles ==
  ASSUME NEW v, Demand(v), NEW s \in Seq(FileLines), \A k \in DOMAIN v : OnceOf(s, k)
  PROVE  ApplyEngine(s, v) = s
<1>1. PICK N \in Nat : N = Len(s) /\ DOMAIN s = 1 .. N
  OBVIOUS
<1>2. MissingSystem(s, v) = {}
  BY DEF MissingSystem, OnceOf
<1>3. ASSUME NEW i \in DOMAIN s PROVE EngineLine(s, v, i) = <<s[i]>>
  <2>1. PICK q : q = EngineLine(s, v, i) /\ EnginePiece(s, v, i, q)
    BY EngineLineIs
  <2>2. CASE IsSystem(s, i, DOMAIN v)
    <3>1. PICK k \in DOMAIN v :
             /\ s[i].name = k
             /\ IF \A j \in 1 .. i - 1 : ~IsSystem(s, j, {k})
                THEN q = <<Setting(k, "new")>> ELSE q = <<>>
      BY <2>1, <2>2 DEF EnginePiece
    <3>2. IsSystem(s, i, {k})
      BY <2>2, <3>1 DEF IsSystem, IsSetting
    <3>3. s[i] = Setting(k, "new") /\ \A j \in DOMAIN s : IsSystem(s, j, {k}) => j = i
      BY <3>2, OnceOf(s, k) DEF OnceOf
    <3>4. \A j \in 1 .. i - 1 : ~IsSystem(s, j, {k})
      <4>1. \A j \in 1 .. i - 1 : j \in DOMAIN s /\ j # i
        BY <1>1
      <4> QED  BY <3>3, <4>1
    <3> QED  BY <2>1, <3>1, <3>3, <3>4
  <2>3. CASE ~IsSystem(s, i, DOMAIN v)
    BY <2>1, <2>3 DEF EnginePiece
  <2> QED  BY <2>2, <2>3
<1>4. EnginePieces(s, v) = [i \in DOMAIN s |-> <<s[i]>>]
  BY <1>3 DEF EnginePieces
<1>5. FlattenSeq(EnginePieces(s, v)) = s
  BY <1>4, FlattenSingles
<1> QED  BY <1>2, <1>5 DEF ApplyEngine, EnginePieces

-----------------------------------------------------------------------------
(* The lines that are not about the keys.                                    *)

Kept(s, J) == FlattenSeq([i \in DOMAIN s |-> IF IsSetting(s[i], J) THEN <<>> ELSE <<s[i]>>])
Keeper(J) == [l \in FileLines |-> IF IsSetting(l, J) THEN <<>> ELSE <<l>>]

LEMMA KeeperIs ==
  ASSUME NEW J
  PROVE  Keeper(J) \in [FileLines -> Seq(FileLines)]
BY PieceFacts DEF Keeper

LEMMA KeptIs ==
  ASSUME NEW J, NEW s \in Seq(FileLines)
  PROVE  Kept(s, J) = Bind(Keeper(J), s)
<1>1. \A i \in DOMAIN s : s[i] \in FileLines
  OBVIOUS
<1>2. [i \in DOMAIN s |-> IF IsSetting(s[i], J) THEN <<>> ELSE <<s[i]>>]
        = [i \in DOMAIN s |-> Keeper(J)[s[i]]]
  BY <1>1 DEF Keeper
<1> QED  BY <1>2 DEF Kept, Bind

LEMMA LinesCat ==
  \A f \in [FileLines -> Seq(FileLines)] : \A s \in Seq(FileLines), t \in Seq(FileLines) :
    Bind(f, s \o t) = Bind(f, s) \o Bind(f, t)
BY BindCat

LEMMA BindsLines ==
  ASSUME NEW g, g \in [FileLines -> Seq(FileLines)]
  PROVE  /\ \A s \in Seq(FileLines) : Bind(g, s) \in Seq(FileLines)
         /\ \A s \in Seq(FileLines), t \in Seq(FileLines) :
              Bind(g, s \o t) = Bind(g, s) \o Bind(g, t)
         /\ \A l \in FileLines : Bind(g, <<l>>) = g[l]
         /\ \A s \in Seq(FileLines) : (\A i \in DOMAIN s : g[s[i]] = <<>>) => Bind(g, s) = <<>>
<1>1. \A f \in [FileLines -> Seq(FileLines)] : \A s \in Seq(FileLines) :
        Bind(f, s) \in Seq(FileLines)
  BY BindPieces
<1>3. \A f \in [FileLines -> Seq(FileLines)] : \A l \in FileLines : Bind(f, <<l>>) = f[l]
  BY BindOne
<1>4. \A f \in [FileLines -> Seq(FileLines)] : \A s \in Seq(FileLines) :
        (\A i \in DOMAIN s : f[s[i]] = <<>>) => Bind(f, s) = <<>>
  BY BindNothing
<1> QED  BY <1>1, <1>3, <1>4, LinesCat

LEMMA KeptFacts ==
  ASSUME NEW J
  PROVE  /\ \A s \in Seq(FileLines) : Kept(s, J) \in Seq(FileLines)
         /\ \A s \in Seq(FileLines), t \in Seq(FileLines) :
              Kept(s \o t, J) = Kept(s, J) \o Kept(t, J)
         /\ \A l \in FileLines : Kept(<<l>>, J) = IF IsSetting(l, J) THEN <<>> ELSE <<l>>
         /\ Kept(<<>>, J) = <<>>
         /\ \A s \in Seq(FileLines) : (\A i \in DOMAIN s : IsSetting(s[i], J)) => Kept(s, J) = <<>>
<1>1. PICK g : g = Keeper(J)
  OBVIOUS
<1>2. g \in [FileLines -> Seq(FileLines)]
  BY <1>1, KeeperIs
<1>3. \A s \in Seq(FileLines) : Kept(s, J) = Bind(g, s)
  BY <1>1, KeptIs
<1>4. /\ \A s \in Seq(FileLines) : Bind(g, s) \in Seq(FileLines)
      /\ \A s \in Seq(FileLines), t \in Seq(FileLines) :
           Bind(g, s \o t) = Bind(g, s) \o Bind(g, t)
      /\ \A l \in FileLines : Bind(g, <<l>>) = g[l]
      /\ \A s \in Seq(FileLines) : (\A i \in DOMAIN s : g[s[i]] = <<>>) => Bind(g, s) = <<>>
  BY <1>2, BindsLines
<1>5. \A l \in FileLines : g[l] = IF IsSetting(l, J) THEN <<>> ELSE <<l>>
  BY <1>1 DEF Keeper
<1>6. \A s \in Seq(FileLines), t \in Seq(FileLines) : s \o t \in Seq(FileLines)
  BY CatLines
<1>7. \A s \in Seq(FileLines), t \in Seq(FileLines) :
        Kept(s \o t, J) = Kept(s, J) \o Kept(t, J)
  BY <1>3, <1>4, <1>6
<1>8. \A l \in FileLines : Kept(<<l>>, J) = IF IsSetting(l, J) THEN <<>> ELSE <<l>>
  <2>1. \A l \in FileLines : <<l>> \in Seq(FileLines)
    BY PieceFacts
  <2> QED  BY <1>3, <1>4, <1>5, <2>1
<1>9. Kept(<<>>, J) = <<>>
  <2>1. <<>> \in Seq(FileLines) /\ DOMAIN <<>> = {}
    BY PieceFacts
  <2> QED  BY <1>3, <1>4, <2>1
<1>10. \A s \in Seq(FileLines) : (\A i \in DOMAIN s : IsSetting(s[i], J)) => Kept(s, J) = <<>>
  <2>1. SUFFICES ASSUME NEW s \in Seq(FileLines), \A i \in DOMAIN s : IsSetting(s[i], J)
                 PROVE  Kept(s, J) = <<>>
    OBVIOUS
  <2>2. \A i \in DOMAIN s : s[i] \in FileLines
    OBVIOUS
  <2>3. \A i \in DOMAIN s : g[s[i]] = <<>>
    BY <1>5, <2>1, <2>2
  <2> QED  BY <1>3, <1>4, <2>3
<1> QED  BY <1>3, <1>4, <1>7, <1>8, <1>9, <1>10

\* A pass that gives each line what is kept of it keeps the same lines.
KeepsEach(s, p, J) ==
  /\ p \in Seq(Seq(FileLines)) /\ DOMAIN p = DOMAIN s
  /\ \A i \in DOMAIN s : Kept(p[i], J) = IF IsSetting(s[i], J) THEN <<>> ELSE <<s[i]>>

LEMMA KeptPass ==
  ASSUME NEW J, NEW s \in Seq(FileLines), NEW p, KeepsEach(s, p, J)
  PROVE  Kept(FlattenSeq(p), J) = Kept(s, J)
<1>1. PICK g : g = Keeper(J) /\ g \in [FileLines -> Seq(FileLines)]
  BY KeeperIs
<1>2. p \in Seq(Seq(FileLines)) /\ DOMAIN p = DOMAIN s
  BY DEF KeepsEach
<1>3. \A i \in DOMAIN p : p[i] \in Seq(FileLines)
  BY <1>2
<1>4. \A i \in DOMAIN p : Bind(g, p[i]) = Kept(p[i], J)
  BY <1>1, <1>3, KeptIs
<1>5. [k \in DOMAIN p |-> Bind(g, p[k])]
        = [i \in DOMAIN s |-> IF IsSetting(s[i], J) THEN <<>> ELSE <<s[i]>>]
  BY <1>2, <1>4 DEF KeepsEach
<1>6. Bind(g, FlattenSeq(p)) = FlattenSeq([k \in DOMAIN p |-> Bind(g, p[k])])
  <2>1. Flattens(FileLines, FileLines, g, p)
    BY <1>1, <1>2 DEF Flattens
  <2> QED  BY <2>1, BindFlatten
<1>7. Kept(FlattenSeq(p), J) = Bind(g, FlattenSeq(p))
  <2>1. FlattenSeq(p) \in Seq(FileLines)
    BY <1>2, FlattenElements
  <2> QED  BY <1>1, <2>1, KeptIs
<1> QED  BY <1>5, <1>6, <1>7 DEF Kept

LEMMA EngineKeeps ==
  ASSUME NEW v, Demand(v), NEW s \in Seq(FileLines)
  PROVE  Kept(FlattenSeq(EnginePieces(s, v)), DOMAIN v) = Kept(s, DOMAIN v)
<1>1. PICK J : J = DOMAIN v
  OBVIOUS
<1>2. PICK p \in Seq(Seq(FileLines)) : p = EnginePieces(s, v) /\ Len(p) = Len(s)
  BY EnginePasses DEF Passes
<1>3. DOMAIN p = DOMAIN s
  BY <1>2
<1>4. ASSUME NEW i \in DOMAIN s
      PROVE  Kept(p[i], J) = IF IsSetting(s[i], J) THEN <<>> ELSE <<s[i]>>
  <2>1. PICK q : q = EngineLine(s, v, i) /\ EnginePiece(s, v, i, q) /\ q = p[i]
    BY <1>2, EngineLineIs DEF EnginePieces
  <2>2. s[i] \in FileLines
    OBVIOUS
  <2>3. CASE q = <<s[i]>> /\ ~IsSystem(s, i, DOMAIN v)
    <3>1. PICK l \in FileLines : l = s[i] /\ q = <<l>>
      BY <2>2, <2>3
    <3>2. Kept(<<l>>, J) = IF IsSetting(l, J) THEN <<>> ELSE <<l>>
      BY KeptFacts
    <3> QED  BY <2>1, <3>1, <3>2
  <2>4. CASE IsSystem(s, i, DOMAIN v)
    <3>1. IsSetting(s[i], J)
      BY <1>1, <2>4 DEF IsSystem
    <3>2. PICK k \in DOMAIN v : q = <<Setting(k, "new")>> \/ q = <<>>
      BY <2>1, <2>4 DEF EnginePiece
    <3>3. Setting(k, "new") \in FileLines /\ IsSetting(Setting(k, "new"), J)
      BY <1>1, LineKinds DEF Demand, IsSetting
    <3>4. Kept(q, J) = <<>>
      BY <3>2, <3>3, KeptFacts
    <3> QED  BY <2>1, <3>1, <3>4
  <2> QED  BY <2>1, <2>3, <2>4 DEF EnginePiece
<1>5. KeepsEach(s, p, J)
  BY <1>2, <1>3, <1>4 DEF KeepsEach
<1> QED  BY <1>1, <1>2, <1>5, KeptPass

LEMMA RemoveKeeps ==
  ASSUME NEW J \in SUBSET Keys, NEW s \in Seq(FileLines)
  PROVE  Kept(FlattenSeq(RemovePieces(s, J)), J) = Kept(s, J)
<1>2. PICK p \in Seq(Seq(FileLines)) : p = RemovePieces(s, J) /\ Len(p) = Len(s)
  BY RemovePasses DEF Passes
<1>3. DOMAIN p = DOMAIN s
  BY <1>2
<1>4. ASSUME NEW i \in DOMAIN s
      PROVE  Kept(p[i], J) = IF IsSetting(s[i], J) THEN <<>> ELSE <<s[i]>>
  <2>1. p[i] = IF IsSystem(s, i, J) THEN <<>> ELSE <<s[i]>>
    BY <1>2 DEF RemovePieces
  <2>2. s[i] \in FileLines
    OBVIOUS
  <2>3. IsSystem(s, i, J) => IsSetting(s[i], J)
    BY DEF IsSystem
  <2> QED  BY <2>1, <2>2, <2>3, KeptFacts
<1>5. KeepsEach(s, p, J)
  BY <1>2, <1>3, <1>4 DEF KeepsEach
<1> QED  BY <1>2, <1>5, KeptPass

-----------------------------------------------------------------------------
(* What an edit adds to the lines that are not about its keys.               *)

Extended(s, t) == s \in Seq(FileLines) /\ \E u \in Seq(FileLines) : t = s \o u

LEMMA ExtendedSelf == ASSUME NEW s \in Seq(FileLines) PROVE Extended(s, s)
<1>1. <<>> \in Seq(FileLines) /\ s = s \o <<>>
  BY PieceFacts
<1> QED  BY <1>1 DEF Extended

LEMMA ExtendedBy ==
  ASSUME NEW s \in Seq(FileLines), NEW u \in Seq(FileLines)
  PROVE  Extended(s, s \o u)
BY DEF Extended

LEMMA ExtendedOn ==
  ASSUME NEW r, NEW s, NEW t, Extended(r, s), Extended(s, t)
  PROVE  Extended(r, t)
<1>1. PICK u \in Seq(FileLines) : s = r \o u
  BY DEF Extended
<1>2. PICK w \in Seq(FileLines) : t = s \o w
  BY DEF Extended
<1>3. r \in Seq(FileLines)
  BY DEF Extended
<1>4. (r \o u) \o w = r \o (u \o w)
  BY <1>3, CatAssociates
<1>5. u \o w \in Seq(FileLines)
  BY CatLines
<1> QED  BY <1>1, <1>2, <1>3, <1>4, <1>5 DEF Extended

LEMMA ExtendedPrefix ==
  ASSUME NEW s, NEW t, Extended(s, t)
  PROVE  IsPrefix(s, t)
<1>1. PICK u \in Seq(FileLines) : t = s \o u
  BY DEF Extended
<1>2. s \in Seq(FileLines)
  BY DEF Extended
<1>3. PICK N \in Nat, M \in Nat : N = Len(s) /\ M = Len(u)
  BY <1>2
<1>4. Len(t) = N + M /\ t \in Seq(FileLines) /\ \A i \in 1 .. N : t[i] = s[i]
  <2>1. /\ s \o u \in Seq(FileLines) /\ Len(s \o u) = Len(s) + Len(u)
        /\ \A i \in 1 .. Len(s) : (s \o u)[i] = s[i]
    BY <1>2, CatLines
  <2> QED  BY <1>1, <1>3, <2>1
<1>5. SubSeq(s, 1, N) = SubSeq(t, 1, N)
  BY <1>2, <1>3, <1>4
<1> QED  BY <1>3, <1>4, <1>5 DEF IsPrefix

\* Entries are about the keys.
LEMMA EntriesKeep ==
  ASSUME NEW J \in SUBSET Keys, NEW M \in SUBSET J, NEW e, EntriesOf(e, M)
  PROVE  e \in Seq(FileLines) /\ Kept(e, J) = <<>>
<1>1. e \in Seq(FileLines) /\ M \in SUBSET Keys
  BY DEF EntriesOf
<1>2. \A i \in DOMAIN e : IsSetting(e[i], J)
  BY <1>1, EntryLines DEF IsSetting
<1> QED  BY <1>1, <1>2, KeptFacts

LEMMA EngineExtends ==
  ASSUME NEW v, Demand(v), NEW s \in Seq(FileLines)
  PROVE  Extended(Kept(s, DOMAIN v), Kept(ApplyEngine(s, v), DOMAIN v))
<1>1. PICK J \in SUBSET Keys : J = DOMAIN v
  BY DEF Demand
<1>2. PICK q \in Seq(FileLines) : q = FlattenSeq(EnginePieces(s, v))
  <2>1. PICK p \in Seq(Seq(FileLines)) : p = EnginePieces(s, v)
    BY EnginePasses DEF Passes
  <2>2. FlattenSeq(p) \in Seq(FileLines)
    BY FlattenElements
  <2> QED  BY <2>1, <2>2
<1>3. Kept(q, J) = Kept(s, J) /\ Kept(q, J) \in Seq(FileLines)
  BY <1>1, <1>2, EngineKeeps, KeptFacts
<1>4. PICK M \in SUBSET J : M = MissingSystem(s, v)
  BY <1>1 DEF MissingSystem
<1>5. CASE M = {}
  <2>1. ApplyEngine(s, v) = q
    BY <1>2, <1>4, <1>5 DEF ApplyEngine, EnginePieces
  <2> QED  BY <1>1, <1>3, <2>1, ExtendedSelf
<1>6. CASE M # {}
  <2>1. PICK e : e = Entries(v, M) /\ EntriesOf(e, M)
    BY <1>1, EntriesAre
  <2>2. e \in Seq(FileLines) /\ Kept(e, J) = <<>>
    BY <1>1, <2>1, EntriesKeep
  <2>3. PICK r : r = BelowHeader(q, e) /\ r = ApplyEngine(s, v)
    BY <1>2, <1>4, <1>6, <2>1 DEF ApplyEngine, EnginePieces
  <2>4. PICK a, x, b : Placed(q, e, r, a, x, b)
    <3>1. \E a, x, b : Placed(q, e, BelowHeader(q, e), a, x, b)
      BY <2>2, BelowHeaderIs
    <3> QED  BY <2>3, <3>1
  <2>5. /\ a \in Seq(FileLines) /\ x \in Seq(FileLines) /\ b \in Seq(FileLines)
        /\ q = a \o b /\ r = (a \o x) \o b
        /\ b = <<>> \/ x = e
    BY <2>4 DEF Placed
  <2>6. PICK ka \in Seq(FileLines), kx \in Seq(FileLines), kb \in Seq(FileLines) :
           ka = Kept(a, J) /\ kx = Kept(x, J) /\ kb = Kept(b, J)
    BY <2>5, KeptFacts
  <2>7. Kept(q, J) = ka \o kb /\ Kept(r, J) = (ka \o kx) \o kb
    <3>1. PICK y \in Seq(FileLines) : y = a \o x
      BY <2>5, CatLines
    <3>2. Kept(a \o b, J) = Kept(a, J) \o Kept(b, J)
      BY <2>5, KeptFacts
    <3>3. Kept(a \o x, J) = Kept(a, J) \o Kept(x, J)
      BY <2>5, KeptFacts
    <3>4. Kept(y \o b, J) = Kept(y, J) \o Kept(b, J)
      BY <2>5, KeptFacts
    <3> QED  BY <2>5, <2>6, <3>1, <3>2, <3>3, <3>4
  <2>8. CASE b = <<>>
    <3>1. kb = <<>>
      BY <2>6, <2>8, KeptFacts
    <3>2. ka \o <<>> = ka /\ (ka \o kx) \o <<>> = ka \o kx
      BY <2>6
    <3>3. Kept(q, J) = ka /\ Kept(r, J) = ka \o kx
      BY <2>7, <3>1, <3>2
    <3> QED  BY <1>1, <1>3, <2>3, <3>3, ExtendedBy
  <2>9. CASE x = e
    <3>1. kx = <<>>
      BY <2>2, <2>6, <2>9
    <3>2. ka \o <<>> = ka
      BY <2>6
    <3>3. Kept(r, J) = Kept(q, J)
      BY <2>7, <3>1, <3>2
    <3> QED  BY <1>1, <1>3, <2>3, <3>3, ExtendedSelf
  <2> QED  BY <2>5, <2>8, <2>9
<1> QED  BY <1>5, <1>6

-----------------------------------------------------------------------------
(* What an edit of GameUserSettings.ini gives.                               *)

AllNew(s, J) == \A i \in DOMAIN s : IsSetting(s[i], J) => s[i] = Setting(s[i].name, "new")
HasKey(s, k) == \E i \in DOMAIN s : IsSetting(s[i], {k})

QualityPieces(s, v) == [i \in DOMAIN s |-> QualityLine(s, v, i)]

\* The keys whose entries a section gets.
OwnedKeys(s, v, name) == {k \in Missing(s, v) : Owner(k) = name}

LEMMA OwnedAre ==
  ASSUME NEW v, Demand(v), NEW s, NEW name
  PROVE  OwnedKeys(s, v, name) \in SUBSET DOMAIN v
         /\ EntriesOf(Owned(s, v, name), OwnedKeys(s, v, name))
<1>1. OwnedKeys(s, v, name) \in SUBSET DOMAIN v
  BY DEF OwnedKeys, Missing
<1>2. Owned(s, v, name) = Entries(v, OwnedKeys(s, v, name))
  BY DEF Owned, OwnedKeys
<1> QED  BY <1>1, <1>2, EntriesAre

\* What becomes of line i of s.
QualityPiece(s, v, i, q) ==
  \/ IsSetting(s[i], DOMAIN v) /\ q = <<Setting(s[i].name, "new")>>
  \/ /\ ~IsSetting(s[i], DOMAIN v) /\ s[i].kind = "section"
     /\ q = <<s[i]>> \o Owned(s, v, s[i].name)
  \/ ~IsSetting(s[i], DOMAIN v) /\ s[i].kind # "section" /\ q = <<s[i]>>

LEMMA QualityLineIs ==
  ASSUME NEW v, Demand(v), NEW s, NEW i
  PROVE  QualityPiece(s, v, i, QualityLine(s, v, i))
<1>1. IsSetting(s[i], DOMAIN v) => v[s[i].name] = "new"
  BY DEF IsSetting, Demand
<1> QED  BY <1>1 DEF QualityLine, QualityPiece

\* The lines of entries.
LEMMA EntriesNew ==
  ASSUME NEW J \in SUBSET Keys, NEW M \in SUBSET J, NEW e, EntriesOf(e, M)
  PROVE  e \in Seq(FileLines) /\ AllNew(e, J) /\ \A k \in M : HasKey(e, k)
<1>1. e \in Seq(FileLines) /\ M \in SUBSET Keys
  BY DEF EntriesOf
<1>2. /\ \A i \in DOMAIN e : e[i] = Setting(e[i].name, "new")
      /\ \A k \in M : \E i \in DOMAIN e : e[i] = Setting(k, "new")
  BY <1>1, EntryLines
<1>3. \A k \in M : IsSetting(Setting(k, "new"), {k})
  BY LineKinds DEF IsSetting
<1> QED  BY <1>1, <1>2, <1>3 DEF AllNew, HasKey

LEMMA CatNew ==
  ASSUME NEW J, NEW s \in Seq(FileLines), NEW t \in Seq(FileLines)
  PROVE  /\ s \o t \in Seq(FileLines)
         /\ (AllNew(s, J) /\ AllNew(t, J)) => AllNew(s \o t, J)
         /\ \A k : (HasKey(s, k) \/ HasKey(t, k)) => HasKey(s \o t, k)
<1>1. PICK r : r = s \o t
  OBVIOUS
<1>2. /\ r \in Seq(FileLines) /\ Len(s) \in Nat
      /\ \A i \in DOMAIN s : i \in DOMAIN r /\ r[i] = s[i]
      /\ \A m \in DOMAIN t : Len(s) + m \in DOMAIN r /\ r[Len(s) + m] = t[m]
      /\ \A i \in DOMAIN r : i \in DOMAIN s \/ \E m \in DOMAIN t : i = Len(s) + m
  BY <1>1, CatPlaces
<1>3. (AllNew(s, J) /\ AllNew(t, J)) => AllNew(r, J)
  BY <1>2 DEF AllNew
<1>4. \A k : (HasKey(s, k) \/ HasKey(t, k)) => HasKey(r, k)
  BY <1>2 DEF HasKey
<1> QED  BY <1>1, <1>2, <1>3, <1>4

\* What a piece holds.
LEMMA QualityPieceHolds ==
  ASSUME NEW v, Demand(v), NEW s \in Seq(FileLines), NEW i \in DOMAIN s,
         NEW q, QualityPiece(s, v, i, q)
  PROVE  /\ q \in Seq(FileLines) /\ AllNew(q, DOMAIN v)
         /\ Kept(q, DOMAIN v) = IF IsSetting(s[i], DOMAIN v) THEN <<>> ELSE <<s[i]>>
         /\ \A k \in DOMAIN v : IsSetting(s[i], {k}) => HasKey(q, k)
         /\ \A k \in DOMAIN v : (s[i] = Section(Owner(k)) /\ k \in Missing(s, v)) => HasKey(q, k)
<1>1. PICK J \in SUBSET Keys : J = DOMAIN v
  BY DEF Demand
<1>2. PICK l \in FileLines : l = s[i]
  OBVIOUS
<1>3. \A k \in J : Section(Owner(k)).kind = "section" /\ Section(Owner(k)).name = Owner(k)
  BY DEF Section
<1>4. CASE IsSetting(l, J) /\ q = <<Setting(l.name, "new")>>
  <2>1. PICK n \in J : n = l.name /\ l.kind = "setting"
    BY <1>4 DEF IsSetting
  <2>2. PICK x \in FileLines : x = Setting(n, "new") /\ x.kind = "setting" /\ x.name = n
    BY <1>1, LineKinds
  <2>3. q = <<x>> /\ q \in Seq(FileLines) /\ DOMAIN q = {1} /\ q[1] = x
    BY <1>4, <2>1, <2>2, PieceFacts
  <2>4. AllNew(q, J)
    BY <2>2, <2>3 DEF AllNew
  <2>5. IsSetting(x, J)
    BY <2>2 DEF IsSetting
  <2>6. Kept(q, J) = <<>>
    BY <2>3, <2>5, KeptFacts
  <2>7. \A k \in J : IsSetting(l, {k}) => HasKey(q, k)
    BY <2>1, <2>2, <2>3 DEF IsSetting, HasKey
  <2>8. \A k \in J : l # Section(Owner(k))
    BY <1>3, <2>1
  <2> QED  BY <1>1, <1>2, <1>4, <2>3, <2>4, <2>6, <2>7, <2>8
<1>5. CASE ~IsSetting(l, J) /\ l.kind = "section" /\ q = <<l>> \o Owned(s, v, l.name)
  <2>0. PICK M \in SUBSET J : M = OwnedKeys(s, v, l.name)
    BY <1>1, OwnedAre
  <2>1. PICK e : e = Owned(s, v, l.name) /\ EntriesOf(e, M)
    BY <2>0, OwnedAre
  <2>2. e \in Seq(FileLines) /\ AllNew(e, J) /\ \A k \in M : HasKey(e, k)
    BY <1>1, <2>1, EntriesNew
  <2>3. Kept(e, J) = <<>>
    BY <1>1, <2>1, EntriesKeep
  <2>4. PICK h \in Seq(FileLines) : h = <<l>> /\ DOMAIN h = {1} /\ h[1] = l
    BY PieceFacts
  <2>5. AllNew(h, J)
    BY <1>5, <2>4 DEF AllNew
  <2>6. q = h \o e /\ q \in Seq(FileLines) /\ AllNew(q, J) /\ \A k : HasKey(e, k) => HasKey(q, k)
    BY <1>5, <2>1, <2>2, <2>4, <2>5, CatNew
  <2>7. Kept(q, J) = <<l>>
    <3>1. Kept(h \o e, J) = Kept(h, J) \o Kept(e, J)
      BY <2>2, <2>4, KeptFacts
    <3>2. Kept(<<l>>, J) = <<l>>
      BY <1>5, KeptFacts
    <3>3. h \o <<>> = h
      BY <2>4
    <3> QED  BY <2>3, <2>4, <2>6, <3>1, <3>2, <3>3
  <2>8. \A k \in J : ~IsSetting(l, {k})
    BY <1>5 DEF IsSetting
  <2>9. \A k \in J : (l = Section(Owner(k)) /\ k \in Missing(s, v)) => HasKey(q, k)
    BY <1>3, <2>0, <2>2, <2>6 DEF OwnedKeys
  <2> QED  BY <1>1, <1>2, <1>5, <2>6, <2>7, <2>8, <2>9
<1>6. CASE ~IsSetting(l, J) /\ l.kind # "section" /\ q = <<l>>
  <2>1. q \in Seq(FileLines) /\ DOMAIN q = {1} /\ q[1] = l
    BY <1>6, PieceFacts
  <2>2. AllNew(q, J) /\ Kept(q, J) = <<l>>
    BY <1>6, <2>1, KeptFacts DEF AllNew
  <2>3. \A k \in J : ~IsSetting(l, {k}) /\ l # Section(Owner(k))
    BY <1>3, <1>6 DEF IsSetting
  <2> QED  BY <1>1, <1>2, <1>6, <2>1, <2>2, <2>3
<1> QED  BY <1>1, <1>2, <1>4, <1>5, <1>6 DEF QualityPiece

LEMMA QualityPass ==
  ASSUME NEW v, Demand(v), NEW s \in Seq(FileLines), NEW q, q = FlattenSeq(QualityPieces(s, v))
  PROVE  /\ q \in Seq(FileLines) /\ AllNew(q, DOMAIN v)
         /\ Kept(q, DOMAIN v) = Kept(s, DOMAIN v)
         /\ \A k \in DOMAIN v : HasKey(s, k) => HasKey(q, k)
         /\ \A k \in Missing(s, v) :
              (\E i \in DOMAIN s : s[i] = Section(Owner(k))) => HasKey(q, k)
<1>1. PICK J \in SUBSET Keys : J = DOMAIN v
  BY DEF Demand
<1>2. PICK N \in Nat : N = Len(s) /\ DOMAIN s = 1 .. N
  OBVIOUS
<1>3. PICK p : p = QualityPieces(s, v)
  OBVIOUS
<1>4. \A i \in DOMAIN s :
        /\ p[i] \in Seq(FileLines) /\ AllNew(p[i], J)
        /\ Kept(p[i], J) = IF IsSetting(s[i], J) THEN <<>> ELSE <<s[i]>>
        /\ \A k \in J : IsSetting(s[i], {k}) => HasKey(p[i], k)
        /\ \A k \in J : (s[i] = Section(Owner(k)) /\ k \in Missing(s, v)) => HasKey(p[i], k)
  <2>1. SUFFICES ASSUME NEW i \in DOMAIN s
        PROVE  /\ p[i] \in Seq(FileLines) /\ AllNew(p[i], J)
               /\ Kept(p[i], J) = IF IsSetting(s[i], J) THEN <<>> ELSE <<s[i]>>
               /\ \A k \in J : IsSetting(s[i], {k}) => HasKey(p[i], k)
               /\ \A k \in J : (s[i] = Section(Owner(k)) /\ k \in Missing(s, v)) => HasKey(p[i], k)
    OBVIOUS
  <2>2. PICK r : r = p[i] /\ QualityPiece(s, v, i, r)
    BY <1>3, QualityLineIs DEF QualityPieces
  <2>3. /\ r \in Seq(FileLines) /\ AllNew(r, DOMAIN v)
        /\ Kept(r, DOMAIN v) = IF IsSetting(s[i], DOMAIN v) THEN <<>> ELSE <<s[i]>>
        /\ \A k \in DOMAIN v : IsSetting(s[i], {k}) => HasKey(r, k)
        /\ \A k \in DOMAIN v : (s[i] = Section(Owner(k)) /\ k \in Missing(s, v)) => HasKey(r, k)
    BY <2>2, QualityPieceHolds
  <2> QED  BY <1>1, <2>2, <2>3
<1>5. p \in Seq(Seq(FileLines)) /\ DOMAIN p = DOMAIN s
  <2>1. p \in [1 .. N -> Seq(FileLines)]
    BY <1>2, <1>3, <1>4 DEF QualityPieces
  <2> QED  BY <1>2, <2>1
<1>6. q \in Seq(FileLines) /\ Drawn(p, q)
  BY <1>3, <1>5, FlattenElements
<1>7. AllNew(q, J)
  <2>1. SUFFICES ASSUME NEW i \in DOMAIN q, IsSetting(q[i], J)
                 PROVE  q[i] = Setting(q[i].name, "new")
    BY DEF AllNew
  <2>2. PICK n \in DOMAIN p : \E j \in DOMAIN p[n] : q[i] = p[n][j]
    BY <1>6 DEF Drawn
  <2>3. AllNew(p[n], J)
    BY <1>4, <1>5
  <2> QED  BY <2>1, <2>2, <2>3 DEF AllNew
<1>8. \A n \in DOMAIN p, k \in J : HasKey(p[n], k) => HasKey(q, k)
  <2>1. SUFFICES ASSUME NEW n \in DOMAIN p, NEW k \in J, HasKey(p[n], k) PROVE HasKey(q, k)
    OBVIOUS
  <2>2. PICK j \in DOMAIN p[n] : IsSetting(p[n][j], {k})
    BY <2>1 DEF HasKey
  <2>3. PICK i \in DOMAIN q : q[i] = p[n][j]
    BY <1>6 DEF Drawn
  <2> QED  BY <2>2, <2>3 DEF HasKey
<1>9. \A k \in J : HasKey(s, k) => HasKey(q, k)
  <2>1. SUFFICES ASSUME NEW k \in J, HasKey(s, k) PROVE HasKey(q, k)
    OBVIOUS
  <2>2. PICK i \in DOMAIN s : IsSetting(s[i], {k})
    BY <2>1 DEF HasKey
  <2>3. HasKey(p[i], k)
    BY <1>4, <2>2
  <2> QED  BY <1>5, <1>8, <2>3
<1>10. ASSUME NEW k \in Missing(s, v), \E i \in DOMAIN s : s[i] = Section(Owner(k))
       PROVE  HasKey(q, k)
  <2>1. PICK i \in DOMAIN s : s[i] = Section(Owner(k))
    BY <1>10
  <2>2. k \in J
    BY <1>1 DEF Missing
  <2>3. HasKey(p[i], k)
    BY <1>4, <2>1, <2>2
  <2> QED  BY <1>5, <1>8, <2>2, <2>3
<1>11. Kept(q, J) = Kept(s, J)
  <2>1. KeepsEach(s, p, J)
    BY <1>4, <1>5 DEF KeepsEach
  <2>2. Kept(FlattenSeq(p), J) = Kept(s, J)
    BY <2>1, KeptPass
  <2> QED  BY <1>3, <2>2
<1> QED  BY <1>1, <1>6, <1>7, <1>9, <1>10, <1>11

LEMMA NewSectionHolds ==
  ASSUME NEW J \in SUBSET Keys, NEW M \in SUBSET J, NEW e, EntriesOf(e, M),
         NEW y \in Seq(FileLines), NEW name \in Sections
  PROVE  /\ NewSection(y, name, e) \in Seq(FileLines)
         /\ AllNew(NewSection(y, name, e), J)
         /\ \A k \in M : HasKey(NewSection(y, name, e), k)
<1>1. e \in Seq(FileLines) /\ AllNew(e, J) /\ \A k \in M : HasKey(e, k)
  BY EntriesNew
<1>2. PICK x : x = NewSection(y, name, e)
  OBVIOUS
<1>3. PICK Z : SectionLines(x, name, e, Z)
  BY <1>1, <1>2, NewSectionIs
<1>4. PICK E \in Nat : E = Len(e) /\ DOMAIN e = 1 .. E
  BY <1>1
<1>5. /\ x \in Seq(FileLines) /\ DOMAIN x = 1 .. Z + 1 + E
      /\ Z \in {0, 1} /\ (Z = 1 => x[1] = Blank)
      /\ x[Z + 1] = Section(name)
      /\ \A j \in 1 .. E : x[Z + 1 + j] = e[j]
  BY <1>3, <1>4 DEF SectionLines
<1>6. ASSUME NEW i \in DOMAIN x, IsSetting(x[i], J) PROVE x[i] = Setting(x[i].name, "new")
  <2>1. Section(name).kind # "setting" /\ Blank.kind # "setting"
    BY DEF Section, Blank
  <2>2. x[i] # Section(name) /\ x[i] # Blank
    BY <1>6, <2>1 DEF IsSetting
  <2>3. i # Z + 1 /\ (Z = 1 => i # 1)
    BY <1>5, <2>2
  <2>4. i - Z - 1 \in 1 .. E /\ i = Z + 1 + (i - Z - 1)
    <3>1. i \in 1 .. Z + 1 + E /\ Z \in Nat
      BY <1>5
    <3>2. i > Z + 1
      BY <1>5, <2>3, <3>1
    <3> QED  BY <3>1, <3>2
  <2>5. x[i] = e[i - Z - 1]
    BY <1>5, <2>4
  <2>6. PICK j \in DOMAIN e : x[i] = e[j]
    BY <1>4, <2>4, <2>5
  <2> QED  BY <1>1, <1>6, <2>6 DEF AllNew
<1>7. ASSUME NEW k \in M PROVE HasKey(x, k)
  <2>1. PICK j \in 1 .. E : IsSetting(e[j], {k})
    BY <1>1, <1>4 DEF HasKey
  <2>2. Z + 1 + j \in DOMAIN x /\ x[Z + 1 + j] = e[j]
    BY <1>5
  <2> QED  BY <2>1, <2>2 DEF HasKey
<1> QED  BY <1>2, <1>5, <1>6, <1>7 DEF AllNew

\* What the sections that the file lacked add.
LEMMA SectionAdded ==
  ASSUME NEW v, Demand(v), NEW s, NEW name \in Sections, NEW y \in Seq(FileLines),
         AllNew(y, DOMAIN v), NEW z, z = WithSection(y, s, v, name)
  PROVE  /\ z \in Seq(FileLines) /\ AllNew(z, DOMAIN v)
         /\ Extended(Kept(y, DOMAIN v), Kept(z, DOMAIN v))
         /\ \A k \in DOMAIN v : HasKey(y, k) => HasKey(z, k)
         /\ \A k \in OwnedKeys(s, v, name) :
              (\A i \in DOMAIN s : s[i] # Section(name)) => HasKey(z, k)
<1>1. PICK J \in SUBSET Keys : J = DOMAIN v
  BY DEF Demand
<1>2. PICK M \in SUBSET J : M = OwnedKeys(s, v, name)
  BY <1>1, OwnedAre
<1>3. PICK e : e = Owned(s, v, name) /\ EntriesOf(e, M)
  BY <1>2, OwnedAre
<1>4. CASE e # <<>> /\ \A i \in DOMAIN s : s[i] # Section(name)
  <2>1. PICK x \in Seq(FileLines) : /\ x = NewSection(y, name, e) /\ AllNew(x, J)
                                    /\ \A k \in M : HasKey(x, k)
    BY <1>3, NewSectionHolds
  <2>2. z = y \o x
    BY <1>3, <1>4, <2>1 DEF WithSection
  <2>3. /\ y \o x \in Seq(FileLines)
        /\ (AllNew(y, J) /\ AllNew(x, J)) => AllNew(y \o x, J)
        /\ \A k : (HasKey(y, k) \/ HasKey(x, k)) => HasKey(y \o x, k)
    BY <2>1, CatNew
  <2>4. Extended(Kept(y, J), Kept(z, J))
    <3>1. PICK ky \in Seq(FileLines), kx \in Seq(FileLines) : ky = Kept(y, J) /\ kx = Kept(x, J)
      BY KeptFacts
    <3>2. Kept(y \o x, J) = Kept(y, J) \o Kept(x, J)
      BY KeptFacts
    <3>3. Extended(ky, ky \o kx)
      BY ExtendedBy
    <3> QED  BY <2>2, <3>1, <3>2, <3>3
  <2> QED  BY <1>1, <1>2, <2>1, <2>2, <2>3, <2>4
<1>5. CASE ~(e # <<>> /\ \A i \in DOMAIN s : s[i] # Section(name))
  <2>1. z = y
    BY <1>3, <1>5 DEF WithSection
  <2>2. Kept(y, J) \in Seq(FileLines)
    BY KeptFacts
  <2>3. e = <<>> => M = {}
    <3>1. \A k \in M : \E i \in DOMAIN e : e[i] = Setting(k, "new")
      BY <1>3 DEF EntriesOf, ToSet
    <3> QED  BY <3>1, PieceFacts
  <2> QED  BY <1>1, <1>2, <1>5, <2>1, <2>2, <2>3, ExtendedSelf
<1> QED  BY <1>4, <1>5

LEMMA QualityApplied ==
  ASSUME NEW v, Demand(v), NEW s \in Seq(FileLines), NEW r, r = ApplyQuality(s, v)
  PROVE  /\ r \in Seq(FileLines) /\ AllNew(r, DOMAIN v)
         /\ \A k \in DOMAIN v : HasKey(r, k)
         /\ Extended(Kept(s, DOMAIN v), Kept(r, DOMAIN v))
<1>1. PICK J \in SUBSET Keys : J = DOMAIN v
  BY DEF Demand
<1>2. PICK q : q = FlattenSeq(QualityPieces(s, v))
  OBVIOUS
<1>3. /\ q \in Seq(FileLines) /\ AllNew(q, DOMAIN v)
      /\ Kept(q, DOMAIN v) = Kept(s, DOMAIN v)
      /\ \A k \in DOMAIN v : HasKey(s, k) => HasKey(q, k)
      /\ \A k \in Missing(s, v) :
           (\E i \in DOMAIN s : s[i] = Section(Owner(k))) => HasKey(q, k)
  BY <1>2, QualityPass
<1>4. PICK y : y = WithSection(q, s, v, "Game")
  OBVIOUS
<1>5. /\ y \in Seq(FileLines) /\ AllNew(y, DOMAIN v)
      /\ Extended(Kept(q, DOMAIN v), Kept(y, DOMAIN v))
      /\ \A k \in DOMAIN v : HasKey(q, k) => HasKey(y, k)
      /\ \A k \in OwnedKeys(s, v, "Game") :
           (\A i \in DOMAIN s : s[i] # Section("Game")) => HasKey(y, k)
  <2>1. "Game" \in Sections
    BY DEF Sections
  <2> QED  BY <1>3, <1>4, <2>1, SectionAdded
<1>6. r = WithSection(y, s, v, "Scalability")
  BY <1>2, <1>4 DEF ApplyQuality, QualityPieces
<1>7. /\ r \in Seq(FileLines) /\ AllNew(r, DOMAIN v)
      /\ Extended(Kept(y, DOMAIN v), Kept(r, DOMAIN v))
      /\ \A k \in DOMAIN v : HasKey(y, k) => HasKey(r, k)
      /\ \A k \in OwnedKeys(s, v, "Scalability") :
           (\A i \in DOMAIN s : s[i] # Section("Scalability")) => HasKey(r, k)
  <2>1. "Scalability" \in Sections
    BY DEF Sections
  <2> QED  BY <1>5, <1>6, <2>1, SectionAdded
<1>8. ASSUME NEW k \in DOMAIN v PROVE HasKey(r, k)
  <2>1. CASE HasKey(s, k)
    BY <1>3, <1>5, <1>7, <2>1
  <2>2. CASE ~HasKey(s, k)
    <3>1. k \in Missing(s, v)
      BY <2>2 DEF Missing, Found, HasKey
    <3>2. CASE \E i \in DOMAIN s : s[i] = Section(Owner(k))
      BY <1>3, <1>5, <1>7, <3>1, <3>2
    <3>3. CASE ~\E i \in DOMAIN s : s[i] = Section(Owner(k))
      <4>1. Owner(k) = "Scalability" \/ Owner(k) = "Game"
        BY DEF Owner
      <4>2. CASE Owner(k) = "Scalability"
        <5>1. k \in OwnedKeys(s, v, "Scalability")
          BY <3>1, <4>2 DEF OwnedKeys
        <5> QED  BY <1>7, <3>3, <4>2, <5>1
      <4>3. CASE Owner(k) = "Game"
        <5>1. k \in OwnedKeys(s, v, "Game")
          BY <3>1, <4>3 DEF OwnedKeys
        <5> QED  BY <1>5, <1>7, <3>3, <4>3, <5>1
      <4> QED  BY <4>1, <4>2, <4>3
    <3> QED  BY <3>2, <3>3
  <2> QED  BY <2>1, <2>2
<1>9. Extended(Kept(s, DOMAIN v), Kept(r, DOMAIN v))
  BY <1>3, <1>5, <1>7, ExtendedOn
<1> QED  BY <1>7, <1>8, <1>9

\* The line that grep gives for a key.
QualityLast(s, k) ==
  CHOOSE i \in DOMAIN s : /\ IsSetting(s[i], {k})
                          /\ \A j \in (i + 1) .. Len(s) : ~IsSetting(s[j], {k})

LEMMA ReadQualityIs ==
  \A s, J : ReadQuality(s, J) =
              [k \in {k \in J : HasKey(s, k)} |-> s[QualityLast(s, k)].value]
<1>1. SUFFICES ASSUME NEW s, NEW J
               PROVE  ReadQuality(s, J) =
                        [k \in {k \in J : HasKey(s, k)} |-> s[QualityLast(s, k)].value]
  OBVIOUS
<1>2. {k \in J : HasKey(s, k)} = {k \in J : \E i \in DOMAIN s : IsSetting(s[i], {k})}
  BY DEF HasKey
<1>3. ReadQuality(s, J) =
        [k \in {k \in J : \E i \in DOMAIN s : IsSetting(s[i], {k})} |-> s[QualityLast(s, k)].value]
  BY Zenon DEF ReadQuality, QualityLast
<1> QED  BY <1>2, <1>3

LEMMA ReadQualityNew ==
  ASSUME NEW v, Demand(v), NEW s \in Seq(FileLines), AllNew(s, DOMAIN v),
         \A k \in DOMAIN v : HasKey(s, k)
  PROVE  ReadQuality(s, DOMAIN v) = v
<1>1. PICK N \in Nat : N = Len(s) /\ DOMAIN s = 1 .. N
  OBVIOUS
<1>2. ASSUME NEW k \in DOMAIN v PROVE s[QualityLast(s, k)].value = "new"
  <2>1. PICK W : W = {i \in DOMAIN s : IsSetting(s[i], {k})}
    OBVIOUS
  <2>2. W # {} /\ W \in SUBSET (1 .. N)
    BY <1>1, <2>1 DEF HasKey
  <2>3. \E m \in W : \A j \in W : j <= m
    BY <1>1, <2>2, Greatest
  <2>4. PICK i \in W : \A j \in W : j <= i
    BY <2>3
  <2>5. i \in DOMAIN s /\ IsSetting(s[i], {k})
    BY <2>1
  <2>6. \A j \in (i + 1) .. Len(s) : ~IsSetting(s[j], {k})
    <3>1. \A j \in (i + 1) .. Len(s) : j \in DOMAIN s /\ ~(j <= i)
      BY <1>1, <2>5
    <3> QED  BY <2>1, <2>4, <3>1
  <2>7. PICK m : m = QualityLast(s, k)
    OBVIOUS
  <2>8. m \in DOMAIN s /\ IsSetting(s[m], {k})
    BY <2>5, <2>6, <2>7 DEF QualityLast
  <2>9. IsSetting(s[m], DOMAIN v) /\ s[m] = Setting(s[m].name, "new")
    BY <2>8 DEF IsSetting, AllNew
  <2>10. s[m].value = "new"
    BY <2>9 DEF Setting
  <2> QED  BY <2>7, <2>10
<1>3. {k \in DOMAIN v : HasKey(s, k)} = DOMAIN v
  OBVIOUS
<1>4. ReadQuality(s, DOMAIN v) = [k \in DOMAIN v |-> s[QualityLast(s, k)].value]
  BY <1>3, ReadQualityIs
<1> QED  BY <1>2, <1>4 DEF Demand

LEMMA QualitySettles ==
  ASSUME NEW v, Demand(v), NEW s \in Seq(FileLines), AllNew(s, DOMAIN v),
         \A k \in DOMAIN v : HasKey(s, k)
  PROVE  ApplyQuality(s, v) = s
<1>1. Missing(s, v) = {}
  BY DEF Missing, Found, HasKey
<1>2. \A name : Owned(s, v, name) = <<>>
  <2>1. SUFFICES ASSUME NEW name PROVE Owned(s, v, name) = <<>>
    OBVIOUS
  <2>2. OwnedKeys(s, v, name) = {}
    BY <1>1 DEF OwnedKeys
  <2>3. EntriesOf(Owned(s, v, name), OwnedKeys(s, v, name))
    BY OwnedAre
  <2> QED  BY <2>2, <2>3 DEF EntriesOf
<1>3. ASSUME NEW i \in DOMAIN s PROVE QualityLine(s, v, i) = <<s[i]>>
  <2>1. PICK q : q = QualityLine(s, v, i) /\ QualityPiece(s, v, i, q)
    BY QualityLineIs
  <2>2. PICK l \in FileLines : l = s[i] /\ <<l>> \in Seq(FileLines)
    BY PieceFacts
  <2>3. <<l>> \o <<>> = <<l>>
    BY <2>2
  <2>4. IsSetting(l, DOMAIN v) => l = Setting(l.name, "new")
    BY <2>2 DEF AllNew
  <2> QED  BY <1>2, <2>1, <2>2, <2>3, <2>4 DEF QualityPiece
<1>4. QualityPieces(s, v) = [i \in DOMAIN s |-> <<s[i]>>]
  BY <1>3 DEF QualityPieces
<1>5. FlattenSeq(QualityPieces(s, v)) = s
  BY <1>4, FlattenSingles
<1>6. \A y, name : WithSection(y, s, v, name) = y
  BY <1>2 DEF WithSection
<1> QED  BY <1>5, <1>6 DEF ApplyQuality, QualityPieces

-----------------------------------------------------------------------------
(* The edits.                                                                *)

\* The settings that are asked for are in the file.
InPlace(s, v, ini) ==
  IF ini = "quality" THEN AllNew(s, DOMAIN v) /\ \A k \in DOMAIN v : HasKey(s, k)
  ELSE \A k \in DOMAIN v : OnceOf(s, k)

Edited(s, v, ini) == IF ini = "quality" THEN ApplyQuality(s, v) ELSE ApplyEngine(s, v)
ReadBack(s, v, ini) ==
  IF ini = "quality" THEN ReadQuality(s, DOMAIN v) ELSE read_engine_system_settings(s, DOMAIN v)

LEMMA EditedHolds ==
  ASSUME NEW v, Demand(v), NEW s \in Seq(FileLines), NEW ini, NEW r, r = Edited(s, v, ini)
  PROVE  /\ r \in Seq(FileLines) /\ InPlace(r, v, ini) /\ ReadBack(r, v, ini) = v
         /\ Extended(Kept(s, DOMAIN v), Kept(r, DOMAIN v))
<1>1. CASE ini = "quality"
  <2>1. /\ r \in Seq(FileLines) /\ AllNew(r, DOMAIN v) /\ \A k \in DOMAIN v : HasKey(r, k)
        /\ Extended(Kept(s, DOMAIN v), Kept(r, DOMAIN v))
    BY <1>1, QualityApplied DEF Edited
  <2> QED  BY <1>1, <2>1, ReadQualityNew DEF InPlace, ReadBack
<1>2. CASE ini # "quality"
  <2>1. r = ApplyEngine(s, v)
    BY <1>2 DEF Edited
  <2>2. r \in Seq(FileLines) /\ \A k \in DOMAIN v : OnceOf(r, k)
    BY <2>1, EngineOnce
  <2>3. Extended(Kept(s, DOMAIN v), Kept(r, DOMAIN v))
    BY <2>1, EngineExtends
  <2> QED  BY <1>2, <2>2, <2>3, ReadOnce DEF InPlace, ReadBack
<1> QED  BY <1>1, <1>2

LEMMA EditedSettles ==
  ASSUME NEW v, Demand(v), NEW s \in Seq(FileLines), NEW ini, InPlace(s, v, ini)
  PROVE  Edited(s, v, ini) = s
BY QualitySettles, EngineSettles DEF InPlace, Edited

\* An open file is the one that was found; an edited one holds what was asked
\* for and the other lines that it held, and reads back as it should.
ProfileInv ==
  /\ before \in Seq(FileLines) /\ file \in Seq(FileLines) /\ Demand(wanted)
  /\ edit = [ini |-> edit.ini, op |-> edit.op, read |-> edit.read]
  /\ edit.op # "none" => Extended(Kept(before, DOMAIN wanted), Kept(file, DOMAIN wanted))
  /\ edit.op = "applied" => InPlace(file, wanted, edit.ini)
  /\ EditVerifies

LEMMA ProfileStart == ProfileInit => ProfileInv
<1> SUFFICES ASSUME ProfileInit PROVE ProfileInv
  OBVIOUS
<1>1. <<>> \in Seq(FileLines) /\ DOMAIN <<>> = {}
  BY PieceFacts
<1>2. Demand(<<>>)
  <2>1. <<>> = [k \in {} |-> "new"]
    OBVIOUS
  <2> QED  BY <1>1, <2>1 DEF Demand
<1> QED  BY <1>1, <1>2 DEF ProfileInit, ProfileInv, EditVerifies

LEMMA OpenKeeps == ASSUME ProfileInv, OpenFile PROVE ProfileInv'
<1>0. PICK n \in 0 .. MaxLines :
        \E text \in [1 .. n -> FileLines], J \in (SUBSET Keys) \ {{}}, ini \in {"quality", "engine"} :
          /\ before' = text /\ file' = text /\ wanted' = [k \in J |-> "new"]
          /\ edit' = [ini |-> ini, op |-> "open", read |-> <<>>]
  BY DEF OpenFile
<1>1. PICK text \in [1 .. n -> FileLines], J \in (SUBSET Keys) \ {{}}, ini \in {"quality", "engine"} :
        /\ before' = text /\ file' = text /\ wanted' = [k \in J |-> "new"]
        /\ edit' = [ini |-> ini, op |-> "open", read |-> <<>>]
  BY <1>0
<1>2. text \in Seq(FileLines)
  BY ProfileAssumption
<1>3. Demand(wanted') /\ DOMAIN wanted' = J
  BY <1>1 DEF Demand
<1>4. Kept(text, J) \in Seq(FileLines)
  BY <1>2, KeptFacts
<1>5. Extended(Kept(text, J), Kept(text, J))
  BY <1>4, ExtendedSelf
<1> QED  BY <1>1, <1>2, <1>3, <1>5 DEF ProfileInv, EditVerifies

LEMMA ApplyKeeps == ASSUME ProfileInv, Apply PROVE ProfileInv' /\ ApplySettles
<1>1. /\ before' = before /\ wanted' = wanted /\ file' = Edited(file, wanted, edit.ini)
      /\ edit.op \in {"open", "applied"}
  BY DEF Apply, Edited
<1>2. edit' = [ini |-> edit.ini, op |-> IF edit.op = "open" THEN "applied" ELSE "again",
               read |-> ReadBack(file', wanted, edit.ini)]
  BY DEF Apply, ReadBack, ProfileInv
<1>3. file \in Seq(FileLines) /\ Demand(wanted)
  BY DEF ProfileInv
<1>4. /\ file' \in Seq(FileLines) /\ InPlace(file', wanted, edit.ini)
      /\ ReadBack(file', wanted, edit.ini) = wanted
      /\ Extended(Kept(file, DOMAIN wanted), Kept(file', DOMAIN wanted))
  BY <1>1, <1>3, EditedHolds
<1>5. Extended(Kept(before, DOMAIN wanted), Kept(file', DOMAIN wanted))
  <2>1. Extended(Kept(before, DOMAIN wanted), Kept(file, DOMAIN wanted))
    BY <1>1 DEF ProfileInv
  <2> QED  BY <1>4, <2>1, ExtendedOn
<1>6. ProfileInv'
  BY <1>1, <1>2, <1>3, <1>4, <1>5 DEF ProfileInv, EditVerifies
<1>7. ApplySettles
  <2>1. SUFFICES ASSUME edit.op = "applied" PROVE file' = file
    BY DEF ApplySettles
  <2>2. InPlace(file, wanted, edit.ini)
    BY <2>1 DEF ProfileInv
  <2> QED  BY <1>1, <1>3, <2>2, EditedSettles
<1> QED  BY <1>6, <1>7

LEMMA RemoveKeepsInv == ASSUME ProfileInv, RemoveSettings PROVE ProfileInv'
<1>1. PICK J \in SUBSET Keys : J = DOMAIN wanted
  BY DEF ProfileInv, Demand
<1>2. /\ before' = before /\ wanted' = wanted /\ file' = FlattenSeq(RemovePieces(file, J))
      /\ edit.op = "applied"
  BY <1>1 DEF RemoveSettings, RemoveEngine, RemovePieces
<1>3. edit' = [ini |-> edit.ini, op |-> "removed", read |-> read_engine_system_settings(file', J)]
  BY <1>1 DEF RemoveSettings, ProfileInv
<1>4. file \in Seq(FileLines)
  BY DEF ProfileInv
<1>5. file' \in Seq(FileLines)
  <2>1. PICK p \in Seq(Seq(FileLines)) : p = RemovePieces(file, J)
    BY <1>4, RemovePasses DEF Passes
  <2>2. FlattenSeq(p) \in Seq(FileLines)
    BY FlattenElements
  <2> QED  BY <1>2, <2>1, <2>2
<1>6. \A k \in J : ClearOf(file', k)
  BY <1>2, <1>4, RemoveCounts
<1>7. edit'.read = <<>>
  BY <1>3, <1>6, ReadClear
<1>8. Extended(Kept(before, J), Kept(file', J))
  <2>1. Extended(Kept(before, J), Kept(file, J))
    BY <1>1, <1>2 DEF ProfileInv
  <2>2. Kept(file', J) = Kept(file, J)
    BY <1>2, <1>4, RemoveKeeps
  <2> QED  BY <2>1, <2>2
<1>9. edit' = [ini |-> edit'.ini, op |-> edit'.op, read |-> edit'.read] /\ edit'.op = "removed"
  BY <1>3
<1> QED  BY <1>1, <1>2, <1>5, <1>7, <1>8, <1>9 DEF ProfileInv, EditVerifies

LEMMA ProfileStep ==
  ASSUME ProfileInv, [ProfileNext]_profileVars
  PROVE  ProfileInv' /\ ApplySettles
<1>1. CASE OpenFile
  BY <1>1, OpenKeeps DEF ApplySettles, OpenFile
<1>2. CASE Apply
  BY <1>2, ApplyKeeps
<1>3. CASE RemoveSettings
  <2>1. edit'.op = "removed"
    BY <1>3 DEF RemoveSettings, ProfileInv
  <2> QED  BY <1>3, <2>1, RemoveKeepsInv DEF ApplySettles
<1>4. CASE UNCHANGED profileVars
  BY <1>4 DEF profileVars, ProfileInv, EditVerifies, ApplySettles
<1> QED  BY <1>1, <1>2, <1>3, <1>4 DEF ProfileNext, ProfileOver

LEMMA ProfileMeans == ASSUME ProfileInv PROVE EditVerifies /\ EditKeepsOthers
<1>1. \A s : Others(s) = Kept(s, DOMAIN wanted)
  BY DEF Others, Kept
<1>2. edit.op # "none" => IsPrefix(Others(before), Others(file))
  BY <1>1, ExtendedPrefix DEF ProfileInv
<1> QED  BY <1>2 DEF ProfileInv, EditKeepsOthers

\* Whatever an INI file holds, duplicates and the keys under other headers
\* included, an edit is read back by the game as it was asked for, leaves the
\* other lines in their order, and changes nothing when it is made again.
THEOREM EditSoundAlways == ProfileSpec => EditSound
<1>1. ProfileInv => EditVerifies /\ EditKeepsOthers
  BY ProfileMeans
<1>2. ProfileInv /\ [ProfileNext]_profileVars => ProfileInv' /\ [ApplySettles]_profileVars
  BY ProfileStep
<1> QED  BY <1>1, <1>2, ProfileStart, PTL DEF ProfileSpec, EditSound
=============================================================================
