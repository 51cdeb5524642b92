---------------------------- MODULE HostLoops_proofs ----------------------------
(* Proofs about the host tools that have to get somewhere: the session       *)
(* watchdog, the byte bridge and the cache migration.  A section gives the   *)
(* inductive invariant of one of them and derives the property the run of    *)
(* MCHostLoops checks; the last one joins them for the run's specification.  *)
EXTENDS MCHostLoops, TLAPS

-----------------------------------------------------------------------------
(* DevinWatch.                                                               *)

(* The cooldown is compared with the round's stale `now`, so what the loop   *)
(* knows of a session is its age less the lag: it may only underestimate.    *)
AgeKnown(s) == gap[s] >= Cooldown \/ gap[s] >= injected[s] + lag

\* Once the turn decided to type, the session has been left alone long enough.
MayType == wpc \in {"recheck", "body", "enter"} => gap[Watched[turn]] >= Cooldown

WatchInv ==
    /\ gap \in [Tabs -> Int] /\ injected \in [Tabs -> Int]
    /\ lag \in Nat /\ turn \in 1 .. Len(Watched)
    /\ \A s \in Tabs : AgeKnown(s)
    /\ MayType
    /\ CooldownKept

LEMMA BoundsTyped ==
  /\ Cooldown \in Nat \ {0} /\ Len(Watched) \in Nat \ {0}
  /\ \A i \in 1 .. Len(Watched) : Watched[i] \in Tabs
BY WatchBounds DEF Tabs

LEMMA WatchStart == WatchInit => WatchInv
<1> SUFFICES ASSUME WatchInit PROVE WatchInv
  OBVIOUS
<1>1. /\ gap = [s \in Tabs |-> Cooldown] /\ injected = [s \in Tabs |-> Cooldown]
      /\ lag = 0 /\ turn = 1 /\ wpc = "round" /\ typed = NoInjection
  BY DEF WatchInit
<1> QED  BY <1>1, BoundsTyped DEF WatchInv, AgeKnown, MayType, CooldownKept, NoInjection

\* Every session grows older by the tick, in truth and by what is known.
LEMMA TickKeeps == ASSUME WatchInv, Tick PROVE WatchInv'
<1>1. /\ lag' = lag + 1 /\ gap' = [s \in Tabs |-> Aged(gap[s], 1, Cooldown)]
      /\ UNCHANGED <<wpc, turn, injected, typed>>
  BY DEF Tick, loopVars
<1>2. \A s \in Tabs : /\ gap[s] \in Int /\ gap'[s] \in Int /\ injected[s] \in Int
                      /\ gap'[s] = IF gap[s] + 1 > Cooldown THEN Cooldown ELSE gap[s] + 1
  BY <1>1, BoundsTyped DEF WatchInv, Aged
<1>3. ASSUME NEW s \in Tabs PROVE AgeKnown(s)'
  <2>1. AgeKnown(s) /\ lag \in Nat
    BY DEF WatchInv
  <2> QED  BY <1>1, <1>2, <2>1, BoundsTyped DEF AgeKnown
<1>4. MayType'
  BY <1>1, <1>2, BoundsTyped DEF WatchInv, MayType
<1>5. gap' \in [Tabs -> Int] /\ lag' \in Nat
  BY <1>1, <1>2 DEF WatchInv
<1> QED  BY <1>1, <1>3, <1>4, <1>5 DEF WatchInv, CooldownKept

\* A new round folds the lag into what is known.
LEMMA RoundKeeps == ASSUME WatchInv, Round PROVE WatchInv'
<1>1. /\ injected' = [s \in Tabs |-> Aged(injected[s], lag, Cooldown)]
      /\ lag' = 0 /\ turn' = 1 /\ wpc' = "read" /\ typed' = NoInjection /\ gap' = gap
  BY DEF Round
<1>2. \A s \in Tabs : /\ injected[s] \in Int /\ injected'[s] \in Int
                      /\ injected'[s] = IF injected[s] + lag > Cooldown THEN Cooldown
                                        ELSE injected[s] + lag
  BY <1>1, BoundsTyped DEF WatchInv, Aged
<1>3. \A s \in Tabs : AgeKnown(s)'
  BY <1>1, <1>2, BoundsTyped DEF WatchInv, AgeKnown
<1>4. injected' \in [Tabs -> Int]
  BY <1>1, <1>2
<1> QED  BY <1>1, <1>3, <1>4, BoundsTyped DEF WatchInv, MayType, CooldownKept, NoInjection

LEMMA EndTurnKeeps ==
  ASSUME WatchInv, EndTurn
  PROVE  turn' \in 1 .. Len(Watched) /\ wpc' \in {"read", "round"}
BY BoundsTyped DEF WatchInv, EndTurn

\* A step that only moves the loop on keeps what is known of every session.
LEMMA MoveKeeps ==
  ASSUME WatchInv, UNCHANGED <<gap, injected, lag, typed>>,
         \/ EndTurn
         \/ turn' = turn /\ wpc' = wpc
         \/ turn' = turn /\ gap[Watched[turn]] >= Cooldown
  PROVE  WatchInv'
<1>1. turn' \in 1 .. Len(Watched) /\ MayType'
  BY EndTurnKeeps DEF WatchInv, MayType
<1> QED  BY <1>1 DEF WatchInv, AgeKnown, CooldownKept

LEMMA DecideKeeps ==
  ASSUME WatchInv, NEW tail, NEW still, Decide(Watched[turn], tail, still),
         UNCHANGED <<gap, injected, lag, typed>>
  PROVE  WatchInv'
<1>1. MayContinue(Watched[turn]) => gap[Watched[turn]] >= Cooldown
  <2>1. PICK s \in Tabs : s = Watched[turn]
    BY BoundsTyped DEF WatchInv
  <2>2. gap[s] \in Int /\ injected[s] \in Int /\ lag \in Nat /\ AgeKnown(s)
    BY DEF WatchInv
  <2> QED  BY <2>1, <2>2, BoundsTyped DEF MayContinue, AgeKnown
<1> QED  BY <1>1, MoveKeeps DEF Decide

LEMMA SendEnterKeeps == ASSUME WatchInv, SendEnter PROVE WatchInv'
<1>1. PICK s \in Tabs : s = Watched[turn]
  BY BoundsTyped DEF WatchInv
<1>2. /\ injected' = [injected EXCEPT ![s] = 0 - lag] /\ gap' = [gap EXCEPT ![s] = 0]
      /\ typed' = [by |-> s, read |-> wread, gap |-> gap[s]] /\ lag' = lag
      /\ EndTurn /\ wpc = "enter"
  BY <1>1 DEF SendEnter, InjectedNow
<1>3. lag \in Nat /\ gap[s] >= Cooldown
  BY <1>1, <1>2 DEF WatchInv, MayType
<1>4. gap' \in [Tabs -> Int] /\ injected' \in [Tabs -> Int]
  BY <1>2, <1>3 DEF WatchInv
<1>5. ASSUME NEW t \in Tabs PROVE AgeKnown(t)'
  BY <1>2, <1>3 DEF WatchInv, AgeKnown
<1>6. turn' \in 1 .. Len(Watched) /\ MayType'
  BY <1>2, EndTurnKeeps DEF MayType
<1> QED  BY <1>2, <1>3, <1>4, <1>5, <1>6 DEF WatchInv, CooldownKept

LEMMA WatchStep == WatchInv /\ [WatchNext]_watchVars => WatchInv'
<1> SUFFICES ASSUME WatchInv, [WatchNext]_watchVars PROVE WatchInv'
  OBVIOUS
<1>1. CASE ReadScreen
  BY <1>1, DecideKeeps DEF ReadScreen
<1>2. CASE ReadFails
  BY <1>2, MoveKeeps DEF ReadFails, WatchInv, MayType, loopVars
<1>3. CASE RecheckLimit
  BY <1>3, MoveKeeps DEF RecheckLimit, WatchInv, MayType, loopVars
<1>4. CASE SendBody
  BY <1>4, MoveKeeps DEF SendBody, WatchInv, MayType, loopVars
<1>5. CASE UNCHANGED watchVars \/ \E s \in Tabs, k \in Shown : ScreenChanges(s, k)
  BY <1>5, MoveKeeps DEF watchVars, ScreenChanges, loopVars
<1> QED  BY <1>1, <1>2, <1>3, <1>4, <1>5, TickKeeps, RoundKeeps, SendEnterKeeps
         DEF WatchNext, WatchLoop

(* Two messages to one session are never closer than the cooldown, for any   *)
(* number of sessions and any waits between their turns: SendEnter only      *)
(* follows a decision on an age that the stale clock can underestimate.      *)
THEOREM CooldownKeptAlways == WatchSpec => []CooldownKept
<1>1. WatchInv => CooldownKept
  BY DEF WatchInv
<1> QED  BY <1>1, WatchStart, WatchStep, PTL DEF WatchSpec

-----------------------------------------------------------------------------
(* McpBridge.                                                                *)

\* Every byte the server sent is in its pipe, in the buffer or delivered.
RepliesCounted ==
    /\ outPipe \in Nat /\ out_buf \in Nat /\ told \in Nat /\ net_buf \in Nat
    /\ served = told + out_buf + outPipe

(* The socket is given up at the end of the replies, or on a write after the *)
(* shutdown, and then requests stay in the buffer for ever.                  *)
SocketGivenUp == ~sock_open => (srvEnded /\ outPipe = 0) \/ net_buf > 0

BridgeInv ==
    /\ RepliesCounted /\ SocketGivenUp
    /\ ~running => gone \/ (~sock_open /\ out_buf = 0)

LEMMA BridgeStart == BridgeInit => BridgeInv
BY DEF BridgeInit, BridgeInv, RepliesCounted, SocketGivenUp

LEMMA BridgeStep == BridgeInv /\ [BridgeNext]_bridgeVars => BridgeInv'
<1> SUFFICES ASSUME BridgeInv, [BridgeNext]_bridgeVars PROVE BridgeInv'
  OBVIOUS
<1> USE DEF BridgeInv, RepliesCounted, SocketGivenUp
<1>1. CASE LoopEnds
  BY <1>1 DEF LoopEnds, NothingToWaitFor, peerVars
<1>2. CASE ReadStdin
  <2>1. /\ net_buf' = net_buf \/ net_buf' = net_buf + 1
        /\ UNCHANGED <<running, sock_open, out_buf, outPipe, served, srvEnded, told, gone>>
    BY <1>2 DEF ReadStdin
  <2>2. net_buf' \in Nat /\ (net_buf > 0 => net_buf' > 0)
    BY <2>1
  <2> QED  BY <2>1, <2>2
<1>3. CASE ReadSocket
  <2>1. /\ running /\ sock_open /\ UNCHANGED <<running, net_buf, served, srvEnded, told, gone>>
        /\ \/ outPipe > 0 /\ outPipe' = outPipe - 1 /\ out_buf' = out_buf + 1 /\ sock_open'
           \/ outPipe = 0 /\ srvEnded /\ UNCHANGED <<outPipe, out_buf>>
    BY <1>3 DEF ReadSocket, ReceivedEnd
  <2>2. RepliesCounted'
    BY <2>1
  <2> QED  BY <2>1, <2>2
<1>4. CASE WriteStdout
  <2>1. /\ UNCHANGED <<sock_open, net_buf, outPipe, served, srvEnded, gone>>
        /\ \/ gone /\ UNCHANGED <<out_buf, told>>
           \/ out_buf > 0 /\ out_buf' = out_buf - 1 /\ told' = told + 1 /\ running'
    BY <1>4 DEF WriteStdout, peerVars
  <2>2. RepliesCounted'
    BY <2>1
  <2> QED  BY <2>1, <2>2
<1>5. CASE WriteSocket
  <2>1. /\ running' /\ UNCHANGED <<out_buf, told, outPipe, served, srvEnded, gone>>
        /\ \/ net_buf > 0 /\ net_buf' = net_buf
           \/ net_buf' = net_buf - 1 /\ net_buf > 0 /\ sock_open'
    BY <1>5 DEF WriteSocket, peerVars
  <2>2. RepliesCounted'
    BY <2>1
  <2> QED  BY <2>1, <2>2
<1>6. CASE ClientWrites \/ ClientEnds \/ ClientGone \/ UNCHANGED bridgeVars
  BY <1>6 DEF ClientWrites, ClientEnds, ClientGone, bridgeVars
<1>7. CASE ServerWrites
  BY <1>7 DEF ServerWrites
<1>8. CASE ServerEnds
  BY <1>8 DEF ServerEnds
<1> QED  BY <1>1, <1>2, <1>3, <1>4, <1>5, <1>6, <1>7, <1>8 DEF BridgeNext, BridgeLoop

(* A bridge that ended on its own gave the client every byte the server      *)
(* sent, unless it cut its write side with requests still buffered.          *)
THEOREM RepliesCompleteAlways == BridgeSpec => []RepliesComplete
<1>1. BridgeInv => RepliesComplete
  BY DEF BridgeInv, RepliesCounted, SocketGivenUp, RepliesComplete
<1> QED  BY <1>1, BridgeStart, BridgeStep, PTL DEF BridgeSpec

-----------------------------------------------------------------------------
(* MetalCacheMigration.                                                      *)

USE CacheAssumption DEF Generations

PlanFields == {"generation", "files", "published"}
ClientFields == {"live", "old", "starts", "open"}

CacheShape ==
    /\ stamps.used \in Nat /\ stamps.old \subseteq 1 .. stamps.used
    /\ DOMAIN cache = CacheFiles /\ \A f \in CacheFiles : cache[f] \in 0 .. stamps.used
    /\ DOMAIN archive = Generations
    /\ \A g \in Generations :
         DOMAIN archive[g] = CacheFiles /\ \A f \in CacheFiles : archive[g][f] \in 0 .. stamps.used
    /\ journal.generation \in Generations
    /\ DOMAIN history = Generations /\ DOMAIN attempt = Attempts
    /\ DOMAIN client = ClientFields /\ DOMAIN client.open = CacheFiles

Locked == {"recheck", "publish", "refresh", "retire", "commit"}
LockHeld == \A p \in Attempts : attempt[p].pc \in Locked => lock = p

(* Whoever writes a cache file once an attempt looked does not add old code. *)
NoOldWriter == ~client.live \/ ~client.old
Clean == \A f \in CacheFiles : cache[f] \notin stamps.old

(* A plan to be published follows the one it replaces, whose copy is written *)
(* down already.                                                             *)
PlanReady(plan) ==
    /\ DOMAIN plan = PlanFields /\ plan.published = TRUE
    /\ IF journal.published
       THEN /\ plan.generation = journal.generation + 1 /\ plan.generation \in Generations
            /\ history[journal.generation] = journal
       ELSE plan.generation = 0

AttemptFine(a) ==
    /\ DOMAIN a = {"pc", "plan", "todo"}
    /\ a.pc # "retire" => a.todo = {}
    /\ \A f \in a.todo : f \in CacheFiles /\ archive[journal.generation][f] = 0
    /\ a.pc \in {"refresh", "retire", "commit"} => journal.published
    /\ a.pc = "publish" => PlanReady(a.plan)
    /\ a.pc \notin {"idle", "refused"} => NoOldWriter
    /\ a.pc = "commit" => Clean
    /\ a.pc = "refused" => raced

\* A descriptor follows its file into the archive.
OpenArchived ==
    \A f \in CacheFiles, g \in Generations : client.open[f] = Archived(g) => archive[g][f] # 0

(* Plans are published in order, and a copy is the plan it copies.           *)
PlansOrdered ==
    /\ ~journal.published => journal.generation = 0
                             /\ \A g \in Generations, f \in CacheFiles : archive[g][f] = 0
    /\ \A g \in Generations : history[g].published => journal.published /\ g <= journal.generation
    /\ history[journal.generation].published => history[journal.generation] = journal

CacheInv ==
    /\ CacheShape /\ LockHeld /\ (\A p \in Attempts : AttemptFine(attempt[p]))
    /\ OpenArchived /\ PlansOrdered /\ ReceiptsKept
    /\ schema => NoOldWriter /\ Clean

LEMMA CacheStart == CacheInit => CacheInv
<1> SUFFICES ASSUME CacheInit PROVE CacheInv
  OBVIOUS
<1>1. /\ cache = [f \in CacheFiles |-> 1] /\ archive = [g \in Generations |-> NoFiles]
      /\ journal = NoPlan /\ history = [g \in Generations |-> NoPlan] /\ schema = FALSE
      /\ attempt = [p \in Attempts |-> Idle] /\ stamps = [used |-> 1, old |-> {1}]
      /\ client = [live |-> TRUE, old |-> TRUE, starts |-> 0,
                   open |-> [f \in CacheFiles |-> Closed]]
  BY DEF CacheInit
<1>2. CacheShape
  BY <1>1 DEF CacheShape, NoFiles, NoPlan, ClientFields
<1>3. LockHeld /\ \A p \in Attempts : AttemptFine(attempt[p])
  BY <1>1 DEF LockHeld, Locked, AttemptFine, Idle
<1>4. OpenArchived
  BY <1>1 DEF OpenArchived, Closed, Archived
<1>5. PlansOrdered /\ ReceiptsKept
  BY <1>1 DEF PlansOrdered, ReceiptsKept, NoFiles, NoPlan
<1> QED  BY <1>1, <1>2, <1>3, <1>4, <1>5 DEF CacheInv

(* A step that changes nothing but the locals of an attempt, and the lock.   *)
LocalMove(p, next) ==
    /\ attempt' = [attempt EXCEPT ![p] = next]
    /\ UNCHANGED <<cache, archive, journal, history, schema, client, stamps, raced>>
    /\ AttemptFine(next)
    /\ next.pc \in Locked => lock' = p
    /\ lock' = lock \/ lock \in {"free", p}

LEMMA AttemptMoves ==
  ASSUME CacheShape, NEW p \in Attempts, NEW next, attempt' = [attempt EXCEPT ![p] = next]
  PROVE  /\ DOMAIN attempt' = Attempts /\ attempt'[p] = next
         /\ \A q \in Attempts \ {p} : attempt'[q] = attempt[q]
BY DEF CacheShape

LEMMA LockPassed ==
  ASSUME CacheInv, NEW p \in Attempts, NEW next, attempt' = [attempt EXCEPT ![p] = next],
         next.pc \in Locked => lock' = p, lock' = lock \/ lock \in {"free", p}
  PROVE  LockHeld'
<1>1. /\ DOMAIN attempt' = Attempts /\ attempt'[p] = next
      /\ \A q \in Attempts \ {p} : attempt'[q] = attempt[q]
  BY AttemptMoves DEF CacheInv
<1>2. \A q \in Attempts \ {p} : attempt[q].pc \in Locked => lock = q /\ q # "free"
  BY DEF CacheInv, LockHeld
<1> QED  BY <1>1, <1>2 DEF LockHeld

LEMMA FineStays ==
  ASSUME NEW a, AttemptFine(a),
         UNCHANGED <<cache, archive, journal, history, client, stamps, raced>>
  PROVE  AttemptFine(a)'
BY DEF AttemptFine, PlanReady, NoOldWriter, Clean

LEMMA LocalStep ==
  ASSUME CacheInv, NEW p \in Attempts, NEW next, LocalMove(p, next)
  PROVE  CacheInv' /\ ArchivesKept
<1>1. /\ DOMAIN attempt' = Attempts /\ attempt'[p] = next
      /\ \A q \in Attempts \ {p} : attempt'[q] = attempt[q]
  BY AttemptMoves DEF CacheInv, LocalMove
<1>2. UNCHANGED <<cache, archive, journal, history, schema, client, stamps, raced>>
  BY DEF LocalMove
<1>3. CacheShape'
  BY <1>1, <1>2 DEF CacheInv, CacheShape
<1>4. LockHeld'
  BY LockPassed DEF LocalMove
<1>5. ASSUME NEW q \in Attempts PROVE AttemptFine(attempt[q])'
  <2>1. AttemptFine(attempt'[q])
    BY <1>1 DEF CacheInv, LocalMove
  <2>2. PICK a : a = attempt'[q]  OBVIOUS
  <2>3. AttemptFine(a)'
    BY <1>2, <2>1, <2>2, FineStays
  <2> QED  BY <2>2, <2>3 DEF AttemptFine
<1>6. OpenArchived' /\ PlansOrdered' /\ ReceiptsKept' /\ (schema' => NoOldWriter' /\ Clean')
  BY <1>2 DEF CacheInv, OpenArchived, PlansOrdered, ReceiptsKept, NoOldWriter, Clean
<1>7. ArchivesKept
  BY <1>2 DEF ArchivesKept
<1> QED  BY <1>3, <1>4, <1>5, <1>6, <1>7 DEF CacheInv

(* An attempt that ends gives the lock back; one that refuses was raced.     *)
LEMMA EndStep ==
  ASSUME CacheInv, NEW p \in Attempts,
         UNCHANGED <<cache, archive, journal, history, schema, client, stamps, raced>>,
         Ends(p) \/ (raced /\ Refuses(p))
  PROVE  CacheInv' /\ ArchivesKept
<1>1. DOMAIN Idle = {"pc", "plan", "todo"} /\ Idle.pc = "idle" /\ Idle.todo = {}
  BY DEF Idle
<1>2. PICK refused : refused = [Idle EXCEPT !.pc = "refused"]
  OBVIOUS
<1>3. DOMAIN refused = {"pc", "plan", "todo"} /\ refused.pc = "refused" /\ refused.todo = {}
  BY <1>1, <1>2
<1>4. AttemptFine(Idle) /\ Idle.pc \notin Locked /\ refused.pc \notin Locked
      /\ (raced => AttemptFine(refused))
  BY <1>1, <1>3 DEF AttemptFine, Locked
<1>5. LocalMove(p, Idle) \/ LocalMove(p, refused)
  BY <1>2, <1>4 DEF LocalMove, Ends, Refuses
<1> QED  BY <1>5, LocalStep

(* Steps of an attempt that only change its locals.                          *)
LEMMA LookSteps ==
  ASSUME CacheInv, NEW p \in Attempts,
         Begin(p) \/ TryLock(p) \/ Recheck(p) \/ FinalInventory(p) \/ Dies(p)
  PROVE  CacheInv' /\ ArchivesKept
<1>0. CacheShape /\ AttemptFine(attempt[p]) /\ DOMAIN attempt[p] = {"pc", "plan", "todo"}
  BY DEF CacheInv, AttemptFine
<1>1. CASE Begin(p)
  <2>1. PICK next : next = [attempt[p] EXCEPT !.pc = "lock"] /\ attempt' = [attempt EXCEPT ![p] = next]
    BY <1>1 DEF Begin, Goto
  <2>2. /\ DOMAIN next = {"pc", "plan", "todo"} /\ next.pc = "lock" /\ next.todo = attempt[p].todo
    BY <1>0, <2>1
  <2>3. /\ attempt[p].pc \in {"idle", "refused"} /\ ~client.live
        /\ UNCHANGED <<cache, archive, journal, history, schema, lock, client, stamps, raced>>
    BY <1>1 DEF Begin, live_chroot_processes
  <2>4. AttemptFine(next)
    BY <1>0, <2>2, <2>3 DEF AttemptFine, NoOldWriter
  <2>5. LocalMove(p, next)
    BY <2>1, <2>2, <2>3, <2>4 DEF LocalMove, Locked
  <2> QED  BY <2>5, LocalStep
<1>2. CASE TryLock(p)
  <2>0. UNCHANGED <<cache, archive, journal, history, schema, client, stamps, raced>>
        /\ attempt[p].pc = "lock"
    BY <1>2 DEF TryLock
  <2>1. CASE LockGranted /\ lock' = p /\ Goto(p, "recheck")
    <3>1. PICK next : /\ next = [attempt[p] EXCEPT !.pc = "recheck"]
                      /\ attempt' = [attempt EXCEPT ![p] = next]
      BY <2>1 DEF Goto
    <3>2. /\ DOMAIN next = {"pc", "plan", "todo"} /\ next.pc = "recheck"
          /\ next.todo = attempt[p].todo
      BY <1>0, <3>1
    <3>3. AttemptFine(next)
      BY <1>0, <2>0, <3>2 DEF AttemptFine
    <3>4. LocalMove(p, next)
      BY <2>0, <2>1, <3>1, <3>3 DEF LocalMove, LockGranted
    <3> QED  BY <3>4, LocalStep
  <2> QED  BY <1>2, <2>0, <2>1, EndStep DEF TryLock
<1>3. CASE Recheck(p)
  <2>0. UNCHANGED <<cache, archive, journal, history, schema, client, stamps, raced>>
        /\ attempt[p].pc = "recheck" /\ lock = p
    BY <1>3 DEF Recheck, CacheInv, LockHeld, Locked
  <2>1. CASE /\ attempt' = [attempt EXCEPT
                  ![p].pc = IF journal.published THEN "refresh" ELSE "publish",
                  ![p].plan = [generation |-> 0, files |-> candidates, published |-> TRUE]]
             /\ lock' = lock
    <3>1. PICK plan : plan = [generation |-> 0, files |-> candidates, published |-> TRUE]
      OBVIOUS
    <3>2. PICK next :
            /\ next = [attempt[p] EXCEPT !.pc = IF journal.published THEN "refresh" ELSE "publish",
                                         !.plan = plan]
            /\ attempt' = [attempt EXCEPT ![p] = next]
      BY <1>0, <2>1, <3>1 DEF CacheShape
    <3>3. /\ DOMAIN next = {"pc", "plan", "todo"} /\ next.todo = attempt[p].todo
          /\ next.plan = plan
          /\ next.pc = IF journal.published THEN "refresh" ELSE "publish"
      BY <1>0, <3>2
    <3>4. DOMAIN plan = PlanFields /\ plan.published = TRUE /\ plan.generation = 0
      BY <3>1 DEF PlanFields
    <3>5. ~journal.published => PlanReady(plan)
      BY <3>4 DEF PlanReady
    <3>6. AttemptFine(next)
      BY <1>0, <2>0, <3>3, <3>5 DEF AttemptFine
    <3>7. LocalMove(p, next)
      BY <2>0, <2>1, <3>2, <3>6 DEF LocalMove
    <3> QED  BY <3>7, LocalStep
  <2> QED  BY <1>3, <2>0, <2>1, EndStep DEF Recheck
<1>4. CASE FinalInventory(p)
  <2>0. UNCHANGED <<cache, archive, journal, history, schema, client, stamps, raced>>
        /\ attempt[p].pc = "retire" /\ attempt[p].todo = {} /\ lock = p
    BY <1>4 DEF FinalInventory, CacheInv, LockHeld, Locked
  <2>1. CASE candidates = NoFiles /\ Goto(p, "commit") /\ lock' = lock
    <3>1. PICK next : /\ next = [attempt[p] EXCEPT !.pc = "commit"]
                      /\ attempt' = [attempt EXCEPT ![p] = next]
      BY <2>1 DEF Goto
    <3>2. /\ DOMAIN next = {"pc", "plan", "todo"} /\ next.pc = "commit" /\ next.todo = {}
      BY <1>0, <2>0, <3>1
    <3>3. Clean
      BY <1>0, <2>1 DEF Clean, candidates, NoFiles, CacheShape
    <3>4. AttemptFine(next)
      BY <1>0, <2>0, <3>2, <3>3 DEF AttemptFine
    <3>5. LocalMove(p, next)
      BY <2>0, <2>1, <3>1, <3>4 DEF LocalMove
    <3> QED  BY <3>5, LocalStep
  <2> QED  BY <1>4, <2>0, <2>1, EndStep DEF FinalInventory
<1>5. CASE Dies(p)
  BY <1>5, EndStep DEF Dies
<1> QED  BY <1>1, <1>2, <1>3, <1>4, <1>5

(* While an attempt holds the lock the others only wait or rest.             *)
LEMMA OthersOut ==
  ASSUME CacheInv, NEW p \in Attempts, attempt[p].pc \in Locked
  PROVE  lock = p /\ \A q \in Attempts \ {p} : attempt[q].pc \notin Locked
BY DEF CacheInv, LockHeld

LEMMA FineOutside ==
  ASSUME NEW a, AttemptFine(a), a.pc \notin Locked, raced => raced', NoOldWriter => NoOldWriter'
  PROVE  AttemptFine(a)'
BY DEF AttemptFine, Locked

LEMMA OthersFine ==
  ASSUME CacheInv, NEW p \in Attempts, attempt[p].pc \in Locked, NEW next,
         attempt' = [attempt EXCEPT ![p] = next], AttemptFine(next)',
         raced => raced', NoOldWriter => NoOldWriter'
  PROVE  \A q \in Attempts : AttemptFine(attempt[q])'
<1>1. /\ DOMAIN attempt' = Attempts /\ attempt'[p] = next
      /\ \A q \in Attempts \ {p} : attempt'[q] = attempt[q]
  BY AttemptMoves DEF CacheInv
<1>2. AttemptFine(attempt[p])'
  BY <1>1 DEF AttemptFine
<1>3. ASSUME NEW q \in Attempts \ {p} PROVE AttemptFine(attempt[q])'
  <2>1. PICK a : a = attempt[q]  OBVIOUS
  <2>2. AttemptFine(a) /\ a.pc \notin Locked
    BY <2>1, OthersOut DEF CacheInv
  <2>3. AttemptFine(a)'
    BY <2>2, FineOutside
  <2> QED  BY <1>1, <2>1, <2>3 DEF AttemptFine
<1> QED  BY <1>2, <1>3

(* The next plan is published once the copy of the last one is written down, *)
(* so that every generation behind it has its receipt.                       *)
LEMMA PublishStep ==
  ASSUME CacheInv, NEW p \in Attempts, Publish(p)
  PROVE  CacheInv' /\ ArchivesKept
<1>1. PICK next : /\ next = [attempt[p] EXCEPT !.pc = IF journal.published THEN "retire" ELSE "refresh"]
                  /\ attempt' = [attempt EXCEPT ![p] = next]
  BY DEF Publish, Goto
<1>2. /\ journal' = attempt[p].plan /\ attempt[p].pc = "publish" /\ AttemptFine(attempt[p])
      /\ UNCHANGED <<cache, archive, history, schema, lock, client, stamps, raced>>
  BY DEF Publish, CacheInv
<1>3. PICK plan : plan = attempt[p].plan /\ PlanReady(plan) /\ journal' = plan /\ attempt[p].todo = {}
  BY <1>2 DEF AttemptFine
<1>4. /\ DOMAIN next = {"pc", "plan", "todo"} /\ next.todo = {}
      /\ next.pc \in {"retire", "refresh"}
  BY <1>1, <1>2, <1>3 DEF AttemptFine
<1>5. CacheShape /\ PlansOrdered /\ ReceiptsKept
  BY DEF CacheInv
<1>6. plan.published = TRUE /\ plan.generation \in Generations
  BY <1>3 DEF PlanReady
<1>7. CacheShape'
  BY <1>1, <1>2, <1>3, <1>5, <1>6, AttemptMoves DEF CacheShape
<1>8. NoOldWriter /\ NoOldWriter'
  BY <1>2 DEF AttemptFine, NoOldWriter
<1>9. AttemptFine(next)'
  BY <1>3, <1>4, <1>6, <1>8 DEF AttemptFine
<1>10. \A q \in Attempts : AttemptFine(attempt[q])'
  BY <1>1, <1>2, <1>8, <1>9, OthersFine DEF Locked
<1>11. LockHeld'
  BY <1>1, <1>2, OthersOut, LockPassed DEF Locked
<1>12. PlansOrdered'
  <2>1. \A g \in Generations : history[g].published => journal.published /\ g < plan.generation
    BY <1>3, <1>5 DEF PlansOrdered, PlanReady, CacheShape
  <2> QED  BY <1>2, <1>3, <1>6, <2>1 DEF PlansOrdered
<1>13. ReceiptsKept'
  <2>1. CASE journal.published
    <3>1. plan.generation = journal.generation + 1 /\ history[journal.generation] = journal
      BY <1>3, <2>1 DEF PlanReady
    <3>2. \A g \in Generations : g < plan.generation => history[g].published
      BY <1>5, <2>1, <3>1 DEF ReceiptsKept, CacheShape
    <3>3. ASSUME ~raced, NEW g \in Generations, NEW f \in CacheFiles, archive[g][f] # 0
          PROVE  history[g].published /\ history[g].files[f] = archive[g][f]
      BY <1>5, <2>1, <3>1, <3>3 DEF ReceiptsKept
    <3> QED  BY <1>2, <1>3, <3>2, <3>3 DEF ReceiptsKept
  <2>2. CASE ~journal.published
    BY <1>2, <1>3, <1>5, <2>2 DEF ReceiptsKept, PlansOrdered, PlanReady
  <2> QED  BY <2>1, <2>2
<1>14. OpenArchived' /\ (schema' => NoOldWriter' /\ Clean') /\ ArchivesKept
  BY <1>2, <1>8 DEF CacheInv, OpenArchived, Clean, ArchivesKept
<1> QED  BY <1>7, <1>10, <1>11, <1>12, <1>13, <1>14 DEF CacheInv

(* The archive holds what a plan recorded unless a client raced: only then   *)
(* is a retired file found tampered with.                                    *)
LEMMA TamperedRaced ==
  ASSUME CacheInv, NEW f \in CacheFiles,
         archive[journal.generation][f] # 0,
         archive[journal.generation][f] # journal.files[f]
  PROVE  raced
BY DEF CacheInv, ReceiptsKept, PlansOrdered, CacheShape

LEMMA RefreshStep ==
  ASSUME CacheInv, NEW p \in Attempts, refresh_generation(p)
  PROVE  CacheInv' /\ ArchivesKept
<1>1. /\ attempt[p].pc = "refresh" /\ AttemptFine(attempt[p]) /\ lock = p
      /\ UNCHANGED <<cache, archive, journal, schema, client, stamps, raced>>
  BY OthersOut DEF refresh_generation, CacheInv, Locked
<1>2. /\ CacheShape /\ PlansOrdered /\ ReceiptsKept
      /\ journal.published /\ NoOldWriter /\ attempt[p].todo = {}
      /\ DOMAIN attempt[p] = {"pc", "plan", "todo"}
  BY <1>1 DEF CacheInv, AttemptFine
<1>3. CASE ArchiveTampered(journal) /\ Refuses(p) /\ history' = history
  <2>1. raced
    BY <1>3, TamperedRaced DEF ArchiveTampered, RetiredBy, Planned
  <2> QED  BY <1>1, <1>3, <2>1, EndStep
<1>4. CASE Goto(p, "retire") /\ history' = history /\ lock' = lock
  <2>1. PICK next : next = [attempt[p] EXCEPT !.pc = "retire"] /\ attempt' = [attempt EXCEPT ![p] = next]
    BY <1>4 DEF Goto
  <2>2. DOMAIN next = {"pc", "plan", "todo"} /\ next.pc = "retire" /\ next.todo = {}
    BY <1>2, <2>1
  <2>3. AttemptFine(next)
    BY <1>2, <2>2 DEF AttemptFine
  <2>4. LocalMove(p, next)
    BY <1>1, <1>4, <2>1, <2>3 DEF LocalMove
  <2> QED  BY <2>4, LocalStep
<1>5. CASE Ends(p) /\ history' = history
  BY <1>1, <1>5, EndStep
<1>6. ~(history[journal.generation].published /\ history[journal.generation] # journal)
  BY <1>2 DEF PlansOrdered
<1>7. CASE /\ journal.generation < MaxGeneration
           /\ history' = HistoryWith(journal)
           /\ attempt' = [attempt EXCEPT
                ![p].pc = "publish",
                ![p].plan = [generation |-> NextGeneration(journal.generation),
                             files |-> candidates, published |-> TRUE]]
           /\ lock' = lock
  <2>1. PICK plan : plan = [generation |-> NextGeneration(journal.generation),
                            files |-> candidates, published |-> TRUE]
    OBVIOUS
  <2>2. PICK next : /\ next = [attempt[p] EXCEPT !.pc = "publish", !.plan = plan]
                    /\ attempt' = [attempt EXCEPT ![p] = next]
    BY <1>2, <1>7, <2>1 DEF CacheShape
  <2>3. /\ DOMAIN next = {"pc", "plan", "todo"} /\ next.pc = "publish" /\ next.todo = {}
        /\ next.plan = plan
    BY <1>2, <2>2
  <2>4. /\ history'[journal.generation] = journal /\ DOMAIN history' = Generations
        /\ \A g \in Generations : g # journal.generation => history'[g] = history[g]
    BY <1>2, <1>7 DEF HistoryWith, PlansOrdered, CacheShape
  <2>5. PlanReady(plan)'
    BY <1>1, <1>2, <1>7, <2>1, <2>4 DEF PlanReady, PlanFields, NextGeneration, CacheShape
  <2>6. NoOldWriter'
    BY <1>1, <1>2 DEF NoOldWriter
  <2>7. AttemptFine(next)'
    BY <2>3, <2>5, <2>6 DEF AttemptFine
  <2>8. \A q \in Attempts : AttemptFine(attempt[q])'
    BY <1>1, <2>2, <2>6, <2>7, OthersFine DEF Locked
  <2>9. LockHeld'
    BY <1>1, <1>7, <2>2, LockPassed DEF Locked
  <2>10. CacheShape'
    BY <1>1, <1>2, <2>2, <2>4, AttemptMoves DEF CacheShape
  <2>11. PlansOrdered'
    <3>1. journal' = journal /\ archive' = archive /\ journal.generation \in Generations
      BY <1>1, <1>2 DEF CacheShape
    <3>2. \A g \in Generations : history'[g].published => g <= journal.generation
      BY <1>2, <2>4, <3>1 DEF PlansOrdered
    <3> QED  BY <1>2, <2>4, <3>1, <3>2 DEF PlansOrdered
  <2>12. ReceiptsKept'
    <3>1. \A g \in Generations : history[g].published => history'[g] = history[g]
      BY <1>2, <2>4 DEF PlansOrdered
    <3> QED  BY <1>1, <1>2, <2>4, <3>1 DEF ReceiptsKept
  <2>13. OpenArchived' /\ (schema' => NoOldWriter' /\ Clean') /\ ArchivesKept
    BY <1>1, <2>6 DEF CacheInv, OpenArchived, Clean, ArchivesKept
  <2> QED  BY <2>8, <2>9, <2>10, <2>11, <2>12, <2>13 DEF CacheInv
<1> QED  BY <1>3, <1>4, <1>5, <1>6, <1>7 DEF refresh_generation

LEMMA CheckStep ==
  ASSUME CacheInv, NEW p \in Attempts, NEW f \in CacheFiles, CheckEntry(p, f)
  PROVE  CacheInv' /\ ArchivesKept
<1>1. /\ attempt[p].pc = "retire" /\ AttemptFine(attempt[p]) /\ lock = p
      /\ UNCHANGED <<cache, archive, journal, history, schema, client, stamps, raced>>
  BY OthersOut DEF CheckEntry, CacheInv, Locked
<1>2. CacheShape /\ DOMAIN attempt[p] = {"pc", "plan", "todo"}
  BY <1>1 DEF CacheInv, AttemptFine
<1>3. CASE /\ archive[journal.generation][f] # 0
           /\ archive[journal.generation][f] # journal.files[f] /\ Refuses(p)
  BY <1>1, <1>3, TamperedRaced, EndStep
<1>4. CASE Ends(p)
  BY <1>1, <1>4, EndStep
<1>5. CASE /\ archive[journal.generation][f] = 0 /\ attempt' = [attempt EXCEPT ![p].todo = {f}]
           /\ lock' = lock
  <2>1. PICK next : next = [attempt[p] EXCEPT !.todo = {f}] /\ attempt' = [attempt EXCEPT ![p] = next]
    BY <1>5
  <2>2. /\ DOMAIN next = {"pc", "plan", "todo"} /\ next.pc = "retire" /\ next.todo = {f}
    BY <1>1, <1>2, <2>1
  <2>3. AttemptFine(next)
    BY <1>1, <1>5, <2>2 DEF AttemptFine
  <2>4. LocalMove(p, next)
    BY <1>1, <1>5, <2>1, <2>3 DEF LocalMove
  <2> QED  BY <2>4, LocalStep
<1> QED  BY <1>3, <1>4, <1>5 DEF CheckEntry

(* A rename fills an archive slot that was free, and a file that is not what *)
(* the plan said makes the attempt refuse: someone wrote it meanwhile.       *)
LEMMA RenameStep ==
  ASSUME CacheInv, NEW p \in Attempts, NEW f \in CacheFiles, Rename(p, f)
  PROVE  CacheInv' /\ ArchivesKept
<1>1. /\ attempt[p].pc = "retire" /\ f \in attempt[p].todo /\ AttemptFine(attempt[p]) /\ lock = p
      /\ UNCHANGED <<journal, history, schema, stamps>>
  BY OthersOut DEF Rename, CacheInv, Locked
<1>2. /\ CacheShape /\ PlansOrdered /\ ReceiptsKept /\ OpenArchived
      /\ archive[journal.generation][f] = 0 /\ journal.published /\ NoOldWriter
      /\ DOMAIN attempt[p] = {"pc", "plan", "todo"} /\ journal.generation \in Generations
  BY <1>1 DEF CacheInv, AttemptFine, CacheShape
<1>3. CASE Ends(p) /\ UNCHANGED <<cache, archive, client, raced>>
  BY <1>1, <1>3, EndStep
<1>4. CASE /\ cache[f] # 0
           /\ cache' = [cache EXCEPT ![f] = 0]
           /\ archive' = [archive EXCEPT ![journal.generation][f] = cache[f]]
           /\ client' = [client EXCEPT !.open[f] =
                            IF @ = InCache THEN Archived(journal.generation) ELSE @]
           /\ raced' = (raced \/ client.live \/ cache[f] # journal.files[f])
           /\ IF cache[f] = journal.files[f]
              THEN attempt' = [attempt EXCEPT ![p].todo = {}] /\ UNCHANGED lock
              ELSE Refuses(p)
  <2>1. PICK next : /\ attempt' = [attempt EXCEPT ![p] = next]
                    /\ DOMAIN next = {"pc", "plan", "todo"} /\ next.todo = {}
                    /\ next.pc \in {"retire", "refused"} /\ (next.pc = "refused" => raced')
                    /\ next.pc = "retire" => lock' = lock
                    /\ lock' = lock \/ lock' = "free"
    <3>1. CASE cache[f] = journal.files[f]
      <4>1. PICK checked : checked = [attempt[p] EXCEPT !.todo = {}]
        OBVIOUS
      <4>2. DOMAIN checked = {"pc", "plan", "todo"} /\ checked.pc = "retire" /\ checked.todo = {}
        BY <1>1, <1>2, <4>1
      <4>3. attempt' = [attempt EXCEPT ![p] = checked] /\ lock' = lock
        BY <1>4, <3>1, <4>1
      <4> QED  BY <4>2, <4>3
    <3>2. CASE cache[f] # journal.files[f]
      <4>1. PICK refused : refused = [Idle EXCEPT !.pc = "refused"]
        OBVIOUS
      <4>2. /\ DOMAIN refused = {"pc", "plan", "todo"} /\ refused.pc = "refused"
            /\ refused.todo = {}
        BY <4>1 DEF Idle
      <4>3. attempt' = [attempt EXCEPT ![p] = refused] /\ lock' = "free" /\ raced'
        BY <1>1, <1>4, <3>2, <4>1 DEF Refuses
      <4> QED  BY <4>2, <4>3
    <3> QED  BY <3>1, <3>2
  <2>2. /\ client'.open[f] = IF client.open[f] = InCache
                             THEN Archived(journal.generation) ELSE client.open[f]
        /\ DOMAIN client'.open = CacheFiles /\ DOMAIN client' = ClientFields
        /\ \A h \in CacheFiles : h # f => client'.open[h] = client.open[h]
        /\ client'.live = client.live /\ client'.old = client.old
    BY <1>2, <1>4 DEF CacheShape, ClientFields
  <2>3. /\ DOMAIN archive' = Generations
        /\ \A g \in Generations : DOMAIN archive'[g] = CacheFiles
        /\ archive'[journal.generation][f] = cache[f]
        /\ \A g \in Generations, h \in CacheFiles :
             g # journal.generation \/ h # f => archive'[g][h] = archive[g][h]
    BY <1>2, <1>4 DEF CacheShape
  <2>4. /\ DOMAIN cache' = CacheFiles /\ cache'[f] = 0
        /\ \A h \in CacheFiles : h # f => cache'[h] = cache[h]
    BY <1>2, <1>4 DEF CacheShape
  <2>5. CacheShape'
    <3>1. DOMAIN attempt' = Attempts
      BY <1>2, <2>1, AttemptMoves
    <3>2. \A h \in CacheFiles : cache'[h] \in 0 .. stamps.used
      BY <1>2, <2>4 DEF CacheShape
    <3>3. \A g \in Generations, h \in CacheFiles : archive'[g][h] \in 0 .. stamps.used
      BY <1>2, <2>3 DEF CacheShape
    <3> QED  BY <1>1, <1>2, <2>2, <2>3, <2>4, <3>1, <3>2, <3>3 DEF CacheShape
  <2>6. NoOldWriter'
    BY <1>2, <2>2 DEF NoOldWriter
  <2>7. AttemptFine(next)'
    BY <1>1, <1>2, <2>1, <2>6 DEF AttemptFine
  <2>8. raced => raced'
    BY <1>4
  <2>9. \A q \in Attempts : AttemptFine(attempt[q])'
    BY <1>1, <2>1, <2>6, <2>7, <2>8, OthersFine DEF Locked
  <2>10. LockHeld'
    BY <1>1, <2>1, LockPassed DEF Locked
  <2>11. OpenArchived'
    BY <1>2, <1>4, <2>2, <2>3 DEF OpenArchived, Archived, CacheShape
  <2>12. PlansOrdered'
    BY <1>1, <1>2 DEF PlansOrdered
  <2>13. ReceiptsKept'
    <3>1. ~raced' => ~raced /\ cache[f] = journal.files[f]
      BY <1>4
    <3> QED  BY <1>1, <1>2, <2>3, <3>1 DEF ReceiptsKept
  <2>14. schema' => NoOldWriter' /\ Clean'
    <3>1. 0 \notin stamps.old
      BY <1>2 DEF CacheShape
    <3> QED  BY <1>1, <2>4, <2>6, <3>1 DEF CacheInv, Clean
  <2>15. ArchivesKept
    BY <1>2, <2>3 DEF ArchivesKept
  <2> QED  BY <2>5, <2>9, <2>10, <2>11, <2>12, <2>13, <2>14, <2>15 DEF CacheInv
<1> QED  BY <1>3, <1>4 DEF Rename

(* The commit is the one step that sets the schema: its attempt found every  *)
(* cache clean, and only current clients wrote one since.                    *)
LEMMA CommitStep ==
  ASSUME CacheInv, NEW p \in Attempts, Commit(p)
  PROVE  CacheInv' /\ ArchivesKept
<1>1. /\ attempt[p].pc = "commit" /\ AttemptFine(attempt[p]) /\ lock = p
      /\ UNCHANGED <<cache, archive, journal, history, client, stamps, raced>>
      /\ attempt' = [attempt EXCEPT ![p] = Idle] /\ lock' = "free"
  BY OthersOut DEF Commit, Ends, CacheInv, Locked
<1>2. NoOldWriter /\ Clean /\ NoOldWriter' /\ Clean'
  BY <1>1 DEF AttemptFine, NoOldWriter, Clean
<1>3. AttemptFine(Idle)' /\ Idle.pc \notin Locked
  BY DEF AttemptFine, Idle, Locked
<1>4. \A q \in Attempts : AttemptFine(attempt[q])'
  BY <1>1, <1>2, <1>3, OthersFine DEF Locked
<1>5. LockHeld'
  BY <1>1, <1>3, LockPassed
<1>6. CacheShape'
  BY <1>1, AttemptMoves DEF CacheInv, CacheShape
<1>7. OpenArchived' /\ PlansOrdered' /\ ReceiptsKept' /\ ArchivesKept
  BY <1>1 DEF CacheInv, OpenArchived, PlansOrdered, ReceiptsKept, ArchivesKept
<1> QED  BY <1>2, <1>4, <1>5, <1>6, <1>7 DEF CacheInv

(* A step of the clients: what they may do to the caches and the archives.   *)
ClientMoves ==
    /\ UNCHANGED <<journal, history, schema, lock, attempt>>
    /\ CacheShape' /\ OpenArchived' /\ ArchivesKept
    /\ raced => raced'
    /\ NoOldWriter => NoOldWriter' /\ (Clean => Clean')
    /\ \A g \in Generations, f \in CacheFiles : archive[g][f] = 0 => archive'[g][f] = 0
    /\ ~raced' => archive' = archive

LEMMA ClientStep ==
  ASSUME CacheInv, ClientMoves
  PROVE  CacheInv' /\ ArchivesKept
<1>1. CacheShape /\ UNCHANGED <<journal, history, schema, lock, attempt>>
  BY DEF CacheInv, ClientMoves
<1>2. ASSUME NEW q \in Attempts PROVE AttemptFine(attempt[q])'
  <2>1. PICK a : a = attempt[q]  OBVIOUS
  <2>2. AttemptFine(a) /\ journal.generation \in Generations
    BY <1>1, <2>1 DEF CacheInv, CacheShape
  <2>3. a.pc = "publish" => PlanReady(a.plan)'
    BY <1>1, <2>2 DEF AttemptFine, PlanReady
  <2>4. \A f \in a.todo : f \in CacheFiles /\ archive'[journal'.generation][f] = 0
    BY <1>1, <2>2 DEF AttemptFine, ClientMoves
  <2>5. AttemptFine(a)'
    BY <1>1, <2>2, <2>3, <2>4 DEF AttemptFine, ClientMoves
  <2> QED  BY <1>1, <2>1, <2>5 DEF AttemptFine
<1>3. LockHeld'
  BY <1>1 DEF CacheInv, LockHeld
<1>4. PlansOrdered'
  BY <1>1 DEF CacheInv, PlansOrdered, ClientMoves
<1>5. ReceiptsKept'
  BY <1>1 DEF CacheInv, ReceiptsKept, ClientMoves
<1>6. schema' => NoOldWriter' /\ Clean'
  BY <1>1 DEF CacheInv, ClientMoves
<1> QED  BY <1>2, <1>3, <1>4, <1>5, <1>6 DEF CacheInv, ClientMoves

LEMMA StampsGrow ==
  ASSUME NEW u \in Nat, NEW old, old \subseteq 1 .. u, NEW new, new \subseteq old \cup {u + 1}
  PROVE  /\ new \subseteq 1 .. (u + 1)
         /\ 0 .. u \subseteq 0 .. (u + 1) /\ u + 1 \in 0 .. (u + 1)
BY SMT

LEMMA ClientsMove ==
  ASSUME CacheInv,
         ClientStart \/ ClientExit \/ \E f \in CacheFiles : ClientOpen(f) \/ ClientWrite(f)
  PROVE  ClientMoves
<1>0. CacheShape /\ OpenArchived
  BY DEF CacheInv
<1>1. CASE ClientStart
  <2>1. /\ UNCHANGED <<journal, history, schema, lock, attempt, cache, archive, stamps, raced>>
        /\ DOMAIN client' = ClientFields /\ client'.open = client.open /\ client'.old = FALSE
    BY <1>0, <1>1 DEF ClientStart, CacheShape, ClientFields
  <2> QED  BY <1>0, <2>1 DEF ClientMoves, CacheShape, OpenArchived, ArchivesKept, NoOldWriter, Clean
<1>2. CASE ClientExit
  <2>1. /\ UNCHANGED <<journal, history, schema, lock, attempt, cache, archive, stamps, raced>>
        /\ DOMAIN client' = ClientFields /\ client'.open = [f \in CacheFiles |-> Closed]
        /\ client'.live = FALSE
    BY <1>0, <1>2 DEF ClientExit, CacheShape, ClientFields
  <2>2. OpenArchived'
    BY <2>1 DEF OpenArchived, Closed, Archived
  <2> QED  BY <1>0, <2>1, <2>2 DEF ClientMoves, CacheShape, ArchivesKept, NoOldWriter, Clean
<1>3. ASSUME NEW f \in CacheFiles, ClientOpen(f) PROVE ClientMoves
  <2>1. /\ UNCHANGED <<journal, history, schema, lock, attempt, cache, archive, stamps, raced>>
        /\ DOMAIN client' = ClientFields /\ DOMAIN client'.open = CacheFiles
        /\ client'.live = client.live /\ client'.old = client.old
        /\ client'.open[f] = InCache
        /\ \A h \in CacheFiles : h # f => client'.open[h] = client.open[h]
    BY <1>0, <1>3 DEF ClientOpen, CacheShape, ClientFields
  <2>2. OpenArchived'
    BY <1>0, <2>1 DEF OpenArchived, InCache, Archived
  <2> QED  BY <1>0, <2>1, <2>2 DEF ClientMoves, CacheShape, ArchivesKept, NoOldWriter, Clean
<1>4. ASSUME NEW f \in CacheFiles, ClientWrite(f) PROVE ClientMoves
  <2>0. client.live /\ UNCHANGED <<journal, history, schema, lock, attempt>>
    BY <1>4 DEF ClientWrite
  <2>1. CASE /\ stamps' = Stamped(cache[f])
             /\ client.open[f] = InCache \/ (client.open[f] = Closed /\ cache[f] = 0)
             /\ cache' = [cache EXCEPT ![f] = stamps'.used]
             /\ client' = [client EXCEPT !.open[f] = InCache]
             /\ UNCHANGED <<archive, raced>>
    <3>1. /\ DOMAIN client' = ClientFields /\ DOMAIN client'.open = CacheFiles
          /\ client'.live = client.live /\ client'.old = client.old
          /\ client'.open[f] = InCache
          /\ \A h \in CacheFiles : h # f => client'.open[h] = client.open[h]
      BY <1>0, <2>1 DEF CacheShape, ClientFields
    <3>2. /\ stamps'.used = stamps.used + 1 /\ stamps'.used \in Nat
          /\ stamps'.old \subseteq stamps.old \cup {stamps.used + 1}
          /\ cache[f] \notin stamps.old /\ ~client.old => stamps'.old = stamps.old
      BY <1>0, <2>1 DEF Stamped, CacheShape
    <3>3. /\ DOMAIN cache' = CacheFiles /\ cache'[f] = stamps.used + 1
          /\ \A h \in CacheFiles : h # f => cache'[h] = cache[h]
      BY <1>0, <2>1, <3>2 DEF CacheShape
    <3>4. CacheShape'
      <4>0. /\ stamps'.old \subseteq 1 .. stamps'.used
            /\ 0 .. stamps.used \subseteq 0 .. stamps'.used /\ stamps'.used \in 0 .. stamps'.used
        BY <1>0, <3>2, StampsGrow DEF CacheShape
      <4>2. \A h \in CacheFiles : cache'[h] \in 0 .. stamps'.used
        BY <1>0, <3>2, <3>3, <4>0 DEF CacheShape
      <4>3. \A g \in Generations, h \in CacheFiles : archive'[g][h] \in 0 .. stamps'.used
        BY <1>0, <2>1, <4>0 DEF CacheShape
      <4> QED  BY <1>0, <2>0, <2>1, <3>1, <3>2, <3>3, <4>0, <4>2, <4>3 DEF CacheShape
    <3>5. OpenArchived'
      BY <1>0, <2>1, <3>1 DEF OpenArchived, InCache, Archived
    <3>6. NoOldWriter => NoOldWriter' /\ (Clean => Clean')
      <4>1. stamps.used + 1 \notin stamps.old
        BY <1>0 DEF CacheShape
      <4> QED  BY <2>0, <3>1, <3>2, <3>3, <4>1 DEF NoOldWriter, Clean
    <3> QED  BY <2>0, <2>1, <3>4, <3>5, <3>6 DEF ClientMoves, ArchivesKept
  <2>2. ASSUME NEW g \in Generations,
               client.open[f] = Archived(g), stamps' = Stamped(archive[g][f]),
               archive' = [archive EXCEPT ![g][f] = stamps'.used],
               raced' = TRUE, UNCHANGED <<cache, client>>
        PROVE  ClientMoves
    <3>1. archive[g][f] # 0
      BY <1>0, <2>2 DEF OpenArchived
    <3>2. /\ stamps'.used = stamps.used + 1 /\ stamps'.used \in Nat
          /\ stamps'.old \subseteq stamps.old \cup {stamps.used + 1}
      BY <1>0, <2>2 DEF Stamped, CacheShape
    <3>3. /\ DOMAIN archive' = Generations
          /\ \A k \in Generations : DOMAIN archive'[k] = CacheFiles
          /\ archive'[g][f] = stamps.used + 1
          /\ \A k \in Generations, h \in CacheFiles :
               k # g \/ h # f => archive'[k][h] = archive[k][h]
      BY <1>0, <2>2, <3>2 DEF CacheShape
    <3>4. CacheShape'
      <4>0. /\ stamps'.old \subseteq 1 .. stamps'.used
            /\ 0 .. stamps.used \subseteq 0 .. stamps'.used /\ stamps'.used \in 0 .. stamps'.used
        BY <1>0, <3>2, StampsGrow DEF CacheShape
      <4>2. \A h \in CacheFiles : cache'[h] \in 0 .. stamps'.used
        BY <1>0, <2>2, <4>0 DEF CacheShape
      <4>3. \A k \in Generations, h \in CacheFiles : archive'[k][h] \in 0 .. stamps'.used
        <5>1. archive'[g][f] \in 0 .. stamps'.used
          BY <3>2, <3>3, <4>0
        <5>2. ASSUME NEW k \in Generations, NEW h \in CacheFiles, archive'[k][h] = archive[k][h]
              PROVE  archive'[k][h] \in 0 .. stamps'.used
          BY <1>0, <4>0, <5>2 DEF CacheShape
        <5> QED  BY <3>3, <5>1, <5>2
      <4> QED  BY <1>0, <2>0, <2>2, <3>2, <3>3, <4>0, <4>2, <4>3 DEF CacheShape
    <3>5. OpenArchived'
      <4>1. stamps.used + 1 # 0
        BY <1>0 DEF CacheShape
      <4> QED  BY <1>0, <2>2, <3>3, <4>1 DEF OpenArchived
    <3>6. NoOldWriter => NoOldWriter' /\ (Clean => Clean')
      <4>1. \A h \in CacheFiles : cache[h] # stamps.used + 1
        BY <1>0 DEF CacheShape
      <4> QED  BY <2>2, <3>2, <4>1 DEF NoOldWriter, Clean
    <3>7. ArchivesKept
      BY <2>2, <3>3 DEF ArchivesKept
    <3> QED  BY <2>0, <2>2, <3>1, <3>3, <3>4, <3>5, <3>6, <3>7 DEF ClientMoves
  <2> QED  BY <1>4, <2>1, <2>2 DEF ClientWrite
<1> QED  BY <1>1, <1>2, <1>3, <1>4

LEMMA CacheStep == CacheInv /\ [CacheNext]_cacheVars => CacheInv' /\ ArchivesKept
<1> SUFFICES ASSUME CacheInv, [CacheNext]_cacheVars PROVE CacheInv' /\ ArchivesKept
  OBVIOUS
<1>1. ASSUME NEW p \in Attempts, AttemptStep(p) \/ Dies(p) PROVE CacheInv' /\ ArchivesKept
  BY <1>1, LookSteps, PublishStep, RefreshStep, CheckStep, RenameStep, CommitStep DEF AttemptStep
<1>2. CASE UNCHANGED cacheVars
  <2>1. UNCHANGED <<cache, archive, journal, history, schema, lock, attempt, client, stamps,
                    deaths, raced>>
    BY <1>2 DEF cacheVars
  <2>2. ClientMoves
    BY <2>1 DEF ClientMoves, CacheInv, CacheShape, OpenArchived, ArchivesKept, NoOldWriter, Clean
  <2> QED  BY <2>2, ClientStep
<1> QED  BY <1>1, <1>2, ClientsMove, ClientStep DEF CacheNext

(* The migration is in order at every instant, whoever holds the lock.       *)
THEOREM CacheAlways == CacheSpec => []CacheInv
BY CacheStart, CacheStep, PTL DEF CacheSpec

(* The migration is safe to kill, to repeat and to run any number of times   *)
(* over: what the commit of schema.json says is so, every retired file stays *)
(* recorded and is never replaced, and only a racing client makes an attempt *)
(* refuse.                                                                   *)
THEOREM MigrationSoundAlways == CacheSpec => MigrationSound
<1>1. CacheInv /\ [CacheNext]_cacheVars
        => [CurrentMeansRetired' /\ ReceiptsKept' /\ OnlyRacesRefuse' /\ ArchivesKept]_cacheVars
  <2> SUFFICES ASSUME CacheInv, [CacheNext]_cacheVars
               PROVE  CurrentMeansRetired' /\ ReceiptsKept' /\ OnlyRacesRefuse' /\ ArchivesKept
    OBVIOUS
  <2>1. CacheInv' /\ ArchivesKept
    BY CacheStep
  <2>2. CurrentMeansRetired' /\ OnlyRacesRefuse' /\ ReceiptsKept'
    BY <2>1 DEF CacheInv, Clean, CurrentMeansRetired, OnlyRacesRefuse, AttemptFine
  <2> QED  BY <2>1, <2>2
<1> QED  BY CacheAlways, <1>1, PTL DEF CacheSpec, MigrationSound

-----------------------------------------------------------------------------
(* The three tools side by side.                                             *)

\* A step of the run is a step of each tool, or leaves it alone.
LEMMA StepsOfParts ==
  [MCNext]_loopPartVars => [CacheNext]_cacheVars /\ [WatchNext]_watchVars /\ [BridgeNext]_bridgeVars
BY DEF MCNext, loopPartVars, OnlyCache, OnlyWatch, OnlyBridge

(* Whatever tool a behaviour of the run follows, it is sound.                *)
THEOREM LoopsSoundAlways == MCSpec => MigrationSound /\ []CooldownKept /\ []RepliesComplete
<1>1. MCSpec => CacheSpec /\ WatchSpec /\ BridgeSpec
  BY StepsOfParts, PTL DEF MCSpec, MCInit, CacheSpec, WatchSpec, BridgeSpec
<1> QED  BY <1>1, MigrationSoundAlways, CooldownKeptAlways, RepliesCompleteAlways, PTL
=================================================================================
