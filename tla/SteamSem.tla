------------------------------ MODULE SteamSem ------------------------------
(***************************************************************************)
(* The value protocol of one generation of a Steam named semaphore.        *)
(*                                                                         *)
(* Clients (libmachook/Compatibility/MacWSSteamNamedSemaphore.c) update    *)
(* the shared state file themselves under flock when nobody waits, and go  *)
(* to the broker (macwshostd/main.m) over a socket when they must block or *)
(* when the file says that somebody does.  The broker keeps the blocked    *)
(* clients in a FIFO, hands posted tokens to the oldest one that is still  *)
(* alive, and expires timed waits through a ring of deadlines.             *)
(*                                                                         *)
(* Every broker handler runs on one serial queue and holds the flock from  *)
(* its read of the file to its write, so a handler is one action.          *)
(***************************************************************************)
EXTENDS Naturals, Sequences, FiniteSets

CONSTANTS
    Clients,          \* threads that call sem_wait, sem_trywait, sem_post
    ProcessOf,        \* client -> the process it runs in
    Calls,            \* the calls clients make, among Kinds
    Producers,        \* clients that post without having waited
    InitialValue,
    MaxValue,         \* MACWS_STEAM_SEM_VALUE_MAX
    WaiterSockets,    \* capacity of waiterSockets (32)
    DeadlineCapacity, \* MACWS_STEAM_SEM_DEADLINE_CAPACITY (64)
    RequestIDs,       \* request identifiers
    MaxMinted,        \* bound: tokens made by producers
    MaxFaults,        \* bound: failed writes and failed connections
    MayStall,         \* whether a client may sit on the flock for 5 seconds
    MayCrash,         \* whether a client process may be killed
    NoProcess, NoRequest

Processes == {ProcessOf[c] : c \in Clients}

ASSUME SteamAssumption ==
    /\ ProcessOf \in [Clients -> Processes]
    /\ Calls \subseteq {"wait", "try", "timed", "post"}
    /\ Producers \subseteq Clients
    /\ InitialValue \in Nat /\ MaxValue \in Nat
    /\ WaiterSockets \in Nat /\ DeadlineCapacity \in Nat
    /\ MaxMinted \in Nat /\ MaxFaults \in Nat
    /\ MayStall \in BOOLEAN /\ MayCrash \in BOOLEAN
    /\ NoProcess \notin Processes
    /\ NoRequest \notin [client : Clients, id : RequestIDs]

(* One open file description per process: flock does not exclude another   *)
(* thread of the process that holds it.                                    *)
OneThreadPerProcess ==
    \A c, d \in Clients : ProcessOf[c] = ProcessOf[d] => c = d

VARIABLES
    value, waiterCount,  \* the state file
    lock,                \* process that holds its flock
    pc, kind, alive,     \* clients: position, current call, not killed
    st,                  \* client -> its copy of the state file
    reply,               \* client -> answer written to its socket
    held,                \* client -> it owns a token
    fifo,                \* waiterSockets: requests of blocked clients
    deadlines, armed,    \* deadline ring; the one its thread sleeps on
    overflow,            \* timed request the ring had no room for
    minted,              \* ghost: tokens made by producers
    forged,              \* ghost: tokens handed over by a post that failed
    faults

file == <<value, waiterCount, lock>>
client == <<pc, kind, alive, st>>
timers == <<deadlines, armed, overflow>>
ghosts == <<minted, forged, faults>>
vars == <<file, client, reply, held, fifo, timers, ghosts>>

Request == [client : Clients, id : RequestIDs]
Copy == [value : Nat, waiterCount : Nat]
NoCopy == [value |-> 0, waiterCount |-> 0]
PCs == {"idle", "flock", "locked", "send", "blocked", "dead"}
Kinds == {"none", "wait", "try", "timed", "post"}
Replies == {"none", "ok", "error"}

TypeOK ==
    /\ value \in Nat /\ waiterCount \in Nat
    /\ lock \in Processes \cup {NoProcess}
    /\ pc \in [Clients -> PCs]
    /\ kind \in [Clients -> Kinds]
    /\ alive \in [Clients -> BOOLEAN]
    /\ st \in [Clients -> Copy]
    /\ reply \in [Clients -> Replies]
    /\ held \in [Clients -> BOOLEAN]
    /\ fifo \in Seq(Request)
    /\ deadlines \in Seq(Request)
    /\ armed \in Request \cup {NoRequest}
    /\ overflow \in Request \cup {NoRequest}
    /\ minted \in Nat /\ forged \in Nat /\ faults \in Nat

Init ==
    /\ value = InitialValue /\ waiterCount = 0
    /\ lock = NoProcess
    /\ pc = [c \in Clients |-> "idle"]
    /\ kind = [c \in Clients |-> "none"]
    /\ alive = [c \in Clients |-> TRUE]
    /\ st = [c \in Clients |-> NoCopy]
    /\ reply = [c \in Clients |-> "none"]
    /\ held = [c \in Clients |-> FALSE]
    /\ fifo = << >> /\ deadlines = << >>
    /\ armed = NoRequest /\ overflow = NoRequest
    /\ minted = 0 /\ forged = 0 /\ faults = 0
-----------------------------------------------------------------------------
(* Clients.                                                                *)
MayPost(c) == held[c] \/ (c \in Producers /\ minted < MaxMinted)

(* The token behind a post that took effect: the caller's own, or new.     *)
Spend(c) ==
    /\ held' = [held EXCEPT ![c] = FALSE]
    /\ minted' = IF held[c] THEN minted ELSE minted + 1

(* sem_wait, sem_trywait and sem_post start with the flock; the overlay's  *)
(* timed sem_trywait goes to the broker at once.                           *)
Begin(c, k) ==
    /\ pc[c] = "idle"
    /\ IF k = "post" THEN MayPost(c) ELSE ~held[c]
    /\ pc' = [pc EXCEPT ![c] = IF k = "timed" THEN "send" ELSE "flock"]
    /\ kind' = [kind EXCEPT ![c] = k]
    /\ UNCHANGED <<file, alive, st, reply, held, fifo, timers, ghosts>>

(* Mutant: a flock that would block is taken for granted.                  *)
LockStateIgnored(c) ==
    /\ pc[c] = "flock"
    /\ lock' = ProcessOf[c]
    /\ st' = [st EXCEPT ![c] = [value |-> value, waiterCount |-> waiterCount]]
    /\ pc' = [pc EXCEPT ![c] = "locked"]
    /\ UNCHANGED <<value, waiterCount, kind, alive, reply, held, fifo,
                   timers, ghosts>>

(* LockState: the flock belongs to the handle's descriptor, which all      *)
(* threads of the process share.                                           *)
LockState(c) ==
    /\ pc[c] = "flock" /\ lock \in {NoProcess, ProcessOf[c]}
    /\ lock' = ProcessOf[c]
    /\ st' = [st EXCEPT ![c] = [value |-> value, waiterCount |-> waiterCount]]
    /\ pc' = [pc EXCEPT ![c] = "locked"]
    /\ UNCHANGED <<value, waiterCount, kind, alive, reply, held, fifo,
                   timers, ghosts>>

(* UnlockState; the call returns, or goes on to the broker.                *)
UnlockState(c, where) ==
    /\ lock' = IF lock = ProcessOf[c] THEN NoProcess ELSE lock
    /\ pc' = [pc EXCEPT ![c] = where]
    /\ kind' = [kind EXCEPT ![c] = IF where = "idle" THEN "none" ELSE @]
    /\ st' = [st EXCEPT ![c] = NoCopy]

LocalWrite(c, v) ==
    /\ value' = v
    /\ waiterCount' = st[c].waiterCount

(* Mutant: a token is taken without looking at the value.                  *)
LocalTakeUnchecked(c) ==
    /\ pc[c] = "locked" /\ kind[c] \in {"wait", "try"}
    /\ LocalWrite(c, st[c].value - 1)
    /\ held' = [held EXCEPT ![c] = TRUE]
    /\ UnlockState(c, "idle")
    /\ UNCHANGED <<alive, reply, fifo, timers, ghosts>>

LocalTryWait(c) ==
    /\ pc[c] = "locked" /\ kind[c] \in {"wait", "try"}
    /\ \/ /\ st[c].value = 0
          /\ UnlockState(c, IF kind[c] = "wait" THEN "send" ELSE "idle")
          /\ UNCHANGED <<value, waiterCount, held>>
       \/ /\ st[c].value # 0
          /\ LocalWrite(c, st[c].value - 1)
          /\ held' = [held EXCEPT ![c] = TRUE]
          /\ UnlockState(c, "idle")
    /\ UNCHANGED <<alive, reply, fifo, timers, ghosts>>

(* Mutant: a post ignores the waiters the file records.                    *)
LocalPostBlind(c) ==
    /\ pc[c] = "locked" /\ kind[c] = "post"
    /\ st[c].value # MaxValue
    /\ LocalWrite(c, st[c].value + 1)
    /\ Spend(c)
    /\ UnlockState(c, "idle")
    /\ UNCHANGED <<alive, reply, fifo, timers, forged, faults>>

LocalPost(c) ==
    /\ pc[c] = "locked" /\ kind[c] = "post"
    /\ \/ /\ st[c].waiterCount # 0
          /\ UnlockState(c, "send")
          /\ UNCHANGED <<value, waiterCount, held, minted>>
       \/ /\ st[c].waiterCount = 0 /\ st[c].value = MaxValue
          /\ UnlockState(c, "idle")
          /\ UNCHANGED <<value, waiterCount, held, minted>>
       \/ /\ st[c].waiterCount = 0 /\ st[c].value # MaxValue
          /\ LocalWrite(c, st[c].value + 1)
          /\ Spend(c)
          /\ UnlockState(c, "idle")
    /\ UNCHANGED <<alive, reply, fifo, timers, forged, faults>>

Fault == faults < MaxFaults /\ faults' = faults + 1

(* WriteState fails (revision exhausted, or pwrite): the call returns -1   *)
(* and the file keeps its contents.                                        *)
LocalWriteFails(c) ==
    /\ pc[c] = "locked" /\ Fault
    /\ IF kind[c] = "post" THEN st[c].waiterCount = 0 /\ st[c].value # MaxValue
                           ELSE st[c].value # 0
    /\ UnlockState(c, "idle")
    /\ UNCHANGED <<value, waiterCount, alive, reply, held, fifo, timers,
                   minted, forged>>

(* No connection to the broker: the call returns -1.                       *)
ConnectFails(c) ==
    /\ alive[c] /\ pc[c] = "send" /\ Fault
    /\ pc' = [pc EXCEPT ![c] = "idle"]
    /\ kind' = [kind EXCEPT ![c] = "none"]
    /\ UNCHANGED <<file, alive, st, reply, held, fifo, timers, minted, forged>>

(* The client reads the broker's answer; an error leaves a poster with the *)
(* token it wanted to give up.                                             *)
Receive(c) ==
    /\ alive[c] /\ pc[c] = "blocked" /\ reply[c] # "none"
    /\ pc' = [pc EXCEPT ![c] = "idle"]
    /\ kind' = [kind EXCEPT ![c] = "none"]
    /\ reply' = [reply EXCEPT ![c] = "none"]
    /\ UNCHANGED <<file, alive, st, held, fifo, timers, ghosts>>

(* A process is killed.  Its flock is dropped and its sockets close, but a *)
(* request already sent stays in the broker's buffer, and its requests     *)
(* stay in the FIFO until a write to them fails.                           *)
Crash(p) ==
    LET Killed == {c \in Clients : ProcessOf[c] = p} IN
    /\ MayCrash /\ \E c \in Killed : alive[c]
    /\ alive' = [c \in Clients |-> alive[c] /\ c \notin Killed]
    /\ pc' = [c \in Clients |->
                IF c \in Killed /\ pc[c] \notin {"send", "blocked"}
                  THEN "dead" ELSE pc[c]]
    /\ lock' = IF lock = p THEN NoProcess ELSE lock
    /\ st' = [c \in Clients |-> IF c \in Killed THEN NoCopy ELSE st[c]]
    /\ UNCHANGED <<value, waiterCount, kind, reply, held, fifo, timers, ghosts>>
-----------------------------------------------------------------------------
(* The broker.                                                             *)
InUse(r) ==
    \/ \E i \in 1..Len(fifo) : fifo[i].id = r
    \/ \E i \in 1..Len(deadlines) : deadlines[i].id = r
    \/ armed # NoRequest /\ armed.id = r

(* The client's counter never repeats; identifiers nothing refers to any   *)
(* more may be taken again without anyone noticing.                        *)
FreshID == CHOOSE r \in RequestIDs : ~InUse(r)

(* The serial queue is free and c's request is next.                       *)
Serving(c, kinds) ==
    /\ overflow = NoRequest
    /\ pc[c] = "send" /\ kind[c] \in kinds

Answer(c, r) ==
    /\ pc' = [pc EXCEPT ![c] = "blocked"]
    /\ reply' = [reply EXCEPT ![c] = r]
    /\ UNCHANGED <<kind, alive, st>>

(* LockSteamSemaphoreState gives up after 20000 attempts: ETIMEDOUT.       *)
ServeLockTimeout(c) ==
    /\ Serving(c, Kinds) /\ MayStall /\ lock # NoProcess
    /\ Answer(c, "error")
    /\ UNCHANGED <<file, held, fifo, timers, ghosts>>

(* WAIT_BLOCK and WAIT_TIMED with a token in the file, or no room.         *)
ServeWaitNow(c) ==
    /\ Serving(c, {"wait", "timed"}) /\ lock = NoProcess
    /\ \/ /\ value # 0
          /\ value' = value - 1
          /\ held' = [held EXCEPT ![c] = TRUE]
          /\ Answer(c, "ok") /\ UNCHANGED faults
       \/ /\ value = 0 /\ Len(fifo) >= WaiterSockets
          /\ Answer(c, "error") /\ UNCHANGED <<value, held, faults>>
       \/ /\ value # 0 \/ Len(fifo) < WaiterSockets
          /\ Fault                         \* the store fails, all undone
          /\ Answer(c, "error") /\ UNCHANGED <<value, held>>
    /\ UNCHANGED <<waiterCount, lock, fifo, timers, minted, forged>>

(* WAIT_BLOCK and WAIT_TIMED at zero: the socket is kept in the FIFO, and  *)
(* a timed one is given a deadline or, with the ring full, expired next.   *)
ServeEnqueue(c) ==
    /\ Serving(c, {"wait", "timed"}) /\ lock = NoProcess
    /\ value = 0 /\ Len(fifo) < WaiterSockets
    /\ \E r \in RequestIDs : ~InUse(r)
    /\ LET q == [client |-> c, id |-> FreshID] IN
         /\ fifo' = Append(fifo, q)
         /\ \/ /\ kind[c] = "timed" /\ Len(deadlines) < DeadlineCapacity
               /\ deadlines' = Append(deadlines, q) /\ UNCHANGED overflow
            \/ /\ kind[c] = "timed" /\ Len(deadlines) >= DeadlineCapacity
               /\ overflow' = q /\ UNCHANGED deadlines
            \/ kind[c] = "wait" /\ UNCHANGED <<deadlines, overflow>>
    /\ waiterCount' = Len(fifo) + 1
    /\ Answer(c, "none")
    /\ UNCHANGED <<value, lock, held, armed, ghosts>>

(* Mutant: the newest live waiter is granted first.                        *)
LastLive(i) ==
    /\ i \in 1..Len(fifo) /\ alive[fifo[i].client]
    /\ \A j \in (i + 1)..Len(fifo) : ~alive[fifo[j].client]

(* GrantSteamSemaphoreSocketWaiter: waiters whose socket is closed are     *)
(* dropped until a write succeeds.                                         *)
FirstLive(i) ==
    /\ i \in 1..Len(fifo) /\ alive[fifo[i].client]
    /\ \A j \in 1..(i - 1) : ~alive[fifo[j].client]

ServePostGrant(c) ==
    /\ Serving(c, {"post"}) /\ lock = NoProcess
    /\ \E i \in 1..Len(fifo) :
         LET d == fifo[i].client
             rest == SubSeq(fifo, i + 1, Len(fifo)) IN
         /\ FirstLive(i)
         /\ fifo' = rest
         /\ \/ /\ waiterCount' = Len(rest)
               /\ held' = [held EXCEPT ![c] = FALSE, ![d] = TRUE]
               /\ minted' = IF held[c] THEN minted ELSE minted + 1
               /\ reply' = [reply EXCEPT ![c] = "ok", ![d] = "ok"]
               /\ UNCHANGED <<forged, faults>>
            \/ /\ Fault                    \* granted, but the store fails
               /\ held' = [held EXCEPT ![d] = TRUE]
               /\ forged' = forged + 1
               /\ reply' = [reply EXCEPT ![c] = "error", ![d] = "ok"]
               /\ UNCHANGED <<waiterCount, minted>>
    /\ pc' = [pc EXCEPT ![c] = "blocked"]
    /\ UNCHANGED <<value, lock, kind, alive, st, timers>>

(* Nobody alive to grant to: the value is raised.  waiterCount is not      *)
(* refreshed here, though the FIFO was just emptied.                       *)
ServePostValue(c) ==
    /\ Serving(c, {"post"}) /\ lock = NoProcess
    /\ \A i \in 1..Len(fifo) : ~alive[fifo[i].client]
    /\ fifo' = << >>
    /\ \/ /\ value = MaxValue
          /\ Answer(c, "error") /\ UNCHANGED <<value, held, minted, faults>>
       \/ /\ value # MaxValue
          /\ value' = value + 1
          /\ Spend(c)
          /\ Answer(c, "ok") /\ UNCHANGED faults
       \/ /\ value # MaxValue /\ Fault
          /\ Answer(c, "error") /\ UNCHANGED <<value, held, minted>>
    /\ UNCHANGED <<waiterCount, lock, timers, forged>>

(* Mutant: a deadline answers a request that was granted meanwhile.        *)
ExpireAlways(r) ==
    /\ reply' = [reply EXCEPT ![r.client] = "error"]
    /\ fifo' = SelectSeq(fifo, LAMBDA q : q # r)
    /\ UNCHANGED <<value, waiterCount, faults>>

(* ExpireSteamSemaphoreSocketWaiter: a request no longer in the FIFO is    *)
(* left alone; otherwise it leaves, the count is stored if the file can be *)
(* locked and written, and the client is answered (EAGAIN).                *)
Expire(r) ==
    \/ /\ \A i \in 1..Len(fifo) : fifo[i] # r
       /\ UNCHANGED <<value, waiterCount, reply, fifo, faults>>
    \/ \E i \in 1..Len(fifo) :
         /\ fifo[i] = r
         /\ fifo' = SubSeq(fifo, 1, i - 1) \o SubSeq(fifo, i + 1, Len(fifo))
         /\ \/ lock = NoProcess /\ waiterCount' = Len(fifo) - 1 /\ UNCHANGED faults
            \/ lock = NoProcess /\ Fault /\ UNCHANGED waiterCount
            \/ MayStall /\ lock # NoProcess /\ UNCHANGED <<waiterCount, faults>>
         /\ reply' = [reply EXCEPT ![r.client] = "error"]
         /\ UNCHANGED value

(* Mutant: a request the ring has no room for is left to wait.             *)
OverflowForgotten ==
    /\ overflow # NoRequest
    /\ overflow' = NoRequest
    /\ UNCHANGED <<value, waiterCount, lock, client, reply, held, fifo,
                   deadlines, armed, minted, forged, faults>>

ExpireOverflow ==
    /\ overflow # NoRequest
    /\ Expire(overflow)
    /\ overflow' = NoRequest
    /\ UNCHANGED <<lock, client, held, deadlines, armed, minted, forged>>

(* The deadline thread takes the oldest deadline, sleeps until it passes,  *)
(* and expires its request on the queue.                                   *)
ArmDeadline ==
    /\ armed = NoRequest /\ deadlines # << >>
    /\ armed' = Head(deadlines)
    /\ deadlines' = Tail(deadlines)
    /\ UNCHANGED <<file, client, reply, held, fifo, overflow, ghosts>>

FireDeadline ==
    /\ overflow = NoRequest /\ armed # NoRequest
    /\ Expire(armed)
    /\ armed' = NoRequest
    /\ UNCHANGED <<lock, client, held, deadlines, overflow, minted, forged>>

Serve(c) ==
    \/ ServeWaitNow(c) \/ ServeEnqueue(c)
    \/ ServePostGrant(c) \/ ServePostValue(c)

Local(c) == LocalTryWait(c) \/ LocalPost(c)

Broker == ExpireOverflow \/ ArmDeadline \/ FireDeadline

Next ==
    \/ \E c \in Clients :
          \/ \E k \in Calls : Begin(c, k)
          \/ LockState(c) \/ Local(c) \/ LocalWriteFails(c)
          \/ ConnectFails(c) \/ Receive(c)
          \/ Serve(c) \/ ServeLockTimeout(c)
    \/ Broker
    \/ \E p \in Processes : Crash(p)

Spec == Init /\ [][Next]_vars

(* Clients inside a call run, the flock's retry loop gets it when it is    *)
(* free again and again, the broker's queue and its deadline thread run.   *)
Fairness ==
    /\ \A c \in Clients :
         /\ SF_vars(LockState(c)) /\ WF_vars(Local(c)) /\ WF_vars(Receive(c))
         /\ SF_vars(Serve(c))
    /\ WF_vars(ArmDeadline) /\ SF_vars(FireDeadline) /\ SF_vars(ExpireOverflow)

FairSpec == Spec /\ Fairness

(* A client that owns a token eventually posts it.                         *)
OwnersPost == \A c \in Clients : WF_vars(held[c] /\ Begin(c, "post"))
-----------------------------------------------------------------------------
Holders == {c \in Clients : held[c]}

(* While a client waits in the broker's FIFO there is no token in the file *)
(* that it should have had, and the file sends every sem_post to the       *)
(* broker: no local post strands a waiter.                                 *)
NoStrandedWaiter == fifo # << >> => value = 0 /\ waiterCount >= Len(fifo)

(* No token is lost or duplicated by the two ways of updating the value.   *)
(* The one way to make a token is a post whose hand-over succeeds but      *)
(* whose store fails, which reports an error to the poster (forged).       *)
TokensConserved ==
    value + Cardinality(Holders) = InitialValue + minted + forged

(* What the broker tells a waiter is what happened: success comes with a   *)
(* token and an error (EAGAIN at the deadline, ENOSPC, ETIMEDOUT) without, *)
(* even when a post and the deadline race.                                 *)
ReplyMatchesToken == \A c \in Clients :
    pc[c] = "blocked" /\ kind[c] \in {"wait", "timed"} =>
        (held[c] <=> reply[c] = "ok")

(* Every request is answered at most once: a client in the FIFO has had no *)
(* answer and is there only once.                                          *)
WaitersUnanswered == \A i, j \in 1..Len(fifo) :
    /\ pc[fifo[i].client] = "blocked" /\ reply[fifo[i].client] = "none"
    /\ fifo[i].client = fifo[j].client => i = j

(* A client blocked in sem_wait is served if there is a token at all and   *)
(* owners post: local takers cannot starve it, because posts go to the     *)
(* FIFO while it waits.                                                    *)
WaitersServed == OwnersPost /\ <>(value > 0 \/ Holders # {}) => \A c \in Clients :
    (pc[c] = "blocked" /\ kind[c] = "wait") ~> pc[c] = "idle"

(* The overlay's 10 ms wait always returns, also when the ring of          *)
(* deadlines is full, whether or not anybody posts.                        *)
TimedWaitReturns == \A c \in Clients :
    pc[c] = "blocked" /\ kind[c] = "timed" ~> pc[c] = "idle"

(* s lists the clients of the requests in f that are alive, in their order. *)
LiveOrder(s, f, living) ==
    /\ \A p \in 1..Len(s) :
         living[s[p]] /\ \E i \in 1..Len(f) : f[i].client = s[p]
    /\ \A i \in 1..Len(f) :
         living[f[i].client] => \E p \in 1..Len(s) : s[p] = f[i].client
    /\ \A p, q \in 1..Len(s), i, j \in 1..Len(f) :
         p < q /\ f[i].client = s[p] /\ f[j].client = s[q] => i < j

(* The detailed protocol implements a FIFO counting semaphore.  Clients    *)
(* that were killed no longer wait.                                        *)
LiveWaiters == CHOOSE s \in UNION {[1..n -> Clients] : n \in 0..Len(fifo)} :
                 LiveOrder(s, fifo, alive)

Abstract == INSTANCE NamedSemaphore
              WITH avail <- value, queue <- LiveWaiters, owner <- Holders

ImplementsSemaphore == Abstract!Spec

(* include/macws_steam_semaphore_protocol.h: no "fabricated semaphore      *)
(* token": there are never more tokens than were made.                     *)
NoFabricatedToken == value + Cardinality(Holders) <= InitialValue + minted
=============================================================================
