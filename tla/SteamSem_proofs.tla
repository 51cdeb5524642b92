--------------------------- MODULE SteamSem_proofs --------------------------
(* Safety of the named-semaphore value protocol for any number of client   *)
(* processes, any capacities, with crashes, stalls and failed writes,      *)
(* provided that no two threads of one process use the semaphore at once.  *)
EXTENDS SteamSem, SequenceTheorems, FiniteSetTheorems, TLAPS

(* The holder of the flock works on an up-to-date copy.                    *)
Fresh == \A c \in Clients : pc[c] = "locked" =>
    /\ lock = ProcessOf[c]
    /\ st[c] = [value |-> value, waiterCount |-> waiterCount]

QueueKinds == \A i \in 1..Len(fifo) : kind[fifo[i].client] \in {"wait", "timed"}

(* A client that has not been answered yet owns nothing; FIFO entries      *)
(* belong to clients that wait.                                            *)
Unserved ==
    /\ \A c \in Clients :
         pc[c] \in {"flock", "locked", "send"}
           /\ kind[c] \in {"wait", "try", "timed"} => ~held[c]
    /\ QueueKinds
    /\ \A c \in Clients :
         pc[c] \in {"idle", "flock", "locked", "send"} => reply[c] = "none"

Safe == Fresh /\ Unserved /\ NoStrandedWaiter /\ ReplyMatchesToken
          /\ WaitersUnanswered

IInv == TypeOK /\ Safe
-----------------------------------------------------------------------------
(* What removing one element, or a prefix, of a sequence leaves.           *)
LEMMA RemoveOne ==
    ASSUME NEW S, NEW s \in Seq(S), NEW i \in 1..Len(s)
    PROVE  LET t == SubSeq(s, 1, i - 1) \o SubSeq(s, i + 1, Len(s)) IN
             /\ t \in Seq(S) /\ Len(t) = Len(s) - 1
             /\ \A j \in 1..Len(t) : t[j] = IF j < i THEN s[j] ELSE s[j + 1]
<1> DEFINE u == SubSeq(s, 1, i - 1)
           w == SubSeq(s, i + 1, Len(s))
<1>1. /\ u \in Seq(S) /\ Len(u) = i - 1
      /\ \A j \in 1..(i - 1) : u[j] = s[j]
  OBVIOUS
<1>2. /\ w \in Seq(S) /\ Len(w) = Len(s) - i
      /\ \A j \in 1..(Len(s) - i) : w[j] = s[i + j]
  OBVIOUS
<1> HIDE DEF u, w
<1>3. /\ u \o w \in Seq(S) /\ Len(u \o w) = Len(s) - 1
      /\ \A j \in 1..Len(u \o w) :
           (u \o w)[j] = IF j <= Len(u) THEN u[j] ELSE w[j - Len(u)]
  BY <1>1, <1>2, ConcatProperties
<1>4. ASSUME NEW j \in 1..Len(u \o w)
      PROVE  (u \o w)[j] = IF j < i THEN s[j] ELSE s[j + 1]
  <2>1. CASE j < i
    BY <1>1, <1>3, <2>1
  <2>2. CASE ~(j < i)
    <3>1. j - Len(u) \in 1..(Len(s) - i) /\ i + (j - Len(u)) = j + 1
      BY <1>1, <1>3, <2>2
    <3>2. (u \o w)[j] = w[j - Len(u)]
      BY <1>1, <1>3, <2>2
    <3>3. w[j - Len(u)] = s[i + (j - Len(u))]
      BY <1>2, <3>1
    <3> QED BY <2>2, <3>1, <3>2, <3>3
  <2> QED BY <2>1, <2>2
<1> QED BY <1>3, <1>4 DEF u, w

LEMMA DropPrefix ==
    ASSUME NEW S, NEW s \in Seq(S), NEW i \in 1..Len(s)
    PROVE  LET t == SubSeq(s, i + 1, Len(s)) IN
             /\ t \in Seq(S) /\ Len(t) = Len(s) - i
             /\ \A j \in 1..Len(t) : t[j] = s[i + j]
OBVIOUS

LEMMA InitIInv == Init => IInv
<1> SUFFICES ASSUME Init PROVE IInv
  OBVIOUS
<1>1. << >> \in Seq(Request) /\ Len(<< >>) = 0
  OBVIOUS
<1>2. TypeOK
  BY <1>1, SteamAssumption DEF Init, TypeOK, PCs, Kinds, Replies, Copy, NoCopy
<1>3. Safe
  BY <1>1 DEF Init, Safe, Fresh, Unserved, QueueKinds, NoStrandedWaiter, ReplyMatchesToken,
              WaitersUnanswered
<1> QED BY <1>2, <1>3 DEF IInv

LEMMA UnlockType ==
    ASSUME TypeOK, NEW c \in Clients, NEW w \in PCs, UnlockState(c, w)
    PROVE  /\ lock' \in Processes \cup {NoProcess} /\ pc' \in [Clients -> PCs]
           /\ kind' \in [Clients -> Kinds] /\ st' \in [Clients -> Copy]
<1>1. "none" \in Kinds /\ NoCopy \in Copy
  BY DEF Kinds, NoCopy, Copy
<1> QED BY <1>1 DEF TypeOK, UnlockState

LEMMA AnswerType ==
    ASSUME TypeOK, NEW c \in Clients, NEW r \in Replies, Answer(c, r)
    PROVE  /\ pc' \in [Clients -> PCs] /\ kind' \in [Clients -> Kinds]
           /\ alive' \in [Clients -> BOOLEAN] /\ st' \in [Clients -> Copy]
           /\ reply' \in [Clients -> Replies]
<1>1. "blocked" \in PCs
  BY DEF PCs
<1> QED BY <1>1 DEF TypeOK, Answer

LEMMA TypePreserved == TypeOK /\ [Next]_vars => TypeOK'
<1> SUFFICES ASSUME TypeOK, [Next]_vars PROVE TypeOK'
  OBVIOUS
<1> USE SteamAssumption
<1>0. /\ {"idle", "flock", "locked", "send", "blocked", "dead"} \subseteq PCs
      /\ {"none", "wait", "try", "timed", "post"} \subseteq Kinds
      /\ {"none", "ok", "error"} \subseteq Replies
      /\ NoCopy \in Copy
      /\ \A v, w \in Nat : [value |-> v, waiterCount |-> w] \in Copy
      /\ \A s \in Copy : s.value \in Nat /\ s.waiterCount \in Nat
  BY DEF PCs, Kinds, Replies, NoCopy, Copy
<1>1. CASE UNCHANGED vars
  BY <1>1 DEF TypeOK, vars, file, client, timers, ghosts
<1>2. ASSUME NEW c \in Clients, NEW k \in Calls, Begin(c, k) PROVE TypeOK'
  BY <1>2, <1>0 DEF TypeOK, Begin, file, timers, ghosts
<1>3. ASSUME NEW c \in Clients, LockState(c) PROVE TypeOK'
  <2>1. ProcessOf[c] \in Processes
    BY DEF Processes
  <2> QED BY <1>3, <2>1, <1>0 DEF TypeOK, LockState, timers, ghosts
<1>4. ASSUME NEW c \in Clients, LocalTryWait(c) PROVE TypeOK'
  <2>1. st[c].value \in Nat /\ st[c].waiterCount \in Nat
    BY <1>0 DEF TypeOK
  <2> QED
    <3>1. /\ lock' \in Processes \cup {NoProcess} /\ pc' \in [Clients -> PCs]
          /\ kind' \in [Clients -> Kinds] /\ st' \in [Clients -> Copy]
      BY <1>4, <1>0, UnlockType DEF LocalTryWait
    <3>2. value' \in Nat /\ waiterCount' \in Nat
      BY <1>4, <2>1 DEF LocalTryWait, LocalWrite, TypeOK
    <3>3. held' \in [Clients -> BOOLEAN]
      BY <1>4 DEF LocalTryWait, TypeOK
    <3> QED BY <1>4, <3>1, <3>2, <3>3 DEF LocalTryWait, TypeOK, timers, ghosts
<1>5. ASSUME NEW c \in Clients, LocalPost(c) PROVE TypeOK'
  <2>1. st[c].value \in Nat /\ st[c].waiterCount \in Nat
    BY <1>0 DEF TypeOK
  <2> QED
    <3>1. /\ lock' \in Processes \cup {NoProcess} /\ pc' \in [Clients -> PCs]
          /\ kind' \in [Clients -> Kinds] /\ st' \in [Clients -> Copy]
      BY <1>5, <1>0, UnlockType DEF LocalPost
    <3>2. value' \in Nat /\ waiterCount' \in Nat
      BY <1>5, <2>1 DEF LocalPost, LocalWrite, TypeOK
    <3>3. held' \in [Clients -> BOOLEAN]
      BY <1>5 DEF LocalPost, Spend, TypeOK
    <3>4. minted' \in Nat
      BY <1>5 DEF LocalPost, Spend, TypeOK
    <3> QED BY <1>5, <3>1, <3>2, <3>3, <3>4 DEF LocalPost, TypeOK, timers
<1>6. ASSUME NEW c \in Clients, LocalWriteFails(c) PROVE TypeOK'
  BY <1>6, <1>0 DEF TypeOK, LocalWriteFails, UnlockState, Fault, timers
<1>16. ASSUME NEW c \in Clients, ConnectFails(c) PROVE TypeOK'
  BY <1>16, <1>0 DEF TypeOK, ConnectFails, Fault, file, timers
<1>7. ASSUME NEW c \in Clients, Receive(c) PROVE TypeOK'
  BY <1>7, <1>0 DEF TypeOK, Receive, file, timers, ghosts
<1>8. ASSUME NEW p \in Processes, Crash(p) PROVE TypeOK'
  BY <1>8, <1>0 DEF TypeOK, Crash, timers, ghosts
<1>9. ASSUME NEW c \in Clients, ServeLockTimeout(c) PROVE TypeOK'
  BY <1>9, <1>0 DEF TypeOK, ServeLockTimeout, Answer, file, timers, ghosts
<1>10. ASSUME NEW c \in Clients, ServeWaitNow(c) PROVE TypeOK'
  <2>1. /\ pc' \in [Clients -> PCs] /\ kind' \in [Clients -> Kinds]
        /\ alive' \in [Clients -> BOOLEAN] /\ st' \in [Clients -> Copy]
        /\ reply' \in [Clients -> Replies]
    BY <1>10, <1>0, AnswerType DEF ServeWaitNow
  <2>2. value' \in Nat /\ faults' \in Nat
    BY <1>10 DEF ServeWaitNow, Fault, TypeOK
  <2>3. held' \in [Clients -> BOOLEAN]
    BY <1>10 DEF ServeWaitNow, TypeOK
  <2> QED BY <1>10, <2>1, <2>2, <2>3 DEF ServeWaitNow, TypeOK, timers
<1>11. ASSUME NEW c \in Clients, ServeEnqueue(c) PROVE TypeOK'
  <2> DEFINE q == [client |-> c, id |-> FreshID]
  <2>1. FreshID \in RequestIDs
    BY <1>11 DEF ServeEnqueue, FreshID
  <2>2. q \in Request
    BY <2>1 DEF Request
  <2>3. Append(fifo, q) \in Seq(Request) /\ Append(deadlines, q) \in Seq(Request)
    BY <2>2, AppendProperties DEF TypeOK
  <2>4. Len(fifo) \in Nat
    BY DEF TypeOK
  <2> HIDE DEF q
  <2>5. /\ fifo' = Append(fifo, q)
        /\ deadlines' \in {deadlines, Append(deadlines, q)}
        /\ overflow' \in {overflow, q}
    BY <1>11 DEF ServeEnqueue, q
  <2> QED
    <3>1. /\ pc' \in [Clients -> PCs] /\ kind' \in [Clients -> Kinds]
          /\ alive' \in [Clients -> BOOLEAN] /\ st' \in [Clients -> Copy]
          /\ reply' \in [Clients -> Replies]
      BY <1>11, <1>0, AnswerType DEF ServeEnqueue
    <3>2. waiterCount' \in Nat
      BY <1>11, <2>4 DEF ServeEnqueue
    <3> QED
      BY <1>11, <2>2, <2>3, <2>5, <3>1, <3>2 DEF TypeOK, ServeEnqueue, ghosts
<1>12. ASSUME NEW c \in Clients, ServePostGrant(c) PROVE TypeOK'
  <2>1. PICK i \in 1..Len(fifo) :
          /\ fifo' = SubSeq(fifo, i + 1, Len(fifo))
          /\ \/ waiterCount' = Len(SubSeq(fifo, i + 1, Len(fifo)))
             \/ waiterCount' = waiterCount
          /\ \/ held' = [held EXCEPT ![c] = FALSE, ![fifo[i].client] = TRUE]
             \/ held' = [held EXCEPT ![fifo[i].client] = TRUE]
          /\ \/ reply' = [reply EXCEPT ![c] = "ok", ![fifo[i].client] = "ok"]
             \/ reply' = [reply EXCEPT ![c] = "error", ![fifo[i].client] = "ok"]
          /\ minted' \in {minted, minted + 1} /\ forged' \in {forged, forged + 1}
          /\ faults' \in {faults, faults + 1}
    BY <1>12 DEF ServePostGrant, Fault
  <2>2. fifo' \in Seq(Request) /\ Len(fifo') = Len(fifo) - i
    <3>1. fifo \in Seq(Request)
      BY DEF TypeOK
    <3> QED BY <2>1, <3>1, DropPrefix
  <2>3. waiterCount' \in Nat
    BY <2>1, <2>2 DEF TypeOK
  <2>4. held' \in [Clients -> BOOLEAN]
    BY <2>1 DEF TypeOK
  <2>5. reply' \in [Clients -> Replies] /\ pc' \in [Clients -> PCs]
    <3>1. reply \in [Clients -> Replies] /\ pc \in [Clients -> PCs]
      BY DEF TypeOK
    <3>2. "ok" \in Replies /\ "error" \in Replies /\ "blocked" \in PCs
      BY <1>0
    <3>3. pc' = [pc EXCEPT ![c] = "blocked"]
      BY <1>12 DEF ServePostGrant
    <3>4. reply' \in [Clients -> Replies]
      <4>1. ASSUME NEW a \in Replies, NEW d,
                   reply' = [reply EXCEPT ![c] = a, ![d] = "ok"]
            PROVE  reply' \in [Clients -> Replies]
        BY <3>1, <3>2, <4>1
      <4>2. \E a \in Replies :
              reply' = [reply EXCEPT ![c] = a, ![fifo[i].client] = "ok"]
        BY <2>1, <3>2
      <4> QED BY <4>1, <4>2
    <3> QED BY <3>1, <3>2, <3>3, <3>4
  <2>6. minted' \in Nat /\ forged' \in Nat /\ faults' \in Nat
    BY <2>1 DEF TypeOK
  <2> QED
    BY <1>12, <2>2, <2>3, <2>4, <2>5, <2>6 DEF TypeOK, ServePostGrant, timers
<1>13. ASSUME NEW c \in Clients, ServePostValue(c) PROVE TypeOK'
  <2>1. /\ pc' \in [Clients -> PCs] /\ kind' \in [Clients -> Kinds]
        /\ alive' \in [Clients -> BOOLEAN] /\ st' \in [Clients -> Copy]
        /\ reply' \in [Clients -> Replies]
    BY <1>13, <1>0, AnswerType DEF ServePostValue
  <2>2. value' \in Nat /\ faults' \in Nat /\ minted' \in Nat
    BY <1>13 DEF ServePostValue, Fault, Spend, TypeOK
  <2>3. held' \in [Clients -> BOOLEAN]
    BY <1>13 DEF ServePostValue, Spend, TypeOK
  <2> QED BY <1>13, <2>1, <2>2, <2>3 DEF ServePostValue, TypeOK, timers
<1>14. ASSUME NEW r \in Request, Expire(r)
       PROVE  /\ value' \in Nat /\ waiterCount' \in Nat /\ faults' \in Nat
              /\ fifo' \in Seq(Request) /\ reply' \in [Clients -> Replies]
  <2>1. CASE UNCHANGED <<value, waiterCount, reply, fifo, faults>>
    BY <2>1 DEF TypeOK
  <2>2. CASE \E i \in 1..Len(fifo) :
              /\ fifo' = SubSeq(fifo, 1, i - 1) \o SubSeq(fifo, i + 1, Len(fifo))
              /\ \/ waiterCount' = Len(fifo) - 1 /\ UNCHANGED faults
                 \/ Fault /\ UNCHANGED waiterCount
                 \/ UNCHANGED <<waiterCount, faults>>
              /\ reply' = [reply EXCEPT ![r.client] = "error"]
              /\ UNCHANGED value
    <3>1. PICK i \in 1..Len(fifo) :
              /\ fifo' = SubSeq(fifo, 1, i - 1) \o SubSeq(fifo, i + 1, Len(fifo))
              /\ \/ waiterCount' = Len(fifo) - 1 /\ UNCHANGED faults
                 \/ Fault /\ UNCHANGED waiterCount
                 \/ UNCHANGED <<waiterCount, faults>>
              /\ reply' = [reply EXCEPT ![r.client] = "error"]
              /\ UNCHANGED value
      BY <2>2
    <3>2. fifo \in Seq(Request) /\ Len(fifo) \in Nat
      BY DEF TypeOK
    <3>3. fifo' \in Seq(Request)
      BY <3>1, <3>2, RemoveOne
    <3>4. waiterCount' \in Nat /\ faults' \in Nat /\ value' \in Nat
      BY <3>1, <3>2 DEF TypeOK, Fault
    <3>5. reply' \in [Clients -> Replies]
      BY <3>1, <1>0 DEF TypeOK
    <3> QED BY <3>3, <3>4, <3>5
  <2> QED BY <1>14, <2>1, <2>2 DEF Expire
<1>15. CASE Broker
  <2>1. CASE ExpireOverflow
    BY <2>1, <1>14 DEF ExpireOverflow, TypeOK, client
  <2>2. CASE ArmDeadline
    BY <2>2, HeadTailProperties
    DEF ArmDeadline, TypeOK, file, client, ghosts
  <2>3. CASE FireDeadline
    BY <2>3, <1>14 DEF FireDeadline, TypeOK, client
  <2> QED BY <1>15, <2>1, <2>2, <2>3 DEF Broker
<1> QED
  BY <1>1, <1>2, <1>3, <1>4, <1>5, <1>6, <1>7, <1>8, <1>9, <1>10, <1>11,
     <1>12, <1>13, <1>15, <1>16 DEF Next, Local, Serve
-----------------------------------------------------------------------------
(* The client of a FIFO entry waits and owns nothing.                      *)
Waits(d) ==
    /\ d \in Clients /\ pc[d] = "blocked" /\ reply[d] = "none"
    /\ kind[d] \in {"wait", "timed"} /\ ~held[d]

LEMMA Queued == IInv => \A i \in 1..Len(fifo) : Waits(fifo[i].client)
<1> SUFFICES ASSUME IInv, NEW i \in 1..Len(fifo)
             PROVE  Waits(fifo[i].client)
  OBVIOUS
<1>1. fifo[i] \in Request
  BY DEF IInv, TypeOK
<1>2. fifo[i].client \in Clients
  BY <1>1 DEF Request
<1> QED BY <1>2 DEF IInv, Safe, Unserved, QueueKinds, WaitersUnanswered,
                    ReplyMatchesToken, Waits

(* A step that leaves the FIFO and the clients in it alone keeps what the  *)
(* invariant says of them.                                                 *)
LEMMA QueueKept ==
    ASSUME IInv, UNCHANGED fifo,
           \A d \in Clients : Waits(d) =>
             pc'[d] = pc[d] /\ reply'[d] = reply[d] /\ kind'[d] = kind[d]
    PROVE  /\ WaitersUnanswered'
           /\ QueueKinds'
<1>1. \A i \in 1..Len(fifo) :
        /\ Waits(fifo[i].client)
        /\ pc'[fifo[i].client] = "blocked" /\ reply'[fifo[i].client] = "none"
        /\ kind'[fifo[i].client] \in {"wait", "timed"}
  BY Queued DEF Waits
<1>2. WaitersUnanswered
  BY DEF IInv, Safe
<1> QED BY <1>1, <1>2 DEF WaitersUnanswered, QueueKinds

LEMMA LocalSafe ==
    ASSUME OneThreadPerProcess, IInv, NEW c \in Clients,
           \/ \E k \in Calls : Begin(c, k)
           \/ LockState(c) \/ Local(c) \/ LocalWriteFails(c)
           \/ ConnectFails(c) \/ Receive(c)
    PROVE  Safe'
<1> USE SteamAssumption
<1>0. \A d \in Clients \ {c} : ProcessOf[d] # ProcessOf[c]
  BY DEF OneThreadPerProcess
<1>1. ASSUME NEW k \in Calls, Begin(c, k) PROVE Safe'
  <2>1. WaitersUnanswered' /\ QueueKinds'
    BY <1>1, QueueKept DEF Begin, IInv, TypeOK, Waits
  <2> QED BY <1>1, <2>1 DEF Begin, IInv, Safe, TypeOK, Fresh, Unserved,
        NoStrandedWaiter, ReplyMatchesToken, file, timers, ghosts
<1>2. CASE LockState(c)
  <2>1. WaitersUnanswered' /\ QueueKinds'
    BY <1>2, QueueKept DEF LockState, IInv, TypeOK, Waits
  <2> QED BY <1>2, <2>1, <1>0 DEF LockState, IInv, Safe, TypeOK, Fresh, Unserved,
        NoStrandedWaiter, ReplyMatchesToken, Processes
<1>3. CASE LocalTryWait(c)
  <2>1. WaitersUnanswered' /\ QueueKinds'
    BY <1>3, QueueKept DEF LocalTryWait, UnlockState, IInv, TypeOK, Waits
  <2>2. /\ lock = ProcessOf[c] /\ st[c] = [value |-> value, waiterCount |-> waiterCount]
    BY <1>3 DEF LocalTryWait, IInv, Safe, Fresh
  <2>3. Fresh'
    BY <1>3, <2>2, <1>0 DEF LocalTryWait, LocalWrite, UnlockState, IInv, Safe, TypeOK, Fresh
  <2>4. Unserved'
    BY <1>3, <2>1 DEF LocalTryWait, LocalWrite, UnlockState, IInv, Safe, TypeOK, Unserved
  <2>5. NoStrandedWaiter'
    BY <1>3, <2>2 DEF LocalTryWait, LocalWrite, IInv, Safe, TypeOK, NoStrandedWaiter
  <2>6. ReplyMatchesToken'
    BY <1>3 DEF LocalTryWait, LocalWrite, UnlockState, IInv, Safe, TypeOK, ReplyMatchesToken
  <2> QED BY <2>1, <2>3, <2>4, <2>5, <2>6 DEF Safe
<1>4. CASE LocalPost(c)
  <2>1. WaitersUnanswered' /\ QueueKinds'
    BY <1>4, QueueKept DEF LocalPost, UnlockState, IInv, TypeOK, Waits
  <2>2. /\ lock = ProcessOf[c] /\ st[c] = [value |-> value, waiterCount |-> waiterCount]
    BY <1>4 DEF LocalPost, IInv, Safe, Fresh
  <2>3. Fresh'
    BY <1>4, <2>2, <1>0 DEF LocalPost, LocalWrite, UnlockState, IInv, Safe, TypeOK, Fresh
  <2>4. Unserved'
    <3>1. /\ kind'[c] \in {"none", "post"} /\ reply' = reply
          /\ \A d \in Clients \ {c} : /\ pc'[d] = pc[d] /\ kind'[d] = kind[d]
                                      /\ held'[d] = held[d]
      BY <1>4 DEF LocalPost, UnlockState, Spend, IInv, TypeOK
    <3>2. reply[c] = "none"
      BY <1>4 DEF LocalPost, IInv, Safe, Unserved
    <3> QED BY <2>1, <3>1, <3>2 DEF IInv, Safe, Unserved
  <2>5. NoStrandedWaiter'
    <3>1. Len(fifo) \in Nat /\ (Len(fifo) = 0 => fifo = << >>)
      BY EmptySeq DEF IInv, TypeOK
    <3> QED BY <1>4, <2>2, <3>1 DEF LocalPost, LocalWrite, IInv, Safe, TypeOK, NoStrandedWaiter
  <2>6. ReplyMatchesToken'
    BY <1>4 DEF LocalPost, LocalWrite, UnlockState, Spend, IInv, Safe, TypeOK, ReplyMatchesToken
  <2> QED BY <2>1, <2>3, <2>4, <2>5, <2>6 DEF Safe
<1>5. CASE LocalWriteFails(c)
  <2>1. WaitersUnanswered' /\ QueueKinds'
    BY <1>5, QueueKept DEF LocalWriteFails, UnlockState, IInv, TypeOK, Waits
  <2>2. lock = ProcessOf[c]
    BY <1>5 DEF LocalWriteFails, IInv, Safe, Fresh
  <2>3. Fresh'
    BY <1>5, <2>2, <1>0 DEF LocalWriteFails, UnlockState, IInv, Safe, TypeOK, Fresh
  <2> QED BY <1>5, <2>1, <2>3 DEF LocalWriteFails, UnlockState, IInv, Safe, TypeOK, Unserved,
        NoStrandedWaiter, ReplyMatchesToken
<1>6. CASE Receive(c)
  <2>1. WaitersUnanswered' /\ QueueKinds'
    BY <1>6, QueueKept DEF Receive, IInv, TypeOK, Waits
  <2> QED BY <1>6, <2>1 DEF Receive, IInv, Safe, TypeOK, Fresh, Unserved,
        NoStrandedWaiter, ReplyMatchesToken, file
<1>7. CASE ConnectFails(c)
  <2>1. WaitersUnanswered' /\ QueueKinds'
    BY <1>7, QueueKept DEF ConnectFails, IInv, TypeOK, Waits
  <2> QED BY <1>7, <2>1 DEF ConnectFails, IInv, Safe, TypeOK, Fresh, Unserved,
        NoStrandedWaiter, ReplyMatchesToken, file
<1> QED BY <1>1, <1>2, <1>3, <1>4, <1>5, <1>6, <1>7 DEF Local

LEMMA CrashSafe ==
    ASSUME OneThreadPerProcess, IInv, NEW p \in Processes, Crash(p)
    PROVE  Safe'
<1> USE SteamAssumption
<1>1. WaitersUnanswered' /\ QueueKinds'
  BY QueueKept DEF Crash, IInv, TypeOK, Waits
<1>2. \A d \in Clients : pc'[d] = pc[d] \/ pc'[d] = "dead"
  BY DEF Crash, IInv, TypeOK
<1>3. Fresh'
  <2> SUFFICES ASSUME NEW d \in Clients, pc'[d] = "locked"
               PROVE  /\ lock' = ProcessOf[d]
                      /\ st'[d] = [value |-> value', waiterCount |-> waiterCount']
    BY DEF Fresh
  <2>1. pc[d] = "locked" /\ ProcessOf[d] # p
    BY <1>2 DEF Crash
  <2> QED BY <2>1 DEF Crash, IInv, Safe, Fresh
<1> QED BY <1>1, <1>2, <1>3 DEF Crash, IInv, Safe, Unserved, NoStrandedWaiter,
          ReplyMatchesToken
(* Answers that touch only the client being served.                        *)
LEMMA AnswerSafe ==
    ASSUME IInv, NEW c \in Clients, NEW r \in Replies, Answer(c, r),
           pc[c] = "send", UNCHANGED fifo,
           \A d \in Clients \ {c} : held'[d] = held[d],
           kind[c] \in {"wait", "timed"} => (held'[c] <=> r = "ok")
    PROVE  Unserved' /\ ReplyMatchesToken' /\ WaitersUnanswered'
<1>1. /\ pc'[c] = "blocked" /\ reply'[c] = r /\ kind' = kind
      /\ \A d \in Clients \ {c} : pc'[d] = pc[d] /\ reply'[d] = reply[d]
  BY DEF Answer, IInv, TypeOK
<1>2. WaitersUnanswered' /\ QueueKinds'
  BY <1>1, QueueKept DEF Waits
<1>3. Unserved'
  BY <1>1, <1>2 DEF IInv, Safe, Unserved
<1>4. ReplyMatchesToken'
  BY <1>1 DEF IInv, Safe, ReplyMatchesToken
<1> QED BY <1>2, <1>3, <1>4

LEMMA ServeSafe ==
    ASSUME IInv, NEW c \in Clients,
           ServeLockTimeout(c) \/ ServeWaitNow(c) \/ ServePostValue(c)
    PROVE  Safe'
<1> USE SteamAssumption
<1>0. /\ \A d \in Clients : ProcessOf[d] # NoProcess
      /\ "none" \in Replies /\ "ok" \in Replies /\ "error" \in Replies
      /\ pc[c] = "send"
      /\ kind[c] \in {"wait", "timed"} => ~held[c]
  BY DEF Processes, Replies, ServeLockTimeout, ServeWaitNow, ServePostValue,
         Serving, IInv, Safe, Unserved
<1>1. CASE ServeLockTimeout(c)
  <2>1. Unserved' /\ ReplyMatchesToken' /\ WaitersUnanswered'
    BY <1>0, <1>1, AnswerSafe DEF ServeLockTimeout
  <2>2. Fresh' /\ NoStrandedWaiter'
    BY <1>1, <1>0 DEF ServeLockTimeout, Answer, file, IInv, Safe, TypeOK, Fresh,
              NoStrandedWaiter
  <2> QED BY <2>1, <2>2 DEF Safe
<1>2. ASSUME lock = NoProcess, Answer(c, "ok") \/ Answer(c, "error"), UNCHANGED lock
      PROVE  Fresh'
  <2>1. \A d \in Clients : pc[d] # "locked"
    BY <1>0, <1>2 DEF IInv, Safe, Fresh
  <2>2. \A d \in Clients : pc'[d] # "locked"
    BY <2>1, <1>2 DEF Answer, IInv, TypeOK
  <2> QED BY <2>2 DEF Fresh
<1>3. CASE ServeWaitNow(c)
  <2>1. Unserved' /\ ReplyMatchesToken' /\ WaitersUnanswered'
    <3>1. CASE held' = [held EXCEPT ![c] = TRUE] /\ Answer(c, "ok")
      BY <1>0, <1>3, <3>1, AnswerSafe DEF ServeWaitNow, IInv, TypeOK
    <3>2. CASE Answer(c, "error") /\ UNCHANGED held
      BY <1>0, <1>3, <3>2, AnswerSafe DEF ServeWaitNow
    <3> QED BY <1>3, <3>1, <3>2 DEF ServeWaitNow
  <2>2. Fresh'
    BY <1>3, <1>2 DEF ServeWaitNow
  <2>3. NoStrandedWaiter'
    BY <1>3 DEF ServeWaitNow, IInv, Safe, NoStrandedWaiter
  <2> QED BY <2>1, <2>2, <2>3 DEF Safe
<1>4. CASE ServePostValue(c)
  <2>1. kind[c] = "post" /\ fifo' = << >> /\ Len(<< >>) = 0
    BY <1>4 DEF ServePostValue, Serving
  <2>2. /\ pc'[c] = "blocked" /\ kind' = kind /\ reply'[c] # "none"
        /\ \A d \in Clients \ {c} : /\ pc'[d] = pc[d] /\ reply'[d] = reply[d]
                                    /\ held'[d] = held[d]
    BY <1>4 DEF ServePostValue, Answer, Spend, IInv, TypeOK
  <2>3. Unserved' /\ ReplyMatchesToken'
    BY <2>1, <2>2 DEF IInv, Safe, Unserved, QueueKinds, ReplyMatchesToken
  <2>4. NoStrandedWaiter' /\ WaitersUnanswered'
    BY <2>1 DEF NoStrandedWaiter, WaitersUnanswered
  <2>5. Fresh'
    BY <1>4, <1>2 DEF ServePostValue
  <2> QED BY <2>3, <2>4, <2>5 DEF Safe
<1> QED BY <1>1, <1>3, <1>4

LEMMA EnqueueSafe ==
    ASSUME IInv, NEW c \in Clients, ServeEnqueue(c)
    PROVE  Safe'
<1> USE SteamAssumption
<1> DEFINE q == [client |-> c, id |-> FreshID]
<1>1. fifo' = Append(fifo, q) /\ q.client = c
  BY DEF ServeEnqueue
<1>2. FreshID \in RequestIDs
  BY DEF ServeEnqueue, FreshID
<1>3. q \in Request
  BY <1>2 DEF Request
<1> HIDE DEF q
<1>4. /\ Len(fifo) \in Nat /\ Len(fifo') = Len(fifo) + 1
      /\ \A i \in 1..Len(fifo) : fifo'[i] = fifo[i]
      /\ fifo'[Len(fifo) + 1] = q
  BY <1>1, <1>3, AppendProperties DEF IInv, TypeOK
<1>5. /\ pc[c] = "send" /\ pc'[c] = "blocked" /\ reply'[c] = "none"
      /\ kind' = kind /\ kind[c] \in {"wait", "timed"} /\ held' = held /\ ~held[c]
      /\ \A d \in Clients \ {c} : pc'[d] = pc[d] /\ reply'[d] = reply[d]
  BY DEF ServeEnqueue, Serving, Answer, IInv, TypeOK, Safe, Unserved
<1>6. \A i \in 1..Len(fifo) : Waits(fifo[i].client) /\ fifo[i].client # c
  BY <1>5, Queued DEF Waits
<1>7. Unserved'
  <2>1. \A i \in 1..Len(fifo') : kind[fifo'[i].client] \in {"wait", "timed"}
    BY <1>1, <1>4, <1>5, <1>6 DEF Waits
  <2> QED BY <1>5, <2>1 DEF IInv, Safe, Unserved, QueueKinds
<1>8. ReplyMatchesToken'
  BY <1>5 DEF IInv, Safe, ReplyMatchesToken
<1>9. WaitersUnanswered'
  <2>1. \A i \in 1..Len(fifo') :
          pc'[fifo'[i].client] = "blocked" /\ reply'[fifo'[i].client] = "none"
    BY <1>1, <1>4, <1>5, <1>6 DEF Waits
  <2>2. ASSUME NEW i \in 1..Len(fifo'), NEW j \in 1..Len(fifo'),
               fifo'[i].client = fifo'[j].client
        PROVE  i = j
    BY <2>2, <1>1, <1>4, <1>6 DEF IInv, Safe, WaitersUnanswered
  <2> QED BY <2>1, <2>2 DEF WaitersUnanswered
<1>10. Fresh'
  <2>1. \A d \in Clients : pc[d] # "locked"
    BY DEF ServeEnqueue, IInv, Safe, Fresh, Processes
  <2> QED BY <2>1, <1>5 DEF Fresh
<1>11. NoStrandedWaiter'
  BY <1>4 DEF ServeEnqueue, NoStrandedWaiter
<1> QED BY <1>7, <1>8, <1>9, <1>10, <1>11 DEF Safe
LEMMA GrantSafe ==
    ASSUME IInv, NEW c \in Clients, ServePostGrant(c)
    PROVE  Safe'
<1> USE SteamAssumption
<1>1. PICK i \in 1..Len(fifo) :
        /\ fifo' = SubSeq(fifo, i + 1, Len(fifo))
        /\ \/ waiterCount' = Len(SubSeq(fifo, i + 1, Len(fifo)))
           \/ waiterCount' = waiterCount
        /\ \/ held' = [held EXCEPT ![c] = FALSE, ![fifo[i].client] = TRUE]
           \/ held' = [held EXCEPT ![fifo[i].client] = TRUE]
        /\ \/ reply' = [reply EXCEPT ![c] = "ok", ![fifo[i].client] = "ok"]
           \/ reply' = [reply EXCEPT ![c] = "error", ![fifo[i].client] = "ok"]
  BY DEF ServePostGrant
<1> DEFINE d == fifo[i].client
<1>2. fifo \in Seq(Request)
  BY DEF IInv, TypeOK
<1>3. /\ Len(fifo) \in Nat /\ Len(fifo') = Len(fifo) - i
      /\ \A j \in 1..Len(fifo') : i + j \in 1..Len(fifo) /\ fifo'[j] = fifo[i + j]
  BY <1>1, <1>2, DropPrefix
<1>4. \A j \in 1..Len(fifo) : Waits(fifo[j].client)
  BY Queued
<1>5. Waits(d)
  BY <1>4
<1>6. pc[c] = "send" /\ kind[c] = "post" /\ lock = NoProcess /\ c # d
  BY <1>5 DEF ServePostGrant, Serving, Waits
<1>7. \A j \in 1..Len(fifo') :
        /\ Waits(fifo'[j].client)
        /\ fifo'[j].client # d /\ fifo'[j].client # c
  <2> SUFFICES ASSUME NEW j \in 1..Len(fifo')
               PROVE  /\ Waits(fifo'[j].client)
                      /\ fifo'[j].client # d /\ fifo'[j].client # c
    OBVIOUS
  <2>1. Waits(fifo[i + j].client) /\ fifo'[j] = fifo[i + j]
    BY <1>3, <1>4
  <2>2. i + j # i
    BY <1>3
  <2>3. fifo[i + j].client # d
    BY <1>3, <2>2 DEF IInv, Safe, WaitersUnanswered
  <2> QED BY <2>1, <2>3, <1>6 DEF Waits
<1> HIDE DEF d
<1>8. /\ kind' = kind /\ pc'[c] = "blocked" /\ pc'[d] = "blocked"
      /\ held'[d] /\ reply'[d] = "ok"
      /\ \A e \in Clients \ {c, d} : /\ pc'[e] = pc[e] /\ reply'[e] = reply[e]
                                     /\ held'[e] = held[e]
  <2>1. d \in Clients /\ pc[d] = "blocked"
    BY <1>5 DEF Waits
  <2>2. pc' = [pc EXCEPT ![c] = "blocked"] /\ kind' = kind
    BY DEF ServePostGrant
  <2>3. held'[d] /\ \A e \in Clients \ {c, d} : held'[e] = held[e]
    BY <1>1, <2>1 DEF d, IInv, TypeOK
  <2>4. reply'[d] = "ok" /\ \A e \in Clients \ {c, d} : reply'[e] = reply[e]
    BY <1>1, <2>1, <1>6 DEF d, IInv, TypeOK
  <2> QED BY <2>1, <2>2, <2>3, <2>4 DEF IInv, TypeOK
<1>9. Unserved'
  <2>1. \A j \in 1..Len(fifo') : kind[fifo'[j].client] \in {"wait", "timed"}
    BY <1>7 DEF Waits
  <2>2. \A e \in Clients : pc'[e] # "blocked" => e # c /\ e # d
    BY <1>8
  <2> QED BY <1>8, <2>1, <2>2 DEF IInv, Safe, Unserved, QueueKinds
<1>10. ReplyMatchesToken'
  BY <1>6, <1>8 DEF IInv, Safe, ReplyMatchesToken
<1>11. WaitersUnanswered'
  <2>1. \A j \in 1..Len(fifo') :
          pc'[fifo'[j].client] = "blocked" /\ reply'[fifo'[j].client] = "none"
    BY <1>7, <1>8 DEF Waits
  <2>2. ASSUME NEW j \in 1..Len(fifo'), NEW k \in 1..Len(fifo'),
               fifo'[j].client = fifo'[k].client
        PROVE  j = k
    <3>1. i + j = i + k
      BY <2>2, <1>3 DEF IInv, Safe, WaitersUnanswered
    <3> QED BY <3>1, <1>3
  <2> QED BY <2>1, <2>2 DEF WaitersUnanswered
<1>12. Fresh'
  <2>1. \A e \in Clients : pc[e] # "locked"
    BY <1>6 DEF IInv, Safe, Fresh, Processes
  <2> QED BY <2>1, <1>8 DEF Fresh
<1>13. NoStrandedWaiter'
  <2>1. fifo # << >> /\ value' = value
    BY <1>2 DEF ServePostGrant
  <2>2. value = 0 /\ waiterCount >= Len(fifo) /\ waiterCount \in Nat
    BY <2>1 DEF IInv, Safe, NoStrandedWaiter, TypeOK
  <2>3. waiterCount' >= Len(fifo')
    BY <1>1, <1>3, <2>2
  <2> QED BY <2>1, <2>2, <2>3 DEF NoStrandedWaiter
<1> QED BY <1>9, <1>10, <1>11, <1>12, <1>13 DEF Safe

LEMMA ExpireSafe ==
    ASSUME IInv, NEW r \in Request, Expire(r), UNCHANGED <<lock, client, held>>
    PROVE  Safe'
<1> USE SteamAssumption
<1>1. CASE UNCHANGED <<value, waiterCount, reply, fifo, faults>>
  BY <1>1 DEF IInv, Safe, Fresh, Unserved, QueueKinds, NoStrandedWaiter, ReplyMatchesToken,
              WaitersUnanswered, client
<1>2. CASE ~UNCHANGED <<value, waiterCount, reply, fifo, faults>>
  <2>1. PICK i \in 1..Len(fifo) :
          /\ fifo[i] = r
          /\ fifo' = SubSeq(fifo, 1, i - 1) \o SubSeq(fifo, i + 1, Len(fifo))
          /\ \/ lock = NoProcess /\ waiterCount' \in {Len(fifo) - 1, waiterCount}
             \/ waiterCount' = waiterCount
          /\ reply' = [reply EXCEPT ![r.client] = "error"]
          /\ value' = value
    BY <1>2 DEF Expire
  <2> DEFINE d == r.client
             at(j) == IF j < i THEN j ELSE j + 1
  <2>2. fifo \in Seq(Request)
    BY DEF IInv, TypeOK
  <2>3. /\ Len(fifo) \in Nat /\ Len(fifo') = Len(fifo) - 1
        /\ \A j \in 1..Len(fifo') : fifo'[j] = IF j < i THEN fifo[j] ELSE fifo[j + 1]
    <3> DEFINE t == SubSeq(fifo, 1, i - 1) \o SubSeq(fifo, i + 1, Len(fifo))
    <3>1. /\ Len(t) = Len(fifo) - 1
          /\ \A j \in 1..Len(t) : t[j] = IF j < i THEN fifo[j] ELSE fifo[j + 1]
      BY <2>2, RemoveOne
    <3>2. fifo' = t /\ Len(fifo) \in Nat
      BY <2>1, <2>2
    <3> HIDE DEF t
    <3> QED BY <3>1, <3>2
  <2>4. \A j \in 1..Len(fifo') :
          at(j) \in 1..Len(fifo) /\ at(j) # i /\ fifo'[j] = fifo[at(j)]
    BY <2>3
  <2>5. \A j, k \in 1..Len(fifo') : at(j) = at(k) => j = k
    BY <2>3
  <2> HIDE DEF at
  <2>6. Waits(d)
    BY <2>1, Queued
  <2>7. \A j \in 1..Len(fifo') : Waits(fifo'[j].client) /\ fifo'[j].client # d
    <3> SUFFICES ASSUME NEW j \in 1..Len(fifo')
                 PROVE  Waits(fifo'[j].client) /\ fifo'[j].client # d
      OBVIOUS
    <3>1. at(j) \in 1..Len(fifo) /\ at(j) # i /\ fifo'[j] = fifo[at(j)]
      BY <2>4
    <3>2. fifo[at(j)].client # fifo[i].client
      BY <3>1 DEF IInv, Safe, WaitersUnanswered
    <3> QED BY <2>1, <3>1, <3>2, Queued
  <2>8. /\ pc' = pc /\ kind' = kind /\ held' = held /\ st' = st
        /\ reply'[d] = "error"
        /\ \A e \in Clients \ {d} : reply'[e] = reply[e]
    BY <2>1, <2>6 DEF client, IInv, TypeOK, Waits
  <2> HIDE DEF d
  <2>9. Unserved'
    BY <2>6, <2>7, <2>8 DEF IInv, Safe, Unserved, QueueKinds, Waits
  <2>10. ReplyMatchesToken'
    BY <2>6, <2>8 DEF IInv, Safe, ReplyMatchesToken, Waits
  <2>11. WaitersUnanswered'
    <3>1. \A j \in 1..Len(fifo') :
            pc'[fifo'[j].client] = "blocked" /\ reply'[fifo'[j].client] = "none"
      BY <2>7, <2>8 DEF Waits
    <3>2. ASSUME NEW j \in 1..Len(fifo'), NEW k \in 1..Len(fifo'),
                 fifo'[j].client = fifo'[k].client
          PROVE  j = k
      BY <3>2, <2>4, <2>5 DEF IInv, Safe, WaitersUnanswered
    <3> QED BY <3>1, <3>2 DEF WaitersUnanswered
  <2>12. Fresh'
    <3>1. CASE lock = NoProcess
      <4>1. \A e \in Clients : pc[e] # "locked"
        BY <3>1 DEF IInv, Safe, Fresh, Processes
      <4> QED BY <4>1, <2>8 DEF Fresh
    <3>2. CASE lock # NoProcess
      BY <3>2, <2>1, <2>8 DEF IInv, Safe, Fresh
    <3> QED BY <3>1, <3>2
  <2>13. NoStrandedWaiter'
    <3>1. fifo # << >>
      BY <2>1, <2>2
    <3>2. value = 0 /\ waiterCount >= Len(fifo) /\ waiterCount \in Nat
      BY <3>1 DEF IInv, Safe, NoStrandedWaiter, TypeOK
    <3>3. waiterCount' = Len(fifo) - 1 \/ waiterCount' = waiterCount
      BY <2>1
    <3>4. Len(fifo) \in Nat /\ Len(fifo') = Len(fifo) - 1
      BY <2>3
    <3>5. waiterCount' >= Len(fifo')
      BY <3>2, <3>3, <3>4
    <3> QED BY <2>1, <3>2, <3>5 DEF NoStrandedWaiter
  <2> QED BY <2>9, <2>10, <2>11, <2>12, <2>13 DEF Safe
<1> QED BY <1>1, <1>2

LEMMA SafePreserved ==
    ASSUME OneThreadPerProcess, IInv, [Next]_vars
    PROVE  Safe'
<1>1. CASE UNCHANGED vars
  BY <1>1 DEF IInv, Safe, Fresh, Unserved, QueueKinds, NoStrandedWaiter, ReplyMatchesToken,
              WaitersUnanswered, vars, file, client
<1>2. CASE Broker
  <2>1. CASE ExpireOverflow
    <3>1. overflow \in Request
      BY <2>1 DEF ExpireOverflow, IInv, TypeOK
    <3> QED BY <2>1, <3>1, ExpireSafe DEF ExpireOverflow
  <2>2. CASE ArmDeadline
    BY <2>2 DEF ArmDeadline, IInv, Safe, Fresh, Unserved, QueueKinds, NoStrandedWaiter,
                ReplyMatchesToken, WaitersUnanswered, file, client
  <2>3. CASE FireDeadline
    <3>1. armed \in Request
      BY <2>3 DEF FireDeadline, IInv, TypeOK
    <3> QED BY <2>3, <3>1, ExpireSafe DEF FireDeadline
  <2> QED BY <1>2, <2>1, <2>2, <2>3 DEF Broker
<1>3. ASSUME NEW c \in Clients, Serve(c) \/ ServeLockTimeout(c)
      PROVE  Safe'
  BY <1>3, ServeSafe, EnqueueSafe, GrantSafe DEF Serve
<1>4. ASSUME NEW c \in Clients,
             \/ \E k \in Calls : Begin(c, k)
             \/ LockState(c) \/ Local(c) \/ LocalWriteFails(c)
             \/ ConnectFails(c) \/ Receive(c)
      PROVE  Safe'
  BY <1>4, LocalSafe
<1> QED BY <1>1, <1>2, <1>3, <1>4, CrashSafe DEF Next
-----------------------------------------------------------------------------
(* Conservation of tokens.                                                 *)
Tokens == IsFiniteSet(Holders) /\ TokensConserved

LEMMA Counting ==
    ASSUME NEW S, IsFiniteSet(S), NEW x
    PROVE  /\ Cardinality(S) \in Nat
           /\ IsFiniteSet(S \cup {x}) /\ IsFiniteSet(S \ {x})
           /\ x \notin S => Cardinality(S \cup {x}) = Cardinality(S) + 1
           /\ x \in S => Cardinality(S \ {x}) = Cardinality(S) - 1
BY FS_AddElement, FS_RemoveElement, FS_CardinalityType

LEMMA Balance ==
    ASSUME TypeOK, Tokens
    PROVE  /\ value \in Nat /\ InitialValue \in Nat /\ minted \in Nat /\ forged \in Nat
           /\ value + Cardinality(Holders) = InitialValue + minted + forged
BY SteamAssumption DEF Tokens, TokensConserved, TypeOK

LEMMA TokensTake ==
    ASSUME TypeOK, Tokens, NEW c \in Clients, ~held[c],
           held' = [held EXCEPT ![c] = TRUE],
           value # 0, value' = value - 1, UNCHANGED <<minted, forged>>
    PROVE  Tokens'
<1>1. Holders' = Holders \cup {c} /\ c \notin Holders
  BY DEF TypeOK, Holders
<1>2. IsFiniteSet(Holders') /\ Cardinality(Holders) \in Nat
      /\ Cardinality(Holders') = Cardinality(Holders) + 1
  BY <1>1, Counting DEF Tokens
<1> QED BY <1>2, SteamAssumption DEF Tokens, TokensConserved, TypeOK

LEMMA TokensGive ==
    ASSUME TypeOK, Tokens, NEW c \in Clients, Spend(c),
           value' = value + 1, UNCHANGED forged
    PROVE  Tokens'
<1>1. CASE held[c]
  <2>1. Holders' = Holders \ {c} /\ c \in Holders /\ minted' = minted
    BY <1>1 DEF TypeOK, Holders, Spend
  <2>2. IsFiniteSet(Holders') /\ Cardinality(Holders) \in Nat
        /\ Cardinality(Holders') = Cardinality(Holders) - 1
    BY <2>1, Counting DEF Tokens
  <2> QED BY <2>1, <2>2, SteamAssumption DEF Tokens, TokensConserved, TypeOK
<1>2. CASE ~held[c]
  <2>1. Holders' = Holders /\ minted' = minted + 1
    BY <1>2 DEF TypeOK, Holders, Spend
  <2>2. IsFiniteSet(Holders') /\ Cardinality(Holders) \in Nat
        /\ Cardinality(Holders') = Cardinality(Holders)
    BY <2>1, Counting DEF Tokens
  <2>3. value' + Cardinality(Holders) = InitialValue + minted' + forged'
    BY <2>1, <2>2, Balance
  <2> QED BY <2>2, <2>3 DEF Tokens, TokensConserved
<1> QED BY <1>1, <1>2

LEMMA TokensHand ==
    ASSUME TypeOK, Tokens, NEW c \in Clients, NEW d \in Clients, c # d, ~held[d],
           UNCHANGED value,
           \/ /\ held' = [held EXCEPT ![c] = FALSE, ![d] = TRUE]
              /\ minted' = IF held[c] THEN minted ELSE minted + 1
              /\ forged' = forged
           \/ /\ held' = [held EXCEPT ![d] = TRUE]
              /\ minted' = minted /\ forged' = forged + 1
    PROVE  Tokens'
<1>1. IsFiniteSet(Holders) /\ d \notin Holders /\ Cardinality(Holders) \in Nat
  BY Counting DEF Tokens, Holders
<1>2. CASE /\ held[c] /\ held' = [held EXCEPT ![c] = FALSE, ![d] = TRUE]
           /\ minted' = minted /\ forged' = forged
  <2> DEFINE H == Holders \ {c}
  <2>1. Holders' = H \cup {d} /\ c \in Holders /\ d \notin H
    BY <1>2 DEF TypeOK, Holders
  <2>2. IsFiniteSet(H) /\ Cardinality(H) = Cardinality(Holders) - 1
    BY <1>1, <2>1, Counting
  <2> HIDE DEF H
  <2>3. IsFiniteSet(Holders') /\ Cardinality(Holders') = Cardinality(H) + 1
    BY <2>1, <2>2, Counting
  <2> QED BY <1>1, <1>2, <2>2, <2>3, SteamAssumption
          DEF Tokens, TokensConserved, TypeOK
<1>3. CASE /\ Holders' = Holders \cup {d}
           /\ minted' + forged' = minted + forged + 1
           /\ minted' \in Nat /\ forged' \in Nat
  <2>1. IsFiniteSet(Holders') /\ Cardinality(Holders') = Cardinality(Holders) + 1
    BY <1>1, <1>3, Counting
  <2>2. value' + (Cardinality(Holders) + 1) = InitialValue + minted' + forged'
    BY <1>1, <1>3, Balance
  <2> QED BY <2>1, <2>2 DEF Tokens, TokensConserved
<1>4. CASE /\ ~held[c] /\ held' = [held EXCEPT ![c] = FALSE, ![d] = TRUE]
           /\ minted' = minted + 1 /\ forged' = forged
  <2>1. Holders' = Holders \cup {d}
    BY <1>4 DEF TypeOK, Holders
  <2> QED BY <1>3, <1>4, <2>1 DEF TypeOK
<1>5. CASE /\ held' = [held EXCEPT ![d] = TRUE]
           /\ minted' = minted /\ forged' = forged + 1
  <2>1. Holders' = Holders \cup {d}
    BY <1>5 DEF TypeOK, Holders
  <2> QED BY <1>3, <1>5, <2>1 DEF TypeOK
<1> QED BY <1>2, <1>4, <1>5

LEMMA TokensPreserved ==
    ASSUME IInv, Tokens, [Next]_vars
    PROVE  Tokens'
<1>1. CASE UNCHANGED <<value, held, minted, forged>>
  BY <1>1 DEF Tokens, TokensConserved, Holders
<1>2. ASSUME NEW c \in Clients, LocalTryWait(c) PROVE Tokens'
  <2>1. st[c].value = value /\ ~held[c]
    BY <1>2 DEF LocalTryWait, IInv, Safe, Fresh, Unserved
  <2> QED BY <1>1, <1>2, <2>1, TokensTake
          DEF LocalTryWait, LocalWrite, ghosts, IInv
<1>3. ASSUME NEW c \in Clients, LocalPost(c) PROVE Tokens'
  <2>1. st[c].value = value
    BY <1>3 DEF LocalPost, IInv, Safe, Fresh
  <2> QED BY <1>1, <1>3, <2>1, TokensGive DEF LocalPost, LocalWrite, IInv
<1>4. ASSUME NEW c \in Clients, ServeWaitNow(c) PROVE Tokens'
  <2>1. ~held[c]
    BY <1>4 DEF ServeWaitNow, Serving, IInv, Safe, Unserved
  <2> QED BY <1>1, <1>4, <2>1, TokensTake DEF ServeWaitNow, IInv
<1>5. ASSUME NEW c \in Clients, ServePostValue(c) PROVE Tokens'
  BY <1>1, <1>5, TokensGive DEF ServePostValue, IInv
<1>6. ASSUME NEW c \in Clients, ServePostGrant(c) PROVE Tokens'
  <2>1. PICK i \in 1..Len(fifo) :
          \/ /\ held' = [held EXCEPT ![c] = FALSE, ![fifo[i].client] = TRUE]
             /\ minted' = IF held[c] THEN minted ELSE minted + 1
             /\ forged' = forged
          \/ /\ held' = [held EXCEPT ![fifo[i].client] = TRUE]
             /\ minted' = minted /\ forged' = forged + 1
    BY <1>6 DEF ServePostGrant
  <2>2. Waits(fifo[i].client)
    BY Queued
  <2>3. fifo[i].client \in Clients /\ ~held[fifo[i].client] /\ fifo[i].client # c
    BY <1>6, <2>2 DEF Waits, ServePostGrant, Serving
  <2>4. value' = value
    BY <1>6 DEF ServePostGrant
  <2> QED BY <2>1, <2>3, <2>4, TokensHand DEF IInv
<1>7. CASE Broker
  BY <1>1, <1>7 DEF Broker, ExpireOverflow, ArmDeadline, FireDeadline, Expire,
                    file, ghosts
<1>8. ASSUME NEW c \in Clients,
             \/ \E k \in Calls : Begin(c, k)
             \/ LockState(c) \/ LocalWriteFails(c) \/ ConnectFails(c) \/ Receive(c)
             \/ ServeEnqueue(c) \/ ServeLockTimeout(c)
      PROVE  Tokens'
  BY <1>1, <1>8 DEF Begin, LockState, LocalWriteFails, ConnectFails, Receive, ServeEnqueue,
                    ServeLockTimeout, file, ghosts
<1>9. ASSUME NEW p \in Processes, Crash(p) PROVE Tokens'
  BY <1>1, <1>9 DEF Crash, ghosts
<1>10. CASE UNCHANGED vars
  BY <1>1, <1>10 DEF vars, file, ghosts
<1> QED BY <1>2, <1>3, <1>4, <1>5, <1>6, <1>7, <1>8, <1>9, <1>10
        DEF Next, Local, Serve

-----------------------------------------------------------------------------
(* Every variable keeps its type, also when threads share a descriptor.    *)
THEOREM TypeCorrect == Spec => []TypeOK
<1>1. Init => TypeOK
  BY InitIInv DEF IInv
<1> QED BY <1>1, TypePreserved, PTL DEF Spec

(* With one thread per process a client in the broker's FIFO is never      *)
(* stranded, whatever crashes, stalls and failed writes happen: the file   *)
(* has no token for it and sends every sem_post to the broker.             *)
THEOREM WaitersNeverStranded ==
    ASSUME OneThreadPerProcess
    PROVE  Spec => []NoStrandedWaiter
<1>1. IInv /\ [Next]_vars => IInv'
  BY TypePreserved, SafePreserved DEF IInv
<1>2. IInv => NoStrandedWaiter
  BY DEF IInv, Safe
<1> QED BY <1>1, <1>2, InitIInv, PTL DEF Spec

(* With one thread per process the broker's answer to a waiter agrees with *)
(* whether it got a token, in every race of a post, a deadline, a full     *)
(* queue and a failed write.                                               *)
THEOREM AnswersHonest ==
    ASSUME OneThreadPerProcess
    PROVE  Spec => [](ReplyMatchesToken /\ WaitersUnanswered)
<1>1. IInv /\ [Next]_vars => IInv'
  BY TypePreserved, SafePreserved DEF IInv
<1>2. IInv => ReplyMatchesToken /\ WaitersUnanswered
  BY DEF IInv, Safe
<1> QED BY <1>1, <1>2, InitIInv, PTL DEF Spec

(* With one thread per process no token is lost or made up: what is in the *)
(* file and what clients own add up to the initial value and the posts of  *)
(* producers, but for posts that fail after their hand-over.               *)
THEOREM TokensSafe ==
    ASSUME OneThreadPerProcess
    PROVE  Spec => []TokensConserved
<1>1. Init => Tokens
  <2> SUFFICES ASSUME Init PROVE Tokens
    OBVIOUS
  <2>1. Holders = {}
    BY DEF Init, Holders
  <2> QED BY <2>1, FS_EmptySet, SteamAssumption DEF Init, Tokens, TokensConserved
<1>2. IInv /\ Tokens /\ [Next]_vars => IInv' /\ Tokens'
  BY TypePreserved, SafePreserved, TokensPreserved DEF IInv
<1>3. Tokens => TokensConserved
  BY DEF Tokens
<1> QED BY <1>1, <1>2, <1>3, InitIInv, PTL DEF Spec
-----------------------------------------------------------------------------
(* The refinement of NamedSemaphore.  The queue of the abstract semaphore   *)
(* is the FIFO without the clients that were killed: LiveOrder describes    *)
(* it, and the lemmas say that it is unique and how it follows the FIFO.    *)

(* A non-empty set of natural numbers has a least element.                 *)
LEMMA LeastNatural ==
    ASSUME NEW T \in SUBSET Nat, T # {}
    PROVE  \E n \in T : \A m \in T : n <= m
<1> DEFINE I == {0..n : n \in T}
<1>1. \A n \in T : 0..n \in SUBSET Nat /\ IsFiniteSet(0..n)
  BY FS_Interval
<1>2. I \subseteq FiniteSubsetsOf(Nat) /\ I # {}
  BY <1>1 DEF FiniteSubsetsOf
<1>3. PICK x \in I : \A y \in I : ~ (<<y, x>> \in StrictSubsetOrdering(Nat))
  <2> HIDE DEF I
  <2> QED BY <1>2, FS_StrictSubsetOrderingWellFounded, WFMin
<1>4. PICK n \in T : x = 0..n
  OBVIOUS
<1>5. ASSUME NEW m \in T, m < n PROVE FALSE
  <2>1. 0..m \in SUBSET Nat /\ 0..n \in SUBSET Nat /\ 0..m \subseteq 0..n
    BY <1>5
  <2>2. n \in 0..n /\ n \notin 0..m
    BY <1>5
  <2>3. <<0..m, 0..n>> \in StrictSubsetOrdering(Nat)
    BY <2>1, <2>2 DEF StrictSubsetOrdering
  <2> QED BY <1>3, <1>4, <2>3
<1> QED BY <1>5

(* The clients of the requests in f are different.                         *)
Distinct(f) == \A i, j \in 1..Len(f) : f[i].client = f[j].client => i = j

LEMMA LiveOrderInjective ==
    ASSUME NEW s, NEW f, NEW living, Len(s) \in Nat, Len(f) \in Nat, LiveOrder(s, f, living),
           NEW p \in 1..Len(s), NEW q \in 1..Len(s), s[p] = s[q]
    PROVE  p = q
<1>1. PICK i \in 1..Len(f) : f[i].client = s[p]
  BY DEF LiveOrder
<1>2. ~(p < q) /\ ~(q < p)
  BY <1>1 DEF LiveOrder
<1> QED BY <1>2

(* There is one such list: of two, consider the first place where they     *)
(* differ.                                                                 *)
LEMMA LiveOrderUnique ==
    ASSUME NEW s \in Seq(Clients), NEW t \in Seq(Clients), NEW f, NEW living,
           Len(f) \in Nat, LiveOrder(s, f, living), LiveOrder(t, f, living)
    PROVE  s = t
<1>0. Len(s) \in Nat /\ Len(t) \in Nat
  OBVIOUS
<1> DEFINE D == {n \in 1..Len(s) : n \in 1..Len(t) /\ s[n] # t[n]}
<1>1. ASSUME NEW p \in 1..Len(s) PROVE \E m \in 1..Len(t) : t[m] = s[p]
  <2>1. PICK i \in 1..Len(f) : f[i].client = s[p] /\ living[s[p]]
    BY DEF LiveOrder
  <2> QED BY <2>1 DEF LiveOrder
<1>2. ASSUME NEW m \in 1..Len(t) PROVE \E p \in 1..Len(s) : s[p] = t[m]
  <2>1. PICK i \in 1..Len(f) : f[i].client = t[m] /\ living[t[m]]
    BY DEF LiveOrder
  <2> QED BY <2>1 DEF LiveOrder
<1>3. D = {}
  <2> SUFFICES ASSUME D # {} PROVE FALSE
    OBVIOUS
  <2>1. PICK n \in D : \A m \in D : n <= m
    <3>1. D \in SUBSET Nat
      OBVIOUS
    <3> HIDE DEF D
    <3> QED BY <3>1, LeastNatural
  <2>2. n \in 1..Len(s) /\ n \in 1..Len(t) /\ s[n] # t[n]
        /\ \A m \in 1..(n-1) : s[m] = t[m]
    BY <2>1
  <2> HIDE DEF D
  <2>3. PICK m \in 1..Len(t) : t[m] = s[n]
    BY <1>1, <2>2
  <2>4. PICK l \in 1..Len(s) : s[l] = t[n]
    BY <1>2, <2>2
  <2>5. n < m
    <3>1. m # n
      BY <2>2, <2>3
    <3>2. CASE m < n
      <4>1. s[m] = s[n] /\ m \in 1..Len(s)
        BY <2>2, <2>3, <3>2
      <4> QED BY <4>1, <1>0, <2>2, <3>2, LiveOrderInjective
    <3> QED BY <3>1, <3>2, <2>2
  <2>6. n < l
    <3>1. l # n
      BY <2>2, <2>4
    <3>2. CASE l < n
      <4>1. t[l] = t[n] /\ l \in 1..Len(t)
        BY <2>2, <2>4, <3>2
      <4> QED BY <4>1, <1>0, <2>2, <3>2, LiveOrderInjective
    <3> QED BY <3>1, <3>2, <2>2
  <2>7. PICK i \in 1..Len(f) : f[i].client = s[n]
    BY <2>2 DEF LiveOrder
  <2>8. PICK j \in 1..Len(f) : f[j].client = t[n]
    BY <2>2 DEF LiveOrder
  <2>9. i < j
    BY <2>2, <2>4, <2>6, <2>7, <2>8 DEF LiveOrder
  <2>10. j < i
    BY <2>2, <2>3, <2>5, <2>7, <2>8 DEF LiveOrder
  <2> QED BY <2>9, <2>10
<1>4. \A n \in 1..Len(s) : n \in 1..Len(t) => s[n] = t[n]
  BY <1>3
<1>5. ~(Len(s) < Len(t))
  <2> SUFFICES ASSUME Len(s) < Len(t) PROVE FALSE
    OBVIOUS
  <2> DEFINE m == Len(s) + 1
  <2>1. m \in 1..Len(t)
    BY <1>0
  <2>2. PICK p \in 1..Len(s) : s[p] = t[m]
    BY <1>2, <2>1
  <2>3. p \in 1..Len(t) /\ t[p] = t[m] /\ p # m
    BY <1>0, <1>4, <2>2
  <2> QED BY <2>1, <2>3, <1>0, LiveOrderInjective
<1>6. ~(Len(t) < Len(s))
  <2> SUFFICES ASSUME Len(t) < Len(s) PROVE FALSE
    OBVIOUS
  <2> DEFINE m == Len(t) + 1
  <2>1. m \in 1..Len(s)
    BY <1>0
  <2>2. PICK p \in 1..Len(t) : t[p] = s[m]
    BY <1>1, <2>1
  <2>3. p \in 1..Len(s) /\ s[p] = s[m] /\ p # m
    BY <1>0, <1>4, <2>2
  <2> QED BY <2>1, <2>3, <1>0, LiveOrderInjective
<1>7. Len(s) = Len(t)
  BY <1>0, <1>5, <1>6
<1> QED BY <1>4, <1>7, SeqEqual

LEMMA IntervalCounts ==
    ASSUME NEW n \in Nat
    PROVE  IsFiniteSet(1..n) /\ Cardinality(1..n) = n
<1>1. IsFiniteSet(1..n) /\ Cardinality(1..n) = IF 1 > n THEN 0 ELSE n - 1 + 1
  BY FS_Interval
<1> QED BY <1>1

LEMMA LiveOrderShort ==
    ASSUME NEW s, NEW f, NEW living, Len(s) \in Nat, Len(f) \in Nat, LiveOrder(s, f, living)
    PROVE  Len(s) <= Len(f)
<1> DEFINE at == [p \in 1..Len(s) |-> CHOOSE i \in 1..Len(f) : f[i].client = s[p]]
<1>1. \A p \in 1..Len(s) : at[p] \in 1..Len(f) /\ f[at[p]].client = s[p]
  BY DEF LiveOrder
<1>2. at \in Injection(1..Len(s), 1..Len(f))
  <2>1. at \in [1..Len(s) -> 1..Len(f)]
    BY <1>1
  <2>2. ASSUME NEW p \in 1..Len(s), NEW q \in 1..Len(s), at[p] = at[q] PROVE p = q
    <3>1. s[p] = s[q]
      BY <1>1, <2>2
    <3> QED BY <3>1, LiveOrderInjective
  <2> HIDE DEF at
  <2> QED BY <2>1, <2>2 DEF Injection, IsInjective
<1>3. /\ IsFiniteSet(1..Len(f)) /\ Cardinality(1..Len(s)) = Len(s)
      /\ Cardinality(1..Len(f)) = Len(f)
  BY IntervalCounts
<1> HIDE DEF at
<1> QED BY <1>2, <1>3, FS_Injection

(* Picking elements of both lists without changing their order.            *)
Thins(t, s, at) ==
    /\ at \in [1..Len(t) -> 1..Len(s)]
    /\ \A j \in 1..Len(t) : t[j] = s[at[j]]
    /\ \A j, k \in 1..Len(t) : j < k => at[j] < at[k]

LEMMA LiveOrderThinned ==
    ASSUME NEW s, NEW t, NEW f, NEW g, NEW at, NEW bt, NEW living, NEW living2,
           Len(s) \in Nat, Len(t) \in Nat, Len(f) \in Nat, Len(g) \in Nat,
           LiveOrder(s, f, living), Thins(t, s, at), Thins(g, f, bt),
           \A k \in 1..Len(t) : living2[t[k]] /\ \E i \in 1..Len(g) : g[i].client = t[k],
           \A i \in 1..Len(g) : living2[g[i].client] => \E k \in 1..Len(t) : t[k] = g[i].client
    PROVE  LiveOrder(t, g, living2)
<1> SUFFICES ASSUME NEW p \in 1..Len(t), NEW q \in 1..Len(t),
                    NEW i \in 1..Len(g), NEW j \in 1..Len(g),
                    p < q, g[i].client = t[p], g[j].client = t[q]
             PROVE  i < j
  BY DEF LiveOrder
<1>1. PICK a \in 1..Len(s), b \in 1..Len(s) : a < b /\ s[a] = t[p] /\ s[b] = t[q]
  <2>1. at[p] \in 1..Len(s) /\ at[q] \in 1..Len(s) /\ s[at[p]] = t[p] /\ s[at[q]] = t[q]
    BY DEF Thins
  <2>2. at[p] < at[q]
    BY DEF Thins
  <2> QED BY <2>1, <2>2
<1>2. /\ bt[i] \in 1..Len(f) /\ bt[j] \in 1..Len(f)
      /\ f[bt[i]].client = t[p] /\ f[bt[j]].client = t[q]
  BY DEF Thins
<1>3. bt[i] < bt[j]
  <2>1. \A x, y \in 1..Len(f) : f[x].client = s[a] /\ f[y].client = s[b] => x < y
    BY <1>1 DEF LiveOrder
  <2> QED BY <1>1, <1>2, <2>1
<1>4. j < i => bt[j] < bt[i]
  BY DEF Thins
<1>5. i # j
  BY <1>2, <1>3
<1> QED BY <1>2, <1>3, <1>4, <1>5

(* The index maps of the three ways lists are thinned out.                 *)
LEMMA ThinsSelf ==
    ASSUME NEW s, Len(s) \in Nat
    PROVE  Thins(s, s, [j \in 1..Len(s) |-> j])
BY DEF Thins

Around(i, n) == [j \in 1..n |-> IF j < i THEN j ELSE j + 1]
Past(i, n) == [j \in 1..n |-> i + j]

(* t is s without its i-th element, or without its first i elements.        *)
Without(t, s, i) ==
    /\ Len(t) = Len(s) - 1
    /\ \A j \in 1..Len(t) : t[j] = IF j < i THEN s[j] ELSE s[j + 1]

Beyond(t, s, i) ==
    /\ Len(t) = Len(s) - i
    /\ \A j \in 1..Len(t) : t[j] = s[i + j]

LEMMA ThinsAround ==
    ASSUME NEW s, NEW t, Len(s) \in Nat, NEW i \in 1..Len(s), Without(t, s, i)
    PROVE  /\ Thins(t, s, Around(i, Len(t)))
           /\ \A k \in 1..Len(t) : Around(i, Len(t))[k] # i
           /\ \A k \in 1..Len(s) : k # i => \E j \in 1..Len(t) : Around(i, Len(t))[j] = k
<1> DEFINE n == Len(s)
           at == Around(i, n - 1)
<1>0. /\ n \in Nat /\ Len(s) = n /\ i \in 1..n /\ Len(t) = n - 1
      /\ \A j \in 1..(n - 1) : t[j] = IF j < i THEN s[j] ELSE s[j + 1]
      /\ at = [j \in 1..(n - 1) |-> IF j < i THEN j ELSE j + 1]
  BY DEF Around, Without
<1> USE <1>0
<1> HIDE DEF n, at
<1>1. at \in [1..(n - 1) -> 1..n]
  OBVIOUS
<1>2. \A j \in 1..(n - 1) : t[j] = s[at[j]] /\ at[j] # i
  OBVIOUS
<1>3. \A j, k \in 1..(n - 1) : j < k => at[j] < at[k]
  OBVIOUS
<1>4. ASSUME NEW k \in 1..n, k # i PROVE \E j \in 1..(n - 1) : at[j] = k
  <2>1. CASE k < i
    <3>1. k \in 1..(n - 1) /\ at[k] = k
      BY <2>1
    <3> QED BY <3>1
  <2>2. CASE i < k
    <3>1. k - 1 \in 1..(n - 1) /\ at[k - 1] = k
      BY <2>2
    <3> QED BY <3>1
  <2> QED BY <1>4, <2>1, <2>2
<1>5. Thins(t, s, at)
  BY <1>1, <1>2, <1>3 DEF Thins
<1>6. at = Around(i, Len(t))
  BY DEF at
<1> QED BY <1>2, <1>4, <1>5, <1>6

LEMMA ThinsPast ==
    ASSUME NEW s, NEW t, Len(s) \in Nat, NEW i \in 1..Len(s), Beyond(t, s, i)
    PROVE  /\ Thins(t, s, Past(i, Len(t)))
           /\ \A k \in 1..Len(t) : Past(i, Len(t))[k] > i
           /\ \A k \in 1..Len(s) : k > i => \E j \in 1..Len(t) : Past(i, Len(t))[j] = k
<1>1. Len(t) \in Nat /\ Len(t) = Len(s) - i /\ \A j \in 1..Len(t) : t[j] = s[i + j]
  BY DEF Beyond
<1>2. Thins(t, s, Past(i, Len(t)))
  BY <1>1 DEF Thins, Past
<1>3. \A k \in 1..Len(t) : Past(i, Len(t))[k] > i
  BY <1>1 DEF Past
<1>4. ASSUME NEW k \in 1..Len(s), k > i
      PROVE  \E j \in 1..Len(t) : Past(i, Len(t))[j] = k
  <2>1. k - i \in 1..Len(t) /\ Past(i, Len(t))[k - i] = k
    BY <1>1, <1>4 DEF Past
  <2> QED BY <2>1
<1> QED BY <1>2, <1>3, <1>4
-----------------------------------------------------------------------------
(* The list of live clients after each change of the FIFO.                 *)
LEMMA LiveOrderNone ==
    ASSUME NEW s \in Seq(Clients), NEW f, NEW living, Len(f) \in Nat,
           LiveOrder(s, f, living), \A i \in 1..Len(f) : ~living[f[i].client]
    PROVE  s = << >>
<1>1. ~(1 \in 1..Len(s))
  BY DEF LiveOrder
<1> QED BY <1>1

LEMMA LiveOrderEmpty == \A living : LiveOrder(<< >>, << >>, living)
BY DEF LiveOrder

LEMMA LiveOrderAppend ==
    ASSUME NEW s \in Seq(Clients), NEW f \in Seq(Request), NEW living, NEW r \in Request,
           LiveOrder(s, f, living), \A i \in 1..Len(f) : f[i].client # r.client
    PROVE  LiveOrder(IF living[r.client] THEN Append(s, r.client) ELSE s,
                     Append(f, r), living)
<1> DEFINE c == r.client
           g == Append(f, r)
           t == Append(s, c)
<1>1. /\ Len(s) \in Nat /\ Len(f) \in Nat /\ c \in Clients
      /\ Len(g) = Len(f) + 1 /\ g[Len(f) + 1].client = c
      /\ \A i \in 1..Len(f) : g[i] = f[i]
  BY DEF Request
<1>2. /\ Len(t) = Len(s) + 1 /\ t[Len(s) + 1] = c
      /\ \A i \in 1..Len(s) : t[i] = s[i]
  BY <1>1
<1>3. \A i \in 1..Len(f) : f[i].client # c
  OBVIOUS
<1>4. \A p \in 1..Len(s) : s[p] # c
  BY <1>3 DEF LiveOrder
<1> HIDE DEF c, g, t
<1>5. CASE living[c]
  <2>1. ASSUME NEW p \in 1..Len(t)
        PROVE  living[t[p]] /\ \E i \in 1..Len(g) : g[i].client = t[p]
    <3>1. CASE p \in 1..Len(s)
      <4>1. PICK i \in 1..Len(f) : living[s[p]] /\ f[i].client = s[p]
        BY <3>1 DEF LiveOrder
      <4>2. i \in 1..Len(g)
        BY <1>1
      <4> QED BY <3>1, <4>1, <4>2, <1>1, <1>2
    <3>2. CASE p = Len(s) + 1
      <4>1. Len(f) + 1 \in 1..Len(g)
        BY <1>1
      <4> QED BY <1>1, <1>2, <1>5, <3>2, <4>1
    <3> QED BY <1>1, <1>2, <3>1, <3>2
  <2>2. ASSUME NEW i \in 1..Len(g), living[g[i].client]
        PROVE  \E p \in 1..Len(t) : t[p] = g[i].client
    <3>1. CASE i \in 1..Len(f)
      <4>1. PICK p \in 1..Len(s) : s[p] = f[i].client
        BY <3>1, <2>2, <1>1 DEF LiveOrder
      <4>2. p \in 1..Len(t)
        BY <1>1, <1>2
      <4> QED BY <3>1, <4>1, <4>2, <1>1, <1>2
    <3>2. CASE i = Len(f) + 1
      <4>1. Len(s) + 1 \in 1..Len(t)
        BY <1>1, <1>2
      <4> QED BY <1>1, <1>2, <3>2, <4>1
    <3> QED BY <1>1, <3>1, <3>2
  <2>3. ASSUME NEW p \in 1..Len(t), NEW q \in 1..Len(t),
               NEW i \in 1..Len(g), NEW j \in 1..Len(g),
               p < q, g[i].client = t[p], g[j].client = t[q]
        PROVE  i < j
    <3>1. p \in 1..Len(s) /\ t[p] = s[p]
      BY <1>1, <1>2, <2>3
    <3>2. i \in 1..Len(f) /\ g[i] = f[i]
      BY <3>1, <1>1, <1>4, <2>3
    <3>3. CASE j \in 1..Len(f)
      <4>1. q \in 1..Len(s)
        BY <1>1, <1>2, <1>3, <3>3, <2>3
      <4>2. g[j] = f[j] /\ t[q] = s[q]
        BY <1>1, <1>2, <3>3, <4>1
      <4> QED BY <2>3, <3>1, <3>2, <3>3, <4>1, <4>2 DEF LiveOrder
    <3>4. CASE j = Len(f) + 1
      BY <3>2, <3>4, <1>1
    <3> QED BY <1>1, <3>3, <3>4
  <2>4. LiveOrder(t, g, living)
    BY <2>1, <2>2, <2>3 DEF LiveOrder
  <2> QED BY <1>5, <2>4 DEF c, g, t
<1>6. CASE ~living[c]
  <2>1. ASSUME NEW p \in 1..Len(s)
        PROVE  living[s[p]] /\ \E i \in 1..Len(g) : g[i].client = s[p]
    <3>1. PICK i \in 1..Len(f) : living[s[p]] /\ f[i].client = s[p]
      BY DEF LiveOrder
    <3>2. i \in 1..Len(g)
      BY <1>1
    <3> QED BY <3>1, <3>2, <1>1
  <2>2. ASSUME NEW i \in 1..Len(g), living[g[i].client]
        PROVE  i \in 1..Len(f) /\ g[i] = f[i]
    BY <2>2, <1>1, <1>6
  <2>3. ASSUME NEW i \in 1..Len(g), NEW p \in 1..Len(s), g[i].client = s[p]
        PROVE  i \in 1..Len(f) /\ g[i] = f[i]
    BY <2>3, <1>1, <1>4
  <2>4. LiveOrder(s, g, living)
    <3>1. \A i \in 1..Len(g) : living[g[i].client] => \E p \in 1..Len(s) : s[p] = g[i].client
      BY <2>2 DEF LiveOrder
    <3>2. ASSUME NEW p \in 1..Len(s), NEW q \in 1..Len(s),
                 NEW i \in 1..Len(g), NEW j \in 1..Len(g),
                 p < q, g[i].client = s[p], g[j].client = s[q]
          PROVE  i < j
      <4>1. i \in 1..Len(f) /\ g[i] = f[i] /\ j \in 1..Len(f) /\ g[j] = f[j]
        BY <2>3, <3>2
      <4> QED BY <3>2, <4>1 DEF LiveOrder
    <3> QED BY <2>1, <3>1, <3>2 DEF LiveOrder
  <2> QED BY <1>6, <2>4 DEF c, g
<1> QED BY <1>5, <1>6

LEMMA LiveOrderRemove ==
    ASSUME NEW s \in Seq(Clients), NEW f \in Seq(Request), NEW living, NEW i \in 1..Len(f),
           LiveOrder(s, f, living), Distinct(f), NEW g, Without(g, f, i)
    PROVE  /\ ~living[f[i].client] => LiveOrder(s, g, living)
           /\ living[f[i].client] =>
                \E p \in 1..Len(s) :
                  /\ s[p] = f[i].client
                  /\ LiveOrder(SubSeq(s, 1, p - 1) \o SubSeq(s, p + 1, Len(s)), g, living)
<1>1. Len(s) \in Nat /\ Len(f) \in Nat /\ Len(g) \in Nat
  BY DEF Without
<1> DEFINE bt == Around(i, Len(g))
<1>2. /\ Thins(g, f, bt)
      /\ \A k \in 1..Len(g) : bt[k] # i
      /\ \A k \in 1..Len(f) : k # i => \E j \in 1..Len(g) : bt[j] = k
  BY <1>1, ThinsAround
<1> HIDE DEF bt
<1>3. ASSUME NEW d, d # f[i].client, NEW k \in 1..Len(f), f[k].client = d
      PROVE  \E j \in 1..Len(g) : g[j].client = d
  <2>1. PICK j \in 1..Len(g) : bt[j] = k
    BY <1>2, <1>3
  <2> QED BY <1>2, <1>3, <2>1 DEF Thins
<1>4. ASSUME NEW j \in 1..Len(g)
      PROVE  /\ bt[j] \in 1..Len(f) /\ g[j] = f[bt[j]]
             /\ g[j].client # f[i].client
  <2>1. bt[j] \in 1..Len(f) /\ g[j] = f[bt[j]] /\ bt[j] # i
    BY <1>2 DEF Thins
  <2> QED BY <2>1 DEF Distinct
<1>5. CASE ~living[f[i].client]
  <2> DEFINE id == [j \in 1..Len(s) |-> j]
  <2>1. Thins(s, s, id)
    BY <1>1, ThinsSelf
  <2> HIDE DEF id
  <2>2. ASSUME NEW p \in 1..Len(s)
        PROVE  living[s[p]] /\ \E j \in 1..Len(g) : g[j].client = s[p]
    <3>1. PICK k \in 1..Len(f) : living[s[p]] /\ f[k].client = s[p]
      BY DEF LiveOrder
    <3>2. s[p] # f[i].client
      BY <3>1, <1>5
    <3> QED BY <1>3, <3>1, <3>2
  <2>3. ASSUME NEW j \in 1..Len(g), living[g[j].client]
        PROVE  \E p \in 1..Len(s) : s[p] = g[j].client
    <3>1. PICK k \in 1..Len(f) : g[j] = f[k]
      BY <1>4
    <3> QED BY <2>3, <3>1 DEF LiveOrder
  <2>4. LiveOrder(s, g, living)
    BY <1>1, <1>2, <2>1, <2>2, <2>3, LiveOrderThinned
  <2> QED BY <1>5, <2>4
<1>6. CASE living[f[i].client]
  <2>1. PICK p \in 1..Len(s) : s[p] = f[i].client
    BY <1>6 DEF LiveOrder
  <2> DEFINE t == SubSeq(s, 1, p - 1) \o SubSeq(s, p + 1, Len(s))
  <2>2. Without(t, s, p)
    BY RemoveOne DEF Without
  <2> HIDE DEF t
  <2>3. Len(t) \in Nat
    BY <1>1, <2>2 DEF Without
  <2> DEFINE at == Around(p, Len(t))
  <2>4. /\ Thins(t, s, at)
        /\ \A k \in 1..Len(t) : at[k] # p
        /\ \A k \in 1..Len(s) : k # p => \E j \in 1..Len(t) : at[j] = k
    BY <1>1, <2>2, ThinsAround
  <2> HIDE DEF at
  <2>5. ASSUME NEW k \in 1..Len(t)
        PROVE  living[t[k]] /\ \E j \in 1..Len(g) : g[j].client = t[k]
    <3>1. at[k] \in 1..Len(s) /\ at[k] # p /\ t[k] = s[at[k]]
      BY <2>4 DEF Thins
    <3>2. s[at[k]] # s[p]
      BY <1>1, <3>1, LiveOrderInjective
    <3>3. PICK l \in 1..Len(f) : living[s[at[k]]] /\ f[l].client = s[at[k]]
      BY <3>1 DEF LiveOrder
    <3> QED BY <1>3, <2>1, <3>1, <3>2, <3>3
  <2>6. ASSUME NEW j \in 1..Len(g), living[g[j].client]
        PROVE  \E k \in 1..Len(t) : t[k] = g[j].client
    <3>1. PICK q \in 1..Len(s) : s[q] = g[j].client
      <4>1. PICK k \in 1..Len(f) : g[j] = f[k]
        BY <1>4
      <4> QED BY <2>6, <4>1 DEF LiveOrder
    <3>2. q # p
      BY <1>4, <2>1, <3>1
    <3>3. PICK k \in 1..Len(t) : at[k] = q
      BY <2>4, <3>2
    <3> QED BY <2>4, <3>1, <3>3 DEF Thins
  <2>7. LiveOrder(t, g, living)
    BY <1>1, <1>2, <2>3, <2>4, <2>5, <2>6, LiveOrderThinned
  <2> QED BY <1>6, <2>1, <2>7 DEF t
<1> QED BY <1>5, <1>6

LEMMA LiveOrderDie ==
    ASSUME NEW s \in Seq(Clients), NEW f \in Seq(Request), NEW living, NEW after,
           NEW c \in Clients, LiveOrder(s, f, living),
           \A d \in Clients : after[d] <=> living[d] /\ d # c
    PROVE  \/ LiveOrder(s, f, after)
           \/ \E p \in 1..Len(s) :
                /\ s[p] = c
                /\ LiveOrder(SubSeq(s, 1, p - 1) \o SubSeq(s, p + 1, Len(s)), f, after)
<1> DEFINE id == [j \in 1..Len(f) |-> j]
<1>1. Len(s) \in Nat /\ Len(f) \in Nat
  OBVIOUS
<1>2. Thins(f, f, id)
  BY <1>1, ThinsSelf
<1> HIDE DEF id
<1>3. /\ \A p \in 1..Len(s) : s[p] \in Clients
      /\ \A j \in 1..Len(f) : f[j].client \in Clients
  <2>1. \A j \in 1..Len(f) : f[j] \in Request
    OBVIOUS
  <2> QED BY <2>1 DEF Request
<1>4. CASE \A p \in 1..Len(s) : s[p] # c
  <2>1. \A p \in 1..Len(s) : after[s[p]] /\ \E i \in 1..Len(f) : f[i].client = s[p]
    BY <1>3, <1>4 DEF LiveOrder
  <2>2. \A i \in 1..Len(f) : after[f[i].client] => \E p \in 1..Len(s) : s[p] = f[i].client
    BY <1>3 DEF LiveOrder
  <2> QED BY <2>1, <2>2 DEF LiveOrder
<1>5. ASSUME NEW p \in 1..Len(s), s[p] = c
      PROVE  LiveOrder(SubSeq(s, 1, p - 1) \o SubSeq(s, p + 1, Len(s)), f, after)
  <2> DEFINE t == SubSeq(s, 1, p - 1) \o SubSeq(s, p + 1, Len(s))
  <2>2. Without(t, s, p)
    BY RemoveOne DEF Without
  <2> HIDE DEF t
  <2>3. Len(t) \in Nat
    BY <1>1, <2>2 DEF Without
  <2> DEFINE at == Around(p, Len(t))
  <2>4. /\ Thins(t, s, at)
        /\ \A k \in 1..Len(t) : at[k] # p
        /\ \A k \in 1..Len(s) : k # p => \E j \in 1..Len(t) : at[j] = k
    BY <1>1, <2>2, ThinsAround
  <2> HIDE DEF at
  <2>5. ASSUME NEW k \in 1..Len(t)
        PROVE  after[t[k]] /\ \E j \in 1..Len(f) : f[j].client = t[k]
    <3>1. at[k] \in 1..Len(s) /\ at[k] # p /\ t[k] = s[at[k]]
      BY <2>4 DEF Thins
    <3>2. s[at[k]] # s[p]
      BY <1>1, <3>1, LiveOrderInjective
    <3>3. PICK l \in 1..Len(f) : living[s[at[k]]] /\ f[l].client = s[at[k]]
      BY <3>1 DEF LiveOrder
    <3> QED BY <1>3, <1>5, <3>1, <3>2, <3>3
  <2>6. ASSUME NEW j \in 1..Len(f), after[f[j].client]
        PROVE  \E k \in 1..Len(t) : t[k] = f[j].client
    <3>1. living[f[j].client] /\ f[j].client # c
      BY <1>3, <2>6
    <3>2. PICK q \in 1..Len(s) : s[q] = f[j].client
      BY <3>1 DEF LiveOrder
    <3>3. PICK k \in 1..Len(t) : at[k] = q
      BY <1>5, <2>4, <3>1, <3>2
    <3> QED BY <2>4, <3>2, <3>3 DEF Thins
  <2>7. LiveOrder(t, f, after)
    BY <1>1, <1>2, <2>3, <2>4, <2>5, <2>6, LiveOrderThinned
  <2> QED BY <2>7 DEF t
<1> QED BY <1>4, <1>5

LEMMA LiveOrderGrant ==
    ASSUME NEW s \in Seq(Clients), NEW f \in Seq(Request), NEW living, NEW i \in 1..Len(f),
           LiveOrder(s, f, living), Distinct(f), living[f[i].client],
           \A j \in 1..(i - 1) : ~living[f[j].client]
    PROVE  /\ s # << >> /\ Head(s) = f[i].client
           /\ LiveOrder(Tail(s), SubSeq(f, i + 1, Len(f)), living)
<1> DEFINE g == SubSeq(f, i + 1, Len(f))
           t == Tail(s)
<1>1. Len(s) \in Nat /\ Len(f) \in Nat /\ i \in Nat
  OBVIOUS
<1>2. PICK p \in 1..Len(s) : s[p] = f[i].client
  BY DEF LiveOrder
<1>3. p = 1
  <2>1. 1 \in 1..Len(s)
    BY <1>1, <1>2
  <2>2. PICK k \in 1..Len(f) : f[k].client = s[1] /\ living[s[1]]
    BY <2>1 DEF LiveOrder
  <2>3. ~(k \in 1..(i - 1))
    BY <2>2
  <2>4. ~(k < i)
    BY <2>3, <1>1
  <2>5. ~(1 < p)
    BY <2>1, <2>2, <2>4, <1>1, <1>2 DEF LiveOrder
  <2> QED BY <1>1, <2>5
<1>4. s # << >> /\ Head(s) = s[1]
  BY <1>1, <1>2
<1>5. /\ Len(t) = Len(s) - 1 /\ Len(t) \in Nat
      /\ \A j \in 1..Len(t) : t[j] = s[j + 1]
  BY <1>1, <1>2, <1>4
<1>6. Beyond(g, f, i)
  BY DropPrefix DEF Beyond
<1> HIDE DEF g, t
<1> DEFINE bt == Past(i, Len(g))
           at == Around(1, Len(t))
<1>7. /\ Thins(g, f, bt) /\ Len(g) \in Nat
      /\ \A k \in 1..Len(g) : bt[k] > i
      /\ \A k \in 1..Len(f) : k > i => \E j \in 1..Len(g) : bt[j] = k
  <2>1. Len(g) \in Nat
    BY <1>1, <1>6 DEF Beyond
  <2> QED BY <2>1, <1>1, <1>6, ThinsPast
<1>8. /\ Thins(t, s, at)
      /\ \A k \in 1..Len(t) : at[k] # 1
      /\ \A k \in 1..Len(s) : k # 1 => \E j \in 1..Len(t) : at[j] = k
  <2>1. 1 \in 1..Len(s)
    BY <1>1, <1>2
  <2>2. Without(t, s, 1)
    BY <1>5 DEF Without
  <2> QED BY <1>1, <2>1, <2>2, ThinsAround
<1> HIDE DEF at, bt
<1>9. ASSUME NEW k \in 1..Len(t)
      PROVE  living[t[k]] /\ \E j \in 1..Len(g) : g[j].client = t[k]
  <2>1. at[k] \in 1..Len(s) /\ at[k] # 1 /\ t[k] = s[at[k]]
    BY <1>8 DEF Thins
  <2>2. PICK l \in 1..Len(f) : living[s[at[k]]] /\ f[l].client = s[at[k]]
    BY <2>1 DEF LiveOrder
  <2>3. 1 < at[k]
    BY <2>1
  <2>4. i < l
    BY <1>2, <1>3, <2>1, <2>2, <2>3 DEF LiveOrder
  <2>5. l > i
    BY <2>4, <1>1
  <2>6. PICK j \in 1..Len(g) : bt[j] = l
    BY <1>7, <2>5
  <2> QED BY <1>7, <2>1, <2>2, <2>6 DEF Thins
<1>10. ASSUME NEW j \in 1..Len(g), living[g[j].client]
       PROVE  \E k \in 1..Len(t) : t[k] = g[j].client
  <2>1. bt[j] \in 1..Len(f) /\ bt[j] > i /\ g[j] = f[bt[j]]
    BY <1>7 DEF Thins
  <2>2. PICK q \in 1..Len(s) : s[q] = f[bt[j]].client
    BY <1>10, <2>1 DEF LiveOrder
  <2>3. bt[j] # i
    BY <1>1, <2>1
  <2>4. q # 1
    BY <1>2, <1>3, <2>1, <2>2, <2>3 DEF Distinct
  <2>5. PICK k \in 1..Len(t) : at[k] = q
    BY <1>8, <2>4
  <2> QED BY <1>8, <2>1, <2>2, <2>5 DEF Thins
<1>11. LiveOrder(t, g, living)
  BY <1>1, <1>5, <1>6, <1>7, <1>8, <1>9, <1>10, LiveOrderThinned
<1> QED BY <1>2, <1>3, <1>4, <1>11 DEF g, t
-----------------------------------------------------------------------------
(* The abstract queue.                                                     *)
Live(f, living) ==
    CHOOSE s \in UNION {[1..n -> Clients] : n \in 0..Len(f)} : LiveOrder(s, f, living)

LEMMA LiveIs ==
    ASSUME NEW f \in Seq(Request), NEW living, NEW s \in Seq(Clients), LiveOrder(s, f, living)
    PROVE  Live(f, living) = s
<1> DEFINE All == UNION {[1..n -> Clients] : n \in 0..Len(f)}
<1>1. Len(s) \in 0..Len(f)
  BY LiveOrderShort
<1>2. s \in All
  <2>1. s \in [1..Len(s) -> Clients]
    OBVIOUS
  <2> QED BY <1>1, <2>1
<1>3. \A t \in All : t \in Seq(Clients)
  BY IsASeq
<1> HIDE DEF All
<1>4. LET t == CHOOSE t \in All : LiveOrder(t, f, living)
      IN  t \in All /\ LiveOrder(t, f, living)
  BY <1>2
<1>5. Live(f, living) = CHOOSE t \in All : LiveOrder(t, f, living)
  BY DEF Live, All
<1>6. Live(f, living) \in Seq(Clients) /\ LiveOrder(Live(f, living), f, living)
  BY <1>3, <1>4, <1>5
<1> QED BY <1>6, LiveOrderUnique

(* A call of sem_post that is under way was allowed to start.              *)
Posters == \A c \in Clients :
    pc[c] \in {"flock", "locked", "send"} /\ kind[c] = "post" => held[c] \/ c \in Producers

Listed == \E s \in Seq(Clients) : LiveOrder(s, fifo, alive)

RInv == IInv /\ Posters /\ Listed

(* What one step does to the abstract semaphore.                           *)
AbstractStep ==
    \/ Abstract!Next
    \/ UNCHANGED <<value, LiveWaiters, Holders>>
    \/ forged' = forged + 1

LEMMA QueueIs ==
    ASSUME fifo \in Seq(Request), NEW s \in Seq(Clients), LiveOrder(s, fifo, alive)
    PROVE  LiveWaiters = s
BY LiveIs DEF LiveWaiters, Live

LEMMA QueueWillBe ==
    ASSUME fifo' \in Seq(Request), NEW s \in Seq(Clients), LiveOrder(s, fifo', alive')
    PROVE  LiveWaiters' = s /\ Listed'
BY LiveIs DEF LiveWaiters, Live, Listed

LEMMA QueueDistinct == IInv => Distinct(fifo)
BY DEF IInv, Safe, WaitersUnanswered, Distinct

(* Nobody may post a token in the file past a live waiter.                 *)
LEMMA AbstractAcquire ==
    ASSUME IInv, NEW c \in Clients, ~held[c], value # 0, value' = value - 1,
           held' = [held EXCEPT ![c] = TRUE], LiveWaiters' = LiveWaiters
    PROVE  Abstract!Next
<1>1. c \notin Holders /\ Holders' = Holders \cup {c}
  BY DEF Holders, IInv, TypeOK
<1>2. value > 0
  BY DEF IInv, TypeOK
<1>3. Abstract!Acquire(c)
  BY <1>1, <1>2 DEF Abstract!Acquire
<1> QED BY <1>3 DEF Abstract!Next

LEMMA AbstractRelease ==
    ASSUME IInv, NEW c \in Clients, held[c] \/ c \in Producers, value' = value + 1,
           held' = [held EXCEPT ![c] = FALSE], LiveWaiters = << >>, LiveWaiters' = << >>
    PROVE  Abstract!Next
<1>1. Holders' = Holders \ {c} /\ (c \in Holders \/ c \in Producers)
  BY DEF Holders, IInv, TypeOK
<1>2. Abstract!Release(c)
  BY <1>1 DEF Abstract!Release, Abstract!MayPost
<1> QED BY <1>2 DEF Abstract!Next

LEMMA AbstractGiveUp ==
    ASSUME NEW s, LiveWaiters = s, NEW p \in 1..Len(s), s[p] \in Clients,
           LiveWaiters' = SubSeq(s, 1, p - 1) \o SubSeq(s, p + 1, Len(s)),
           UNCHANGED <<value, held>>
    PROVE  Abstract!Next
<1>1. Holders' = Holders
  BY DEF Holders
<1>2. Abstract!GiveUp(s[p])
  BY <1>1 DEF Abstract!GiveUp
<1> QED BY <1>2 DEF Abstract!Next

LEMMA EnqueueImplements ==
    ASSUME RInv, TypeOK', NEW c \in Clients, ServeEnqueue(c)
    PROVE  AbstractStep /\ Listed'
<1>1. PICK s \in Seq(Clients) : LiveOrder(s, fifo, alive)
  BY DEF RInv, Listed
<1>2. fifo \in Seq(Request) /\ fifo' \in Seq(Request)
  BY DEF RInv, IInv, TypeOK
<1>3. LiveWaiters = s
  BY <1>1, <1>2, QueueIs
<1> DEFINE r == [client |-> c, id |-> FreshID]
<1>4. r \in Request /\ r.client = c
  BY DEF Request, ServeEnqueue, FreshID
<1>5. \A i \in 1..Len(fifo) : fifo[i].client # c
  BY Queued DEF Waits, ServeEnqueue, Serving, RInv
<1>6. fifo' = Append(fifo, r) /\ alive' = alive /\ value = 0 /\ value' = value /\ held' = held
  BY DEF ServeEnqueue, Answer
<1> HIDE DEF r
<1>7. LiveOrder(IF alive[c] THEN Append(s, c) ELSE s, fifo', alive')
  BY <1>1, <1>2, <1>4, <1>5, <1>6, LiveOrderAppend
<1>8. Holders' = Holders /\ c \notin Holders
  BY <1>6 DEF Holders, RInv, IInv, Safe, Unserved, ServeEnqueue, Serving
<1>9. CASE alive[c]
  <2>1. Append(s, c) \in Seq(Clients)
    OBVIOUS
  <2>2. LiveWaiters' = Append(s, c) /\ Listed'
    BY <1>2, <1>7, <1>9, <2>1, QueueWillBe
  <2>3. Abstract!Enqueue(c)
    BY <1>3, <1>6, <1>8, <2>2 DEF Abstract!Enqueue
  <2> QED BY <2>2, <2>3 DEF AbstractStep, Abstract!Next
<1>10. CASE ~alive[c]
  <2>1. LiveWaiters' = s /\ Listed'
    BY <1>2, <1>7, <1>10, QueueWillBe
  <2> QED BY <1>3, <1>6, <1>8, <2>1 DEF AbstractStep
<1> QED BY <1>9, <1>10

LEMMA GrantImplements ==
    ASSUME RInv, TypeOK', NEW c \in Clients, ServePostGrant(c)
    PROVE  AbstractStep /\ Listed'
<1>1. PICK s \in Seq(Clients) : LiveOrder(s, fifo, alive)
  BY DEF RInv, Listed
<1>2. fifo \in Seq(Request) /\ fifo' \in Seq(Request)
  BY DEF RInv, IInv, TypeOK
<1>3. LiveWaiters = s
  BY <1>1, <1>2, QueueIs
<1>4. PICK i \in 1..Len(fifo) :
        /\ alive[fifo[i].client] /\ \A j \in 1..(i - 1) : ~alive[fifo[j].client]
        /\ fifo' = SubSeq(fifo, i + 1, Len(fifo))
        /\ \/ held' = [held EXCEPT ![c] = FALSE, ![fifo[i].client] = TRUE]
           \/ forged' = forged + 1
  BY DEF ServePostGrant, FirstLive
<1> DEFINE d == fifo[i].client
<1>5. s # << >> /\ Head(s) = d /\ LiveOrder(Tail(s), fifo', alive)
  BY <1>1, <1>2, <1>4, QueueDistinct, LiveOrderGrant DEF RInv
<1>6. Tail(s) \in Seq(Clients)
  BY <1>5
<1>7. alive' = alive /\ value' = value
  BY DEF ServePostGrant
<1>8. LiveWaiters' = Tail(s) /\ Listed'
  BY <1>2, <1>5, <1>6, <1>7, QueueWillBe
<1>9. CASE held' = [held EXCEPT ![c] = FALSE, ![d] = TRUE]
  <2>1. d \in Clients /\ d # c
    BY Queued DEF Waits, ServePostGrant, Serving, RInv
  <2>2. Holders' = (Holders \ {c}) \cup {d}
    BY <1>9, <2>1 DEF Holders, RInv, IInv, TypeOK
  <2>3. c \in Holders \/ c \in Producers
    BY DEF RInv, Posters, ServePostGrant, Serving, Holders
  <2>4. Abstract!HandOff(c)
    BY <1>3, <1>5, <1>7, <1>8, <2>2, <2>3 DEF Abstract!HandOff, Abstract!MayPost
  <2> QED BY <1>8, <2>4 DEF AbstractStep, Abstract!Next
<1>10. CASE forged' = forged + 1
  BY <1>8, <1>10 DEF AbstractStep
<1> QED BY <1>4, <1>9, <1>10

LEMMA PostValueImplements ==
    ASSUME RInv, TypeOK', NEW c \in Clients, ServePostValue(c)
    PROVE  AbstractStep /\ Listed'
<1>1. PICK s \in Seq(Clients) : LiveOrder(s, fifo, alive)
  BY DEF RInv, Listed
<1>2. fifo \in Seq(Request) /\ fifo' \in Seq(Request) /\ Len(fifo) \in Nat
  BY DEF RInv, IInv, TypeOK
<1>3. s = << >>
  BY <1>1, <1>2, LiveOrderNone DEF ServePostValue
<1>4. LiveWaiters = << >>
  BY <1>1, <1>2, <1>3, QueueIs
<1>5. LiveWaiters' = << >> /\ Listed'
  BY <1>2, <1>3, LiveOrderEmpty, QueueWillBe DEF ServePostValue
<1>6. CASE value' = value + 1 /\ Spend(c)
  <2>1. held[c] \/ c \in Producers
    BY DEF RInv, Posters, ServePostValue, Serving
  <2> QED BY <1>4, <1>5, <1>6, <2>1, AbstractRelease DEF AbstractStep, Spend, RInv
<1>7. CASE UNCHANGED <<value, held>>
  BY <1>4, <1>5, <1>7 DEF AbstractStep, Holders
<1> QED BY <1>6, <1>7 DEF ServePostValue

LEMMA ExpireImplements ==
    ASSUME RInv, TypeOK', NEW r \in Request, Expire(r), UNCHANGED <<client, held>>
    PROVE  AbstractStep /\ Listed'
<1>1. PICK s \in Seq(Clients) : LiveOrder(s, fifo, alive)
  BY DEF RInv, Listed
<1>2. fifo \in Seq(Request) /\ fifo' \in Seq(Request)
  BY DEF RInv, IInv, TypeOK
<1>3. LiveWaiters = s
  BY <1>1, <1>2, QueueIs
<1>4. alive' = alive /\ value' = value /\ held' = held /\ Holders' = Holders
  BY DEF client, Expire, Holders
<1>5. CASE fifo' = fifo
  BY <1>1, <1>2, <1>3, <1>4, <1>5, QueueWillBe DEF AbstractStep
<1>6. ASSUME NEW i \in 1..Len(fifo),
             fifo' = SubSeq(fifo, 1, i - 1) \o SubSeq(fifo, i + 1, Len(fifo))
      PROVE  AbstractStep /\ Listed'
  <2> DEFINE g == SubSeq(fifo, 1, i - 1) \o SubSeq(fifo, i + 1, Len(fifo))
  <2>1. Without(g, fifo, i)
    BY <1>2, RemoveOne DEF Without
  <2>2. fifo' = g
    BY <1>6
  <2> HIDE DEF g
  <2>3. Distinct(fifo)
    BY QueueDistinct DEF RInv
  <2>4. CASE ~alive[fifo[i].client]
    <3>1. LiveOrder(s, fifo', alive')
      BY <1>1, <1>2, <1>4, <2>1, <2>2, <2>3, <2>4, LiveOrderRemove
    <3> QED BY <1>2, <1>3, <1>4, <3>1, QueueWillBe DEF AbstractStep
  <2>5. CASE alive[fifo[i].client]
    <3>1. PICK p \in 1..Len(s) :
            LiveOrder(SubSeq(s, 1, p - 1) \o SubSeq(s, p + 1, Len(s)), fifo', alive')
      BY <1>1, <1>2, <1>4, <2>1, <2>2, <2>3, <2>5, LiveOrderRemove
    <3>2. SubSeq(s, 1, p - 1) \o SubSeq(s, p + 1, Len(s)) \in Seq(Clients)
      BY RemoveOne
    <3>3. /\ LiveWaiters' = SubSeq(s, 1, p - 1) \o SubSeq(s, p + 1, Len(s))
          /\ Listed'
      BY <1>2, <3>1, <3>2, QueueWillBe
    <3>4. s[p] \in Clients
      OBVIOUS
    <3> QED BY <1>3, <1>4, <3>3, <3>4, AbstractGiveUp DEF AbstractStep
  <2> QED BY <2>4, <2>5
<1> QED BY <1>5, <1>6 DEF Expire

LEMMA CrashImplements ==
    ASSUME OneThreadPerProcess, RInv, TypeOK', NEW x \in Processes, Crash(x)
    PROVE  AbstractStep /\ Listed'
<1>1. PICK s \in Seq(Clients) : LiveOrder(s, fifo, alive)
  BY DEF RInv, Listed
<1>2. fifo \in Seq(Request) /\ fifo' = fifo
  BY DEF RInv, IInv, TypeOK, Crash
<1>3. LiveWaiters = s
  BY <1>1, <1>2, QueueIs
<1>4. PICK c \in Clients : ProcessOf[c] = x
  BY DEF Processes
<1>5. \A d \in Clients : ProcessOf[d] = x <=> d = c
  BY <1>4 DEF OneThreadPerProcess
<1>6. \A d \in Clients : alive'[d] <=> alive[d] /\ d # c
  BY <1>5 DEF Crash
<1>7. UNCHANGED <<value, held>> /\ Holders' = Holders
  BY DEF Crash, Holders
<1>8. \/ LiveOrder(s, fifo', alive')
      \/ \E p \in 1..Len(s) :
           LiveOrder(SubSeq(s, 1, p - 1) \o SubSeq(s, p + 1, Len(s)), fifo', alive')
  BY <1>1, <1>2, <1>6, LiveOrderDie
<1>9. CASE LiveOrder(s, fifo', alive')
  BY <1>2, <1>3, <1>7, <1>9, QueueWillBe DEF AbstractStep
<1>10. ASSUME NEW p \in 1..Len(s),
              LiveOrder(SubSeq(s, 1, p - 1) \o SubSeq(s, p + 1, Len(s)), fifo', alive')
       PROVE  AbstractStep /\ Listed'
  <2>2. SubSeq(s, 1, p - 1) \o SubSeq(s, p + 1, Len(s)) \in Seq(Clients)
    BY RemoveOne
  <2>3. /\ LiveWaiters' = SubSeq(s, 1, p - 1) \o SubSeq(s, p + 1, Len(s))
        /\ Listed'
    BY <1>2, <1>10, <2>2, QueueWillBe
  <2>4. s[p] \in Clients
    OBVIOUS
  <2> QED BY <1>3, <1>7, <2>3, <2>4, AbstractGiveUp DEF AbstractStep
<1> QED BY <1>8, <1>9, <1>10

LEMMA KeptImplements ==
    ASSUME RInv, TypeOK', UNCHANGED <<fifo, alive>>
    PROVE  Listed' /\ LiveWaiters' = LiveWaiters
<1>1. PICK s \in Seq(Clients) : LiveOrder(s, fifo, alive)
  BY DEF RInv, Listed
<1>2. fifo \in Seq(Request) /\ fifo' \in Seq(Request)
  BY DEF RInv, IInv, TypeOK
<1> QED BY <1>1, <1>2, QueueIs, QueueWillBe

LEMMA LocalImplements ==
    ASSUME RInv, TypeOK', NEW c \in Clients,
           \/ \E k \in Calls : Begin(c, k)
           \/ LockState(c) \/ Local(c) \/ LocalWriteFails(c)
           \/ ConnectFails(c) \/ Receive(c)
    PROVE  AbstractStep /\ Listed'
<1>1. fifo' = fifo /\ alive' = alive
  BY DEF Begin, LockState, Local, LocalTryWait, LocalPost, LocalWriteFails, ConnectFails,
         Receive
<1>2. Listed' /\ LiveWaiters' = LiveWaiters
  BY <1>1, KeptImplements
<1>3. CASE UNCHANGED <<value, held>>
  BY <1>2, <1>3 DEF AbstractStep, Holders
<1>4. CASE LocalTryWait(c)
  <2>1. st[c].value = value /\ ~held[c]
    BY <1>4 DEF LocalTryWait, RInv, IInv, Safe, Fresh, Unserved
  <2> QED BY <1>2, <1>3, <1>4, <2>1, AbstractAcquire
          DEF LocalTryWait, LocalWrite, AbstractStep, RInv
<1>5. CASE LocalPost(c)
  <2>1. st[c].value = value /\ st[c].waiterCount = waiterCount /\ (held[c] \/ c \in Producers)
    BY <1>5 DEF LocalPost, RInv, IInv, Safe, Fresh, Posters
  <2>2. CASE waiterCount = 0 /\ value' = value + 1 /\ Spend(c)
    <3>1. Len(fifo) = 0
      BY <2>2 DEF RInv, IInv, Safe, NoStrandedWaiter, TypeOK
    <3>2. PICK s \in Seq(Clients) : LiveOrder(s, fifo, alive)
      BY DEF RInv, Listed
    <3>3. s = << >>
      BY <3>1, <3>2, LiveOrderNone
    <3>4. LiveWaiters = << >>
      BY <3>2, <3>3, QueueIs DEF RInv, IInv, TypeOK
    <3> QED BY <1>2, <2>1, <2>2, <3>4, AbstractRelease DEF AbstractStep, Spend, RInv
  <2> QED BY <1>3, <1>5, <2>1, <2>2 DEF LocalPost, LocalWrite
<1>6. CASE ~LocalTryWait(c) /\ ~LocalPost(c)
  BY <1>3, <1>6 DEF Begin, LockState, Local, LocalWriteFails, ConnectFails, Receive, file
<1> QED BY <1>4, <1>5, <1>6

LEMMA ServeImplements ==
    ASSUME RInv, TypeOK', NEW c \in Clients, ServeWaitNow(c) \/ ServeLockTimeout(c)
    PROVE  AbstractStep /\ Listed'
<1>1. fifo' = fifo /\ alive' = alive
  BY DEF ServeWaitNow, ServeLockTimeout, Answer
<1>2. Listed' /\ LiveWaiters' = LiveWaiters
  BY <1>1, KeptImplements
<1>3. CASE UNCHANGED <<value, held>>
  BY <1>2, <1>3 DEF AbstractStep, Holders
<1>4. CASE /\ ServeWaitNow(c) /\ value # 0 /\ value' = value - 1
           /\ held' = [held EXCEPT ![c] = TRUE]
  <2>1. ~held[c]
    BY <1>4 DEF ServeWaitNow, Serving, RInv, IInv, Safe, Unserved
  <2> QED BY <1>2, <1>4, <2>1, AbstractAcquire DEF AbstractStep, RInv
<1> QED BY <1>3, <1>4 DEF ServeWaitNow, ServeLockTimeout, file

(* Every step of the protocol is a step of the semaphore, a stutter or a   *)
(* hand-over whose store failed.                                           *)
LEMMA StepImplements ==
    ASSUME OneThreadPerProcess, RInv, TypeOK', [Next]_vars
    PROVE  AbstractStep /\ Listed'
<1>1. CASE UNCHANGED vars
  <2>1. fifo' = fifo /\ alive' = alive /\ value' = value /\ held' = held
    BY <1>1 DEF vars, file, client
  <2> QED BY <2>1, KeptImplements DEF AbstractStep, Holders
<1>2. CASE Broker
  <2>1. CASE ExpireOverflow
    <3>1. overflow \in Request
      BY <2>1 DEF ExpireOverflow, RInv, IInv, TypeOK
    <3> QED BY <2>1, <3>1, ExpireImplements DEF ExpireOverflow
  <2>2. CASE ArmDeadline
    <3>1. fifo' = fifo /\ alive' = alive /\ value' = value /\ held' = held
      BY <2>2 DEF ArmDeadline, file, client
    <3> QED BY <3>1, KeptImplements DEF AbstractStep, Holders
  <2>3. CASE FireDeadline
    <3>1. armed \in Request
      BY <2>3 DEF FireDeadline, RInv, IInv, TypeOK
    <3> QED BY <2>3, <3>1, ExpireImplements DEF FireDeadline
  <2> QED BY <1>2, <2>1, <2>2, <2>3 DEF Broker
<1>3. ASSUME NEW c \in Clients, Serve(c) \/ ServeLockTimeout(c)
      PROVE  AbstractStep /\ Listed'
  BY <1>3, ServeImplements, EnqueueImplements, GrantImplements, PostValueImplements DEF Serve
<1> QED BY <1>1, <1>2, <1>3, LocalImplements, CrashImplements DEF Next

LEMMA PostersPreserved ==
    ASSUME RInv, [Next]_vars
    PROVE  Posters'
<1> SUFFICES ASSUME NEW e \in Clients, pc'[e] \in {"flock", "locked", "send"},
                    kind'[e] = "post"
             PROVE  held'[e] \/ e \in Producers
  BY DEF Posters
<1>1. CASE UNCHANGED <<pc, kind, held>>
  BY <1>1 DEF RInv, Posters
<1>2. ASSUME NEW c \in Clients,
             \/ \E k \in Calls : Begin(c, k)
             \/ LockState(c) \/ Local(c) \/ LocalWriteFails(c)
             \/ ConnectFails(c) \/ Receive(c)
      PROVE  held'[e] \/ e \in Producers
  <2>1. CASE e # c
    <3>1. pc'[e] = pc[e] /\ kind'[e] = kind[e] /\ held'[e] = held[e]
      BY <1>2, <2>1 DEF Begin, LockState, Local, LocalTryWait, LocalPost, LocalWriteFails,
           ConnectFails, Receive, UnlockState, Spend, RInv, IInv, TypeOK
    <3> QED BY <3>1 DEF RInv, Posters
  <2>2. CASE e = c /\ \E k \in Calls : Begin(c, k)
    BY <2>2 DEF Begin, MayPost, RInv, IInv, TypeOK
  <2>3. CASE e = c /\ LockState(c)
    BY <2>3 DEF LockState, RInv, IInv, TypeOK, Posters
  <2>4. CASE e = c /\ LocalPost(c)
    BY <2>4 DEF LocalPost, UnlockState, RInv, IInv, TypeOK, Posters
  <2>5. CASE e = c /\ LocalTryWait(c)
    BY <2>5 DEF LocalTryWait, UnlockState, RInv, IInv, TypeOK
  <2>6. CASE e = c /\ (LocalWriteFails(c) \/ ConnectFails(c) \/ Receive(c))
    BY <2>6 DEF LocalWriteFails, ConnectFails, Receive, UnlockState, RInv, IInv, TypeOK
  <2> QED BY <1>2, <2>1, <2>2, <2>3, <2>4, <2>5, <2>6 DEF Local
<1>3. ASSUME NEW c \in Clients, Serve(c) \/ ServeLockTimeout(c)
      PROVE  held'[e] \/ e \in Producers
  <2>1. /\ pc' = [pc EXCEPT ![c] = "blocked"] /\ kind' = kind
        /\ \A d \in Clients : d # c /\ held[d] => held'[d]
    <3>1. CASE ServePostGrant(c)
      BY <3>1 DEF ServePostGrant, RInv, IInv, TypeOK
    <3>2. CASE ~ServePostGrant(c)
      BY <1>3, <3>2 DEF Serve, ServeLockTimeout, ServeWaitNow, ServeEnqueue, ServePostValue,
                        Answer, Spend, RInv, IInv, TypeOK
    <3> QED BY <3>1, <3>2
  <2>2. e # c /\ pc'[e] = pc[e]
    BY <2>1 DEF RInv, IInv, TypeOK
  <2> QED BY <2>1, <2>2 DEF RInv, Posters
<1>4. CASE Broker
  BY <1>1, <1>4 DEF Broker, ExpireOverflow, ArmDeadline, FireDeadline, client
<1>5. ASSUME NEW x \in Processes, Crash(x) PROVE held'[e] \/ e \in Producers
  <2>1. pc'[e] = pc[e] /\ kind' = kind /\ held' = held
    BY <1>5 DEF Crash, RInv, IInv, TypeOK
  <2> QED BY <2>1 DEF RInv, Posters
<1>6. CASE UNCHANGED vars
  BY <1>1, <1>6 DEF vars, client
<1> QED BY <1>2, <1>3, <1>4, <1>5, <1>6 DEF Next

LEMMA InitRInv == Init => RInv /\ Abstract!Init
<1> SUFFICES ASSUME Init PROVE RInv /\ Abstract!Init
  OBVIOUS
<1>1. IInv
  BY InitIInv
<1>2. << >> \in Seq(Clients) /\ LiveOrder(<< >>, fifo, alive)
  BY LiveOrderEmpty DEF Init
<1>3. LiveWaiters = << >>
  BY <1>1, <1>2, QueueIs DEF IInv, TypeOK
<1>4. Holders = {} /\ value = InitialValue
  BY DEF Init, Holders
<1>5. Posters
  BY DEF Init, Posters
<1> QED BY <1>1, <1>2, <1>3, <1>4, <1>5 DEF RInv, Listed, Abstract!Init

(* With one thread per process every behaviour in which no hand-over fails *)
(* half-way (a grant whose store of the count fails) is a behaviour of a   *)
(* FIFO counting semaphore, with crashes, stalls, expiries and all other   *)
(* failed writes: each local or brokered call takes effect in one step.    *)
THEOREM ImplementsUnlessForged ==
    ASSUME OneThreadPerProcess
    PROVE  Spec /\ [](forged = 0) => ImplementsSemaphore
<1>1. Init => RInv /\ Abstract!Init
  BY InitRInv
<1>2. RInv /\ [Next]_vars => RInv' /\ AbstractStep
  <2> SUFFICES ASSUME RInv, [Next]_vars PROVE RInv' /\ AbstractStep
    OBVIOUS
  <2>1. IInv'
    BY TypePreserved, SafePreserved DEF RInv, IInv
  <2>2. TypeOK'
    BY <2>1 DEF IInv
  <2> QED BY <2>1, <2>2, StepImplements, PostersPreserved DEF RInv
<1>3. AbstractStep /\ forged = 0 /\ (forged = 0)' => [Abstract!Next]_(Abstract!absVars)
  BY DEF AbstractStep, Abstract!absVars
<1> QED BY <1>1, <1>2, <1>3, PTL DEF Spec, ImplementsSemaphore, Abstract!Spec

(* Where writes do not fail there is no such hand-over.                    *)
THEOREM ImplementsWithoutFaults ==
    ASSUME OneThreadPerProcess, MaxFaults = 0
    PROVE  Spec => ImplementsSemaphore
<1> DEFINE NoFault == faults \in Nat /\ forged = 0 
<1>1. Init => NoFault
  BY DEF Init
<1>2. TypeOK /\ NoFault /\ [Next]_vars => NoFault'
  <2> SUFFICES ASSUME TypeOK, NoFault, [Next]_vars PROVE NoFault'
    OBVIOUS
  <2>1. ~Fault
    BY DEF Fault
  <2>2. TypeOK'
    BY TypePreserved
  <2>3. forged' = forged
    BY <2>1 DEF Next, vars, ghosts, Begin, LockState, Local, LocalTryWait, LocalPost,
       LocalWriteFails, ConnectFails, Receive, Serve, ServeWaitNow, ServeEnqueue,
       ServePostGrant, ServePostValue, ServeLockTimeout, Broker, ExpireOverflow, ArmDeadline,
       FireDeadline, Crash
  <2> QED BY <2>2, <2>3 DEF TypeOK
<1>3. NoFault => forged = 0
  OBVIOUS
<1> HIDE DEF NoFault
<1> QED BY <1>1, <1>2, <1>3, TypeCorrect, ImplementsUnlessForged, PTL DEF Spec
=============================================================================
