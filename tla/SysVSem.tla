------------------------------- MODULE SysVSem -------------------------------
(***************************************************************************)
(* libmachook/Compatibility/MacWSSysVSemaphore.c: System V semaphore sets  *)
(* of one element, kept in one flock-protected state file per semid, with  *)
(* EVFILT_VNODE wakeups for blocked semop calls.                           *)
(*                                                                         *)
(* The module follows one semid, hence one path; Keys are the keys that    *)
(* MacWSSysVSemaphoreIDForKey maps to it.  A vnode is one incarnation of   *)
(* the file: IPC_RMID unlinks the path while other processes may still     *)
(* hold, lock or wait on the old vnode.                                    *)
(***************************************************************************)
EXTENDS Integers, Sequences, FiniteSets

CONSTANTS
    Procs,       \* processes loaded with libmachook
    Keys,        \* keys whose semid is the modelled one
    OpLists,     \* operation lists passed to semop
    Commands,    \* semctl commands issued
    SetVals,     \* arguments of SETVAL / SETALL
    MaxVnode,    \* bound: incarnations of the state file
    MaxValue,    \* INT32_MAX
    MaxFaults,   \* bound: failed kqueue() and pwrite() calls
    MayCrash,    \* whether a process may be killed
    NoProc, NoKey

ASSUME SysVAssumption ==
    /\ MaxVnode \in Nat
    /\ MaxValue \in Nat
    /\ MaxFaults \in Nat
    /\ MayCrash \in BOOLEAN
    /\ SetVals \subseteq Int
    /\ OpLists \subseteq Seq([num : Nat, op : Int, nowait : BOOLEAN])
    /\ NoProc \notin Procs
    /\ NoKey \notin Keys

Vnodes == 1..MaxVnode
NoVnode == 0

(* MacWSSysVSemaphoreState.  valid stands for magic, version and semid,    *)
(* which are always written together; mode and lastPID are left out.       *)
State == [valid : BOOLEAN, key : Keys \cup {NoKey}, value : Int,
          negativeWaiters : Nat, zeroWaiters : Nat]

(* `MacWSSysVSemaphoreState state = {0}`, and what an empty file holds.    *)
ZeroState == [valid |-> FALSE, key |-> NoKey, value |-> 0,
              negativeWaiters |-> 0, zeroWaiters |-> 0]

VARIABLES
    path,      \* the vnode the path names, or NoVnode
    lastVnode, \* vnodes created so far
    written,   \* vnode -> st_size # 0
    rec,       \* vnode -> the record in the file
    lock,      \* vnode -> holder of the flock
    pc,        \* process -> where it is in its current call
    call,      \* process -> the current call
    fd,        \* process -> the vnode its descriptor refers to
    ops,       \* process -> operations the current semop has left
    st,        \* process -> its private copy of the record
    woken,     \* process -> its kqueue has an event pending
    knows,     \* process -> a semget of it has returned the semid
    ret,       \* process -> the result of its last call, while it is in none
    ledger,    \* ghost: vnode -> value the completed updates add up to
    leaked,    \* ghost: vnode -> waiters that left without being uncounted
    faults     \* failed kqueue() and pwrite() calls so far

files == <<path, lastVnode, written, rec, lock>>
ghosts == <<ledger, leaked, faults>>
vars == <<files, pc, call, fd, ops, st, woken, knows, ret, ghosts>>

PCs == {"idle", "flock", "run", "wait", "unlink", "dead"}
Call == [name : {"none", "semget", "semctl", "semop"},
         key : Keys \cup {NoKey}, cmd : Commands \cup {"none"}, val : Int]
NoCall == [name |-> "none", key |-> NoKey, cmd |-> "none", val |-> 0]
Results == {"none", "ok", "EINVAL", "ENOSPC", "EEXIST", "ENOENT", "ERANGE",
            "EFBIG", "EAGAIN", "EIDRM", "EMFILE", "EIO"}
OpSeq == Seq([num : Nat, op : Int, nowait : BOOLEAN])

(* One type invariant for the module: the kernel's state, the calls in    *)
(* progress, the bookkeeping.                                              *)
KernelType ==
    /\ path \in 0..MaxVnode
    /\ lastVnode \in 0..MaxVnode
    /\ written \in [Vnodes -> BOOLEAN]
    /\ rec \in [Vnodes -> State]
    /\ lock \in [Vnodes -> Procs \cup {NoProc}]
    /\ woken \in [Procs -> BOOLEAN]
CallType ==
    /\ pc \in [Procs -> PCs]
    /\ call \in [Procs -> Call]
    /\ fd \in [Procs -> 0..MaxVnode]
    /\ ops \in [Procs -> OpSeq]
    /\ st \in [Procs -> State]
    /\ ret \in [Procs -> Results]
BookType ==
    /\ knows \in [Procs -> BOOLEAN]
    /\ ledger \in [Vnodes -> Int]
    /\ leaked \in [Vnodes -> Nat]
    /\ faults \in 0..MaxFaults
TypeOK == KernelType /\ CallType /\ BookType

Init ==
    /\ path = NoVnode
    /\ lastVnode = 0
    /\ written = [v \in Vnodes |-> FALSE]
    /\ rec = [v \in Vnodes |-> ZeroState]
    /\ lock = [v \in Vnodes |-> NoProc]
    /\ pc = [p \in Procs |-> "idle"]
    /\ call = [p \in Procs |-> NoCall]
    /\ fd = [p \in Procs |-> NoVnode]
    /\ ops = [p \in Procs |-> << >>]
    /\ st = [p \in Procs |-> ZeroState]
    /\ woken = [p \in Procs |-> FALSE]
    /\ knows = [p \in Procs |-> FALSE]
    /\ ret = [p \in Procs |-> "none"]
    /\ ledger = [v \in Vnodes |-> 0]
    /\ leaked = [v \in Vnodes |-> 0]
    /\ faults = 0
-----------------------------------------------------------------------------
(* open(2), the first half of OpenState: the path is resolved, or the call *)
(* fails at once.  flock is a step of its own, so another process may lock,*)
(* write or unlink the file in between.                                    *)
Opened(p, v, c, s) ==
    /\ pc' = [pc EXCEPT ![p] = "flock"]
    /\ fd' = [fd EXCEPT ![p] = v]
    /\ call' = [call EXCEPT ![p] = c]
    /\ ops' = [ops EXCEPT ![p] = s]
    /\ st' = [st EXCEPT ![p] = ZeroState]
    /\ ret' = [ret EXCEPT ![p] = "none"]
    /\ UNCHANGED <<written, rec, lock, woken, knows, ghosts>>

FailsAtOnce(p, error) ==
    /\ ret' = [ret EXCEPT ![p] = error]
    /\ UNCHANGED <<files, pc, call, fd, ops, st, woken, knows, ghosts>>

SemgetCall(key) == [name |-> "semget", key |-> key, cmd |-> "none", val |-> 0]
SemctlCall(cmd, val) ==
    [NoCall EXCEPT !.name = "semctl", !.cmd = cmd, !.val = val]
SemopCall == [NoCall EXCEPT !.name = "semop"]

SemgetOpen(p, key, count, creat, excl) ==
    /\ pc[p] = "idle"
    /\ \/ count > 1 /\ FailsAtOnce(p, "ENOSPC")
       \/ count < 0 /\ FailsAtOnce(p, "EINVAL")
       \/ /\ count \in {0, 1}
          /\ \/ path # NoVnode /\ creat /\ excl /\ FailsAtOnce(p, "EEXIST")
             \/ path = NoVnode /\ ~creat /\ FailsAtOnce(p, "ENOENT")
             \/ /\ path # NoVnode /\ ~(creat /\ excl)
                /\ Opened(p, path, SemgetCall(key), << >>)
                /\ UNCHANGED <<path, lastVnode>>
             \/ /\ path = NoVnode /\ creat /\ lastVnode < MaxVnode
                /\ lastVnode' = lastVnode + 1
                /\ path' = lastVnode + 1
                /\ Opened(p, lastVnode + 1, SemgetCall(key), << >>)

SemctlOpen(p, number, cmd, val) ==
    /\ pc[p] = "idle" /\ knows[p]
    /\ \/ number # 0 /\ FailsAtOnce(p, "EINVAL")
       \/ number = 0 /\ path = NoVnode /\ FailsAtOnce(p, "ENOENT")
       \/ /\ number = 0 /\ path # NoVnode
          /\ Opened(p, path, SemctlCall(cmd, val), << >>)
          /\ UNCHANGED <<path, lastVnode>>

SemopOpen(p, list) ==
    /\ pc[p] = "idle" /\ knows[p]
    /\ \/ list = << >> /\ FailsAtOnce(p, "EINVAL")
       \/ list # << >> /\ path = NoVnode /\ FailsAtOnce(p, "ENOENT")
       \/ /\ list # << >> /\ path # NoVnode
          /\ Opened(p, path, SemopCall, list)
          /\ UNCHANGED <<path, lastVnode>>
-----------------------------------------------------------------------------
(* Mutant: NOTE_WRITE is missing from the registered events.               *)
WriteStateQuiet(v, s) ==
    /\ rec' = [rec EXCEPT ![v] = s]
    /\ written' = [written EXCEPT ![v] = TRUE]
    /\ UNCHANGED woken

(* WriteState: the whole record is replaced, and every process registered  *)
(* on the vnode has an event to read.                                      *)
WriteState(v, s) ==
    /\ rec' = [rec EXCEPT ![v] = s]
    /\ written' = [written EXCEPT ![v] = TRUE]
    /\ woken' = [q \in Procs |->
                    woken[q] \/ (pc[q] = "wait" /\ fd[q] = v)]

NoWrite == UNCHANGED <<rec, written, woken>>

(* The locals of a call end with it.                                       *)
Ends(p, where, result) ==
    /\ pc' = [pc EXCEPT ![p] = where]
    /\ ret' = [ret EXCEPT ![p] = result]
    /\ call' = [call EXCEPT ![p] = NoCall]
    /\ fd' = [fd EXCEPT ![p] = NoVnode]
    /\ ops' = [ops EXCEPT ![p] = << >>]
    /\ st' = [st EXCEPT ![p] = ZeroState]

(* CloseState, and the call returns.                                       *)
Return(p, result) ==
    /\ lock' = [lock EXCEPT ![fd[p]] = NoProc]
    /\ Ends(p, "idle", result)

(* flock(LOCK_EX), then fstat, pread and the validity test of OpenState.   *)
(* An empty file counts as created and leaves the caller's state zero.     *)
Flock(p) ==
    /\ pc[p] = "flock" /\ lock[fd[p]] = NoProc
    /\ \/ /\ written[fd[p]] /\ ~rec[fd[p]].valid
          /\ Ends(p, "idle", "EINVAL") /\ UNCHANGED lock
       \/ /\ written[fd[p]] => rec[fd[p]].valid
          /\ lock' = [lock EXCEPT ![fd[p]] = p]
          /\ pc' = [pc EXCEPT ![p] = "run"]
          /\ st' = [st EXCEPT ![p] = IF written[fd[p]] THEN rec[fd[p]] ELSE @]
          /\ UNCHANGED <<call, fd, ops, ret>>
    /\ UNCHANGED <<path, lastVnode, written, rec, woken, knows, ghosts>>

(* The record semget gives a new set.                                      *)
NewState(key) == [valid |-> TRUE, key |-> key, value |-> 0,
                  negativeWaiters |-> 0, zeroWaiters |-> 0]

(* The rest of SemgetImpl: initialise an empty file, or compare the key.   *)
SemgetFinish(p) ==
    /\ pc[p] = "run" /\ call[p].name = "semget"
    /\ \/ /\ ~written[fd[p]]
          /\ WriteState(fd[p], NewState(call[p].key))
          /\ knows' = [knows EXCEPT ![p] = TRUE]
          /\ Return(p, "ok")
       \/ /\ written[fd[p]] /\ st[p].key # call[p].key
          /\ NoWrite /\ Return(p, "EEXIST") /\ UNCHANGED knows
       \/ /\ written[fd[p]] /\ st[p].key = call[p].key
          /\ knows' = [knows EXCEPT ![p] = TRUE]
          /\ NoWrite /\ Return(p, "ok")
    /\ UNCHANGED <<path, lastVnode, ghosts>>

(* semctl under the lock.  The queries (GETVAL, GETNCNT, GETZCNT, GETPID,  *)
(* GETALL, IPC_STAT) only read; IPC_SET rewrites the record with another   *)
(* mode; IPC_RMID closes first and unlinks later, without the lock.        *)
SemctlFinish(p) ==
    /\ pc[p] = "run" /\ call[p].name = "semctl"
    /\ \/ /\ call[p].cmd = "QUERY"
          /\ NoWrite /\ Return(p, "ok") /\ UNCHANGED ledger
       \/ /\ call[p].cmd = "SETVAL" /\ call[p].val < 0
          /\ NoWrite /\ Return(p, "ERANGE") /\ UNCHANGED ledger
       \/ /\ call[p].cmd = "SETVAL" /\ call[p].val >= 0
          /\ WriteState(fd[p], [st[p] EXCEPT !.value = call[p].val])
          /\ ledger' = [ledger EXCEPT ![fd[p]] = call[p].val]
          /\ Return(p, "ok")
       \/ /\ call[p].cmd = "IPC_SET"
          /\ WriteState(fd[p], st[p])
          /\ Return(p, "ok") /\ UNCHANGED ledger
       \/ /\ call[p].cmd = "IPC_RMID"
          /\ lock' = [lock EXCEPT ![fd[p]] = NoProc]
          /\ Ends(p, "unlink", "none")
          /\ NoWrite /\ UNCHANGED ledger
    /\ UNCHANGED <<path, lastVnode, knows, leaked, faults>>

(* unlink(path): removes whatever the path names now; NOTE_DELETE is an    *)
(* event for the processes registered on that vnode.                       *)
Unlink(p) ==
    /\ pc[p] = "unlink"
    /\ path' = NoVnode
    /\ woken' = [q \in Procs |-> woken[q] \/
                    (pc[q] = "wait" /\ fd[q] = path /\ path # NoVnode)]
    /\ pc' = [pc EXCEPT ![p] = "idle"]
    /\ ret' = [ret EXCEPT ![p] = "ok"]
    /\ UNCHANGED <<lastVnode, written, rec, lock, call, fd, ops, st, knows,
                   ghosts>>
-----------------------------------------------------------------------------
op(p) == Head(ops[p])

(* The operation at the head of the list cannot proceed.                   *)
Blocked(o, value) ==
    \/ o.op < 0 /\ value < -o.op
    \/ o.op = 0 /\ value # 0

(* negativeWaiters++ or zeroWaiters++, and the matching decrement, which   *)
(* never takes the counter below zero.                                     *)
Counted(o, s) ==
    IF o.op < 0 THEN [s EXCEPT !.negativeWaiters = @ + 1]
                ELSE [s EXCEPT !.zeroWaiters = @ + 1]

(* Mutants: the decrement is forgotten, or hits the other counter without  *)
(* testing it.                                                             *)
UncountedNever(o, s) == s
UncountedSwapped(o, s) ==
    IF o.op < 0 THEN [s EXCEPT !.zeroWaiters = @ - 1]
                ELSE [s EXCEPT !.negativeWaiters = @ - 1]

Uncounted(o, s) ==
    IF o.op < 0
      THEN [s EXCEPT !.negativeWaiters = IF @ > 0 THEN @ - 1 ELSE @]
      ELSE [s EXCEPT !.zeroWaiters = IF @ > 0 THEN @ - 1 ELSE @]

SemopFits(o, value) == o.op > 0 => value <= MaxValue - o.op

InSemop(p) == pc[p] = "run" /\ call[p].name = "semop"

(* One operation of the list takes effect.  Each is written on its own, so *)
(* an error later in the list leaves it applied.                           *)
SemopApply(p) ==
    /\ InSemop(p) /\ ops[p] # << >>
    /\ op(p).num = 0 /\ ~Blocked(op(p), st[p].value)
    /\ SemopFits(op(p), st[p].value)
    /\ ops' = [ops EXCEPT ![p] = Tail(@)]
    /\ \/ /\ op(p).op = 0 /\ NoWrite /\ UNCHANGED <<st, ledger>>
       \/ /\ op(p).op # 0
          /\ LET s == [st[p] EXCEPT !.value = @ + op(p).op]
             IN  st' = [st EXCEPT ![p] = s] /\ WriteState(fd[p], s)
          /\ ledger' = [ledger EXCEPT ![fd[p]] = @ + op(p).op]
    /\ UNCHANGED <<path, lastVnode, lock, pc, call, fd, knows, ret, leaked,
                   faults>>

(* The list is rejected at this operation: sem_num, range or IPC_NOWAIT.   *)
SemopReject(p) ==
    /\ InSemop(p) /\ ops[p] # << >>
    /\ \/ op(p).num # 0 /\ Return(p, "EFBIG")
       \/ /\ op(p).num = 0 /\ ~SemopFits(op(p), st[p].value)
          /\ Return(p, "ERANGE")
       \/ /\ op(p).num = 0 /\ Blocked(op(p), st[p].value) /\ op(p).nowait
          /\ Return(p, "EAGAIN")
    /\ NoWrite
    /\ UNCHANGED <<path, lastVnode, knows, ghosts>>

SemopDone(p) ==
    /\ InSemop(p) /\ ops[p] = << >>
    /\ Return(p, "ok") /\ NoWrite
    /\ UNCHANGED <<path, lastVnode, knows, ghosts>>

(* The waiter counts itself, registers its kqueue while it still holds the *)
(* lock, unlocks and sleeps in kevent.                                     *)
SemopWait(p) ==
    /\ InSemop(p) /\ ops[p] # << >> /\ op(p).num = 0
    /\ Blocked(op(p), st[p].value) /\ ~op(p).nowait
    /\ st' = [st EXCEPT ![p] = Counted(op(p), st[p])]
    /\ rec' = [rec EXCEPT ![fd[p]] = Counted(op(p), st[p])]
    /\ written' = [written EXCEPT ![fd[p]] = TRUE]
    /\ woken' = [q \in Procs |-> q # p /\
                    (woken[q] \/ (pc[q] = "wait" /\ fd[q] = fd[p]))]
    /\ lock' = [lock EXCEPT ![fd[p]] = NoProc]
    /\ pc' = [pc EXCEPT ![p] = "wait"]
    /\ UNCHANGED <<path, lastVnode, call, fd, ops, knows, ret, ghosts>>

(* kqueue() fails after the waiter has counted itself: the call returns    *)
(* and the count stays.                                                    *)
SemopWaitFails(p) ==
    /\ InSemop(p) /\ ops[p] # << >> /\ op(p).num = 0
    /\ Blocked(op(p), st[p].value) /\ ~op(p).nowait
    /\ faults < MaxFaults
    /\ faults' = faults + 1
    /\ leaked' = [leaked EXCEPT ![fd[p]] = @ + 1]
    /\ WriteState(fd[p], Counted(op(p), st[p]))
    /\ Return(p, "EMFILE")
    /\ UNCHANGED <<path, lastVnode, knows, ledger>>

(* WriteState fails in a call that was about to write: it returns -1 and   *)
(* the file keeps its contents (an empty file stays empty).                *)
WriteFails(p) ==
    /\ pc[p] = "run" /\ faults < MaxFaults
    /\ \/ call[p].name = "semget" /\ ~written[fd[p]]
       \/ call[p].name = "semctl" /\ call[p].cmd = "SETVAL" /\ call[p].val >= 0
       \/ call[p].name = "semctl" /\ call[p].cmd = "IPC_SET"
       \/ /\ InSemop(p) /\ ops[p] # << >> /\ op(p).num = 0
          /\ \/ Blocked(op(p), st[p].value) /\ ~op(p).nowait
             \/ /\ op(p).op # 0 /\ ~Blocked(op(p), st[p].value)
                /\ SemopFits(op(p), st[p].value)
    /\ faults' = faults + 1
    /\ Return(p, "EIO") /\ NoWrite
    /\ UNCHANGED <<path, lastVnode, knows, ledger, leaked>>

(* Mutant: the copy from before the sleep is used instead of the record.   *)
RewaitStale(p) ==
    /\ pc[p] = "wait" /\ woken[p] /\ lock[fd[p]] = NoProc
    /\ rec[fd[p]].valid
    /\ lock' = [lock EXCEPT ![fd[p]] = p]
    /\ pc' = [pc EXCEPT ![p] = "run"]
    /\ st' = [st EXCEPT ![p] = Uncounted(op(p), st[p])]
    /\ rec' = [rec EXCEPT ![fd[p]] = Uncounted(op(p), st[p])]
    /\ woken' = [woken EXCEPT ![p] = FALSE]
    /\ UNCHANGED <<path, lastVnode, written, call, fd, ops, knows, ret, ghosts>>

(* kevent returns, the lock is taken again and the record read afresh; the *)
(* waiter uncounts itself (no write if its counter is already zero) and    *)
(* goes back to the head of its loop.                                      *)
Rewait(p) ==
    /\ pc[p] = "wait" /\ woken[p] /\ lock[fd[p]] = NoProc
    /\ rec[fd[p]].valid
    /\ lock' = [lock EXCEPT ![fd[p]] = p]
    /\ pc' = [pc EXCEPT ![p] = "run"]
    /\ st' = [st EXCEPT ![p] = Uncounted(op(p), rec[fd[p]])]
    /\ rec' = [rec EXCEPT ![fd[p]] = Uncounted(op(p), rec[fd[p]])]
    /\ woken' = [q \in Procs |-> q # p /\
                    (\/ woken[q]
                     \/ /\ pc[q] = "wait" /\ fd[q] = fd[p]
                        /\ Uncounted(op(p), rec[fd[p]]) # rec[fd[p]])]
    /\ UNCHANGED <<path, lastVnode, written, call, fd, ops, knows, ret, ghosts>>

(* The record read afresh has no magic: EIDRM, without being uncounted.    *)
WaitRemoved(p) ==
    /\ pc[p] = "wait" /\ woken[p] /\ lock[fd[p]] = NoProc
    /\ ~rec[fd[p]].valid
    /\ Ends(p, "idle", "EIDRM")
    /\ woken' = [woken EXCEPT ![p] = FALSE]
    /\ leaked' = [leaked EXCEPT ![fd[p]] = @ + 1]
    /\ UNCHANGED <<files, knows, ledger, faults>>

(* The write of the decremented counter fails: the count stays.            *)
RewaitFails(p) ==
    /\ pc[p] = "wait" /\ woken[p] /\ lock[fd[p]] = NoProc
    /\ rec[fd[p]].valid /\ Uncounted(op(p), rec[fd[p]]) # rec[fd[p]]
    /\ faults < MaxFaults
    /\ faults' = faults + 1
    /\ Ends(p, "idle", "EIO")
    /\ woken' = [woken EXCEPT ![p] = FALSE]
    /\ leaked' = [leaked EXCEPT ![fd[p]] = @ + 1]
    /\ UNCHANGED <<files, knows, ledger>>

(* A process is killed: the kernel closes its descriptors and drops its    *)
(* flock; the record keeps whatever was last written.                      *)
Crash(p) ==
    /\ MayCrash /\ pc[p] # "dead"
    /\ Ends(p, "dead", "none")
    /\ woken' = [woken EXCEPT ![p] = FALSE]
    /\ knows' = [knows EXCEPT ![p] = FALSE]
    /\ lock' = [v \in Vnodes |-> IF lock[v] = p THEN NoProc ELSE lock[v]]
    /\ leaked' = IF pc[p] = "wait" THEN [leaked EXCEPT ![fd[p]] = @ + 1]
                                   ELSE leaked
    /\ UNCHANGED <<path, lastVnode, written, rec, ledger, faults>>

Start(p) ==
    \/ \E key \in Keys, count \in {-1, 1, 2}, creat, excl \in BOOLEAN :
          SemgetOpen(p, key, count, creat, excl)
    \/ \E number \in {0, 1}, cmd \in Commands, val \in SetVals :
          SemctlOpen(p, number, cmd, val)
    \/ \E list \in OpLists : SemopOpen(p, list)

(* What a process does once it is inside a call.                           *)
Continue(p) ==
    \/ Flock(p) \/ SemgetFinish(p) \/ SemctlFinish(p) \/ Unlink(p)
    \/ SemopApply(p) \/ SemopReject(p) \/ SemopDone(p)
    \/ SemopWait(p) \/ Rewait(p) \/ WaitRemoved(p)

Next == \E p \in Procs :
    \/ Start(p) \/ Continue(p) \/ Crash(p)
    \/ SemopWaitFails(p) \/ WriteFails(p) \/ RewaitFails(p)

Spec == Init /\ [][Next]_vars

(* A process inside a call is scheduled, and XNU grants flock in arrival   *)
(* order, so a lock that is free again and again is obtained.              *)
Fairness == \A p \in Procs :
    /\ WF_vars(Continue(p))
    /\ SF_vars(Flock(p) \/ Rewait(p) \/ WaitRemoved(p))

FairSpec == Spec /\ Fairness
-----------------------------------------------------------------------------
Waiting(v) == {p \in Procs : pc[p] = "wait" /\ fd[p] = v}

(* A process asleep in semop with no event pending really cannot proceed:  *)
(* no post, SETVAL or take that enables it slips in between the test of    *)
(* the value and the sleep (WaitForChange registers before it unlocks).    *)
NoLostWakeup == \A p \in Procs :
    pc[p] = "wait" /\ ~woken[p] => Blocked(op(p), rec[fd[p]].value)

(* The value in every state file is what the semop and SETVAL calls that   *)
(* completed on it add up to, and never negative: no update is computed    *)
(* from a copy read before a sleep or by a process without the lock.       *)
TokensConserved == \A v \in Vnodes :
    rec[v].value = ledger[v] /\ rec[v].value >= 0

(* GETNCNT and GETZCNT: the two counters add up to the processes blocked   *)
(* on the set, plus those that were killed or failed while counted.        *)
WaitersCounted == \A v \in Vnodes :
    rec[v].negativeWaiters + rec[v].zeroWaiters
        = Cardinality(Waiting(v)) + leaked[v]

(* A process blocked on a set that was removed returns (EIDRM).            *)
RemovedWaiterReturns == \A p \in Procs :
    pc[p] = "wait" /\ path = NoVnode ~> pc[p] = "idle"
=============================================================================
