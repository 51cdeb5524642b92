--------------------------- MODULE SysVSem_proofs ---------------------------
(* Safety of the System V adapter for any number of processes, any         *)
(* operation lists, kqueue failures, kills and removals.                   *)
EXTENDS SysVSem, SequenceTheorems, FiniteSetTheorems, TLAPS

(* While p holds the lock its private copy is the record in the file; this *)
(* is what makes writing back the whole record an atomic update.           *)
Fresh == \A p \in Procs :
    pc[p] = "run" => lock[fd[p]] = p /\ st[p] = rec[fd[p]]

(* A descriptor is open wherever the code uses one, and an empty file      *)
(* reads as the zero record the caller starts from.                        *)
Descriptors ==
    /\ \A p \in Procs : pc[p] \in {"flock", "run", "wait"} => fd[p] \in Vnodes
    /\ \A p \in Procs : pc[p] = "flock" => st[p] = ZeroState
    /\ \A v \in Vnodes : ~written[v] => rec[v] = ZeroState

(* Only a semop with an operation left sleeps.                             *)
Sleepers == \A p \in Procs : pc[p] = "wait" => ops[p] # << >>

IInv == TypeOK /\ Fresh /\ Descriptors /\ Sleepers
          /\ NoLostWakeup /\ TokensConserved

-----------------------------------------------------------------------------
LEMMA ZeroStateType == ZeroState \in State
BY DEF ZeroState, State

LEMMA NoCallType == NoCall \in Call
BY DEF NoCall, Call

LEMMA EmptyOps == << >> \in OpSeq
BY DEF OpSeq

LEMMA CountedType ==
    ASSUME NEW o, NEW s \in State
    PROVE  /\ Counted(o, s) \in State /\ Counted(o, s).value = s.value
           /\ Uncounted(o, s) \in State /\ Uncounted(o, s).value = s.value
BY DEF Counted, Uncounted, State

LEMMA HeadTailType ==
    ASSUME NEW s \in OpSeq, s # << >>
    PROVE  /\ Head(s) \in [num : Nat, op : Int, nowait : BOOLEAN]
           /\ Tail(s) \in OpSeq
BY HeadTailProperties DEF OpSeq

(* The kinds of change an action makes, each with the part of the type it  *)
(* preserves.                                                              *)
LEMMA EndsType ==
    ASSUME CallType, NEW p \in Procs, NEW w \in PCs, NEW r \in Results,
           Ends(p, w, r)
    PROVE  CallType'
BY EmptyOps, NoCallType, ZeroStateType, SysVAssumption
   DEF CallType, Ends, NoVnode

LEMMA OpenedType ==
    ASSUME CallType, NEW p \in Procs, NEW v \in 0..MaxVnode, NEW c \in Call,
           NEW s \in OpSeq, Opened(p, v, c, s)
    PROVE  CallType'
<1>1. "flock" \in PCs /\ "none" \in Results
  BY DEF PCs, Results
<1> QED BY <1>1, ZeroStateType DEF CallType, Opened

LEMMA WriteType ==
    ASSUME KernelType, NEW v \in Vnodes, NEW s \in State, WriteState(v, s)
    PROVE  /\ rec' \in [Vnodes -> State] /\ written' \in [Vnodes -> BOOLEAN]
           /\ woken' \in [Procs -> BOOLEAN]
BY DEF KernelType, WriteState

LEMMA ReturnType ==
    ASSUME TypeOK, NEW p \in Procs, NEW r \in Results, Return(p, r)
    PROVE  CallType' /\ lock' \in [Vnodes -> Procs \cup {NoProc}]
<1>1. CallType'
  BY EndsType DEF TypeOK, Return, PCs
<1> QED BY <1>1 DEF TypeOK, KernelType, Return

LEMMA InitIInv == Init => IInv
<1> SUFFICES ASSUME Init PROVE IInv
  OBVIOUS
<1>1. "idle" \in PCs /\ "none" \in Results
  BY DEF PCs, Results
<1>2. TypeOK
  BY <1>1, ZeroStateType, EmptyOps, NoCallType, SysVAssumption
  DEF Init, TypeOK, KernelType, CallType, BookType, NoVnode
<1> QED
  BY <1>2 DEF Init, IInv, Fresh, Descriptors, Sleepers, NoLostWakeup,
              TokensConserved, ZeroState

LEMMA TypePreserved == TypeOK /\ Descriptors /\ [Next]_vars => TypeOK'
<1> SUFFICES ASSUME TypeOK, Descriptors, [Next]_vars PROVE TypeOK'
  OBVIOUS
<1>0. /\ {"idle", "flock", "run", "wait", "unlink", "dead"} \subseteq PCs
      /\ {"none", "ok", "EINVAL", "ENOSPC", "EEXIST", "ENOENT", "ERANGE",
          "EFBIG", "EAGAIN", "EIDRM", "EMFILE", "EIO"} \subseteq Results
  BY DEF PCs, Results
<1>t. /\ KernelType /\ CallType /\ BookType
      /\ \A p \in Procs : pc[p] \in {"flock", "run", "wait"} => fd[p] \in Vnodes
  BY DEF TypeOK, Descriptors
<1>1. CASE UNCHANGED vars
  BY <1>1 DEF TypeOK, KernelType, CallType, BookType, vars, files, ghosts
<1>f. ASSUME NEW p \in Procs, NEW e \in Results, FailsAtOnce(p, e)
      PROVE  TypeOK'
  BY <1>f DEF TypeOK, KernelType, CallType, BookType, FailsAtOnce, files, ghosts
<1>2. ASSUME NEW p \in Procs, Start(p) PROVE TypeOK'
  <2>1. ASSUME NEW v \in 0..MaxVnode, NEW c \in Call, NEW s \in OpSeq,
               Opened(p, v, c, s),
               path' \in 0..MaxVnode, lastVnode' \in 0..MaxVnode
        PROVE  TypeOK'
    <3>1. CallType'
      BY <2>1, <1>t, OpenedType
    <3> QED
      BY <2>1, <1>t, <3>1 DEF TypeOK, KernelType, BookType, Opened, ghosts
  <2>2. ASSUME NEW key \in Keys, NEW count \in {-1, 1, 2},
               NEW creat \in BOOLEAN, NEW excl \in BOOLEAN,
               SemgetOpen(p, key, count, creat, excl)
        PROVE TypeOK'
    <3>1. SemgetCall(key) \in Call
      BY DEF SemgetCall, Call
    <3>2. CASE path # NoVnode /\ Opened(p, path, SemgetCall(key), << >>)
                 /\ UNCHANGED <<path, lastVnode>>
      BY <2>1, <3>1, <3>2, EmptyOps, <1>t DEF KernelType
    <3>3. CASE /\ lastVnode < MaxVnode
               /\ lastVnode' = lastVnode + 1 /\ path' = lastVnode + 1
               /\ Opened(p, lastVnode + 1, SemgetCall(key), << >>)
      <4>1. lastVnode + 1 \in 0..MaxVnode
        BY <3>3, <1>t, SysVAssumption DEF KernelType
      <4> QED BY <2>1, <3>1, <3>3, <4>1, EmptyOps
    <3> QED BY <2>2, <3>2, <3>3, <1>f, <1>0 DEF SemgetOpen
  <2>3. ASSUME NEW number \in {0, 1}, NEW cmd \in Commands,
               NEW val \in SetVals, SemctlOpen(p, number, cmd, val)
        PROVE TypeOK'
    <3>1. SemctlCall(cmd, val) \in Call
      <4>1. val \in Int
        BY SysVAssumption
      <4> QED BY <4>1 DEF SemctlCall, NoCall, Call
    <3>2. CASE Opened(p, path, SemctlCall(cmd, val), << >>)
                 /\ UNCHANGED <<path, lastVnode>>
      BY <2>1, <3>1, <3>2, EmptyOps, <1>t DEF KernelType
    <3> QED BY <2>3, <3>2, <1>f, <1>0 DEF SemctlOpen
  <2>4. ASSUME NEW list \in OpLists, SemopOpen(p, list) PROVE TypeOK'
    <3>1. SemopCall \in Call /\ list \in OpSeq
      BY SysVAssumption DEF SemopCall, NoCall, Call, OpSeq
    <3>2. CASE Opened(p, path, SemopCall, list) /\ UNCHANGED <<path, lastVnode>>
      BY <2>1, <3>1, <3>2, <1>t DEF KernelType
    <3> QED BY <2>4, <3>2, <1>f, <1>0 DEF SemopOpen
  <2> QED BY <1>2, <2>2, <2>3, <2>4 DEF Start
<1>3. ASSUME NEW p \in Procs, Flock(p) PROVE TypeOK'
  <2>1. CASE Ends(p, "idle", "EINVAL") /\ UNCHANGED lock
    <3>1. CallType'
      BY <2>1, <1>0, <1>t, EndsType
    <3> QED
      BY <1>3, <2>1, <3>1 DEF Flock, TypeOK, KernelType, BookType, ghosts
  <2>2. CASE /\ lock' = [lock EXCEPT ![fd[p]] = p]
             /\ pc' = [pc EXCEPT ![p] = "run"]
             /\ st' = [st EXCEPT ![p] = IF written[fd[p]] THEN rec[fd[p]] ELSE @]
             /\ UNCHANGED <<call, fd, ops, ret>>
    <3>1. fd[p] \in Vnodes
      BY <1>3, <1>t DEF Flock
    <3>2. CallType'
      BY <2>2, <3>1, <1>0, <1>t DEF CallType, KernelType
    <3> QED
      BY <1>3, <2>2, <3>1, <3>2 DEF Flock, TypeOK, KernelType, BookType, ghosts
  <2> QED BY <1>3, <2>1, <2>2 DEF Flock
<1>4. ASSUME NEW p \in Procs, SemgetFinish(p) PROVE TypeOK'
  <2> DEFINE new == NewState(call[p].key)
  <2>1. new \in State /\ fd[p] \in Vnodes
    <3>1. fd[p] \in Vnodes
      BY <1>4, <1>t DEF SemgetFinish
    <3>2. call[p].key \in Keys \cup {NoKey}
      BY <1>t DEF CallType, Call
    <3> QED BY <3>1, <3>2 DEF State, NewState
  <2> HIDE DEF new
  <2>2. \/ WriteState(fd[p], new) /\ Return(p, "ok")
        \/ NoWrite /\ (Return(p, "EEXIST") \/ Return(p, "ok"))
    BY <1>4 DEF SemgetFinish, new
  <2>3. CallType' /\ lock' \in [Vnodes -> Procs \cup {NoProc}]
    BY <2>2, <1>0, ReturnType
  <2>4. /\ rec' \in [Vnodes -> State] /\ written' \in [Vnodes -> BOOLEAN]
        /\ woken' \in [Procs -> BOOLEAN]
    BY <2>1, <2>2, <1>t, WriteType DEF NoWrite, KernelType
  <2> QED
    BY <1>4, <1>t, <2>3, <2>4
    DEF SemgetFinish, TypeOK, KernelType, BookType, ghosts
<1>5. ASSUME NEW p \in Procs, SemctlFinish(p) PROVE TypeOK'
  <2> DEFINE new == [st[p] EXCEPT !.value = call[p].val]
  <2>1. /\ new \in State /\ st[p] \in State /\ fd[p] \in Vnodes
        /\ call[p].val \in Int
    <3>1. fd[p] \in Vnodes
      BY <1>5, <1>t DEF SemctlFinish
    <3>2. st[p] \in State /\ call[p].val \in Int
      BY <1>t DEF CallType, Call
    <3> QED BY <3>1, <3>2 DEF State
  <2> HIDE DEF new
  <2>2. \/ WriteState(fd[p], new) /\ Return(p, "ok")
        \/ WriteState(fd[p], st[p]) /\ Return(p, "ok")
        \/ NoWrite /\ (Return(p, "ERANGE") \/ Return(p, "ok"))
        \/ /\ NoWrite /\ Ends(p, "unlink", "none")
           /\ lock' = [lock EXCEPT ![fd[p]] = NoProc]
    BY <1>5 DEF SemctlFinish, new
  <2>3. CallType' /\ lock' \in [Vnodes -> Procs \cup {NoProc}]
    BY <2>1, <2>2, <1>0, <1>t, ReturnType, EndsType DEF KernelType
  <2>4. /\ rec' \in [Vnodes -> State] /\ written' \in [Vnodes -> BOOLEAN]
        /\ woken' \in [Procs -> BOOLEAN]
    BY <2>1, <2>2, <1>t, WriteType DEF NoWrite, KernelType
  <2>5. ledger' \in [Vnodes -> Int]
    BY <1>5, <1>t, <2>1 DEF SemctlFinish, BookType
  <2> QED
    BY <1>5, <1>t, <2>3, <2>4, <2>5
    DEF SemctlFinish, TypeOK, KernelType, BookType
<1>6. ASSUME NEW p \in Procs, Unlink(p) PROVE TypeOK'
  BY <1>6, <1>0, <1>t, SysVAssumption
  DEF TypeOK, KernelType, CallType, BookType, Unlink, NoVnode, ghosts
<1>7. ASSUME NEW p \in Procs, SemopApply(p) PROVE TypeOK'
  <2> DEFINE new == [st[p] EXCEPT !.value = @ + op(p).op]
  <2>1. /\ op(p) \in [num : Nat, op : Int, nowait : BOOLEAN]
        /\ Tail(ops[p]) \in OpSeq /\ fd[p] \in Vnodes
    BY <1>7, <1>t, HeadTailType DEF SemopApply, InSemop, CallType, op
  <2>2. new \in State /\ op(p).op \in Int
    BY <2>1, <1>t DEF State, CallType
  <2> HIDE DEF new
  <2>3. \/ NoWrite /\ st' = st /\ ledger' = ledger
        \/ /\ st' = [st EXCEPT ![p] = new] /\ WriteState(fd[p], new)
           /\ ledger' = [ledger EXCEPT ![fd[p]] = @ + op(p).op]
    BY <1>7 DEF SemopApply, new
  <2>4. /\ rec' \in [Vnodes -> State] /\ written' \in [Vnodes -> BOOLEAN]
        /\ woken' \in [Procs -> BOOLEAN]
    BY <2>1, <2>2, <2>3, <1>t, WriteType DEF NoWrite, KernelType
  <2>5. ledger' \in [Vnodes -> Int]
    BY <2>1, <2>2, <2>3, <1>t DEF BookType
  <2>6. CallType'
    BY <1>7, <1>t, <2>1, <2>2, <2>3 DEF SemopApply, CallType
  <2> QED
    BY <1>7, <1>t, <2>4, <2>5, <2>6
    DEF SemopApply, TypeOK, KernelType, BookType
<1>8. ASSUME NEW p \in Procs, SemopReject(p) \/ SemopDone(p) PROVE TypeOK'
  <2>1. NoWrite /\ \E r \in Results : Return(p, r)
    BY <1>8, <1>0 DEF SemopReject, SemopDone
  <2>2. CallType' /\ lock' \in [Vnodes -> Procs \cup {NoProc}]
    BY <2>1, ReturnType
  <2> QED
    BY <1>8, <1>t, <2>1, <2>2 DEF SemopReject, SemopDone, NoWrite, TypeOK,
                                  KernelType, BookType, ghosts
<1>9. ASSUME NEW p \in Procs, SemopWait(p) PROVE TypeOK'
  <2>1. Counted(op(p), st[p]) \in State /\ fd[p] \in Vnodes
    BY <1>9, <1>t, CountedType DEF SemopWait, InSemop, CallType
  <2> QED
    BY <1>9, <1>0, <1>t, <2>1
    DEF SemopWait, TypeOK, KernelType, CallType, BookType, ghosts
<1>10. ASSUME NEW p \in Procs, SemopWaitFails(p) PROVE TypeOK'
  <2>1. Counted(op(p), st[p]) \in State /\ fd[p] \in Vnodes
    BY <1>10, <1>t, CountedType DEF SemopWaitFails, InSemop, CallType
  <2>2. CallType' /\ lock' \in [Vnodes -> Procs \cup {NoProc}]
    BY <1>10, <1>0, ReturnType DEF SemopWaitFails
  <2>3. /\ rec' \in [Vnodes -> State] /\ written' \in [Vnodes -> BOOLEAN]
        /\ woken' \in [Procs -> BOOLEAN]
    BY <1>10, <2>1, <1>t, WriteType DEF SemopWaitFails
  <2>4. faults' \in 0..MaxFaults /\ leaked' \in [Vnodes -> Nat]
    BY <1>10, <1>t, <2>1, SysVAssumption DEF SemopWaitFails, BookType
  <2> QED
    BY <1>10, <1>t, <2>2, <2>3, <2>4
    DEF SemopWaitFails, TypeOK, KernelType, BookType
<1>11. ASSUME NEW p \in Procs, Rewait(p) PROVE TypeOK'
  <2>1. fd[p] \in Vnodes
    BY <1>11, <1>t DEF Rewait
  <2>2. Uncounted(op(p), rec[fd[p]]) \in State
    BY <2>1, <1>t, CountedType DEF KernelType
  <2> QED
    BY <1>11, <1>0, <1>t, <2>1, <2>2
    DEF Rewait, TypeOK, KernelType, CallType, BookType, ghosts
<1>12. ASSUME NEW p \in Procs, WaitRemoved(p) PROVE TypeOK'
  <2>1. CallType'
    BY <1>12, <1>0, <1>t, EndsType DEF WaitRemoved
  <2> QED
    BY <1>12, <1>t, <2>1 DEF WaitRemoved, TypeOK, KernelType, BookType, files
<1>13. ASSUME NEW p \in Procs, Crash(p) PROVE TypeOK'
  <2>1. CallType'
    BY <1>13, <1>0, <1>t, EndsType DEF Crash
  <2> QED
    BY <1>13, <1>t, <2>1 DEF Crash, TypeOK, KernelType, BookType
<1>14. ASSUME NEW p \in Procs, WriteFails(p) PROVE TypeOK'
  <2>1. CallType' /\ lock' \in [Vnodes -> Procs \cup {NoProc}]
    BY <1>14, <1>0, ReturnType DEF WriteFails
  <2>2. faults' \in 0..MaxFaults
    BY <1>14, <1>t, SysVAssumption DEF WriteFails, BookType
  <2> QED
    BY <1>14, <1>t, <2>1, <2>2
    DEF WriteFails, NoWrite, TypeOK, KernelType, BookType
<1>15. ASSUME NEW p \in Procs, RewaitFails(p) PROVE TypeOK'
  <2>1. CallType'
    BY <1>15, <1>0, <1>t, EndsType DEF RewaitFails
  <2>2. faults' \in 0..MaxFaults
    BY <1>15, <1>t, SysVAssumption DEF RewaitFails, BookType
  <2> QED
    BY <1>15, <1>t, <2>1, <2>2
    DEF RewaitFails, TypeOK, KernelType, BookType, files
<1> QED
  BY <1>1, <1>2, <1>3, <1>4, <1>5, <1>6, <1>7, <1>8, <1>9, <1>10, <1>11,
     <1>12, <1>13, <1>14, <1>15 DEF Next, Continue

(* The inductive step, apart from the types.                               *)
Safe == Fresh /\ Descriptors /\ Sleepers /\ NoLostWakeup /\ TokensConserved

LEMMA HolderLeaves ==
    ASSUME IInv, NEW p \in Procs, pc[p] = "run", NoWrite, ledger' = ledger,
           lock' = [lock EXCEPT ![fd[p]] = NoProc],
           NEW w \in {"idle", "unlink"}, NEW r, Ends(p, w, r)
    PROVE  Safe'
<1>i. Fresh /\ Descriptors /\ Sleepers /\ NoLostWakeup /\ TokensConserved
  BY DEF IInv
<1>t. /\ pc \in [Procs -> PCs] /\ fd \in [Procs -> 0..MaxVnode]
      /\ ops \in [Procs -> OpSeq] /\ st \in [Procs -> State]
      /\ call \in [Procs -> Call]
      /\ written \in [Vnodes -> BOOLEAN] /\ rec \in [Vnodes -> State]
      /\ lock \in [Vnodes -> Procs \cup {NoProc}]
      /\ woken \in [Procs -> BOOLEAN] /\ ledger \in [Vnodes -> Int]
      /\ path \in 0..MaxVnode /\ lastVnode \in 0..MaxVnode
      /\ NoProc \notin Procs /\ MaxVnode \in Nat
  BY SysVAssumption DEF IInv, TypeOK, KernelType, CallType, BookType
<1>1. Fresh' /\ Descriptors'
  BY <1>i, <1>t DEF Ends, NoWrite, Fresh, Descriptors
<1>2. Sleepers' /\ NoLostWakeup'
  BY <1>i, <1>t DEF Ends, NoWrite, Sleepers, NoLostWakeup, op
<1>3. TokensConserved'
  BY <1>i DEF NoWrite, TokensConserved
<1> QED BY <1>1, <1>2, <1>3 DEF Safe

(* The holder of the lock replaces the record, and either unlocks and      *)
(* returns or goes on with what it wrote as its copy.                      *)
LEMMA HolderWrites ==
    ASSUME IInv, NEW p \in Procs, pc[p] = "run",
           NEW s \in State, WriteState(fd[p], s), s.value >= 0,
           ledger' = [ledger EXCEPT ![fd[p]] = s.value],
           \/ /\ lock' = [lock EXCEPT ![fd[p]] = NoProc]
              /\ \E w \in {"idle", "unlink"}, r \in Results : Ends(p, w, r)
           \/ /\ st' = [st EXCEPT ![p] = s]
              /\ pc' = pc /\ fd' = fd /\ lock' = lock
              /\ ops' = [ops EXCEPT ![p] = Tail(@)]
    PROVE  Safe'
<1>i. Fresh /\ Descriptors /\ Sleepers /\ NoLostWakeup /\ TokensConserved
  BY DEF IInv
<1>t. /\ pc \in [Procs -> PCs] /\ fd \in [Procs -> 0..MaxVnode]
      /\ ops \in [Procs -> OpSeq] /\ st \in [Procs -> State]
      /\ call \in [Procs -> Call]
      /\ written \in [Vnodes -> BOOLEAN] /\ rec \in [Vnodes -> State]
      /\ lock \in [Vnodes -> Procs \cup {NoProc}]
      /\ woken \in [Procs -> BOOLEAN] /\ ledger \in [Vnodes -> Int]
      /\ path \in 0..MaxVnode /\ lastVnode \in 0..MaxVnode
      /\ NoProc \notin Procs /\ MaxVnode \in Nat
  BY SysVAssumption DEF IInv, TypeOK, KernelType, CallType, BookType
<1>v. fd[p] \in Vnodes
  BY <1>i DEF Descriptors
<1>w. /\ rec' = [rec EXCEPT ![fd[p]] = s]
      /\ written' = [written EXCEPT ![fd[p]] = TRUE]
      /\ woken' = [q \in Procs |-> woken[q] \/ (pc[q] = "wait" /\ fd[q] = fd[p])]
  BY DEF WriteState
<1>3. TokensConserved'
  BY <1>i, <1>t, <1>v, <1>w DEF TokensConserved
<1>4. ASSUME NEW q \in Procs, q # p, pc[q] = "run" PROVE fd[q] # fd[p]
  BY <1>i, <1>4 DEF Fresh
<1>5. /\ \A q \in Procs : q # p => /\ pc'[q] = pc[q] /\ fd'[q] = fd[q]
                                  /\ st'[q] = st[q] /\ ops'[q] = ops[q]
      /\ pc'[p] # "wait" /\ pc'[p] # "flock"
      /\ pc'[p] = "run" => fd'[p] = fd[p] /\ st'[p] = s /\ lock'[fd[p]] = p
      /\ \A v \in Vnodes : v # fd[p] => lock'[v] = lock[v]
  <2>1. CASE /\ lock' = [lock EXCEPT ![fd[p]] = NoProc]
             /\ \E w \in {"idle", "unlink"}, r \in Results : Ends(p, w, r)
    <3>1. PICK w \in {"idle", "unlink"}, r \in Results : Ends(p, w, r)
      BY <2>1
    <3> QED BY <2>1, <3>1, <1>t, <1>v DEF Ends
  <2>2. CASE /\ st' = [st EXCEPT ![p] = s]
             /\ pc' = pc /\ fd' = fd /\ lock' = lock
             /\ ops' = [ops EXCEPT ![p] = Tail(@)]
    BY <2>2, <1>i, <1>t, <1>v DEF Fresh
  <2> QED BY <2>1, <2>2
<1>1. Fresh' /\ Descriptors'
  <2>1. Fresh'
    <3> SUFFICES ASSUME NEW q \in Procs, pc'[q] = "run"
                 PROVE  lock'[fd'[q]] = q /\ st'[q] = rec'[fd'[q]]
      BY DEF Fresh
    <3>1. CASE q = p
      BY <3>1, <1>t, <1>v, <1>w, <1>5
    <3>2. CASE q # p
      <4>1. /\ pc[q] = "run" /\ fd'[q] = fd[q] /\ st'[q] = st[q]
            /\ fd[q] # fd[p] /\ fd[q] \in Vnodes
        BY <3>2, <1>4, <1>5, <1>i DEF Descriptors
      <4> QED BY <4>1, <1>t, <1>v, <1>w, <1>5, <1>i DEF Fresh
    <3> QED BY <3>1, <3>2
  <2>2. Descriptors'
    BY <1>i, <1>t, <1>v, <1>w, <1>5 DEF Descriptors
  <2> QED BY <2>1, <2>2
<1>2. Sleepers' /\ NoLostWakeup'
  BY <1>i, <1>t, <1>v, <1>w, <1>5 DEF Sleepers, NoLostWakeup, Descriptors, op
<1> QED BY <1>1, <1>2, <1>3 DEF Safe

LEMMA SafePreserved == IInv /\ [Next]_vars => Safe'
<1> SUFFICES ASSUME IInv, [Next]_vars PROVE Safe'
  OBVIOUS
<1>i. Fresh /\ Descriptors /\ Sleepers /\ NoLostWakeup /\ TokensConserved
  BY DEF IInv
<1>t. /\ pc \in [Procs -> PCs] /\ fd \in [Procs -> 0..MaxVnode]
      /\ ops \in [Procs -> OpSeq] /\ st \in [Procs -> State]
      /\ call \in [Procs -> Call]
      /\ written \in [Vnodes -> BOOLEAN] /\ rec \in [Vnodes -> State]
      /\ lock \in [Vnodes -> Procs \cup {NoProc}]
      /\ woken \in [Procs -> BOOLEAN] /\ ledger \in [Vnodes -> Int]
      /\ path \in 0..MaxVnode /\ lastVnode \in 0..MaxVnode
      /\ NoProc \notin Procs /\ MaxVnode \in Nat
  BY SysVAssumption DEF IInv, TypeOK, KernelType, CallType, BookType
<1>1. CASE UNCHANGED vars
  BY <1>1, <1>i DEF vars, files, ghosts, Safe, Fresh, Descriptors, Sleepers,
       NoLostWakeup, TokensConserved, op
<1>2. ASSUME NEW p \in Procs, Start(p) PROVE Safe'
  <2>1. ASSUME NEW e, FailsAtOnce(p, e) PROVE Safe'
    BY <2>1, <1>i DEF FailsAtOnce, files, ghosts, Safe, Fresh, Descriptors,
         Sleepers, NoLostWakeup, TokensConserved, op
  <2>2. ASSUME NEW v \in Vnodes, NEW c, NEW s, Opened(p, v, c, s),
               pc[p] = "idle"
        PROVE  Safe'
    <3>1. Fresh' /\ Descriptors'
      BY <2>2, <1>i, <1>t DEF Opened, Fresh, Descriptors
    <3>2. Sleepers' /\ NoLostWakeup'
      BY <2>2, <1>i, <1>t DEF Opened, Sleepers, NoLostWakeup, op
    <3>3. TokensConserved'
      BY <2>2, <1>i DEF Opened, TokensConserved, ghosts
    <3> QED BY <3>1, <3>2, <3>3 DEF Safe
  <2>3. path # NoVnode => path \in Vnodes
    BY <1>t DEF NoVnode, Vnodes
  <2>4. lastVnode < MaxVnode => lastVnode + 1 \in Vnodes
    BY <1>t DEF Vnodes
  <2> QED
    BY <1>2, <2>1, <2>2, <2>3, <2>4 DEF Start, SemgetOpen, SemctlOpen, SemopOpen
<1>3. ASSUME NEW p \in Procs, Flock(p) PROVE Safe'
  <2>1. Fresh' /\ Descriptors'
    <3>1. pc[p] = "flock" /\ lock[fd[p]] = NoProc /\ fd[p] \in Vnodes
            /\ st[p] = ZeroState /\ UNCHANGED <<rec, written>>
      BY <1>3, <1>i DEF Flock, Descriptors
    <3>2. CASE Ends(p, "idle", "EINVAL") /\ UNCHANGED lock
      BY <3>1, <3>2, <1>i, <1>t DEF Ends, Fresh, Descriptors
    <3>3. CASE /\ lock' = [lock EXCEPT ![fd[p]] = p]
               /\ pc' = [pc EXCEPT ![p] = "run"]
               /\ st' = [st EXCEPT ![p] = IF written[fd[p]] THEN rec[fd[p]]
                                                           ELSE @]
               /\ UNCHANGED <<call, fd, ops, ret>>
      <4>1. Descriptors'
        BY <3>1, <3>3, <1>i, <1>t DEF Descriptors
      <4>2. Fresh'
        <5> SUFFICES ASSUME NEW q \in Procs, pc'[q] = "run"
                     PROVE  lock'[fd[q]] = q /\ st'[q] = rec[fd[q]]
          BY <3>1, <3>3 DEF Fresh
        <5>1. CASE q = p
          BY <5>1, <3>1, <3>3, <1>i, <1>t DEF Descriptors
        <5>2. CASE q # p
          <6>1. pc[q] = "run" /\ fd[q] \in Vnodes
            BY <5>2, <3>3, <1>i, <1>t DEF Descriptors
          <6>2. fd[q] # fd[p]
            BY <6>1, <3>1, <1>i, <1>t DEF Fresh
          <6> QED BY <5>2, <6>1, <6>2, <3>3, <1>i, <1>t DEF Fresh
        <5> QED BY <5>1, <5>2
      <4> QED BY <4>1, <4>2
    <3> QED BY <1>3, <3>2, <3>3 DEF Flock
  <2>2. Sleepers' /\ NoLostWakeup'
    BY <1>3, <1>i, <1>t DEF Flock, Ends, ghosts, Sleepers, NoLostWakeup,
       Descriptors, op
  <2>3. TokensConserved'
    BY <1>3, <1>i, <1>t DEF Flock, Ends, ghosts, TokensConserved, Fresh,
       Descriptors
  <2> QED BY <2>1, <2>2, <2>3 DEF Safe
<1>4. ASSUME NEW p \in Procs, SemgetFinish(p) PROVE Safe'
  <2>1. /\ NewState(call[p].key) \in State /\ NewState(call[p].key).value = 0
        /\ fd[p] \in Vnodes /\ pc[p] = "run"
    <3>1. call[p].key \in Keys \cup {NoKey}
      BY <1>t DEF Call
    <3>2. fd[p] \in Vnodes /\ pc[p] = "run"
      BY <1>4, <1>i DEF SemgetFinish, Descriptors
    <3> QED BY <3>1, <3>2 DEF State, NewState
  <2>2. CASE /\ ~written[fd[p]]
             /\ WriteState(fd[p], NewState(call[p].key)) /\ Return(p, "ok")
    <3>1. ledger[fd[p]] = 0
      BY <1>i, <2>1, <2>2 DEF Descriptors, TokensConserved, ZeroState
    <3>2. ledger' = [ledger EXCEPT ![fd[p]] = NewState(call[p].key).value]
      BY <1>4, <1>t, <2>1, <3>1 DEF SemgetFinish, ghosts
    <3>3. "ok" \in Results
      BY DEF Results
    <3>4. NewState(call[p].key).value >= 0
      BY <2>1
    <3> QED BY <2>1, <2>2, <3>2, <3>3, <3>4, HolderWrites DEF Return
  <2>3. CASE NoWrite /\ (Return(p, "ok") \/ Return(p, "EEXIST"))
    BY <1>4, <2>1, <2>3, HolderLeaves DEF Return, SemgetFinish, ghosts
  <2> QED BY <1>4, <2>2, <2>3 DEF SemgetFinish
<1>5. ASSUME NEW p \in Procs, SemctlFinish(p) PROVE Safe'
  <2>1. pc[p] = "run" /\ fd[p] \in Vnodes /\ st[p] = rec[fd[p]]
    BY <1>5, <1>i DEF SemctlFinish, Descriptors, Fresh
  <2>2. "ok" \in Results
    BY DEF Results
  <2>3. CASE /\ NoWrite /\ ledger' = ledger
             /\ \/ Return(p, "ok") \/ Return(p, "ERANGE")
                \/ /\ lock' = [lock EXCEPT ![fd[p]] = NoProc]
                   /\ Ends(p, "unlink", "none")
    BY <2>1, <2>3, HolderLeaves DEF Return
  <2>4. CASE /\ call[p].val >= 0 /\ Return(p, "ok")
             /\ WriteState(fd[p], [st[p] EXCEPT !.value = call[p].val])
             /\ ledger' = [ledger EXCEPT ![fd[p]] = call[p].val]
    <3> DEFINE new == [st[p] EXCEPT !.value = call[p].val]
    <3>1. new \in State /\ new.value = call[p].val
      <4>1. call[p].val \in Int /\ st[p] \in State
        BY <1>t DEF Call
      <4> QED BY <4>1 DEF State
    <3> HIDE DEF new
    <3>2. /\ WriteState(fd[p], new) /\ new.value >= 0
          /\ ledger' = [ledger EXCEPT ![fd[p]] = new.value]
      BY <2>4, <3>1 DEF new
    <3> QED BY <2>1, <2>2, <2>4, <3>1, <3>2, HolderWrites DEF Return
  <2>5. CASE WriteState(fd[p], st[p]) /\ Return(p, "ok") /\ ledger' = ledger
    <3>1. /\ ledger' = [ledger EXCEPT ![fd[p]] = st[p].value]
          /\ st[p] \in State /\ st[p].value >= 0
      BY <2>1, <2>5, <1>i, <1>t DEF TokensConserved
    <3> QED BY <2>1, <2>2, <2>5, <3>1, HolderWrites DEF Return
  <2> QED BY <1>5, <2>3, <2>4, <2>5 DEF SemctlFinish
<1>6. ASSUME NEW p \in Procs, Unlink(p) PROVE Safe'
  <2>1. Fresh' /\ Descriptors'
    BY <1>6, <1>i, <1>t DEF Unlink, ghosts, Fresh, Descriptors
  <2>2. Sleepers' /\ NoLostWakeup'
    BY <1>6, <1>i, <1>t DEF Unlink, ghosts, Sleepers, NoLostWakeup,
       Descriptors, op
  <2>3. TokensConserved'
    BY <1>6, <1>i, <1>t DEF Unlink, ghosts, TokensConserved, Fresh,
       Descriptors
  <2> QED BY <2>1, <2>2, <2>3 DEF Safe
<1>7. ASSUME NEW p \in Procs, SemopApply(p) PROVE Safe'
  <2>1. pc[p] = "run" /\ fd[p] \in Vnodes /\ st[p] = rec[fd[p]]
    BY <1>7, <1>i DEF SemopApply, InSemop, Descriptors, Fresh
  <2>2. op(p) \in [num : Nat, op : Int, nowait : BOOLEAN]
    BY <1>7, <1>t, HeadTailType DEF SemopApply, op
  <2>3. CASE NoWrite /\ UNCHANGED <<st, ledger>>
    <3>1. Fresh' /\ Descriptors'
      BY <1>7, <2>3, <1>i DEF SemopApply, NoWrite, Fresh, Descriptors
    <3>2. Sleepers' /\ NoLostWakeup'
      BY <1>7, <2>1, <2>3, <1>i, <1>t
      DEF SemopApply, NoWrite, Sleepers, NoLostWakeup, op
    <3>3. TokensConserved'
      BY <2>3, <1>i DEF NoWrite, TokensConserved
    <3> QED BY <3>1, <3>2, <3>3 DEF Safe
  <2>4. CASE /\ st' = [st EXCEPT ![p] = [st[p] EXCEPT !.value = @ + op(p).op]]
             /\ WriteState(fd[p], [st[p] EXCEPT !.value = @ + op(p).op])
             /\ ledger' = [ledger EXCEPT ![fd[p]] = @ + op(p).op]
    <3> DEFINE new == [st[p] EXCEPT !.value = @ + op(p).op]
    <3>0. st[p] \in State /\ st[p].value \in Int /\ op(p).op \in Int
      BY <1>t, <2>2 DEF State
    <3>1. new \in State /\ new.value = st[p].value + op(p).op
      BY <3>0 DEF State
    <3>2. st' = [st EXCEPT ![p] = new] /\ WriteState(fd[p], new)
      BY <2>4
    <3> HIDE DEF new
    <3>3. new.value >= 0
      BY <1>7, <1>i, <2>1, <3>0, <3>1 DEF SemopApply, Blocked, TokensConserved
    <3>4. ledger' = [ledger EXCEPT ![fd[p]] = new.value]
      BY <2>1, <2>4, <3>1, <1>i, <1>t DEF TokensConserved
    <3>5. /\ pc' = pc /\ fd' = fd /\ lock' = lock
          /\ ops' = [ops EXCEPT ![p] = Tail(@)]
      BY <1>7 DEF SemopApply
    <3> QED BY <2>1, <3>1, <3>2, <3>3, <3>4, <3>5, HolderWrites
  <2> QED BY <1>7, <2>3, <2>4 DEF SemopApply
<1>8. ASSUME NEW p \in Procs, SemopReject(p) \/ SemopDone(p) PROVE Safe'
  BY <1>8, HolderLeaves DEF SemopReject, SemopDone, InSemop, Return, ghosts
<1>9. ASSUME NEW p \in Procs, SemopWait(p) PROVE Safe'
  <2>0. /\ Counted(op(p), st[p]).value = st[p].value
        /\ Counted(op(p), st[p]) \in State
    BY <1>t, CountedType
  <2>1. Fresh' /\ Descriptors'
    BY <1>9, <1>i, <1>t, <2>0 DEF SemopWait, InSemop, ghosts, Fresh, Descriptors
  <2>2. Sleepers' /\ NoLostWakeup'
    BY <1>9, <1>i, <1>t, <2>0 DEF SemopWait, InSemop, ghosts, Sleepers, NoLostWakeup,
       Descriptors, op
  <2>3. TokensConserved'
    BY <1>9, <1>i, <1>t, <2>0 DEF SemopWait, InSemop, ghosts, TokensConserved, Fresh,
       Descriptors
  <2> QED BY <2>1, <2>2, <2>3 DEF Safe
<1>10. ASSUME NEW p \in Procs, SemopWaitFails(p) PROVE Safe'
  <2>1. /\ Counted(op(p), st[p]).value = st[p].value
        /\ Counted(op(p), st[p]) \in State
    BY <1>t, CountedType
  <2>2. pc[p] = "run" /\ fd[p] \in Vnodes /\ st[p] = rec[fd[p]]
    BY <1>10, <1>i DEF SemopWaitFails, InSemop, Descriptors, Fresh
  <2>3. /\ ledger' = [ledger EXCEPT ![fd[p]] = Counted(op(p), st[p]).value]
        /\ Counted(op(p), st[p]).value >= 0
    BY <1>10, <2>1, <2>2, <1>i, <1>t DEF SemopWaitFails, TokensConserved
  <2>4. "EMFILE" \in Results
    BY DEF Results
  <2> QED
    BY <1>10, <2>1, <2>2, <2>3, <2>4, HolderWrites DEF SemopWaitFails, Return
<1>11. ASSUME NEW p \in Procs, Rewait(p) PROVE Safe'
  <2>0. /\ Uncounted(op(p), rec[fd[p]]).value = rec[fd[p]].value
        /\ Uncounted(op(p), rec[fd[p]]) \in State
    BY <1>11, <1>t, <1>i, CountedType DEF Rewait, Descriptors
  <2>1. Fresh' /\ Descriptors'
    <3>1. pc[p] = "wait" /\ lock[fd[p]] = NoProc /\ fd[p] \in Vnodes
      BY <1>11, <1>i DEF Rewait, Descriptors
    <3>0. written[fd[p]]
      BY <1>11, <3>1, <1>i, <1>t DEF Rewait, Descriptors, ZeroState
    <3>2. Descriptors'
      BY <1>11, <3>0, <3>1, <1>i, <1>t, <2>0 DEF Rewait, Descriptors
    <3>3. Fresh'
      <4> SUFFICES ASSUME NEW q \in Procs, pc'[q] = "run"
                   PROVE  lock'[fd[q]] = q /\ st'[q] = rec'[fd[q]]
        BY <1>11 DEF Rewait, Fresh
      <4>1. CASE q = p
        BY <4>1, <1>11, <3>1, <1>t DEF Rewait
      <4>2. CASE q # p
        <5>1. pc[q] = "run" /\ fd[q] \in Vnodes
          BY <4>2, <1>11, <1>i, <1>t DEF Rewait, Descriptors
        <5>2. fd[q] # fd[p]
          BY <5>1, <3>1, <1>i, <1>t DEF Fresh
        <5> QED BY <4>2, <5>1, <5>2, <1>11, <1>i, <1>t DEF Rewait, Fresh
      <4> QED BY <4>1, <4>2
    <3> QED BY <3>2, <3>3
  <2>2. Sleepers' /\ NoLostWakeup'
    BY <1>11, <1>i, <1>t, <2>0 DEF Rewait, ghosts, Sleepers, NoLostWakeup,
       Descriptors, op
  <2>3. TokensConserved'
    BY <1>11, <1>i, <1>t, <2>0 DEF Rewait, ghosts, TokensConserved, Fresh,
       Descriptors
  <2> QED BY <2>1, <2>2, <2>3 DEF Safe
<1>12. ASSUME NEW p \in Procs, WaitRemoved(p) PROVE Safe'
  <2>1. Fresh' /\ Descriptors'
    BY <1>12, <1>i, <1>t DEF WaitRemoved, Ends, files, Fresh, Descriptors
  <2>2. Sleepers' /\ NoLostWakeup'
    BY <1>12, <1>i, <1>t DEF WaitRemoved, Ends, files, Sleepers, NoLostWakeup,
       Descriptors, op
  <2>3. TokensConserved'
    BY <1>12, <1>i, <1>t DEF WaitRemoved, Ends, files, TokensConserved, Fresh,
       Descriptors
  <2> QED BY <2>1, <2>2, <2>3 DEF Safe
<1>13. ASSUME NEW p \in Procs, Crash(p) PROVE Safe'
  <2>1. Fresh' /\ Descriptors'
    BY <1>13, <1>i, <1>t DEF Crash, Ends, Fresh, Descriptors
  <2>2. Sleepers' /\ NoLostWakeup'
    BY <1>13, <1>i, <1>t DEF Crash, Ends, Sleepers, NoLostWakeup,
       Descriptors, op
  <2>3. TokensConserved'
    BY <1>13, <1>i, <1>t DEF Crash, Ends, TokensConserved, Fresh,
       Descriptors
  <2> QED BY <2>1, <2>2, <2>3 DEF Safe
<1>14. ASSUME NEW p \in Procs, WriteFails(p) PROVE Safe'
  BY <1>14, HolderLeaves DEF WriteFails, Return
<1>15. ASSUME NEW p \in Procs, RewaitFails(p) PROVE Safe'
  <2>1. Fresh' /\ Descriptors'
    BY <1>15, <1>i, <1>t DEF RewaitFails, Ends, files, Fresh, Descriptors
  <2>2. Sleepers' /\ NoLostWakeup'
    BY <1>15, <1>i, <1>t DEF RewaitFails, Ends, files, Sleepers, NoLostWakeup,
       Descriptors, op
  <2>3. TokensConserved'
    BY <1>15, <1>i, <1>t DEF RewaitFails, Ends, files, TokensConserved
  <2> QED BY <2>1, <2>2, <2>3 DEF Safe
<1> QED
  BY <1>1, <1>2, <1>3, <1>4, <1>5, <1>6, <1>7, <1>8, <1>9, <1>10, <1>11,
     <1>12, <1>13, <1>14, <1>15 DEF Next, Continue

-----------------------------------------------------------------------------
LEMMA Inductive == IInv /\ [Next]_vars => IInv'
BY TypePreserved, SafePreserved DEF IInv, Safe

(* Every reachable state is well typed.                                    *)
THEOREM TypeCorrect == Spec => []TypeOK
<1>1. IInv => TypeOK
  BY DEF IInv
<1> QED BY <1>1, InitIInv, Inductive, PTL DEF Spec

(* No wakeup is lost between the test of the value in semop and the sleep  *)
(* in kevent, whatever processes post, set, remove, fail or die meanwhile. *)
THEOREM WakeupsSafe == Spec => []NoLostWakeup
<1>1. IInv => NoLostWakeup
  BY DEF IInv
<1> QED BY <1>1, InitIInv, Inductive, PTL DEF Spec

(* The value stored for a set is exactly what the completed updates add up *)
(* to: writing the whole record back never undoes another process's update.*)
THEOREM TokensSafe == Spec => []TokensConserved
<1>1. IInv => TokensConserved
  BY DEF IInv
<1> QED BY <1>1, InitIInv, Inductive, PTL DEF Spec

-----------------------------------------------------------------------------
(* The counters of blocked processes.  Their sum is exact; each one is at  *)
(* least the number of live waiters of its kind, which is why a waiter     *)
(* always finds a count to take back although the decrement stops at zero. *)
Takers(v) == {p \in Waiting(v) : op(p).op < 0}
ZeroWaiters(v) == {p \in Waiting(v) : ~(op(p).op < 0)}

Exact(v) ==
    /\ IsFiniteSet(Waiting(v))
    /\ rec[v].negativeWaiters + rec[v].zeroWaiters = Cardinality(Waiting(v)) + leaked[v]
    /\ rec[v].negativeWaiters >= Cardinality(Takers(v))
    /\ rec[v].zeroWaiters >= Cardinality(ZeroWaiters(v))

Counts == \A v \in Vnodes : Exact(v)

LEMMA CountTypes ==
    ASSUME TypeOK, NEW v \in Vnodes
    PROVE  /\ rec[v] \in State
           /\ rec[v].negativeWaiters \in Nat /\ rec[v].zeroWaiters \in Nat /\ leaked[v] \in Nat
BY DEF TypeOK, KernelType, BookType, State

LEMMA Cardinals ==
    ASSUME NEW v, IsFiniteSet(Waiting(v))
    PROVE  /\ Cardinality(Waiting(v)) \in Nat
           /\ IsFiniteSet(Takers(v)) /\ Cardinality(Takers(v)) \in Nat
           /\ IsFiniteSet(ZeroWaiters(v)) /\ Cardinality(ZeroWaiters(v)) \in Nat
<1>1. Takers(v) \subseteq Waiting(v) /\ ZeroWaiters(v) \subseteq Waiting(v)
  BY DEF Takers, ZeroWaiters
<1> QED BY <1>1, FS_Subset, FS_CardinalityType

(* q is asleep on the same operation as before, or awake as before.        *)
Stays(q) ==
    /\ pc'[q] = "wait" <=> pc[q] = "wait"
    /\ pc[q] = "wait" => fd'[q] = fd[q] /\ ops'[q] = ops[q]

SameCounts(v) ==
    /\ rec'[v].negativeWaiters = rec[v].negativeWaiters
    /\ rec'[v].zeroWaiters = rec[v].zeroWaiters
    /\ leaked'[v] = leaked[v]

LEMMA WaitersKept ==
    ASSUME \A q \in Procs : Stays(q)
    PROVE  \A v : /\ Waiting(v)' = Waiting(v) /\ Takers(v)' = Takers(v)
                  /\ ZeroWaiters(v)' = ZeroWaiters(v)
BY DEF Stays, Waiting, Takers, ZeroWaiters, op

LEMMA CountKept ==
    ASSUME Counts, \A q \in Procs : Stays(q), \A v \in Vnodes : SameCounts(v)
    PROVE  Counts'
BY WaitersKept DEF Counts, Exact, SameCounts

(* A process that is counted but does not get to sleep.                    *)
LEMMA CountLeaks ==
    ASSUME TypeOK, Counts, NEW p \in Procs, NEW u \in Vnodes, NEW o, NEW s \in State,
           rec[u] = s, \A q \in Procs : Stays(q),
           rec' = [rec EXCEPT ![u] = Counted(o, s)],
           leaked' = [leaked EXCEPT ![u] = @ + 1]
    PROVE  Counts'
<1> SUFFICES ASSUME NEW v \in Vnodes PROVE Exact(v)'
  BY DEF Counts
<1>1. Exact(v) /\ Waiting(v)' = Waiting(v) /\ Takers(v)' = Takers(v)
      /\ ZeroWaiters(v)' = ZeroWaiters(v)
  BY WaitersKept DEF Counts
<1>2. CASE v # u
  BY <1>1, <1>2 DEF Exact, TypeOK, KernelType, BookType
<1>3. CASE v = u
  <2>1. leaked'[u] = leaked[u] + 1
    BY DEF TypeOK, BookType
  <2>2. \/ /\ rec'[u].negativeWaiters = rec[u].negativeWaiters + 1
           /\ rec'[u].zeroWaiters = rec[u].zeroWaiters
        \/ /\ rec'[u].negativeWaiters = rec[u].negativeWaiters
           /\ rec'[u].zeroWaiters = rec[u].zeroWaiters + 1
    BY DEF Counted, State, TypeOK, KernelType
  <2>3. /\ rec[u].negativeWaiters \in Nat /\ rec[u].zeroWaiters \in Nat /\ leaked[u] \in Nat
        /\ Cardinality(Waiting(u)) \in Nat /\ Cardinality(Takers(u)) \in Nat
        /\ Cardinality(ZeroWaiters(u)) \in Nat
    BY <1>1, <1>3, CountTypes, Cardinals DEF Exact
  <2> QED BY <1>1, <1>3, <2>1, <2>2, <2>3 DEF Exact
<1> QED BY <1>2, <1>3

LEMMA CountJoins ==
    ASSUME TypeOK, Counts, NEW p \in Procs, NEW u \in Vnodes, pc[p] # "wait",
           fd[p] = u, fd' = fd, ops' = ops, pc' = [pc EXCEPT ![p] = "wait"],
           rec' = [rec EXCEPT ![u] = Counted(op(p), rec[u])], leaked' = leaked
    PROVE  Counts'
<1> SUFFICES ASSUME NEW v \in Vnodes PROVE Exact(v)'
  BY DEF Counts
<1>0. \A q : pc'[q] = "wait" <=> pc[q] = "wait" \/ q = p
  BY DEF TypeOK, CallType
<1>1. Exact(v) /\ Exact(u)
  BY DEF Counts
<1>2. CASE v # u
  <2>1. /\ Waiting(v)' = Waiting(v) /\ Takers(v)' = Takers(v)
        /\ ZeroWaiters(v)' = ZeroWaiters(v)
    BY <1>0, <1>2 DEF Waiting, Takers, ZeroWaiters, op
  <2> QED BY <1>1, <1>2, <2>1 DEF Exact, TypeOK, KernelType
<1>3. Waiting(u)' = Waiting(u) \cup {p} /\ p \notin Waiting(u)
  BY <1>0 DEF Waiting
<1>4. /\ IsFiniteSet(Waiting(u)')
      /\ Cardinality(Waiting(u)') = Cardinality(Waiting(u)) + 1
  BY <1>1, <1>3, FS_AddElement DEF Exact
<1>5. /\ rec[u].negativeWaiters \in Nat /\ rec[u].zeroWaiters \in Nat /\ leaked[u] \in Nat
      /\ IsFiniteSet(Takers(u)) /\ IsFiniteSet(ZeroWaiters(u))
      /\ Cardinality(Waiting(u)) \in Nat /\ Cardinality(Takers(u)) \in Nat
      /\ Cardinality(ZeroWaiters(u)) \in Nat
  BY <1>1, CountTypes, Cardinals DEF Exact
<1>6. rec[u] \in State
  BY CountTypes
<1>7. CASE op(p).op < 0
  <2>1. /\ rec'[u].negativeWaiters = rec[u].negativeWaiters + 1
        /\ rec'[u].zeroWaiters = rec[u].zeroWaiters
    BY <1>6, <1>7 DEF Counted, State, TypeOK, KernelType
  <2>2. Takers(u)' = Takers(u) \cup {p} /\ p \notin Takers(u) /\ ZeroWaiters(u)' = ZeroWaiters(u)
    BY <1>3, <1>7 DEF Takers, ZeroWaiters, op
  <2>3. Cardinality(Takers(u)') = Cardinality(Takers(u)) + 1
    BY <1>5, <2>2, FS_AddElement
  <2>4. Exact(u)'
    BY <1>1, <1>4, <1>5, <2>1, <2>2, <2>3 DEF Exact
  <2> QED BY <1>2, <2>4
<1>8. CASE ~(op(p).op < 0)
  <2>1. /\ rec'[u].negativeWaiters = rec[u].negativeWaiters
        /\ rec'[u].zeroWaiters = rec[u].zeroWaiters + 1
    BY <1>6, <1>8 DEF Counted, State, TypeOK, KernelType
  <2>2. /\ ZeroWaiters(u)' = ZeroWaiters(u) \cup {p} /\ p \notin ZeroWaiters(u)
        /\ Takers(u)' = Takers(u)
    BY <1>3, <1>8 DEF Takers, ZeroWaiters, op
  <2>3. Cardinality(ZeroWaiters(u)') = Cardinality(ZeroWaiters(u)) + 1
    BY <1>5, <2>2, FS_AddElement
  <2>4. Exact(u)'
    BY <1>1, <1>4, <1>5, <2>1, <2>2, <2>3 DEF Exact
  <2> QED BY <1>2, <2>4
<1> QED BY <1>7, <1>8

(* A sleeper leaves: it takes its count back or is recorded as leaked.     *)
LEMMA CountLeaves ==
    ASSUME TypeOK, Counts, NEW p \in Procs, NEW u \in Vnodes, pc[p] = "wait", fd[p] = u,
           pc'[p] # "wait", \A q \in Procs \ {p} : Stays(q),
           \/ /\ rec' = [rec EXCEPT ![u] = Uncounted(op(p), rec[u])] /\ leaked' = leaked
           \/ /\ rec' = rec /\ leaked' = [leaked EXCEPT ![u] = @ + 1]
    PROVE  Counts'
<1> SUFFICES ASSUME NEW v \in Vnodes PROVE Exact(v)'
  BY DEF Counts
<1>1. Exact(v) /\ Exact(u)
  BY DEF Counts
<1>2. CASE v # u
  <2>1. /\ Waiting(v)' = Waiting(v) /\ Takers(v)' = Takers(v)
        /\ ZeroWaiters(v)' = ZeroWaiters(v)
    BY <1>2 DEF Waiting, Takers, ZeroWaiters, op, Stays
  <2>2. SameCounts(v)
    BY <1>2 DEF SameCounts, TypeOK, KernelType, BookType
  <2> QED BY <1>1, <2>1, <2>2 DEF Exact, SameCounts
<1>3. Waiting(u)' = Waiting(u) \ {p} /\ p \in Waiting(u)
  BY DEF Waiting, Stays
<1>4. /\ IsFiniteSet(Waiting(u)')
      /\ Cardinality(Waiting(u)') = Cardinality(Waiting(u)) - 1
  BY <1>1, <1>3, FS_RemoveElement DEF Exact
<1>5. /\ rec[u].negativeWaiters \in Nat /\ rec[u].zeroWaiters \in Nat /\ leaked[u] \in Nat
      /\ IsFiniteSet(Takers(u)) /\ IsFiniteSet(ZeroWaiters(u))
      /\ Cardinality(Waiting(u)) \in Nat /\ Cardinality(Takers(u)) \in Nat
      /\ Cardinality(ZeroWaiters(u)) \in Nat
  BY <1>1, CountTypes, Cardinals DEF Exact
<1>6. rec[u] \in State
  BY CountTypes
<1>7. CASE op(p).op < 0
  <2>1. /\ Takers(u)' = Takers(u) \ {p} /\ p \in Takers(u)
        /\ ZeroWaiters(u)' = ZeroWaiters(u)
    BY <1>3, <1>7 DEF Takers, ZeroWaiters, op, Waiting, Stays
  <2>2. Cardinality(Takers(u)') = Cardinality(Takers(u)) - 1
    BY <1>5, <2>1, FS_RemoveElement
  <2>3. Cardinality(Takers(u)) > 0
    BY <1>5, <2>1, FS_EmptySet
  <2>4. rec[u].negativeWaiters > 0
    BY <1>1, <1>5, <2>3 DEF Exact
  <2>5. \/ /\ rec'[u].negativeWaiters = rec[u].negativeWaiters - 1
           /\ rec'[u].zeroWaiters = rec[u].zeroWaiters /\ leaked'[u] = leaked[u]
        \/ /\ rec'[u].negativeWaiters = rec[u].negativeWaiters
           /\ rec'[u].zeroWaiters = rec[u].zeroWaiters /\ leaked'[u] = leaked[u] + 1
    BY <1>6, <1>7, <2>4 DEF Uncounted, State, TypeOK, KernelType, BookType
  <2>6. Exact(u)'
    BY <1>1, <1>4, <1>5, <2>1, <2>2, <2>4, <2>5 DEF Exact
  <2> QED BY <1>2, <2>6
<1>8. CASE ~(op(p).op < 0)
  <2>1. /\ ZeroWaiters(u)' = ZeroWaiters(u) \ {p} /\ p \in ZeroWaiters(u)
        /\ Takers(u)' = Takers(u)
    BY <1>3, <1>8 DEF Takers, ZeroWaiters, op, Waiting, Stays
  <2>2. Cardinality(ZeroWaiters(u)') = Cardinality(ZeroWaiters(u)) - 1
    BY <1>5, <2>1, FS_RemoveElement
  <2>3. Cardinality(ZeroWaiters(u)) > 0
    BY <1>5, <2>1, FS_EmptySet
  <2>4. rec[u].zeroWaiters > 0
    BY <1>1, <1>5, <2>3 DEF Exact
  <2>5. \/ /\ rec'[u].zeroWaiters = rec[u].zeroWaiters - 1
           /\ rec'[u].negativeWaiters = rec[u].negativeWaiters /\ leaked'[u] = leaked[u]
        \/ /\ rec'[u].negativeWaiters = rec[u].negativeWaiters
           /\ rec'[u].zeroWaiters = rec[u].zeroWaiters /\ leaked'[u] = leaked[u] + 1
    BY <1>6, <1>8, <2>4 DEF Uncounted, State, TypeOK, KernelType, BookType
  <2>6. Exact(u)'
    BY <1>1, <1>4, <1>5, <2>1, <2>2, <2>4, <2>5 DEF Exact
  <2> QED BY <1>2, <2>6
<1> QED BY <1>7, <1>8

LEMMA CountsPreserved == IInv /\ Counts /\ [Next]_vars => Counts'
<1> SUFFICES ASSUME IInv, Counts, [Next]_vars PROVE Counts'
  OBVIOUS
<1>i. TypeOK /\ Fresh /\ Descriptors /\ Sleepers
  BY DEF IInv
<1>t. /\ pc \in [Procs -> PCs] /\ fd \in [Procs -> 0..MaxVnode]
      /\ ops \in [Procs -> OpSeq] /\ st \in [Procs -> State]
      /\ rec \in [Vnodes -> State] /\ leaked \in [Vnodes -> Nat]
  BY <1>i DEF TypeOK, KernelType, CallType, BookType
<1>s. ASSUME UNCHANGED <<rec, leaked>> PROVE \A v \in Vnodes : SameCounts(v)
  BY <1>s DEF SameCounts
<1>1. CASE UNCHANGED vars
  BY <1>1, <1>s, CountKept DEF vars, files, ghosts, Stays
<1>2. ASSUME NEW p \in Procs, Start(p) PROVE Counts'
  <2>1. UNCHANGED <<rec, leaked>>
    BY <1>2 DEF Start, SemgetOpen, SemctlOpen, SemopOpen, FailsAtOnce, Opened, files, ghosts
  <2>2. ASSUME NEW q \in Procs PROVE Stays(q)
    <3>1. pc[p] = "idle"
      BY <1>2 DEF Start, SemgetOpen, SemctlOpen, SemopOpen
    <3>2. \/ pc' = pc /\ fd' = fd /\ ops' = ops
          \/ /\ pc' = [pc EXCEPT ![p] = "flock"]
             /\ \A r \in Procs \ {p} : fd'[r] = fd[r] /\ ops'[r] = ops[r]
      BY <1>2, <1>t DEF Start, SemgetOpen, SemctlOpen, SemopOpen, FailsAtOnce, Opened
    <3> QED BY <3>1, <3>2, <1>t DEF Stays
  <2> QED BY <2>1, <2>2, <1>s, CountKept
<1>e. ASSUME NEW p \in Procs, NEW w, NEW r, Ends(p, w, r), w # "wait", NEW q \in Procs \ {p}
      PROVE  Stays(q) /\ pc'[p] # "wait"
  BY <1>e, <1>t DEF Ends, Stays
<1>f. ASSUME NEW p \in Procs, pc[p] # "wait", NEW w, NEW r, Ends(p, w, r), w # "wait"
      PROVE  \A q \in Procs : Stays(q)
  <2>1. pc'[p] # "wait"
    BY <1>f, <1>t DEF Ends
  <2>2. ASSUME NEW q \in Procs PROVE Stays(q)
    BY <1>f, <1>e, <2>1 DEF Stays
  <2> QED BY <2>2
<1>3. ASSUME NEW p \in Procs, Flock(p) PROVE Counts'
  <2>1. \A q \in Procs : Stays(q)
    <3>1. CASE Ends(p, "idle", "EINVAL")
      BY <1>3, <3>1, <1>f DEF Flock
    <3>2. CASE ~Ends(p, "idle", "EINVAL")
      BY <1>3, <3>2, <1>t DEF Flock, Stays
    <3> QED BY <3>1, <3>2
  <2> QED BY <1>3, <2>1, <1>s, CountKept DEF Flock, ghosts
<1>4. ASSUME NEW p \in Procs, SemgetFinish(p) PROVE Counts'
  <2>1. pc[p] = "run" /\ fd[p] \in Vnodes
    BY <1>4, <1>i DEF SemgetFinish, Descriptors
  <2>2. \A q \in Procs : Stays(q)
    BY <1>4, <2>1, <1>f DEF SemgetFinish, Return
  <2>3. ASSUME NEW v \in Vnodes PROVE SameCounts(v)
    <3>1. CASE rec' = rec
      BY <1>4, <3>1 DEF SameCounts, SemgetFinish, ghosts
    <3>2. CASE /\ ~written[fd[p]]
               /\ rec' = [rec EXCEPT ![fd[p]] = NewState(call[p].key)]
      <4>1. rec[fd[p]] = ZeroState
        BY <3>2, <2>1, <1>i DEF Descriptors
      <4> QED BY <1>4, <3>2, <4>1, <1>t DEF SameCounts, SemgetFinish, ghosts, NewState, ZeroState
    <3> QED BY <1>4, <3>1, <3>2 DEF SemgetFinish, WriteState, NoWrite
  <2> QED BY <2>2, <2>3, CountKept
<1>5. ASSUME NEW p \in Procs, SemctlFinish(p) PROVE Counts'
  <2>1. pc[p] = "run" /\ fd[p] \in Vnodes /\ st[p] = rec[fd[p]]
    BY <1>5, <1>i DEF SemctlFinish, Descriptors, Fresh
  <2>2. \A q \in Procs : Stays(q)
    BY <1>5, <2>1, <1>f DEF SemctlFinish, Return
  <2>3. ASSUME NEW v \in Vnodes PROVE SameCounts(v)
    <3>1. leaked' = leaked
      BY <1>5 DEF SemctlFinish
    <3>2. \/ rec' = rec
          \/ rec' = [rec EXCEPT ![fd[p]] = [st[p] EXCEPT !.value = call[p].val]]
          \/ rec' = [rec EXCEPT ![fd[p]] = st[p]]
      BY <1>5 DEF SemctlFinish, WriteState, NoWrite
    <3> QED BY <3>1, <3>2, <2>1, <1>t DEF SameCounts, State
  <2> QED BY <2>2, <2>3, CountKept
<1>6. ASSUME NEW p \in Procs, Unlink(p) PROVE Counts'
  <2>1. \A q \in Procs : Stays(q)
    BY <1>6, <1>t DEF Unlink, Stays
  <2> QED BY <1>6, <2>1, <1>s, CountKept DEF Unlink, ghosts
<1>7. ASSUME NEW p \in Procs, SemopApply(p) PROVE Counts'
  <2>1. pc[p] = "run" /\ fd[p] \in Vnodes /\ st[p] = rec[fd[p]]
    BY <1>7, <1>i DEF SemopApply, InSemop, Descriptors, Fresh
  <2>2. \A q \in Procs : Stays(q)
    BY <1>7, <2>1, <1>t DEF SemopApply, Stays
  <2>3. ASSUME NEW v \in Vnodes PROVE SameCounts(v)
    <3>1. leaked' = leaked
      BY <1>7 DEF SemopApply
    <3>2. \/ rec' = rec
          \/ rec' = [rec EXCEPT ![fd[p]] = [st[p] EXCEPT !.value = @ + op(p).op]]
      BY <1>7 DEF SemopApply, WriteState, NoWrite
    <3> QED BY <3>1, <3>2, <2>1, <1>t DEF SameCounts, State
  <2> QED BY <2>2, <2>3, CountKept
<1>8. ASSUME NEW p \in Procs, SemopReject(p) \/ SemopDone(p) \/ WriteFails(p) PROVE Counts'
  <2>1. pc[p] = "run" /\ rec' = rec /\ leaked' = leaked
    BY <1>8 DEF SemopReject, SemopDone, WriteFails, InSemop, NoWrite, ghosts
  <2>2. \A q \in Procs : Stays(q)
    BY <1>8, <2>1, <1>f DEF SemopReject, SemopDone, WriteFails, Return
  <2> QED BY <2>1, <2>2, <1>s, CountKept
<1>9. ASSUME NEW p \in Procs, SemopWait(p) PROVE Counts'
  <2>1. pc[p] = "run" /\ fd[p] \in Vnodes /\ st[p] = rec[fd[p]]
    BY <1>9, <1>i DEF SemopWait, InSemop, Descriptors, Fresh
  <2> QED BY <1>9, <2>1, <1>i, CountJoins DEF SemopWait, ghosts
<1>10. ASSUME NEW p \in Procs, SemopWaitFails(p) PROVE Counts'
  <2>1. pc[p] = "run" /\ fd[p] \in Vnodes /\ st[p] = rec[fd[p]]
    BY <1>10, <1>i DEF SemopWaitFails, InSemop, Descriptors, Fresh
  <2>2. \A q \in Procs : Stays(q)
    BY <1>10, <2>1, <1>f DEF SemopWaitFails, Return
  <2>3. /\ rec' = [rec EXCEPT ![fd[p]] = Counted(op(p), st[p])]
        /\ leaked' = [leaked EXCEPT ![fd[p]] = @ + 1]
    BY <1>10 DEF SemopWaitFails, WriteState
  <2>4. st[p] \in State
    BY <1>t
  <2> QED BY <2>1, <2>2, <2>3, <2>4, <1>i, CountLeaks
<1>11. ASSUME NEW p \in Procs, Rewait(p) PROVE Counts'
  <2>1. pc[p] = "wait" /\ fd[p] \in Vnodes /\ pc'[p] # "wait"
    BY <1>11, <1>i, <1>t DEF Rewait, Descriptors
  <2>2. \A q \in Procs \ {p} : Stays(q)
    BY <1>11, <1>t DEF Rewait, Stays
  <2>3. /\ rec' = [rec EXCEPT ![fd[p]] = Uncounted(op(p), rec[fd[p]])] /\ leaked' = leaked
    BY <1>11 DEF Rewait, ghosts
  <2> QED BY <2>1, <2>2, <2>3, <1>i, CountLeaves
<1>12. ASSUME NEW p \in Procs, WaitRemoved(p) \/ RewaitFails(p) PROVE Counts'
  <2>1. pc[p] = "wait" /\ fd[p] \in Vnodes
    BY <1>12, <1>i DEF WaitRemoved, RewaitFails, Descriptors
  <2>2. pc'[p] # "wait" /\ \A q \in Procs \ {p} : Stays(q)
    <3>1. \E r : Ends(p, "idle", r)
      BY <1>12 DEF WaitRemoved, RewaitFails
    <3>2. pc' = [pc EXCEPT ![p] = "idle"]
      BY <3>1 DEF Ends
    <3> QED BY <3>1, <3>2, <1>e, <1>t
  <2>3. rec' = rec /\ leaked' = [leaked EXCEPT ![fd[p]] = @ + 1]
    BY <1>12 DEF WaitRemoved, RewaitFails, files
  <2> QED BY <2>1, <2>2, <2>3, <1>i, CountLeaves
<1>13. ASSUME NEW p \in Procs, Crash(p) PROVE Counts'
  <2>1. Ends(p, "dead", "none") /\ rec' = rec
    BY <1>13 DEF Crash
  <2>2. pc'[p] # "wait" /\ \A q \in Procs \ {p} : Stays(q)
    <3>1. pc' = [pc EXCEPT ![p] = "dead"]
      BY <2>1 DEF Ends
    <3> QED BY <2>1, <3>1, <1>e, <1>t
  <2>3. CASE pc[p] = "wait"
    <3>1. fd[p] \in Vnodes /\ leaked' = [leaked EXCEPT ![fd[p]] = @ + 1]
      BY <1>13, <2>3, <1>i DEF Crash, Descriptors
    <3> QED BY <2>1, <2>2, <2>3, <3>1, <1>i, CountLeaves
  <2>4. CASE pc[p] # "wait"
    <3>1. leaked' = leaked
      BY <1>13, <2>4 DEF Crash
    <3>2. \A q \in Procs : Stays(q)
      BY <2>1, <2>4, <1>f
    <3> QED BY <2>1, <3>1, <3>2, <1>s, CountKept
  <2> QED BY <2>3, <2>4
<1> QED
  BY <1>1, <1>2, <1>3, <1>4, <1>5, <1>6, <1>7, <1>8, <1>9, <1>10, <1>11, <1>12, <1>13
  DEF Next, Continue

(* semctl(GETNCNT) and semctl(GETZCNT) together count exactly the blocked  *)
(* processes and those that left without taking their count back, for any  *)
(* number of processes: the decrement that stops at zero never drops one.  *)
THEOREM WaitersCountedAlways == Spec => []WaitersCounted
<1>1. Init => Counts
  <2> SUFFICES ASSUME Init PROVE Counts
    OBVIOUS
  <2>1. \A v : Waiting(v) = {} /\ Takers(v) = {} /\ ZeroWaiters(v) = {}
    BY DEF Init, Waiting, Takers, ZeroWaiters
  <2>2. ASSUME NEW v \in Vnodes PROVE Exact(v)
    <3>1. rec[v].negativeWaiters = 0 /\ rec[v].zeroWaiters = 0 /\ leaked[v] = 0
      BY DEF Init, ZeroState
    <3> QED BY <2>1, <3>1, FS_EmptySet DEF Exact
  <2> QED BY <2>2 DEF Counts
<1>2. Counts => WaitersCounted
  BY DEF Counts, Exact, WaitersCounted
<1> QED BY <1>1, <1>2, InitIInv, Inductive, CountsPreserved, PTL DEF Spec

=============================================================================
