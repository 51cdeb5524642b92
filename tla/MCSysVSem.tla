----------------------------- MODULE MCSysVSem ------------------------------
(* Small instances of SysVSem.                                             *)
EXTENDS SysVSem, TLC

O(n) == [num |-> 0, op |-> n, nowait |-> FALSE]
Try(n) == [num |-> 0, op |-> n, nowait |-> TRUE]

(* Steam's mutex (-1 and +1), a wait for zero, a list of two operations,   *)
(* a bad sem_num and an empty list.                                        *)
MCOpLists == { <<O(-1)>>, <<O(1)>>, <<O(0)>>, <<O(1), Try(-2)>>,
               <<[num |-> 1, op |-> 1, nowait |-> FALSE]>>, << >> }

TakeOnly == { <<O(-1)>> }

MCSetVals == {-1, 1}

ProcSymmetry == Permutations(Procs)
=============================================================================
