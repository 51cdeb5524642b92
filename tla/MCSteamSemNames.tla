--------------------------- MODULE MCSteamSemNames ---------------------------
(* Small instances of SteamSemNames.                                       *)
EXTENDS SteamSemNames, TLC

CONSTANTS ta, tb, tc

(* Two threads of one process, then a process of the next launch.          *)
Relaunched == [t \in Threads |-> IF t = tc THEN "relaunched" ELSE "steam_osx"]
TwoLaunches == [p \in Processes |-> IF p = "relaunched" THEN 2 ELSE 1]

ThreadSymmetry == Permutations({ta, tb})
=============================================================================
