----------------------------- MODULE MCSteamSem -----------------------------
(* Small instances of SteamSem.                                            *)
EXTENDS SteamSem, TLC

(* Each client in a process of its own, and two threads in one process.    *)
Apart == [c \in Clients |-> c]
Together == [c \in Clients |-> "steam_osx"]

ClientSymmetry == Permutations(Clients)
=============================================================================
