----------------------------- MODULE ManagedJob -----------------------------
(* macws_refresh_managed_job.py: a package upgrade activates one managed    *)
(* launchd job without ever unloading it.  The tool takes an inventory      *)
(* (launchctl list, then ps), validates the plist, decides, takes a second  *)
(* inventory, decides again and only then loads.  launchd, users and other  *)
(* daemons go on acting between any two of its steps.                       *)
EXTENDS Naturals, FiniteSets

CONSTANTS Copies,    \* processes that can run the managed executable
          MaxWorld   \* bound: steps of launchd and of users

ASSUME MaxWorldAssumption == MaxWorld \in Nat

VARIABLES service,  \* [loaded, procs, own]: launchd's job and the processes
          plist,    \* the job's property list file
          refr      \* the running refresh

managedVars == <<service, plist, refr>>

NoCopy == "none"
Plists == {"good", "foreign", "absent"}

(* What the tool knows: the job table and the live copies of one inventory. *)
Unseen == [loaded |-> FALSE, live |-> {}]

Live(s) == {c \in Copies : s.procs[c] = "live"}

(* late, reloaded: the copies started, and whether the job was loaded, after *)
(* the second inventory had read them.                                       *)
ManagedInit ==
  /\ \E l \in BOOLEAN, p \in [Copies -> {"none", "live", "zombie"}] :
       \E o \in {c \in Copies : p[c] = "live"} \cup {NoCopy} :
         /\ ~l => o = NoCopy
         /\ service = [loaded |-> l, procs |-> p, own |-> o]
  /\ plist \in Plists
  /\ \E s \in BOOLEAN :
       refr = [stage |-> "list", round |-> 1, starts |-> s, seen |-> Unseen,
               late |-> {}, reloaded |-> FALSE, rc |-> 0, world |-> 0]

-----------------------------------------------------------------------------
(* The world.  A copy is a latecomer when it starts after the second        *)
(* inventory's reading.                                                     *)
Started(c) == [service EXCEPT !.procs[c] = "live"]

Later(c) == IF refr.round = 2 THEN refr.late \cup {c} ELSE refr.late

ByLaunchd(c) == [Started(c) EXCEPT !.loaded = TRUE, !.own = c]

Acts == refr.world < MaxWorld /\ refr.stage # "done"

SomebodyLoads ==
  /\ Acts /\ ~service.loaded /\ plist = "good"
  /\ \E c \in Copies : /\ service.procs[c] = "none"
                       /\ service' = ByLaunchd(c)
                       /\ refr' = [refr EXCEPT !.world = @ + 1, 
                                               !.reloaded = @ \/ refr.round = 2,
                                               !.late = Later(c)]
  /\ UNCHANGED plist

SomebodyUnloads ==
  /\ Acts /\ service.loaded
  /\ service' = [service EXCEPT !.loaded = FALSE, !.own = NoCopy,
       !.procs = [c \in Copies |-> IF c = service.own THEN "none" ELSE @[c]]]
  /\ refr' = [refr EXCEPT !.world = @ + 1]
  /\ UNCHANGED plist

RunsByHand ==
  /\ Acts
  /\ \E c \in Copies : /\ service.procs[c] = "none"
                       /\ service' = Started(c)
                       /\ refr' = [refr EXCEPT !.world = @ + 1, !.late = Later(c)]
  /\ UNCHANGED plist

(* A copy exits and stays a zombie until its parent reaps it. *)
CopyExits ==
  /\ Acts
  /\ \E c \in Copies, after \in {"zombie", "none"} :
       /\ \/ service.procs[c] = "live"
          \/ service.procs[c] = "zombie" /\ after = "none"
       /\ service' = [service EXCEPT !.procs[c] = after,
                        !.own = IF @ = c THEN NoCopy ELSE @]
  /\ refr' = [refr EXCEPT !.world = @ + 1]
  /\ UNCHANGED plist

-----------------------------------------------------------------------------
(* Refusing: the state could not be verified, nothing was mutated. *)
Unsafe == refr' = [refr EXCEPT !.stage = "done", !.rc = 1]

Deferred == refr' = [refr EXCEPT !.stage = "done", !.rc = 0]

(* launchctl list: the job table, or an inventory that does not parse. *)
ListJobs ==
  /\ refr.stage = "list"
  /\ \/ refr' = [refr EXCEPT !.stage = "ps", !.seen.loaded = service.loaded,
                             !.reloaded = FALSE]
     \/ Unsafe
  /\ UNCHANGED <<service, plist>>

(* ps: the live processes named like the target; zombies do not count. *)
ListProcesses ==
  /\ refr.stage = "ps"
  /\ \/ refr' = [refr EXCEPT !.stage = IF refr.round = 1 THEN "plist" ELSE "decide",
                             !.seen.live = Live(service), !.late = {}]
     \/ Unsafe
  /\ UNCHANGED <<service, plist>>

(* lstat and validate_plist: an absent list is only fine for a GUI job that *)
(* the inventory proved absent.                                             *)
CheckPlist ==
  /\ refr.stage = "plist"
  /\ CASE plist = "good" -> refr' = [refr EXCEPT !.stage = "decide"]
       [] plist = "foreign" -> Unsafe
       [] plist = "absent" -> IF ~refr.starts /\ ~refr.seen.loaded
                              THEN Deferred ELSE Unsafe
  /\ UNCHANGED <<service, plist>>

(* decide: a loaded job is left alone, a stopped GUI job stays stopped, and *)
(* an unregistered live daemon forbids a second one.                        *)
decide(seen) ==
  CASE seen.loaded -> "defer"
    [] ~seen.loaded /\ ~refr.starts -> "preserve-stopped"
    [] ~seen.loaded /\ refr.starts /\ seen.live # {} -> "defer"
    [] OTHER -> "load"

(* Mutant: the second decision reuses the first inventory. *)
LoadsAtOnce(verdict) ==
  refr' = IF verdict = "load" THEN [refr EXCEPT !.stage = "load"]
          ELSE [refr EXCEPT !.stage = "done", !.rc = 0]

(* The first "load" only asks for the second inventory. *)
AfterDecision(verdict) ==
  refr' = IF verdict # "load" THEN [refr EXCEPT !.stage = "done", !.rc = 0]
          ELSE IF refr.round = 1 THEN [refr EXCEPT !.stage = "list", !.round = 2]
          ELSE [refr EXCEPT !.stage = "load"]

DecideRefresh ==
  /\ refr.stage = "decide"
  /\ AfterDecision(decide(refr.seen))
  /\ UNCHANGED <<service, plist>>

(* launchctl load: it starts the job, it fails, or it times out either way. *)
Load ==
  /\ refr.stage = "load"
  /\ \/ /\ ~service.loaded
        /\ \E c \in Copies : service.procs[c] = "none" /\ service' = ByLaunchd(c)
        /\ \E r \in {0, 1} : refr' = [refr EXCEPT !.stage = "done", !.rc = r]
     \/ /\ refr' = [refr EXCEPT !.stage = "done", !.rc = 1]
        /\ UNCHANGED service
  /\ UNCHANGED plist

ManagedNext ==
  \/ ListJobs \/ ListProcesses \/ CheckPlist \/ DecideRefresh \/ Load
  \/ SomebodyLoads \/ SomebodyUnloads \/ RunsByHand \/ CopyExits

ManagedSpec == ManagedInit /\ [][ManagedNext]_managedVars

-----------------------------------------------------------------------------
(* "do not start a second daemon": when the tool is about to load, every    *)
(* live copy and a loaded job appeared after the second inventory's own     *)
(* readings, however launchd and users acted between the two inventories.   *)
OnlyLatecomers ==
  refr.stage = "load" =>
    /\ Live(service) \subseteq refr.late
    /\ service.loaded => refr.reloaded
=============================================================================
