----------------------------- MODULE LegacyJobs -----------------------------
(* layout/usr/macOS/bin/macws_retire_legacy_boot_jobs.py: autoload jobs of   *)
(* earlier versions are hard-linked into an archive and removed, after the   *)
(* whole inventory was recognised.  The run may die at any step and is       *)
(* repeated; an installer may put another file in a job's place.             *)
EXTENDS Naturals, FiniteSets

CONSTANTS
    JobNames,     \* plists with a project name in Library/LaunchDaemons
    MaxReplaced,  \* jobs that are replaced while the migration runs
    MaxKilled     \* migrations that die half way

VARIABLES
    boot,      \* the file of every job name: kind and inode
    archived,  \* the versions linked into retired-launch-jobs
    retire,    \* the locals of migrate
    replaced,
    killed

legacyVars == <<boot, archived, retire, replaced, killed>>

\* What recognized_legacy and the CURRENT table make of a file.
Kinds == {"retired", "current", "foreign", "unknown"}
Gone == [kind |-> "gone", inode |-> 0]
NotRunning == [pc |-> "idle", left |-> JobNames, planned |-> {}, at |-> Gone, failed |-> FALSE]

LegacyInit ==
    /\ boot = [j \in JobNames |-> Gone]
    /\ archived = {}
    /\ retire = [NotRunning EXCEPT !.pc = "install"]
    /\ replaced = 0
    /\ killed = 0

\* The installation that the upgrade meets: any files under the names.
Installed ==
    /\ retire.pc = "install"
    /\ boot' \in [JobNames -> {Gone} \cup {[kind |-> k, inode |-> 1] : k \in Kinds}]
    /\ retire' = NotRunning
    /\ UNCHANGED <<archived, replaced, killed>>

Replace(j) ==
    /\ retire.pc # "install" /\ replaced < MaxReplaced
    /\ replaced' = replaced + 1
    /\ \E k \in Kinds : boot' = [boot EXCEPT ![j] = [kind |-> k, inode |-> replaced + 2]]
    /\ UNCHANGED <<archived, retire, killed>>

Version(j) == [job |-> j, file |-> boot[j]]

-----------------------------------------------------------------------------

StartRetiring ==
    /\ retire.pc = "idle" /\ ~retire.failed
    /\ retire' = [NotRunning EXCEPT !.pc = "inventory"]
    /\ UNCHANGED <<boot, archived, replaced, killed>>

\* An error ends the run; what it changed so far stays.
RetireError == [NotRunning EXCEPT !.failed = TRUE]

(* Mutant: an unknown job is passed over like a foreign one. *)
AcceptsUnknown(kind) == TRUE

\* A job of the project that is neither current nor a known revision is an error.
recognized_legacy(kind) == kind # "unknown"

Inventory(j) ==
    /\ retire.pc = "inventory" /\ j \in retire.left
    /\ retire' =
         IF ~recognized_legacy(boot[j].kind) THEN RetireError
         ELSE [retire EXCEPT !.left = @ \ {j},
                             !.planned = IF boot[j].kind = "retired" THEN @ \cup {Version(j)} ELSE @]
    /\ UNCHANGED <<boot, archived, replaced, killed>>

\* Nothing is touched before the last name was looked at.
Validated ==
    /\ retire.pc = "inventory" /\ retire.left = {}
    /\ retire' = [retire EXCEPT !.pc = "archive"]
    /\ UNCHANGED <<boot, archived, replaced, killed>>

(* Mutant: the name is removed first and linked from the open descriptor. *)
ArchiveLater(v) == archived

\* The archive's name holds digest, device and inode: one name per version.
ArchivedWith(v) == archived \cup {v}

(* Mutant: a version the archive holds already needs nothing more. *)
SkipArchived(v) ==
    IF v \in archived THEN [retire EXCEPT !.planned = @ \ {v}]
    ELSE [retire EXCEPT !.pc = "recheck", !.at = v]

\* Linked now or by a run that died: the name is still to be removed.
AfterLink(v) == [retire EXCEPT !.pc = "recheck", !.at = v]

\* The file is read again; it must still be the planned version.
Archive(v) ==
    /\ retire.pc = "archive" /\ v \in retire.planned
    /\ \/ /\ Version(v.job) # v
          /\ retire' = RetireError
          /\ UNCHANGED archived
       \/ /\ Version(v.job) = v
          /\ archived' = ArchivedWith(v)
          /\ retire' = AfterLink(v)
    /\ UNCHANGED <<boot, replaced, killed>>

Reverify(v) ==
    /\ retire.pc = "recheck" /\ v = retire.at
    /\ retire' = IF Version(v.job) # v THEN RetireError ELSE [retire EXCEPT !.pc = "unlink"]
    /\ UNCHANGED <<boot, archived, replaced, killed>>

\* unlink goes by name.
Unlink(v) ==
    /\ retire.pc = "unlink" /\ v = retire.at
    /\ boot' = [boot EXCEPT ![v.job] = Gone]
    /\ retire' = [retire EXCEPT !.pc = "archive", !.planned = @ \ {v}, !.at = Gone]
    /\ UNCHANGED <<archived, replaced, killed>>

Retired ==
    /\ retire.pc = "archive" /\ retire.planned = {}
    /\ retire' = [NotRunning EXCEPT !.pc = "done"]
    /\ UNCHANGED <<boot, archived, replaced, killed>>

RetireKilled ==
    /\ retire.pc \in {"inventory", "archive", "recheck", "unlink"} /\ killed < MaxKilled
    /\ killed' = killed + 1
    /\ retire' = NotRunning
    /\ UNCHANGED <<boot, archived, replaced>>

RetireSteps ==
    \/ StartRetiring \/ Validated \/ Retired
    \/ \E j \in JobNames : Inventory(j)
    \/ \E v \in retire.planned : Archive(v) \/ Reverify(v) \/ Unlink(v)

LegacyNext ==
    \/ Installed \/ RetireKilled \/ RetireSteps
    \/ \E j \in JobNames : Replace(j)

LegacySpec == LegacyInit /\ [][LegacyNext]_legacyVars

-----------------------------------------------------------------------------

(* A migration that ends without error leaves no legacy job to be autoloaded *)
(* again, also when a run before it died between the link and the unlink.    *)
LegacyAllRetired ==
    replaced = 0 /\ retire.pc = "done" => \A j \in JobNames : boot[j].kind # "retired"

(* "An archived original always exists before the autoload name is removed": *)
(* a planned version loses its name only once the archive holds it.          *)
ArchivedBeforeRemoved ==
    \A j \in JobNames :
        retire.pc = "unlink" /\ boot[j] # Gone /\ boot'[j] = Gone => retire.at \in archived

(* One unknown project job stops the whole migration: as long as it is       *)
(* there, no other job is archived or removed.                               *)
UnknownStopsAll ==
    (\E j \in JobNames : boot[j] = [kind |-> "unknown", inode |-> 1]) => archived' = archived

(* The retirement loses no job and forgets none: also when it is killed    *)
(* and repeated, a job goes only into the archive, all go or none.         *)
JobsArchived ==
    [][ArchivedBeforeRemoved /\ UnknownStopsAll /\ LegacyAllRetired']_legacyVars
=============================================================================
