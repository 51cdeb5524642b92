----------------------------- MODULE BootTrust -----------------------------
(* layout/usr/macOS/bin/macws_boot_trust.py and macws_system_app_prepare.py: *)
(* the hashes of signed images are read from disk, with a manifest and a     *)
(* resource index to skip unchanged files, and added to the trust cache of   *)
(* the current boot.  An app's main image is first re-signed with the chroot *)
(* profile when it lacks it.  Updates replace files at any moment, a reboot  *)
(* clears the trust cache, a run may die at any step.                        *)
EXTENDS Naturals, FiniteSets

CONSTANTS
    Images,      \* files below the scanned paths
    Main,        \* the main image of the app
    MaxUpdates,  \* files replaced while the runs go on
    MaxReboots

ASSUME TrustAssumption == Main \in Images

VARIABLES
    disk,        \* identity, code hash and profile of every file
    trusted,     \* the hashes of the current boot's trust cache
    manifest,    \* per run kind: the positive hash cache
    resources,   \* per run kind: the negative cache, identities of non-code
    run,         \* the locals of a boot run and of an app admission
    updates,     \* identities used so far
    reboots,
    moved        \* history: files replaced since a run began

trustVars == <<disk, trusted, manifest, resources, run, updates, reboots, moved>>

Runs == {"boot", "app"}
NoCode == [image |-> 0, profile |-> FALSE]
NoRecord == [id |-> 0, code |-> NoCode]
NoRun == [pc |-> "idle", todo |-> {}, file |-> Main, stat |-> 0, code |-> NoCode, made |-> NoCode,
          records |-> [f \in Images |-> NoRecord]]

TrustInit ==
    /\ disk = [f \in Images |-> [id |-> 1, code |-> [image |-> 1, profile |-> FALSE]]]
    /\ trusted = {}
    /\ manifest = [r \in Runs |-> [f \in Images |-> NoRecord]]
    /\ resources = [r \in Runs |-> [f \in Images |-> 0]]
    /\ run = [r \in Runs |-> NoRun]
    /\ updates = 1
    /\ reboots = 0
    /\ moved = [r \in Runs |-> {}]

-----------------------------------------------------------------------------
(* An update puts other code, or a resource, in a file's place; the new file *)
(* has an identity (device, inode, size, times) of its own.                  *)
Replaced(f, code) ==
    /\ updates' = updates + 1
    /\ disk' = [disk EXCEPT ![f] = [id |-> updates + 1, code |-> code]]
    /\ moved' = [r \in Runs |-> moved[r] \cup {f}]

Update(f) ==
    /\ updates <= MaxUpdates
    /\ \E image \in {0, updates + 1} : Replaced(f, [image |-> image, profile |-> FALSE])
    /\ UNCHANGED <<trusted, manifest, resources, run, reboots>>

Reboot ==
    /\ reboots < MaxReboots
    /\ reboots' = reboots + 1
    /\ trusted' = {}
    /\ run' = [r \in Runs |-> NoRun]
    /\ UNCHANGED <<disk, manifest, resources, updates, moved>>

\* An exception, or the process is killed.
Fails(r) ==
    /\ run[r].pc \notin {"idle", "done"}
    /\ run' = [run EXCEPT ![r] = NoRun]
    /\ UNCHANGED <<disk, trusted, manifest, resources, updates, reboots, moved>>

Restarts(r) == run' = [run EXCEPT ![r] = NoRun]
Becomes(r, next) == run' = [run EXCEPT ![r] = next]

-----------------------------------------------------------------------------
(* ensure_main_profile, under the admission lock.                           *)

\* The profile is looked for; without it a candidate is made and signed twice.
StartApp ==
    /\ run["app"].pc \in {"idle", "done"}
    /\ LET original == disk[Main]
       IN  IF original.code.image = 0
           THEN Restarts("app")
           ELSE Becomes("app", [NoRun EXCEPT
                  !.pc = IF original.code.profile THEN "scan" ELSE "candidate",
                  !.todo = Images,
                  !.stat = original.id,
                  !.made = [original.code EXCEPT !.profile = TRUE]])
    /\ moved' = [moved EXCEPT !["app"] = {}]
    /\ UNCHANGED <<disk, trusted, manifest, resources, updates, reboots>>

(* Mutant: the candidate is published first and trusted by the scan after. *)
TrustedBeforeReplace(hash) == trusted

\* trust.restore for the candidate's hash, before it has a name.
TrustedWith(hash) == trusted \cup {hash}

TrustCandidate ==
    /\ run["app"].pc = "candidate"
    /\ trusted' = TrustedWith(run["app"].made)
    /\ Becomes("app", [run["app"] EXCEPT !.pc = "replace"])
    /\ UNCHANGED <<disk, manifest, resources, updates, reboots, moved>>

\* The application must not have changed since its identity was taken.
ReplaceMain ==
    /\ run["app"].pc = "replace"
    /\ \/ /\ disk[Main].id # run["app"].stat
          /\ Restarts("app")
          /\ UNCHANGED <<disk, updates, moved>>
       \/ /\ disk[Main].id = run["app"].stat
          /\ updates' = updates + 1
          /\ disk' = [disk EXCEPT ![Main] = [id |-> updates + 1, code |-> run["app"].made]]
          /\ moved' = [moved EXCEPT !["boot"] = @ \cup {Main}]
          /\ Becomes("app", [run["app"] EXCEPT !.pc = "scan", !.stat = 0, !.made = NoCode])
    /\ UNCHANGED <<trusted, manifest, resources, reboots>>

-----------------------------------------------------------------------------
(* The scan, shared by both programs.                                       *)

StartBoot ==
    /\ run["boot"].pc \in {"idle", "done"}
    /\ Becomes("boot", [NoRun EXCEPT !.pc = "scan", !.todo = Images])
    /\ moved' = [moved EXCEPT !["boot"] = {}]
    /\ UNCHANGED <<disk, trusted, manifest, resources, updates, reboots>>

\* Both caches are keyed by the identity of a fresh stat.
CachedCode(r, f) == manifest[r][f].id = disk[f].id
KnownResource(r, f) == resources[r][f] = disk[f].id

ScanCached(r, f) ==
    /\ run[r].pc = "scan" /\ f \in run[r].todo
    /\ \/ CachedCode(r, f)
       \/ KnownResource(r, f)
    /\ Becomes(r, [run[r] EXCEPT
         !.todo = @ \ {f},
         !.records[f] = IF CachedCode(r, f) THEN manifest[r][f] ELSE NoRecord])
    /\ UNCHANGED <<disk, trusted, manifest, resources, updates, reboots, moved>>

\* A file neither cache knows: stat, then read the signature.
ScanOpen(r, f) ==
    /\ run[r].pc = "scan" /\ f \in run[r].todo
    /\ ~CachedCode(r, f) /\ ~KnownResource(r, f)
    /\ Becomes(r, [run[r] EXCEPT !.pc = "read", !.file = f, !.stat = disk[f].id])
    /\ UNCHANGED <<disk, trusted, manifest, resources, updates, reboots, moved>>

ScanRead(r) ==
    /\ run[r].pc = "read"
    /\ Becomes(r, [run[r] EXCEPT !.pc = "verify", !.code = disk[run[r].file].code])
    /\ UNCHANGED <<disk, trusted, manifest, resources, updates, reboots, moved>>

(* Mutant: the identity is taken after the read. *)
KeyAfterwards(r) == disk[run[r].file].id

\* The key of both caches: the identity from before the read.
KeyOf(r) == run[r].stat

\* A file whose identity changed meanwhile is an error.  Code is recorded,
\* anything else remembered as a resource.
ScanVerify(r) ==
    LET f == run[r].file
        next == [run[r] EXCEPT !.pc = "scan", !.stat = 0, !.code = NoCode, !.todo = @ \ {f}]
    IN  /\ run[r].pc = "verify"
        /\ \/ disk[f].id # KeyOf(r) /\ Restarts(r) /\ UNCHANGED resources
           \/ /\ disk[f].id = KeyOf(r) /\ run[r].code.image # 0
              /\ Becomes(r, [next EXCEPT !.records[f] = [id |-> KeyOf(r), code |-> run[r].code]])
              /\ UNCHANGED resources
           \/ /\ disk[f].id = KeyOf(r) /\ run[r].code.image = 0
              /\ resources' = [resources EXCEPT ![r][f] = KeyOf(r)]
              /\ Becomes(r, next)
        /\ UNCHANGED <<disk, trusted, manifest, updates, reboots, moved>>

Recorded(r) == {f \in Images : run[r].records[f].id # 0}

\* Catch replacement between the scan and the trust admission.
Admit(r) ==
    /\ run[r].pc = "scan" /\ run[r].todo = {}
    /\ \/ /\ \E f \in Recorded(r) : disk[f].id # run[r].records[f].id
          /\ Restarts(r)
       \/ /\ \A f \in Recorded(r) : disk[f].id = run[r].records[f].id
          /\ Becomes(r, [run[r] EXCEPT !.pc = "restore"])
    /\ UNCHANGED <<disk, trusted, manifest, resources, updates, reboots, moved>>

Hashes(r) == {run[r].records[f].code : f \in Recorded(r)}

(* Mutant: an image the manifest knows is taken for trusted. *)
MissingUnknown(r) ==
    {run[r].records[f].code : f \in {g \in Recorded(r) : manifest[r][g] # run[r].records[g]}} \ trusted

\* The trust cache of this boot is asked on every run.
Missing(r) == Hashes(r) \ trusted

restore(r) ==
    /\ run[r].pc = "restore"
    /\ \/ /\ Missing(r) # {}
          /\ \E h \in Missing(r) : trusted' = trusted \cup {h}
          /\ UNCHANGED run
       \/ /\ Missing(r) = {}
          /\ Becomes(r, [run[r] EXCEPT !.pc = "save"])
          /\ UNCHANGED trusted
    /\ UNCHANGED <<disk, manifest, resources, updates, reboots, moved>>

save_cache(r) ==
    /\ run[r].pc = "save"
    /\ manifest' = [manifest EXCEPT ![r] = run[r].records]
    /\ Becomes(r, [run[r] EXCEPT !.pc = "done"])
    /\ UNCHANGED <<disk, trusted, resources, updates, reboots, moved>>

TrustNext ==
    \/ StartApp \/ TrustCandidate \/ ReplaceMain \/ StartBoot \/ Reboot
    \/ \E f \in Images : Update(f)
    \/ \E r \in Runs :
         \/ Fails(r) \/ ScanRead(r) \/ ScanVerify(r) \/ Admit(r) \/ restore(r) \/ save_cache(r)
         \/ \E f \in Images : ScanCached(r, f) \/ ScanOpen(r, f)

TrustSpec == TrustInit /\ [][TrustNext]_trustVars

-----------------------------------------------------------------------------

(* A run that ended with success has every image below its paths in the      *)
(* trust cache of this boot, unless the image was replaced after the run     *)
(* began: caches of an earlier boot never stand in for the registration.     *)
SuccessTrustsAll ==
    \A r \in Runs : run[r].pc = "done" =>
        \A f \in Images \ moved[r] : disk[f].code.image # 0 => disk[f].code \in trusted

(* What the two caches say of a file that still has the recorded identity is *)
(* true of it: no interleaving of a scan with an update leaves a code hash   *)
(* or a "not code" behind for a file that is something else.                 *)
CachesTrue ==
    \A r \in Runs, f \in Images :
        /\ manifest[r][f].id = disk[f].id => manifest[r][f].code = disk[f].code
        /\ resources[r][f] = disk[f].id => disk[f].code.image = 0

(* A re-signed main image never has its name before this boot trusts its new *)
(* hash: whoever launches the app in between gets an image that may run.     *)
PublishedIsTrusted ==
    reboots = 0 /\ disk[Main].code.profile => disk[Main].code \in trusted

(* What is called trusted is trusted: a success covers every image of the  *)
(* scan, a cache entry the file it was read from, and a published image    *)
(* its own hash, with reboots and updates in between.                      *)
TrustSound == SuccessTrustsAll /\ CachesTrue /\ PublishedIsTrusted
=============================================================================
