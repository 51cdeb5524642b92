--------------------------- MODULE ProviderContract ---------------------------
(* macws_provider_contract.py: the CydiaSubstrate provider on its way from   *)
(* the build into the package and from there to the chroot's dyld path.      *)
(* stage takes a two-slice build apart; dpkg unpacks the package, thinning   *)
(* what it likes; publish puts the companions together again, signs, trusts  *)
(* and replaces.  Both postinstall scripts publish, maybe at the same time.  *)
EXTENDS Naturals, FiniteSets

CONSTANTS
    Publishers,
    MaxBuilds,
    MaxFaults   \* tools that fail and processes that are killed

VARIABLES
    built,    \* the fat image the linker produced last
    staged,   \* the three files of the package's staging directory
    stager,   \* where stage is
    package,  \* the three files on the device
    target,   \* the provider dyld loads, and whether it is signed
    temp,     \* per publisher: its temporary file
    live,     \* the code directory hashes in the trust cache
    publ,     \* the locals of publish
    faults

providerVars == <<built, staged, stager, package, target, temp, live, publ, faults>>

Archs == {"arm64", "arm64e"}
Files == {"fat"} \cup Archs

\* A slice: the build it comes from, and whether platform, version and install
\* name are those of the contract.  A file maps its architectures to slices.
NoSlice == [build |-> 0, good |-> FALSE]
NoFile == [a \in Archs |-> NoSlice]
Only(file, a) == [NoFile EXCEPT ![a] = file[a]]
Has(file) == {a \in Archs : file[a] # NoSlice}

NoImage == [slices |-> NoFile, signed |-> FALSE]
NoPublish == [pc |-> "idle", hashes |-> {}]

ProviderInit ==
    /\ built = NoFile
    /\ staged = [f \in Files |-> NoFile]
    /\ stager = [pc |-> "idle", left |-> {}, builds |-> 0]
    /\ package = [f \in Files |-> NoFile]
    /\ target = NoImage
    /\ temp = [p \in Publishers |-> NoImage]
    /\ live = {}
    /\ publ = [p \in Publishers |-> NoPublish]
    /\ faults = 0

-----------------------------------------------------------------------------
(* The contract.                                                             *)

verify_fat(file) == \A a \in Archs : file[a].good

verify_thin(file, a) == Has(file) = {a} /\ file[a].good

(* Mutant: the companions are only checked on their own. *)
CompanionsAlone(bundle) == TRUE

\* strict_slice_hashes: a slice of the fat file is its companion's.
SameSlices(bundle) == \A a \in Has(bundle["fat"]) : bundle["fat"][a] = bundle[a][a]

\* The fat file may have lost slices; those it has must meet the contract.
verify_bundle(bundle, strict) ==
    /\ Has(bundle["fat"]) # {}
    /\ \A a \in Archs : verify_thin(bundle[a], a)
    /\ \A a \in Has(bundle["fat"]) : bundle["fat"][a].good
    /\ strict => SameSlices(bundle)

-----------------------------------------------------------------------------
(* stage, on the build host, where the next build may finish at any time.    *)

Build ==
    /\ stager.builds < MaxBuilds
    /\ \E good \in [Archs -> BOOLEAN] :
         built' = [a \in Archs |-> [build |-> stager.builds + 1, good |-> good[a]]]
    /\ stager' = [stager EXCEPT !.builds = @ + 1]
    /\ UNCHANGED <<staged, package, target, temp, live, publ, faults>>

StageStep(next, files) ==
    /\ stager' = next
    /\ staged' = files
    /\ UNCHANGED <<built, package, target, temp, live, publ, faults>>

StageFailed == [stager EXCEPT !.pc = "idle", !.left = {}]

\* The build is checked, then what an earlier stage left is removed.
StageBegins ==
    /\ stager.pc \in {"idle", "staged"} /\ Has(built) # {}
    /\ IF verify_fat(built)
       THEN StageStep([stager EXCEPT !.pc = "copy", !.left = Archs], [f \in Files |-> NoFile])
       ELSE StageStep(StageFailed, staged)

StageCopy ==
    /\ stager.pc = "copy"
    /\ StageStep([stager EXCEPT !.pc = "thin"], [staged EXCEPT !["fat"] = built])

\* lipo -thin reads the build again for every architecture.
StageThin(a) ==
    /\ stager.pc = "thin" /\ a \in stager.left
    /\ LET thin == Only(built, a)
       IN  StageStep(IF verify_thin(thin, a) THEN [stager EXCEPT !.left = @ \ {a}] ELSE StageFailed,
                     [staged EXCEPT ![a] = thin])

StageVerify ==
    /\ stager.pc = "thin" /\ stager.left = {}
    /\ StageStep(IF verify_bundle(staged, TRUE) THEN [stager EXCEPT !.pc = "staged"] ELSE StageFailed,
                 staged)

\* dpkg installs the files of a finished package one by one, and can thin the
\* fat one.
Unpack(f) ==
    /\ stager.pc = "staged"
    /\ \/ package' = [package EXCEPT ![f] = staged[f]]
       \/ /\ f = "fat"
          /\ \E a \in Archs : package' = [package EXCEPT ![f] = Only(staged[f], a)]
    /\ UNCHANGED <<built, staged, stager, target, temp, live, publ, faults>>

-----------------------------------------------------------------------------
(* publish, on the device.                                                   *)

Goes(p, pc) == publ' = [publ EXCEPT ![p].pc = pc]

\* The finally block removes the temporary file of this process.
PublishEnds(p) ==
    /\ publ' = [publ EXCEPT ![p] = NoPublish]
    /\ temp' = [temp EXCEPT ![p] = NoImage]

PublishBegins(p) ==
    /\ publ[p].pc = "idle" /\ verify_bundle(package, FALSE)
    /\ temp' = [temp EXCEPT ![p] = NoImage]
    /\ Goes(p, "create")
    /\ UNCHANGED <<built, staged, stager, package, target, live, faults>>

Joined == [a \in Archs |-> package[a][a]]

(* Mutant: lipo writes the provider itself. *)
CreatedInPlace(p) ==
    /\ target' = [slices |-> Joined, signed |-> FALSE]
    /\ temp' = [temp EXCEPT ![p] = target']

\* lipo -create into a name of its own.
Created(p) ==
    /\ temp' = [temp EXCEPT ![p] = [slices |-> Joined, signed |-> FALSE]]
    /\ UNCHANGED target

\* The result is checked; the companions are read again by then.
CreateFat(p) ==
    /\ publ[p].pc = "create"
    /\ Created(p)
    /\ Goes(p, "verify")
    /\ UNCHANGED <<built, staged, stager, package, live, faults>>

(* Mutant: only the slice of the running process is trusted. *)
HashesOfOne(p) == {<<"arm64", temp[p].slices["arm64"]>>}

\* The code directory hashes of both slices, as ldid prints them.
HashesOf(p) == {<<a, temp[p].slices[a]>> : a \in Archs}

\* Signed twice, checked again, then hashed.
Sign(p) ==
    /\ publ[p].pc = "verify"
    /\ \/ /\ ~verify_fat(temp[p].slices) /\ PublishEnds(p)
       \/ /\ verify_fat(temp[p].slices)
          /\ temp' = [temp EXCEPT ![p].signed = TRUE]
          /\ publ' = [publ EXCEPT ![p] = [pc |-> "trust", hashes |-> HashesOf(p)]]
    /\ UNCHANGED <<built, staged, stager, package, target, live, faults>>

\* _trust_hashes asks the trust cache after every addition.
TrustHash(p) ==
    /\ publ[p].pc = "trust"
    /\ \E h \in publ[p].hashes :
         /\ live' = live \cup {h}
         /\ publ' = [publ EXCEPT ![p].hashes = @ \ {h}]
    /\ UNCHANGED <<built, staged, stager, package, target, temp, faults>>

\* The rename; the target is verified afterwards and the temporary name is gone.
ReplaceTarget(p) ==
    /\ publ[p].pc = "trust" /\ publ[p].hashes = {}
    /\ target' = temp[p]
    /\ PublishEnds(p)
    /\ UNCHANGED <<built, staged, stager, package, live, faults>>

\* A tool fails, or the process is killed and leaves its temporary file.
PublishFails(p) ==
    /\ publ[p].pc # "idle" /\ faults < MaxFaults
    /\ faults' = faults + 1
    /\ \/ PublishEnds(p)
       \/ publ' = [publ EXCEPT ![p] = NoPublish] /\ UNCHANGED temp
    /\ UNCHANGED <<built, staged, stager, package, target, live>>

ProviderNext ==
    \/ Build \/ StageBegins \/ StageCopy \/ StageVerify
    \/ \E a \in Archs : StageThin(a)
    \/ \E f \in Files : Unpack(f)
    \/ \E p \in Publishers :
         \/ PublishBegins(p) \/ CreateFat(p) \/ Sign(p) \/ TrustHash(p) \/ ReplaceTarget(p)
         \/ PublishFails(p)

ProviderSpec == ProviderInit /\ [][ProviderNext]_providerVars

-----------------------------------------------------------------------------

(* A stage that succeeds packed one build: its three files agree although    *)
(* the build directory was read three times and may have been rebuilt        *)
(* between the reads.                                                        *)
StagedOneBuild ==
    stager.pc = "staged" => Cardinality({staged["fat"][a].build : a \in Archs}
                                          \cup {staged[a][a].build : a \in Archs}) = 1

(* dyld never meets a half written provider: from its first publication on,  *)
(* the target has both slices, meets the contract and is signed, also while  *)
(* a publisher runs, fails, is killed or competes with another.              *)
PublishedWhole ==
    target # NoImage => verify_fat(target.slices) /\ target.signed

(* Whatever provider has the name is executable in this boot: the hashes of  *)
(* both its slices are in the trust cache before it gets the name.           *)
PublishedTrusted ==
    target # NoImage => \A a \in Archs : <<a, target.slices[a]>> \in live
=============================================================================
