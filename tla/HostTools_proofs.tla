--------------------------- MODULE HostTools_proofs ---------------------------
(* What MCHostTools checks of the tools that install, prepare, relay,        *)
(* publish and measure, proved for any number of processes and any bounds:   *)
(* the trust cache walk of BootTrust, the backups of LegacyJobs, the         *)
(* libraries and routes of ShaderInstall, the messages of RelayMessage, the  *)
(* refresh of ManagedJob, the image of PrepareServer, the provider of        *)
(* ProviderContract, the waves of FirstRunPipeline, the walk of              *)
(* DependencyClosure, the settings and results of LocalBenchmark and the     *)
(* verdicts of WindowAcceptance.  Each section has the inductive invariant   *)
(* of one component; theorems about several parts of a run combine them.     *)
EXTENDS MCHostTools, SequencePieces, FiniteSetTheorems, TLAPS

-----------------------------------------------------------------------------
(* BootTrust.                                                                *)

RunFields == {"pc", "todo", "file", "stat", "code", "made", "records"}
RunShape(q) ==
    /\ DOMAIN q = RunFields /\ DOMAIN q.records = Images
    /\ q.pc \in {"read", "verify"} => q.file \in Images

TrustShape ==
    /\ DOMAIN disk = Images /\ DOMAIN manifest = Runs /\ DOMAIN resources = Runs
    /\ DOMAIN run = Runs /\ DOMAIN moved = Runs
    /\ \A r \in Runs : DOMAIN resources[r] = Images
    /\ reboots \in Nat

(* Identities are numbered in the order files appear, 0 stands for none.     *)
Identities ==
    /\ updates \in Nat
    /\ \A f \in Images : disk[f].id \in 1..updates
    /\ \A r \in Runs, f \in Images :
         manifest[r][f].id \in 0..updates /\ resources[r][f] \in 0..updates

RunIdentities(q) ==
    q.stat \in 0..updates /\ \A f \in Images : q.records[f].id \in 0..updates

(* What a run has read is true of the file as long as it is the same file.   *)
ReadTrue(q) ==
    /\ \A f \in Images : q.records[f].id = disk[f].id => q.records[f].code = disk[f].code
    /\ q.pc = "verify" /\ q.stat = disk[q.file].id => q.code = disk[q.file].code

(* Every image that stayed in its place and is no longer to do is recorded,  *)
(* and the records of a run that got past restore are trusted.               *)
Scanning == {"scan", "read", "verify", "restore", "save", "done"}
Recording(q, r) ==
    /\ q.pc \in Scanning =>
         \A f \in Images \ (moved[r] \cup q.todo) :
            disk[f].code.image # 0 => q.records[f].id = disk[f].id
    /\ q.pc \in {"restore", "save", "done"} => q.todo = {}
    /\ q.pc \in {"save", "done"} =>
         \A f \in Images : q.records[f].id # 0 => q.records[f].code \in trusted

(* The candidate is trusted before it replaces the main image, and the scan  *)
(* only begins after that.                                                   *)
Candidate(q) ==
    /\ q.pc \in {"candidate", "replace"} => q.todo = Images
    /\ q.pc = "replace" => q.made \in trusted

RunGood(q, r) ==
    RunShape(q) /\ RunIdentities(q) /\ ReadTrue(q) /\ Recording(q, r) /\ Candidate(q)

TrustInv ==
    /\ TrustShape /\ Identities /\ CachesTrue /\ PublishedIsTrusted
    /\ \A r \in Runs : RunGood(run[r], r)

LEMMA Becoming ==
  ASSUME DOMAIN run = Runs, NEW r \in Runs, NEW next, Becomes(r, next)
  PROVE  DOMAIN run' = Runs /\ run'[r] = next /\ \A x \in Runs \ {r} : run'[x] = run[x]
BY DEF Becomes

LEMMA NoRunGood == ASSUME updates \in Nat, Identities, NEW r PROVE RunGood(NoRun, r)
BY DEF RunGood, NoRun, RunShape, RunFields, RunIdentities, ReadTrue, Recording, Candidate,
       Scanning, NoRecord, Identities

(* A step of one run that changes nothing else.                              *)
LEMMA OnlyRun ==
  ASSUME TrustInv, NEW r \in Runs, NEW next, RunGood(next, r), Becomes(r, next),
         UNCHANGED <<disk, trusted, manifest, resources, updates, reboots, moved>>
  PROVE  TrustInv'
<1>1. DOMAIN run' = Runs /\ run'[r] = next /\ \A x \in Runs \ {r} : run'[x] = run[x]
  BY Becoming DEF TrustInv, TrustShape
<1>2. \A x \in Runs : RunGood(run[x], x)'
  <2> TAKE x \in Runs
  <2>1. CASE x = r
    BY <1>1, <2>1 DEF RunGood, RunShape, RunIdentities, ReadTrue, Recording, Candidate
  <2>2. CASE x # r
    BY <1>1, <2>2 DEF TrustInv, RunGood, RunShape, RunIdentities, ReadTrue, Recording, Candidate
  <2> QED  BY <2>1, <2>2
<1> QED
  BY <1>1, <1>2 DEF TrustInv, TrustShape, Identities, CachesTrue, PublishedIsTrusted

(* Growing the trust cache and forgetting what was moved.                    *)
LEMMA TrustGrows ==
  ASSUME NEW q, NEW r \in Runs, RunGood(q, r), trusted \subseteq trusted',
         UNCHANGED <<disk, updates>>, moved' = moved
  PROVE  RunGood(q, r)'
BY DEF RunGood, RunShape, RunIdentities, ReadTrue, Recording, Candidate

LEMMA TrustStart ==
  ASSUME TrustInv, NEW r \in Runs, NEW next, Becomes(r, next),
         \/ next = NoRun
         \/ /\ next.pc \in {"scan", "candidate"} /\ next.todo = Images
            /\ RunShape(next) /\ next.records = NoRun.records /\ next.stat \in 0..updates,
         moved' = [moved EXCEPT ![r] = {}],
         UNCHANGED <<disk, trusted, manifest, resources, updates, reboots>>
  PROVE  TrustInv'
<1>1. DOMAIN run' = Runs /\ run'[r] = next /\ \A x \in Runs \ {r} : run'[x] = run[x]
  BY Becoming DEF TrustInv, TrustShape
<1>2. ASSUME NEW x \in Runs PROVE RunGood(run[x], x)'
  <2>1. CASE x = r /\ next = NoRun
    BY <1>1, <2>1 DEF RunGood, NoRun, RunShape, RunFields, RunIdentities, ReadTrue,
         Recording, Candidate, Scanning, NoRecord, TrustInv, Identities
  <2>2. CASE x = r /\ next # NoRun
    <3>1. \A f \in Images : next.records[f].id = 0
      BY <2>2 DEF NoRun, NoRecord
    <3>2. RunShape(next) /\ RunIdentities(next)' /\ Candidate(next)'
      BY <2>2, <3>1 DEF RunIdentities, Candidate, TrustInv, Identities
    <3>3. ReadTrue(next)' /\ Recording(next, r)'
      BY <2>2, <3>1 DEF ReadTrue, Recording, TrustInv, Identities, Scanning
    <3> QED  BY <1>1, <2>2, <3>2, <3>3 DEF RunGood, RunShape, RunIdentities, ReadTrue, Recording, Candidate
  <2>3. CASE x # r
    <3>1. moved'[x] = moved[x]  BY <2>3 DEF TrustInv, TrustShape
    <3> QED
      BY <1>1, <2>3, <3>1 DEF TrustInv, RunGood, RunShape, RunIdentities, ReadTrue, Recording, Candidate
  <2> QED  BY <2>1, <2>2, <2>3
<1> QED
  BY <1>1, <1>2 DEF TrustInv, TrustShape, Identities, CachesTrue, PublishedIsTrusted

(* Another file in the place of f: nothing recorded has its identity.        *)
LEMMA Displaced ==
  ASSUME TrustInv, NEW f \in Images, NEW code, updates' = updates + 1,
         disk' = [disk EXCEPT ![f] = [id |-> updates + 1, code |-> code]],
         UNCHANGED <<trusted, manifest, resources>>
  PROVE  /\ Identities' /\ CachesTrue' /\ DOMAIN disk' = Images
         /\ \A q, r : RunGood(q, r) /\ r \in Runs /\ moved[r] \subseteq moved'[r]
                      /\ (f \in moved'[r] \/ q.todo = Images) => RunGood(q, r)'
<1>1. /\ DOMAIN disk' = Images /\ disk'[f].id = updates + 1 /\ disk'[f].code = code
      /\ \A g \in Images \ {f} : disk'[g] = disk[g]
  BY DEF TrustInv, TrustShape
<1>2. Identities'
  BY <1>1 DEF TrustInv, Identities
<1>3. CachesTrue'
  <2> SUFFICES ASSUME NEW r \in Runs, NEW g \in Images
               PROVE  /\ manifest[r][g].id = disk'[g].id => manifest[r][g].code = disk'[g].code
                      /\ resources[r][g] = disk'[g].id => disk'[g].code.image = 0
    BY DEF CachesTrue
  <2>1. manifest[r][g].id \in 0..updates /\ resources[r][g] \in 0..updates /\ updates \in Nat
    BY DEF TrustInv, Identities
  <2> QED  BY <1>1, <2>1 DEF TrustInv, CachesTrue
<1>4. ASSUME NEW q, NEW r, RunGood(q, r), r \in Runs, moved[r] \subseteq moved'[r],
             f \in moved'[r] \/ q.todo = Images
      PROVE  RunGood(q, r)'
  <2>0. updates \in Nat  BY DEF TrustInv, Identities
  <2>1. RunShape(q)' /\ RunIdentities(q)' /\ Candidate(q)'
    BY <1>4, <2>0 DEF RunGood, RunShape, RunIdentities, Candidate
  <2>2. ReadTrue(q)'
    BY <1>1, <1>4, <2>0 DEF RunGood, ReadTrue, RunIdentities, RunShape
  <2>3. Recording(q, r)'
    <3>1. ASSUME q.pc \in Scanning, NEW g \in Images \ (moved'[r] \cup q.todo),
                 disk'[g].code.image # 0
          PROVE  q.records[g].id = disk'[g].id
      <4>1. g # f  BY <1>4, <3>1
      <4> QED  BY <1>1, <1>4, <3>1, <4>1 DEF RunGood, Recording
    <3> QED  BY <1>4, <3>1 DEF RunGood, Recording
  <2> QED  BY <2>1, <2>2, <2>3 DEF RunGood, RunShape, RunIdentities, ReadTrue, Recording, Candidate
<1> QED  BY <1>1, <1>2, <1>3, <1>4

LEMMA TrustStep == TrustInv /\ [TrustNext]_trustVars => TrustInv'
<1> SUFFICES ASSUME TrustInv, [TrustNext]_trustVars PROVE TrustInv'
  OBVIOUS
<1> USE TrustAssumption
<1>0. /\ updates \in Nat /\ Identities /\ TrustShape
      /\ \A r \in Runs : RunGood(run[r], r)
  BY DEF TrustInv, Identities
<1>1. CASE StartApp
  <2> DEFINE next == [NoRun EXCEPT
                  !.pc = IF disk[Main].code.profile THEN "scan" ELSE "candidate",
                  !.todo = Images,
                  !.stat = disk[Main].id,
                  !.made = [disk[Main].code EXCEPT !.profile = TRUE]]
  <2>1. /\ RunShape(next) /\ next.records = NoRun.records /\ next.stat \in 0..updates
        /\ next.todo = Images /\ next.pc \in {"scan", "candidate"}
    BY <1>0 DEF RunShape, NoRun, RunFields, Identities
  <2>2. Becomes("app", next) \/ Becomes("app", NoRun)
    BY <1>1 DEF StartApp, Restarts, Becomes
  <2> HIDE DEF next
  <2> QED  BY <1>1, <2>1, <2>2, TrustStart DEF StartApp, Runs
<1>2. CASE TrustCandidate
  <2> DEFINE next == [run["app"] EXCEPT !.pc = "replace"]
  <2>1. trusted' = trusted \cup {run["app"].made} /\ Becomes("app", next)
    BY <1>2 DEF TrustCandidate, TrustedWith
  <2>2. \A r \in Runs : RunGood(run[r], r)'
    <3> TAKE r \in Runs
    <3>1. CASE r = "app"
      <4>1. RunGood(run["app"], "app") /\ run["app"].pc = "candidate"
        BY <1>0, <1>2 DEF TrustCandidate, Runs
      <4>2. run'["app"] = next
        BY <2>1, Becoming DEF TrustInv, TrustShape, Runs
      <4>3. /\ next.pc = "replace" /\ next.todo = run["app"].todo
            /\ next.stat = run["app"].stat /\ next.records = run["app"].records
            /\ next.made = run["app"].made /\ DOMAIN next = RunFields
        BY <4>1 DEF RunGood, RunShape, RunFields
      <4> HIDE DEF next
      <4> QED
        BY <1>2, <2>1, <3>1, <4>1, <4>2, <4>3
        DEF TrustCandidate, RunGood, RunShape, RunIdentities, ReadTrue, Recording, Candidate, Scanning
    <3>2. CASE r # "app"
      <4>1. run'[r] = run[r]
        BY <2>1, <3>2, Becoming DEF TrustInv, TrustShape, Runs
      <4> QED  BY <1>0, <1>2, <2>1, <4>1, TrustGrows DEF TrustCandidate, RunGood, RunShape, RunIdentities, ReadTrue, Recording, Candidate
    <3> QED  BY <3>1, <3>2
  <2>3. DOMAIN run' = Runs  BY <2>1, Becoming DEF TrustInv, TrustShape, Runs
  <2> QED
    BY <1>0, <1>2, <2>1, <2>2, <2>3
    DEF TrustCandidate, TrustInv, TrustShape, Identities, CachesTrue, PublishedIsTrusted
<1>3. CASE ReplaceMain
  <2> DEFINE next == [run["app"] EXCEPT !.pc = "scan", !.stat = 0, !.made = NoCode]
  <2>0. RunGood(run["app"], "app") /\ run["app"].pc = "replace"
    BY <1>0, <1>3 DEF ReplaceMain, Runs
  <2>1. CASE disk[Main].id # run["app"].stat
    BY <1>0, <1>3, <2>1, NoRunGood, OnlyRun DEF ReplaceMain, Restarts, Becomes, Runs
  <2>2. CASE disk[Main].id = run["app"].stat
    <3>1. /\ updates' = updates + 1
          /\ disk' = [disk EXCEPT ![Main] = [id |-> updates + 1, code |-> run["app"].made]]
          /\ moved' = [moved EXCEPT !["boot"] = @ \cup {Main}]
          /\ Becomes("app", next) /\ UNCHANGED <<trusted, manifest, resources, reboots>>
      BY <1>3, <2>2 DEF ReplaceMain
    <3>2. /\ next.pc = "scan" /\ next.todo = Images /\ next.stat = 0
          /\ next.records = run["app"].records /\ DOMAIN next = RunFields
      BY <2>0 DEF RunGood, RunShape, RunFields, Candidate
    <3> HIDE DEF next
    <3>3. RunGood(next, "app")
      BY <1>0, <2>0, <3>2 DEF RunGood, RunShape, RunIdentities, ReadTrue, Recording, Candidate, Scanning
    <3>4. moved'["app"] = moved["app"] /\ Main \in moved'["boot"] /\ moved["boot"] \subseteq moved'["boot"]
          /\ DOMAIN moved' = Runs
      BY <3>1 DEF TrustInv, TrustShape, Runs
    <3>5. /\ Identities' /\ CachesTrue' /\ DOMAIN disk' = Images
          /\ \A q, r : RunGood(q, r) /\ r \in Runs /\ moved[r] \subseteq moved'[r]
                      /\ (Main \in moved'[r] \/ q.todo = Images) => RunGood(q, r)'
      BY <3>1, Displaced
    <3>6. run'["app"] = next /\ run'["boot"] = run["boot"] /\ DOMAIN run' = Runs
      BY <3>1, Becoming DEF TrustInv, TrustShape, Runs
    <3>7. \A r \in Runs : RunGood(run[r], r)'
      <4>1. PICK n, b : n = next /\ b = run["boot"]
        OBVIOUS
      <4>2. RunGood(n, "app")'
        BY <3>2, <3>3, <3>4, <3>5, <4>1 DEF Runs
      <4>3. RunGood(b, "boot")'
        BY <1>0, <3>4, <3>5, <4>1 DEF Runs
      <4>4. run'["app"] = n /\ run'["boot"] = b
        BY <3>6, <4>1
      <4> QED
        BY <4>2, <4>3, <4>4 DEF Runs, RunGood, RunShape, RunIdentities, ReadTrue, Recording, Candidate
    <3>8. PublishedIsTrusted'
      BY <2>0, <3>1 DEF RunGood, Candidate, PublishedIsTrusted, TrustInv, TrustShape
    <3> QED
      BY <3>1, <3>4, <3>5, <3>6, <3>7, <3>8 DEF TrustInv, TrustShape
  <2> QED  BY <2>1, <2>2
<1>4. CASE StartBoot
  <2> DEFINE next == [NoRun EXCEPT !.pc = "scan", !.todo = Images]
  <2>1. /\ RunShape(next) /\ next.records = NoRun.records /\ next.stat \in 0..updates
        /\ next.todo = Images /\ next.pc \in {"scan", "candidate"}
    BY <1>0 DEF RunShape, NoRun, RunFields
  <2>2. Becomes("boot", next)
    BY <1>4 DEF StartBoot
  <2> HIDE DEF next
  <2> QED  BY <1>4, <2>1, <2>2, TrustStart DEF StartBoot, Runs
<1>5. CASE Reboot
  <2>1. \A r \in Runs : run'[r] = NoRun /\ RunGood(NoRun, r)'
    BY <1>0, <1>5 DEF Reboot, RunGood, NoRun, RunShape, RunFields, RunIdentities, ReadTrue,
         Recording, Candidate, Scanning, NoRecord, TrustInv, Identities
  <2>2. \A r \in Runs : RunGood(run[r], r)'
    BY <2>1 DEF RunGood, RunShape, RunIdentities, ReadTrue, Recording, Candidate
  <2> QED
    BY <1>5, <2>2 DEF Reboot, TrustInv, TrustShape, Identities, CachesTrue, PublishedIsTrusted
<1>6. ASSUME NEW f \in Images, Update(f) PROVE TrustInv'
  <2>0. PICK image : Replaced(f, [image |-> image, profile |-> FALSE])
    BY <1>6 DEF Update
  <2>1. PICK code : /\ code = [image |-> image, profile |-> FALSE] /\ updates' = updates + 1
                    /\ disk' = [disk EXCEPT ![f] = [id |-> updates + 1, code |-> code]]
                    /\ moved' = [r \in Runs |-> moved[r] \cup {f}]
                    /\ UNCHANGED <<trusted, manifest, resources, run, reboots>>
    BY <1>6, <2>0 DEF Update, Replaced
  <2>2. /\ Identities' /\ CachesTrue' /\ DOMAIN disk' = Images
        /\ \A r \in Runs : RunGood(run[r], r)'
    <3>1. \A r \in Runs : moved[r] \subseteq moved'[r] /\ f \in moved'[r]
      BY <2>1
    <3>2. /\ Identities' /\ CachesTrue' /\ DOMAIN disk' = Images
          /\ \A q, r : RunGood(q, r) /\ r \in Runs /\ moved[r] \subseteq moved'[r]
                      /\ (f \in moved'[r] \/ q.todo = Images) => RunGood(q, r)'
      BY <2>1, Displaced
    <3> QED
      BY <1>0, <2>1, <3>1, <3>2 DEF RunGood, RunShape, RunIdentities, ReadTrue, Recording, Candidate
  <2>3. PublishedIsTrusted'
    BY <2>1 DEF PublishedIsTrusted, TrustInv, TrustShape
  <2> QED  BY <2>1, <2>2, <2>3 DEF TrustInv, TrustShape
<1>7. ASSUME NEW r \in Runs, Fails(r) PROVE TrustInv'
  BY <1>0, <1>7, NoRunGood, OnlyRun DEF Fails, Becomes
<1>8. ASSUME NEW r \in Runs, ScanRead(r) PROVE TrustInv'
  <2> DEFINE next == [run[r] EXCEPT !.pc = "verify", !.code = disk[run[r].file].code]
  <2>1. RunGood(run[r], r) /\ run[r].pc = "read"
    BY <1>0, <1>8 DEF ScanRead
  <2>2. /\ next.pc = "verify" /\ next.todo = run[r].todo /\ next.stat = run[r].stat
        /\ next.file = run[r].file /\ next.code = disk[run[r].file].code
        /\ next.records = run[r].records /\ DOMAIN next = RunFields
    BY <2>1 DEF RunGood, RunShape, RunFields
  <2>3. Becomes(r, next)  BY <1>8 DEF ScanRead
  <2> HIDE DEF next
  <2>4. RunGood(next, r)
    BY <2>1, <2>2 DEF RunGood, RunShape, RunIdentities, ReadTrue, Recording, Candidate, Scanning
  <2> QED  BY <1>8, <2>3, <2>4, OnlyRun DEF ScanRead
<1>9. ASSUME NEW r \in Runs, ScanVerify(r) PROVE TrustInv'
  <2> DEFINE f == run[r].file
             next == [run[r] EXCEPT !.pc = "scan", !.stat = 0, !.code = NoCode, !.todo = @ \ {f}]
             taken == [next EXCEPT !.records[f] = [id |-> KeyOf(r), code |-> run[r].code]]
  <2>0. RunGood(run[r], r) /\ run[r].pc = "verify"
    BY <1>0, <1>9 DEF ScanVerify
  <2>1. f \in Images  BY <2>0 DEF RunGood, RunShape
  <2>2. /\ next.pc = "scan" /\ next.todo = run[r].todo \ {f} /\ next.stat = 0
        /\ next.records = run[r].records /\ DOMAIN next = RunFields
    BY <2>0 DEF RunGood, RunShape, RunFields
  <2>3. /\ taken.pc = "scan" /\ taken.todo = run[r].todo \ {f} /\ taken.stat = 0
        /\ taken.records = [run[r].records EXCEPT ![f] = [id |-> KeyOf(r), code |-> run[r].code]]
        /\ DOMAIN taken = RunFields
    BY <2>2 DEF RunFields
  <2>4. \/ Becomes(r, NoRun) /\ resources' = resources
        \/ disk[f].id = KeyOf(r) /\ Becomes(r, taken) /\ resources' = resources
        \/ /\ disk[f].id = KeyOf(r) /\ run[r].code.image = 0 /\ Becomes(r, next)
           /\ resources' = [resources EXCEPT ![r][f] = KeyOf(r)]
    BY <1>9 DEF ScanVerify, Restarts, Becomes
  <2>5. UNCHANGED <<disk, trusted, manifest, updates, reboots, moved>>
    BY <1>9 DEF ScanVerify
  <2>6. disk[f].id = KeyOf(r) => run[r].code = disk[f].code
    BY <2>0 DEF RunGood, ReadTrue, KeyOf
  <2> HIDE DEF f, next, taken
  <2>7. CASE Becomes(r, NoRun) /\ resources' = resources
    BY <1>0, <2>5, <2>7, NoRunGood, OnlyRun
  <2>8. CASE disk[f].id = KeyOf(r) /\ Becomes(r, taken) /\ resources' = resources
    <3>1. /\ DOMAIN taken.records = Images /\ taken.records[f].id = disk[f].id
          /\ taken.records[f].code = disk[f].code
          /\ \A g \in Images \ {f} : taken.records[g] = run[r].records[g]
      BY <2>0, <2>1, <2>3, <2>6, <2>8 DEF RunGood, RunShape
    <3>2. disk[f].id \in 0..updates  BY <1>0, <2>1 DEF Identities
    <3>3. RunShape(taken) /\ RunIdentities(taken) /\ Candidate(taken)
      BY <1>0, <2>0, <2>3, <3>1, <3>2 DEF RunGood, RunShape, RunIdentities, Candidate
    <3>4. ReadTrue(taken)
      BY <2>0, <2>3, <3>1 DEF RunGood, ReadTrue
    <3>5. Recording(taken, r)
      BY <2>0, <2>3, <3>1 DEF RunGood, Recording, Scanning
    <3>6. RunGood(taken, r)  BY <3>3, <3>4, <3>5 DEF RunGood
    <3> QED  BY <2>5, <2>8, <3>6, OnlyRun
  <2>9. CASE /\ disk[f].id = KeyOf(r) /\ run[r].code.image = 0 /\ Becomes(r, next)
             /\ resources' = [resources EXCEPT ![r][f] = KeyOf(r)]
    <3>1. RunGood(next, r)
      BY <1>0, <2>0, <2>2, <2>6, <2>9
      DEF RunGood, RunShape, RunIdentities, ReadTrue, Recording, Candidate, Scanning
    <3>2. DOMAIN run' = Runs /\ run'[r] = next /\ \A x \in Runs \ {r} : run'[x] = run[x]
      BY <2>9, Becoming DEF TrustInv, TrustShape
    <3>3. \A x \in Runs : RunGood(run[x], x)'
      BY <1>0, <2>5, <3>1, <3>2 DEF RunGood, RunShape, RunIdentities, ReadTrue, Recording, Candidate
    <3>4. /\ DOMAIN resources' = Runs /\ \A x \in Runs : DOMAIN resources'[x] = Images
          /\ \A x \in Runs, g \in Images :
               \/ resources'[x][g] = resources[x][g]
               \/ g = f /\ resources'[x][g] = disk[f].id
      <4>1. DOMAIN resources = Runs /\ \A x \in Runs : DOMAIN resources[x] = Images
        BY DEF TrustInv, TrustShape
      <4>2. DOMAIN resources' = Runs /\ resources'[r] = [resources[r] EXCEPT ![f] = KeyOf(r)]
            /\ \A x \in Runs \ {r} : resources'[x] = resources[x]
        BY <2>9, <4>1
      <4>3. DOMAIN resources'[r] = Images /\ resources'[r][f] = disk[f].id
            /\ \A g \in Images \ {f} : resources'[r][g] = resources[r][g]
        BY <2>1, <2>9, <4>1, <4>2
      <4>4. \A x \in Runs : DOMAIN resources'[x] = Images
        BY <4>1, <4>2, <4>3
      <4>5. \A x \in Runs, g \in Images : \/ resources'[x][g] = resources[x][g]
                                          \/ g = f /\ resources'[x][g] = disk[f].id
        BY <4>2, <4>3
      <4> QED  BY <4>2, <4>4, <4>5
    <3>5. Identities' /\ CachesTrue'
      BY <2>1, <2>5, <2>6, <2>9, <3>4 DEF TrustInv, Identities, CachesTrue
    <3> QED  BY <2>5, <3>2, <3>3, <3>4, <3>5 DEF TrustInv, TrustShape, PublishedIsTrusted
  <2> QED  BY <2>4, <2>7, <2>8, <2>9
<1>10. ASSUME NEW r \in Runs, Admit(r) PROVE TrustInv'
  <2> DEFINE next == [run[r] EXCEPT !.pc = "restore"]
  <2>1. RunGood(run[r], r) /\ run[r].pc = "scan" /\ run[r].todo = {}
    BY <1>0, <1>10 DEF Admit
  <2>2. /\ next.pc = "restore" /\ next.todo = run[r].todo /\ next.stat = run[r].stat
        /\ next.records = run[r].records /\ DOMAIN next = RunFields
    BY <2>1 DEF RunGood, RunShape, RunFields
  <2>3. Becomes(r, next) \/ Becomes(r, NoRun)
    BY <1>10 DEF Admit, Restarts, Becomes
  <2> HIDE DEF next
  <2>4. RunGood(next, r)
    BY <2>1, <2>2 DEF RunGood, RunShape, RunIdentities, ReadTrue, Recording, Candidate, Scanning
  <2> QED  BY <1>0, <1>10, <2>3, <2>4, NoRunGood, OnlyRun DEF Admit
<1>11. ASSUME NEW r \in Runs, restore(r) PROVE TrustInv'
  <2> DEFINE next == [run[r] EXCEPT !.pc = "save"]
  <2>1. RunGood(run[r], r) /\ run[r].pc = "restore"
    BY <1>0, <1>11 DEF restore
  <2>2. /\ next.pc = "save" /\ next.todo = run[r].todo /\ next.stat = run[r].stat
        /\ next.records = run[r].records /\ DOMAIN next = RunFields
    BY <2>1 DEF RunGood, RunShape, RunFields
  <2>3. \/ trusted \subseteq trusted' /\ run' = run
        \/ Missing(r) = {} /\ Becomes(r, next) /\ trusted' = trusted
    BY <1>11 DEF restore
  <2> HIDE DEF next
  <2>4. CASE trusted \subseteq trusted' /\ run' = run
    <3>1. \A x \in Runs : RunGood(run[x], x)'
      BY <1>0, <1>11, <2>4, TrustGrows
      DEF restore, RunGood, RunShape, RunIdentities, ReadTrue, Recording, Candidate
    <3> QED
      BY <1>11, <2>4, <3>1
      DEF restore, TrustInv, TrustShape, Identities, CachesTrue, PublishedIsTrusted
  <2>5. CASE Missing(r) = {} /\ Becomes(r, next) /\ trusted' = trusted
    <3>1. \A f \in Images : run[r].records[f].id # 0 => run[r].records[f].code \in trusted
      BY <2>5 DEF Missing, Hashes, Recorded
    <3>2. RunGood(next, r)
      BY <2>1, <2>2, <3>1
      DEF RunGood, RunShape, RunIdentities, ReadTrue, Recording, Candidate, Scanning
    <3> QED  BY <1>11, <2>5, <3>2, OnlyRun DEF restore
  <2> QED  BY <2>3, <2>4, <2>5
<1>12. ASSUME NEW r \in Runs, save_cache(r) PROVE TrustInv'
  <2> DEFINE next == [run[r] EXCEPT !.pc = "done"]
  <2>1. RunGood(run[r], r) /\ run[r].pc = "save"
    BY <1>0, <1>12 DEF save_cache
  <2>2. /\ next.pc = "done" /\ next.todo = run[r].todo /\ next.stat = run[r].stat
        /\ next.records = run[r].records /\ DOMAIN next = RunFields
    BY <2>1 DEF RunGood, RunShape, RunFields
  <2>3. Becomes(r, next)  BY <1>12 DEF save_cache
  <2> HIDE DEF next
  <2>4. RunGood(next, r)
    BY <2>1, <2>2 DEF RunGood, RunShape, RunIdentities, ReadTrue, Recording, Candidate, Scanning
  <2>5. DOMAIN run' = Runs /\ run'[r] = next /\ \A x \in Runs \ {r} : run'[x] = run[x]
    BY <2>3, Becoming DEF TrustInv, TrustShape
  <2>6. ASSUME NEW x \in Runs PROVE RunGood(run[x], x)'
    <3>1. UNCHANGED <<disk, trusted, updates, moved>>
      BY <1>12 DEF save_cache
    <3>2. RunGood(run'[x], x)
      BY <1>0, <2>4, <2>5
    <3> QED
      BY <3>1, <3>2 DEF RunGood, RunShape, RunIdentities, ReadTrue, Recording, Candidate
  <2>7. /\ DOMAIN manifest' = Runs /\ manifest'[r] = run[r].records
        /\ \A x \in Runs \ {r} : manifest'[x] = manifest[x]
    BY <1>12 DEF save_cache, TrustInv, TrustShape
  <2>8. Identities' /\ CachesTrue'
    BY <1>12, <2>1, <2>7
    DEF save_cache, RunGood, RunIdentities, ReadTrue, TrustInv, Identities, CachesTrue
  <2> QED  BY <1>12, <2>5, <2>6, <2>7, <2>8 DEF save_cache, TrustInv, TrustShape, PublishedIsTrusted
<1>13. ASSUME NEW r \in Runs, NEW f \in Images, ScanCached(r, f) PROVE TrustInv'
  <2> DEFINE rec == IF CachedCode(r, f) THEN manifest[r][f] ELSE NoRecord
             next == [run[r] EXCEPT !.todo = @ \ {f}, !.records[f] = rec]
  <2>1. RunGood(run[r], r) /\ run[r].pc = "scan" /\ Becomes(r, next)
    BY <1>0, <1>13 DEF ScanCached
  <2>2. /\ rec.id \in 0..updates /\ (rec.id = disk[f].id => rec.code = disk[f].code)
        /\ disk[f].code.image # 0 => rec.id = disk[f].id
    BY <1>0, <1>13 DEF ScanCached, CachedCode, KnownResource, NoRecord, Identities, CachesTrue, TrustInv
  <2> HIDE DEF rec
  <2>3. /\ next.pc = "scan" /\ next.todo = run[r].todo \ {f} /\ next.stat = run[r].stat
        /\ DOMAIN next = RunFields /\ DOMAIN next.records = Images
        /\ next.records[f] = rec
        /\ \A g \in Images \ {f} : next.records[g] = run[r].records[g]
    BY <2>1 DEF RunGood, RunShape, RunFields
  <2> HIDE DEF next
  <2>4. RunGood(next, r)
    BY <2>1, <2>2, <2>3 DEF RunGood, RunShape, RunIdentities, ReadTrue, Recording, Candidate, Scanning
  <2> QED  BY <1>13, <2>1, <2>4, OnlyRun DEF ScanCached
<1>14. ASSUME NEW r \in Runs, NEW f \in Images, ScanOpen(r, f) PROVE TrustInv'
  <2> DEFINE next == [run[r] EXCEPT !.pc = "read", !.file = f, !.stat = disk[f].id]
  <2>1. RunGood(run[r], r) /\ run[r].pc = "scan" /\ Becomes(r, next)
    BY <1>0, <1>14 DEF ScanOpen
  <2>2. /\ next.pc = "read" /\ next.todo = run[r].todo /\ next.stat = disk[f].id
        /\ next.file = f /\ next.records = run[r].records /\ DOMAIN next = RunFields
    BY <2>1 DEF RunGood, RunShape, RunFields
  <2>3. disk[f].id \in 0..updates  BY <1>0 DEF Identities
  <2> HIDE DEF next
  <2>4. RunGood(next, r)
    BY <2>1, <2>2, <2>3 DEF RunGood, RunShape, RunIdentities, ReadTrue, Recording, Candidate, Scanning
  <2> QED  BY <1>14, <2>1, <2>4, OnlyRun DEF ScanOpen
<1>15. CASE UNCHANGED trustVars
  BY <1>0, <1>15 DEF trustVars, TrustInv, TrustShape, Identities, CachesTrue, PublishedIsTrusted,
     RunGood, RunShape, RunIdentities, ReadTrue, Recording, Candidate
<1> QED
  BY <1>1, <1>2, <1>3, <1>4, <1>5, <1>6, <1>7, <1>8, <1>9, <1>10, <1>11, <1>12, <1>13,
     <1>14, <1>15 DEF TrustNext

(* What is called trusted is trusted, for any files, updates and reboots.    *)
THEOREM TrustSoundAlways == TrustSpec => []TrustSound
<1>1. TrustInit => TrustInv
  <2> SUFFICES ASSUME TrustInit PROVE TrustInv
    OBVIOUS
  <2>1. TrustShape /\ Identities
    BY DEF TrustInit, TrustShape, Identities, NoRecord
  <2>2. \A r \in Runs : RunGood(run[r], r)
    BY <2>1, NoRunGood DEF TrustInit, Identities
  <2> QED  BY TrustAssumption, <2>1, <2>2 DEF TrustInit, TrustInv, CachesTrue, PublishedIsTrusted, NoRecord
<1>2. TrustInv => TrustSound
  <2> SUFFICES ASSUME TrustInv PROVE SuccessTrustsAll
    BY DEF TrustInv, TrustSound
  <2> SUFFICES ASSUME NEW r \in Runs, run[r].pc = "done", NEW f \in Images \ moved[r],
                      disk[f].code.image # 0
               PROVE  disk[f].code \in trusted
    BY DEF SuccessTrustsAll
  <2> QED
    BY DEF TrustInv, RunGood, Recording, ReadTrue, Scanning, Identities
<1> QED  BY <1>1, <1>2, TrustStep, PTL DEF TrustSpec

-----------------------------------------------------------------------------
(* LegacyJobs.                                                               *)

RetireFields == {"pc", "left", "planned", "at", "failed"}
RetireStages == {"install", "idle", "inventory", "archive", "recheck", "unlink", "done"}
Removing == {"archive", "recheck", "unlink"}
LegacyShape ==
    /\ DOMAIN retire = RetireFields /\ DOMAIN boot = JobNames
    /\ replaced \in Nat

(* What the inventory has passed is no unknown job of the installation, and  *)
(* without a replacement whatever is legacy is planned.                      *)
Looked ==
    /\ retire.pc \in {"inventory"} \cup Removing =>
         \A j \in JobNames : retire.pc \in Removing \/ j \notin retire.left
                               => boot[j] # [kind |-> "unknown", inode |-> 1]
    /\ retire.pc \in {"inventory"} \cup Removing /\ replaced = 0 =>
         \A j \in JobNames : (retire.pc \in Removing \/ j \notin retire.left)
                                /\ boot[j].kind = "retired" => Version(j) \in retire.planned

AtArchived == retire.pc \in {"recheck", "unlink"} => retire.at \in archived

LegacyInv == LegacyShape /\ Looked /\ AtArchived /\ LegacyAllRetired

LEMMA LegacyStep == LegacyInv /\ [LegacyNext]_legacyVars => LegacyInv'
<1> SUFFICES ASSUME LegacyInv, [LegacyNext]_legacyVars PROVE LegacyInv'
  OBVIOUS
<1> USE DEF LegacyInv, LegacyShape, RetireFields, Removing
<1>1. CASE Installed
  BY <1>1 DEF Installed, NotRunning, Looked, AtArchived, LegacyAllRetired
<1>2. CASE RetireKilled
  BY <1>2 DEF RetireKilled, NotRunning, Looked, AtArchived, LegacyAllRetired
<1>3. CASE StartRetiring
  BY <1>3 DEF StartRetiring, NotRunning, Looked, AtArchived, LegacyAllRetired
<1>4. CASE Validated
  <2>1. /\ DOMAIN retire' = RetireFields /\ retire'.pc = "archive" /\ retire'.planned = retire.planned
        /\ retire.pc = "inventory" /\ retire.left = {} /\ UNCHANGED <<boot, archived, replaced>>
    BY <1>4 DEF Validated
  <2> QED
    BY <2>1 DEF Looked, AtArchived, LegacyAllRetired, Version
<1>5. CASE Retired
  BY <1>5 DEF Retired, NotRunning, Looked, AtArchived, LegacyAllRetired
<1>6. ASSUME NEW j \in JobNames, Inventory(j) PROVE LegacyInv'
  <2>1. retire.pc = "inventory" /\ UNCHANGED <<boot, archived, replaced>>
    BY <1>6 DEF Inventory
  <2>2. CASE boot[j].kind = "unknown"
    BY <1>6, <2>2 DEF Inventory, recognized_legacy, RetireError, NotRunning, Looked, AtArchived,
         LegacyAllRetired
  <2>3. CASE boot[j].kind # "unknown"
    <3> DEFINE planned == IF boot[j].kind = "retired" THEN retire.planned \cup {Version(j)}
                          ELSE retire.planned
    <3>1. retire' = [retire EXCEPT !.left = retire.left \ {j}, !.planned = planned]
      BY <1>6, <2>3 DEF Inventory, recognized_legacy
    <3>2. retire.planned \subseteq planned
          /\ (boot[j].kind = "retired" => Version(j) \in planned)
      OBVIOUS
    <3> HIDE DEF planned
    <3>3. /\ DOMAIN retire' = RetireFields /\ retire'.pc = "inventory"
          /\ retire'.left = retire.left \ {j} /\ retire'.planned = planned
      BY <2>1, <3>1
    <3>4. boot[j] # [kind |-> "unknown", inode |-> 1]  BY <2>3
    <3> QED  BY <2>1, <3>2, <3>3, <3>4 DEF Looked, AtArchived, LegacyAllRetired, Version
  <2> QED  BY <2>2, <2>3
<1>7. ASSUME NEW v \in retire.planned, Archive(v) PROVE LegacyInv'
  <2>1. CASE Version(v.job) # v
    BY <1>7, <2>1 DEF Archive, RetireError, NotRunning, Looked, AtArchived, LegacyAllRetired
  <2>2. CASE Version(v.job) = v
    <3>1. /\ retire' = [retire EXCEPT !.pc = "recheck", !.at = v] /\ archived' = archived \cup {v}
          /\ retire.pc = "archive" /\ UNCHANGED <<boot, replaced>>
      BY <1>7, <2>2 DEF Archive, AfterLink, ArchivedWith
    <3>2. /\ DOMAIN retire' = RetireFields /\ retire'.pc = "recheck" /\ retire'.at = v
          /\ retire'.planned = retire.planned
      BY <3>1
    <3> QED  BY <3>1, <3>2 DEF Looked, AtArchived, LegacyAllRetired, Version
  <2> QED  BY <2>1, <2>2
<1>8. ASSUME NEW v \in retire.planned, Reverify(v) PROVE LegacyInv'
  <2>1. CASE Version(v.job) # v
    BY <1>8, <2>1 DEF Reverify, RetireError, NotRunning, Looked, AtArchived, LegacyAllRetired
  <2>2. CASE Version(v.job) = v
    <3>1. /\ retire' = [retire EXCEPT !.pc = "unlink"]
          /\ retire.pc = "recheck" /\ UNCHANGED <<boot, replaced, archived>>
      BY <1>8, <2>2 DEF Reverify
    <3>2. /\ DOMAIN retire' = RetireFields /\ retire'.pc = "unlink" /\ retire'.at = retire.at
          /\ retire'.planned = retire.planned
      BY <3>1
    <3> QED  BY <3>1, <3>2 DEF Looked, AtArchived, LegacyAllRetired, Version
  <2> QED  BY <2>1, <2>2
<1>9. ASSUME NEW v \in retire.planned, Unlink(v) PROVE LegacyInv'
  <2>1. /\ retire.pc = "unlink" /\ UNCHANGED <<archived, replaced>>
        /\ boot' = [boot EXCEPT ![v.job] = Gone]
        /\ retire' = [retire EXCEPT !.pc = "archive", !.planned = retire.planned \ {v}, !.at = Gone]
    BY <1>9 DEF Unlink
  <2>2. /\ DOMAIN retire' = RetireFields /\ retire'.pc = "archive"
        /\ retire'.planned = retire.planned \ {v}
    BY <2>1
  <2>3. DOMAIN boot' = JobNames /\ \A j \in JobNames : boot'[j] = IF j = v.job THEN Gone ELSE boot[j]
    BY <2>1
  <2>4. \A j \in JobNames : Version(j) = v => j = v.job
    BY DEF Version
  <2>5. Gone.kind = "gone" /\ Gone # [kind |-> "unknown", inode |-> 1]
    BY DEF Gone
  <2>6. \A j \in JobNames : j # v.job => Version(j)' = Version(j)
    BY <2>3 DEF Version
  <2> QED  BY <2>1, <2>2, <2>3, <2>4, <2>5, <2>6 DEF Looked, AtArchived, LegacyAllRetired
<1>10. ASSUME NEW j \in JobNames, Replace(j) PROVE LegacyInv'
  <2>1. PICK k : boot' = [boot EXCEPT ![j] = [kind |-> k, inode |-> replaced + 2]]
    BY <1>10 DEF Replace
  <2>2. replaced' = replaced + 1 /\ UNCHANGED <<archived, retire>> /\ replaced' # 0
    BY <1>10 DEF Replace
  <2>3. /\ DOMAIN boot' = JobNames /\ boot'[j].inode # 1
        /\ \A i \in JobNames \ {j} : boot'[i] = boot[i]
    BY <2>1
  <2> QED  BY <2>2, <2>3 DEF Looked, AtArchived, LegacyAllRetired
<1>11. CASE UNCHANGED legacyVars
  BY <1>11 DEF legacyVars, Looked, AtArchived, LegacyAllRetired, Version
<1> QED
  BY <1>1, <1>2, <1>3, <1>4, <1>5, <1>6, <1>7, <1>8, <1>9, <1>10, <1>11
  DEF LegacyNext, RetireSteps

(* A job loses its name only once the archive holds it, one unknown job      *)
(* stops everything, and a migration that ended left no legacy job, for any  *)
(* number of jobs and however often it is killed and repeated.               *)
THEOREM JobsArchivedAlways == LegacySpec => JobsArchived
<1>1. LegacyInit => LegacyInv
  BY DEF LegacyInit, NotRunning, LegacyInv, LegacyShape, RetireFields, Removing, Looked, AtArchived,
     LegacyAllRetired
<1>2. LegacyInv /\ LegacyInv' /\ [LegacyNext]_legacyVars
        => [ArchivedBeforeRemoved /\ UnknownStopsAll /\ LegacyAllRetired']_legacyVars
  <2> SUFFICES ASSUME LegacyInv, LegacyInv', LegacyNext
               PROVE  ArchivedBeforeRemoved /\ UnknownStopsAll
    BY DEF LegacyInv
  <2>1. ArchivedBeforeRemoved
    BY DEF LegacyInv, AtArchived, ArchivedBeforeRemoved
  <2>2. ASSUME archived' # archived PROVE retire.pc = "archive"
    BY <2>2 DEF LegacyNext, RetireSteps, Installed, RetireKilled, StartRetiring, Validated, Retired,
       Inventory, Archive, Reverify, Unlink, Replace
  <2>3. UnknownStopsAll
    BY <2>2 DEF LegacyInv, Looked, Removing, UnknownStopsAll
  <2> QED  BY <2>1, <2>3
<1> QED  BY <1>1, <1>2, LegacyStep, PTL DEF LegacySpec, JobsArchived

-----------------------------------------------------------------------------
(* ShaderInstall.                                                            *)

ExactShape ==
    /\ DOMAIN store = {"output", "library", "meta"}
    /\ DOMAIN install = Installers
    /\ \A p \in Installers : DOMAIN install[p] = {"pc", "mine", "read"}
    /\ stops \in Nat /\ made \in Nat

(* An installer that never met another one knows what is on disk.            *)
Undisturbed(p) ==
    p \notin overlap =>
        /\ install[p].pc # "idle" => \A q \in Installers \ {p} : install[q].pc = "idle"
        /\ install[p].pc = "library" => install[p].read = store.output
        /\ install[p].pc = "meta" => store.library = install[p].read

ExactInv == ExactShape /\ \A p \in Installers : Undisturbed(p)

OfficeShape ==
    /\ DOMAIN office = {"files", "route", "damaged"} /\ DOMAIN office.route = Sources
    /\ DOMAIN maker = {"pc", "todo", "source", "generation", "errors"}

(* Generations are numbered, so a new one is never damaged yet.              *)
Numbered ==
    /\ \A file \in office.files : file[1] \in 1 .. made
    /\ office.damaged \subseteq 1 .. made
    /\ maker.pc \in {"link", "route"}
         => maker.generation \in (1 .. made) \ office.damaged /\ maker.source \in Sources

BothLinked(g) == {<<g, "source">>, <<g, "translated">>} \subseteq office.files

Linked == maker.pc = "route" => BothLinked(maker.generation)

(* What a run without errors has left behind is valid.                       *)
DoneValid ==
    maker.pc \in {"next", "link", "route"} /\ ~maker.errors
        => \A s \in Sources \ maker.todo : cache_valid(s)

OfficeInv == OfficeShape /\ Numbered /\ Linked /\ RouteBacked /\ DoneValid /\ SuccessProvisions

ShaderInv == ExactInv /\ OfficeInv

LEMMA ShaderStart == ShaderInit => ShaderInv
<1> SUFFICES ASSUME ShaderInit PROVE ShaderInv
  OBVIOUS
<1>1. ExactInv
  BY DEF ShaderInit, ExactInv, ExactShape, Undisturbed, NoInstall
<1>2. maker.pc = "idle" /\ office.files = {} /\ office.damaged = {}
      /\ \A s \in Sources : office.route[s] = 0
  BY DEF ShaderInit, NoMaker
<1>3. OfficeShape
  BY DEF ShaderInit, OfficeShape, NoMaker
<1>4. Numbered /\ Linked /\ RouteBacked /\ DoneValid /\ SuccessProvisions
  BY <1>2 DEF Numbered, Linked, RouteBacked, DoneValid, SuccessProvisions
<1> QED  BY <1>1, <1>3, <1>4 DEF ShaderInv, OfficeInv

(* A step of an installer leaves the provisioner alone, but for the number   *)
(* of conversions.                                                           *)
LEMMA OfficeStands ==
  ASSUME OfficeInv, made \in Nat, UNCHANGED <<office, maker>>, made' \in Nat, made <= made'
  PROVE  OfficeInv'
<1>1. Numbered'
  BY DEF OfficeInv, Numbered
<1>2. \A s : cache_valid(s)' = cache_valid(s)
  BY DEF cache_valid, verify_runtime_manifest
<1>3. DoneValid' /\ SuccessProvisions'
  BY <1>2 DEF OfficeInv, DoneValid, SuccessProvisions
<1> QED
  BY <1>1, <1>3 DEF OfficeInv, OfficeShape, Linked, BothLinked, RouteBacked

(* A step of the provisioner leaves the installers alone.                    *)
LEMMA ExactStands ==
  ASSUME ExactInv, UNCHANGED <<store, install, overlap>>, made' \in Nat, stops' \in Nat
  PROVE  ExactInv'
BY DEF ExactInv, ExactShape, Undisturbed

(* The only other process that matters to an undisturbed one is idle.        *)
LEMMA InstallerStep ==
  ASSUME ExactInv, NEW p \in Installers, install[p].pc # "idle", NEW next,
         install' = [install EXCEPT ![p] = next], DOMAIN next = {"pc", "mine", "read"},
         overlap' = overlap, made' = made, stops' \in Nat,
         DOMAIN store' = {"output", "library", "meta"},
         p \notin overlap /\ next.pc = "library" => next.read = store'.output,
         p \notin overlap /\ next.pc = "meta" => store'.library = next.read
  PROVE  ExactInv'
<1>1. /\ DOMAIN install' = Installers /\ install'[p] = next
      /\ \A q \in Installers \ {p} : install'[q] = install[q]
  BY DEF ExactInv, ExactShape
<1>2. ExactShape'
  BY <1>1 DEF ExactInv, ExactShape
<1>3. ASSUME NEW q \in Installers, q \notin overlap PROVE Undisturbed(q)'
  <2>1. CASE q = p
    BY <1>1, <1>3, <2>1 DEF ExactInv, Undisturbed
  <2>2. CASE q # p
    <3>1. install[q].pc = "idle"
      BY <1>3, <2>2 DEF ExactInv, Undisturbed
    <3> QED  BY <1>1, <2>2, <3>1 DEF Undisturbed
  <2> QED  BY <2>1, <2>2
<1>4. \A q \in Installers : Undisturbed(q)'
  BY <1>3 DEF Undisturbed
<1> QED  BY <1>2, <1>4 DEF ExactInv

LEMMA ExactStep ==
  ASSUME ShaderInv, NEW p \in Installers,
         \/ Validate(p) \/ InstallOutput(p) \/ ReadOutput(p) \/ InstallLibrary(p)
         \/ InstallMeta(p) \/ InstallStops(p)
  PROVE  ShaderInv' /\ InstallRepairs
<1> USE DEF ShaderInv
<1>0. ExactShape /\ Undisturbed(p) /\ DOMAIN install[p] = {"pc", "mine", "read"}
  BY DEF ExactInv, ExactShape
<1>r. ASSUME NEW next, install' = [install EXCEPT ![p] = next],
             p \notin overlap /\ install[p].pc = "meta" /\ next.pc = "idle" /\ stops' = stops
               => store'.library = store'.meta
      PROVE  InstallRepairs
  <2>1. \A q \in Installers \ {p} : install'[q] = install[q]
    BY <1>0, <1>r DEF ExactShape
  <2>2. install'[p] = next
    BY <1>0, <1>r DEF ExactShape
  <2> QED  BY <1>r, <2>1, <2>2 DEF InstallRepairs
<1>1. CASE Validate(p)
  <2>1. PICK next : /\ next = [NoInstall EXCEPT !.pc = "output", !.mine = made + 1]
                    /\ install' = [install EXCEPT ![p] = next]
    BY <1>1 DEF Validate
  <2>2. DOMAIN next = {"pc", "mine", "read"} /\ next.pc = "output"
    BY <2>1 DEF NoInstall
  <2>3. /\ DOMAIN install' = Installers /\ install'[p] = next
        /\ \A q \in Installers \ {p} : install'[q] = install[q]
    BY <1>0, <2>1 DEF ExactShape
  <2>4. /\ made' = made + 1 /\ UNCHANGED <<store, office, maker, stops>> /\ install[p].pc = "idle"
        /\ overlap' = IF Running = {} THEN overlap \ {p} ELSE overlap \cup Running \cup {p}
    BY <1>1 DEF Validate
  <2>5. ExactShape'
    BY <1>0, <2>2, <2>3, <2>4 DEF ExactShape
  <2>6. ASSUME NEW q \in Installers, q \notin overlap' PROVE Undisturbed(q)'
    <3>1. CASE Running = {}
      <4>1. \A o \in Installers : install[o].pc = "idle"
        BY <3>1 DEF Running
      <4>2. \A o \in Installers \ {p} : install'[o].pc = "idle"
        BY <2>3, <4>1
      <4> QED  BY <2>2, <2>3, <4>2 DEF Undisturbed
    <3>2. CASE Running # {}
      <4>1. q # p /\ install[q].pc = "idle"
        BY <2>4, <2>6, <3>2 DEF Running
      <4> QED  BY <2>3, <4>1 DEF Undisturbed
    <3> QED  BY <3>1, <3>2
  <2>7. ExactInv'
    BY <2>5, <2>6 DEF ExactInv, Undisturbed
  <2>8. OfficeInv'
    BY <1>0, <2>4, OfficeStands DEF ExactShape
  <2>9. InstallRepairs
    BY <1>r, <2>1, <2>2
  <2> QED  BY <2>7, <2>8, <2>9
<1>2. CASE InstallOutput(p)
  <2>1. PICK next : /\ next = [install[p] EXCEPT !.pc = "read"]
                    /\ install' = [install EXCEPT ![p] = next]
    BY <1>2 DEF InstallOutput
  <2>2. DOMAIN next = {"pc", "mine", "read"} /\ next.pc = "read"
    BY <1>0, <2>1
  <2>3. /\ install[p].pc = "output" /\ store' = [store EXCEPT !.output = install[p].mine]
        /\ UNCHANGED <<office, maker, made, stops, overlap>>
    BY <1>2 DEF InstallOutput
  <2>4. DOMAIN store' = {"output", "library", "meta"} /\ stops' \in Nat /\ made \in Nat
    BY <1>0, <2>3 DEF ExactShape
  <2>5. ExactInv'
    BY <2>1, <2>2, <2>3, <2>4, InstallerStep
  <2>6. OfficeInv'
    BY <2>3, <2>4, OfficeStands
  <2> QED  BY <1>r, <2>1, <2>2, <2>5, <2>6
<1>3. CASE ReadOutput(p)
  <2>1. PICK next : /\ next = [install[p] EXCEPT !.pc = "library", !.read = store.output]
                    /\ install' = [install EXCEPT ![p] = next]
    BY <1>3 DEF ReadOutput
  <2>2. DOMAIN next = {"pc", "mine", "read"} /\ next.pc = "library" /\ next.read = store.output
    BY <1>0, <2>1
  <2>3. install[p].pc = "read" /\ UNCHANGED <<store, office, maker, made, stops, overlap>>
    BY <1>3 DEF ReadOutput
  <2>4. DOMAIN store' = {"output", "library", "meta"} /\ stops' \in Nat /\ made \in Nat
    BY <1>0, <2>3 DEF ExactShape
  <2>5. ExactInv'
    BY <2>1, <2>2, <2>3, <2>4, InstallerStep
  <2>6. OfficeInv'
    BY <2>3, <2>4, OfficeStands
  <2> QED  BY <1>r, <2>1, <2>2, <2>5, <2>6
<1>4. CASE InstallLibrary(p)
  <2>1. PICK next : /\ next = [install[p] EXCEPT !.pc = "meta"]
                    /\ install' = [install EXCEPT ![p] = next]
    BY <1>4 DEF InstallLibrary
  <2>2. DOMAIN next = {"pc", "mine", "read"} /\ next.pc = "meta" /\ next.read = install[p].read
    BY <1>0, <2>1
  <2>3. /\ install[p].pc = "library" /\ store' = [store EXCEPT !.library = store.output]
        /\ UNCHANGED <<office, maker, made, stops, overlap>>
    BY <1>4 DEF InstallLibrary
  <2>4. /\ DOMAIN store' = {"output", "library", "meta"} /\ stops' \in Nat /\ made \in Nat
        /\ store'.library = store.output
    BY <1>0, <2>3 DEF ExactShape
  <2>5. p \notin overlap => store'.library = next.read
    BY <1>0, <2>2, <2>3, <2>4 DEF Undisturbed
  <2>6. ExactInv'
    BY <2>1, <2>2, <2>3, <2>4, <2>5, InstallerStep
  <2>7. OfficeInv'
    BY <2>3, <2>4, OfficeStands
  <2> QED  BY <1>r, <2>1, <2>2, <2>6, <2>7
<1>5. CASE InstallMeta(p)
  <2>1. /\ install[p].pc = "meta" /\ store' = [store EXCEPT !.meta = install[p].read]
        /\ install' = [install EXCEPT ![p] = NoInstall]
        /\ UNCHANGED <<office, maker, made, stops, overlap>>
    BY <1>5 DEF InstallMeta, MetaOf
  <2>2. DOMAIN NoInstall = {"pc", "mine", "read"} /\ NoInstall.pc = "idle"
    BY DEF NoInstall
  <2>3. /\ DOMAIN store' = {"output", "library", "meta"} /\ stops' \in Nat /\ made \in Nat
        /\ store'.library = store.library /\ store'.meta = install[p].read
    BY <1>0, <2>1 DEF ExactShape
  <2>4. p \notin overlap => store'.library = store'.meta
    BY <1>0, <2>1, <2>3 DEF Undisturbed
  <2>5. ExactInv'
    BY <2>1, <2>2, <2>3, InstallerStep
  <2>6. OfficeInv'
    BY <2>1, <2>3, OfficeStands
  <2> QED  BY <1>r, <2>1, <2>4, <2>5, <2>6
<1>6. CASE InstallStops(p)
  <2>1. /\ install[p].pc # "idle" /\ stops' = stops + 1
        /\ install' = [install EXCEPT ![p] = NoInstall]
        /\ UNCHANGED <<store, office, maker, made, overlap>>
    BY <1>6 DEF InstallStops
  <2>2. DOMAIN NoInstall = {"pc", "mine", "read"} /\ NoInstall.pc = "idle"
    BY DEF NoInstall
  <2>3. /\ DOMAIN store' = {"output", "library", "meta"} /\ stops' \in Nat /\ made \in Nat
        /\ stops' # stops
    BY <1>0, <2>1 DEF ExactShape
  <2>5. ExactInv'
    BY <2>1, <2>2, <2>3, InstallerStep
  <2>6. OfficeInv'
    BY <2>1, <2>3, OfficeStands
  <2> QED  BY <1>r, <2>1, <2>3, <2>5, <2>6
<1> QED  BY <1>1, <1>2, <1>3, <1>4, <1>5, <1>6

(* A step that leaves the files on disk alone.                               *)
LEMMA MakerOnly ==
  ASSUME OfficeInv, office' = office, made \in Nat, made' \in Nat, made <= made',
         DOMAIN maker' = {"pc", "todo", "source", "generation", "errors"},
         maker'.pc \in {"link", "route"}
           => /\ maker'.generation \in (1 .. made') \ office.damaged
              /\ maker'.source \in Sources,
         maker'.pc = "route" => BothLinked(maker'.generation),
         maker'.pc \in {"next", "link", "route"} /\ ~maker'.errors
           => \A s \in Sources \ maker'.todo : cache_valid(s),
         maker'.pc = "exit0" => \A s \in Sources : cache_valid(s)
  PROVE  OfficeInv'
<1>1. OfficeShape'
  BY DEF OfficeInv, OfficeShape
<1>2. Numbered'
  BY DEF OfficeInv, Numbered
<1>3. \A s : cache_valid(s)' = cache_valid(s)
  BY DEF cache_valid, verify_runtime_manifest
<1>4. DoneValid' /\ SuccessProvisions'
  BY <1>3 DEF DoneValid, SuccessProvisions
<1>5. Linked'
  BY DEF Linked, BothLinked
<1>6. RouteBacked'
  BY DEF OfficeInv, RouteBacked
<1> QED  BY <1>1, <1>2, <1>4, <1>5, <1>6 DEF OfficeInv

LEMMA OfficeStep == ShaderInv /\ OfficeNext => ShaderInv' /\ InstallRepairs
<1> SUFFICES ASSUME ShaderInv, OfficeNext PROVE ShaderInv' /\ InstallRepairs
  OBVIOUS
<1>0. /\ OfficeShape /\ Numbered /\ Linked /\ RouteBacked /\ DoneValid /\ SuccessProvisions
      /\ made \in Nat /\ stops \in Nat /\ ExactInv /\ OfficeInv
  BY DEF ShaderInv, OfficeInv, ExactInv, ExactShape
<1>1. /\ UNCHANGED <<store, install, overlap>>
      /\ made' \in {made, made + 1} /\ stops' \in {stops, stops + 1}
  BY DEF OfficeNext, Discover, ConvertFails, LinkFiles, SwitchRoute, OfficeExit, OfficeStops,
         Damage, Provision
<1>2. ExactInv' /\ made' \in Nat /\ made <= made'
  BY <1>0, <1>1, ExactStands
<1>3. InstallRepairs
  BY <1>1 DEF InstallRepairs
<1>4. CASE Discover
  <2>1. PICK readable \in SUBSET Sources :
          maker' = [NoMaker EXCEPT !.pc = "next", !.todo = readable, !.errors = readable # Sources]
    BY <1>4 DEF Discover
  <2>2. /\ DOMAIN maker' = {"pc", "todo", "source", "generation", "errors"}
        /\ maker'.pc = "next" /\ maker'.todo = readable /\ maker'.errors = (readable # Sources)
    BY <2>1 DEF NoMaker
  <2>3. office' = office  BY <1>4 DEF Discover
  <2>4. ~maker'.errors => Sources \ maker'.todo = {}
    BY <2>2
  <2>5. OfficeInv'
    BY <1>0, <1>2, <2>2, <2>3, <2>4, MakerOnly
  <2> QED  BY <1>2, <1>3, <2>5 DEF ShaderInv
<1>5. ASSUME NEW s \in Sources, Provision(s) PROVE ShaderInv' /\ InstallRepairs
  <2>1. office' = office /\ maker.pc = "next"  BY <1>5 DEF Provision
  <2>2. CASE cache_valid(s) /\ maker' = [maker EXCEPT !.todo = @ \ {s}] /\ made' = made
    <3>1. /\ DOMAIN maker' = {"pc", "todo", "source", "generation", "errors"}
          /\ maker'.pc = "next" /\ maker'.todo = maker.todo \ {s} /\ maker'.errors = maker.errors
      BY <1>0, <2>1, <2>2 DEF OfficeShape
    <3>2. ~maker'.errors => \A q \in Sources \ maker'.todo : cache_valid(q)
      BY <1>0, <2>1, <2>2, <3>1 DEF DoneValid
    <3>3. OfficeInv'
      BY <1>0, <1>2, <2>1, <3>1, <3>2, MakerOnly
    <3> QED  BY <1>2, <1>3, <3>3 DEF ShaderInv
  <2>3. CASE /\ made' = made + 1
             /\ maker' = [maker EXCEPT !.pc = "link", !.source = s, !.generation = made + 1]
    <3>1. /\ DOMAIN maker' = {"pc", "todo", "source", "generation", "errors"}
          /\ maker'.pc = "link" /\ maker'.todo = maker.todo /\ maker'.errors = maker.errors
          /\ maker'.source = s /\ maker'.generation = made + 1
      BY <1>0, <2>1, <2>3 DEF OfficeShape
    <3>2. maker'.generation \in (1 .. made') \ office.damaged
      BY <1>0, <2>3, <3>1 DEF Numbered
    <3>3. ~maker'.errors => \A q \in Sources \ maker'.todo : cache_valid(q)
      BY <1>0, <2>1, <3>1 DEF DoneValid
    <3>4. OfficeInv'
      BY <1>0, <1>2, <2>1, <3>1, <3>2, <3>3, MakerOnly
    <3> QED  BY <1>2, <1>3, <3>4 DEF ShaderInv
  <2> QED  BY <1>5, <2>2, <2>3 DEF Provision
<1>6. CASE ConvertFails
  <2>1. /\ office' = office /\ maker' = SourceFailed
    BY <1>6 DEF ConvertFails
  <2>2. /\ DOMAIN maker' = {"pc", "todo", "source", "generation", "errors"}
        /\ maker'.pc = "next" /\ maker'.errors = TRUE
    BY <1>0, <2>1 DEF SourceFailed, OfficeShape
  <2>3. OfficeInv'
    BY <1>0, <1>2, <2>1, <2>2, MakerOnly
  <2> QED  BY <1>2, <1>3, <2>3 DEF ShaderInv
<1>7. CASE LinkFiles
  <2> DEFINE g == maker.generation
  <2>1. /\ maker.pc = "link" /\ made' = made
        /\ g \in (1 .. made) \ office.damaged /\ maker.source \in Sources
    BY <1>0, <1>7 DEF LinkFiles, Numbered
  <2>2. PICK kind \in {"source", "translated"} :
          /\ office' = [office EXCEPT !.files = @ \cup {<<g, kind>>}]
          /\ \/ maker' = maker
             \/ /\ <<g, "source">> \in office.files /\ kind = "translated"
                /\ maker' = [maker EXCEPT !.pc = "route"]
    BY <1>7 DEF LinkFiles
  <2>3. /\ DOMAIN office' = {"files", "route", "damaged"} /\ office'.route = office.route
        /\ office'.damaged = office.damaged /\ office'.files = office.files \cup {<<g, kind>>}
    BY <1>0, <2>2 DEF OfficeShape
  <2>4. /\ DOMAIN maker' = {"pc", "todo", "source", "generation", "errors"}
        /\ maker'.pc \in {"link", "route"} /\ maker'.todo = maker.todo
        /\ maker'.errors = maker.errors /\ maker'.source = maker.source /\ maker'.generation = g
        /\ maker'.pc = "route" => <<g, "source">> \in office.files /\ kind = "translated"
    BY <1>0, <2>1, <2>2 DEF OfficeShape
  <2>5. \A s : cache_valid(s) => cache_valid(s)'
    BY <2>3 DEF cache_valid, verify_runtime_manifest
  <2>6. OfficeShape'
    BY <1>0, <2>3, <2>4 DEF OfficeShape
  <2>7. <<g, kind>>[1] = g
    OBVIOUS
  <2>8. Numbered'
    BY <1>0, <2>1, <2>3, <2>4, <2>7 DEF Numbered
  <2>9. Linked'
    BY <2>3, <2>4 DEF Linked, BothLinked
  <2>10. RouteBacked'
    BY <1>0, <2>3 DEF RouteBacked
  <2>11. DoneValid' /\ SuccessProvisions'
    BY <1>0, <2>1, <2>4, <2>5 DEF DoneValid, SuccessProvisions
  <2> QED  BY <1>2, <1>3, <2>6, <2>8, <2>9, <2>10, <2>11 DEF ShaderInv, OfficeInv
<1>8. CASE SwitchRoute
  <2> DEFINE g == maker.generation
             o == maker.source
  <2>1. /\ maker.pc = "route" /\ made' = made /\ BothLinked(g)
        /\ g \in (1 .. made) \ office.damaged /\ o \in Sources
        /\ office' = [office EXCEPT !.route[o] = g]
        /\ maker' = [maker EXCEPT !.pc = "next", !.todo = @ \ {o}]
    BY <1>0, <1>8 DEF SwitchRoute, Numbered, Linked
  <2>2. /\ DOMAIN office' = {"files", "route", "damaged"} /\ DOMAIN office'.route = Sources
        /\ office'.damaged = office.damaged /\ office'.files = office.files
        /\ office'.route[o] = g /\ \A s \in Sources \ {o} : office'.route[s] = office.route[s]
    BY <1>0, <2>1 DEF OfficeShape
  <2>3. /\ DOMAIN maker' = {"pc", "todo", "source", "generation", "errors"}
        /\ maker'.pc = "next" /\ maker'.todo = maker.todo \ {o} /\ maker'.errors = maker.errors
    BY <1>0, <2>1 DEF OfficeShape
  <2>4. \A s \in Sources \ {o} : cache_valid(s) => cache_valid(s)'
    BY <2>2 DEF cache_valid, verify_runtime_manifest
  <2>5. cache_valid(o)'
    BY <2>1, <2>2 DEF cache_valid, verify_runtime_manifest, BothLinked
  <2>6. OfficeShape' /\ Numbered' /\ Linked'
    BY <1>0, <2>1, <2>2, <2>3 DEF OfficeShape, Numbered, Linked
  <2>7. RouteBacked'
    BY <1>0, <2>1, <2>2 DEF RouteBacked, BothLinked
  <2>8. DoneValid' /\ SuccessProvisions'
    BY <1>0, <2>1, <2>3, <2>4, <2>5 DEF DoneValid, SuccessProvisions
  <2> QED  BY <1>2, <1>3, <2>6, <2>7, <2>8 DEF ShaderInv, OfficeInv
<1>9. CASE OfficeExit
  <2>1. /\ maker.pc = "next" /\ maker.todo = {} /\ office' = office
        /\ maker' = [maker EXCEPT !.pc = IF maker.errors THEN "idle" ELSE "exit0"]
    BY <1>9 DEF OfficeExit
  <2>2. /\ DOMAIN maker' = {"pc", "todo", "source", "generation", "errors"}
        /\ maker'.pc \in {"idle", "exit0"} /\ maker'.pc = "exit0" => ~maker.errors
    BY <1>0, <2>1 DEF OfficeShape
  <2>3. maker'.pc = "exit0" => \A s \in Sources : cache_valid(s)
    BY <1>0, <2>1, <2>2 DEF DoneValid
  <2>4. OfficeInv'
    BY <1>0, <1>2, <2>1, <2>2, <2>3, MakerOnly
  <2> QED  BY <1>2, <1>3, <2>4 DEF ShaderInv
<1>10. CASE OfficeStops
  <2>1. office' = office /\ maker' = NoMaker
    BY <1>10 DEF OfficeStops
  <2>2. /\ DOMAIN maker' = {"pc", "todo", "source", "generation", "errors"} /\ maker'.pc = "idle"
    BY <2>1 DEF NoMaker
  <2>3. OfficeInv'
    BY <1>0, <1>2, <2>1, <2>2, MakerOnly
  <2> QED  BY <1>2, <1>3, <2>3 DEF ShaderInv
<1>11. CASE Damage
  <2>1. PICK g \in {file[1] : file \in office.files} : office' = [office EXCEPT !.damaged = @ \cup {g}]
    BY <1>11 DEF Damage
  <2>2. maker' = NoMaker /\ made' = made
    BY <1>11 DEF Damage
  <2>3. /\ DOMAIN office' = {"files", "route", "damaged"} /\ office'.route = office.route
        /\ office'.damaged = office.damaged \cup {g} /\ office'.files = office.files
    BY <1>0, <2>1 DEF OfficeShape
  <2>4. /\ DOMAIN maker' = {"pc", "todo", "source", "generation", "errors"} /\ maker'.pc = "idle"
    BY <2>2 DEF NoMaker
  <2>5. OfficeShape' /\ Numbered' /\ Linked' /\ RouteBacked' /\ DoneValid' /\ SuccessProvisions'
    BY <1>0, <2>2, <2>3, <2>4
    DEF OfficeShape, Numbered, Linked, RouteBacked, DoneValid, SuccessProvisions
  <2> QED  BY <1>2, <1>3, <2>5 DEF ShaderInv, OfficeInv
<1> QED
  BY <1>4, <1>5, <1>6, <1>7, <1>8, <1>9, <1>10, <1>11 DEF OfficeNext

LEMMA ShaderStep ==
  ShaderInv /\ [ExactNext \/ OfficeNext]_shaderVars => ShaderInv' /\ InstallRepairs
<1> SUFFICES ASSUME ShaderInv, [ExactNext \/ OfficeNext]_shaderVars
             PROVE  ShaderInv' /\ InstallRepairs
  OBVIOUS
<1>1. CASE UNCHANGED shaderVars
  <2>1. UNCHANGED <<store, install, office, maker, made, stops, overlap>>
    BY <1>1 DEF shaderVars
  <2>2. ExactInv' /\ OfficeInv'
    BY <2>1, ExactStands, OfficeStands DEF ShaderInv, ExactInv, ExactShape
  <2> QED  BY <2>1, <2>2 DEF ShaderInv, InstallRepairs
<1> QED  BY <1>1, ExactStep, OfficeStep DEF ExactNext

(* Undisturbed installations leave a usable pair, routes point to complete   *)
(* generations, and success means that every route is valid, for any number  *)
(* of installers, archives, conversions and stops.                           *)
THEOREM ShadersSoundAlways ==
  ShaderSpec => [][InstallRepairs /\ RouteBacked' /\ SuccessProvisions']_shaderVars
<1>1. ShaderInv' => RouteBacked' /\ SuccessProvisions'
  BY DEF ShaderInv, OfficeInv
<1> QED  BY <1>1, ShaderStart, ShaderStep, PTL DEF ShaderSpec

-----------------------------------------------------------------------------
(* RelayMessage.                                                             *)

RelayShape ==
    /\ DOMAIN rpc = Relays /\ DOMAIN expects = Relays
    /\ draft \in Seq([kind : {"body", "marker"}, relay : Relays])

Typing == {"body", "second", "marker", "third", "return"}
Holding == {"first", "receipt"} \cup Typing

(* Under the lock one relay at a time is past its start, and what stands in  *)
(* the input line from its first snapshot on is its own.                     *)
OneHolder ==
    tool = "macpad" =>
        /\ \A r \in Relays : rpc[r] \in Holding => relayLock = {r}
        /\ \A r \in Relays : rpc[r] \in Typing \cup {"receipt"} => SendersIn(draft) \subseteq {r}

(* A reminder is typed by a relay that reserved its receipt; a relay about   *)
(* to type has a receipt that no reminder typed so far was for.              *)
Receipts ==
    tool = "macpad" =>
        /\ \A x \in reminded : /\ x[1] \in Relays /\ expects[x[1]] \in receipts
                               /\ x = <<x[1], x[2]>>
                               /\ rpc[x[1]] \in {"second", "marker", "third", "return", "ended"}
        /\ \A r \in Relays : rpc[r] = "body" /\ reminder[r] =>
             /\ expects[r] \in receipts
             /\ \A x \in reminded : expects[x[1]] # expects[r]
        /\ \A x, y \in reminded : expects[x[1]] = expects[y[1]] => x[1] = y[1]

RelayInv == RelayShape /\ OneHolder /\ Receipts /\ MessagesNotMixed

LEMMA RelayShapeStep == RelayShape /\ [RelayNext]_relayVars => RelayShape'
<1> SUFFICES ASSUME RelayShape, [RelayNext]_relayVars PROVE RelayShape'
  OBVIOUS
<1> USE DEF RelayShape, RelayGoto, Stop
<1>1. ASSUME NEW r \in Relays, Start(r) PROVE RelayShape'  BY <1>1 DEF Start
<1>2. ASSUME NEW r \in Relays, FirstSnapshot(r) PROVE RelayShape'  BY <1>2 DEF FirstSnapshot
<1>3. ASSUME NEW r \in Relays, Reserve(r) PROVE RelayShape'  BY <1>3 DEF Reserve
<1>4. ASSUME NEW r \in Relays, SendText(r) PROVE RelayShape'
  BY <1>4 DEF SendText, Types, Part
<1>5. ASSUME NEW r \in Relays, SecondSnapshot(r) PROVE RelayShape'  BY <1>5 DEF SecondSnapshot
<1>6. ASSUME NEW r \in Relays, SendMarker(r) PROVE RelayShape'
  BY <1>6 DEF SendMarker, Types, Part
<1>7. ASSUME NEW r \in Relays, ThirdSnapshot(r) PROVE RelayShape'  BY <1>7 DEF ThirdSnapshot
<1>8. ASSUME NEW r \in Relays, SendReturn(r) PROVE RelayShape'  BY <1>8 DEF SendReturn
<1>9. ASSUME NEW r \in Relays, RelayDies(r) PROVE RelayShape'  BY <1>9 DEF RelayDies
<1>10. CASE AgentIdles  BY <1>10 DEF AgentIdles
<1>11. CASE AgentReplaced  BY <1>11 DEF AgentReplaced
<1>12. CASE UNCHANGED relayVars  BY <1>12 DEF relayVars
<1> QED
  BY <1>1, <1>2, <1>3, <1>4, <1>5, <1>6, <1>7, <1>8, <1>9, <1>10, <1>11, <1>12
  DEF RelayNext, RelayStep

(* Typing a part adds only its relay to the senders.                         *)
LEMMA Typed ==
  ASSUME RelayShape, NEW r \in Relays, NEW kind \in {"body", "marker"}, Types(r, kind)
  PROVE  SendersIn(draft') \subseteq SendersIn(draft) \cup {r}
<1>1. /\ draft' = Append(draft, Part(kind, r)) /\ Len(draft') = Len(draft) + 1
      /\ Len(draft) \in Nat
      /\ draft'[Len(draft) + 1].relay = r
      /\ \A i \in 1 .. Len(draft) : draft'[i] = draft[i]
  BY DEF Types, RelayShape, Part
<1> QED  BY <1>1 DEF SendersIn

(* The relay that holds the lock is the only one that moves.                 *)
LEMMA Alone ==
  ASSUME RelayInv, tool = "macpad", NEW r \in Relays, rpc[r] \in Holding
  PROVE  relayLock = {r} /\ \A x \in Relays \ {r} : rpc[x] \notin Holding
BY DEF RelayInv, OneHolder

LEMMA Stopped ==
  ASSUME RelayInv, NEW r \in Relays, Stop(r), tool' = tool,
         draft' = draft \/ rpc[r] \in Holding
  PROVE  OneHolder'
<1> SUFFICES ASSUME tool = "macpad", NEW x \in Relays, rpc'[x] \in Holding
             PROVE  /\ relayLock' = {x}
                    /\ rpc'[x] \in Typing \cup {"receipt"} => SendersIn(draft') \subseteq {x}
  BY DEF OneHolder, Holding
<1>1. DOMAIN rpc = Relays
  BY DEF RelayInv, RelayShape
<1>2. rpc'[r] = "ended" /\ (x # r => rpc'[x] = rpc[x]) /\ relayLock' = relayLock \ {r}
  BY <1>1 DEF Stop, RelayGoto
<1>3. x # r /\ rpc[x] = rpc'[x] /\ relayLock = {x}
  BY <1>2 DEF Holding, Typing, RelayInv, OneHolder
<1>4. rpc[r] \notin Holding
  BY <1>3 DEF RelayInv, OneHolder
<1> QED  BY <1>2, <1>3, <1>4 DEF RelayInv, OneHolder

LEMMA Going ==
  ASSUME RelayInv, NEW r \in Relays, rpc[r] \in Holding, NEW at, RelayGoto(r, at),
         UNCHANGED <<tool, relayLock>>,
         tool = "macpad" /\ at \in Typing \cup {"receipt"} => SendersIn(draft') \subseteq {r}
  PROVE  OneHolder'
<1> SUFFICES ASSUME tool = "macpad", NEW x \in Relays, rpc'[x] \in Holding
             PROVE  /\ relayLock' = {x}
                    /\ rpc'[x] \in Typing \cup {"receipt"} => SendersIn(draft') \subseteq {x}
  BY DEF OneHolder, Holding
<1>1. DOMAIN rpc = Relays
  BY DEF RelayInv, RelayShape
<1>2. rpc'[r] = at /\ (x # r => rpc'[x] = rpc[x])
  BY <1>1 DEF RelayGoto
<1>3. x = r  BY <1>2, Alone
<1> QED  BY <1>2, <1>3, Alone

(* A step that types no reminder and reserves none.                          *)
LEMMA ReceiptsStand ==
  ASSUME RelayInv, NEW r \in Relays, NEW at, RelayGoto(r, at), at # "body",
         UNCHANGED <<tool, reminder, expects, receipts, reminded>>,
         rpc[r] \in {"second", "marker", "third", "return"} =>
            at \in {"marker", "return", "third", "ended"},
         rpc[r] # "ended"
  PROVE  Receipts'
<1>1. DOMAIN rpc = Relays
  BY DEF RelayInv, RelayShape
<1>2. rpc'[r] = at /\ \A x \in Relays \ {r} : rpc'[x] = rpc[x]
  BY <1>1 DEF RelayGoto
<1> QED  BY <1>2 DEF RelayInv, Receipts

LEMMA RelayStepSafe == RelayInv /\ [RelayNext]_relayVars => RelayInv'
<1> SUFFICES ASSUME RelayInv, [RelayNext]_relayVars PROVE RelayInv'
  OBVIOUS
<1>0. RelayShape'  BY RelayShapeStep DEF RelayInv
<1>a. RelayShape /\ OneHolder /\ Receipts /\ MessagesNotMixed
  BY DEF RelayInv
<1>1. ASSUME NEW r \in Relays, Start(r) PROVE RelayInv'
  <2>1. CASE LockFree(r)
    <3>1. rpc[r] = "start" /\ rpc'[r] = "first" /\ \A x \in Relays \ {r} : rpc'[x] = rpc[x]
      BY <1>1, <1>a, <2>1 DEF Start, RelayGoto, RelayShape
    <3>2. tool = "macpad" => relayLock = {} /\ relayLock' = {r}
      BY <1>1, <2>1 DEF Start, LockFree
    <3>3. OneHolder'
      BY <1>1, <1>a, <3>1, <3>2 DEF Start, OneHolder, Holding, Typing
    <3>4. Receipts'
      BY <1>1, <2>1, ReceiptsStand DEF Start
    <3> QED  BY <1>0, <1>1, <1>a, <3>3, <3>4 DEF Start, RelayInv, MessagesNotMixed
  <2>2. CASE ~LockFree(r)
    <3>1. OneHolder'  BY <1>1, <2>2, Stopped DEF Start
    <3>2. Receipts'  BY <1>1, <2>2, ReceiptsStand DEF Start, Stop
    <3> QED  BY <1>0, <1>1, <1>a, <3>1, <3>2 DEF Start, RelayInv, MessagesNotMixed
  <2> QED  BY <2>1, <2>2
<1>2. ASSUME NEW r \in Relays, FirstSnapshot(r) PROVE RelayInv'
  <2>1. CASE PromptIsEmpty
    <3> DEFINE at == IF reminder[r] /\ tool = "macpad" THEN "receipt" ELSE "body"
    <3>1. /\ rpc[r] = "first" /\ RelayGoto(r, at) /\ expects' = [expects EXCEPT ![r] = agent]
          /\ UNCHANGED <<tool, reminder, relayLock, receipts, draft, accepted, reminded>>
      BY <1>2, <2>1 DEF FirstSnapshot
    <3>2. at = "body" => ~reminder[r] \/ tool # "macpad"
      OBVIOUS
    <3>3. at \in {"receipt", "body"}
      OBVIOUS
    <3> HIDE DEF at
    <3>4. SendersIn(draft') = {}
      BY <2>1, <3>1 DEF PromptIsEmpty, SendersIn
    <3>5. OneHolder'
      BY <3>1, <3>4, Going DEF Holding
    <3>6. /\ rpc'[r] = at /\ \A x \in Relays \ {r} : rpc'[x] = rpc[x] /\ expects'[x] = expects[x]
      BY <1>a, <3>1 DEF RelayGoto, RelayShape
    <3>7. tool = "macpad" => \A x \in reminded : x[1] \in Relays \ {r}
      BY <1>a, <3>1 DEF Receipts
    <3>8. Receipts'
      BY <1>a, <3>1, <3>2, <3>6, <3>7 DEF Receipts
    <3> QED  BY <1>0, <1>a, <3>1, <3>5, <3>8 DEF RelayInv, MessagesNotMixed
  <2>2. CASE ~PromptIsEmpty
    <3>1. OneHolder'  BY <1>2, <2>2, Stopped DEF FirstSnapshot
    <3>2. Receipts'  BY <1>2, <2>2, ReceiptsStand DEF FirstSnapshot, Stop
    <3> QED  BY <1>0, <1>2, <1>a, <3>1, <3>2 DEF FirstSnapshot, RelayInv, MessagesNotMixed
  <2> QED  BY <2>1, <2>2
<1>3. ASSUME NEW r \in Relays, Reserve(r) PROVE RelayInv'
  <2>1. CASE expects[r] \in receipts
    <3>1. OneHolder'  BY <1>3, <2>1, Stopped DEF Reserve
    <3>2. Receipts'  BY <1>3, <2>1, ReceiptsStand DEF Reserve, Stop
    <3> QED  BY <1>0, <1>3, <1>a, <3>1, <3>2 DEF Reserve, RelayInv, MessagesNotMixed
  <2>2. CASE expects[r] \notin receipts
    <3>1. /\ rpc[r] = "receipt" /\ RelayGoto(r, "body") /\ receipts' = receipts \cup {expects[r]}
          /\ UNCHANGED <<tool, reminder, expects, relayLock, draft, accepted, reminded>>
      BY <1>3, <2>2 DEF Reserve, ReceiptKept
    <3>2. OneHolder'
      BY <1>a, <3>1, Going DEF OneHolder, Holding
    <3>3. rpc'[r] = "body" /\ \A x \in Relays \ {r} : rpc'[x] = rpc[x]
      BY <1>a, <3>1 DEF RelayGoto, RelayShape
    <3>4. Receipts'
      BY <1>a, <2>2, <3>1, <3>3 DEF Receipts
    <3> QED  BY <1>0, <1>a, <3>1, <3>2, <3>4 DEF RelayInv, MessagesNotMixed
  <2> QED  BY <2>1, <2>2
<1>4. ASSUME NEW r \in Relays, SendText(r) PROVE RelayInv'
  <2>1. /\ rpc[r] = "body" /\ RelayGoto(r, "second") /\ Types(r, "body")
        /\ UNCHANGED <<tool, reminder, expects, relayLock, receipts, accepted>>
        /\ reminded' = IF reminder[r] THEN reminded \cup {<<r, agent>>} ELSE reminded
    BY <1>4 DEF SendText
  <2>2. OneHolder'
    <3>1. SendersIn(draft') \subseteq SendersIn(draft) \cup {r}
      BY <1>a, <2>1, Typed
    <3> QED  BY <1>a, <2>1, <3>1, Going DEF OneHolder, Holding, Typing
  <2>3. rpc'[r] = "second" /\ \A x \in Relays \ {r} : rpc'[x] = rpc[x]
    BY <1>a, <2>1 DEF RelayGoto, RelayShape
  <2>4. Receipts'
    <3>1. CASE tool # "macpad"  BY <2>1, <3>1 DEF Receipts
    <3>2. CASE tool = "macpad" /\ ~reminder[r]
      BY <1>a, <2>1, <2>3, <3>2 DEF Receipts
    <3>3. CASE tool = "macpad" /\ reminder[r]
      <4>1. \A x \in reminded : expects[x[1]] # expects[r] /\ x[1] # r
        BY <1>a, <2>1, <3>3 DEF Receipts
      <4>2. expects[r] \in receipts  BY <1>a, <2>1, <3>3 DEF Receipts
      <4>3. \A x \in Relays \ {r} : rpc[x] # "body"
        BY <2>1, <3>3, Alone DEF Holding, Typing
      <4>4. reminded' = reminded \cup {<<r, agent>>}
        BY <2>1, <3>3
      <4>5. \A x \in reminded' : x[1] \in Relays /\ expects[x[1]] \in receipts /\ x = <<x[1], x[2]>>
                /\ rpc'[x[1]] \in {"second", "marker", "third", "return", "ended"}
        BY <1>a, <2>3, <3>3, <4>2, <4>4 DEF Receipts
      <4>6. \A x, y \in reminded' : expects[x[1]] = expects[y[1]] => x[1] = y[1]
        BY <1>a, <3>3, <4>1, <4>4 DEF Receipts
      <4> QED  BY <2>1, <2>3, <4>3, <4>5, <4>6 DEF Receipts
    <3> QED  BY <3>1, <3>2, <3>3
  <2> QED  BY <1>0, <1>a, <2>1, <2>2, <2>4 DEF RelayInv, MessagesNotMixed
<1>5. ASSUME NEW r \in Relays, SecondSnapshot(r) PROVE RelayInv'
  <2>1. rpc[r] = "second" /\ UNCHANGED <<tool, reminder, expects, receipts, draft, accepted, reminded>>
        /\ ((RelayGoto(r, "marker") /\ relayLock' = relayLock) \/ Stop(r))
    BY <1>5 DEF SecondSnapshot
  <2>2. OneHolder'
    BY <1>a, <2>1, Going, Stopped DEF OneHolder, Holding, Typing
  <2>3. Receipts'  BY <2>1, ReceiptsStand DEF Stop
  <2> QED  BY <1>0, <1>a, <2>1, <2>2, <2>3 DEF RelayInv, MessagesNotMixed
<1>6. ASSUME NEW r \in Relays, SendMarker(r) PROVE RelayInv'
  <2>1. /\ rpc[r] = "marker" /\ RelayGoto(r, "third") /\ Types(r, "marker")
        /\ UNCHANGED <<tool, reminder, expects, relayLock, receipts, accepted, reminded>>
    BY <1>6 DEF SendMarker
  <2>2. OneHolder'
    <3>1. SendersIn(draft') \subseteq SendersIn(draft) \cup {r}
      BY <1>a, <2>1, Typed
    <3> QED  BY <1>a, <2>1, <3>1, Going DEF OneHolder, Holding, Typing
  <2>3. Receipts'  BY <2>1, ReceiptsStand
  <2> QED  BY <1>0, <1>a, <2>1, <2>2, <2>3 DEF RelayInv, MessagesNotMixed
<1>7. ASSUME NEW r \in Relays, ThirdSnapshot(r) PROVE RelayInv'
  <2>1. rpc[r] = "third" /\ UNCHANGED <<tool, reminder, expects, receipts, draft, accepted, reminded>>
        /\ ((RelayGoto(r, "return") /\ relayLock' = relayLock) \/ Stop(r))
    BY <1>7 DEF ThirdSnapshot
  <2>2. OneHolder'
    BY <1>a, <2>1, Going, Stopped DEF OneHolder, Holding, Typing
  <2>3. Receipts'  BY <2>1, ReceiptsStand DEF Stop
  <2> QED  BY <1>0, <1>a, <2>1, <2>2, <2>3 DEF RelayInv, MessagesNotMixed
<1>8. ASSUME NEW r \in Relays, SendReturn(r) PROVE RelayInv'
  <2>1. /\ rpc[r] = "return" /\ Stop(r)
        /\ UNCHANGED <<tool, reminder, expects, receipts, reminded>>
        /\ accepted' = IF draft = <<>> THEN accepted ELSE accepted \cup {draft}
    BY <1>8 DEF SendReturn
  <2>2. OneHolder'  BY <2>1, Stopped DEF Holding, Typing
  <2>3. Receipts'  BY <2>1, ReceiptsStand DEF Stop
  <2>4. ASSUME tool = "macpad", draft # <<>> PROVE Cardinality(SendersIn(draft)) = 1
    <3>1. SendersIn(draft) \subseteq {r}
      BY <1>a, <2>1, <2>4 DEF OneHolder, Typing
    <3>2. Len(draft) \in Nat /\ Len(draft) # 0
      BY <1>a, <2>4, EmptySeq DEF RelayShape
    <3>3. SendersIn(draft) = {r}
      BY <3>1, <3>2 DEF SendersIn
    <3> QED  BY <3>3, FS_Singleton
  <2>5. ASSUME tool = "macpad", NEW m \in accepted' PROVE Cardinality(SendersIn(m)) = 1
    <3>1. CASE m \in accepted
      BY <1>a, <2>5, <3>1 DEF MessagesNotMixed
    <3>2. CASE m \notin accepted
      <4>1. m = draft /\ draft # <<>>
        BY <2>1, <2>5, <3>2
      <4> QED  BY <2>4, <2>5, <4>1
    <3> QED  BY <3>1, <3>2
  <2>6. MessagesNotMixed'
    BY <2>1, <2>5 DEF MessagesNotMixed
  <2> QED  BY <1>0, <2>2, <2>3, <2>6 DEF RelayInv
<1>9. ASSUME NEW r \in Relays, RelayDies(r) PROVE RelayInv'
  <2>1. rpc[r] # "ended" /\ Stop(r)
        /\ UNCHANGED <<tool, reminder, expects, receipts, draft, accepted, reminded>>
    BY <1>9 DEF RelayDies
  <2>2. OneHolder'  BY <2>1, Stopped
  <2>3. Receipts'  BY <2>1, ReceiptsStand DEF Stop
  <2> QED  BY <1>0, <1>a, <2>1, <2>2, <2>3 DEF RelayInv, MessagesNotMixed
<1>10. CASE AgentIdles
  BY <1>0, <1>10, <1>a DEF AgentIdles, RelayInv, OneHolder, Receipts, MessagesNotMixed
<1>11. CASE AgentReplaced
  <2>1. UNCHANGED <<tool, rpc, reminder, expects, relayLock, receipts, accepted, reminded>>
        /\ draft' = <<>>
    BY <1>11 DEF AgentReplaced
  <2>2. SendersIn(draft') = {}  BY <2>1 DEF SendersIn
  <2> QED  BY <1>0, <1>a, <2>1, <2>2 DEF RelayInv, OneHolder, Receipts, MessagesNotMixed
<1>12. CASE UNCHANGED relayVars
  BY <1>0, <1>12, <1>a DEF relayVars, RelayInv, OneHolder, Receipts, MessagesNotMixed
<1> QED
  BY <1>1, <1>2, <1>3, <1>4, <1>5, <1>6, <1>7, <1>8, <1>9, <1>10, <1>11, <1>12
  DEF RelayNext, RelayStep

(* Messages of two relays are never submitted together, and an agent is      *)
(* reminded once, for any number of relays that overlap, die and follow each *)
(* other.                                                                    *)
THEOREM MessagesSoundAlways == RelaySpec => []MessagesSound
<1>1. RelayInit => RelayInv
  BY DEF RelayInit, RelayInv, RelayShape, OneHolder, Receipts, Holding, Typing, MessagesNotMixed
<1>2. RelayInv => MessagesSound
  BY DEF RelayInv, Receipts, MessagesSound, ReminderOnce
<1> QED  BY <1>1, <1>2, RelayStepSafe, PTL DEF RelaySpec

-----------------------------------------------------------------------------
(* ManagedJob.                                                               *)

(* What the second inventory did not see appeared after its readings: of the *)
(* job table from "ps" on, of the processes from "decide" on.                *)
SecondLook ==
    /\ refr.stage = "plist" => refr.round = 1
    /\ refr.stage \in {"ps", "decide", "load"} /\ refr.round = 2
         => (service.loaded => refr.seen.loaded \/ refr.reloaded)
    /\ refr.stage \in {"decide", "load"} /\ refr.round = 2
         => Live(service) \subseteq refr.seen.live \cup refr.late

(* Only two decisions for "load" reach the load.                             *)
LoadDecided ==
    refr.stage = "load" => refr.round = 2 /\ ~refr.seen.loaded /\ refr.seen.live = {}

ManagedShape ==
    /\ plist \in Plists
    /\ DOMAIN service = {"loaded", "procs", "own"} /\ DOMAIN service.procs = Copies
    /\ DOMAIN refr = {"stage", "round", "starts", "seen", "late", "reloaded", "rc", "world"}
    /\ DOMAIN refr.seen = {"loaded", "live"} /\ refr.round \in {1, 2}

ManagedInv == ManagedShape /\ SecondLook /\ LoadDecided

LEMMA ManagedShapeStep == ManagedShape /\ [ManagedNext]_managedVars => ManagedShape'
<1> SUFFICES ASSUME ManagedShape, [ManagedNext]_managedVars PROVE ManagedShape'
  OBVIOUS
<1> USE DEF ManagedShape
<1>1. CASE ListJobs  BY <1>1 DEF ListJobs, Unsafe
<1>2. CASE ListProcesses  BY <1>2 DEF ListProcesses, Unsafe, Live
<1>3. CASE CheckPlist  BY <1>3 DEF CheckPlist, Unsafe, Deferred, Plists
<1>4. CASE DecideRefresh  BY <1>4 DEF DecideRefresh, AfterDecision
<1>5. CASE Load  BY <1>5 DEF Load, ByLaunchd, Started
<1>6. CASE SomebodyLoads
  BY <1>6 DEF SomebodyLoads, Acts, ByLaunchd, Started, Later
<1>7. CASE SomebodyUnloads  BY <1>7 DEF SomebodyUnloads, Acts
<1>8. CASE RunsByHand  BY <1>8 DEF RunsByHand, Acts, Started, Later
<1>9. CASE CopyExits  BY <1>9 DEF CopyExits, Acts
<1>10. CASE UNCHANGED managedVars  BY <1>10 DEF managedVars
<1> QED
  BY <1>1, <1>2, <1>3, <1>4, <1>5, <1>6, <1>7, <1>8, <1>9, <1>10 DEF ManagedNext

LEMMA ManagedStep == ManagedInv /\ [ManagedNext]_managedVars => ManagedInv'
<1> SUFFICES ASSUME ManagedInv, [ManagedNext]_managedVars PROVE ManagedInv'
  OBVIOUS
<1>0. ManagedShape'  BY ManagedShapeStep DEF ManagedInv
<1> SUFFICES SecondLook' /\ LoadDecided'  BY <1>0 DEF ManagedInv
<1> USE DEF ManagedInv, SecondLook, LoadDecided, ManagedShape, Live
<1>1. CASE ListJobs
  <2>1. CASE Unsafe  BY <2>1 DEF Unsafe
  <2>2. CASE refr' = [refr EXCEPT !.stage = "ps", !.seen.loaded = service.loaded, !.reloaded = FALSE]
    <3>1. refr'.stage = "ps" /\ refr'.seen.loaded = service.loaded
      BY <2>2
    <3> QED  BY <1>1, <3>1 DEF ListJobs
  <2> QED  BY <1>1, <2>1, <2>2 DEF ListJobs
<1>2. CASE ListProcesses
  <2>1. CASE Unsafe  BY <2>1 DEF Unsafe
  <2>2. CASE refr' = [refr EXCEPT !.stage = IF refr.round = 1 THEN "plist" ELSE "decide",
                             !.seen.live = Live(service), !.late = {}]
    <3>1. /\ refr'.stage = IF refr.round = 1 THEN "plist" ELSE "decide"
          /\ refr'.seen.live = Live(service) /\ refr'.seen.loaded = refr.seen.loaded
          /\ refr'.round = refr.round /\ refr'.reloaded = refr.reloaded
      BY <2>2
    <3> QED  BY <1>2, <3>1 DEF ListProcesses
  <2> QED  BY <1>2, <2>1, <2>2 DEF ListProcesses
<1>3. CASE CheckPlist
  <2>1. \/ refr'.stage = "done"
        \/ refr.stage = "plist" /\ refr'.stage = "decide" /\ refr'.round = refr.round
    BY <1>3 DEF CheckPlist, Unsafe, Deferred, Plists
  <2> QED  BY <2>1
<1>4. CASE DecideRefresh
  <2>1. decide(refr.seen) = "load" => ~refr.seen.loaded /\ refr.seen.live = {}
    BY DEF decide
  <2>2. \/ refr'.stage \in {"done", "list"}
        \/ /\ decide(refr.seen) = "load" /\ refr'.stage = "load"
           /\ refr'.seen = refr.seen /\ refr'.late = refr.late
           /\ refr'.reloaded = refr.reloaded /\ refr'.round = 2 /\ refr.round = 2
    BY <1>4 DEF DecideRefresh, AfterDecision
  <2> QED  BY <1>4, <2>1, <2>2 DEF DecideRefresh
<1>5. CASE Load
  <2>1. refr'.stage = "done"  BY <1>5 DEF Load
  <2> QED  BY <2>1
<1>6. CASE SomebodyLoads
  <2>1. PICK c \in Copies :
          /\ service' = ByLaunchd(c)
          /\ refr' = [refr EXCEPT !.world = @ + 1, !.reloaded = @ \/ refr.round = 2,
                                  !.late = Later(c)]
    BY <1>6 DEF SomebodyLoads
  <2>2. /\ refr'.stage = refr.stage /\ refr'.seen = refr.seen /\ refr'.round = refr.round
        /\ refr.round = 2 => refr'.reloaded /\ refr'.late = refr.late \cup {c}
    BY <2>1 DEF Later
  <2>3. service'.procs = [service.procs EXCEPT ![c] = "live"]
    BY <2>1 DEF ByLaunchd, Started
  <2> QED  BY <2>2, <2>3
<1>7. CASE SomebodyUnloads  BY <1>7 DEF SomebodyUnloads, Acts
<1>8. CASE RunsByHand  BY <1>8 DEF RunsByHand, Acts, Started, Later
<1>9. CASE CopyExits  BY <1>9 DEF CopyExits, Acts
<1>10. CASE UNCHANGED managedVars  BY <1>10 DEF managedVars
<1> QED
  BY <1>1, <1>2, <1>3, <1>4, <1>5, <1>6, <1>7, <1>8, <1>9, <1>10 DEF ManagedNext

(* However launchd, users and other daemons act between the two inventories, *)
(* the refresh only competes with daemons that appeared after the second.    *)
THEOREM OnlyLatecomersAlways == ManagedSpec => []OnlyLatecomers
<1>1. ManagedInit => ManagedInv
  BY DEF ManagedInit, ManagedInv, ManagedShape, SecondLook, LoadDecided, Unseen, NoCopy
<1>2. ManagedInv => OnlyLatecomers
  BY DEF ManagedInv, SecondLook, LoadDecided, OnlyLatecomers
<1> QED  BY <1>1, <1>2, ManagedStep, PTL DEF ManagedSpec

-----------------------------------------------------------------------------
(* PrepareServer.                                                            *)

PrepFields == {"stage", "number", "check", "read", "rc"}
Owns == {"create", "write", "replace", "failed"}
ServerShape ==
    /\ DOMAIN temps = Numbers /\ DOMAIN prep = Preparers
    /\ prepKilled \in Nat
    /\ \A r \in Preparers :
         /\ DOMAIN prep[r] = PrepFields
         /\ IF prep[r].stage \in Owns THEN prep[r].number \in Numbers ELSE prep[r].number = "none"

(* Running tools have different process numbers, and read the image that     *)
(* still had to be converted; a temporary file about to be renamed is whole. *)
NumbersOwned ==
    \A r, q \in Preparers : prep[r].number = prep[q].number /\ prep[r].number # "none" => r = q

TempsWhole ==
    \A r \in Preparers :
        /\ prep[r].stage \in {"create", "write"} => prep[r].read = "universal"
        /\ prep[r].stage = "replace" => temps[prep[r].number] = "ready"

Orphans == {n \in Numbers : temps[n] # "none" /\ \A r \in Preparers : prep[r].number # n}

ServerInv == ServerShape /\ NumbersOwned /\ TempsWhole /\ ServerWhole /\ TempsOwned

LEMMA OrphansFinite == IsFiniteSet(Orphans) /\ IsFiniteSet(Orphans)'
<1>1. Orphans \subseteq Numbers /\ Orphans' \subseteq Numbers
  BY DEF Orphans
<1>2. \A A \in SUBSET Numbers : IsFiniteSet(A)
  BY PrepareAssumption, FS_Subset
<1>3. IsFiniteSet(Orphans)
  BY <1>1, <1>2
<1>4. IsFiniteSet(Orphans')
  BY <1>1, <1>2
<1> QED  BY <1>3, <1>4

LEMMA OrphansCount ==
  /\ TempsOwned <=> Cardinality(Orphans) <= prepKilled
  /\ TempsOwned' <=> Cardinality(Orphans') <= prepKilled'
BY Zenon DEF TempsOwned, Orphans

(* A step that leaves no more files behind.                                  *)
LEMMA NoOrphan ==
  ASSUME ServerInv, Orphans' \subseteq Orphans, prepKilled' = prepKilled
  PROVE  TempsOwned'
<1>1. Cardinality(Orphans') <= Cardinality(Orphans) /\ Cardinality(Orphans') \in Nat
      /\ Cardinality(Orphans) \in Nat
  BY OrphansFinite, FS_Subset, FS_CardinalityType
<1> QED  BY <1>1, OrphansCount DEF ServerInv, ServerShape

(* What a step of r does to the locals of all runs.                          *)
LEMMA PrepMoves ==
  ASSUME ServerShape, NEW r \in Preparers, NEW next, prep' = [prep EXCEPT ![r] = next]
  PROVE  /\ DOMAIN prep' = Preparers /\ prep'[r] = next
         /\ \A q \in Preparers \ {r} : prep'[q] = prep[q]
BY DEF ServerShape

(* A step of a run that owns its temporary file: only that file changes.     *)
LEMMA OwnerStep ==
  ASSUME ServerInv, NEW r \in Preparers, prep[r].stage \in Owns, NEW next,
         prep' = [prep EXCEPT ![r] = next], DOMAIN next = PrepFields,
         \/ next.stage \in Owns /\ next.number = prep[r].number
         \/ next.stage = "done" /\ next.number = "none" /\ temps'[prep[r].number] = "none",
         next.stage \in {"create", "write"} => next.read = "universal",
         next.stage = "replace" => temps'[prep[r].number] = "ready",
         next.stage = "done" /\ next.rc = 0 => server' = "ready",
         \/ temps' = temps
         \/ \E x : temps' = [temps EXCEPT ![prep[r].number] = x],
         server' = server \/ server' = "ready", prepKilled' = prepKilled
  PROVE  ServerInv'
<1> DEFINE n == prep[r].number
<1>0. ServerShape /\ NumbersOwned /\ TempsWhole /\ ServerWhole /\ TempsOwned
  BY DEF ServerInv
<1>1. n \in Numbers
  BY <1>0 DEF ServerShape
<1>2. /\ DOMAIN prep' = Preparers /\ prep'[r] = next
      /\ \A q \in Preparers \ {r} : prep'[q] = prep[q]
  BY <1>0, PrepMoves
<1>3. DOMAIN temps' = Numbers /\ \A m \in Numbers \ {n} : temps'[m] = temps[m]
  BY <1>0 DEF ServerShape
<1>4. ServerShape'
  BY <1>0, <1>1, <1>2, <1>3 DEF ServerShape, Owns
<1>5. NumbersOwned'
  BY <1>0, <1>2 DEF NumbersOwned
<1>6. TempsWhole'
  <2> SUFFICES ASSUME NEW q \in Preparers
               PROVE  /\ prep'[q].stage \in {"create", "write"} => prep'[q].read = "universal"
                      /\ prep'[q].stage = "replace" => temps'[prep'[q].number] = "ready"
    BY DEF TempsWhole
  <2>1. CASE q = r  BY <1>2, <2>1
  <2>2. CASE q # r
    <3>1. prep'[q] = prep[q]  BY <1>2, <2>2
    <3>2. prep[q].stage = "replace" => prep[q].number \in Numbers \ {n}
      BY <1>0, <1>1, <2>2, PrepareAssumption DEF NumbersOwned, ServerShape, Owns
    <3> QED  BY <1>0, <1>3, <3>1, <3>2 DEF TempsWhole
  <2> QED  BY <2>1, <2>2
<1>7. ServerWhole'
  BY <1>0, <1>2 DEF ServerWhole
<1>8. Orphans' \subseteq Orphans
  <2> SUFFICES ASSUME NEW m \in Orphans' PROVE m \in Orphans
    OBVIOUS
  <2>1. m \in Numbers /\ temps'[m] # "none" /\ \A q \in Preparers : prep'[q].number # m
    BY DEF Orphans
  <2>2. m # n  BY <1>2, <2>1
  <2> QED  BY <1>2, <1>3, <2>1, <2>2 DEF Orphans
<1> QED  BY <1>4, <1>5, <1>6, <1>7, <1>8, NoOrphan DEF ServerInv

LEMMA ServerStep == ServerInv /\ [ServerNext]_serverVars => ServerInv'
<1> SUFFICES ASSUME ServerInv, [ServerNext]_serverVars PROVE ServerInv'
  OBVIOUS
<1>0. ServerShape /\ NumbersOwned /\ TempsWhole /\ ServerWhole /\ TempsOwned
  BY DEF ServerInv
<1> USE PrepareAssumption
<1>1. ASSUME NEW r \in Preparers, ReadImage(r) PROVE ServerInv'
  <2>0. prep[r].stage = "new" /\ prep[r].number = "none" /\ DOMAIN prep[r] = PrepFields
    BY <1>0, <1>1 DEF ReadImage, ServerShape, Owns
  <2>a. PICK n \in Free, c \in BOOLEAN :
          \E next :
             /\ prep' = [prep EXCEPT ![r] = next]
             /\ next = CASE preparation_state(server) = "ready" -> [prep[r] EXCEPT !.stage = "done", !.rc = 0]
                         [] preparation_state(server) = "error" -> [prep[r] EXCEPT !.stage = "done", !.rc = 2]
                         [] OTHER -> IF c THEN [prep[r] EXCEPT !.stage = "done", !.rc = 1]
                                     ELSE [prep[r] EXCEPT !.stage = "create", !.number = n, !.read = server]
    BY <1>1 DEF ReadImage
  <2>1. PICK next :
          /\ prep' = [prep EXCEPT ![r] = next]
          /\ next = CASE preparation_state(server) = "ready" -> [prep[r] EXCEPT !.stage = "done", !.rc = 0]
                      [] preparation_state(server) = "error" -> [prep[r] EXCEPT !.stage = "done", !.rc = 2]
                      [] OTHER -> IF c THEN [prep[r] EXCEPT !.stage = "done", !.rc = 1]
                                  ELSE [prep[r] EXCEPT !.stage = "create", !.number = n, !.read = server]
    BY <2>a
  <2>2. /\ DOMAIN next = PrepFields
        /\ \/ next.stage = "done" /\ next.number = "none" /\ (next.rc = 0 => server = "ready")
           \/ next.stage = "create" /\ next.number = n /\ next.read = "universal"
    <3>1. CASE preparation_state(server) = "ready"
      <4>1. server = "ready"  BY <3>1 DEF preparation_state
      <4>2. next = [prep[r] EXCEPT !.stage = "done", !.rc = 0]  BY <2>1, <3>1
      <4> QED  BY <2>0, <4>1, <4>2 DEF PrepFields
    <3>2. CASE preparation_state(server) = "error"
      <4>1. next = [prep[r] EXCEPT !.stage = "done", !.rc = 2]  BY <2>1, <3>2
      <4> QED  BY <2>0, <4>1 DEF PrepFields
    <3>3. CASE preparation_state(server) \notin {"ready", "error"}
      <4>1. server = "universal"  BY <3>3 DEF preparation_state
      <4>2. \/ next = [prep[r] EXCEPT !.stage = "done", !.rc = 1]
            \/ next = [prep[r] EXCEPT !.stage = "create", !.number = n, !.read = server]
        BY <2>1, <3>3
      <4>3. CASE next = [prep[r] EXCEPT !.stage = "done", !.rc = 1]
        BY <2>0, <4>3 DEF PrepFields
      <4>4. CASE next = [prep[r] EXCEPT !.stage = "create", !.number = n, !.read = server]
        BY <2>0, <4>1, <4>4 DEF PrepFields
      <4> QED  BY <4>2, <4>3, <4>4
    <3> QED  BY <3>1, <3>2, <3>3
  <2>3. UNCHANGED <<server, temps, prepKilled>>  BY <1>1 DEF ReadImage
  <2>4. /\ DOMAIN prep' = Preparers /\ prep'[r] = next
        /\ \A q \in Preparers \ {r} : prep'[q] = prep[q]
    BY <1>0, <2>1, PrepMoves
  <2>5. n \in Numbers /\ \A q \in Preparers : prep[q].number # n
    BY DEF Free
  <2>6. ServerShape'
    BY <1>0, <2>2, <2>3, <2>4, <2>5 DEF ServerShape, Owns
  <2>7. NumbersOwned'
    BY <1>0, <2>2, <2>4, <2>5 DEF NumbersOwned
  <2>8. TempsWhole'
    BY <1>0, <2>2, <2>3, <2>4 DEF TempsWhole
  <2>9. ServerWhole'
    BY <1>0, <2>2, <2>3, <2>4 DEF ServerWhole
  <2>10. Orphans' \subseteq Orphans
    BY <2>0, <2>3, <2>4 DEF Orphans
  <2> QED  BY <2>3, <2>6, <2>7, <2>8, <2>9, <2>10, NoOrphan DEF ServerInv
<1>2. ASSUME NEW r \in Preparers, CreateTemp(r) PROVE ServerInv'
  <2>1. prep[r].stage = "create" /\ DOMAIN prep[r] = PrepFields /\ UNCHANGED <<server, prepKilled>>
    BY <1>0, <1>2 DEF CreateTemp, ServerShape
  <2>s. PICK s \in {"write", "failed"} :
           /\ prep' = [prep EXCEPT ![r].stage = s]
           /\ temps' \in {temps, [temps EXCEPT ![prep[r].number] = "partial"]}
    BY <1>2 DEF CreateTemp, PrepareGoes
  <2>2. PICK next : /\ next = [prep[r] EXCEPT !.stage = s] /\ prep' = [prep EXCEPT ![r] = next]
                    /\ temps' \in {temps, [temps EXCEPT ![prep[r].number] = "partial"]}
    BY <2>s
  <2>3. DOMAIN next = PrepFields /\ next.stage = s /\ next.number = prep[r].number
        /\ next.read = prep[r].read
    BY <2>1, <2>2 DEF PrepFields
  <2>4. \/ temps' = temps
        \/ \E x : temps' = [temps EXCEPT ![prep[r].number] = x]
    BY <2>2
  <2>5. prep' = [prep EXCEPT ![r] = next]  BY <2>2
  <2>6. /\ prep[r].stage \in Owns /\ next.stage \in Owns /\ next.stage \notin {"replace", "done"}
        /\ next.read = "universal"
    BY <1>0, <2>1, <2>2, <2>3 DEF Owns, TempsWhole
  <2> QED  BY <2>1, <2>3, <2>4, <2>5, <2>6, OwnerStep
<1>3. ASSUME NEW r \in Preparers, WriteTemp(r) PROVE ServerInv'
  <2>1. prep[r].stage = "write" /\ DOMAIN prep[r] = PrepFields /\ UNCHANGED <<server, prepKilled>>
    BY <1>0, <1>3 DEF WriteTemp, ServerShape
  <2>2. Written(r) = "ready" /\ prep[r].number \in Numbers /\ DOMAIN temps = Numbers
    BY <1>0, <2>1 DEF Written, prepare_bytes, preparation_state, TempsWhole, ServerShape, Owns
  <2>s. PICK s \in {"replace", "failed"} :
           /\ prep' = [prep EXCEPT ![r].stage = s]
           /\ \/ temps' = [temps EXCEPT ![prep[r].number] = "ready"]
              \/ temps' = temps /\ s = "failed"
    BY <1>3, <2>2 DEF WriteTemp, PrepareGoes
  <2>3. PICK next : /\ next = [prep[r] EXCEPT !.stage = s] /\ prep' = [prep EXCEPT ![r] = next]
                    /\ \/ temps' = [temps EXCEPT ![prep[r].number] = "ready"]
                       \/ temps' = temps /\ s = "failed"
    BY <2>s
  <2>4. DOMAIN next = PrepFields /\ next.stage = s /\ next.number = prep[r].number
    BY <2>1, <2>3 DEF PrepFields
  <2>5. s = "replace" => temps'[prep[r].number] = "ready"
    BY <2>2, <2>3
  <2>6. \/ temps' = temps
        \/ \E x : temps' = [temps EXCEPT ![prep[r].number] = x]
    BY <2>3
  <2>7. prep' = [prep EXCEPT ![r] = next] /\ next.stage \in {"replace", "failed"}
    BY <2>3, <2>4
  <2>8. /\ prep[r].stage \in Owns /\ next.stage \in Owns /\ next.stage \notin {"create", "write", "done"}
        /\ next.stage = "replace" => temps'[prep[r].number] = "ready"
    BY <2>1, <2>4, <2>5, <2>7 DEF Owns
  <2> QED  BY <2>1, <2>4, <2>6, <2>7, <2>8, OwnerStep
<1>4. ASSUME NEW r \in Preparers, ReplaceServer(r) PROVE ServerInv'
  <2>1. /\ prep[r].stage = "replace" /\ DOMAIN prep[r] = PrepFields /\ prepKilled' = prepKilled
        /\ temps[prep[r].number] = "ready" /\ prep[r].number \in Numbers /\ DOMAIN temps = Numbers
    BY <1>0, <1>4 DEF ReplaceServer, ServerShape, TempsWhole, Owns
  <2>2. CASE PrepareGoes(r, "failed") /\ UNCHANGED <<server, temps>>
    <3>1. PICK next : next = [prep[r] EXCEPT !.stage = "failed"] /\ prep' = [prep EXCEPT ![r] = next]
      BY <2>2 DEF PrepareGoes
    <3>2. DOMAIN next = PrepFields /\ next.stage = "failed" /\ next.number = prep[r].number
      BY <2>1, <3>1 DEF PrepFields
    <3> QED  BY <1>0, <2>1, <2>2, <3>1, <3>2, OwnerStep DEF Owns
  <2>3. CASE /\ server' = temps[prep[r].number] /\ PrepareEnds(r, 0)
             /\ temps' = [temps EXCEPT ![prep[r].number] = "none"]
    <3>1. PICK next : /\ next = [prep[r] EXCEPT !.stage = "done", !.rc = 0, !.number = "none"]
                      /\ prep' = [prep EXCEPT ![r] = next]
      BY <2>3 DEF PrepareEnds
    <3>2. DOMAIN next = PrepFields /\ next.stage = "done" /\ next.number = "none"
      BY <2>1, <3>1 DEF PrepFields
    <3>3. temps'[prep[r].number] = "none"
      BY <2>1, <2>3
    <3> QED  BY <1>0, <2>1, <2>3, <3>1, <3>2, <3>3, OwnerStep DEF Owns
  <2> QED  BY <1>4, <2>2, <2>3 DEF ReplaceServer
<1>5. ASSUME NEW r \in Preparers, FailRun(r) PROVE ServerInv'
  <2>1. /\ prep[r].stage = "failed" /\ DOMAIN prep[r] = PrepFields /\ UNCHANGED <<server, prepKilled>>
        /\ temps' = [temps EXCEPT ![prep[r].number] = "none"]
        /\ prep[r].number \in Numbers /\ DOMAIN temps = Numbers
    BY <1>0, <1>5 DEF FailRun, ServerShape, Owns, Unlinked
  <2>2. PICK next : /\ next = [prep[r] EXCEPT !.stage = "done", !.rc = 2, !.number = "none"]
                    /\ prep' = [prep EXCEPT ![r] = next]
    BY <1>5 DEF FailRun, PrepareEnds
  <2>3. DOMAIN next = PrepFields /\ next.stage = "done" /\ next.number = "none" /\ next.rc = 2
    BY <2>1, <2>2 DEF PrepFields
  <2>4. temps'[prep[r].number] = "none"  BY <2>1
  <2>5. \/ temps' = temps
        \/ \E x : temps' = [temps EXCEPT ![prep[r].number] = x]
    BY <2>1
  <2>6. prep' = [prep EXCEPT ![r] = next] /\ prep[r].stage \in Owns
    BY <2>1, <2>2 DEF Owns
  <2>7. /\ next.stage \notin {"create", "write", "replace"} /\ ~(next.stage = "done" /\ next.rc = 0)
        /\ server' = server /\ prepKilled' = prepKilled
    BY <2>1, <2>3
  <2> QED
    BY <2>1, <2>3, <2>4, <2>5, <2>6, <2>7, OwnerStep
<1>6. ASSUME NEW r \in Preparers, Kill(r) PROVE ServerInv'
  <2>1. /\ prep[r].stage \in Owns /\ DOMAIN prep[r] = PrepFields /\ UNCHANGED <<server, temps>>
        /\ prepKilled' = prepKilled + 1
    BY <1>0, <1>6 DEF Kill, ServerShape, Owns
  <2>2. PICK next : /\ next = [prep[r] EXCEPT !.stage = "new", !.number = "none"]
                    /\ prep' = [prep EXCEPT ![r] = next]
    BY <1>6 DEF Kill
  <2>3. DOMAIN next = PrepFields /\ next.stage = "new" /\ next.number = "none"
    BY <2>1, <2>2 DEF PrepFields
  <2>4. /\ DOMAIN prep' = Preparers /\ prep'[r] = next
        /\ \A q \in Preparers \ {r} : prep'[q] = prep[q]
    BY <1>0, <2>2, PrepMoves
  <2>5. ServerShape'
    BY <1>0, <2>1, <2>3, <2>4 DEF ServerShape, Owns
  <2>6. NumbersOwned' /\ TempsWhole' /\ ServerWhole'
    BY <1>0, <2>1, <2>3, <2>4 DEF NumbersOwned, TempsWhole, ServerWhole
  <2>7. Orphans' \subseteq Orphans \cup {prep[r].number}
    BY <2>1, <2>4 DEF Orphans
  <2>8. /\ Cardinality(Orphans \cup {prep[r].number}) <= Cardinality(Orphans) + 1
        /\ IsFiniteSet(Orphans \cup {prep[r].number})
        /\ Cardinality(Orphans) \in Nat
    <3>1. IsFiniteSet(Orphans) /\ Cardinality(Orphans) \in Nat
      BY OrphansFinite, FS_CardinalityType
    <3>2. /\ IsFiniteSet(Orphans \cup {prep[r].number})
          /\ Cardinality(Orphans \cup {prep[r].number}) =
               IF prep[r].number \in Orphans THEN Cardinality(Orphans)
               ELSE Cardinality(Orphans) + 1
      BY <3>1, FS_AddElement
    <3> QED  BY <3>1, <3>2
  <2>9. Cardinality(Orphans') <= Cardinality(Orphans) + 1 /\ Cardinality(Orphans') \in Nat
    BY <2>7, <2>8, OrphansFinite, FS_Subset, FS_CardinalityType
  <2>10. TempsOwned'
    BY <1>0, <2>1, <2>8, <2>9, OrphansCount DEF ServerShape
  <2> QED  BY <2>5, <2>6, <2>10 DEF ServerInv
<1>7. CASE UNCHANGED serverVars
  BY <1>0, <1>7 DEF serverVars, ServerInv, ServerShape, NumbersOwned, TempsWhole, ServerWhole, TempsOwned
<1> QED
  BY <1>1, <1>2, <1>3, <1>4, <1>5, <1>6, <1>7 DEF ServerNext, RunStep

LEMMA ServerStart == ServerInit => ServerInv
<1> SUFFICES ASSUME ServerInit PROVE ServerInv
  OBVIOUS
<1>1. ServerShape /\ NumbersOwned /\ TempsWhole
  BY DEF ServerInit, ServerShape, NumbersOwned, TempsWhole, PrepFields, Owns
<1>2. ServerWhole
  BY DEF ServerInit, ServerWhole, ServerImages
<1>3. Orphans = {} /\ prepKilled = 0
  BY DEF ServerInit, Orphans
<1>4. Cardinality(Orphans) = 0
  BY <1>3, FS_EmptySet
<1> QED  BY <1>1, <1>2, <1>3, <1>4, OrphansCount DEF ServerInv

(* WindowServer is whole whenever it can be opened, a success leaves the     *)
(* verified image, and a temporary file outlives its run only when the run   *)
(* was killed, for any number of overlapping runs.                           *)
THEOREM ServerSoundAlways == ServerSpec => [](ServerWhole /\ TempsOwned)
<1>1. ServerInv => ServerWhole /\ TempsOwned
  BY DEF ServerInv
<1> QED  BY <1>1, ServerStart, ServerStep, PTL DEF ServerSpec

-----------------------------------------------------------------------------
(* ProviderContract.                                                         *)

ProviderShape ==
    /\ stager.builds \in Nat /\ DOMAIN stager = {"pc", "left", "builds"}
    /\ DOMAIN staged = Files
    /\ DOMAIN temp = Publishers /\ \A p \in Publishers : DOMAIN temp[p] = {"slices", "signed"}
    /\ DOMAIN publ = Publishers /\ \A p \in Publishers : DOMAIN publ[p] = {"pc", "hashes"}

\* A linked image: nothing yet, or both slices of one build.
OfOneBuild(file) ==
    \/ \A a \in Archs : file[a] = NoSlice
    \/ \E b \in Nat \ {0} : \A a \in Archs : file[a].build = b

StageSound ==
    /\ OfOneBuild(built) /\ OfOneBuild(staged["fat"])
    /\ stager.pc = "staged" => verify_bundle(staged, TRUE)

\* What is about to be renamed over the provider is what was verified, signed
\* and, but for the hashes still to do, trusted.
Publishable(p) ==
    /\ publ[p].pc = "trust"
         => /\ verify_fat(temp[p].slices) /\ temp[p].signed
            /\ \A a \in Archs : <<a, temp[p].slices[a]>> \in publ[p].hashes \cup live

TargetSound == PublishedWhole /\ PublishedTrusted

ProviderInv ==
    ProviderShape /\ StageSound /\ (\A p \in Publishers : Publishable(p)) /\ TargetSound

LEMMA OneBuildStaged == StageSound => StagedOneBuild
<1> SUFFICES ASSUME StageSound, stager.pc = "staged"
             PROVE  Cardinality({staged["fat"][a].build : a \in Archs}
                                  \cup {staged[a][a].build : a \in Archs}) = 1
  BY DEF StagedOneBuild
<1>1. /\ \E a \in Archs : staged["fat"][a] # NoSlice
      /\ \A a \in Archs : staged["fat"][a] # NoSlice => staged["fat"][a] = staged[a][a]
  BY DEF StageSound, verify_bundle, SameSlices, Has
<1>2. PICK b \in Nat \ {0} : \A a \in Archs : staged["fat"][a].build = b
  BY <1>1 DEF StageSound, OfOneBuild
<1>3. \A a \in Archs : staged["fat"][a] # NoSlice
  BY <1>2 DEF NoSlice
<1>4. \A a \in Archs : staged[a][a].build = b
  BY <1>1, <1>2, <1>3
<1>5. "arm64" \in Archs
  BY DEF Archs
<1>6. {staged["fat"][a].build : a \in Archs} \cup {staged[a][a].build : a \in Archs} = {b}
  BY <1>2, <1>4, <1>5
<1> QED  BY <1>6, FS_Singleton

LEMMA ProviderStart == ProviderInit => ProviderInv
<1> SUFFICES ASSUME ProviderInit PROVE ProviderInv
  OBVIOUS
<1>1. ProviderShape
  BY DEF ProviderInit, ProviderShape, NoImage, NoPublish
<1>2. StageSound
  BY DEF ProviderInit, StageSound, OfOneBuild, NoFile, Files, Archs
<1>3. \A p \in Publishers : Publishable(p)
  BY DEF ProviderInit, Publishable, NoPublish
<1>4. TargetSound
  BY DEF ProviderInit, TargetSound, PublishedWhole, PublishedTrusted
<1> QED  BY <1>1, <1>2, <1>3, <1>4 DEF ProviderInv

(* The build host only changes what stage works on.                          *)
LEMMA HostStep ==
  ASSUME ProviderInv, UNCHANGED <<target, temp, live, publ>>,
         stager'.builds \in Nat, DOMAIN stager' = {"pc", "left", "builds"},
         DOMAIN staged' = Files, StageSound'
  PROVE  ProviderInv'
<1>1. ProviderShape'
  BY DEF ProviderInv, ProviderShape
<1>2. \A p \in Publishers : Publishable(p)'
  BY DEF ProviderInv, Publishable, verify_fat
<1>3. TargetSound'
  BY DEF ProviderInv, TargetSound, PublishedWhole, PublishedTrusted, verify_fat
<1> QED  BY <1>1, <1>2, <1>3 DEF ProviderInv

(* A publisher only changes its temporary file, its locals, what is live,    *)
(* which only grows, and the provider.                                       *)
DeviceMoves(p, image, next) ==
    /\ UNCHANGED <<stager, staged, built>>
    /\ \/ temp' = [temp EXCEPT ![p] = image]
       \/ temp' = temp /\ image = temp[p]
    /\ publ' = [publ EXCEPT ![p] = next]
    /\ DOMAIN image = {"slices", "signed"} /\ DOMAIN next = {"pc", "hashes"}
    /\ live \subseteq live'
    /\ next.pc = "trust"
         => /\ verify_fat(image.slices) /\ image.signed
            /\ \A a \in Archs : <<a, image.slices[a]>> \in next.hashes \cup live'
    /\ TargetSound'

LEMMA DeviceStep ==
  ASSUME ProviderInv, NEW p \in Publishers, NEW image, NEW next, DeviceMoves(p, image, next)
  PROVE  ProviderInv'
<1>0. /\ UNCHANGED <<stager, staged, built>> /\ live \subseteq live' /\ TargetSound'
      /\ DOMAIN image = {"slices", "signed"} /\ DOMAIN next = {"pc", "hashes"}
      /\ next.pc = "trust"
           => /\ verify_fat(image.slices) /\ image.signed
              /\ \A a \in Archs : <<a, image.slices[a]>> \in next.hashes \cup live'
  BY DEF DeviceMoves
<1>1. /\ DOMAIN temp' = Publishers /\ temp'[p] = image
      /\ DOMAIN publ' = Publishers /\ publ'[p] = next
      /\ \A q \in Publishers \ {p} : temp'[q] = temp[q] /\ publ'[q] = publ[q]
  BY DEF ProviderInv, ProviderShape, DeviceMoves
<1>2. ProviderShape'
  BY <1>0, <1>1 DEF ProviderInv, ProviderShape
<1>3. StageSound'
  BY <1>0 DEF ProviderInv, StageSound, OfOneBuild, verify_bundle, verify_thin, SameSlices, Has
<1>4. ASSUME NEW q \in Publishers PROVE Publishable(q)'
  <2>1. CASE q = p  BY <1>0, <1>1, <2>1 DEF Publishable, verify_fat
  <2>2. CASE q # p
    BY <1>0, <1>1, <2>2 DEF ProviderInv, Publishable, verify_fat
  <2> QED  BY <2>1, <2>2
<1> QED  BY <1>0, <1>2, <1>3, <1>4 DEF ProviderInv

(* What is live only grows, so the provider stays trusted until it changes.  *)
LEMMA TargetKept ==
  ASSUME ProviderInv, target' = target, live \subseteq live'
  PROVE  TargetSound'
BY DEF ProviderInv, TargetSound, PublishedWhole, PublishedTrusted, verify_fat

LEMMA ProviderStep == ProviderInv /\ [ProviderNext]_providerVars => ProviderInv'
<1> SUFFICES ASSUME ProviderInv, [ProviderNext]_providerVars PROVE ProviderInv'
  OBVIOUS
<1>0. ProviderShape /\ StageSound /\ TargetSound
  BY DEF ProviderInv
<1>1. CASE Build
  <2>1. /\ UNCHANGED <<target, temp, live, publ, staged>>
        /\ stager' = [stager EXCEPT !.builds = @ + 1]
        /\ \E good \in [Archs -> BOOLEAN] :
             built' = [a \in Archs |-> [build |-> stager.builds + 1, good |-> good[a]]]
    BY <1>1 DEF Build
  <2>2. /\ stager'.builds = stager.builds + 1 /\ stager'.builds \in Nat \ {0}
        /\ DOMAIN stager' = {"pc", "left", "builds"} /\ stager'.pc = stager.pc
    BY <1>0, <2>1 DEF ProviderShape
  <2>3. \A a \in Archs : built'[a].build = stager'.builds
    BY <2>1, <2>2
  <2>4. StageSound'
    BY <1>0, <2>1, <2>2, <2>3 DEF StageSound, OfOneBuild, verify_bundle, verify_thin, SameSlices, Has
  <2> QED  BY <1>0, <2>1, <2>2, <2>4, HostStep DEF ProviderShape
<1>2. CASE StageBegins
  <2>1. CASE StageStep([stager EXCEPT !.pc = "copy", !.left = Archs], [f \in Files |-> NoFile])
    <3>1. /\ UNCHANGED <<target, temp, live, publ, built>>
          /\ stager'.builds \in Nat /\ DOMAIN stager' = {"pc", "left", "builds"}
          /\ stager'.pc = "copy" /\ staged' = [f \in Files |-> NoFile]
      BY <1>0, <2>1 DEF StageStep, ProviderShape
    <3>2. OfOneBuild(staged["fat"])'
      BY <3>1 DEF OfOneBuild, Files, NoFile
    <3>3. StageSound'
      BY <1>0, <3>1, <3>2 DEF StageSound, OfOneBuild
    <3> QED  BY <3>1, <3>3, HostStep
  <2>2. CASE StageStep(StageFailed, staged)
    <3>1. /\ UNCHANGED <<target, temp, live, publ, built, staged>>
          /\ stager'.builds \in Nat /\ DOMAIN stager' = {"pc", "left", "builds"}
          /\ stager'.pc = "idle"
      BY <1>0, <2>2 DEF StageStep, StageFailed, ProviderShape
    <3>2. StageSound'
      BY <1>0, <3>1 DEF StageSound, OfOneBuild
    <3> QED  BY <1>0, <3>1, <3>2, HostStep DEF ProviderShape
  <2> QED  BY <1>2, <2>1, <2>2 DEF StageBegins
<1>3. CASE StageCopy
  <2>1. /\ UNCHANGED <<target, temp, live, publ, built>>
        /\ stager'.builds \in Nat /\ DOMAIN stager' = {"pc", "left", "builds"}
        /\ stager'.pc = "thin" /\ staged' = [staged EXCEPT !["fat"] = built]
    BY <1>0, <1>3 DEF StageStep, StageCopy, ProviderShape
  <2>2. DOMAIN staged' = Files /\ staged'["fat"] = built
    BY <1>0, <2>1 DEF ProviderShape, Files
  <2>3. StageSound'
    BY <1>0, <2>1, <2>2 DEF StageSound, OfOneBuild
  <2> QED  BY <2>1, <2>2, <2>3, HostStep
<1>4. ASSUME NEW a \in Archs, StageThin(a) PROVE ProviderInv'
  <2>1. /\ UNCHANGED <<target, temp, live, publ, built>> /\ stager.pc = "thin"
        /\ staged' = [staged EXCEPT ![a] = Only(built, a)]
        /\ \/ stager' = [stager EXCEPT !.left = @ \ {a}]
           \/ stager' = StageFailed
    BY <1>4 DEF StageStep, StageThin
  <2>2. /\ stager'.builds \in Nat /\ DOMAIN stager' = {"pc", "left", "builds"}
        /\ stager'.pc # "staged"
    BY <1>0, <2>1 DEF StageFailed, ProviderShape
  <2>3. DOMAIN staged' = Files /\ staged'["fat"] = staged["fat"]
    BY <1>0, <2>1 DEF ProviderShape, Archs
  <2>4. StageSound'
    BY <1>0, <2>1, <2>2, <2>3 DEF StageSound, OfOneBuild
  <2> QED  BY <2>1, <2>2, <2>3, <2>4, HostStep
<1>5. CASE StageVerify
  <2>1. /\ UNCHANGED <<target, temp, live, publ, built, staged>>
        /\ stager' = IF verify_bundle(staged, TRUE) THEN [stager EXCEPT !.pc = "staged"]
                     ELSE StageFailed
    BY <1>5 DEF StageStep, StageVerify
  <2>2. CASE verify_bundle(staged, TRUE)
    <3>1. /\ stager'.builds \in Nat /\ DOMAIN stager' = {"pc", "left", "builds"}
      BY <1>0, <2>1, <2>2 DEF ProviderShape
    <3>2. StageSound'
      BY <1>0, <2>1, <2>2 DEF StageSound, OfOneBuild, verify_bundle, verify_thin, SameSlices, Has
    <3> QED  BY <1>0, <2>1, <3>1, <3>2, HostStep DEF ProviderShape
  <2>3. CASE ~verify_bundle(staged, TRUE)
    <3>1. /\ stager'.builds \in Nat /\ DOMAIN stager' = {"pc", "left", "builds"}
          /\ stager'.pc = "idle"
      BY <1>0, <2>1, <2>3 DEF ProviderShape, StageFailed
    <3>2. StageSound'
      BY <1>0, <2>1, <3>1 DEF StageSound, OfOneBuild
    <3> QED  BY <1>0, <2>1, <3>1, <3>2, HostStep DEF ProviderShape
  <2> QED  BY <2>2, <2>3
<1>6. ASSUME NEW f \in Files, Unpack(f) PROVE ProviderInv'
  <2>1. UNCHANGED <<built, staged, stager, target, temp, live, publ>>
    BY <1>6 DEF Unpack
  <2>2. StageSound'
    BY <1>0, <2>1 DEF StageSound, OfOneBuild, verify_bundle, verify_thin, SameSlices, Has
  <2> QED  BY <1>0, <2>1, <2>2, HostStep DEF ProviderShape
<1>7. ASSUME NEW p \in Publishers, PublishBegins(p) PROVE ProviderInv'
  <2>1. /\ temp' = [temp EXCEPT ![p] = NoImage] /\ publ' = [publ EXCEPT ![p].pc = "create"]
        /\ UNCHANGED <<stager, staged, built, target, live>>
    BY <1>7 DEF PublishBegins, Goes
  <2>2. PICK next : next = [publ[p] EXCEPT !.pc = "create"] /\ publ' = [publ EXCEPT ![p] = next]
    BY <2>1
  <2>3. DOMAIN next = {"pc", "hashes"} /\ next.pc = "create"
        /\ DOMAIN NoImage = {"slices", "signed"}
    BY <1>0, <2>2 DEF ProviderShape, NoImage
  <2>4. TargetSound'
    BY <2>1, TargetKept
  <2>5. DeviceMoves(p, NoImage, next)
    BY <2>1, <2>2, <2>3, <2>4 DEF DeviceMoves
  <2> QED  BY <2>5, DeviceStep
<1>8. ASSUME NEW p \in Publishers, CreateFat(p) PROVE ProviderInv'
  <2>1. /\ temp' = [temp EXCEPT ![p] = [slices |-> Joined, signed |-> FALSE]]
        /\ publ' = [publ EXCEPT ![p].pc = "verify"]
        /\ UNCHANGED <<stager, staged, built, target, live>>
    BY <1>8 DEF CreateFat, Created, Goes
  <2>2. PICK next : next = [publ[p] EXCEPT !.pc = "verify"] /\ publ' = [publ EXCEPT ![p] = next]
    BY <2>1
  <2>3. PICK image : /\ image = [slices |-> Joined, signed |-> FALSE]
                     /\ temp' = [temp EXCEPT ![p] = image]
    BY <2>1
  <2>4. DOMAIN next = {"pc", "hashes"} /\ next.pc = "verify"
        /\ DOMAIN image = {"slices", "signed"}
    BY <1>0, <2>2, <2>3 DEF ProviderShape
  <2>5. TargetSound'
    BY <2>1, TargetKept
  <2>6. next.pc # "trust" /\ live \subseteq live' /\ UNCHANGED <<stager, staged, built>>
    BY <2>1, <2>4
  <2>7. publ' = [publ EXCEPT ![p] = next] /\ temp' = [temp EXCEPT ![p] = image]
    BY <2>2, <2>3
  <2>8. DeviceMoves(p, image, next)
    BY <2>4, <2>5, <2>6, <2>7 DEF DeviceMoves
  <2> QED  BY <2>8, DeviceStep
<1>9. ASSUME NEW p \in Publishers, Sign(p) PROVE ProviderInv'
  <2>1. UNCHANGED <<stager, staged, built, target, live>>
    BY <1>9 DEF Sign
  <2>2. TargetSound'
    BY <2>1, TargetKept
  <2>3. CASE PublishEnds(p)
    <3>1. DOMAIN NoImage = {"slices", "signed"} /\ DOMAIN NoPublish = {"pc", "hashes"}
          /\ NoPublish.pc = "idle"
      BY DEF NoImage, NoPublish
    <3>2. DeviceMoves(p, NoImage, NoPublish)
      BY <2>1, <2>2, <2>3, <3>1 DEF PublishEnds, DeviceMoves
    <3> QED  BY <3>2, DeviceStep
  <2>4. CASE /\ verify_fat(temp[p].slices)
             /\ temp' = [temp EXCEPT ![p].signed = TRUE]
             /\ publ' = [publ EXCEPT ![p] = [pc |-> "trust", hashes |-> HashesOf(p)]]
    <3>1. PICK image : image = [temp[p] EXCEPT !.signed = TRUE] /\ temp' = [temp EXCEPT ![p] = image]
      BY <2>4
    <3>2. PICK next : /\ next = [pc |-> "trust", hashes |-> HashesOf(p)]
                      /\ publ' = [publ EXCEPT ![p] = next]
      BY <2>4
    <3>3. /\ DOMAIN image = {"slices", "signed"} /\ image.slices = temp[p].slices /\ image.signed
      BY <1>0, <3>1 DEF ProviderShape
    <3>4. /\ DOMAIN next = {"pc", "hashes"}
          /\ \A a \in Archs : <<a, image.slices[a]>> \in next.hashes
      BY <3>2, <3>3 DEF HashesOf
    <3>5. verify_fat(image.slices)  BY <2>4, <3>3
    <3>6. \A a \in Archs : <<a, image.slices[a]>> \in next.hashes \cup live'
      BY <3>4
    <3>7. live \subseteq live'  BY <2>1
    <3>8. DeviceMoves(p, image, next)
      BY <2>1, <2>2, <3>1, <3>2, <3>3, <3>4, <3>5, <3>6, <3>7 DEF DeviceMoves
    <3> QED  BY <3>8, DeviceStep
  <2> QED  BY <1>9, <2>3, <2>4 DEF Sign
<1>10. ASSUME NEW p \in Publishers, TrustHash(p) PROVE ProviderInv'
  <2>a. PICK h \in publ[p].hashes :
           /\ live' = live \cup {h} /\ publ[p].pc = "trust"
           /\ publ' = [publ EXCEPT ![p].hashes = @ \ {h}]
           /\ UNCHANGED <<stager, staged, built, target, temp>>
    BY <1>10 DEF TrustHash
  <2>1. PICK next :
           /\ live' = live \cup {h} /\ publ[p].pc = "trust"
           /\ next = [publ[p] EXCEPT !.hashes = @ \ {h}] /\ publ' = [publ EXCEPT ![p] = next]
           /\ UNCHANGED <<stager, staged, built, target, temp>>
    BY <2>a
  <2>2. TargetSound'
    BY <2>1, TargetKept
  <2>3. DOMAIN next = {"pc", "hashes"} /\ next.hashes = publ[p].hashes \ {h}
    BY <1>0, <2>1 DEF ProviderShape
  <2>4. temp' = temp /\ DOMAIN temp[p] = {"slices", "signed"}
    BY <1>0, <2>1 DEF ProviderShape
  <2>5. /\ verify_fat(temp[p].slices) /\ temp[p].signed
        /\ \A a \in Archs : <<a, temp[p].slices[a]>> \in publ[p].hashes \cup live
    BY <2>1 DEF ProviderInv, Publishable
  <2>6. live \subseteq live' /\ \A a \in Archs : <<a, temp[p].slices[a]>> \in next.hashes \cup live'
    BY <2>1, <2>3, <2>5
  <2>7. PICK image : image = temp[p]  OBVIOUS
  <2>8. DeviceMoves(p, image, next)
    BY <2>1, <2>2, <2>3, <2>4, <2>5, <2>6, <2>7 DEF DeviceMoves
  <2> QED  BY <2>8, DeviceStep
<1>11. ASSUME NEW p \in Publishers, ReplaceTarget(p) PROVE ProviderInv'
  <2>1. /\ publ[p].pc = "trust" /\ publ[p].hashes = {} /\ target' = temp[p]
        /\ UNCHANGED <<stager, staged, built, live>>
        /\ publ' = [publ EXCEPT ![p] = NoPublish] /\ temp' = [temp EXCEPT ![p] = NoImage]
    BY <1>11 DEF ReplaceTarget, PublishEnds
  <2>2. /\ verify_fat(temp[p].slices) /\ temp[p].signed
        /\ \A a \in Archs : <<a, temp[p].slices[a]>> \in live
    BY <2>1 DEF ProviderInv, Publishable
  <2>3. TargetSound'
    BY <2>1, <2>2 DEF TargetSound, PublishedWhole, PublishedTrusted, verify_fat
  <2>4. DOMAIN NoImage = {"slices", "signed"} /\ DOMAIN NoPublish = {"pc", "hashes"}
        /\ NoPublish.pc = "idle"
    BY DEF NoImage, NoPublish
  <2>5. DeviceMoves(p, NoImage, NoPublish)
    BY <2>1, <2>3, <2>4 DEF DeviceMoves
  <2> QED  BY <2>5, DeviceStep
<1>12. ASSUME NEW p \in Publishers, PublishFails(p) PROVE ProviderInv'
  <2>1. /\ publ' = [publ EXCEPT ![p] = NoPublish]
        /\ UNCHANGED <<stager, staged, built, live, target>>
        /\ temp' = [temp EXCEPT ![p] = NoImage] \/ temp' = temp
    BY <1>12 DEF PublishFails, PublishEnds
  <2>2. TargetSound'
    BY <2>1, TargetKept
  <2>3. PICK image : /\ DOMAIN image = {"slices", "signed"}
                     /\ \/ temp' = [temp EXCEPT ![p] = image]
                        \/ temp' = temp /\ image = temp[p]
    <3>1. CASE temp' = temp
      <4>1. DOMAIN temp[p] = {"slices", "signed"}
        BY <1>0 DEF ProviderShape
      <4> QED  BY <3>1, <4>1
    <3>2. CASE temp' = [temp EXCEPT ![p] = NoImage]
      <4>1. DOMAIN NoImage = {"slices", "signed"}  BY DEF NoImage
      <4> QED  BY <3>2, <4>1
    <3> QED  BY <2>1, <3>1, <3>2
  <2>4. DOMAIN NoPublish = {"pc", "hashes"} /\ NoPublish.pc = "idle"
    BY DEF NoPublish
  <2>5. DeviceMoves(p, image, NoPublish)
    BY <2>1, <2>2, <2>3, <2>4 DEF DeviceMoves
  <2> QED  BY <2>5, DeviceStep
<1>13. CASE UNCHANGED providerVars
  <2>1. UNCHANGED <<built, staged, stager, target, temp, live, publ>>
    BY <1>13 DEF providerVars
  <2>2. StageSound'
    BY <1>0, <2>1 DEF StageSound, OfOneBuild, verify_bundle, verify_thin, SameSlices, Has
  <2> QED  BY <1>0, <2>1, <2>2, HostStep DEF ProviderShape
<1> QED
  BY <1>1, <1>2, <1>3, <1>4, <1>5, <1>6, <1>7, <1>8, <1>9, <1>10, <1>11, <1>12, <1>13
  DEF ProviderNext

(* Three files of one build leave the build host, and whatever provider has  *)
(* the name on the device is whole, signed and trusted, for any number of    *)
(* publishers, failures and kills.                                           *)
THEOREM ProviderSoundAlways ==
  ProviderSpec => [](StagedOneBuild /\ PublishedWhole /\ PublishedTrusted)
<1>1. ProviderInv => StagedOneBuild /\ PublishedWhole /\ PublishedTrusted
  BY OneBuildStaged DEF ProviderInv, TargetSound
<1> QED  BY <1>1, ProviderStart, ProviderStep, PTL DEF ProviderSpec

-----------------------------------------------------------------------------
(* FirstRunPipeline.                                                         *)

PipeFields == {"pc", "wave", "pid", "handle", "linkLost", "unheard", "result", "seen"}
SeenFields == {"fatal", "exited", "scene", "saved", "waited", "prompts", "misses"}

PipeShape ==
    /\ DOMAIN pipe = PipeFields /\ DOMAIN pipe.seen = SeenFields
    /\ DOMAIN game = {"who", "at"} /\ DOMAIN gameLog = {"fatal", "misses", "partial"}
    /\ pipe.wave \in Nat
    /\ game.at = "none" => game.who = 0

(* Between the launch and wait_for_pid only this wave's game can be running. *)
LaunchBound ==
    /\ pipe.pc = "arm" => pipe.wave = 0 /\ pipe.pid = 0
    /\ pipe.pc = "pid" /\ ~pipe.unheard => game.at = "none" \/ game.who = pipe.wave

(* What a wave missed was not installed when it was launched.                *)
MissedWasLacking ==
    /\ exactBefore \subseteq exact
    /\ gameLog.misses \cap exactBefore = {} /\ pipe.seen.misses \cap exactBefore = {}
    /\ pipe.pc = "convert" => pipe.seen.misses # {}

Driving == {"pid", "window", "accept", "menu", "prompt", "collect", "stop"}

\* The bound game runs, and neither exception of NoGameLeftBehind applies.
LeftRunning ==
    pipe.pid # 0 /\ game.who = pipe.pid /\ ~pipe.linkLost /\ ~pipe.unheard

(* Until the scene is reported, a game that runs is one the output handle    *)
(* reminds the finally clause of.                                            *)
HandleReminds ==
    /\ pipe.pc \in Driving => pipe.handle
    /\ pipe.pc = "collect" /\ pipe.seen.exited /\ pipe.seen.fatal = "none"
         => game.at = "none" \/ pipe.linkLost
    /\ pipe.pc \in {"convert", "wave"} => ~LeftRunning
    /\ pipe.pc = "unwind" => pipe.handle \/ ~LeftRunning
    /\ pipe.pc \in {"finally", "done"} /\ LeftRunning => pipe.result = "STABLE_SCENE"

PipeInv ==
    /\ PipeShape /\ LaunchBound /\ MissedWasLacking /\ HandleReminds
    /\ BoundIsOwnGame /\ WavesProgress /\ DiagnosticsRemoved

LEMMA PipeStart == PipeInit => PipeInv
<1> SUFFICES ASSUME PipeInit PROVE PipeInv
  OBVIOUS
<1>1. /\ pipe = [pc |-> "arm", wave |-> 0, pid |-> 0, handle |-> FALSE, linkLost |-> FALSE,
                 unheard |-> FALSE, result |-> "INCOMPLETE", seen |-> NoProgress]
      /\ game = [who |-> Stale, at |-> "scene"] /\ gameLog = EmptyLog
      /\ exact = {} /\ flags = {} /\ exactBefore = {}
  BY DEF PipeInit
<1>2. PipeShape
  BY <1>1 DEF PipeShape, PipeFields, SeenFields, NoProgress, EmptyLog
<1>3. LaunchBound /\ MissedWasLacking
  BY <1>1 DEF LaunchBound, MissedWasLacking
<1>4. HandleReminds
  BY <1>1 DEF HandleReminds, Driving
<1>5. BoundIsOwnGame /\ WavesProgress /\ DiagnosticsRemoved
  BY <1>1 DEF BoundIsOwnGame, WavesProgress, DiagnosticsRemoved
<1> QED  BY <1>2, <1>3, <1>4, <1>5 DEF PipeInv

(* But for a launch, a game keeps its name or ends, and does not come back.  *)
GameKept ==
    /\ DOMAIN game' = {"who", "at"}
    /\ game'.who = IF game'.at = "none" THEN 0 ELSE game.who
    /\ game.at = "none" => game'.at = "none"

LEMMA KeptOrEnds ==
  ASSUME PipeShape
  PROVE  /\ game' = game => GameKept
         /\ game' = NoGame => GameKept
         /\ game' = stop_game => GameKept
         /\ game' \in Pressed => GameKept
         /\ \A x : x # "none" /\ game.at # "none" /\ game' = [game EXCEPT !.at = x] => GameKept
<1>1. game' = NoGame => GameKept
  BY DEF NoGame, GameKept, PipeShape
<1>2. game' = game => GameKept
  BY DEF GameKept, PipeShape
<1>3. ASSUME NEW x, x # "none", game.at # "none", game' = [game EXCEPT !.at = x]
      PROVE  GameKept
  BY <1>3 DEF GameKept, PipeShape
<1>4. ASSUME game' \in Pressed PROVE GameKept
  <2>1. \/ game' = game
        \/ /\ game.at \in {"brightness", "menu", "save"}
           /\ \E x \in {"menu", "save", "intro"} : game' = [game EXCEPT !.at = x]
    BY <1>4 DEF Pressed
  <2> QED  BY <1>2, <1>3, <2>1
<1> QED  BY <1>1, <1>2, <1>3, <1>4 DEF stop_game

(* The device moves while the pipeline waits.                                *)
LEMMA DeviceMovesGame ==
  ASSUME PipeInv, GameKept, UNCHANGED <<pipe, exact, flags, exactBefore>>,
         DOMAIN gameLog' = {"fatal", "misses", "partial"}, gameLog'.misses \cap exactBefore = {}
  PROVE  PipeInv'
<1>1. PipeShape'
  BY DEF PipeInv, PipeShape, GameKept
<1>2. LaunchBound' /\ MissedWasLacking'
  BY DEF PipeInv, PipeShape, LaunchBound, MissedWasLacking, GameKept
<1>3. LeftRunning' => LeftRunning
  BY DEF LeftRunning, GameKept
<1>4. HandleReminds'
  BY <1>3 DEF PipeInv, HandleReminds, GameKept
<1>5. BoundIsOwnGame' /\ WavesProgress' /\ DiagnosticsRemoved'
  BY DEF PipeInv, BoundIsOwnGame, WavesProgress, DiagnosticsRemoved
<1> QED  BY <1>1, <1>2, <1>4, <1>5 DEF PipeInv

(* A step of main that launches nothing.                                     *)
Stays ==
    /\ DOMAIN pipe' = PipeFields /\ DOMAIN pipe'.seen = SeenFields
    /\ pipe'.wave = pipe.wave /\ pipe'.linkLost = pipe.linkLost
    /\ pipe.unheard => pipe'.unheard
    /\ pipe'.seen.misses \in {pipe.seen.misses, gameLog.misses}
    /\ exact \subseteq exact' /\ exactBefore' = exactBefore /\ gameLog' = gameLog

LEMMA MainStep ==
  ASSUME PipeInv, GameKept, Stays, pipe'.pid = pipe.pid, pipe'.pc \notin {"arm", "pid"},
         pipe'.pc = "convert" => pipe'.seen.misses # {},
         pipe'.pc = "wave" => pipe.wave = 0 \/ exact' # exactBefore,
         HandleReminds', DiagnosticsRemoved'
  PROVE  PipeInv'
<1>1. PipeShape'
  BY DEF PipeInv, PipeShape, GameKept, Stays
<1>2. LaunchBound' /\ MissedWasLacking'
  BY DEF PipeInv, LaunchBound, MissedWasLacking, Stays
<1>3. BoundIsOwnGame' /\ WavesProgress'
  BY DEF PipeInv, PipeShape, BoundIsOwnGame, WavesProgress, Stays
<1> QED  BY <1>1, <1>2, <1>3 DEF PipeInv

LEMMA LeftBefore ==
  ASSUME PipeInv, GameKept, Stays, pipe'.pid = pipe.pid
  PROVE  LeftRunning' => LeftRunning
BY DEF LeftRunning, GameKept, Stays

(* A step from one of the driving stages to another, or out of the wave.     *)
LEMMA DrivingStep ==
  ASSUME PipeInv, GameKept, Stays, pipe'.pid = pipe.pid,
         pipe'.pc \in {"window", "accept", "menu", "prompt", "collect", "stop", "unwind"},
         pipe.handle, pipe'.handle = pipe.handle,
         pipe'.pc = "collect" /\ pipe'.seen.exited /\ pipe'.seen.fatal = "none"
           => game'.at = "none" \/ pipe'.linkLost
  PROVE  PipeInv'
<1>1. HandleReminds' /\ DiagnosticsRemoved'
  BY DEF HandleReminds, DiagnosticsRemoved
<1> QED  BY <1>1, MainStep

LEMMA DeviceStepsOfGame ==
  ASSUME PipeInv, GameAdvances \/ GameMisses \/ GameFails \/ GameExits \/ LinkDrops
  PROVE  PipeInv'
<1>0. PipeShape /\ MissedWasLacking
  BY DEF PipeInv
<1>1. CASE GameAdvances
  <2>1. GameKept
    BY <1>0, <1>1, KeptOrEnds DEF GameAdvances
  <2>2. UNCHANGED <<pipe, gameLog, exact, flags, exactBefore>>
    BY <1>1 DEF GameAdvances
  <2> QED  BY <1>0, <2>1, <2>2, DeviceMovesGame DEF PipeShape, MissedWasLacking
<1>2. CASE GameMisses
  <2>1. GameKept
    BY <1>0, <1>2, KeptOrEnds DEF GameMisses, Alive
  <2>2. UNCHANGED <<pipe, exact, flags, exactBefore>>
    BY <1>2 DEF GameMisses
  <2>3. PICK s \in Shaders \ exact, partial \in BOOLEAN :
           gameLog' = [fatal |-> gameLog.fatal \cup {"shader_target_os"},
                       misses |-> gameLog.misses \cup {s},
                       partial |-> gameLog.partial \/ partial]
    BY <1>2 DEF GameMisses
  <2>4. DOMAIN gameLog' = {"fatal", "misses", "partial"} /\ gameLog'.misses = gameLog.misses \cup {s}
    BY <2>3
  <2>5. gameLog'.misses \cap exactBefore = {}
    BY <1>0, <2>3, <2>4 DEF MissedWasLacking
  <2> QED  BY <2>1, <2>2, <2>4, <2>5, DeviceMovesGame
<1>3. CASE GameFails
  <2>1. GameKept
    BY <1>0, <1>3, KeptOrEnds DEF GameFails, Alive
  <2>2. UNCHANGED <<pipe, exact, flags, exactBefore>>
    BY <1>3 DEF GameFails
  <2>3. PICK kind \in {"command_buffer", "other"} : gameLog' = [gameLog EXCEPT !.fatal = @ \cup {kind}]
    BY <1>3 DEF GameFails
  <2>4. DOMAIN gameLog' = {"fatal", "misses", "partial"} /\ gameLog'.misses = gameLog.misses
    BY <1>0, <2>3 DEF PipeShape
  <2> QED  BY <1>0, <2>1, <2>2, <2>4, DeviceMovesGame DEF MissedWasLacking
<1>4. CASE GameExits
  <2>1. GameKept
    BY <1>0, <1>4, KeptOrEnds DEF GameExits
  <2>2. UNCHANGED <<pipe, gameLog, exact, flags, exactBefore>>
    BY <1>4 DEF GameExits
  <2> QED  BY <1>0, <2>1, <2>2, DeviceMovesGame DEF PipeShape, MissedWasLacking
<1>5. CASE LinkDrops
  <2>1. /\ pipe' = [pipe EXCEPT !.linkLost = TRUE]
        /\ UNCHANGED <<game, gameLog, exact, flags, exactBefore>>
    BY <1>5 DEF LinkDrops
  <2>2. /\ DOMAIN pipe' = PipeFields /\ pipe'.linkLost = TRUE /\ pipe'.pc = pipe.pc
        /\ pipe'.wave = pipe.wave /\ pipe'.pid = pipe.pid /\ pipe'.seen = pipe.seen
        /\ pipe'.unheard = pipe.unheard /\ pipe'.handle = pipe.handle
    BY <1>0, <2>1 DEF PipeShape, PipeFields
  <2>3. PipeShape' /\ LaunchBound' /\ MissedWasLacking'
    BY <2>1, <2>2 DEF PipeInv, PipeShape, LaunchBound, MissedWasLacking
  <2>4. ~LeftRunning'
    BY <2>2 DEF LeftRunning
  <2>5. HandleReminds'
    BY <2>1, <2>2, <2>4 DEF PipeInv, HandleReminds
  <2>6. BoundIsOwnGame' /\ WavesProgress' /\ DiagnosticsRemoved'
    BY <2>1, <2>2 DEF PipeInv, BoundIsOwnGame, WavesProgress, DiagnosticsRemoved
  <2> QED  BY <2>3, <2>5, <2>6 DEF PipeInv
<1> QED  BY <1>1, <1>2, <1>3, <1>4, <1>5

LEMMA LaunchSteps == PipeInv /\ (ArmFlags \/ BeginWave \/ wait_for_pid) => PipeInv'
<1> SUFFICES ASSUME PipeInv, ArmFlags \/ BeginWave \/ wait_for_pid PROVE PipeInv'
  OBVIOUS
<1>0. PipeShape /\ MissedWasLacking /\ LaunchBound /\ HandleReminds
  BY DEF PipeInv
<1>1. CASE ArmFlags
  <2>1. /\ pipe.pc = "arm" /\ pipe' = [pipe EXCEPT !.pc = "wave"]
        /\ UNCHANGED <<game, gameLog, exact, exactBefore>>
    BY <1>1 DEF ArmFlags
  <2>2. /\ DOMAIN pipe' = PipeFields /\ pipe'.pc = "wave" /\ pipe'.linkLost = pipe.linkLost
        /\ pipe'.wave = pipe.wave /\ pipe'.pid = pipe.pid /\ pipe'.seen = pipe.seen
        /\ pipe'.unheard = pipe.unheard
    BY <1>0, <2>1 DEF PipeShape, PipeFields
  <2>3. GameKept /\ Stays
    BY <1>0, <2>1, <2>2, KeptOrEnds DEF Stays, PipeShape
  <2>4. pipe.pid = 0 /\ pipe.wave = 0
    BY <1>0, <2>1 DEF LaunchBound
  <2>5. HandleReminds' /\ DiagnosticsRemoved'
    BY <2>2, <2>4 DEF HandleReminds, LeftRunning, Driving, DiagnosticsRemoved
  <2> QED  BY <2>2, <2>3, <2>4, <2>5, MainStep
<1>2. CASE BeginWave
  <2>1. pipe.pc = "wave" /\ UNCHANGED <<exact, flags>> /\ ~LeftRunning
    BY <1>0, <1>2 DEF BeginWave, HandleReminds
  <2>2. CASE pipe' \in {Finished(pipe, "THERMAL_CRITICAL"), [pipe EXCEPT !.pc = "finally"]}
              /\ UNCHANGED <<game, gameLog, exactBefore>>
    <3>1. /\ DOMAIN pipe' = PipeFields /\ pipe'.pc = "finally" /\ pipe'.linkLost = pipe.linkLost
          /\ pipe'.wave = pipe.wave /\ pipe'.pid = pipe.pid /\ pipe'.seen = pipe.seen
          /\ pipe'.unheard = pipe.unheard
      BY <1>0, <2>2 DEF PipeShape, PipeFields, Finished
    <3>2. GameKept /\ Stays
      BY <1>0, <2>1, <2>2, <3>1, KeptOrEnds DEF Stays, PipeShape
    <3>3. ~LeftRunning'
      BY <2>1, <3>1, <3>2, LeftBefore
    <3>4. HandleReminds' /\ DiagnosticsRemoved'
      BY <3>1, <3>3 DEF HandleReminds, Driving, DiagnosticsRemoved
    <3> QED  BY <3>1, <3>2, <3>4, MainStep
  <2>3. ASSUME NEW p,
               p = [pipe EXCEPT !.pc = "pid", !.wave = @ + 1, !.pid = 0, !.handle = TRUE,
                                !.linkLost = FALSE, !.seen = NoProgress],
               \/ pipe' = p /\ game' = start_game(pipe.wave + 1, KillOldGames)
               \/ pipe' = Unheard(p) /\ game' = start_game(pipe.wave + 1, game),
               gameLog' = EmptyLog, exactBefore' = exact
        PROVE  PipeInv'
    <3>1. /\ DOMAIN p = PipeFields /\ p.pc = "pid" /\ p.wave = pipe.wave + 1 /\ p.pid = 0
          /\ p.handle = TRUE /\ p.seen = NoProgress
      BY <1>0, <2>3 DEF PipeShape, PipeFields
    <3>2. /\ DOMAIN pipe' = PipeFields /\ pipe'.pc = "pid" /\ pipe'.wave = pipe.wave + 1
          /\ pipe'.pid = 0 /\ pipe'.handle = TRUE /\ pipe'.seen = NoProgress
      BY <2>3, <3>1 DEF Unheard, PipeFields
    <3>3. \/ game' = [who |-> pipe.wave + 1, at |-> "boot"]
          \/ game' = game /\ pipe' = Unheard(p)
      BY <2>3 DEF start_game, KillOldGames, NoGame
    <3>4. game' = game => pipe'.unheard = TRUE \/ game'.who = pipe'.wave
      BY <3>1, <3>2, <3>3 DEF Unheard, PipeFields
    <3>5. DOMAIN NoProgress = SeenFields /\ NoProgress.misses = {}
          /\ DOMAIN EmptyLog = {"fatal", "misses", "partial"} /\ EmptyLog.misses = {}
      BY DEF NoProgress, SeenFields, EmptyLog
    <3>6. PipeShape'
      BY <1>0, <2>3, <3>2, <3>3, <3>5 DEF PipeShape
    <3>7. LaunchBound'
      BY <3>2, <3>3, <3>4 DEF LaunchBound
    <3>8. MissedWasLacking'
      BY <2>1, <2>3, <3>2, <3>5 DEF MissedWasLacking
    <3>9. HandleReminds' /\ BoundIsOwnGame' /\ WavesProgress' /\ DiagnosticsRemoved'
      BY <3>2 DEF HandleReminds, BoundIsOwnGame, WavesProgress, DiagnosticsRemoved, Driving
    <3> QED  BY <3>6, <3>7, <3>8, <3>9 DEF PipeInv
  <2> QED  BY <1>2, <2>2, <2>3 DEF BeginWave
<1>3. CASE wait_for_pid
  <2>1. /\ pipe.pc = "pid" /\ UNCHANGED <<game, gameLog, exact, flags, exactBefore>>
        /\ pipe.handle
    BY <1>0, <1>3 DEF wait_for_pid, HandleReminds, Driving
  <2>2. CASE pipe' = Unwound(pipe)
    <3>1. /\ DOMAIN pipe' = PipeFields /\ pipe'.pc = "unwind" /\ pipe'.linkLost = pipe.linkLost
          /\ pipe'.wave = pipe.wave /\ pipe'.pid = pipe.pid /\ pipe'.seen = pipe.seen
          /\ pipe'.unheard = pipe.unheard /\ pipe'.handle = pipe.handle
      BY <1>0, <2>2 DEF PipeShape, PipeFields, Unwound
    <3>2. GameKept /\ Stays
      BY <1>0, <2>1, <3>1, KeptOrEnds DEF Stays, PipeShape
    <3> QED  BY <2>1, <3>1, <3>2, DrivingStep
  <2>3. CASE Alive /\ pipe' = [pipe EXCEPT !.pc = "window", !.pid = game.who]
    <3>1. /\ DOMAIN pipe' = PipeFields /\ pipe'.pc = "window" /\ pipe'.wave = pipe.wave
          /\ pipe'.pid = game.who /\ pipe'.seen = pipe.seen /\ pipe'.unheard = pipe.unheard
          /\ pipe'.handle = pipe.handle
      BY <1>0, <2>3 DEF PipeShape, PipeFields
    <3>2. PipeShape' /\ LaunchBound' /\ MissedWasLacking'
      BY <1>0, <2>1, <3>1 DEF PipeShape, LaunchBound, MissedWasLacking
    <3>3. BoundIsOwnGame'
      BY <1>0, <2>1, <2>3, <3>1 DEF LaunchBound, BoundIsOwnGame, Alive
    <3>4. HandleReminds' /\ WavesProgress' /\ DiagnosticsRemoved'
      BY <2>1, <3>1 DEF HandleReminds, WavesProgress, DiagnosticsRemoved
    <3> QED  BY <3>2, <3>3, <3>4 DEF PipeInv
  <2> QED  BY <1>3, <2>2, <2>3 DEF wait_for_pid
<1> QED  BY <1>1, <1>2, <1>3

(* The fields that no driving step touches, and the stage it goes to.        *)
DrivesTo(stages) ==
    /\ DOMAIN pipe' = PipeFields /\ DOMAIN pipe'.seen = SeenFields /\ pipe'.pc \in stages
    /\ pipe'.wave = pipe.wave /\ pipe'.pid = pipe.pid /\ pipe'.handle = pipe.handle
    /\ pipe'.linkLost = pipe.linkLost /\ pipe'.unheard = pipe.unheard
    /\ pipe'.seen.misses \in {pipe.seen.misses, gameLog.misses}

LEMMA Redirected ==
  ASSUME PipeShape, NEW x,
         \/ pipe' = [pipe EXCEPT !.pc = x]
         \/ \E k : pipe' = [pipe EXCEPT !.pc = x, !.seen.fatal = k]
         \/ pipe' = [pipe EXCEPT !.pc = x, !.seen.exited = TRUE]
         \/ \E k, m : m = gameLog.misses
              /\ pipe' = [pipe EXCEPT !.pc = x, !.seen.fatal = k, !.seen.misses = m]
         \/ \E k, b : pipe' = [pipe EXCEPT !.pc = x, !.seen.fatal = k, !.seen.exited = b]
  PROVE  DrivesTo({x})
<1>0. DOMAIN pipe = PipeFields /\ DOMAIN pipe.seen = SeenFields
  BY DEF PipeShape
<1> USE DEF PipeFields, SeenFields
<1>1. CASE pipe' = [pipe EXCEPT !.pc = x]
  BY <1>0, <1>1 DEF DrivesTo
<1>2. ASSUME NEW k, pipe' = [pipe EXCEPT !.pc = x, !.seen.fatal = k] PROVE DrivesTo({x})
  BY <1>0, <1>2 DEF DrivesTo
<1>3. CASE pipe' = [pipe EXCEPT !.pc = x, !.seen.exited = TRUE]
  BY <1>0, <1>3 DEF DrivesTo
<1>4. ASSUME NEW k, NEW m, m = gameLog.misses,
             pipe' = [pipe EXCEPT !.pc = x, !.seen.fatal = k, !.seen.misses = m]
      PROVE  DrivesTo({x})
  BY <1>0, <1>4 DEF DrivesTo
<1>5. ASSUME NEW k, NEW b,
             pipe' = [pipe EXCEPT !.pc = x, !.seen.fatal = k, !.seen.exited = b]
      PROVE  DrivesTo({x})
  BY <1>0, <1>5 DEF DrivesTo
<1> QED  BY <1>1, <1>2, <1>3, <1>4, <1>5

LEMMA DrivingMove ==
  ASSUME PipeInv, GameKept, UNCHANGED <<gameLog, exact, exactBefore>>, pipe.pc \in Driving,
         DrivesTo({"window", "accept", "menu", "prompt", "collect", "stop", "unwind"}),
         pipe'.pc = "collect" /\ pipe'.seen.exited /\ pipe'.seen.fatal = "none"
           => game'.at = "none" \/ pipe'.linkLost
  PROVE  PipeInv'
<1>1. Stays /\ pipe'.pid = pipe.pid /\ pipe.handle /\ pipe'.handle = pipe.handle
      /\ pipe'.pc \in {"window", "accept", "menu", "prompt", "collect", "stop", "unwind"}
  BY DEF DrivesTo, Stays, PipeInv, HandleReminds
<1> QED  BY <1>1, DrivingStep

LEMMA WindowSteps == PipeInv /\ (FirstWindow \/ AcceptWindow \/ MenuDelay) => PipeInv'
<1> SUFFICES ASSUME PipeInv, FirstWindow \/ AcceptWindow \/ MenuDelay PROVE PipeInv'
  OBVIOUS
<1>0. PipeShape
  BY DEF PipeInv
<1>1. CASE FirstWindow
  <2>1. pipe.pc \in Driving /\ UNCHANGED <<game, gameLog, exact, exactBefore>>
    BY <1>1 DEF FirstWindow, Driving
  <2>2. \E x \in {"accept", "unwind", "stop"} :
          \/ pipe' = [pipe EXCEPT !.pc = x]
          \/ pipe' = [pipe EXCEPT !.pc = x, !.seen.fatal = fatal_kind, !.seen.misses = gameLog.misses]
    BY <1>1 DEF FirstWindow, Unwound, FatalSeen
  <2>3. \E x \in {"accept", "unwind", "stop"} : DrivesTo({x})
    BY <1>0, <2>2, Redirected
  <2>4. DrivesTo({"window", "accept", "menu", "prompt", "collect", "stop", "unwind"})
        /\ pipe'.pc # "collect"
    BY <2>3 DEF DrivesTo
  <2> QED  BY <1>0, <2>1, <2>4, KeptOrEnds, DrivingMove
<1>2. CASE AcceptWindow
  <2>1. pipe.pc \in Driving /\ UNCHANGED <<gameLog, exact, exactBefore>>
        /\ (game' \in Pressed \/ game' = game)
    BY <1>2 DEF AcceptWindow, Driving
  <2>2. \E x \in {"menu", "unwind", "stop"} :
          \/ pipe' = [pipe EXCEPT !.pc = x]
          \/ pipe' = [pipe EXCEPT !.pc = x, !.seen.fatal = fatal_kind, !.seen.misses = gameLog.misses]
    BY <1>2 DEF AcceptWindow, Unwound, FatalSeen
  <2>3. \E x \in {"menu", "unwind", "stop"} : DrivesTo({x})
    BY <1>0, <2>2, Redirected
  <2>4. DrivesTo({"window", "accept", "menu", "prompt", "collect", "stop", "unwind"})
        /\ pipe'.pc # "collect"
    BY <2>3 DEF DrivesTo
  <2> QED  BY <1>0, <2>1, <2>4, KeptOrEnds, DrivingMove
<1>3. CASE MenuDelay
  <2>1. pipe.pc \in Driving /\ UNCHANGED <<gameLog, exact, exactBefore>>
        /\ (game' \in Pressed \/ game' = game)
    BY <1>3 DEF MenuDelay, Driving
  <2>2. CASE fatal_kind # "none" /\ pipe' = [pipe EXCEPT !.pc = "collect", !.seen.fatal = fatal_kind]
    <3>1. DrivesTo({"collect"})
      BY <1>0, <2>2, Redirected
    <3>2. pipe'.seen.fatal # "none"
      BY <1>0, <2>2 DEF PipeShape, PipeFields, SeenFields
    <3>3. DrivesTo({"window", "accept", "menu", "prompt", "collect", "stop", "unwind"})
      BY <3>1 DEF DrivesTo
    <3> QED  BY <1>0, <2>1, <3>2, <3>3, KeptOrEnds, DrivingMove
  <2>3. CASE Exited /\ game' = game /\ pipe' = [pipe EXCEPT !.pc = "collect", !.seen.exited = TRUE]
    <3>1. DrivesTo({"collect"})
      BY <1>0, <2>3, Redirected
    <3>2. game'.at = "none" \/ pipe'.linkLost
      BY <2>3, <3>1 DEF Exited, Alive, DrivesTo
    <3>3. DrivesTo({"window", "accept", "menu", "prompt", "collect", "stop", "unwind"})
      BY <3>1 DEF DrivesTo
    <3> QED  BY <1>0, <2>1, <3>2, <3>3, KeptOrEnds, DrivingMove
  <2>4. CASE pipe' = [pipe EXCEPT !.pc = "prompt"]
    <3>1. DrivesTo({"prompt"})
      BY <1>0, <2>4, Redirected
    <3>2. DrivesTo({"window", "accept", "menu", "prompt", "collect", "stop", "unwind"})
          /\ pipe'.pc # "collect"
      BY <3>1 DEF DrivesTo
    <3> QED  BY <1>0, <2>1, <3>2, KeptOrEnds, DrivingMove
  <2> QED  BY <1>3, <2>2, <2>3, <2>4 DEF MenuDelay
<1> QED  BY <1>1, <1>2, <1>3

LEMMA PromptSteps == PipeInv /\ (GameplayDelay \/ Prompt \/ WaveEnds) => PipeInv'
<1> SUFFICES ASSUME PipeInv, GameplayDelay \/ Prompt \/ WaveEnds PROVE PipeInv'
  OBVIOUS
<1>0. PipeShape
  BY DEF PipeInv
<1>1. ASSUME pipe.pc = "prompt", UNCHANGED <<gameLog, exact, exactBefore>>,
             game' \in Pressed \/ game' = game,
             DOMAIN pipe' = PipeFields, DOMAIN pipe'.seen = SeenFields,
             pipe'.pc \in {"prompt", "unwind"},
             pipe'.wave = pipe.wave, pipe'.pid = pipe.pid, pipe'.handle = pipe.handle,
             pipe'.linkLost = pipe.linkLost, pipe'.unheard = pipe.unheard,
             pipe'.seen.misses = pipe.seen.misses
      PROVE  PipeInv'
  <2>1. DrivesTo({"window", "accept", "menu", "prompt", "collect", "stop", "unwind"})
        /\ pipe'.pc # "collect" /\ pipe.pc \in Driving
    BY <1>1 DEF DrivesTo, Driving
  <2> QED  BY <1>0, <1>1, <2>1, KeptOrEnds, DrivingMove
<1>2. CASE GameplayDelay
  <2>1. /\ pipe.pc = "prompt" /\ pipe' = [pipe EXCEPT !.seen.waited = TRUE]
        /\ UNCHANGED <<game, gameLog, exact, exactBefore>>
    BY <1>2 DEF GameplayDelay
  <2>2. /\ DOMAIN pipe' = PipeFields /\ DOMAIN pipe'.seen = SeenFields /\ pipe'.pc = pipe.pc
        /\ pipe'.wave = pipe.wave /\ pipe'.pid = pipe.pid /\ pipe'.handle = pipe.handle
        /\ pipe'.linkLost = pipe.linkLost /\ pipe'.unheard = pipe.unheard
        /\ pipe'.seen.misses = pipe.seen.misses
    BY <1>0, <2>1 DEF PipeShape, PipeFields, SeenFields
  <2> QED  BY <1>1, <2>1, <2>2
<1>3. CASE Prompt
  <2>1. PICK p : p = [pipe EXCEPT !.seen.prompts = @ + 1]
    OBVIOUS
  <2>2. /\ DOMAIN p = PipeFields /\ DOMAIN p.seen = SeenFields /\ p.pc = pipe.pc
        /\ p.wave = pipe.wave /\ p.pid = pipe.pid /\ p.handle = pipe.handle
        /\ p.linkLost = pipe.linkLost /\ p.unheard = pipe.unheard
        /\ p.seen.misses = pipe.seen.misses
    BY <1>0, <2>1 DEF PipeShape, PipeFields, SeenFields
  <2>3. /\ pipe.pc = "prompt" /\ UNCHANGED <<gameLog, exact, exactBefore>>
        /\ \/ pipe' = [p EXCEPT !.seen.scene = TRUE] /\ game' = game
           \/ SaveInput(p) \/ PageInput(p)
    BY <1>3, <2>1 DEF Prompt
  <2>4. /\ game' \in Pressed \/ game' = game
        /\ \/ pipe' = [p EXCEPT !.seen.scene = TRUE]
           \/ pipe' = [p EXCEPT !.seen.saved = TRUE]
           \/ pipe' = [p EXCEPT !.pc = "unwind"]
           \/ pipe' = p
    BY <2>3 DEF SaveInput, PageInput, Unwound
  <2>5. /\ DOMAIN pipe' = PipeFields /\ DOMAIN pipe'.seen = SeenFields
        /\ pipe'.pc \in {"prompt", "unwind"}
        /\ pipe'.wave = pipe.wave /\ pipe'.pid = pipe.pid /\ pipe'.handle = pipe.handle
        /\ pipe'.linkLost = pipe.linkLost /\ pipe'.unheard = pipe.unheard
        /\ pipe'.seen.misses = pipe.seen.misses
    BY <2>2, <2>3, <2>4 DEF PipeFields, SeenFields
  <2> QED  BY <1>1, <2>3, <2>4, <2>5
<1>4. CASE WaveEnds
  <2>1. /\ pipe.pc \in Driving /\ UNCHANGED <<game, gameLog, exact, exactBefore>>
        /\ pipe' = [pipe EXCEPT !.pc = "collect", !.seen.fatal = fatal_kind,
                                !.seen.exited = fatal_kind = "none" /\ Exited]
    BY <1>4 DEF WaveEnds, Driving
  <2>2. DrivesTo({"collect"})
    BY <1>0, <2>1, Redirected
  <2>3. pipe'.seen.exited = (fatal_kind = "none" /\ Exited)
    BY <1>0, <2>1 DEF PipeShape, PipeFields, SeenFields
  <2>4. pipe'.seen.exited => game'.at = "none" \/ pipe'.linkLost
    BY <2>1, <2>2, <2>3 DEF Exited, Alive, DrivesTo
  <2>5. DrivesTo({"window", "accept", "menu", "prompt", "collect", "stop", "unwind"})
    BY <2>2 DEF DrivesTo
  <2> QED  BY <1>0, <2>1, <2>4, <2>5, KeptOrEnds, DrivingMove
<1> QED  BY <1>2, <1>3, <1>4

(* A step out of the wave, or between the stages after it.                   *)
LEMMA LeavingStep ==
  ASSUME PipeInv, GameKept, UNCHANGED <<gameLog, exactBefore>>, exact \subseteq exact',
         DOMAIN pipe' = PipeFields, pipe'.seen = pipe.seen,
         pipe'.pc \in {"unwind", "convert", "wave", "finally", "done"},
         pipe'.wave = pipe.wave, pipe'.pid = pipe.pid, pipe'.linkLost = pipe.linkLost,
         pipe.unheard => pipe'.unheard,
         pipe'.pc = "convert" => pipe'.seen.misses # {},
         pipe'.pc = "wave" => exact' # exactBefore,
         pipe'.pc = "unwind" => pipe'.handle \/ ~LeftRunning',
         pipe'.pc \in {"convert", "wave"} => ~LeftRunning',
         pipe'.pc \in {"finally", "done"} /\ LeftRunning' => pipe'.result = "STABLE_SCENE",
         DiagnosticsRemoved'
  PROVE  PipeInv'
<1>1. Stays
  BY DEF Stays, PipeInv, PipeShape
<1>2. HandleReminds'
  BY DEF HandleReminds, Driving
<1> QED  BY <1>1, <1>2, MainStep

LEMMA LeavingSteps ==
  PipeInv /\ (RemoteFails \/ StopWave \/ convert_and_install \/ Unwind \/ Finally) => PipeInv'
<1> SUFFICES ASSUME PipeInv,
                    RemoteFails \/ StopWave \/ convert_and_install \/ Unwind \/ Finally
             PROVE  PipeInv'
  OBVIOUS
<1>0. PipeShape /\ MissedWasLacking /\ HandleReminds
  BY DEF PipeInv
<1>1. CASE RemoteFails
  <2>1. /\ pipe.pc \in {"wave", "pid", "window", "accept", "menu", "prompt", "collect", "stop",
                        "convert"}
        /\ pipe' = [pipe EXCEPT !.pc = "unwind"]
        /\ UNCHANGED <<game, gameLog, exact, flags, exactBefore>>
    BY <1>1 DEF RemoteFails, Unwound
  <2>2. /\ DOMAIN pipe' = PipeFields /\ pipe'.pc = "unwind" /\ pipe'.linkLost = pipe.linkLost
        /\ pipe'.wave = pipe.wave /\ pipe'.pid = pipe.pid /\ pipe'.seen = pipe.seen
        /\ pipe'.unheard = pipe.unheard /\ pipe'.handle = pipe.handle
    BY <1>0, <2>1 DEF PipeShape, PipeFields
  <2>3. LeftRunning' => LeftRunning
    BY <2>1, <2>2 DEF LeftRunning
  <2>4. pipe.handle \/ ~LeftRunning
    BY <1>0, <2>1 DEF HandleReminds, Driving
  <2>5. DiagnosticsRemoved' /\ GameKept
    BY <1>0, <2>1, <2>2, KeptOrEnds DEF DiagnosticsRemoved
  <2> QED  BY <2>1, <2>2, <2>3, <2>4, <2>5, LeavingStep
<1>2. CASE StopWave
  <2>1. PICK auto \in BOOLEAN :
          \/ /\ game' = stop_game /\ pipe' = AfterStop([pipe EXCEPT !.handle = FALSE], auto)
          \/ /\ pipe' = Unheard(AfterStop([pipe EXCEPT !.handle = FALSE], auto)) /\ game' = game
    BY <1>2 DEF StopWave
  <2>2. UNCHANGED <<gameLog, exact, flags, exactBefore>>
    BY <1>2 DEF StopWave
  <2>3. PICK p : p = AfterStop([pipe EXCEPT !.handle = FALSE], auto)
    OBVIOUS
  <2>4. \/ \E r : p = [pipe EXCEPT !.handle = FALSE, !.pc = "finally", !.result = r]
        \/ p = [pipe EXCEPT !.handle = FALSE, !.pc = "convert"] /\ pipe.seen.misses # {}
    <3>1. PICK q : q = [pipe EXCEPT !.handle = FALSE]
      OBVIOUS
    <3>2. q.seen = pipe.seen
      BY <1>0, <3>1 DEF PipeShape, PipeFields
    <3>3. \/ \E r : p = [q EXCEPT !.pc = "finally", !.result = r]
          \/ p = [q EXCEPT !.pc = "convert"] /\ q.seen.misses # {}
      BY <2>3, <3>1 DEF AfterStop, Finished
    <3> QED  BY <1>0, <3>1, <3>2, <3>3 DEF PipeShape
  <2>5. /\ DOMAIN p = PipeFields /\ p.pc \in {"finally", "convert"} /\ p.linkLost = pipe.linkLost
        /\ p.wave = pipe.wave /\ p.pid = pipe.pid /\ p.seen = pipe.seen
        /\ p.unheard = pipe.unheard
        /\ p.pc = "convert" => p.seen.misses # {}
    BY <1>0, <2>4 DEF PipeShape, PipeFields
  <2>6. \/ pipe' = p /\ game' = stop_game
        \/ pipe' = [p EXCEPT !.unheard = TRUE] /\ game' = game
    BY <2>1, <2>3 DEF Unheard
  <2>7. /\ DOMAIN pipe' = PipeFields /\ pipe'.pc = p.pc /\ pipe'.linkLost = pipe.linkLost
        /\ pipe'.wave = pipe.wave /\ pipe'.pid = pipe.pid /\ pipe'.seen = pipe.seen
        /\ pipe.unheard => pipe'.unheard
        /\ pipe'.unheard = TRUE \/ game' = stop_game
    BY <2>5, <2>6 DEF PipeFields
  <2>8. ~LeftRunning'
    BY <2>7 DEF LeftRunning, stop_game, NoGame
  <2>9. GameKept /\ DiagnosticsRemoved'
    BY <1>0, <2>5, <2>6, <2>7, KeptOrEnds DEF DiagnosticsRemoved
  <2> QED  BY <2>2, <2>5, <2>7, <2>8, <2>9, LeavingStep
<1>3. CASE convert_and_install
  <2>1. /\ pipe.pc = "convert" /\ UNCHANGED <<game, gameLog, flags, exactBefore>>
        /\ exact \subseteq exact' /\ ~LeftRunning /\ pipe.seen.misses # {}
    BY <1>0, <1>3 DEF convert_and_install, HandleReminds, MissedWasLacking
  <2>2. \/ pipe' = pipe
        \/ pipe' = [pipe EXCEPT !.pc = "unwind"]
        \/ /\ pipe' = [pipe EXCEPT !.pc = "wave"] /\ pipe.seen.misses \subseteq exact
           /\ exact' = exact
    BY <1>3 DEF convert_and_install, Unwound, ToConvert
  <2>3. /\ DOMAIN pipe' = PipeFields /\ pipe'.pc \in {"convert", "unwind", "wave"}
        /\ pipe'.linkLost = pipe.linkLost /\ pipe'.wave = pipe.wave /\ pipe'.pid = pipe.pid
        /\ pipe'.seen = pipe.seen /\ pipe'.unheard = pipe.unheard
        /\ pipe'.pc = "wave" => pipe.seen.misses \subseteq exact /\ exact' = exact
    BY <1>0, <2>1, <2>2 DEF PipeShape, PipeFields
  <2>4. pipe'.pc = "wave" => exact' # exactBefore
    BY <1>0, <2>1, <2>3 DEF MissedWasLacking
  <2>5. ~LeftRunning'
    BY <2>1, <2>3 DEF LeftRunning
  <2>6. GameKept /\ DiagnosticsRemoved'
    BY <1>0, <2>1, <2>3, KeptOrEnds DEF DiagnosticsRemoved
  <2> QED  BY <2>1, <2>3, <2>4, <2>5, <2>6, LeavingStep
<1>4. CASE Unwind
  <2>1. /\ pipe.pc = "unwind" /\ UNCHANGED <<gameLog, exact, flags, exactBefore>>
        /\ pipe.handle \/ ~LeftRunning
    BY <1>0, <1>4 DEF Unwind, HandleReminds
  <2>2. PICK p : p = [pipe EXCEPT !.pc = "finally", !.handle = FALSE]
    OBVIOUS
  <2>3. /\ DOMAIN p = PipeFields /\ p.pc = "finally" /\ p.linkLost = pipe.linkLost
        /\ p.wave = pipe.wave /\ p.pid = pipe.pid /\ p.seen = pipe.seen
        /\ p.unheard = pipe.unheard
    BY <1>0, <2>2 DEF PipeShape, PipeFields
  <2>4. \/ pipe' = p /\ game' = stop_game
        \/ pipe' = p /\ ~pipe.handle /\ game' = game
        \/ pipe' = [p EXCEPT !.unheard = TRUE] /\ game' = game
    BY <1>4, <2>2 DEF Unwind, Unheard
  <2>5. /\ DOMAIN pipe' = PipeFields /\ pipe'.pc = "finally" /\ pipe'.linkLost = pipe.linkLost
        /\ pipe'.wave = pipe.wave /\ pipe'.pid = pipe.pid /\ pipe'.seen = pipe.seen
        /\ pipe.unheard => pipe'.unheard
        /\ \/ pipe'.unheard = TRUE
           \/ game' = stop_game
           \/ game' = game /\ pipe'.unheard = pipe.unheard /\ ~pipe.handle
    BY <2>3, <2>4 DEF PipeFields
  <2>6. ~LeftRunning'
    BY <2>1, <2>5 DEF LeftRunning, stop_game, NoGame
  <2>7. GameKept /\ DiagnosticsRemoved'
    BY <1>0, <2>4, <2>5, KeptOrEnds DEF DiagnosticsRemoved
  <2> QED  BY <2>1, <2>5, <2>6, <2>7, LeavingStep
<1>5. CASE Finally
  <2>1. pipe.pc = "finally" /\ UNCHANGED <<game, gameLog, exact, exactBefore>>
    BY <1>5 DEF Finally
  <2>2. PICK p : p = [pipe EXCEPT !.pc = "done"]
    OBVIOUS
  <2>3. /\ DOMAIN p = PipeFields /\ p.pc = "done" /\ p.linkLost = pipe.linkLost
        /\ p.wave = pipe.wave /\ p.pid = pipe.pid /\ p.seen = pipe.seen
        /\ p.unheard = pipe.unheard /\ p.result = pipe.result
    BY <1>0, <2>2 DEF PipeShape, PipeFields
  <2>4. \/ pipe' = p /\ flags' = {}
        \/ pipe' = [p EXCEPT !.unheard = TRUE]
    BY <1>5, <2>2 DEF Finally, Unheard, FlagsAfter
  <2>5. /\ DOMAIN pipe' = PipeFields /\ pipe'.pc = "done" /\ pipe'.linkLost = pipe.linkLost
        /\ pipe'.wave = pipe.wave /\ pipe'.pid = pipe.pid /\ pipe'.seen = pipe.seen
        /\ pipe'.result = pipe.result
        /\ pipe.unheard => pipe'.unheard
        /\ flags' = {} \/ pipe'.unheard = TRUE
    BY <2>3, <2>4 DEF PipeFields
  <2>6. LeftRunning' => pipe'.result = "STABLE_SCENE"
    BY <1>0, <2>1, <2>5 DEF LeftRunning, HandleReminds
  <2>7. GameKept /\ DiagnosticsRemoved'
    BY <1>0, <2>1, <2>5, KeptOrEnds DEF DiagnosticsRemoved
  <2> QED  BY <2>1, <2>5, <2>6, <2>7, LeavingStep
<1> QED  BY <1>1, <1>2, <1>3, <1>4, <1>5

LEMMA CollectStep == PipeInv /\ Collect => PipeInv'
<1> SUFFICES ASSUME PipeInv, Collect PROVE PipeInv'
  OBVIOUS
<1>0. PipeShape /\ HandleReminds
  BY DEF PipeInv
<1>1. /\ pipe.pc = "collect" /\ pipe.handle
      /\ pipe.seen.exited /\ pipe.seen.fatal = "none" => game.at = "none" \/ pipe.linkLost
      /\ UNCHANGED <<game, gameLog, exact, flags, exactBefore>>
  BY <1>0 DEF Collect, HandleReminds, Driving
<1>2. PICK p : p = [pipe EXCEPT !.seen.misses = gameLog.misses]
  OBVIOUS
<1>3. /\ DOMAIN p = PipeFields /\ DOMAIN p.seen = SeenFields /\ p.linkLost = pipe.linkLost
      /\ p.wave = pipe.wave /\ p.pid = pipe.pid /\ p.unheard = pipe.unheard
      /\ p.handle = pipe.handle /\ p.seen.misses = gameLog.misses
      /\ p.seen.exited = pipe.seen.exited /\ p.seen.fatal = pipe.seen.fatal
  BY <1>0, <1>2 DEF PipeShape, PipeFields, SeenFields
<1>4. GameKept
  BY <1>0, <1>1, KeptOrEnds
<1>5. \/ pipe' = [p EXCEPT !.pc = "stop"]
      \/ /\ p.seen.fatal = "none" /\ p.seen.exited
         /\ pipe' = [p EXCEPT !.pc = "finally", !.result = "GAME_EXITED", !.handle = FALSE]
      \/ pipe' = [p EXCEPT !.pc = "finally", !.result = "STABLE_SCENE", !.handle = FALSE]
  <2>1. pipe' = Classified(p)
    BY <1>2 DEF Collect
  <2>2. \/ pipe' = [p EXCEPT !.pc = "stop"]
        \/ /\ p.seen.fatal = "none" /\ p.seen.exited
           /\ pipe' = [Finished(p, "GAME_EXITED") EXCEPT !.handle = FALSE]
        \/ pipe' = [Finished(p, "STABLE_SCENE") EXCEPT !.handle = FALSE]
    BY <2>1 DEF Classified
  <2> QED  BY <1>3, <2>2 DEF Finished, PipeFields
<1>6. Stays /\ pipe'.pid = pipe.pid /\ pipe'.pc \in {"stop", "finally"}
      /\ pipe'.linkLost = pipe.linkLost
  BY <1>1, <1>3, <1>5 DEF Stays, PipeFields
<1>7. CASE pipe' = [p EXCEPT !.pc = "stop"]
  <2>1. pipe'.pc = "stop" /\ pipe'.handle
    BY <1>1, <1>3, <1>7 DEF PipeFields
  <2>2. HandleReminds' /\ DiagnosticsRemoved'
    BY <2>1 DEF HandleReminds, DiagnosticsRemoved
  <2> QED  BY <1>4, <1>6, <2>1, <2>2, MainStep
<1>8. CASE pipe'.pc = "finally"
  <2>1. pipe'.result = "STABLE_SCENE" \/ (game.at = "none" \/ pipe.linkLost)
    BY <1>1, <1>3, <1>5, <1>8 DEF PipeFields
  <2>2. LeftRunning' => pipe'.result = "STABLE_SCENE"
    BY <1>0, <1>1, <1>6, <2>1 DEF LeftRunning, PipeShape
  <2>3. HandleReminds' /\ DiagnosticsRemoved'
    BY <1>8, <2>2 DEF HandleReminds, DiagnosticsRemoved, Driving
  <2> QED  BY <1>4, <1>6, <1>8, <2>3, MainStep
<1> QED  BY <1>3, <1>5, <1>7, <1>8 DEF PipeFields

LEMMA PipeStep == PipeInv /\ [PipeNext]_pipeVars => PipeInv'
<1> SUFFICES ASSUME PipeInv, [PipeNext]_pipeVars PROVE PipeInv'
  OBVIOUS
<1>1. CASE UNCHANGED pipeVars
  <2>1. UNCHANGED <<pipe, game, gameLog, exact, flags, exactBefore>>
    BY <1>1 DEF pipeVars
  <2> QED
    BY <2>1, KeptOrEnds, DeviceMovesGame DEF PipeInv, PipeShape, MissedWasLacking
<1> QED
  BY <1>1, DeviceStepsOfGame, LaunchSteps, WindowSteps, PromptSteps, LeavingSteps, CollectStep
  DEF PipeNext

(* Each wave drives the game it launched and converts something new, and the *)
(* pipeline leaves neither a game nor a diagnostic flag behind, wherever one *)
(* of its calls fails or is lost, for any number of waves, prompts,          *)
(* libraries and failures.                                                   *)
THEOREM WavesSoundAlways == PipeSpec => []WavesSound
<1>1. PipeInv => WavesSound
  BY DEF PipeInv, WavesSound, HandleReminds, LeftRunning, NoGameLeftBehind
<1> QED  BY <1>1, PipeStart, PipeStep, PTL DEF PipeSpec

-----------------------------------------------------------------------------
(* DependencyClosure.                                                        *)

Names == Image \cup {RpathName}
Dirs == DOMAIN FilesIn

Frames == [image : Image, rpaths : Seq(Dirs), left : Seq(Names)]

GraphShape ==
    /\ DOMAIN graph = {"loads", "rpaths", "seeds"}
    /\ \A i \in Image : graph.loads[i] \in Seq(Names) /\ graph.rpaths[i] \in Seq(Dirs)
    /\ graph.seeds \subseteq Image

\* The directories were brought along by admitted images that lead to i.
Brought(visited, i, rpaths) ==
    \A d \in Range(rpaths) : \E a \in visited : Leads(a, i) /\ d \in Range(graph.rpaths[a])

FrameFine(visited, f) ==
    /\ f \in Frames /\ f.image \in visited
    /\ Range(f.left) \subseteq Range(graph.loads[f.image])
    /\ Brought(visited, f.image, f.rpaths)

WalkShape(w) ==
    /\ DOMAIN w = {"pc", "stack", "visited", "seeds"}
    /\ w.visited \subseteq Image /\ w.seeds \subseteq graph.seeds
    /\ w.stack \in Seq(Frames)
    /\ \A n \in 1 .. Len(w.stack) : FrameFine(w.visited, w.stack[n])
    /\ w.pc = "start" => w.visited = {} /\ w.seeds = graph.seeds /\ w.stack = <<>>
    /\ w.pc = "done" => w.seeds = {} /\ w.stack = <<>>

\* The frame will still come to the import of j.
ToDo(f, j) == \/ j \in Range(f.left) \ {RpathName}
              \/ /\ j = "helper" /\ RpathName \in Range(f.left)
                 /\ "plugins" \in Range(f.rpaths)

\* The main image, the seeds and the imports of admitted images are admitted,
\* still to come, or owed.
AllLoaded(w, owed) ==
    w.pc \in {"walk", "done"} =>
        /\ {MainImage} \cup (graph.seeds \ w.seeds) \subseteq w.visited \cup owed
        /\ \A i \in w.visited : \A j \in Imports(i) :
             \/ j \in w.visited \cup owed
             \/ \E n \in 1 .. Len(w.stack) : w.stack[n].image = i /\ ToDo(w.stack[n], j)

\* Somebody asked for i.
Asked(visited, i) ==
    \/ i \in {MainImage} \cup graph.seeds
    \/ \E k \in visited :
        \/ i \in Range(graph.loads[k])
        \/ /\ i = "helper" /\ RpathName \in Range(graph.loads[k])
           /\ \E a \in visited : Leads(a, k) /\ "plugins" \in Range(graph.rpaths[a])

WalkFine(w, owed) ==
    WalkShape(w) /\ AllLoaded(w, owed) /\ \A i \in w.visited : Asked(w.visited, i)

WalkInv == GraphShape /\ WalkFine(walk, {})

LEMMA SelfLeads == \A a : Leads(a, a)
BY DEF Leads

LEMMA LeadsOn == ASSUME NEW a, NEW k, NEW i \in MayImport(k), Leads(a, k) PROVE Leads(a, i)
BY DEF Leads

LEMMA ResolveIs ==
  ASSUME NEW rpaths \in Seq(Dirs)
  PROVE  Resolve(RpathName, rpaths) =
           IF "plugins" \in Range(rpaths) THEN {"helper"} ELSE {}
<1>1. PICK n \in Nat : n = Len(rpaths) /\ DOMAIN rpaths = 1 .. n
  OBVIOUS
<1>2. /\ FilesIn["plugins"] = {"helper"} /\ FilesIn["empty"] = {}
      /\ Dirs = {"plugins", "empty"}
  BY DEF FilesIn, Dirs
<1>3. PICK found : found = {k \in 1 .. n : FilesIn[rpaths[k]] # {}}
  OBVIOUS
<1>4. \A k \in 1 .. n : rpaths[k] \in {"plugins", "empty"}
  BY <1>1, <1>2
<1>5. \A k \in found : FilesIn[rpaths[k]] = {"helper"}
  BY <1>2, <1>3, <1>4
<1>6. Resolve(RpathName, rpaths)
        = UNION {FilesIn[rpaths[k]] : k \in {m \in found : \A l \in found : m <= l}}
  BY <1>1, <1>3 DEF Resolve
<1>7. CASE "plugins" \in Range(rpaths)
  <2>1. found \subseteq Nat /\ found # {}
    BY <1>1, <1>2, <1>3, <1>7 DEF Range
  <2>2. PICK m \in found : \A l \in found : <<l, m>> \notin OpToRel(<, Nat)
    BY <2>1, NatLessThanWellFounded, WFMin
  <2>3. \A l \in found : ~(l < m)
    BY <2>1, <2>2 DEF OpToRel
  <2>4. \A l \in found : m <= l
    BY <2>1, <2>3
  <2> QED  BY <1>5, <1>6, <1>7, <2>4
<1>8. CASE "plugins" \notin Range(rpaths)
  <2>1. found = {}
    BY <1>1, <1>2, <1>3, <1>4, <1>8 DEF Range
  <2> QED  BY <1>6, <1>8, <2>1
<1> QED  BY <1>7, <1>8

LEMMA RangeOfBoth ==
  ASSUME NEW s \in Seq(Dirs), NEW t \in Seq(Dirs)
  PROVE  s \o t \in Seq(Dirs) /\ Range(s \o t) = Range(s) \cup Range(t)
<1>1. PICK a \in Nat : a = Len(s)
  OBVIOUS
<1>2. PICK b \in Nat : b = Len(t)
  OBVIOUS
<1>3. s \o t \in Seq(Dirs)
  OBVIOUS
<1> DEFINE r == s \o t
<1>4. /\ DOMAIN r = 1 .. a + b /\ DOMAIN s = 1 .. a /\ DOMAIN t = 1 .. b
      /\ \A m \in 1 .. a : r[m] = s[m]
      /\ \A m \in 1 .. b : r[a + m] = t[m]
  BY <1>1, <1>2, <1>3
<1>5. Range(r) \subseteq Range(s) \cup Range(t)
  <2>1. ASSUME NEW m \in 1 .. a + b PROVE r[m] \in Range(s) \cup Range(t)
    <3>1. CASE m \in 1 .. a
      BY <1>4, <3>1 DEF Range
    <3>2. CASE m \notin 1 .. a
      <4>1. m - a \in 1 .. b /\ a + (m - a) = m
        BY <3>2
      <4> QED  BY <1>4, <4>1 DEF Range
    <3> QED  BY <3>1, <3>2
  <2> QED  BY <1>4, <2>1 DEF Range
<1>6. Range(s) \subseteq Range(r)
  <2>1. \A m \in 1 .. a : m \in 1 .. a + b
    OBVIOUS
  <2> QED  BY <1>4, <2>1 DEF Range
<1>7. Range(t) \subseteq Range(r)
  <2>1. \A m \in 1 .. b : a + m \in 1 .. a + b
    OBVIOUS
  <2> QED  BY <1>4, <2>1 DEF Range
<1> QED  BY <1>3, <1>5, <1>6, <1>7

LEMMA HeadAndTail ==
  ASSUME NEW s \in Seq(Names), s # <<>>
  PROVE  /\ Head(s) \in Range(s) /\ Tail(s) \in Seq(Names)
         /\ Range(s) = {Head(s)} \cup Range(Tail(s))
<1>1. PICK n \in Nat : n = Len(s)
  OBVIOUS
<1>2. n # 0
  BY <1>1
<1> DEFINE t == Tail(s)
<1>3. /\ t \in Seq(Names) /\ DOMAIN s = 1 .. n /\ s[1] = Head(s)
      /\ DOMAIN t = 1 .. n - 1 /\ \A m \in 1 .. n - 1 : t[m] = s[m + 1]
  BY <1>1, <1>2
<1>4. ASSUME NEW m \in 1 .. n, m # 1 PROVE s[m] \in Range(t)
  <2>1. m - 1 \in 1 .. n - 1 /\ (m - 1) + 1 = m
    BY <1>4
  <2> QED  BY <1>3, <2>1 DEF Range
<1>5. \A m \in 1 .. n - 1 : m + 1 \in 1 .. n
  OBVIOUS
<1>6. 1 \in 1 .. n
  BY <1>2
<1>7. Range(t) \subseteq Range(s) /\ Head(s) \in Range(s)
  BY <1>3, <1>5, <1>6 DEF Range
<1>8. Range(s) \subseteq {Head(s)} \cup Range(t)
  BY <1>3, <1>4 DEF Range
<1> QED  BY <1>3, <1>7, <1>8

LEMMA GraphStart == ClosureInit => GraphShape
<1>1. SUFFICES ASSUME ClosureInit PROVE GraphShape
  OBVIOUS
<1>2. \A S, n : \A s \in Lists(S, n) : n \in Nat => s \in Seq(S)
  BY DEF Lists
<1>3. \A s \in {<<>>, <<"plugins">>, <<"empty", "plugins">>} : s \in Seq(Dirs)
  <2>1. Dirs = {"plugins", "empty"}
    BY DEF Dirs, FilesIn
  <2> HIDE DEF Dirs
  <2>2. <<>> \in Seq(Dirs)
    OBVIOUS
  <2>3. <<"plugins">> \in Seq(Dirs)
    BY <2>1
  <2>4. <<"empty", "plugins">> \in Seq(Dirs)
    BY <2>1
  <2> QED  BY <2>2, <2>3, <2>4
<1> QED
  <2>1. DOMAIN graph = {"loads", "rpaths", "seeds"}
    BY <1>1 DEF ClosureInit
  <2>2. graph.seeds \subseteq Image
    <3>1. graph.seeds \in {{}, {"framework"}}
      BY <1>1 DEF ClosureInit
    <3> QED  BY <3>1 DEF Image
  <2>3. PICK m \in Lists({"framework", "helper", RpathName}, 2),
             f \in Lists({"helper", "leaf", RpathName}, 2),
             h \in Lists({MainImage, "framework", "leaf", RpathName}, 1) :
          graph.loads = ByImage(m, f, h)
    <3>1. graph.loads \in LoadLists
      BY <1>1 DEF ClosureInit
    <3> QED  BY <3>1 DEF LoadLists
  <2>4. m \in Seq(Names) /\ f \in Seq(Names) /\ h \in Seq(Names) /\ <<>> \in Seq(Names)
    <3>1. m \in Seq({"framework", "helper", RpathName})
      BY <1>2, <2>3
    <3>2. f \in Seq({"helper", "leaf", RpathName})
      BY <1>2, <2>3
    <3>3. h \in Seq({MainImage, "framework", "leaf", RpathName})
      BY <1>2, <2>3
    <3> QED  BY <3>1, <3>2, <3>3 DEF Names, Image, MainImage
  <2>5. \A i \in Image : graph.loads[i] \in Seq(Names)
    <3>1. /\ graph.loads["main"] = m /\ graph.loads["framework"] = f
          /\ graph.loads["helper"] = h /\ graph.loads["leaf"] = <<>>
      BY <2>3 DEF ByImage
    <3> QED  BY <2>4, <3>1 DEF Image, MainImage
  <2>6. PICK p \in {<<>>, <<"plugins">>, <<"empty", "plugins">>},
             q \in {<<>>, <<"plugins">>, <<"empty", "plugins">>} :
          graph.rpaths = ByImage(p, q, <<>>)
    <3>1. graph.rpaths \in RpathLists
      BY <1>1 DEF ClosureInit
    <3> QED  BY <3>1 DEF RpathLists
  <2>7. \A i \in Image : graph.rpaths[i] \in Seq(Dirs)
    <3>1. /\ graph.rpaths["main"] = p /\ graph.rpaths["framework"] = q
          /\ graph.rpaths["helper"] = <<>> /\ graph.rpaths["leaf"] = <<>>
      BY <2>6 DEF ByImage
    <3>2. p \in Seq(Dirs) /\ q \in Seq(Dirs) /\ <<>> \in Seq(Dirs)
      BY <1>3, <2>6
    <3> QED  BY <3>1, <3>2 DEF Image, MainImage
  <2> QED  BY <2>1, <2>2, <2>5, <2>7 DEF GraphShape

\* The seeds are still to be visited, and nothing was admitted yet.
WalkStarts == walk = [pc |-> "start", stack |-> <<>>, visited |-> {}, seeds |-> graph.seeds]

LEMMA WalkStart == GraphShape /\ WalkStarts => WalkInv
BY DEF WalkInv, WalkStarts, WalkFine, WalkShape, AllLoaded

\* What visit does to a walk that owes the visit of i.
LEMMA VisitPays ==
  ASSUME GraphShape, NEW w, NEW i \in Image, WalkFine(w, {i}), w.pc = "walk",
         NEW inherited \in Seq(Dirs), Brought(w.visited, i, inherited), Asked(w.visited, i),
         NEW v,
         \/ i \in w.visited /\ v = w
         \/ v = [w EXCEPT !.pc = "refused", !.stack = <<>>]
         \/ v = [w EXCEPT !.visited = @ \cup {i}, !.stack = Pushed(w.stack, i, inherited)]
  PROVE  WalkFine(v, {})
<1>1. CASE i \in w.visited /\ v = w
  BY <1>1 DEF WalkFine, AllLoaded
<1>2. CASE v = [w EXCEPT !.pc = "refused", !.stack = <<>>]
  <2>1. /\ DOMAIN v = DOMAIN w /\ v.visited = w.visited /\ v.seeds = w.seeds
        /\ v.pc = "refused" /\ v.stack = <<>>
    BY <1>2 DEF WalkFine, WalkShape
  <2> QED  BY <2>1 DEF WalkFine, WalkShape, AllLoaded
<1>3. CASE v = [w EXCEPT !.visited = @ \cup {i}, !.stack = Pushed(w.stack, i, inherited)]
  <2>1. /\ DOMAIN v = DOMAIN w /\ v.visited = w.visited \cup {i} /\ v.seeds = w.seeds
        /\ v.pc = w.pc /\ v.stack = Pushed(w.stack, i, inherited)
    BY <1>3 DEF WalkFine, WalkShape
  <2>2. PICK n \in Nat : n = Len(w.stack)
    BY DEF WalkFine, WalkShape
  <2>3. PICK f : f = Frame(i, inherited)
    OBVIOUS
  <2>4. /\ Len(v.stack) = n + 1 /\ DOMAIN v.stack = 1 .. n + 1 /\ v.stack[n + 1] = f
        /\ \A m \in 1 .. n : v.stack[m] = w.stack[m]
    BY <2>1, <2>2, <2>3 DEF Pushed, WalkFine, WalkShape
  <2>5. PICK own : own = graph.rpaths[i] /\ own \in Seq(Dirs)
    BY DEF GraphShape
  <2>6. /\ DOMAIN f = {"image", "rpaths", "left"} /\ f.image = i
        /\ f.rpaths = own \o inherited /\ f.left = graph.loads[i]
    BY <2>3, <2>5 DEF Frame, Rpaths
  <2>7. f.rpaths \in Seq(Dirs) /\ Range(f.rpaths) = Range(own) \cup Range(inherited)
    BY <2>5, <2>6, RangeOfBoth
  <2>8. FrameFine(v.visited, f)
    <3>1. f.left \in Seq(Names)
      BY <2>6 DEF GraphShape
    <3>2. Brought(v.visited, i, f.rpaths)
      BY <2>1, <2>5, <2>7, SelfLeads DEF Brought
    <3>3. f = [image |-> i, rpaths |-> f.rpaths, left |-> f.left]
      BY <2>3 DEF Frame
    <3>4. f \in Frames
      BY <2>7, <3>1, <3>3 DEF Frames
    <3> QED  BY <2>1, <2>6, <2>7, <3>2, <3>4 DEF FrameFine
  <2>9. \A m \in 1 .. n + 1 : FrameFine(v.visited, v.stack[m])
    <3>1. \A m \in 1 .. n : FrameFine(w.visited, w.stack[m])
      BY <2>2 DEF WalkFine, WalkShape
    <3>2. ASSUME NEW g, FrameFine(w.visited, g) PROVE FrameFine(v.visited, g)
      BY <2>1, <3>2 DEF FrameFine, Brought
    <3>3. \A m \in 1 .. n + 1 : m \in 1 .. n \/ m = n + 1
      OBVIOUS
    <3> QED  BY <2>4, <2>8, <3>1, <3>2, <3>3
  <2>10. WalkShape(v)
    <3>1. v.visited \subseteq Image /\ v.seeds \subseteq graph.seeds /\ v.pc = "walk"
      BY <2>1 DEF WalkFine, WalkShape
    <3>2. v.stack \in Seq(Frames)
      <4>1. w.stack \in Seq(Frames) /\ f \in Frames
        BY <2>8 DEF WalkFine, WalkShape, FrameFine
      <4> QED  BY <2>1, <2>3, <4>1 DEF Pushed
    <3>3. \A m \in 1 .. Len(v.stack) : FrameFine(v.visited, v.stack[m])
      BY <2>4, <2>9
    <3>4. DOMAIN v = {"pc", "stack", "visited", "seeds"}
      BY <2>1 DEF WalkFine, WalkShape
    <3> QED  BY <3>1, <3>2, <3>3, <3>4 DEF WalkShape
  <2>11. \A j \in Imports(i) : ToDo(f, j)
    <3>1. Range(own) \subseteq Range(f.rpaths)
      BY <2>7
    <3> QED  BY <2>5, <2>6, <3>1 DEF Imports, ToDo
  <2>12. AllLoaded(v, {})
    <3>1. {MainImage} \cup (graph.seeds \ v.seeds) \subseteq v.visited
      BY <2>1 DEF WalkFine, AllLoaded
    <3>2. ASSUME NEW k \in v.visited, NEW j \in Imports(k), j \notin v.visited
          PROVE  \E m \in 1 .. n + 1 : v.stack[m].image = k /\ ToDo(v.stack[m], j)
      <4>1. CASE k = i
        <5>1. n + 1 \in 1 .. n + 1
          OBVIOUS
        <5>2. ToDo(f, j)
          BY <2>11, <4>1
        <5> QED  BY <2>4, <2>6, <4>1, <5>1, <5>2
      <4>2. CASE k # i
        <5>1. k \in w.visited /\ j \notin w.visited \cup {i}
          BY <2>1, <3>2, <4>2
        <5>2. PICK m \in 1 .. n : w.stack[m].image = k /\ ToDo(w.stack[m], j)
          BY <2>2, <5>1 DEF WalkFine, AllLoaded
        <5>3. m \in 1 .. n + 1
          OBVIOUS
        <5> QED  BY <2>4, <5>2, <5>3
      <4> QED  BY <4>1, <4>2
    <3> QED  BY <2>4, <3>1, <3>2 DEF AllLoaded
  <2>13. \A k \in v.visited : Asked(v.visited, k)
    <3>1. ASSUME NEW k, Asked(w.visited, k) PROVE Asked(v.visited, k)
      BY <2>1, <3>1 DEF Asked
    <3> QED  BY <2>1, <3>1 DEF WalkFine
  <2> QED  BY <2>10, <2>12, <2>13 DEF WalkFine
<1> QED  BY <1>1, <1>2, <1>3

\* The walk leaves the graph alone.
LEMMA GraphStays ==
  ASSUME GraphShape, graph' = graph, WalkFine(walk', {}) PROVE WalkInv'
<1>1. \A a, k : Leads(a, k)' <=> Leads(a, k)
  <2>1. \A i : MayImport(i)' = MayImport(i)
    BY DEF MayImport
  <2> QED  BY <2>1 DEF Leads
<1>2. \A i : Imports(i)' = Imports(i)
  BY DEF Imports
<1>3. \A f, j : ToDo(f, j)' <=> ToDo(f, j)
  BY DEF ToDo
<1>4. \A visited, f : FrameFine(visited, f) => FrameFine(visited, f)'
  <2>1. \A visited, i, rpaths : Brought(visited, i, rpaths) => Brought(visited, i, rpaths)'
    BY <1>1 DEF Brought
  <2> QED  BY <2>1 DEF FrameFine
<1>5. \A visited, i : Asked(visited, i) => Asked(visited, i)'
  BY <1>1 DEF Asked
<1>6. WalkShape(walk)'
  BY <1>4 DEF WalkFine, WalkShape
<1>7. AllLoaded(walk, {})'
  BY <1>2, <1>3 DEF WalkFine, AllLoaded
<1>8. GraphShape'
  BY DEF GraphShape
<1> QED  BY <1>5, <1>6, <1>7, <1>8 DEF WalkInv, WalkFine

LEMMA VisitMainKeeps ==
  ASSUME WalkInv, VisitMain, ClosureAssumption PROVE WalkInv'
<1> DEFINE w == [walk EXCEPT !.pc = "walk"]
<1> DEFINE v == [walk EXCEPT !.pc = "walk", !.visited = @ \cup {MainImage},
                             !.stack = Pushed(<<>>, MainImage, <<>>)]
<1>1. /\ walk.pc = "start" /\ walk.visited = {} /\ walk.seeds = graph.seeds
      /\ walk.stack = <<>> /\ DOMAIN walk = {"pc", "stack", "visited", "seeds"}
  BY DEF WalkInv, WalkFine, WalkShape, VisitMain
<1>2. Cardinality(walk.visited) = 0
  BY <1>1, FS_EmptySet
<1>3. visit(<<>>, MainImage, <<>>)
        = [walk EXCEPT !.visited = @ \cup {MainImage}, !.stack = Pushed(<<>>, MainImage, <<>>)]
  BY <1>1, <1>2 DEF visit, ClosureAssumption
<1>4. walk' = v
  BY <1>1, <1>3 DEF VisitMain
<1>5. /\ DOMAIN w = {"pc", "stack", "visited", "seeds"} /\ w.pc = "walk" /\ w.visited = {}
      /\ w.seeds = graph.seeds /\ w.stack = <<>>
  BY <1>1
<1>6. WalkFine(w, {MainImage})
  <2>1. graph.seeds \ w.seeds = {} /\ Len(w.stack) = 0 /\ DOMAIN w.stack = 1 .. 0
    BY <1>5
  <2>2. WalkShape(w)
    <3>1. w.stack \in Seq(Frames) /\ \A m \in 1 .. Len(w.stack) : FALSE
      <4> HIDE DEF w
      <4> QED  BY <1>5
    <3> QED  BY <1>5, <3>1 DEF WalkShape
  <2>3. AllLoaded(w, {MainImage})
    BY <1>5, <2>1 DEF AllLoaded
  <2> QED  BY <1>5, <2>2, <2>3 DEF WalkFine
<1>7. v = [w EXCEPT !.visited = @ \cup {MainImage}, !.stack = Pushed(w.stack, MainImage, <<>>)]
  BY <1>1, <1>5
<1>8. Brought(w.visited, MainImage, <<>>) /\ <<>> \in Seq(Dirs)
  BY DEF Brought, Range
<1>9. Asked(w.visited, MainImage) /\ MainImage \in Image
  BY DEF Asked, Image
<1>10. WalkFine(v, {})
  <2> HIDE DEF w, v
  <2> QED  BY <1>5, <1>6, <1>7, <1>8, <1>9, VisitPays DEF WalkInv
<1>11. graph' = graph
  BY DEF VisitMain
<1> QED  BY <1>4, <1>10, <1>11, GraphStays DEF WalkInv

\* The next import of the image on top is taken, and admitted or owed.
LEMMA LoadTaken ==
  ASSUME WalkInv, walk.pc = "walk", NEW n \in Nat \ {0}, n = Len(walk.stack),
         NEW top, top = walk.stack[n], top.left # <<>>,
         NEW w, w = [walk EXCEPT !.stack = [walk.stack EXCEPT ![n].left = Tail(@)]],
         NEW owed \in SUBSET Image,
         Head(top.left) # RpathName => Head(top.left) \in walk.visited \cup owed,
         Head(top.left) = RpathName /\ "plugins" \in Range(top.rpaths)
            => "helper" \in walk.visited \cup owed
  PROVE  WalkFine(w, owed)
<1>1. /\ DOMAIN walk = {"pc", "stack", "visited", "seeds"} /\ DOMAIN walk.stack = 1 .. n
      /\ \A m \in 1 .. n : FrameFine(walk.visited, walk.stack[m])
  BY DEF WalkInv, WalkFine, WalkShape
<1>2. n \in 1 .. n
  OBVIOUS
<1>3. FrameFine(walk.visited, top)
  BY <1>1, <1>2
<1>4. PICK left \in Seq(Names) : left = top.left
  BY <1>3 DEF FrameFine, Frames
<1>5. PICK f : f = [top EXCEPT !.left = Tail(left)]
  OBVIOUS
<1>6. /\ f = [image |-> top.image, rpaths |-> top.rpaths, left |-> Tail(left)]
      /\ f.left = Tail(left) /\ f.image = top.image /\ f.rpaths = top.rpaths
  BY <1>3, <1>5 DEF FrameFine, Frames
<1>7. /\ w.pc = "walk" /\ w.visited = walk.visited /\ w.seeds = walk.seeds
      /\ DOMAIN w = {"pc", "stack", "visited", "seeds"}
      /\ w.stack = [walk.stack EXCEPT ![n] = f]
  BY <1>1, <1>4, <1>5
<1>8. /\ DOMAIN w.stack = 1 .. n /\ w.stack[n] = f
      /\ \A m \in 1 .. n - 1 : w.stack[m] = walk.stack[m]
  BY <1>1, <1>2, <1>7
<1>9. Tail(left) \in Seq(Names) /\ Range(left) = {Head(left)} \cup Range(Tail(left))
  BY <1>4, HeadAndTail
<1>10. FrameFine(w.visited, f)
  <2>1. f \in Frames
    BY <1>3, <1>6, <1>9 DEF FrameFine, Frames
  <2> QED  BY <1>3, <1>4, <1>6, <1>7, <1>9, <2>1 DEF FrameFine, Brought
<1>11. WalkShape(w)
  <2>1. Len(w.stack) = n
    BY <1>8
  <2>2. \A m \in 1 .. n : m = n \/ m \in 1 .. n - 1
    OBVIOUS
  <2>3. \A m \in 1 .. n : FrameFine(w.visited, w.stack[m])
    BY <1>1, <1>7, <1>8, <1>10, <2>2
  <2>4. walk.visited \subseteq Image /\ walk.seeds \subseteq graph.seeds
    BY DEF WalkInv, WalkFine, WalkShape
  <2>5. w.stack \in Seq(Frames)
    <3>1. walk.stack \in Seq(Frames) /\ f \in Frames
      BY <1>10 DEF WalkInv, WalkFine, WalkShape, FrameFine
    <3>2. PICK s \in Seq(Frames) : s = walk.stack /\ n \in 1 .. Len(s)
      BY <1>2, <3>1
    <3>3. [s EXCEPT ![n] = f] \in Seq(Frames)
      BY <3>1, <3>2
    <3> QED  BY <1>7, <3>2, <3>3
  <2> QED  BY <1>7, <2>1, <2>3, <2>4, <2>5 DEF WalkShape
<1>12. ASSUME NEW j, ToDo(top, j), j \notin walk.visited \cup owed PROVE ToDo(f, j)
  BY <1>4, <1>6, <1>9, <1>12 DEF ToDo
<1>13. AllLoaded(w, owed)
  <2>1. Len(w.stack) = n
    BY <1>8
  <2>2. {MainImage} \cup (graph.seeds \ w.seeds) \subseteq w.visited \cup owed
    BY <1>7 DEF WalkInv, WalkFine, AllLoaded
  <2>3. ASSUME NEW i \in w.visited, NEW j \in Imports(i), j \notin w.visited \cup owed
        PROVE  \E m \in 1 .. n : w.stack[m].image = i /\ ToDo(w.stack[m], j)
    <3>1. PICK m \in 1 .. n : walk.stack[m].image = i /\ ToDo(walk.stack[m], j)
      BY <1>7, <2>3 DEF WalkInv, WalkFine, AllLoaded
    <3>2. CASE m = n
      BY <1>2, <1>6, <1>7, <1>8, <1>12, <2>3, <3>1, <3>2
    <3>3. CASE m # n
      <4>1. m \in 1 .. n - 1
        BY <3>3
      <4> QED  BY <1>8, <3>1, <4>1
    <3> QED  BY <3>2, <3>3
  <2> QED  BY <2>1, <2>2, <2>3 DEF AllLoaded
<1>14. \A i \in w.visited : Asked(w.visited, i)
  BY <1>7 DEF WalkInv, WalkFine
<1> QED  BY <1>11, <1>13, <1>14 DEF WalkFine

LEMMA FollowLoadKeeps ==
  ASSUME WalkInv, FollowLoad PROVE WalkInv'
<1>1. /\ DOMAIN walk = {"pc", "stack", "visited", "seeds"} /\ walk.visited \subseteq Image
      /\ Len(walk.stack) \in Nat /\ DOMAIN walk.stack = 1 .. Len(walk.stack)
      /\ \A m \in 1 .. Len(walk.stack) : FrameFine(walk.visited, walk.stack[m])
  BY DEF WalkInv, WalkFine, WalkShape
<1>2. PICK n \in Nat : n = Len(walk.stack)
  BY <1>1
<1>3. n # 0
  <2>1. SUFFICES ASSUME n = 0 PROVE FALSE
    OBVIOUS
  <2>2. walk.stack \in Seq(Frames)
    BY DEF WalkInv, WalkFine, WalkShape
  <2>3. walk.stack = <<>>
    <3>1. \A s \in Seq(Frames) : Len(s) = 0 => s = <<>>
      OBVIOUS
    <3> QED  BY <1>2, <2>1, <2>2, <3>1
  <2> QED  BY <2>3 DEF FollowLoad
<1>4. PICK top : top = walk.stack[n]
  OBVIOUS
<1>5. FrameFine(walk.visited, top) /\ Last(walk.stack) = top
  <2>1. n \in 1 .. n
    BY <1>3
  <2> QED  BY <1>1, <1>2, <1>4, <2>1 DEF Last
<1>6. PICK left \in Seq(Names), rpaths \in Seq(Dirs) : left = top.left /\ rpaths = top.rpaths
  BY <1>5 DEF FrameFine, Frames
<1>7. PICK k \in Image : k = top.image /\ k \in walk.visited
  BY <1>1, <1>5 DEF FrameFine
<1>8. left # <<>> /\ walk.pc = "walk" /\ graph' = graph
  BY <1>5, <1>6 DEF FollowLoad
<1>9. PICK name \in Names : name = Head(left)
  BY <1>6, <1>8
<1>10. name \in Range(graph.loads[k])
  <2>1. name \in Range(left)
    BY <1>8, <1>9, HeadAndTail
  <2> QED  BY <1>5, <1>6, <1>7, <2>1 DEF FrameFine
<1> DEFINE rest == [walk.stack EXCEPT ![n].left = Tail(@)]
<1> DEFINE found == Resolve(name, rpaths)
<1> DEFINE w == [walk EXCEPT !.stack = rest]
<1>11. \/ found = {} /\ walk' = w
       \/ \E i \in found : walk' = visit(rest, i, rpaths)
  BY <1>2, <1>5, <1>6, <1>9 DEF FollowLoad
<1>12. /\ name # RpathName => found = {name} /\ name \in Image
       /\ name = RpathName => found = IF "plugins" \in Range(rpaths) THEN {"helper"} ELSE {}
  BY <1>6, <1>9, ResolveIs DEF Resolve, Names
<1>13. found \in SUBSET Image
  BY <1>12 DEF Image
<1>14. WalkFine(w, found)
  <2>1. WalkInv /\ walk.pc = "walk" /\ n \in Nat \ {0} /\ n = Len(walk.stack)
    BY <1>2, <1>3, <1>8
  <2>2. top = walk.stack[n] /\ top.left # <<>> /\ Head(top.left) = name /\ top.rpaths = rpaths
    BY <1>4, <1>6, <1>8, <1>9
  <2>3. /\ name # RpathName => name \in walk.visited \cup found
        /\ name = RpathName /\ "plugins" \in Range(rpaths) => "helper" \in walk.visited \cup found
    BY <1>12
  <2> HIDE DEF found
  <2> QED  BY <1>13, <2>1, <2>2, <2>3, LoadTaken
<1>15. CASE found = {} /\ walk' = w
  <2>1. WalkFine(walk', {})
    BY <1>14, <1>15
  <2> QED  BY <1>8, <2>1, GraphStays DEF WalkInv
<1>16. ASSUME NEW i \in found, walk' = visit(rest, i, rpaths) PROVE WalkInv'
  <2>1. found = {i} /\ i \in Image
    BY <1>12, <1>13
  <2>2. w.visited = walk.visited /\ w.pc = "walk" /\ w.stack = rest
    BY <1>1, <1>8
  <2>3. \/ i \in Range(graph.loads[k])
        \/ /\ i = "helper" /\ RpathName \in Range(graph.loads[k])
           /\ "plugins" \in Range(rpaths)
    BY <1>10, <1>12
  <2>4. Brought(w.visited, k, rpaths)
    BY <1>5, <1>6, <1>7, <2>2 DEF FrameFine
  <2>5. Asked(w.visited, i)
    BY <1>7, <2>2, <2>3, <2>4 DEF Asked, Brought
  <2>6. i \in MayImport(k)
    BY <2>1, <2>3 DEF MayImport
  <2>7. Brought(w.visited, i, rpaths)
    BY <2>4, <2>6, LeadsOn DEF Brought
  <2>8. PICK v : v = visit(rest, i, rpaths)
    OBVIOUS
  <2>9. \/ i \in w.visited /\ v = w
        \/ v = [w EXCEPT !.pc = "refused", !.stack = <<>>]
        \/ v = [w EXCEPT !.visited = @ \cup {i}, !.stack = Pushed(w.stack, i, rpaths)]
    <3>1. w = [walk EXCEPT !.stack = rest]
      OBVIOUS
    <3>2. DOMAIN walk = {"pc", "stack", "visited", "seeds"}
      BY <1>1
    <3> HIDE DEF w, rest, found
    <3> QED  BY <2>8, <3>1, <3>2 DEF visit
  <2>10. WalkFine(v, {})
    <3>1. WalkFine(w, {i})
      BY <1>14, <2>1
    <3> HIDE DEF w, rest, found
    <3> QED  BY <1>6, <2>1, <2>2, <2>5, <2>7, <2>9, <3>1, VisitPays DEF WalkInv
  <2> QED  BY <1>8, <1>16, <2>8, <2>10, GraphStays DEF WalkInv
<1> QED  BY <1>11, <1>15, <1>16

LEMMA ReturnKeeps ==
  ASSUME WalkInv, Return PROVE WalkInv'
<1>1. /\ DOMAIN walk = {"pc", "stack", "visited", "seeds"} /\ walk.visited \subseteq Image
      /\ walk.seeds \subseteq graph.seeds
      /\ \A m \in 1 .. Len(walk.stack) : FrameFine(walk.visited, walk.stack[m])
  BY DEF WalkInv, WalkFine, WalkShape
<1>2. PICK s \in Seq(Frames) : s = walk.stack
  BY DEF WalkInv, WalkFine, WalkShape
<1>3. PICK n \in Nat : n = Len(s)
  OBVIOUS
<1>4. s # <<>> /\ s[n].left = <<>> /\ walk.pc = "walk" /\ graph' = graph
  BY <1>2, <1>3 DEF Return, Last
<1>5. n # 0
  BY <1>3, <1>4
<1> DEFINE t == SubSeq(s, 1, n - 1)
<1>6. t \in Seq(Frames) /\ Len(t) = n - 1 /\ \A m \in 1 .. n - 1 : t[m] = s[m]
  BY <1>3, <1>5
<1>7. PICK v : v = [walk EXCEPT !.stack = t]
  OBVIOUS
<1>8. walk' = v
  BY <1>2, <1>3, <1>7 DEF Return, Front
<1>9. /\ DOMAIN v = DOMAIN walk /\ v.pc = "walk" /\ v.visited = walk.visited
      /\ v.seeds = walk.seeds /\ v.stack = t
  BY <1>1, <1>4, <1>7
<1>10. \A m \in 1 .. n - 1 : m \in 1 .. n
  OBVIOUS
<1>11. WalkShape(v)
  <2>1. \A m \in 1 .. Len(v.stack) : FrameFine(v.visited, v.stack[m])
    <3> HIDE DEF t
    <3> QED  BY <1>1, <1>2, <1>3, <1>6, <1>9, <1>10
  <2> HIDE DEF t
  <2> QED  BY <1>1, <1>6, <1>9, <2>1 DEF WalkShape
<1>12. AllLoaded(v, {})
  <2>1. {MainImage} \cup (graph.seeds \ v.seeds) \subseteq v.visited
    BY <1>4, <1>9 DEF WalkInv, WalkFine, AllLoaded
  <2>2. ASSUME NEW i \in v.visited, NEW j \in Imports(i), j \notin v.visited
        PROVE  \E m \in 1 .. n - 1 : v.stack[m].image = i /\ ToDo(v.stack[m], j)
    <3>1. PICK m \in 1 .. n : s[m].image = i /\ ToDo(s[m], j)
      BY <1>2, <1>3, <1>4, <1>9, <2>2 DEF WalkInv, WalkFine, AllLoaded
    <3>2. m # n
      BY <1>4, <3>1 DEF ToDo, Range
    <3>3. m \in 1 .. n - 1
      BY <3>2
    <3> HIDE DEF t
    <3> QED  BY <1>6, <1>9, <3>1, <3>3
  <2> HIDE DEF t
  <2> QED  BY <1>6, <1>9, <2>1, <2>2 DEF AllLoaded
<1>13. WalkFine(v, {})
  BY <1>9, <1>11, <1>12 DEF WalkInv, WalkFine
<1> QED  BY <1>4, <1>8, <1>13, GraphStays DEF WalkInv

LEMMA VisitSeedKeeps ==
  ASSUME WalkInv, VisitSeed PROVE WalkInv'
<1>1. /\ DOMAIN walk = {"pc", "stack", "visited", "seeds"} /\ walk.visited \subseteq Image
      /\ walk.seeds \subseteq graph.seeds
  BY DEF WalkInv, WalkFine, WalkShape
<1>2. walk.pc = "walk" /\ walk.stack = <<>> /\ graph' = graph
  BY DEF VisitSeed
<1>3. PICK i \in walk.seeds :
         walk' = [visit(<<>>, i, graph.rpaths[MainImage]) EXCEPT !.seeds = @ \ {i}]
  BY DEF VisitSeed
<1>4. PICK inherited \in Seq(Dirs) : inherited = graph.rpaths[MainImage]
  BY DEF WalkInv, GraphShape, Image
<1>5. PICK w : w = [walk EXCEPT !.stack = <<>>, !.seeds = @ \ {i}]
  OBVIOUS
<1>6. /\ DOMAIN w = DOMAIN walk /\ w.pc = "walk" /\ w.visited = walk.visited
      /\ w.seeds = walk.seeds \ {i} /\ w.stack = <<>>
  BY <1>1, <1>2, <1>5
<1>7. i \in Image /\ i \in graph.seeds
  BY <1>1 DEF WalkInv, GraphShape
<1>8. WalkFine(w, {i})
  <2>1. <<>> \in Seq(Frames) /\ \A m \in 1 .. Len(<<>>) : FALSE
    OBVIOUS
  <2>2. WalkShape(w)
    BY <1>1, <1>6, <2>1 DEF WalkShape
  <2>3. {MainImage} \cup (graph.seeds \ walk.seeds) \subseteq walk.visited
    BY <1>2 DEF WalkInv, WalkFine, AllLoaded
  <2>4. \A k \in walk.visited : \A j \in Imports(k) : j \in walk.visited
    BY <1>2, <2>1 DEF WalkInv, WalkFine, AllLoaded
  <2>5. AllLoaded(w, {i})
    BY <1>6, <2>3, <2>4 DEF AllLoaded
  <2> QED  BY <1>6, <2>2, <2>5 DEF WalkInv, WalkFine
<1>9. Brought(w.visited, i, inherited) /\ Asked(w.visited, i)
  <2>1. MainImage \in w.visited
    BY <1>2, <1>6 DEF WalkInv, WalkFine, AllLoaded
  <2>2. i \in MayImport(MainImage)
    BY <1>7 DEF MayImport
  <2>3. Leads(MainImage, i)
    BY <2>2, SelfLeads, LeadsOn
  <2> QED  BY <1>4, <1>7, <2>1, <2>3 DEF Brought, Asked
<1>10. PICK v : v = walk'
  OBVIOUS
<1>11. \/ i \in w.visited /\ v = w
       \/ v = [w EXCEPT !.pc = "refused", !.stack = <<>>]
       \/ v = [w EXCEPT !.visited = @ \cup {i}, !.stack = Pushed(w.stack, i, inherited)]
  <2>1. v = [visit(<<>>, i, inherited) EXCEPT !.seeds = @ \ {i}]
    BY <1>3, <1>4, <1>10
  <2>2. CASE i \in walk.visited
    <3>1. visit(<<>>, i, inherited) = [walk EXCEPT !.stack = <<>>]
      BY <1>1, <1>2, <2>2 DEF visit
    <3>2. v = w
      BY <1>1, <1>5, <2>1, <3>1
    <3> QED  BY <1>6, <2>2, <3>2
  <2>3. CASE visit(<<>>, i, inherited) = [walk EXCEPT !.pc = "refused", !.stack = <<>>]
    BY <1>1, <1>5, <2>1, <2>3
  <2>4. CASE visit(<<>>, i, inherited)
               = [walk EXCEPT !.visited = @ \cup {i}, !.stack = Pushed(<<>>, i, inherited)]
    BY <1>1, <1>2, <1>5, <1>6, <2>1, <2>4
  <2> QED  BY <2>2, <2>3, <2>4 DEF visit
<1>12. WalkFine(v, {})
  <2>1. GraphShape
    BY DEF WalkInv
  <2>2. w.pc = "walk"
    BY <1>6
  <2> QED  BY <1>7, <1>8, <1>9, <1>11, <2>1, <2>2, VisitPays
<1> QED  BY <1>2, <1>10, <1>12, GraphStays DEF WalkInv

LEMMA ClosureReturnsKeeps ==
  ASSUME WalkInv, ClosureReturns PROVE WalkInv'
<1>1. PICK v : v = [walk EXCEPT !.pc = "done"]
  OBVIOUS
<1>2. walk' = v /\ walk.pc = "walk" /\ walk.stack = <<>> /\ walk.seeds = {} /\ graph' = graph
  BY <1>1 DEF ClosureReturns
<1>3. /\ DOMAIN v = DOMAIN walk /\ v.pc = "done" /\ v.visited = walk.visited
      /\ v.seeds = walk.seeds /\ v.stack = walk.stack
  BY <1>1 DEF WalkInv, WalkFine, WalkShape
<1>4. WalkFine(v, {})
  BY <1>2, <1>3 DEF WalkInv, WalkFine, WalkShape, AllLoaded
<1> QED  BY <1>2, <1>4, GraphStays DEF WalkInv

LEMMA WalkInvExact == WalkInv => ClosureExact
<1>1. SUFFICES ASSUME WalkInv, walk.pc = "done" PROVE ClosureExact
  BY DEF ClosureExact, ClosureComplete, ClosureSound
<1>2. /\ walk.visited \subseteq Image /\ walk.stack = <<>> /\ walk.seeds = {}
      /\ \A i \in walk.visited : Asked(walk.visited, i)
  BY <1>1 DEF WalkInv, WalkFine, WalkShape
<1>3. \A m \in 1 .. Len(<<>>) : FALSE
  OBVIOUS
<1>4. {MainImage} \cup graph.seeds \subseteq walk.visited
  BY <1>1, <1>2 DEF WalkInv, WalkFine, AllLoaded
<1>5. \A k \in walk.visited : Imports(k) \subseteq walk.visited
  BY <1>1, <1>2, <1>3 DEF WalkInv, WalkFine, AllLoaded
<1>6. ClosureComplete
  BY <1>2, <1>4, <1>5 DEF ClosureComplete
<1>7. ClosureSound
  BY <1>2 DEF ClosureSound, Asked
<1> QED  BY <1>6, <1>7 DEF ClosureExact

\* The walk of closure in macws_macho_dependencies.py admits every image that
\* the imports of admitted images lead to, and none that no chain of loaders
\* asks for, for any bounds of depth and number of images and any graph: lists
\* of imports and rpaths of every length, with repetitions, and any seeds.
THEOREM AnyGraphExact ==
    GraphShape /\ WalkStarts /\ [][ClosureNext]_closureVars => []ClosureExact
<1>1. GraphShape /\ WalkStarts => WalkInv
  BY WalkStart
<1>2. WalkInv /\ [ClosureNext]_closureVars => WalkInv'
  <2>1. SUFFICES ASSUME WalkInv, [ClosureNext]_closureVars PROVE WalkInv'
    OBVIOUS
  <2>2. CASE VisitMain
    BY <2>1, <2>2, ClosureAssumption, VisitMainKeeps
  <2>3. CASE FollowLoad
    BY <2>1, <2>3, FollowLoadKeeps
  <2>4. CASE Return
    BY <2>1, <2>4, ReturnKeeps
  <2>5. CASE VisitSeed
    BY <2>1, <2>5, VisitSeedKeeps
  <2>6. CASE ClosureReturns
    BY <2>1, <2>6, ClosureReturnsKeeps
  <2>7. CASE UNCHANGED closureVars
    <3>1. graph' = graph /\ walk' = walk
      BY <2>7 DEF closureVars
    <3> QED  BY <2>1, <3>1, GraphStays DEF WalkInv
  <2> QED  BY <2>1, <2>2, <2>3, <2>4, <2>5, <2>6, <2>7 DEF ClosureNext
<1>3. WalkInv => ClosureExact
  BY WalkInvExact
<1> QED  BY <1>1, <1>2, <1>3, PTL

\* The walk of closure, over the graphs that TLC enumerates, is exact.
THEOREM ClosureExactAlways == ClosureSpec => []ClosureExact
<1>1. ClosureInit => GraphShape /\ WalkStarts
  BY GraphStart DEF ClosureInit, WalkStarts
<1> QED  BY <1>1, AnyGraphExact, PTL DEF ClosureSpec

-----------------------------------------------------------------------------
(* LocalBenchmark: the edited settings file.                                 *)

Texts == {"own", "rest", "old", "new"}
Lines == [key : WantedKeys \cup {"none", OtherKey, RemovedKey}, text : Texts]

(* What the pieces of the two passes consist of.                             *)
Rewrites == [l \in Lines |-> Rewrite(l)]
Placing(entries) ==
  [l \in Lines |-> IF l = Header("own") THEN <<l>> \o entries ELSE <<l>>]
Adding(output) ==
  [k \in WantedKeys |-> IF \E i \in DOMAIN output : output[i].key = k THEN <<>>
                        ELSE <<Entry(k, "new")>>]
Outside == [l \in Lines |-> IF Mine(l) THEN <<>> ELSE <<l>>]

LEMMA LinesTyped ==
  /\ IniLines \subseteq Lines
  /\ \A k \in WantedKeys : Entry(k, "new") \in Lines
  /\ Header("own") \in Lines /\ Header("own").key = "none" /\ "none" \notin WantedKeys
BY BenchAssumption DEF IniLines, Lines, Texts, Header, Entry, WantedKeys

LEMMA EditTyped ==
  /\ Rewrites \in [Lines -> Seq(Lines)]
  /\ Outside \in [Lines -> Seq(Lines)]
  /\ \A e \in Seq(Lines) : Placing(e) \in [Lines -> Seq(Lines)]
  /\ \A r : Adding(r) \in [WantedKeys -> Seq(Lines)]
  /\ Wanted \in Seq(WantedKeys)
<1>1. \A l \in Lines : <<l>> \in Seq(Lines) /\ <<>> \in Seq(Lines)
  OBVIOUS
<1>2. \A l \in Lines : Rewrite(l) \in Seq(Lines)
  BY <1>1, LinesTyped DEF Rewrite
<1>3. \A e \in Seq(Lines), l \in Lines : <<l>> \o e \in Seq(Lines)
  BY <1>1
<1>4. \A k \in WantedKeys : <<Entry(k, "new")>> \in Seq(Lines) /\ <<>> \in Seq(Lines)
  BY <1>1, LinesTyped
<1>5. Rewrites \in [Lines -> Seq(Lines)]
  BY <1>2 DEF Rewrites
<1>6. Outside \in [Lines -> Seq(Lines)]
  BY <1>1 DEF Outside
<1>7. ASSUME NEW e \in Seq(Lines) PROVE Placing(e) \in [Lines -> Seq(Lines)]
  BY <1>1, <1>3 DEF Placing
<1>8. ASSUME NEW r PROVE Adding(r) \in [WantedKeys -> Seq(Lines)]
  BY <1>4 DEF Adding
<1>9. Wanted \in Seq(WantedKeys)
  <2>1. DOMAIN Wanted = 1 .. Len(Wanted) /\ Len(Wanted) \in Nat
        /\ Wanted = [i \in 1 .. Len(Wanted) |-> Wanted[i]]
    BY BenchAssumption
  <2>2. \A i \in 1 .. Len(Wanted) : Wanted[i] \in WantedKeys
    BY <2>1 DEF WantedKeys, ToSet
  <2>3. Wanted \in [1 .. Len(Wanted) -> WantedKeys]
    BY <2>1, <2>2
  <2> QED  BY <2>1, <2>3
<1> QED  BY <1>5, <1>6, <1>7, <1>8, <1>9

(* The passes are Bind's.                                                    *)
LEMMA PassesBind ==
  /\ \A s \in Seq(Lines) : Rewritten(s) = Bind(Rewrites, s) /\ Foreign(s) = Bind(Outside, s)
  /\ \A r : MissingEntries(r) = Bind(Adding(r), Wanted)
  /\ \A e : \A s \in Seq(Lines) :
       FlattenSeq([i \in DOMAIN s |-> IF s[i] = Header("own") THEN <<s[i]>> \o e ELSE <<s[i]>>])
         = Bind(Placing(e), s)
<1>1. ASSUME NEW s \in Seq(Lines)
      PROVE  Rewritten(s) = Bind(Rewrites, s) /\ Foreign(s) = Bind(Outside, s)
  <2>1. \A i \in DOMAIN s : s[i] \in Lines
    OBVIOUS
  <2>2. [i \in DOMAIN s |-> Rewrite(s[i])] = [i \in DOMAIN s |-> Rewrites[s[i]]]
    BY <2>1 DEF Rewrites
  <2>3. [i \in DOMAIN s |-> IF Mine(s[i]) THEN <<>> ELSE <<s[i]>>]
          = [i \in DOMAIN s |-> Outside[s[i]]]
    BY <2>1 DEF Outside
  <2> QED  BY <2>2, <2>3 DEF Rewritten, Foreign, Bind
<1>2. ASSUME NEW r PROVE MissingEntries(r) = Bind(Adding(r), Wanted)
  <2>1. \A i \in DOMAIN Wanted : Wanted[i] \in WantedKeys
    BY DEF WantedKeys, ToSet
  <2>2. [w \in DOMAIN Wanted |->
           IF \E i \in DOMAIN r : r[i].key = Wanted[w] THEN <<>> ELSE <<Entry(Wanted[w], "new")>>]
          = [w \in DOMAIN Wanted |-> Adding(r)[Wanted[w]]]
    BY <2>1 DEF Adding
  <2> QED  BY <2>2 DEF MissingEntries, Bind
<1>3. ASSUME NEW s \in Seq(Lines), NEW e
      PROVE  FlattenSeq([i \in DOMAIN s |->
                IF s[i] = Header("own") THEN <<s[i]>> \o e ELSE <<s[i]>>]) = Bind(Placing(e), s)
  <2>1. \A i \in DOMAIN s : s[i] \in Lines
    OBVIOUS
  <2>2. [i \in DOMAIN s |-> IF s[i] = Header("own") THEN <<s[i]>> \o e ELSE <<s[i]>>]
          = [i \in DOMAIN s |-> Placing(e)[s[i]]]
    BY <2>1 DEF Placing
  <2> QED  BY <2>2 DEF Bind
<1> QED  BY <1>1, <1>2, <1>3

(* Which lines a pass gives.                                                 *)
PassLines(G, s, b) ==
  /\ \A i \in DOMAIN b : \E k \in DOMAIN s : \E j \in DOMAIN G[s[k]] : b[i] = G[s[k]][j]
  /\ \A k \in DOMAIN s : \A j \in DOMAIN G[s[k]] : \E i \in DOMAIN b : b[i] = G[s[k]][j]

LEMMA PassGives ==
  \A S : \A G \in [S -> Seq(Lines)], s \in Seq(S) :
    Bind(G, s) \in Seq(Lines) /\ PassLines(G, s, Bind(G, s))
<1> SUFFICES ASSUME NEW S, NEW G \in [S -> Seq(Lines)], NEW s \in Seq(S)
             PROVE  Bind(G, s) \in Seq(Lines) /\ PassLines(G, s, Bind(G, s))
  OBVIOUS
<1>1. Bind(G, s) \in Seq(Lines)
  BY BindPieces
<1>2. /\ \A i \in DOMAIN Bind(G, s) : \E k \in DOMAIN s : \E j \in DOMAIN G[s[k]] :
           Bind(G, s)[i] = G[s[k]][j]
      /\ \A k \in DOMAIN s : \A j \in DOMAIN G[s[k]] : \E i \in DOMAIN Bind(G, s) :
           Bind(G, s)[i] = G[s[k]][j]
  BY BindElements
<1> QED  BY <1>1, <1>2 DEF PassLines

(* What the rewritten lines are, and which entries were missing.             *)
Output(s, r) ==
  /\ r \in Seq(Lines)
  /\ \A i \in DOMAIN r : r[i].key # RemovedKey /\ \E k \in DOMAIN s :
       s[k].key = r[i].key /\ IF r[i].key \in WantedKeys THEN r[i] = Entry(r[i].key, "new") ELSE r[i] = s[k]

Absent(r, e) ==
  /\ e \in Seq(Lines)
  /\ \A i \in DOMAIN e : e[i].key \in WantedKeys /\ e[i] = Entry(e[i].key, "new")
  /\ \A k \in WantedKeys : (\A j \in DOMAIN r : r[j].key # k)
                            => \E i \in DOMAIN e : e[i] = Entry(k, "new")

LEMMA RewrittenIs == \A s \in Seq(Lines) : Output(s, Rewritten(s))
<1> SUFFICES ASSUME NEW s \in Seq(Lines) PROVE Output(s, Rewritten(s))
  OBVIOUS
<1>1. PICK r \in Seq(Lines) : r = Bind(Rewrites, s) /\ r = Rewritten(s)
  <2>1. Bind(Rewrites, s) \in Seq(Lines)
    BY EditTyped, BindPieces
  <2> QED  BY <2>1, PassesBind
<1>2. \A i \in DOMAIN r : \E k \in DOMAIN s : \E j \in DOMAIN Rewrites[s[k]] :
        r[i] = Rewrites[s[k]][j]
  <2>1. Rewrites \in [Lines -> Seq(Lines)]
    BY EditTyped
  <2>2. PassLines(Rewrites, s, Bind(Rewrites, s))
    BY <2>1, PassGives
  <2> QED  BY <1>1, <2>2 DEF PassLines
<1>3. ASSUME NEW l \in Lines, NEW j \in DOMAIN Rewrites[l]
      PROVE  /\ l.key = Rewrites[l][j].key /\ l.key # RemovedKey
             /\ IF l.key \in WantedKeys THEN Rewrites[l][j] = Entry(l.key, "new")
                ELSE Rewrites[l][j] = l
  <2>1. Rewrites[l] = Rewrite(l)
    BY DEF Rewrites
  <2>2. Entry(l.key, "new").key = l.key
    BY DEF Entry
  <2>3. DOMAIN <<>> = {} /\ \A x : DOMAIN <<x>> = {1} /\ <<x>>[1] = x
    OBVIOUS
  <2> QED  BY <2>1, <2>2, <2>3 DEF Rewrite
<1>4. \A k \in DOMAIN s : s[k] \in Lines
  OBVIOUS
<1> QED  BY <1>1, <1>2, <1>3, <1>4 DEF Output

LEMMA MissingIs == \A r : Absent(r, MissingEntries(r))
<1> SUFFICES ASSUME NEW r PROVE Absent(r, MissingEntries(r))
  OBVIOUS
<1>1. PICK e \in Seq(Lines) : e = Bind(Adding(r), Wanted) /\ e = MissingEntries(r)
  <2>1. Bind(Adding(r), Wanted) \in Seq(Lines)
    BY EditTyped, BindPieces
  <2> QED  BY <2>1, PassesBind
<1>2. /\ \A i \in DOMAIN e : \E k \in DOMAIN Wanted : \E j \in DOMAIN Adding(r)[Wanted[k]] :
           e[i] = Adding(r)[Wanted[k]][j]
      /\ \A k \in DOMAIN Wanted : \A j \in DOMAIN Adding(r)[Wanted[k]] : \E i \in DOMAIN e :
           e[i] = Adding(r)[Wanted[k]][j]
  <2>1. Adding(r) \in [WantedKeys -> Seq(Lines)] /\ Wanted \in Seq(WantedKeys)
    BY EditTyped
  <2>2. PassLines(Adding(r), Wanted, Bind(Adding(r), Wanted))
    BY <2>1, PassGives
  <2> QED  BY <1>1, <2>2 DEF PassLines
<1>3. DOMAIN <<>> = {} /\ \A x : DOMAIN <<x>> = {1} /\ <<x>>[1] = x
  OBVIOUS
<1>4. /\ \A k \in DOMAIN Wanted : Wanted[k] \in WantedKeys
      /\ \A k \in WantedKeys : \E w \in DOMAIN Wanted : Wanted[w] = k
  BY DEF WantedKeys, ToSet
<1>5. \A k \in WantedKeys : Entry(k, "new").key = k
  BY DEF Entry
<1>6. \A k \in WantedKeys : \A j \in DOMAIN Adding(r)[k] : Adding(r)[k][j] = Entry(k, "new")
  BY <1>3 DEF Adding
<1>7. \A i \in DOMAIN e : e[i].key \in WantedKeys /\ e[i] = Entry(e[i].key, "new")
  BY <1>2, <1>4, <1>5, <1>6
<1>8. ASSUME NEW k \in WantedKeys, \A j \in DOMAIN r : r[j].key # k
      PROVE  \E i \in DOMAIN e : e[i] = Entry(k, "new")
  <2>1. PICK w \in DOMAIN Wanted : Wanted[w] = k
    BY <1>4
  <2>2. Adding(r)[k] = <<Entry(k, "new")>>
    BY <1>8 DEF Adding
  <2>3. 1 \in DOMAIN Adding(r)[Wanted[w]] /\ Adding(r)[Wanted[w]][1] = Entry(k, "new")
    BY <1>3, <2>1, <2>2
  <2> QED  BY <1>2, <2>3
<1> QED  BY <1>1, <1>7, <1>8 DEF Absent

(* Every line of the result is one of the output, a header of the section,   *)
(* or stands at its place among the entries that follow one.                 *)
FollowsHeader(a, e, i) ==
  \E d \in Nat : \E m \in DOMAIN e :
    i = d + 1 + m /\ d + 1 \in DOMAIN a /\ a[d + 1] = Header("own")
    /\ \A q \in DOMAIN e : d + 1 + q \in DOMAIN a /\ a[d + 1 + q] = e[q]

Result(r, e, a) ==
  /\ a \in Seq(Lines)
  /\ \A i \in DOMAIN a : \/ \E k \in DOMAIN r : a[i] = r[k]
                         \/ a[i] = Header("own") \/ FollowsHeader(a, e, i)
  /\ \A k \in DOMAIN r : \E i \in DOMAIN a : a[i] = r[k]
  /\ \A m \in DOMAIN e : \E i \in DOMAIN a : a[i] = e[m]

LEMMA GroupIs ==
  ASSUME NEW e \in Seq(Lines), NEW g, g = <<Header("own")>> \o e
  PROVE  /\ g \in Seq(Lines) /\ DOMAIN g = 1 .. Len(e) + 1 /\ g[1] = Header("own")
         /\ \A m \in DOMAIN e : m + 1 \in DOMAIN g /\ g[m + 1] = e[m]
         /\ \A j \in DOMAIN g : j = 1 \/ (j - 1 \in DOMAIN e /\ j = (j - 1) + 1)
<1>1. PICK h \in Lines : h = Header("own")
  BY LinesTyped
<1>2. PICK N \in Nat : N = Len(e) /\ DOMAIN e = 1 .. N
  OBVIOUS
<1>3. g \in Seq(Lines) /\ Len(g) = N + 1 /\ g[1] = h /\ \A m \in 1 .. N : g[m + 1] = e[m]
  BY <1>1, <1>2
<1> QED  BY <1>1, <1>2, <1>3

(* A group of the header and the entries that lies somewhere in a.           *)
LEMMA GroupFollows ==
  ASSUME NEW e \in Seq(Lines), NEW g, g = <<Header("own")>> \o e,
         NEW a, NEW d \in Nat, LiesAt(g, d, a)
  PROVE  /\ \A j \in DOMAIN g : a[d + j] = Header("own") \/ FollowsHeader(a, e, d + j)
         /\ \A m \in DOMAIN e : \E i \in DOMAIN a : a[i] = e[m]
<1>1. /\ g \in Seq(Lines) /\ DOMAIN g = 1 .. Len(e) + 1 /\ g[1] = Header("own")
      /\ \A m \in DOMAIN e : m + 1 \in DOMAIN g /\ g[m + 1] = e[m]
      /\ \A j \in DOMAIN g : j = 1 \/ (j - 1 \in DOMAIN e /\ j = (j - 1) + 1)
  BY GroupIs
<1>2. 1 \in DOMAIN g
  <2>1. Len(e) \in Nat
    OBVIOUS
  <2> QED  BY <1>1, <2>1
<1>3. d + 1 \in DOMAIN a /\ a[d + 1] = Header("own")
  BY <1>1, <1>2 DEF LiesAt
<1>4. \A q \in DOMAIN e : d + 1 + q \in DOMAIN a /\ a[d + 1 + q] = e[q]
  <2> SUFFICES ASSUME NEW q \in DOMAIN e PROVE d + 1 + q \in DOMAIN a /\ a[d + 1 + q] = e[q]
    OBVIOUS
  <2>1. q \in Nat /\ d + (q + 1) = d + 1 + q
    OBVIOUS
  <2> QED  BY <1>1, <2>1 DEF LiesAt
<1>5. ASSUME NEW j \in DOMAIN g PROVE a[d + j] = Header("own") \/ FollowsHeader(a, e, d + j)
  <2>1. CASE j = 1
    BY <1>3, <2>1
  <2>2. CASE j - 1 \in DOMAIN e
    <3>1. j \in Nat /\ d + j = d + 1 + (j - 1)
      BY <1>1
    <3> QED  BY <1>3, <1>4, <2>2, <3>1 DEF FollowsHeader
  <2> QED  BY <1>1, <2>1, <2>2
<1>6. \A m \in DOMAIN e : \E i \in DOMAIN a : a[i] = e[m]
  BY <1>4
<1> QED  BY <1>5, <1>6

LEMMA GroupsFollow ==
  \A e \in Seq(Lines) : \A a : \A d \in Nat :
    LiesAt(<<Header("own")>> \o e, d, a) =>
      /\ \A j \in DOMAIN (<<Header("own")>> \o e) :
           a[d + j] = Header("own") \/ FollowsHeader(a, e, d + j)
      /\ \A m \in DOMAIN e : \E i \in DOMAIN a : a[i] = e[m]
BY GroupFollows

LEMMA PlacedIs ==
  ASSUME NEW r \in Seq(Lines), NEW e \in Seq(Lines)
  PROVE  Result(r, e, EntriesPlaced(r, e))
<1>1. PICK a : a = EntriesPlaced(r, e)
  OBVIOUS
<1>2. PICK g \in Seq(Lines) : g = <<Header("own")>> \o e
  <2>1. <<Header("own")>> \o e \in Seq(Lines)
    BY GroupIs
  <2> QED  BY <2>1
<1>3. \A b, d : d \in Nat /\ LiesAt(g, d, b) =>
        /\ \A j \in DOMAIN g : b[d + j] = Header("own") \/ FollowsHeader(b, e, d + j)
        /\ \A m \in DOMAIN e : \E i \in DOMAIN b : b[i] = e[m]
  BY <1>2, GroupsFollow
<1>4. CASE e = <<>>
  <2>1. a = r /\ DOMAIN e = {}
    BY <1>1, <1>4 DEF EntriesPlaced
  <2> QED  BY <1>1, <2>1 DEF Result
<1>5. CASE e # <<>> /\ \E i \in DOMAIN r : r[i] = Header("own")
  <2>1. a = Bind(Placing(e), r)
    BY <1>1, <1>5, PassesBind DEF EntriesPlaced
  <2>2. PICK p \in Seq(Seq(Lines)) : p = [i \in DOMAIN r |-> Placing(e)[r[i]]]
    <3>1. Placing(e) \in [Lines -> Seq(Lines)] /\ \A k \in DOMAIN r : r[k] \in Lines
      BY EditTyped
    <3>2. PICK p : p = [i \in DOMAIN r |-> Placing(e)[r[i]]]
      OBVIOUS
    <3>3. Len(r) \in Nat /\ DOMAIN r = 1 .. Len(r)
      OBVIOUS
    <3>4. p \in [1 .. Len(r) -> Seq(Lines)]
      BY <3>1, <3>2, <3>3
    <3>5. p \in Seq(Seq(Lines))
      BY <3>3, <3>4
    <3> QED  BY <3>2, <3>5
  <2>3. /\ a \in Seq(Lines)
        /\ \A i \in DOMAIN a : InPiece(i, p, a)
        /\ \A k \in DOMAIN p : \E d \in Nat : LiesAt(p[k], d, a)
    BY <2>1, <2>2, FlattenPlaces DEF Bind
  <2>4. \A k \in DOMAIN r : r[k] \in Lines
    OBVIOUS
  <2>5. DOMAIN p = DOMAIN r
        /\ \A k \in DOMAIN r : IF r[k] = Header("own") THEN p[k] = g ELSE p[k] = <<r[k]>>
    BY <1>2, <2>2, <2>4 DEF Placing
  <2>6. ASSUME NEW i \in DOMAIN a
        PROVE  (\E k \in DOMAIN r : a[i] = r[k]) \/ a[i] = Header("own") \/ FollowsHeader(a, e, i)
    <3>1. PICK k \in DOMAIN p : \E d \in Nat : \E j \in DOMAIN p[k] : i = d + j /\ LiesAt(p[k], d, a)
      BY <2>3 DEF InPiece
    <3>2. PICK d \in Nat : \E j \in DOMAIN p[k] : i = d + j /\ LiesAt(p[k], d, a)
      BY <3>1
    <3>3. PICK j \in DOMAIN p[k] : i = d + j /\ LiesAt(p[k], d, a)
      BY <3>2
    <3>4. CASE r[k] = Header("own")
      BY <1>3, <2>5, <3>3, <3>4
    <3>5. CASE r[k] # Header("own")
      <4>1. p[k] = <<r[k]>>
        BY <2>5, <3>5
      <4>2. j = 1 /\ p[k][j] = r[k]
        BY <4>1
      <4> QED  BY <2>5, <3>3, <4>2 DEF LiesAt
    <3> QED  BY <3>4, <3>5
  <2>7. ASSUME NEW k \in DOMAIN r PROVE \E i \in DOMAIN a : a[i] = r[k]
    <3>1. PICK d \in Nat : LiesAt(p[k], d, a)
      BY <2>3, <2>5
    <3>2. 1 \in DOMAIN p[k] /\ p[k][1] = r[k]
      <4>1. CASE r[k] = Header("own")
        <5>1. Len(e) \in Nat /\ DOMAIN g = 1 .. Len(e) + 1 /\ g[1] = Header("own")
          BY <1>2, GroupIs
        <5> QED  BY <2>5, <4>1, <5>1
      <4>2. CASE r[k] # Header("own")
        <5>1. p[k] = <<r[k]>>
          BY <2>5, <4>2
        <5> QED  BY <5>1
      <4> QED  BY <4>1, <4>2
    <3> QED  BY <3>1, <3>2 DEF LiesAt
  <2>8. \A m \in DOMAIN e : \E i \in DOMAIN a : a[i] = e[m]
    <3>1. PICK k \in DOMAIN r : r[k] = Header("own")
      BY <1>5
    <3>2. \E d \in Nat : LiesAt(g, d, a)
      BY <2>3, <2>5, <3>1
    <3> QED  BY <1>3, <3>2
  <2> QED  BY <1>1, <2>3, <2>6, <2>7, <2>8 DEF Result
<1>6. CASE e # <<>> /\ ~\E i \in DOMAIN r : r[i] = Header("own")
  <2>1. a = r \o g
    <3>1. <<Header("own")>> \in Seq(Lines)
      BY LinesTyped
    <3>2. PICK h \in Seq(Lines) : h = <<Header("own")>>
      BY <3>1
    <3>3. (r \o h) \o e = r \o (h \o e)
      BY CatAssociates
    <3> QED  BY <1>1, <1>2, <1>6, <3>2, <3>3 DEF EntriesPlaced
  <2>2. /\ a \in Seq(Lines) /\ Len(r) \in Nat
        /\ \A i \in DOMAIN r : i \in DOMAIN a /\ a[i] = r[i]
        /\ \A m \in DOMAIN g : Len(r) + m \in DOMAIN a /\ a[Len(r) + m] = g[m]
        /\ \A i \in DOMAIN a : i \in DOMAIN r \/ \E m \in DOMAIN g : i = Len(r) + m
    <3>1. /\ r \o g \in Seq(Lines) /\ Len(r) \in Nat
          /\ \A i \in DOMAIN r : i \in DOMAIN (r \o g) /\ (r \o g)[i] = r[i]
          /\ \A m \in DOMAIN g : Len(r) + m \in DOMAIN (r \o g) /\ (r \o g)[Len(r) + m] = g[m]
          /\ \A i \in DOMAIN (r \o g) :
               i \in DOMAIN r \/ \E m \in DOMAIN g : i = Len(r) + m
      BY CatPlaces
    <3> QED  BY <2>1, <3>1
  <2>3. LiesAt(g, Len(r), a)
    BY <2>2 DEF LiesAt
  <2>4. /\ \A j \in DOMAIN g : a[Len(r) + j] = Header("own") \/ FollowsHeader(a, e, Len(r) + j)
        /\ \A m \in DOMAIN e : \E i \in DOMAIN a : a[i] = e[m]
    BY <1>3, <2>2, <2>3
  <2> QED  BY <1>1, <2>2, <2>4 DEF Result
<1> QED  BY <1>4, <1>5, <1>6

(* The lines that are not the edit's own keep their order through each pass. *)
LEMMA OutsideOne ==
  \A l \in Lines : Bind(Outside, <<l>>) = IF Mine(l) THEN <<>> ELSE <<l>>
<1> SUFFICES ASSUME NEW l \in Lines
             PROVE  Bind(Outside, <<l>>) = IF Mine(l) THEN <<>> ELSE <<l>>
  OBVIOUS
<1>1. Outside \in [Lines -> Seq(Lines)]
  BY EditTyped
<1>2. Bind(Outside, <<l>>) = Outside[l]
  BY <1>1, BindOne
<1> QED  BY <1>2 DEF Outside

LEMMA TwoPasses ==
  ASSUME NEW G \in [Lines -> Seq(Lines)], \A l \in Lines : Bind(Outside, G[l]) = Outside[l]
  PROVE  \A s \in Seq(Lines) : Bind(Outside, Bind(G, s)) = Bind(Outside, s)
<1>1. Composed(Lines, Lines, Lines, Outside, G, Outside)
  BY EditTyped DEF Composed
<1> QED  BY <1>1, BindBind

LEMMA OutsideCat ==
  \A s \in Seq(Lines), t \in Seq(Lines) :
    Bind(Outside, s \o t) = Bind(Outside, s) \o Bind(Outside, t)
<1>1. Outside \in [Lines -> Seq(Lines)]
  BY EditTyped
<1> QED  BY <1>1, BindCat

LEMMA OutsideRewritten == \A s \in Seq(Lines) : Foreign(Rewritten(s)) = Foreign(s)
<1>1. ASSUME NEW l \in Lines PROVE Bind(Outside, Rewrites[l]) = Outside[l]
  <2>1. Rewrites[l] = Rewrite(l) /\ Outside[l] = IF Mine(l) THEN <<>> ELSE <<l>>
    BY DEF Rewrites, Outside
  <2>2. CASE l.key = RemovedKey
    BY <2>1, <2>2, BindEmpty DEF Rewrite, Mine
  <2>3. CASE l.key # RemovedKey /\ l.key \in WantedKeys
    <3>1. Rewrite(l) = <<Entry(l.key, "new")>> /\ Mine(l)
      BY <2>3 DEF Rewrite, Mine
    <3>2. PICK m \in Lines : m = Entry(l.key, "new") /\ Mine(m)
      BY <2>3, LinesTyped DEF Mine, Entry
    <3> QED  BY <2>1, <3>1, <3>2, OutsideOne
  <2>4. CASE l.key # RemovedKey /\ l.key \notin WantedKeys
    BY <2>1, <2>4, OutsideOne DEF Rewrite
  <2> QED  BY <2>2, <2>3, <2>4
<1>2. \A s \in Seq(Lines) : Bind(Outside, Bind(Rewrites, s)) = Bind(Outside, s)
  BY <1>1, EditTyped, TwoPasses
<1>3. \A s \in Seq(Lines) : Rewritten(s) \in Seq(Lines)
  BY RewrittenIs DEF Output
<1> QED  BY <1>2, <1>3, PassesBind

LEMMA OutsidePlaced ==
  ASSUME NEW r \in Seq(Lines), NEW e \in Seq(Lines),
         \A i \in DOMAIN e : e[i].key \in WantedKeys
  PROVE  Foreign(EntriesPlaced(r, e)) = Foreign(r)
<1>1. Bind(Outside, e) = <<>>
  <2>1. \A i \in DOMAIN e : e[i] \in Lines /\ Mine(e[i])
    BY DEF Mine
  <2>2. \A i \in DOMAIN e : Outside[e[i]] = <<>>
    BY <2>1 DEF Outside
  <2>3. Outside \in [Lines -> Seq(Lines)]
    BY EditTyped
  <2> QED  BY <2>2, <2>3, BindNothing
<1>2. \A s \in Seq(Lines) : Bind(Outside, s) \in Seq(Lines)
  BY EditTyped, PassGives
<1>3. \A s \in Seq(Lines) : s \o <<>> = s
  OBVIOUS
<1>4. \A s \in Seq(Lines) : s \o e \in Seq(Lines) /\ Bind(Outside, s \o e) = Bind(Outside, s)
  <2> SUFFICES ASSUME NEW s \in Seq(Lines)
               PROVE  s \o e \in Seq(Lines) /\ Bind(Outside, s \o e) = Bind(Outside, s)
    OBVIOUS
  <2>1. s \o e \in Seq(Lines)
    OBVIOUS
  <2>2. Bind(Outside, s \o e) = Bind(Outside, s) \o Bind(Outside, e)
    BY OutsideCat
  <2>3. Bind(Outside, s) \o <<>> = Bind(Outside, s)
    BY <1>2, <1>3
  <2> QED  BY <1>1, <2>1, <2>2, <2>3
<1>5. EntriesPlaced(r, e) \in Seq(Lines)
  BY PlacedIs DEF Result
<1>6. CASE e = <<>>
  BY <1>6 DEF EntriesPlaced
<1>7. CASE e # <<>> /\ \E i \in DOMAIN r : r[i] = Header("own")
  <2>1. EntriesPlaced(r, e) = Bind(Placing(e), r)
    BY <1>7, PassesBind DEF EntriesPlaced
  <2>2. ASSUME NEW l \in Lines PROVE Bind(Outside, Placing(e)[l]) = Outside[l]
    <3>1. <<l>> \in Seq(Lines)
      OBVIOUS
    <3>2. Bind(Outside, <<l>>) = Outside[l] /\ Bind(Outside, <<l>> \o e) = Bind(Outside, <<l>>)
      BY <1>4, <3>1, OutsideOne DEF Outside
    <3> QED  BY <3>2 DEF Placing
  <2>3. Bind(Outside, Bind(Placing(e), r)) = Bind(Outside, r)
    BY <2>2, EditTyped, TwoPasses
  <2> QED  BY <1>5, <2>1, <2>3, PassesBind
<1>8. CASE e # <<>> /\ ~\E i \in DOMAIN r : r[i] = Header("own")
  <2>1. EntriesPlaced(r, e) = (r \o <<Header("own")>>) \o e
    BY <1>8 DEF EntriesPlaced
  <2>2. PICK h \in Lines : h = Header("own") /\ Mine(h)
    BY LinesTyped DEF Mine
  <2>3. <<h>> \in Seq(Lines) /\ r \o <<h>> \in Seq(Lines) /\ Bind(Outside, <<h>>) = <<>>
    BY <2>2, OutsideOne
  <2>4. Bind(Outside, r \o <<h>>) = Bind(Outside, r)
    <3>1. Bind(Outside, r \o <<h>>) = Bind(Outside, r) \o Bind(Outside, <<h>>)
      BY <2>3, OutsideCat
    <3>2. Bind(Outside, r) \o <<>> = Bind(Outside, r)
      BY <1>2, <1>3
    <3> QED  BY <2>3, <3>1, <3>2
  <2>5. Bind(Outside, (r \o <<h>>) \o e) = Bind(Outside, r \o <<h>>)
    BY <1>4, <2>3
  <2>6. Foreign(EntriesPlaced(r, e)) = Bind(Outside, (r \o <<h>>) \o e)
    BY <1>5, <2>1, <2>2, PassesBind
  <2> QED  BY <2>4, <2>5, <2>6, PassesBind
<1> QED  BY <1>6, <1>7, <1>8

LEMMA AllAreSet ==
  ASSUME NEW s, NEW r, NEW e, NEW a, Output(s, r), Absent(r, e), Result(r, e, a)
  PROVE  AllSet(a)
<1> SUFFICES ASSUME NEW k \in WantedKeys PROVE \E i \in DOMAIN a : a[i] = Entry(k, "new")
  BY DEF AllSet
<1>1. CASE \E j \in DOMAIN r : r[j].key = k
  BY <1>1 DEF Output, Result
<1>2. CASE \A j \in DOMAIN r : r[j].key # k
  BY <1>2 DEF Absent, Result
<1> QED  BY <1>1, <1>2

LEMMA NoneIsOld ==
  ASSUME NEW s, NEW r, NEW e, NEW a, Output(s, r), Absent(r, e), Result(r, e, a),
         \A i \in DOMAIN s : s[i] \in IniLines
  PROVE  NoneOld(a)
<1> SUFFICES ASSUME NEW i \in DOMAIN a PROVE a[i].text # "old" \/ a[i].key = OtherKey
  BY DEF NoneOld
<1>1. CASE \E k \in DOMAIN r : a[i] = r[k]
  <2>1. PICK k \in DOMAIN r : a[i] = r[k]
    BY <1>1
  <2>2. PICK j \in DOMAIN s : /\ s[j].key = r[k].key /\ r[k].key # RemovedKey
                              /\ IF r[k].key \in WantedKeys THEN r[k] = Entry(r[k].key, "new")
                                 ELSE r[k] = s[j]
    BY DEF Output
  <2>3. CASE r[k].key \in WantedKeys
    <3>1. r[k].text = "new"
      BY <2>2, <2>3 DEF Entry
    <3> QED  BY <2>1, <3>1
  <2>4. CASE r[k].key \notin WantedKeys
    <3>1. a[i] \in IniLines /\ a[i].key \notin WantedKeys /\ a[i].key # RemovedKey
      BY <2>1, <2>2, <2>4
    <3> QED  BY <3>1 DEF IniLines, Header, Entry
  <2> QED  BY <2>3, <2>4
<1>2. CASE a[i] = Header("own")
  BY <1>2 DEF Header
<1>3. CASE FollowsHeader(a, e, i)
  BY <1>3 DEF FollowsHeader, Absent, Entry
<1> QED  BY <1>1, <1>2, <1>3 DEF Result

(* An added key stands after the header of its group, with none in between.  *)
LEMMA AddedUnder ==
  ASSUME NEW s, NEW r, NEW e, NEW a, Output(s, r), Absent(r, e), Result(r, e, a)
  PROVE  \A i \in DOMAIN a : a[i].key \in Added(s) => UnderHeader(a, i)
<1> SUFFICES ASSUME NEW i \in DOMAIN a, a[i].key \in Added(s) PROVE UnderHeader(a, i)
  OBVIOUS
<1>1. ~\E k \in DOMAIN r : a[i] = r[k]
  BY DEF Output, Added
<1>2. a[i] # Header("own")
  BY LinesTyped DEF Added
<1>3. PICK d \in Nat : \E m \in DOMAIN e :
        i = d + 1 + m /\ d + 1 \in DOMAIN a /\ a[d + 1] = Header("own")
        /\ \A q \in DOMAIN e : d + 1 + q \in DOMAIN a /\ a[d + 1 + q] = e[q]
  BY <1>1, <1>2 DEF Result, FollowsHeader
<1>4. PICK m \in DOMAIN e : i = d + 1 + m
  BY <1>3
<1>5. PICK N \in Nat : DOMAIN e = 1 .. N
  BY DEF Absent
<1>6. m \in 1 .. N /\ d + 1 \in 1 .. i
  BY <1>4, <1>5
<1>7. d + 1 \in HeadersUpTo(a, i)
  BY <1>3, <1>6, LinesTyped DEF HeadersUpTo
<1>8. ASSUME NEW h \in HeadersUpTo(a, i), ~(h <= d + 1) PROVE FALSE
  <2>1. h \in 1 .. i /\ a[h].key = "none"
    BY DEF HeadersUpTo
  <2>2. PICK q \in 1 .. N : h = d + 1 + q
    <3>1. h - (d + 1) \in 1 .. N /\ h = d + 1 + (h - (d + 1))
      BY <1>4, <1>6, <1>8, <2>1
    <3> QED  BY <3>1
  <2>3. a[h] = e[q] /\ e[q].key \in WantedKeys
    BY <1>3, <1>5, <2>2 DEF Absent
  <2> QED  BY <2>1, <2>3, LinesTyped
<1> QED  BY <1>3, <1>7, <1>8 DEF UnderHeader

(* The file before the edit, and what the edit made of it.                   *)
IniInv ==
  /\ DOMAIN ini = {"done", "before", "after"} /\ ini.before \in Seq(IniLines)
  /\ ini.done => ini.after = atomic_ini_update(ini.before)

LEMMA IniStarts == IniInit => IniInv
<1> SUFFICES ASSUME IniInit PROVE IniInv
  OBVIOUS
<1>1. PICK n \in 0 .. MaxLines : \E s \in [1 .. n -> IniLines] :
        ini = [done |-> FALSE, before |-> s, after |-> s]
  BY DEF IniInit
<1>2. PICK s \in [1 .. n -> IniLines] : ini = [done |-> FALSE, before |-> s, after |-> s]
  BY <1>1
<1>3. s \in Seq(IniLines)
  BY BenchAssumption
<1> QED  BY <1>2, <1>3 DEF IniInv

LEMMA IniStep == IniInv /\ [Configure]_ini => IniInv'
<1>1. CASE Configure
  BY <1>1 DEF IniInv, Configure
<1>2. CASE UNCHANGED ini
  BY <1>2 DEF IniInv
<1> QED  BY <1>1, <1>2

LEMMA EditPlaces == IniInv => IniEditPlaced
<1> SUFFICES ASSUME IniInv, ini.done PROVE IniEditPlaced
  BY DEF IniEditPlaced
<1>1. PICK s \in Seq(IniLines) : s = ini.before
  BY DEF IniInv
<1>2. s \in Seq(Lines) /\ \A i \in DOMAIN s : s[i] \in IniLines
  <2>1. IniLines \subseteq Lines
    BY LinesTyped
  <2> QED  BY <2>1
<1>3. PICK r : r = Rewritten(s)
  OBVIOUS
<1>4. PICK e : e = MissingEntries(r)
  OBVIOUS
<1>5. PICK a : a = EntriesPlaced(r, e) /\ a = ini.after
  BY <1>1, <1>3, <1>4 DEF IniInv, atomic_ini_update
<1>6. Output(s, r) /\ r \in Seq(Lines)
  BY <1>2, <1>3, RewrittenIs DEF Output
<1>7. Absent(r, e) /\ e \in Seq(Lines) /\ \A i \in DOMAIN e : e[i].key \in WantedKeys
  BY <1>4, MissingIs DEF Absent
<1>8. Result(r, e, a)
  BY <1>5, <1>6, <1>7, PlacedIs
<1>9. AllSet(a)
  BY <1>6, <1>7, <1>8, AllAreSet
<1>10. NoneOld(a)
  BY <1>2, <1>6, <1>7, <1>8, NoneIsOld
<1>11. \A i \in DOMAIN a : a[i].key \in Added(s) => UnderHeader(a, i)
  BY <1>6, <1>7, <1>8, AddedUnder
<1>12. Foreign(a) = Foreign(s)
  <2>1. Foreign(r) = Foreign(s)
    BY <1>2, <1>3, OutsideRewritten
  <2>2. Foreign(EntriesPlaced(r, e)) = Foreign(r)
    BY <1>6, <1>7, OutsidePlaced
  <2> QED  BY <1>5, <2>1, <2>2
<1> QED  BY <1>1, <1>5, <1>9, <1>10, <1>11, <1>12 DEF IniEditPlaced

-----------------------------------------------------------------------------
(* LocalBenchmark: the measured interval and the overlay.                    *)

Meters ==
    [stage : {"pid", "preflight", "sampling", "input", "unwinding", "probe",
              "postflight", "exit"},
     game : BOOLEAN, throttled : BOOLEAN, probe : {"none", "running", "ended"},
     input : {"none", "running", "ended", "failed"}, samples : Seq(BOOLEAN),
     result : BOOLEAN]

(* What each stage of sample has waited for, and what a written result says. *)
MeterInv ==
    /\ meter \in Meters
    /\ meter.stage \in {"input", "probe", "postflight"} => meter.samples # <<>>
    /\ meter.stage \in {"probe", "postflight"} => meter.input = "ended"
    /\ meter.stage = "postflight" => meter.probe = "ended"
    /\ meter.result => meter.stage = "exit" /\ meter.probe = "ended" /\ meter.input = "ended"
                       /\ meter.samples # <<>>

LEMMA MeterStarts == MeterInit => MeterInv
BY DEF MeterInit, MeterInv, Meters

LEMMA MeterStep == MeterInv /\ [MeterNext]_meter => MeterInv'
<1> SUFFICES ASSUME MeterInv, [MeterNext]_meter PROVE MeterInv'
  OBVIOUS
<1> USE DEF MeterInv, Meters, Metering
<1>1. CASE FindGame
  BY <1>1 DEF FindGame
<1>2. CASE Preflight
  BY <1>2 DEF Preflight
<1>3. CASE TakeSample
  <2>1. CASE meter' = [meter EXCEPT !.samples = Append(@, meter.throttled)]
    <3>1. Append(meter.samples, meter.throttled) \in Seq(BOOLEAN)
      OBVIOUS
    <3> QED  BY <1>3, <2>1, <3>1 DEF TakeSample
  <2>2. CASE meter' = Metering("unwinding")
    BY <1>3, <2>2 DEF TakeSample
  <2> QED  BY <1>3, <2>1, <2>2 DEF TakeSample
<1>4. CASE EndOfInterval
  BY <1>4 DEF EndOfInterval
<1>5. CASE AwaitInput
  BY <1>5 DEF AwaitInput
<1>6. CASE AwaitProbe
  BY <1>6 DEF AwaitProbe, ProbeEnded
<1>7. CASE WriteResult
  BY <1>7 DEF WriteResult
<1>8. CASE ChildEnds
  BY <1>8 DEF ChildEnds
<1>9. CASE GameQuits
  BY <1>9 DEF GameQuits
<1>10. CASE Throttles
  BY <1>10 DEF Throttles
<1>11. CASE UNCHANGED meter
  BY <1>11
<1> QED  BY <1>1, <1>2, <1>3, <1>4, <1>5, <1>6, <1>7, <1>8, <1>9, <1>10, <1>11 DEF MeterNext

Overlays ==
    [stage : SteamFiles \cup {"check", "refused", "setenv", "setflush", "ready", "failed",
                              "cleared"},
     running : BOOLEAN, stale : SUBSET SteamFiles, set : SUBSET SteamFiles,
     env : SUBSET {"setenv", "setflush"}, starts : 0 .. 1]

(* The environment follows the second file, and Steam changes the files only *)
(* once it has been started.                                                 *)
OverlayInv ==
    /\ overlay \in Overlays
    /\ overlay.starts = 0 =>
         /\ ~overlay.running
         /\ overlay.stage = "local" => "config" \in overlay.set
         /\ overlay.stage \in {"setenv", "setflush", "ready"} \/ overlay.env # {}
              => overlay.set = SteamFiles
         /\ overlay.stage \in SteamFiles \cup {"check"} => overlay.env = {}

LEMMA OverlayStarts == OverlayInit => OverlayInv
BY DEF OverlayInit, OverlayInv, Overlays, SteamFiles

LEMMA OverlayStep == OverlayInv /\ [OverlayNext]_overlay => OverlayInv'
<1> SUFFICES ASSUME OverlayInv, [OverlayNext]_overlay PROVE OverlayInv'
  OBVIOUS
<1> USE DEF OverlayInv, Overlays, Prepared, SteamFiles
<1>1. CASE CheckSteam
  BY <1>1 DEF CheckSteam
<1>2. CASE EditVdf
  <2>1. CASE overlay' = Prepared("failed")
    BY <1>2, <2>1 DEF EditVdf
  <2>2. CASE overlay.stage = "config" /\ overlay' = [overlay EXCEPT !.stage = "local", !.set = @ \cup {"config"}]
    BY <2>2
  <2>3. CASE overlay.stage = "local" /\ overlay' = [overlay EXCEPT !.stage = "setenv", !.set = @ \cup {"local"}]
    <3>1. overlay' \in Overlays /\ overlay'.set = overlay.set \cup {"local"}
          /\ overlay'.starts = overlay.starts /\ overlay'.running = overlay.running
          /\ overlay'.stage = "setenv"
      BY <2>3
    <3> QED  BY <2>3, <3>1
  <2> QED  BY <1>2, <2>1, <2>2, <2>3 DEF EditVdf, AfterFile
<1>3. CASE SetEnv
  <2>1. CASE overlay' = Prepared("failed")
    BY <1>3, <2>1 DEF SetEnv
  <2>2. CASE overlay.stage = "setenv" /\ overlay' = [overlay EXCEPT !.stage = "setflush", !.env = @ \cup {"setenv"}]
    BY <2>2
  <2>3. CASE overlay.stage = "setflush" /\ overlay' = [overlay EXCEPT !.stage = "ready", !.env = @ \cup {"setflush"}]
    <3>1. overlay' \in Overlays /\ overlay'.set = overlay.set /\ overlay'.starts = overlay.starts
          /\ overlay'.running = overlay.running /\ overlay'.stage = "ready"
      BY <2>3
    <3> QED  BY <2>3, <3>1
  <2> QED  BY <1>3, <2>1, <2>2, <2>3 DEF SetEnv
<1>4. CASE ClearEnvironment
  BY <1>4 DEF ClearEnvironment
<1>5. CASE SteamStarts
  <2>1. overlay' = [overlay EXCEPT !.running = TRUE, !.starts = 1, !.stale = SteamFiles \ overlay.set]
    BY <1>5 DEF SteamStarts
  <2>2. overlay'.starts = 1
    BY <2>1
  <2>3. overlay' \in Overlays
    <3>1. SteamFiles \ overlay.set \in SUBSET SteamFiles /\ 1 \in 0 .. 1
      OBVIOUS
    <3> QED  BY <2>1, <3>1
  <2> QED  BY <2>2, <2>3
<1>6. CASE SteamQuits
  BY <1>6 DEF SteamQuits
<1>7. CASE UNCHANGED overlay
  BY <1>7
<1> QED  BY <1>1, <1>2, <1>3, <1>4, <1>5, <1>6, <1>7 DEF OverlayNext

-----------------------------------------------------------------------------
(* WindowAcceptance: what the logs say of the scenes and the gestures.       *)

HostKinds == {"published", "geometry", "postcondition", "layout",
              "began", "dragging", "cancelled", "ended"}
TweakKinds == {"entering", "returned", "springback"}
FinderKinds == {"route", "session", "move", "up"}
LogLines(kinds) == [kind : kinds, id : Nat, win : Nat, ok : BOOLEAN]

Extents == [host : Nat, windowing : Nat, finder : Nat]

Logs == [host : Seq(LogLines(HostKinds)), windowing : Seq(LogLines(TweakKinds)),
         finder : Seq(LogLines(FinderKinds))]
Scenes == [at : {"idle", "published", "entered", "sized", "settled"},
           exact : BOOLEAN, fixed : BOOLEAN, placed : BOOLEAN]
Touches == [at : {"idle", "began", "dragged", "ended"}, win : Nat,
            moved : BOOLEAN, reset : BOOLEAN, seen : SUBSET FinderKinds]
Reports == [passed : BOOLEAN, drag : BOOLEAN, target : Nat, touched : Nat]
Harnesses == [stage : {"host", "windowing", "finder", "analyze", "done"},
              mode : {"springback", "drag"}, armed : BOOLEAN, polls : Nat,
              off : Extents, upto : Extents, report : Reports]

AcceptShape ==
    /\ logs \in Logs /\ scene \in [Windows -> Scenes] /\ touch \in [Contacts -> Touches]
    /\ harness \in Harnesses

LEMMA LogsShaped ==
  ASSUME logs \in Logs
  PROVE  /\ \A h \in Seq(LogLines(HostKinds)) : [logs EXCEPT !.host = h] \in Logs
         /\ \A w \in Seq(LogLines(TweakKinds)) : [logs EXCEPT !.windowing = w] \in Logs
         /\ \A f \in Seq(LogLines(FinderKinds)) : [logs EXCEPT !.finder = f] \in Logs
         /\ logs.host \in Seq(LogLines(HostKinds)) /\ logs.windowing \in Seq(LogLines(TweakKinds))
         /\ logs.finder \in Seq(LogLines(FinderKinds))
BY DEF Logs

(* A line of the Host is true of the scene or of the gesture it names, and   *)
(* stays so.                                                                 *)
SceneLine(e, s) ==
    /\ e.kind = "geometry" => /\ e.id \in Windows /\ s[e.id].at \in {"sized", "settled"}
                              /\ s[e.id].exact = e.ok
    /\ e.kind = "postcondition" => /\ e.id \in Windows /\ s[e.id].at = "settled"
                                   /\ s[e.id].fixed = ~e.ok

GestureLine(e, t) ==
    e.kind \in {"began", "dragging", "cancelled", "ended"} =>
      /\ e.id \in Contacts /\ t[e.id].at # "idle" /\ e.win = t[e.id].win
      /\ e.kind = "dragging" => t[e.id].moved
      /\ e.kind = "ended" => t[e.id].at = "ended"

FinderLine(e, t) == e.id \in Contacts /\ e.kind \in t[e.id].seen

(* A gesture that was reset has its cancellation in the log, after it began  *)
(* and before it ended.                                                      *)
CancelledAt(host, c, w, p) ==
    /\ p \in DOMAIN host
    /\ host[p].kind = "cancelled" /\ host[p].id = c /\ host[p].win = w
    /\ \A i \in DOMAIN host : host[i].id = c =>
         /\ host[i].kind = "began" => i < p
         /\ host[i].kind = "ended" => p < i

ResetLogged(host, t) ==
    \A c \in Contacts : t[c].reset =>
      t[c].at # "idle" /\ \E p \in DOMAIN host : CancelledAt(host, c, t[c].win, p)

LinesTrue ==
    /\ \A i \in DOMAIN logs.host : SceneLine(logs.host[i], scene)
                                   /\ GestureLine(logs.host[i], touch)
    /\ \A i \in DOMAIN logs.finder : FinderLine(logs.finder[i], touch)
    /\ ResetLogged(logs.host, touch)

ReadWritten ==
    /\ harness.upto.host <= Len(logs.host)
    /\ harness.upto.windowing <= Len(logs.windowing)
    /\ harness.upto.finder <= Len(logs.finder)

SceneScored(r) ==
    r.passed => /\ r.target \in Windows /\ scene[r.target].at = "settled"
                /\ scene[r.target].exact /\ ~scene[r.target].fixed

GestureScored(r) ==
    r.drag => /\ r.touched \in Contacts /\ touch[r.touched].at = "ended"
              /\ touch[r.touched].moved /\ ~touch[r.touched].reset
              /\ {"route", "move", "up"} \subseteq touch[r.touched].seen

AcceptInv ==
    /\ AcceptShape /\ LinesTrue /\ ReadWritten
    /\ SceneScored(harness.report) /\ GestureScored(harness.report)

LEMMA AcceptStarts == AcceptInit => AcceptInv
<1> SUFFICES ASSUME AcceptInit PROVE AcceptInv
  OBVIOUS
<1>1. AcceptShape
  <2>1. <<>> \in Seq(LogLines(HostKinds)) /\ <<>> \in Seq(LogLines(TweakKinds))
        /\ <<>> \in Seq(LogLines(FinderKinds))
    OBVIOUS
  <2> QED  BY <2>1 DEF AcceptInit, AcceptShape, Logs, Scenes, Touches, Harnesses, Reports, Extents, NoReport
<1>2. LinesTrue
  BY DEF AcceptInit, LinesTrue, ResetLogged
<1>3. ReadWritten
  BY DEF AcceptInit, ReadWritten
<1>4. SceneScored(harness.report) /\ GestureScored(harness.report)
  BY DEF AcceptInit, SceneScored, GestureScored, NoReport
<1> QED  BY <1>1, <1>2, <1>3, <1>4 DEF AcceptInv

(* The scene a passing text names has its own exact geometry and its own     *)
(* good postcondition in that text.                                          *)
LEMMA EarliestIs ==
  ASSUME NEW P \in SUBSET Nat, P # {}
  PROVE  Earliest(P) \in P /\ \A j \in P : Earliest(P) <= j
<1>1. PICK m \in P : \A k \in P : <<k, m>> \notin OpToRel(<, Nat)
  BY NatLessThanWellFounded, WFMin
<1>2. P \subseteq Nat
  OBVIOUS
<1>3. \A k \in P : ~(k < m)
  BY <1>1, <1>2 DEF OpToRel
<1>4. \A k \in P : m <= k
  BY <1>2, <1>3
<1> QED  BY <1>4 DEF Earliest

LEMMA SceneInText ==
  ASSUME NEW host \in Seq(LogLines(HostKinds)), NEW windowing, NEW at \in DOMAIN host,
         SceneChecks(host, windowing, at)
  PROVE  /\ \E i \in DOMAIN host : /\ host[i].kind = "geometry" /\ host[i].id = host[at].id
                                   /\ host[i].ok
         /\ \E i \in DOMAIN host : /\ host[i].kind = "postcondition" /\ host[i].id = host[at].id
                                   /\ host[i].ok
<1> DEFINE w == host[at].id
           after == From(host, at)
           geos == {i \in DOMAIN after : after[i].kind = "geometry" /\ after[i].id = w}
<1>1. after \in Seq(LogLines(HostKinds)) /\ \A i \in DOMAIN after : \E j \in DOMAIN host : after[i] = host[j]
  <2>1. after = SubSeq(host, at, Len(host)) /\ at \in 1 .. Len(host)
    BY DEF From
  <2>2. Len(after) = Len(host) - at + 1 /\ \A i \in 1 .. Len(after) : after[i] = host[at + i - 1]
    BY <2>1
  <2>3. after \in Seq(LogLines(HostKinds))
    BY <2>1
  <2>4. \A i \in 1 .. Len(after) : at + i - 1 \in DOMAIN host
    BY <2>1, <2>2
  <2> QED  BY <2>2, <2>3, <2>4
<1>2. geos \in SUBSET Nat
  BY <1>1
<1>3. geos # {} /\ after[Earliest(geos)].ok
  BY DEF SceneChecks, FirstOk, Where, GeometryOf
<1>4. Earliest(geos) \in geos
  <2> HIDE DEF geos
  <2> QED  BY <1>2, <1>3, EarliestIs
<1> DEFINE session == after[Earliest(geos)].id
           posts == {i \in DOMAIN after : after[i].kind = "postcondition" /\ after[i].id = session}
<1>5. posts # {} /\ after[Earliest(posts)].ok
  BY DEF SceneChecks, FirstOk, Where, GeometryOf
<1>6. posts \in SUBSET Nat
  BY <1>1
<1>7. Earliest(posts) \in posts
  <2> HIDE DEF posts
  <2> QED  BY <1>5, <1>6, EarliestIs
<1>8. session = w
  BY <1>4
<1>9. PICK i \in DOMAIN host : host[i] = after[Earliest(geos)]
  BY <1>1, <1>4
<1>10. PICK j \in DOMAIN host : host[j] = after[Earliest(posts)]
  BY <1>1, <1>7
<1> QED  BY <1>3, <1>4, <1>5, <1>7, <1>8, <1>9, <1>10

(* A passing drag report: the gesture begun last dragged and ended, Finder   *)
(* handled it, and no cancellation of it lies before every end.              *)
LEMMA GestureInText ==
  ASSUME NEW host \in Seq(LogLines(HostKinds)), NEW finder \in Seq(LogLines(FinderKinds)),
         NEW at \in DOMAIN host, DragChecks(host, finder, at)
  PROVE  /\ \E i \in DOMAIN host :
              i > at /\ host[i].kind = "dragging" /\ SameGesture(host[i], host[at])
         /\ \E i \in DOMAIN host :
              /\ i > at /\ host[i].kind = "ended" /\ SameGesture(host[i], host[at])
              /\ \A j \in DOMAIN host : at < j /\ j < i =>
                   ~(host[j].kind = "cancelled" /\ SameGesture(host[j], host[at]))
         /\ \E i \in DOMAIN finder : finder[i].kind = "route" /\ finder[i].id = host[at].id
         /\ \E i \in DOMAIN finder :
              finder[i].kind = "move" /\ SameGesture(finder[i], host[at])
         /\ \E i \in DOMAIN finder :
              finder[i].kind = "up" /\ SameGesture(finder[i], host[at])
<1> DEFINE began == host[at]
           tail == From(host, at + 1)
           Same(e) == e.id = began.id /\ e.win = began.win
           Is(k) == {i \in DOMAIN tail : tail[i].kind = k /\ Same(tail[i])}
           Did(k) == {i \in DOMAIN finder : finder[i].kind = k /\ Same(finder[i])}
<1>1. /\ Is("dragging") # {} /\ Is("ended") # {}
      /\ ~(Is("cancelled") # {} /\ Earliest(Is("cancelled")) < Earliest(Is("ended")))
      /\ Did("move") # {} /\ Did("up") # {}
      /\ {i \in DOMAIN finder : finder[i].kind = "route" /\ finder[i].id = began.id} # {}
  BY DEF DragChecks, Where, SameGesture
<1>2. at \in 1 .. Len(host) /\ Len(tail) = Len(host) - at
      /\ \A i \in 1 .. Len(tail) : tail[i] = host[at + i]
  BY DEF From
<1>3. DOMAIN tail = 1 .. Len(tail) /\ Len(tail) \in Nat
  BY <1>2 DEF From
<1>4. \A i \in DOMAIN tail : at + i \in DOMAIN host /\ at + i > at /\ tail[i] = host[at + i]
  <2> HIDE DEF tail
  <2>1. Len(host) \in Nat /\ DOMAIN host = 1 .. Len(host)
    OBVIOUS
  <2> QED  BY <1>2, <1>3, <2>1
<1>5. \A j \in DOMAIN host : j > at => j - at \in DOMAIN tail /\ tail[j - at] = host[j]
  <2> HIDE DEF tail
  <2>1. Len(host) \in Nat /\ DOMAIN host = 1 .. Len(host)
    OBVIOUS
  <2>2. ASSUME NEW j \in DOMAIN host, j > at PROVE j - at \in 1 .. Len(tail) /\ at + (j - at) = j
    BY <1>2, <2>1, <2>2
  <2> QED  BY <1>2, <1>3, <2>2
<1> DEFINE ends == Is("ended")
           cans == Is("cancelled")
           e == Earliest(ends)
<1>6. ends \in SUBSET Nat /\ cans \in SUBSET Nat
  BY <1>3
<1>7. e \in ends /\ \A j \in ends : e <= j
  <2> HIDE DEF Is
  <2> QED  BY <1>1, <1>6, EarliestIs
<1>8. \A c \in cans : ~(c < e)
  <2>1. CASE cans = {}
    BY <2>1
  <2>2. CASE cans # {}
    <3>1. Earliest(cans) \in cans /\ \A j \in cans : Earliest(cans) <= j
      <4> HIDE DEF Is
      <4> QED  BY <2>2, <1>6, EarliestIs
    <3>2. ~(Earliest(cans) < e)
      BY <1>1, <2>2
    <3> HIDE DEF Is, e
    <3>3. e \in Nat
      BY <1>6, <1>7
    <3> QED  BY <1>6, <3>1, <3>2, <3>3
  <2> QED  BY <2>1, <2>2
<1>9. \E i \in DOMAIN host : i > at /\ host[i].kind = "dragging" /\ Same(host[i])
  <2>1. PICK i \in DOMAIN tail : tail[i].kind = "dragging" /\ Same(tail[i])
    BY <1>1
  <2> QED  BY <2>1, <1>4
<1>10. \E i \in DOMAIN host :
         /\ i > at /\ host[i].kind = "ended" /\ Same(host[i])
         /\ \A j \in DOMAIN host :
              at < j /\ j < i => ~(host[j].kind = "cancelled" /\ Same(host[j]))
  <2>1. at + e \in DOMAIN host /\ at + e > at /\ host[at + e].kind = "ended" /\ Same(host[at + e])
    BY <1>4, <1>7
  <2>2. e \in Nat /\ at \in Nat /\ \A j \in DOMAIN host : j \in Nat
    BY <1>2, <1>6, <1>7
  <2>3. ASSUME NEW j \in DOMAIN host, at < j, j < at + e, host[j].kind = "cancelled", Same(host[j])
        PROVE  FALSE
    <3>1. j - at \in cans
      BY <2>3, <1>5
    <3> HIDE DEF e
    <3>2. j - at < e
      BY <2>2, <2>3
    <3> QED  BY <3>1, <3>2, <1>8
  <2> QED  BY <2>1, <2>3
<1>11. \E i \in DOMAIN finder : finder[i].kind = "move" /\ Same(finder[i])
  BY <1>1
<1>12. \E i \in DOMAIN finder : finder[i].kind = "up" /\ Same(finder[i])
  BY <1>1
<1>13. \E i \in DOMAIN finder : finder[i].kind = "route" /\ finder[i].id = began.id
  BY <1>1
<1> QED  BY <1>9, <1>10, <1>11, <1>12, <1>13 DEF SameGesture

-----------------------------------------------------------------------------
(* An appended line other than the start of the same gesture leaves a        *)
(* cancellation where it is.                                                 *)
LEMMA CancelledStays ==
  ASSUME NEW h \in Seq(LogLines(HostKinds)), NEW e \in LogLines(HostKinds), NEW c, NEW w, NEW p,
         CancelledAt(h, c, w, p), e.kind = "began" => e.id # c
  PROVE  CancelledAt(Append(h, e), c, w, p)
BY DEF CancelledAt

(* What no step of the writers takes back.                                   *)
SceneKeeps ==
    \A w \in Windows :
      /\ scene[w].at \in {"sized", "settled"} =>
           scene'[w].at \in {"sized", "settled"} /\ scene'[w].exact = scene[w].exact
      /\ scene[w].at = "settled" =>
           scene'[w].at = "settled" /\ scene'[w].fixed = scene[w].fixed

TouchKeeps ==
    \A c \in Contacts :
      /\ touch[c].at # "idle" => touch'[c].at # "idle" /\ touch'[c].win = touch[c].win
      /\ touch[c].moved => touch'[c].moved
      /\ touch[c].at = "ended" => touch'[c].at = "ended" /\ touch'[c].reset = touch[c].reset
      /\ touch[c].seen \subseteq touch'[c].seen

(* A step of a writer: what the logs had stays, what it adds is true.        *)
LogsGrow ==
    /\ \A l \in {"host", "windowing", "finder"} : Len(logs[l]) <= Len(logs'[l])
    /\ \A i \in DOMAIN logs'.host :
         \/ i \in DOMAIN logs.host /\ logs'.host[i] = logs.host[i]
         \/ SceneLine(logs'.host[i], scene') /\ GestureLine(logs'.host[i], touch')
    /\ \A i \in DOMAIN logs'.finder :
         \/ i \in DOMAIN logs.finder /\ logs'.finder[i] = logs.finder[i]
         \/ FinderLine(logs'.finder[i], touch')

LEMMA WriterStep ==
  ASSUME AcceptInv, AcceptShape', SceneKeeps, TouchKeeps, LogsGrow, UNCHANGED harness,
         ResetLogged(logs'.host, touch')
  PROVE  AcceptInv'
<1>1. \A i \in DOMAIN logs'.host : SceneLine(logs'.host[i], scene')
                                   /\ GestureLine(logs'.host[i], touch')
  <2>1. ASSUME NEW e, SceneLine(e, scene) PROVE SceneLine(e, scene')
    BY <2>1 DEF SceneLine, SceneKeeps
  <2>2. ASSUME NEW e, GestureLine(e, touch) PROVE GestureLine(e, touch')
    BY <2>2 DEF GestureLine, TouchKeeps
  <2> QED  BY <2>1, <2>2 DEF AcceptInv, LinesTrue, LogsGrow
<1>2. \A i \in DOMAIN logs'.finder : FinderLine(logs'.finder[i], touch')
  BY DEF AcceptInv, LinesTrue, LogsGrow, TouchKeeps, FinderLine
<1>3. ReadWritten'
  <2>1. /\ Len(logs.host) <= Len(logs'.host) /\ Len(logs.windowing) <= Len(logs'.windowing)
        /\ Len(logs.finder) <= Len(logs'.finder)
    BY DEF LogsGrow
  <2>2. /\ logs.host \in Seq(LogLines(HostKinds)) /\ logs.windowing \in Seq(LogLines(TweakKinds))
        /\ logs.finder \in Seq(LogLines(FinderKinds))
        /\ logs'.host \in Seq(LogLines(HostKinds)) /\ logs'.windowing \in Seq(LogLines(TweakKinds))
        /\ logs'.finder \in Seq(LogLines(FinderKinds))
        /\ harness.upto.host \in Nat /\ harness.upto.windowing \in Nat /\ harness.upto.finder \in Nat
    BY DEF AcceptInv, AcceptShape, Logs, Harnesses, Extents
  <2>3. /\ Len(logs.host) \in Nat /\ Len(logs.windowing) \in Nat /\ Len(logs.finder) \in Nat
        /\ Len(logs'.host) \in Nat /\ Len(logs'.windowing) \in Nat /\ Len(logs'.finder) \in Nat
    BY <2>2
  <2> QED  BY <2>1, <2>2, <2>3 DEF AcceptInv, ReadWritten
<1>4. SceneScored(harness.report)' /\ GestureScored(harness.report)'
  BY DEF AcceptInv, SceneScored, GestureScored, SceneKeeps, TouchKeeps
<1> QED  BY <1>1, <1>2, <1>3, <1>4 DEF AcceptInv, LinesTrue

(* A line of a scene appended to the Host's log.                             *)
LEMMA SceneLineLogged ==
  ASSUME AcceptInv, AcceptShape', SceneKeeps, UNCHANGED <<touch, harness>>,
         NEW line \in LogLines(HostKinds), line.kind \in {"published", "geometry", "postcondition", "layout"},
         SceneLine(line, scene'),
         logs'.host = Append(logs.host, line), logs'.finder = logs.finder,
         Len(logs.windowing) <= Len(logs'.windowing)
  PROVE  AcceptInv'
<1>1. TouchKeeps
  BY DEF TouchKeeps
<1>2. logs.host \in Seq(LogLines(HostKinds)) /\ logs.finder \in Seq(LogLines(FinderKinds))
  BY DEF AcceptInv, AcceptShape, Logs
<1>3. LogsGrow
  <2>1. GestureLine(line, touch')
    BY DEF GestureLine
  <2>2. \A i \in DOMAIN logs'.host : \/ i \in DOMAIN logs.host /\ logs'.host[i] = logs.host[i]
                                     \/ logs'.host[i] = line
    BY <1>2
  <2>3. Len(logs.host) <= Len(logs'.host) /\ Len(logs.finder) <= Len(logs'.finder)
    BY <1>2
  <2> QED  BY <2>1, <2>2, <2>3 DEF LogsGrow
<1>4. ResetLogged(logs'.host, touch')
  <2>1. ASSUME NEW c \in Contacts, touch[c].reset
        PROVE  touch[c].at # "idle" /\ \E p \in DOMAIN logs'.host : CancelledAt(logs'.host, c, touch[c].win, p)
    <3>1. PICK p \in DOMAIN logs.host : CancelledAt(logs.host, c, touch[c].win, p)
      BY <2>1 DEF AcceptInv, LinesTrue, ResetLogged
    <3>2. CancelledAt(logs'.host, c, touch[c].win, p)
      BY <1>2, <3>1, CancelledStays
    <3>3. p \in DOMAIN logs'.host
      BY <3>2 DEF CancelledAt
    <3> QED  BY <2>1, <3>2, <3>3 DEF AcceptInv, LinesTrue, ResetLogged
  <2> QED  BY <2>1 DEF ResetLogged
<1> QED  BY <1>1, <1>3, <1>4, WriterStep

LEMMA ActivationStep ==
  ASSUME AcceptInv, NEW w \in Windows, Activation(w)
  PROVE  AcceptInv'
<1>1. /\ w \in Nat /\ UNCHANGED <<touch, harness>>
      /\ logs.host \in Seq(LogLines(HostKinds)) /\ logs.windowing \in Seq(LogLines(TweakKinds))
      /\ logs.finder \in Seq(LogLines(FinderKinds))
  BY LogsShaped DEF Activation, AcceptInv, AcceptShape, Windows
<1> USE DEF Scenes
<1>2. CASE Publish(w)
  <2>1. PICK line \in LogLines(HostKinds) : line = Line("published", w, w, TRUE)
    BY <1>1 DEF LogLines, HostKinds, Line
  <2>2. logs' = [logs EXCEPT !.host = Append(@, line)]
    BY <1>2, <2>1 DEF Publish, Writes
  <2>3. scene' = [scene EXCEPT ![w].at = "published"] /\ scene[w].at = "idle"
    BY <1>2 DEF Publish
  <2>4. AcceptShape'
    <3>1. logs' \in Logs
      <4>1. Append(logs.host, line) \in Seq(LogLines(HostKinds))
        BY <1>1
      <4> QED  BY <4>1, <2>2, <2>3, LogsShaped DEF AcceptInv, AcceptShape
    <3>2. scene' \in [Windows -> Scenes]
      BY <2>2, <2>3 DEF AcceptInv, AcceptShape
    <3> QED  BY <1>1, <3>1, <3>2 DEF AcceptInv, AcceptShape
  <2>5. SceneKeeps
    BY <2>3 DEF SceneKeeps, AcceptInv, AcceptShape
  <2>6. logs'.host = Append(logs.host, line) /\ UNCHANGED <<logs.windowing, logs.finder>>
    BY <2>2 DEF AcceptInv, AcceptShape, Logs
  <2>7. line.kind = "published" /\ SceneLine(line, scene') /\ Len(logs.windowing) <= Len(logs'.windowing)
    BY <1>1, <2>1, <2>6 DEF Line, SceneLine
  <2> QED  BY <1>1, <2>4, <2>5, <2>6, <2>7, SceneLineLogged
<1>3. CASE EnterLayout(w)
  <2>1. scene' = [scene EXCEPT ![w].at = "entered"] /\ scene[w].at = "published"
    BY <1>3 DEF EnterLayout
  <2>2. PICK lines \in Seq(LogLines(TweakKinds)) :
          logs' = [logs EXCEPT !.windowing = @ \o lines]
    <3>1. <<Line("entering", w, w, TRUE), Line("returned", w, w, TRUE)>> \in Seq(LogLines(TweakKinds))
      BY <1>1 DEF LogLines, TweakKinds, Line
    <3> QED  BY <1>3, <3>1 DEF EnterLayout
  <2>3. AcceptShape'
    <3>1. logs' \in Logs
      <4>1. logs.windowing \o lines \in Seq(LogLines(TweakKinds))
        BY <1>1
      <4> QED  BY <4>1, <2>1, <2>2, LogsShaped DEF AcceptInv, AcceptShape
    <3>2. scene' \in [Windows -> Scenes]
      BY <2>1, <2>2 DEF AcceptInv, AcceptShape
    <3> QED  BY <1>1, <3>1, <3>2 DEF AcceptInv, AcceptShape
  <2>4. SceneKeeps /\ TouchKeeps
    BY <1>1, <2>1 DEF SceneKeeps, TouchKeeps, AcceptInv, AcceptShape
  <2>5. logs'.windowing = logs.windowing \o lines /\ UNCHANGED <<logs.host, logs.finder>>
    BY <2>2 DEF AcceptInv, AcceptShape, Logs
  <2>6. LogsGrow
    <3>1. Len(logs.windowing) <= Len(logs'.windowing)
      BY <1>1, <2>5
    <3> QED  BY <1>1, <2>5, <3>1 DEF LogsGrow
  <2>7. ResetLogged(logs'.host, touch')
    BY <1>1, <2>5 DEF AcceptInv, LinesTrue
  <2> QED  BY <1>1, <2>3, <2>4, <2>6, <2>7, WriterStep
<1>4. CASE FirstGeometry(w)
  <2>1. PICK right \in BOOLEAN :
          /\ Writes("host", Line("geometry", w, w, right))
          /\ scene' = [scene EXCEPT ![w].at = "sized", ![w].exact = right]
    BY <1>4 DEF FirstGeometry
  <2>2. PICK line \in LogLines(HostKinds) : line = Line("geometry", w, w, right)
    BY <1>1 DEF LogLines, HostKinds, Line
  <2>3. logs' = [logs EXCEPT !.host = Append(@, line)]
    BY <2>1, <2>2 DEF Writes
  <2>4. scene[w].at = "entered"
    BY <1>4 DEF FirstGeometry
  <2>5. AcceptShape'
    <3>1. logs' \in Logs
      <4>1. Append(logs.host, line) \in Seq(LogLines(HostKinds))
        BY <1>1
      <4> QED  BY <4>1, <2>1, <2>3, LogsShaped DEF AcceptInv, AcceptShape
    <3>2. scene' \in [Windows -> Scenes]
      BY <2>1, <2>3 DEF AcceptInv, AcceptShape
    <3> QED  BY <1>1, <3>1, <3>2 DEF AcceptInv, AcceptShape
  <2>6. SceneKeeps
    BY <2>1, <2>4 DEF SceneKeeps, AcceptInv, AcceptShape
  <2>7. logs'.host = Append(logs.host, line) /\ UNCHANGED <<logs.windowing, logs.finder>>
    BY <2>3 DEF AcceptInv, AcceptShape, Logs
  <2>8. line.kind = "geometry" /\ SceneLine(line, scene') /\ Len(logs.windowing) <= Len(logs'.windowing)
    BY <1>1, <2>1, <2>2, <2>7 DEF Line, SceneLine, AcceptInv, AcceptShape
  <2> QED  BY <1>1, <2>5, <2>6, <2>7, <2>8, SceneLineLogged
<1>5. CASE Postcondition(w)
  <2>1. PICK landed \in BOOLEAN :
          /\ Writes("host", Line("postcondition", w, w, landed))
          /\ scene' = [scene EXCEPT ![w].at = "settled", ![w].fixed = ~landed]
    BY <1>5 DEF Postcondition
  <2>2. PICK line \in LogLines(HostKinds) : line = Line("postcondition", w, w, landed)
    BY <1>1 DEF LogLines, HostKinds, Line
  <2>3. logs' = [logs EXCEPT !.host = Append(@, line)]
    BY <2>1, <2>2 DEF Writes
  <2>4. scene[w].at = "sized"
    BY <1>5 DEF Postcondition
  <2>5. AcceptShape'
    <3>1. logs' \in Logs
      <4>1. Append(logs.host, line) \in Seq(LogLines(HostKinds))
        BY <1>1
      <4> QED  BY <4>1, <2>1, <2>3, LogsShaped DEF AcceptInv, AcceptShape
    <3>2. scene' \in [Windows -> Scenes]
      BY <2>1, <2>3 DEF AcceptInv, AcceptShape
    <3> QED  BY <1>1, <3>1, <3>2 DEF AcceptInv, AcceptShape
  <2>6. SceneKeeps
    BY <2>1, <2>4 DEF SceneKeeps, AcceptInv, AcceptShape
  <2>7. logs'.host = Append(logs.host, line) /\ UNCHANGED <<logs.windowing, logs.finder>>
    BY <2>3 DEF AcceptInv, AcceptShape, Logs
  <2>8. line.kind = "postcondition" /\ SceneLine(line, scene')
        /\ Len(logs.windowing) <= Len(logs'.windowing)
    BY <1>1, <2>1, <2>2, <2>7 DEF Line, SceneLine, AcceptInv, AcceptShape
  <2> QED  BY <1>1, <2>5, <2>6, <2>7, <2>8, SceneLineLogged
<1>6. CASE Settled(w)
  <2>1. PICK line \in LogLines(HostKinds), back \in LogLines(TweakKinds) :
          line = Line("layout", w, w, TRUE) /\ back = Line("springback", w, w, TRUE)
    BY <1>1 DEF LogLines, HostKinds, TweakKinds, Line
  <2>2. logs' = [logs EXCEPT !.host = Append(@, line), !.windowing = Append(@, back)]
        /\ scene' = [scene EXCEPT ![w].placed = TRUE]
    BY <1>6, <2>1 DEF Settled
  <2>3. AcceptShape'
    <3>1. logs' \in Logs
      <4>1. Append(logs.host, line) \in Seq(LogLines(HostKinds))
            /\ Append(logs.windowing, back) \in Seq(LogLines(TweakKinds))
        BY <1>1
      <4> QED  BY <4>1, <2>2 DEF AcceptInv, AcceptShape, Logs
    <3>2. scene' \in [Windows -> Scenes]
      BY <2>2 DEF AcceptInv, AcceptShape
    <3> QED  BY <1>1, <3>1, <3>2 DEF AcceptInv, AcceptShape
  <2>4. SceneKeeps
    BY <2>2 DEF SceneKeeps, AcceptInv, AcceptShape
  <2>5. /\ logs'.host = Append(logs.host, line) /\ logs'.windowing = Append(logs.windowing, back)
        /\ logs'.finder = logs.finder
    BY <2>2 DEF AcceptInv, AcceptShape, Logs
  <2>6. line.kind = "layout" /\ SceneLine(line, scene') /\ Len(logs.windowing) <= Len(logs'.windowing)
    BY <1>1, <2>1, <2>5 DEF Line, SceneLine
  <2> QED  BY <1>1, <2>3, <2>4, <2>5, <2>6, SceneLineLogged
<1> QED  BY <1>2, <1>3, <1>4, <1>5, <1>6 DEF Activation

(* A line of a gesture appended to the Host's log.                           *)
LEMMA GestureLineLogged ==
  ASSUME AcceptInv, NEW c \in Contacts, NEW line \in LogLines(HostKinds), line.id = c,
         line.kind \in {"began", "dragging", "cancelled", "ended"}, GestureLine(line, touch'),
         logs' = [logs EXCEPT !.host = Append(@, line)], UNCHANGED <<scene, harness>>,
         touch' \in [Contacts -> Touches], TouchKeeps,
         \A d \in Contacts : touch'[d].reset =>
           \/ touch[d].reset /\ (line.kind = "began" => d # c)
           \/ /\ d = c /\ line.kind = "cancelled" /\ touch[c].at \in {"began", "dragged"}
              /\ line.win = touch[c].win
  PROVE  AcceptInv'
<1>1. /\ logs.host \in Seq(LogLines(HostKinds)) /\ logs.finder \in Seq(LogLines(FinderKinds))
      /\ logs.windowing \in Seq(LogLines(TweakKinds))
  BY LogsShaped DEF AcceptInv, AcceptShape
<1>2. Append(logs.host, line) \in Seq(LogLines(HostKinds))
  BY <1>1
<1>3. /\ logs' \in Logs /\ logs'.host = Append(logs.host, line)
      /\ logs'.windowing = logs.windowing /\ logs'.finder = logs.finder
  BY <1>2 DEF AcceptInv, AcceptShape, Logs
<1>4. AcceptShape'
  BY <1>3 DEF AcceptInv, AcceptShape
<1>5. SceneKeeps
  BY DEF SceneKeeps
<1>6. LogsGrow
  <2>1. SceneLine(line, scene')
    BY DEF SceneLine
  <2>2. \A i \in DOMAIN logs'.host : \/ i \in DOMAIN logs.host /\ logs'.host[i] = logs.host[i]
                                     \/ logs'.host[i] = line
    BY <1>1, <1>3
  <2>3. /\ Len(logs.host) <= Len(logs'.host) /\ Len(logs.finder) <= Len(logs'.finder)
        /\ Len(logs.windowing) <= Len(logs'.windowing)
    BY <1>1, <1>3
  <2> QED  BY <1>3, <2>1, <2>2, <2>3 DEF LogsGrow
<1>7. ASSUME NEW d \in Contacts, touch'[d].reset
      PROVE  /\ touch'[d].at # "idle"
             /\ \E p \in DOMAIN logs'.host : CancelledAt(logs'.host, d, touch'[d].win, p)
  <2>1. CASE touch[d].reset /\ (line.kind = "began" => d # c)
    <3>1. PICK p \in DOMAIN logs.host : CancelledAt(logs.host, d, touch[d].win, p)
      BY <2>1 DEF AcceptInv, LinesTrue, ResetLogged
    <3>2. touch[d].at # "idle"
      BY <2>1 DEF AcceptInv, LinesTrue, ResetLogged
    <3>3. touch'[d].at # "idle" /\ touch'[d].win = touch[d].win
      BY <3>2 DEF TouchKeeps
    <3>4. CancelledAt(logs'.host, d, touch[d].win, p)
      BY <1>1, <1>3, <2>1, <3>1, CancelledStays
    <3> QED  BY <3>3, <3>4 DEF CancelledAt
  <2>2. CASE /\ d = c /\ line.kind = "cancelled" /\ touch[c].at \in {"began", "dragged"}
             /\ line.win = touch[c].win
    <3> DEFINE p == Len(logs.host) + 1
    <3>1. p \in DOMAIN logs'.host /\ logs'.host[p] = line
      BY <1>1, <1>3
    <3>2. \A i \in DOMAIN logs'.host : \/ i < p /\ i \in DOMAIN logs.host /\ logs'.host[i] = logs.host[i]
                                       \/ i = p
      BY <1>1, <1>3
    <3>3. \A i \in DOMAIN logs.host : logs.host[i].id = c => logs.host[i].kind # "ended"
      BY <2>2 DEF AcceptInv, LinesTrue, GestureLine
    <3>4. touch'[d].at # "idle" /\ touch'[d].win = touch[d].win
      BY <2>2 DEF TouchKeeps
    <3>5. CancelledAt(logs'.host, d, touch'[d].win, p)
      BY <2>2, <3>1, <3>2, <3>3, <3>4 DEF CancelledAt
    <3> QED  BY <3>1, <3>4, <3>5
  <2> QED  BY <1>7, <2>1, <2>2
<1>8. ResetLogged(logs'.host, touch')
  BY <1>7 DEF ResetLogged
<1> QED  BY <1>4, <1>5, <1>6, <1>8, WriterStep

LEMMA GestureStep ==
  ASSUME AcceptInv, NEW c \in Contacts, Gesture(c)
  PROVE  AcceptInv'
<1>1. /\ c \in Nat /\ UNCHANGED <<scene, harness>> /\ touch[c].win \in Nat
      /\ touch \in [Contacts -> Touches] /\ "host" \in DOMAIN logs
      /\ \A d \in Contacts : touch[d].reset => touch[d].at # "idle"
  BY DEF Gesture, AcceptInv, AcceptShape, Logs, Touches, Contacts, LinesTrue, ResetLogged
<1> USE DEF Touches
<1>2. \A k \in {"began", "dragging", "cancelled", "ended"}, w \in Nat :
        /\ Line(k, c, w, TRUE) \in LogLines(HostKinds) /\ Line(k, c, w, TRUE).id = c
        /\ Line(k, c, w, TRUE).kind = k /\ Line(k, c, w, TRUE).win = w
  BY <1>1 DEF LogLines, HostKinds, Line
<1>3. ASSUME NEW w \in Windows, touch[c].at = "idle", Writes("host", Line("began", c, w, TRUE)),
             touch' = [touch EXCEPT ![c].at = "began", ![c].win = w]
      PROVE  AcceptInv'
  <2>1. w \in Nat
    BY DEF Windows
  <2>2. PICK line \in LogLines(HostKinds) : line = Line("began", c, w, TRUE)
    BY <1>2, <2>1
  <2>3. touch' \in [Contacts -> Touches]
    BY <1>1, <1>3, <2>1
  <2>4. TouchKeeps
    BY <1>1, <1>3 DEF TouchKeeps
  <2>5. GestureLine(line, touch')
    <3>1. line.id = c /\ line.kind = "began" /\ line.win = w
      BY <1>2, <2>1, <2>2
    <3>2. touch'[c].at = "began" /\ touch'[c].win = w
      BY <1>1, <1>3
    <3> QED  BY <3>1, <3>2 DEF GestureLine
  <2>6. \A d \in Contacts : touch'[d].reset => touch[d].reset /\ d # c
    BY <1>1, <1>3
  <2>7. logs' = [logs EXCEPT !.host = Append(@, line)]
    BY <1>3, <2>2 DEF Writes
  <2>8. line.id = c /\ line.kind = "began"
    BY <1>2, <2>1, <2>2
  <2> QED  BY <1>1, <2>3, <2>4, <2>5, <2>6, <2>7, <2>8, GestureLineLogged
<1>4. ASSUME touch[c].at = "began", Writes("host", Line("dragging", c, touch[c].win, TRUE)),
             touch' = [touch EXCEPT ![c].at = "dragged", ![c].moved = TRUE]
      PROVE  AcceptInv'
  <2>1. PICK line \in LogLines(HostKinds) : line = Line("dragging", c, touch[c].win, TRUE)
    BY <1>1, <1>2
  <2>2. touch' \in [Contacts -> Touches]
    BY <1>1, <1>4
  <2>3. TouchKeeps
    BY <1>1, <1>4 DEF TouchKeeps
  <2>4. line.id = c /\ line.kind = "dragging" /\ line.win = touch[c].win
    BY <1>1, <1>2, <2>1
  <2>5. GestureLine(line, touch')
    BY <1>1, <1>4, <2>4 DEF GestureLine
  <2>6. \A d \in Contacts : touch'[d].reset => touch[d].reset
    BY <1>1, <1>4
  <2>7. logs' = [logs EXCEPT !.host = Append(@, line)]
    BY <1>4, <2>1 DEF Writes
  <2> QED  BY <1>1, <2>2, <2>3, <2>4, <2>5, <2>6, <2>7, GestureLineLogged
<1>5. ASSUME touch[c].at \in {"began", "dragged"},
             Writes("host", Line("cancelled", c, touch[c].win, TRUE)),
             touch' = [touch EXCEPT ![c].reset = TRUE]
      PROVE  AcceptInv'
  <2>1. PICK line \in LogLines(HostKinds) : line = Line("cancelled", c, touch[c].win, TRUE)
    BY <1>1, <1>2
  <2>2. touch' \in [Contacts -> Touches]
    BY <1>1, <1>5
  <2>3. TouchKeeps
    BY <1>1, <1>5 DEF TouchKeeps
  <2>4. line.id = c /\ line.kind = "cancelled" /\ line.win = touch[c].win
    BY <1>1, <1>2, <2>1
  <2>5. GestureLine(line, touch')
    BY <1>1, <1>5, <2>4 DEF GestureLine
  <2>6. \A d \in Contacts : touch'[d].reset => touch[d].reset \/ d = c
    BY <1>1, <1>5
  <2>7. logs' = [logs EXCEPT !.host = Append(@, line)]
    BY <1>5, <2>1 DEF Writes
  <2> QED  BY <1>1, <1>5, <2>2, <2>3, <2>4, <2>5, <2>6, <2>7, GestureLineLogged
<1>6. ASSUME touch[c].at \in {"began", "dragged"},
             Writes("host", Line("ended", c, touch[c].win, TRUE)),
             touch' = [touch EXCEPT ![c].at = "ended"]
      PROVE  AcceptInv'
  <2>1. PICK line \in LogLines(HostKinds) : line = Line("ended", c, touch[c].win, TRUE)
    BY <1>1, <1>2
  <2>2. touch' \in [Contacts -> Touches]
    BY <1>1, <1>6
  <2>3. TouchKeeps
    BY <1>1, <1>6 DEF TouchKeeps
  <2>4. line.id = c /\ line.kind = "ended" /\ line.win = touch[c].win
    BY <1>1, <1>2, <2>1
  <2>5. GestureLine(line, touch')
    BY <1>1, <1>6, <2>4 DEF GestureLine
  <2>6. \A d \in Contacts : touch'[d].reset => touch[d].reset
    BY <1>1, <1>6
  <2>7. logs' = [logs EXCEPT !.host = Append(@, line)]
    BY <1>6, <2>1 DEF Writes
  <2> QED  BY <1>1, <2>2, <2>3, <2>4, <2>5, <2>6, <2>7, GestureLineLogged
<1> QED  BY <1>3, <1>4, <1>5, <1>6 DEF Gesture

LEMMA FinderStep ==
  ASSUME AcceptInv, NEW c \in Contacts, Finder(c)
  PROVE  AcceptInv'
<1>1. /\ c \in Nat /\ UNCHANGED <<scene, harness>> /\ touch[c].win \in Nat
      /\ touch \in [Contacts -> Touches]
      /\ logs.host \in Seq(LogLines(HostKinds)) /\ logs.finder \in Seq(LogLines(FinderKinds))
      /\ logs.windowing \in Seq(LogLines(TweakKinds))
  BY LogsShaped DEF Finder, AcceptInv, AcceptShape, Touches, Contacts
<1> USE DEF Touches
<1>2. PICK wrote \in Seq(FinderKinds) : wrote = FinderLines(touch[c].seen)
  <2>1. /\ <<"route">> \in Seq(FinderKinds) /\ <<"session", "move">> \in Seq(FinderKinds)
        /\ <<"up">> \in Seq(FinderKinds)
    BY DEF FinderKinds
  <2>2. FinderLines(touch[c].seen) \in {<<"route">>, <<"session", "move">>, <<"up">>}
    BY DEF FinderLines
  <2> QED  BY <2>1, <2>2
<1>3. PICK lines \in Seq(LogLines(FinderKinds)) :
        /\ lines = [i \in DOMAIN wrote |-> Line(wrote[i], c, touch[c].win, TRUE)]
        /\ \A i \in DOMAIN lines : /\ lines[i].id = c /\ i \in DOMAIN wrote
                                   /\ lines[i].kind = wrote[i]
  <2>1. DOMAIN wrote = 1 .. Len(wrote) /\ Len(wrote) \in Nat
    OBVIOUS
  <2>2. \A i \in DOMAIN wrote : Line(wrote[i], c, touch[c].win, TRUE) \in LogLines(FinderKinds)
    BY <1>1 DEF Line, LogLines
  <2>3. PICK lines : lines = [i \in 1 .. Len(wrote) |-> Line(wrote[i], c, touch[c].win, TRUE)]
    OBVIOUS
  <2>4. lines \in Seq(LogLines(FinderKinds))
    <3>1. lines \in [1 .. Len(wrote) -> LogLines(FinderKinds)]
      BY <2>1, <2>2, <2>3
    <3> QED  BY <2>1, <3>1
  <2> QED  BY <2>1, <2>3, <2>4 DEF Line
<1>4. logs' = [logs EXCEPT !.finder = @ \o lines]
  BY <1>2, <1>3 DEF Finder
<1>5. PICK more \in SUBSET FinderKinds : more = {wrote[i] : i \in DOMAIN wrote}
  <2>1. {wrote[i] : i \in DOMAIN wrote} \subseteq FinderKinds
    OBVIOUS
  <2> QED  BY <2>1
<1>6. touch' = [touch EXCEPT ![c].seen = @ \cup more]
  BY <1>2, <1>5 DEF Finder
<1>7. logs.finder \o lines \in Seq(LogLines(FinderKinds))
  BY <1>1
<1>8. /\ logs' \in Logs /\ logs'.finder = logs.finder \o lines
      /\ logs'.windowing = logs.windowing /\ logs'.host = logs.host
  BY <1>4, <1>7 DEF AcceptInv, AcceptShape, Logs
<1>9. touch' \in [Contacts -> Touches]
  BY <1>1, <1>6
<1>10. AcceptShape'
  BY <1>1, <1>8, <1>9 DEF AcceptInv, AcceptShape
<1>11. SceneKeeps /\ TouchKeeps
  BY <1>1, <1>6 DEF SceneKeeps, TouchKeeps
<1>12. LogsGrow
  <2>1. \A i \in DOMAIN lines : FinderLine(lines[i], touch')
    <3>1. touch'[c].seen = touch[c].seen \cup more
      BY <1>1, <1>6
    <3>2. \A i \in DOMAIN lines : lines[i].kind \in more
      BY <1>3, <1>5
    <3> QED  BY <1>3, <3>1, <3>2 DEF FinderLine
  <2>2. \A i \in DOMAIN logs'.finder :
          \/ i \in DOMAIN logs.finder /\ logs'.finder[i] = logs.finder[i]
          \/ \E j \in DOMAIN lines : logs'.finder[i] = lines[j]
    <3>1. ASSUME NEW i \in 1 .. Len(logs.finder) + Len(lines), i > Len(logs.finder)
          PROVE  (logs.finder \o lines)[i] = lines[i - Len(logs.finder)]
                 /\ i - Len(logs.finder) \in DOMAIN lines
      BY <1>1, <3>1
    <3>2. ASSUME NEW i \in 1 .. Len(logs.finder) PROVE (logs.finder \o lines)[i] = logs.finder[i]
      BY <1>1
    <3>3. DOMAIN (logs.finder \o lines) = 1 .. Len(logs.finder) + Len(lines)
          /\ DOMAIN logs.finder = 1 .. Len(logs.finder) /\ Len(logs.finder) \in Nat
      BY <1>1
    <3>4. ASSUME NEW i \in 1 .. Len(logs.finder) + Len(lines)
          PROVE  i > Len(logs.finder) \/ i \in 1 .. Len(logs.finder)
      BY <3>3
    <3> QED  BY <1>8, <3>1, <3>2, <3>3, <3>4
  <2>3. /\ Len(logs.host) <= Len(logs'.host) /\ Len(logs.finder) <= Len(logs'.finder)
        /\ Len(logs.windowing) <= Len(logs'.windowing)
    BY <1>1, <1>8
  <2> QED  BY <1>8, <2>1, <2>2, <2>3 DEF LogsGrow
<1>13. ResetLogged(logs'.host, touch')
  <2>1. \A d \in Contacts : touch'[d].reset = touch[d].reset /\ touch'[d].at = touch[d].at
                            /\ touch'[d].win = touch[d].win
    BY <1>1, <1>6
  <2> QED  BY <1>8, <2>1 DEF AcceptInv, LinesTrue, ResetLogged
<1> QED  BY <1>1, <1>10, <1>11, <1>12, <1>13, WriterStep

LEMMA LatestIs ==
  ASSUME NEW N \in Nat, NEW P \in SUBSET (1 .. N), P # {}
  PROVE  Latest(P) \in P
<1> DEFINE Q == {N - i : i \in P}
<1>1. Q \in SUBSET Nat /\ Q # {}
  <2>1. \A i \in P : i \in 1 .. N /\ N - i \in Nat
    OBVIOUS
  <2> QED  BY <2>1
<1>2. PICK m \in Q : \A k \in Q : m <= k
  <2> HIDE DEF Q
  <2> QED  BY <1>1, EarliestIs
<1>3. PICK i \in P : m = N - i
  BY <1>2
<1>4. \A j \in P : i >= j
  <2>1. ASSUME NEW j \in P PROVE i >= j
    <3>1. N - i <= N - j
      BY <1>2, <1>3
    <3>2. i \in 1 .. N /\ j \in 1 .. N
      OBVIOUS
    <3> QED  BY <3>1, <3>2
  <2> QED  BY <2>1
<1> QED  BY <1>4 DEF Latest

LEMMA TextLines ==
  ASSUME NEW T, NEW s \in Seq(T), NEW a \in Nat, NEW b \in Nat, b <= Len(s)
  PROVE  /\ SubSeq(s, a + 1, b) \in Seq(T)
         /\ \A i \in DOMAIN SubSeq(s, a + 1, b) : /\ i \in Nat /\ a + i \in DOMAIN s
                                                  /\ SubSeq(s, a + 1, b)[i] = s[a + i]
         /\ \A j \in DOMAIN s : a < j /\ j <= b => j - a \in DOMAIN SubSeq(s, a + 1, b)
         /\ \A i \in DOMAIN SubSeq(s, a + 1, b) : a + i <= b
<1>1. Len(s) \in Nat /\ DOMAIN s = 1 .. Len(s)
  OBVIOUS
<1>2. PICK t : t = SubSeq(s, a + 1, b)
  OBVIOUS
<1>3. t \in Seq(T)
  BY <1>1, <1>2
<1>4. Len(t) = IF a + 1 <= b THEN b - a ELSE 0
  BY <1>1, <1>2
<1>5. DOMAIN t = 1 .. Len(t)
  BY <1>3
<1>6. \A i \in 1 .. Len(t) : t[i] = s[a + i]
  BY <1>1, <1>2, <1>4
<1>7. \A i \in 1 .. Len(t) : i \in Nat /\ a + i \in 1 .. Len(s) /\ a + i <= b
  BY <1>1, <1>4
<1>8. \A j \in 1 .. Len(s) : a < j /\ j <= b => j - a \in 1 .. Len(t)
  BY <1>1, <1>4
<1> QED  BY <1>1, <1>2, <1>3, <1>5, <1>6, <1>7, <1>8

(* What a report says of the three texts holds of the scene and the gesture. *)
LEMMA AnalyzeTrue ==
  ASSUME AcceptInv
  PROVE  LET r == analyze(TextOf("host"), TextOf("windowing"), TextOf("finder"))
         IN  r \in Reports /\ SceneScored(r) /\ GestureScored(r)
<1>1. /\ logs.host \in Seq(LogLines(HostKinds)) /\ logs.finder \in Seq(LogLines(FinderKinds))
      /\ logs.windowing \in Seq(LogLines(TweakKinds))
      /\ harness.off \in Extents /\ harness.upto \in Extents
  BY LogsShaped DEF AcceptInv, AcceptShape, Harnesses
<1>2. PICK host : host = TextOf("host")
  OBVIOUS
<1>3. PICK finder : finder = TextOf("finder")
  OBVIOUS
<1>4. PICK windowing : windowing = TextOf("windowing")
  OBVIOUS
<1>5. PICK o \in Nat : o = harness.off.host
  BY <1>1 DEF Extents
<1>6. PICK u \in Nat : u = harness.upto.host
  BY <1>1 DEF Extents
<1>7. u <= Len(logs.host) /\ host = SubSeq(logs.host, o + 1, u)
  BY <1>2, <1>5, <1>6 DEF TextOf, AcceptInv, ReadWritten
<1>8. /\ host \in Seq(LogLines(HostKinds))
      /\ \A i \in DOMAIN host : i \in Nat /\ o + i \in DOMAIN logs.host /\ host[i] = logs.host[o + i]
      /\ \A j \in DOMAIN logs.host : o < j /\ j <= u => j - o \in DOMAIN host
      /\ \A i \in DOMAIN host : o + i <= u
  BY <1>1, <1>7, TextLines
<1>9. /\ finder \in Seq(LogLines(FinderKinds))
      /\ \A i \in DOMAIN finder : \E j \in DOMAIN logs.finder : finder[i] = logs.finder[j]
  <2>1. PICK a \in Nat : a = harness.off.finder
    BY <1>1 DEF Extents
  <2>2. PICK b \in Nat : b = harness.upto.finder
    BY <1>1 DEF Extents
  <2>3. b <= Len(logs.finder) /\ finder = SubSeq(logs.finder, a + 1, b)
    BY <1>3, <2>1, <2>2 DEF TextOf, AcceptInv, ReadWritten
  <2> QED  BY <1>1, <2>3, TextLines
<1> DEFINE published == {i \in DOMAIN host : host[i].kind = "published"}
           begun == {i \in DOMAIN host : host[i].kind = "began"}
           r == analyze(host, windowing, finder)
<1>10. Len(host) \in Nat /\ DOMAIN host = 1 .. Len(host)
  BY <1>8
<1>11. published # {} => Latest(published) \in published
  <2>1. published \in SUBSET (1 .. Len(host))
    BY <1>10
  <2> HIDE DEF published
  <2> QED  BY <1>10, <2>1, LatestIs
<1>12. begun # {} => Latest(begun) \in begun
  <2>1. begun \in SUBSET (1 .. Len(host))
    BY <1>10
  <2> HIDE DEF begun
  <2> QED  BY <1>10, <2>1, LatestIs
<1>13. /\ r.passed = (/\ published # {} /\ SceneChecks(host, windowing, Latest(published))
                      /\ SpringbackCheck(windowing, host[Latest(published)].id))
       /\ r.drag = (begun # {} /\ DragChecks(host, finder, Latest(begun)))
       /\ r.target = (IF published = {} THEN 0 ELSE host[Latest(published)].id)
       /\ r.touched = (IF begun = {} THEN 0 ELSE host[Latest(begun)].id)
       /\ r = [passed |-> r.passed, drag |-> r.drag, target |-> r.target, touched |-> r.touched]
  BY DEF analyze, Where
<1>14. r \in Reports
  <2> HIDE DEF r
  <2>1. r.passed \in BOOLEAN /\ r.drag \in BOOLEAN
    <3> HIDE DEF published, begun
    <3> QED  BY <1>13
  <2>2. r.target \in Nat /\ r.touched \in Nat
    <3>1. \A i \in DOMAIN host : host[i] \in LogLines(HostKinds)
      BY <1>8
    <3>2. \A i \in DOMAIN host : host[i].id \in Nat
      BY <3>1 DEF LogLines
    <3> QED  BY <1>11, <1>12, <1>13, <3>2
  <2> QED  BY <1>13, <2>1, <2>2 DEF Reports
<1>15. SceneScored(r)
  <2> SUFFICES ASSUME r.passed
               PROVE  /\ r.target \in Windows /\ scene[r.target].at = "settled"
                      /\ scene[r.target].exact /\ ~scene[r.target].fixed
    BY DEF SceneScored
  <2> HIDE DEF r
  <2>1. PICK at \in published : at = Latest(published) /\ SceneChecks(host, windowing, at)
    BY <1>11, <1>13
  <2>2. at \in DOMAIN host /\ r.target = host[at].id
    BY <1>13, <2>1
  <2> HIDE DEF published
  <2>8. host \in Seq(LogLines(HostKinds)) /\ SceneChecks(host, windowing, at)
    BY <1>8, <2>1
  <2>9. /\ \E i \in DOMAIN host : /\ host[i].kind = "geometry" /\ host[i].id = host[at].id
                                  /\ host[i].ok
        /\ \E i \in DOMAIN host : /\ host[i].kind = "postcondition" /\ host[i].id = host[at].id
                                  /\ host[i].ok
    BY <2>2, <2>8, SceneInText
  <2>3. PICK i \in DOMAIN host : host[i].kind = "geometry" /\ host[i].id = r.target /\ host[i].ok
    BY <2>2, <2>9
  <2>4. PICK j \in DOMAIN host : host[j].kind = "postcondition" /\ host[j].id = r.target /\ host[j].ok
    BY <2>2, <2>9
  <2>5. SceneLine(host[i], scene) /\ SceneLine(host[j], scene)
    BY <1>8 DEF AcceptInv, LinesTrue
  <2> QED  BY <2>3, <2>4, <2>5 DEF SceneLine
<1>16. GestureScored(r)
  <2> SUFFICES ASSUME r.drag
               PROVE  /\ r.touched \in Contacts /\ touch[r.touched].at = "ended"
                      /\ touch[r.touched].moved /\ ~touch[r.touched].reset
                      /\ {"route", "move", "up"} \subseteq touch[r.touched].seen
    BY DEF GestureScored
  <2> HIDE DEF r
  <2>1. PICK at \in begun : at = Latest(begun) /\ DragChecks(host, finder, at)
    BY <1>12, <1>13
  <2>2. at \in DOMAIN host /\ r.touched = host[at].id /\ host[at].kind = "began"
    BY <1>13, <2>1
  <2> DEFINE c == r.touched
             Same(e) == SameGesture(e, host[at])
  <2>3. \A i \in DOMAIN host : GestureLine(host[i], touch)
    BY <1>8 DEF AcceptInv, LinesTrue
  <2>4. c \in Contacts /\ touch[c].at # "idle" /\ host[at].win = touch[c].win
    BY <2>2, <2>3 DEF GestureLine
  <2> HIDE DEF begun
  <2>a. /\ \E i \in DOMAIN host : i > at /\ host[i].kind = "dragging" /\ Same(host[i])
        /\ \E i \in DOMAIN host :
             /\ i > at /\ host[i].kind = "ended" /\ Same(host[i])
             /\ \A j \in DOMAIN host :
                  at < j /\ j < i => ~(host[j].kind = "cancelled" /\ Same(host[j]))
        /\ \E k \in DOMAIN finder : finder[k].kind = "route" /\ finder[k].id = host[at].id
        /\ \E k \in DOMAIN finder : finder[k].kind = "move" /\ Same(finder[k])
        /\ \E k \in DOMAIN finder : finder[k].kind = "up" /\ Same(finder[k])
    <3>1. host \in Seq(LogLines(HostKinds)) /\ finder \in Seq(LogLines(FinderKinds))
          /\ DragChecks(host, finder, at)
      BY <1>8, <1>9, <2>1
    <3> HIDE DEF c
    <3> QED  BY <2>2, <3>1, GestureInText
  <2>5. PICK i \in DOMAIN host : host[i].kind = "dragging" /\ Same(host[i])
    BY <2>a
  <2>6. PICK e \in DOMAIN host :
          /\ e > at /\ host[e].kind = "ended" /\ Same(host[e])
          /\ \A j \in DOMAIN host :
               at < j /\ j < e => ~(host[j].kind = "cancelled" /\ Same(host[j]))
    BY <2>a
  <2>7. touch[c].at = "ended" /\ touch[c].moved
    BY <2>2, <2>3, <2>5, <2>6 DEF GestureLine, SameGesture
  <2>8. ~touch[c].reset
    <3>1. SUFFICES ASSUME touch[c].reset PROVE FALSE
      OBVIOUS
    <3>2. PICK p \in DOMAIN logs.host : CancelledAt(logs.host, c, touch[c].win, p)
      BY <2>4, <3>1 DEF AcceptInv, LinesTrue, ResetLogged
    <3>3. o + at < p /\ p < o + e
      BY <1>8, <2>2, <2>6, <3>2 DEF CancelledAt, SameGesture
    <3>4. p \in Nat /\ at \in Nat /\ e \in Nat /\ o + e <= u
      <4>1. p \in Nat
        BY <1>1
      <4> QED  BY <1>8, <2>2, <4>1
    <3>5. p - o \in DOMAIN host
      <4>1. o < p /\ p <= u
        BY <3>3, <3>4
      <4> QED  BY <1>8, <4>1
    <3>6. host[p - o] = logs.host[p]
      BY <1>8, <3>4, <3>5
    <3>7. at < p - o /\ p - o < e
      BY <3>3, <3>4
    <3> QED  BY <2>2, <2>4, <2>6, <3>2, <3>5, <3>6, <3>7 DEF CancelledAt, SameGesture
  <2>9. {"route", "move", "up"} \subseteq touch[c].seen
    <3>1. \A k \in DOMAIN finder : FinderLine(finder[k], touch)
      BY <1>9 DEF AcceptInv, LinesTrue
    <3>2. /\ \E k \in DOMAIN finder : finder[k].kind = "route" /\ finder[k].id = c
          /\ \E k \in DOMAIN finder : finder[k].kind = "move" /\ finder[k].id = c
          /\ \E k \in DOMAIN finder : finder[k].kind = "up" /\ finder[k].id = c
      BY <2>2, <2>a DEF SameGesture
    <3> QED  BY <3>1, <3>2 DEF FinderLine
  <2> QED  BY <2>4, <2>7, <2>8, <2>9
<1> QED  BY <1>2, <1>3, <1>4, <1>14, <1>15, <1>16

LEMMA HarnessStep ==
  ASSUME AcceptInv, TakeOffset \/ ReadTail \/ Analyze
  PROVE  AcceptInv'
<1>1. /\ logs.host \in Seq(LogLines(HostKinds)) /\ logs.finder \in Seq(LogLines(FinderKinds))
      /\ logs.windowing \in Seq(LogLines(TweakKinds)) /\ UNCHANGED <<logs, scene, touch>>
  BY LogsShaped DEF AcceptInv, AcceptShape, TakeOffset, ReadTail, Analyze
<1>2. LinesTrue'
  BY <1>1 DEF AcceptInv, LinesTrue
<1>3. Len(logs.host) \in Nat /\ Len(logs.windowing) \in Nat /\ Len(logs.finder) \in Nat
  BY <1>1
<1> USE DEF Harnesses, Extents
<1>4. CASE TakeOffset
  <2>1. PICK l \in {"host", "windowing", "finder"}, n \in Nat,
             st \in {"host", "windowing", "finder"}, a \in BOOLEAN :
          harness' = [harness EXCEPT !.off[l] = n, !.stage = st, !.armed = a]
    BY <1>3, <1>4 DEF TakeOffset, NextLog
  <2>2. harness' \in Harnesses /\ harness'.upto = harness.upto /\ harness'.report = harness.report
    BY <2>1 DEF AcceptInv, AcceptShape
  <2> QED  BY <1>1, <1>2, <2>2 DEF AcceptInv, AcceptShape, ReadWritten, SceneScored, GestureScored
<1>5. CASE ReadTail
  <2>1. PICK l \in {"host", "windowing", "finder"}, st \in {"windowing", "finder", "analyze"} :
          harness' = [harness EXCEPT !.upto[l] = Len(logs[l]), !.stage = st]
    BY <1>5 DEF ReadTail, NextLog
  <2>2. harness' \in Harnesses /\ harness'.report = harness.report
    BY <1>3, <2>1 DEF AcceptInv, AcceptShape
  <2>3. ReadWritten'
    <3>1. CASE l = "host"
      BY <1>1, <1>3, <2>1, <3>1 DEF AcceptInv, AcceptShape, ReadWritten
    <3>2. CASE l = "windowing"
      BY <1>1, <1>3, <2>1, <3>2 DEF AcceptInv, AcceptShape, ReadWritten
    <3>3. CASE l = "finder"
      BY <1>1, <1>3, <2>1, <3>3 DEF AcceptInv, AcceptShape, ReadWritten
    <3> QED  BY <3>1, <3>2, <3>3
  <2> QED  BY <1>1, <1>2, <2>2, <2>3 DEF AcceptInv, AcceptShape, SceneScored, GestureScored
<1>6. CASE Analyze
  <2>1. PICK r : r = analyze(TextOf("host"), TextOf("windowing"), TextOf("finder"))
    OBVIOUS
  <2>2. PICK st \in {"done", "host"} :
          harness' = [harness EXCEPT !.report = r, !.polls = @ + 1, !.stage = st]
    BY <1>6, <2>1 DEF Analyze
  <2>3. r \in Reports /\ SceneScored(r) /\ GestureScored(r)
    BY <2>1, AnalyzeTrue
  <2>4. harness' \in Harnesses /\ harness'.upto = harness.upto /\ harness'.report = r
    <3>1. harness.polls + 1 \in Nat
      BY DEF AcceptInv, AcceptShape
    <3> QED  BY <2>2, <2>3, <3>1 DEF AcceptInv, AcceptShape
  <2> QED  BY <1>1, <1>2, <2>3, <2>4 DEF AcceptInv, AcceptShape, ReadWritten, SceneScored, GestureScored
<1> QED  BY <1>4, <1>5, <1>6

LEMMA AcceptStep == AcceptInv /\ [AcceptNext]_acceptVars => AcceptInv'
<1> SUFFICES ASSUME AcceptInv, [AcceptNext]_acceptVars PROVE AcceptInv'
  OBVIOUS
<1>1. CASE UNCHANGED acceptVars
  BY <1>1 DEF acceptVars, AcceptInv, AcceptShape, LinesTrue, ReadWritten, SceneScored, GestureScored
<1> QED  BY <1>1, ActivationStep, GestureStep, FinderStep, HarnessStep DEF AcceptNext

-----------------------------------------------------------------------------
(* What is published.                                                        *)

LEMMA PublishersStart == MCInit => ServerInv /\ ProviderInv /\ ShaderInv
BY ServerStart, ProviderStart, ShaderStart DEF MCInit

(* Of the tools in MCNext only one moves, so every other one stutters.       *)
LEMMA PublishersStep ==
  ASSUME ServerInv, ProviderInv, ShaderInv, [MCNext]_toolVars
  PROVE  ServerInv' /\ ProviderInv' /\ ShaderInv' /\ InstallRepairs
<1>1. [ServerNext]_serverVars
  BY DEF MCNext, toolVars, OnlyPipe, OnlyTrust, OnlyLegacy, OnlyShader, OnlyRelay, OnlyManaged,
         OnlyBench, OnlyClosure, OnlyProvider, OnlyAccept
<1>2. [ProviderNext]_providerVars
  BY DEF MCNext, toolVars, OnlyPipe, OnlyTrust, OnlyLegacy, OnlyShader, OnlyRelay, OnlyManaged,
         OnlyServer, OnlyBench, OnlyClosure, OnlyAccept
<1>3. [ExactNext \/ OfficeNext]_shaderVars
  BY DEF MCNext, toolVars, OnlyPipe, OnlyTrust, OnlyLegacy, OnlyRelay, OnlyManaged, OnlyServer,
         OnlyBench, OnlyClosure, OnlyProvider, OnlyAccept
<1> QED  BY <1>1, <1>2, <1>3, ServerStep, ProviderStep, ShaderStep

(* The WindowServer image, the provider and its companions, the converted    *)
(* libraries and the routes to them are whole, complete and trusted whenever *)
(* they can be opened, whoever publishes them at once or dies half-way.      *)
THEOREM PublishedSoundAlways == MCSpec => PublishedSound
<1> DEFINE Inv == ServerInv /\ ProviderInv /\ ShaderInv
<1>1. MCInit => Inv
  BY PublishersStart
<1>2. Inv /\ [MCNext]_toolVars => Inv' /\ InstallRepairs
  BY PublishersStep
<1>3. Inv => /\ ServerWhole /\ TempsOwned
             /\ StagedOneBuild /\ PublishedWhole /\ PublishedTrusted
             /\ RouteBacked /\ SuccessProvisions
  BY OneBuildStaged DEF ServerInv, ProviderInv, TargetSound, ShaderInv, OfficeInv
<1> QED  BY <1>1, <1>2, <1>3, PTL DEF MCSpec, PublishedSound

-----------------------------------------------------------------------------
(* What is measured.                                                         *)

LEMMA MeasuredStart == MCInit => IniInv /\ MeterInv /\ OverlayInv /\ AcceptInv
<1> SUFFICES ASSUME MCInit PROVE IniInv /\ MeterInv /\ OverlayInv /\ AcceptInv
  OBVIOUS
<1>1. IniInv
  <2>1. CASE IniInit
    BY <2>1, IniStarts
  <2>2. CASE ini = [done |-> FALSE, before |-> <<>>, after |-> <<>>]
    <3>1. <<>> \in Seq(IniLines)
      OBVIOUS
    <3> QED  BY <2>2, <3>1 DEF IniInv
  <2> QED  BY <2>1, <2>2 DEF MCInit
<1>2. MeterInit /\ OverlayInit /\ AcceptInit
  BY DEF MCInit
<1> QED  BY <1>1, <1>2, MeterStarts, OverlayStarts, AcceptStarts

LEMMA MeasuredStep ==
  ASSUME IniInv, MeterInv, OverlayInv, AcceptInv, [MCNext]_toolVars
  PROVE  IniInv' /\ MeterInv' /\ OverlayInv' /\ AcceptInv'
<1> USE DEF MCNext, toolVars, OnlyPipe, OnlyTrust, OnlyLegacy, OnlyShader, OnlyRelay,
            OnlyManaged, OnlyServer, OnlyClosure, OnlyProvider, OnlyAccept, benchVars
<1>1. [Configure]_ini
  BY DEF OverlayNext, MeterNext
<1>2. [OverlayNext]_overlay
  BY DEF Configure, MeterNext
<1>3. [MeterNext]_meter
  BY DEF Configure, OverlayNext
<1>4. [AcceptNext]_acceptVars
  BY DEF OnlyBench
<1> QED  BY <1>1, <1>2, <1>3, <1>4, IniStep, OverlayStep, MeterStep, AcceptStep

(* The edited settings are complete and in their section, a result describes *)
(* a finished measurement, logging is on only with both settings files, and  *)
(* a passing acceptance report is about one scene and one gesture, for any   *)
(* keys, files, samples, windows and contacts.                               *)
THEOREM MeasurementsSoundAlways == MCSpec => []MeasurementsSound
<1> DEFINE Inv == IniInv /\ MeterInv /\ OverlayInv /\ AcceptInv
<1>1. MCInit => Inv
  BY MeasuredStart
<1>2. Inv /\ [MCNext]_toolVars => Inv'
  BY MeasuredStep
<1>3. Inv => MeasurementsSound
  <2>1. IniInv => IniEditPlaced
    BY EditPlaces
  <2>2. MeterInv => ResultWhole
    BY DEF MeterInv, ResultWhole
  <2>3. OverlayInv => LoggingNeedsSettings
    BY DEF OverlayInv, LoggingNeedsSettings
  <2>4. AcceptInv => PassIsOneScene /\ DragIsOneGesture
    BY DEF AcceptInv, SceneScored, GestureScored, PassIsOneScene, DragIsOneGesture
  <2> QED  BY <2>1, <2>2, <2>3, <2>4 DEF MeasurementsSound
<1> QED  BY <1>1, <1>2, <1>3, PTL DEF MCSpec
==============================================================================
