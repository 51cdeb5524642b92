------------------------ MODULE MetalCacheMigration ------------------------
(* layout/usr/macOS/bin/macws_metal_cache_migration.py: the Metal library    *)
(* caches that an older compiler revision filled are renamed into an archive *)
(* once, under a journal that an interrupted attempt resumes from.  Two      *)
(* attempts (postinst and a GUI start) may overlap, either may die at any    *)
(* step, and macOS clients may come, write their caches and go.              *)
EXTENDS Naturals

CONSTANTS
    CacheFiles,    \* the libraries.list and libraries.data of the clients
    Attempts,      \* processes that run the migration
    MaxGeneration, \* the bound of refresh_generation (1024 in the code)
    MaxStamp,      \* writes of cache files
    MaxStarts,     \* clients that start during the migration
    MaxDeaths      \* attempts that die half way

ASSUME CacheAssumption == MaxGeneration \in Nat /\ "free" \notin Attempts

VARIABLES
    cache,      \* the stamp of every cache file, 0 when it is absent
    archive,    \* the retired files of every generation
    journal,    \* the published plan
    history,    \* the plans of the generations before it
    schema,     \* schema.json names the current revision
    lock,       \* the attempt that holds migration.lock, or "free"
    attempt,    \* the locals of every attempt
    client,     \* the macOS clients of the rootfs
    stamps,     \* the stamps used so far, and those of an old compiler's data
    deaths,
    raced       \* history: a client was live while a file was being retired

cacheVars == <<cache, archive, journal, history, schema, lock, attempt, client, stamps,
               deaths, raced>>

Generations == 0..MaxGeneration
NoFiles == [f \in CacheFiles |-> 0]
NoPlan == [generation |-> 0, files |-> NoFiles, published |-> FALSE]
Idle == [pc |-> "idle", plan |-> NoPlan, todo |-> {}]

\* Locations a client may have a cache file open at: the cache or a generation.
Closed == 0
InCache == 1
Archived(g) == g + 2

CacheInit ==
    /\ cache = [f \in CacheFiles |-> 1]
    /\ archive = [g \in Generations |-> NoFiles]
    /\ journal = NoPlan
    /\ history = [g \in Generations |-> NoPlan]
    /\ schema = FALSE
    /\ lock = "free"
    /\ attempt = [p \in Attempts |-> Idle]
    /\ client = [live |-> TRUE, old |-> TRUE, starts |-> 0, open |-> [f \in CacheFiles |-> Closed]]
    /\ stamps = [used |-> 1, old |-> {1}]
    /\ deaths = 0
    /\ raced = FALSE

-----------------------------------------------------------------------------
(* The clients of the rootfs.  A client opens a cache file, creates it when  *)
(* it is absent, and appends to what it has open wherever that was moved to. *)

ClientStart ==
    /\ ~client.live /\ client.starts < MaxStarts
    /\ client' = [client EXCEPT !.live = TRUE, !.old = FALSE, !.starts = @ + 1]
    /\ UNCHANGED <<cache, archive, journal, history, schema, lock, attempt, stamps, deaths, raced>>

ClientOpen(f) ==
    /\ client.live /\ cache[f] # 0 /\ client.open[f] # InCache
    /\ client' = [client EXCEPT !.open[f] = InCache]
    /\ UNCHANGED <<cache, archive, journal, history, schema, lock, attempt, stamps, deaths, raced>>

\* Appending to a library of the old compiler leaves the old code in it.
Stamped(before) ==
    LET new == stamps.used + 1
    IN  [used |-> new,
         old |-> IF before \in stamps.old \/ client.old THEN stamps.old \cup {new} ELSE stamps.old]

ClientWrite(f) ==
    /\ client.live /\ stamps.used < MaxStamp
    /\ \/ /\ client.open[f] = InCache \/ (client.open[f] = Closed /\ cache[f] = 0)
          /\ stamps' = Stamped(cache[f])
          /\ cache' = [cache EXCEPT ![f] = stamps'.used]
          /\ client' = [client EXCEPT !.open[f] = InCache]
          /\ UNCHANGED <<archive, raced>>
       \/ \E g \in Generations :
            /\ client.open[f] = Archived(g)
            /\ stamps' = Stamped(archive[g][f])
            /\ archive' = [archive EXCEPT ![g][f] = stamps'.used]
            /\ raced' = TRUE
            /\ UNCHANGED <<cache, client>>
    /\ UNCHANGED <<journal, history, schema, lock, attempt, deaths>>

ClientExit ==
    /\ client.live
    /\ client' = [client EXCEPT !.live = FALSE, !.open = [f \in CacheFiles |-> Closed]]
    /\ UNCHANGED <<cache, archive, journal, history, schema, lock, attempt, stamps, deaths, raced>>

-----------------------------------------------------------------------------
(* One attempt.  Busy and MigrationError end it; the next one starts over.   *)

Goto(p, pc) == attempt' = [attempt EXCEPT ![p].pc = pc]

\* The attempt returns; its lock descriptor is closed.
Ends(p) ==
    /\ attempt' = [attempt EXCEPT ![p] = Idle]
    /\ lock' = IF lock = p THEN "free" ELSE lock

\* A MigrationError: nothing a later attempt finds changed will clear it.
Refuses(p) ==
    /\ attempt' = [attempt EXCEPT ![p] = [Idle EXCEPT !.pc = "refused"]]
    /\ lock' = IF lock = p THEN "free" ELSE lock

(* Mutant: the process inventory matches no client. *)
NoneLive == FALSE

\* The process inventory: some process has the rootfs as its root directory.
live_chroot_processes == client.live

Begin(p) ==
    /\ attempt[p].pc \in {"idle", "refused"} /\ ~schema
    /\ ~live_chroot_processes
    /\ Goto(p, "lock")
    /\ UNCHANGED <<cache, archive, journal, history, schema, lock, client, stamps, deaths, raced>>

(* Mutant: the lock is taken shared. *)
LockShared == TRUE

LockGranted == lock = "free"

TryLock(p) ==
    /\ attempt[p].pc = "lock"
    /\ \/ LockGranted /\ lock' = p /\ Goto(p, "recheck")
       \/ ~LockGranted /\ Ends(p)
    /\ UNCHANGED <<cache, archive, journal, history, schema, client, stamps, deaths, raced>>

\* Under the lock the schema and the clients are looked at again; a first
\* attempt then plans for what the caches hold.
candidates == cache

Recheck(p) ==
    /\ attempt[p].pc = "recheck"
    /\ \/ /\ schema \/ live_chroot_processes
          /\ Ends(p)
       \/ /\ ~schema /\ ~live_chroot_processes
          /\ attempt' = [attempt EXCEPT
                           ![p].pc = IF journal.published THEN "refresh" ELSE "publish",
                           ![p].plan = [generation |-> 0, files |-> candidates, published |-> TRUE]]
          /\ UNCHANGED lock
    /\ UNCHANGED <<cache, archive, journal, history, schema, client, stamps, deaths, raced>>

Publish(p) ==
    /\ attempt[p].pc = "publish"
    /\ journal' = attempt[p].plan
    /\ Goto(p, IF journal.published THEN "retire" ELSE "refresh")
    /\ UNCHANGED <<cache, archive, history, schema, lock, client, stamps, deaths, raced>>

Planned(plan) == {f \in CacheFiles : plan.files[f] # 0}
RetiredBy(plan) == {f \in Planned(plan) : archive[plan.generation][f] # 0}

\* A retired file must still be what the plan says it was.
ArchiveTampered(plan) ==
    \E f \in RetiredBy(plan) : archive[plan.generation][f] # plan.files[f]

(* Mutant: an interrupted plan is always resumed as it stands. *)
PlanNeverStale(plan) == FALSE

\* A file came back, changed or vanished, or is in no plan yet.
PlanStale(plan) ==
    \/ \E f \in RetiredBy(plan) : cache[f] # 0
    \/ \E f \in Planned(plan) \ RetiredBy(plan) : cache[f] # plan.files[f]
    \/ \E f \in CacheFiles : cache[f] # 0 /\ f \notin Planned(plan) \ RetiredBy(plan)

(* Mutant: the new plan keeps the generation, and the archive, of the old. *)
SameGeneration(g) == g

NextGeneration(g) == g + 1

(* Mutant: the old plan is not written down before it is replaced. *)
HistoryLater(plan) == history

\* The old plan's copy, written before its replacement is published.
HistoryWith(plan) ==
    IF history[plan.generation].published THEN history
    ELSE [history EXCEPT ![plan.generation] = plan]

\* refresh_generation: a plan the caches have overtaken is kept as history and
\* a plan for what is there now takes its place.
refresh_generation(p) ==
    /\ attempt[p].pc = "refresh"
    /\ \/ /\ ArchiveTampered(journal) /\ Refuses(p) /\ UNCHANGED history
       \/ /\ ~ArchiveTampered(journal) /\ ~PlanStale(journal)
          /\ Goto(p, "retire")
          /\ UNCHANGED <<history, lock>>
       \/ /\ ~ArchiveTampered(journal) /\ PlanStale(journal)
          /\ \/ /\ journal.generation >= MaxGeneration /\ Ends(p) /\ UNCHANGED history
             \/ /\ journal.generation < MaxGeneration
                /\ history[journal.generation].published
                /\ history[journal.generation] # journal
                /\ Refuses(p) /\ UNCHANGED history
             \/ /\ journal.generation < MaxGeneration
                /\ history[journal.generation].published => history[journal.generation] = journal
                /\ history' = HistoryWith(journal)
                /\ attempt' = [attempt EXCEPT
                     ![p].pc = "publish",
                     ![p].plan = [generation |-> NextGeneration(journal.generation),
                                  files |-> candidates, published |-> TRUE]]
                /\ UNCHANGED lock
    /\ UNCHANGED <<cache, archive, journal, schema, client, stamps, deaths, raced>>

\* One entry of the plan: retired already, or still exactly as planned.
CheckEntry(p, f) ==
    LET retired == archive[journal.generation][f]
        expected == journal.files[f]
    IN  /\ attempt[p].pc = "retire" /\ attempt[p].todo = {} /\ f \in Planned(journal)
        /\ \/ /\ retired # 0 /\ retired # expected /\ Refuses(p)
           \/ /\ retired = expected /\ cache[f] # 0 /\ Ends(p)
           \/ /\ retired = 0 /\ cache[f] # expected /\ Ends(p)
           \/ /\ retired = 0 /\ cache[f] = expected
              /\ attempt' = [attempt EXCEPT ![p].todo = {f}]
              /\ UNCHANGED lock
        /\ UNCHANGED <<cache, archive, journal, history, schema, client, stamps, deaths, raced>>

\* The rename takes whatever has the name by now, and open descriptors with it.
Rename(p, f) ==
    /\ attempt[p].pc = "retire" /\ f \in attempt[p].todo
    /\ \/ cache[f] = 0 /\ Ends(p) /\ UNCHANGED <<cache, archive, client, raced>>
       \/ /\ cache[f] # 0
          /\ cache' = [cache EXCEPT ![f] = 0]
          /\ archive' = [archive EXCEPT ![journal.generation][f] = cache[f]]
          /\ client' = [client EXCEPT !.open[f] =
                           IF @ = InCache THEN Archived(journal.generation) ELSE @]
          /\ raced' = (raced \/ client.live \/ cache[f] # journal.files[f])
          /\ IF cache[f] = journal.files[f]
             THEN attempt' = [attempt EXCEPT ![p].todo = {}] /\ UNCHANGED lock
             ELSE Refuses(p)
    /\ UNCHANGED <<journal, history, schema, stamps, deaths>>

\* Every entry is retired: no cache may have appeared meanwhile.
FinalInventory(p) ==
    /\ attempt[p].pc = "retire" /\ attempt[p].todo = {}
    /\ \A f \in Planned(journal) :
         archive[journal.generation][f] = journal.files[f] /\ cache[f] = 0
    /\ \/ candidates # NoFiles /\ Ends(p)
       \/ candidates = NoFiles /\ Goto(p, "commit") /\ UNCHANGED lock
    /\ UNCHANGED <<cache, archive, journal, history, schema, client, stamps, deaths, raced>>

Commit(p) ==
    /\ attempt[p].pc = "commit"
    /\ schema' = (schema \/ ~live_chroot_processes)
    /\ Ends(p)
    /\ UNCHANGED <<cache, archive, journal, history, client, stamps, deaths, raced>>

Dies(p) ==
    /\ attempt[p].pc \notin {"idle", "refused"} /\ deaths < MaxDeaths
    /\ deaths' = deaths + 1
    /\ Ends(p)
    /\ UNCHANGED <<cache, archive, journal, history, schema, client, stamps, raced>>

AttemptStep(p) ==
    \/ Begin(p) \/ TryLock(p) \/ Recheck(p) \/ Publish(p) \/ refresh_generation(p)
    \/ \E f \in CacheFiles : CheckEntry(p, f) \/ Rename(p, f)
    \/ FinalInventory(p) \/ Commit(p)

CacheNext ==
    \/ \E p \in Attempts : AttemptStep(p) \/ Dies(p)
    \/ ClientStart \/ ClientExit
    \/ \E f \in CacheFiles : ClientOpen(f) \/ ClientWrite(f)

CacheSpec == CacheInit /\ [][CacheNext]_cacheVars

-----------------------------------------------------------------------------

(* The schema is only committed once no library of the old compiler can be   *)
(* read from a cache any more, and none comes back: whoever was running,     *)
(* whichever attempt died, and whatever was written in between.              *)
CurrentMeansRetired == schema => \A f \in CacheFiles : cache[f] \notin stamps.old

(* "Existing archives are immutable": no attempt replaces a file that an     *)
(* attempt retired before; only a client that kept it open changes it.       *)
ArchivesKept ==
    \A g \in Generations, f \in CacheFiles :
        archive[g][f] # 0 /\ archive'[g][f] # archive[g][f] => client.open[f] = Archived(g)

(* Every generation that was abandoned left its plan behind as the receipt   *)
(* of what it had retired, also when the attempt died between the two        *)
(* commits.                                                                  *)
ReceiptsKept ==
    \A g \in Generations :
        /\ g < journal.generation => history[g].published
        /\ ~raced => \A f \in CacheFiles :
              archive[g][f] # 0 =>
                  \/ history[g].published /\ history[g].files[f] = archive[g][f]
                  \/ journal.generation = g /\ journal.files[f] = archive[g][f]

(* Without a client that writes under the migration's hands, no sequence of  *)
(* deaths, writers and overlapping attempts makes a later attempt refuse.    *)
OnlyRacesRefuse == ~raced => \A p \in Attempts : attempt[p].pc # "refused"

(* A writer after an interrupted migration does not poison the restarts:     *)
(* once no client runs the revision is reached in the end, or a client raced *)
(* with a rename.                                                            *)
EventuallyCurrent == ~client.live ~> (schema \/ raced \/ journal.generation = MaxGeneration)

(* The migration is safe to kill, to repeat and to run twice: what it      *)
(* commits is so, what it retired stays recorded and untouched, and only a *)
(* racing client makes it refuse.                                          *)
MigrationSound ==
    [][CurrentMeansRetired' /\ ReceiptsKept' /\ OnlyRacesRefuse' /\ ArchivesKept]_cacheVars
=============================================================================
