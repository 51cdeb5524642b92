---------------------------- MODULE SteamSemNames ----------------------------
(***************************************************************************)
(* The namespace of Steam named semaphores.                                *)
(*                                                                         *)
(* The broker (macwshostd/main.m) maps names to generations and counts the *)
(* references to each one; a client (MacWSSteamNamedSemaphore.c) keeps a   *)
(* table of handles that its threads share, and receipts of the names they *)
(* unlinked.  sem_open, sem_close and sem_unlink are sequences of broker   *)
(* requests and of critical sections on these tables; the broker serves    *)
(* requests on one serial queue, so a request is one action.               *)
(***************************************************************************)
EXTENDS Naturals, FiniteSets, FiniteSetsExt

CONSTANTS
    Threads,
    ProcessOf,        \* thread -> its process
    EpochOf,          \* process -> the launch it belongs to
    Names,
    Flags,            \* flags of sem_open, among OpenFlags
    ReceiptSlots,     \* MACWS_STEAM_UNLINK_RECEIPT_CAPACITY (64)
    MaxGeneration,    \* bound: generations ever created
    MaxFaults,        \* bound: failed system calls and requests
    MaxKills,         \* bound: processes killed
    MaxRestarts,      \* bound: restarts of macwshostd
    NoThread

OpenFlags == {"open", "create", "excl"}  \* 0, O_CREAT, O_CREAT|O_EXCL
Processes == {ProcessOf[t] : t \in Threads}
Generations == 1 .. MaxGeneration
HandleIDs == 1 .. Cardinality(Threads)
Slots == 1 .. ReceiptSlots

ASSUME NamesAssumption ==
    /\ IsFiniteSet(Threads) /\ NoThread \notin Threads
    /\ ProcessOf \in [Threads -> Processes]
    /\ EpochOf \in [Processes -> Nat \ {0}]
    /\ Flags \subseteq OpenFlags
    /\ ReceiptSlots \in Nat \ {0} /\ MaxGeneration \in Nat
    /\ MaxFaults \in Nat /\ MaxKills \in Nat /\ MaxRestarts \in Nat

VARIABLES
    names,      \* gSteamSemaphoreNames: name -> generation, 0 if none
    table,      \* keys of gSteamSemaphoreGenerations
    references, \* generation -> entry->references
    retired,    \* generations of the table with entry->unlinked
    expected,   \* gSteamSemaphoreUnlinkReceipts: name -> generation or 0
    next,       \* gSteamSemaphoreNextGeneration
    epoch,      \* gSteamSemaphoreEpoch, 0 if none
    files,      \* generations whose state file has a path
    pc, call,   \* threads: position in the current call, its locals
    mine,       \* thread -> handle it has open, 0 if none
    handles,    \* gMacWSSteamSemaphoreHandles of all processes
    receipts,   \* process -> gMacWSSteamUnlinkReceipts
    once,       \* process -> outcome of gMacWSSteamBrokerResetOnce
    clock,      \* time stamps of receipts
    birth,      \* ghost: generation -> launch that created it
    unlinker,   \* ghost: name -> thread of its latest unlink
    leaked,     \* ghost: generation -> references nobody will give back
    faults, kills, restarts

broker == <<names, table, references, retired, expected, next, epoch, files>>
threads == <<pc, call, mine>>
client == <<handles, receipts, once, clock>>
ghosts == <<birth, unlinker, leaked>>
bounds == <<faults, kills, restarts>>
vars == <<broker, threads, client, ghosts, bounds>>

PCs == {"idle", "once", "request", "lookup", "open", "insert", "reuse",
        "cleanup", "drop", "closing", "unlink", "record", "dead"}
Owning == {"lookup", "open", "insert", "reuse", "cleanup", "drop", "closing"}

Call == [name : Names \cup {0}, flags : OpenFlags \cup {"none"},
         receipt : 0 .. MaxGeneration, gen : 0 .. MaxGeneration,
         created : BOOLEAN]
NoCall == [name |-> 0, flags |-> "none", receipt |-> 0, gen |-> 0,
           created |-> FALSE]
Handle == [process : Processes, name : Names, gen : Generations,
           referenceCount : HandleIDs, unlinked : BOOLEAN]
NoHandle == [gen |-> 0]
Receipt == [gen : Generations, thread : Threads, name : Names, at : Nat]
NoReceipt == [gen |-> 0]

TypeOK ==
    /\ names \in [Names -> 0 .. MaxGeneration]
    /\ table \subseteq Generations /\ retired \subseteq table
    /\ references \in [Generations -> Nat]
    /\ expected \in [Names -> 0 .. MaxGeneration]
    /\ next \in 0 .. MaxGeneration
    /\ epoch \in {0} \cup {EpochOf[p] : p \in Processes}
    /\ files \subseteq Generations
    /\ pc \in [Threads -> PCs] /\ call \in [Threads -> Call]
    /\ mine \in [Threads -> HandleIDs \cup {0}]
    /\ handles \in [HandleIDs -> Handle \cup {NoHandle}]
    /\ receipts \in [Processes -> [Slots -> Receipt \cup {NoReceipt}]]
    /\ once \in [Processes -> {"no", "ok", "failed"}]
    /\ clock \in Nat
    /\ birth \in [Generations -> {0} \cup {EpochOf[p] : p \in Processes}]
    /\ unlinker \in [Names -> Threads \cup {NoThread}]
    /\ leaked \in [Generations -> Nat]
    /\ faults \in 0 .. MaxFaults /\ kills \in 0 .. MaxKills
    /\ restarts \in 0 .. MaxRestarts

Init ==
    /\ names = [n \in Names |-> 0] /\ table = {} /\ retired = {}
    /\ references = [g \in Generations |-> 0]
    /\ expected = [n \in Names |-> 0]
    /\ next = 0 /\ epoch = 0 /\ files = {}
    /\ pc = [t \in Threads |-> "idle"] /\ call = [t \in Threads |-> NoCall]
    /\ mine = [t \in Threads |-> 0]
    /\ handles = [h \in HandleIDs |-> NoHandle]
    /\ receipts = [p \in Processes |-> [i \in Slots |-> NoReceipt]]
    /\ once = [p \in Processes |-> "no"] /\ clock = 0
    /\ birth = [g \in Generations |-> 0]
    /\ unlinker = [n \in Names |-> NoThread]
    /\ leaked = [g \in Generations |-> 0]
    /\ faults = 0 /\ kills = 0 /\ restarts = 0

-----------------------------------------------------------------------------
(* Threads.                                                                *)

Goto(t, label) == pc' = [pc EXCEPT ![t] = label]
Return(t) == Goto(t, "idle") /\ call' = [call EXCEPT ![t] = NoCall]

(* A launch starts once the previous one has exited (run_steam_live.sh).   *)
Launched(p) ==
    \A t \in Threads : EpochOf[ProcessOf[t]] < EpochOf[p] => pc[t] = "dead"

Idle(t) == pc[t] = "idle" /\ Launched(ProcessOf[t])

Fault == faults < MaxFaults /\ faults' = faults + 1

-----------------------------------------------------------------------------
(* Unlink receipts of a process.                                           *)

(* MacWSSteamRecordUnlinkReceipt: the first slot that is free or holds the *)
(* thread's receipt for the name, else the oldest.                         *)
ReceiptSlot(t, n) ==
    LET own == receipts[ProcessOf[t]]
        usable == {i \in Slots : \/ own[i] = NoReceipt
                                 \/ own[i].thread = t /\ own[i].name = n}
    IN  IF usable # {} THEN Min(usable)
        ELSE CHOOSE i \in Slots : \A j \in Slots : own[i].at <= own[j].at

RecordUnlinkReceipt(t, n, g) ==
    /\ receipts' = [receipts EXCEPT ![ProcessOf[t]][ReceiptSlot(t, n)] =
                       [gen |-> g, thread |-> t, name |-> n, at |-> clock]]
    /\ clock' = clock + 1

(* Mutant: any thread of the process may use the receipt.                  *)
AnyReceipts(t, n) ==
    {i \in Slots : /\ receipts[ProcessOf[t]][i] # NoReceipt
                   /\ receipts[ProcessOf[t]][i].name = n}

(* The slots of the receipts a thread owns for a name.                     *)
OwnReceipts(t, n) ==
    {i \in Slots : /\ receipts[ProcessOf[t]][i] # NoReceipt
                   /\ receipts[ProcessOf[t]][i].thread = t
                   /\ receipts[ProcessOf[t]][i].name = n}

(* MacWSSteamConsumeUnlinkReceipt: the first such receipt is cleared; it   *)
(* counts only within 2 s, a choice here.                                  *)
ConsumeUnlinkReceipt(t, n, receipt) ==
    LET own == OwnReceipts(t, n)
    IN  IF own = {} THEN receipt = 0 /\ UNCHANGED receipts
        ELSE LET i == Min(own)
             IN  /\ receipt \in {0, receipts[ProcessOf[t]][i].gen}
                 /\ receipts' = [receipts EXCEPT ![ProcessOf[t]][i] = NoReceipt]

-----------------------------------------------------------------------------
(* sem_open up to the broker's answer.                                     *)

SemOpen(t, n, f) ==
    /\ Idle(t) /\ mine[t] = 0
    /\ \E receipt \in 0 .. MaxGeneration :
         /\ IF f = "excl" THEN ConsumeUnlinkReceipt(t, n, receipt)
            ELSE receipt = 0 /\ UNCHANGED receipts
         /\ call' = [call EXCEPT ![t] = [NoCall EXCEPT !.name = n, !.flags = f,
                                                       !.receipt = receipt]]
    /\ Goto(t, "once")
    /\ UNCHANGED <<broker, mine, handles, once, clock, ghosts, bounds>>

(* Mutant: the names survive.                                              *)
ResetKeepsNames(e) ==
    /\ expected' = [n \in Names |-> 0] /\ epoch' = e
    /\ UNCHANGED <<names, table, retired, references, files, next>>

(* The broker forgets everything when a launch it does not know resets it. *)
ResetNamespace(e) ==
    IF epoch = e
    THEN UNCHANGED broker
    ELSE /\ names' = [n \in Names |-> 0] /\ expected' = [n \in Names |-> 0]
         /\ table' = {} /\ retired' = {}
         /\ references' = [g \in Generations |-> 0]
         /\ files' = files \ table
         /\ epoch' = e /\ UNCHANGED next

(* pthread_once around MacWSSteamSemaphoreResetBroker; its error sticks.   *)
ResetBroker(t) ==
    /\ pc[t] = "once" /\ once[ProcessOf[t]] = "no"
    /\ ResetNamespace(EpochOf[ProcessOf[t]])
    /\ once' = [once EXCEPT ![ProcessOf[t]] = "ok"]
    /\ Goto(t, "request")
    /\ UNCHANGED <<call, mine, handles, receipts, clock, ghosts, bounds>>

ResetFails(t) ==
    /\ pc[t] = "once" /\ once[ProcessOf[t]] = "no" /\ Fault
    /\ once' = [once EXCEPT ![ProcessOf[t]] = "failed"]
    /\ Return(t)
    /\ UNCHANGED <<broker, mine, handles, receipts, clock, ghosts, kills,
                   restarts>>

ResetDone(t) ==
    /\ pc[t] = "once" /\ once[ProcessOf[t]] # "no"
    /\ IF once[ProcessOf[t]] = "ok"
       THEN Goto(t, "request") /\ UNCHANGED call ELSE Return(t)
    /\ UNCHANGED <<broker, mine, client, ghosts, bounds>>

(* The broker answers OPEN or RECREATE with an error: ESTALE for a receipt *)
(* that is not that of the latest unlink, EEXIST, ENOENT.                  *)
Refused(c) ==
    \/ c.receipt # 0 /\ c.receipt # expected[c.name]
    \/ c.receipt = 0 /\ c.flags = "excl" /\ names[c.name] # 0
    \/ c.flags = "open" /\ names[c.name] = 0

ServeRefusal(t) ==
    /\ pc[t] = "request" /\ Refused(call[t])
    /\ Return(t)
    /\ UNCHANGED <<broker, mine, client, ghosts, bounds>>

(* The answer to a successful OPEN or RECREATE.                            *)
Answer(t, g, created) ==
    /\ Goto(t, "lookup")
    /\ call' = [call EXCEPT ![t].gen = g, ![t].created = created]

ServeJoin(t) ==
    LET c == call[t]
        g == names[c.name]
    IN  /\ pc[t] = "request" /\ ~Refused(c) /\ c.receipt = 0 /\ g # 0
        /\ references' = [references EXCEPT ![g] = @ + 1]
        /\ Answer(t, g, FALSE)
        /\ UNCHANGED <<names, table, retired, expected, next, epoch, files,
                       mine, client, ghosts, bounds>>

(* Mutant: entries are destroyed with their references.                    *)
DestroyedAlways(n) == {names[n]} \ {0}

(* The generation a name refers to stays in the table while referenced.    *)
Destroyed(n) == {g \in {names[n]} : g # 0 /\ references[g] = 0}
Kept(n) == {g \in {names[n]} : g # 0 /\ references[g] # 0}

Creating(t) ==
    /\ pc[t] = "request" /\ ~Refused(call[t])
    /\ call[t].receipt # 0 \/ names[call[t].name] = 0
    /\ next < MaxGeneration

(* A recreate uses up the receipt and retires the racing opener's name.    *)
ConsumeExpected(c) ==
    expected' = IF c.receipt = 0 THEN expected
                ELSE [expected EXCEPT ![c.name] = 0]

ServeCreate(t) ==
    LET c == call[t]
        n == c.name
        g == next + 1
    IN  /\ Creating(t)
        /\ next' = g
        /\ ConsumeExpected(c)
        /\ names' = [names EXCEPT ![n] = g]
        /\ table' = (table \ Destroyed(n)) \cup {g}
        /\ retired' = retired \cup Kept(n)
        /\ files' = (files \ {names[n]}) \cup {g}
        /\ references' = [references EXCEPT ![g] = 1]
        /\ birth' = [birth EXCEPT ![g] = EpochOf[ProcessOf[t]]]
        /\ Answer(t, g, TRUE)
        /\ UNCHANGED <<epoch, mine, client, unlinker, leaked, bounds>>

(* CreateSteamSemaphoreState fails, after the racing name was retired.     *)
ServeCreateFails(t) ==
    LET c == call[t]
        n == c.name
    IN  /\ Creating(t) /\ Fault
        /\ next' = next + 1
        /\ ConsumeExpected(c)
        /\ names' = [names EXCEPT ![n] = 0]
        /\ table' = table \ Destroyed(n)
        /\ retired' = retired \cup Kept(n)
        /\ files' = files \ {names[n]}
        /\ Return(t)
        /\ UNCHANGED <<references, epoch, mine, client, ghosts, kills, restarts>>

-----------------------------------------------------------------------------
(* sem_open with a generation in hand.                                     *)

(* MacWSSteamSemaphoreFindReusableLocked.                                  *)
Candidates(p, c) ==
    {h \in HandleIDs : /\ handles[h] # NoHandle /\ handles[h].process = p
                       /\ handles[h].name = c.name /\ handles[h].gen = c.gen
                       /\ ~handles[h].unlinked}

(* Mutant: the handle of another thread is not looked for.                 *)
FindNothing(p, c) == {}

FindReusable(p, c) == {h \in Candidates(p, c) : c.gen \in files}

(* Mutant: the open that found a handle keeps its own reference too.       *)
ReuseUnclosed(t) ==
    \E h \in FindReusable(ProcessOf[t], call[t]) :
      /\ handles' = [handles EXCEPT ![h].referenceCount = @ + 1]
      /\ mine' = [mine EXCEPT ![t] = h]
      /\ Return(t)
      /\ UNCHANGED <<broker, receipts, once, clock, ghosts, bounds>>

(* It takes a reference to a handle, or marks those whose file is gone.    *)
Reuse(t) ==
    \E h \in FindReusable(ProcessOf[t], call[t]) :
      /\ handles' = [handles EXCEPT ![h].referenceCount = @ + 1]
      /\ mine' = [mine EXCEPT ![t] = h]
      /\ Goto(t, "reuse")
      /\ UNCHANGED <<broker, call, receipts, once, clock, ghosts, bounds>>

MarkGone(t) ==
    [h \in HandleIDs |-> IF h \in Candidates(ProcessOf[t], call[t])
                         THEN [handles[h] EXCEPT !.unlinked = TRUE]
                         ELSE handles[h]]

LookupReuse(t) == pc[t] = "lookup" /\ Reuse(t)

LookupNone(t) ==
    /\ pc[t] = "lookup" /\ FindReusable(ProcessOf[t], call[t]) = {}
    /\ handles' = MarkGone(t)
    /\ Goto(t, "open")
    /\ UNCHANGED <<broker, call, mine, receipts, once, clock, ghosts, bounds>>

(* The error paths: who created the generation first unlinks its name.     *)
Abandon(t) == Goto(t, IF call[t].created THEN "cleanup" ELSE "drop")

OpenFile(t) ==
    /\ pc[t] = "open"
    /\ IF call[t].gen \in files THEN Goto(t, "insert") ELSE Abandon(t)
    /\ UNCHANGED <<broker, call, mine, client, ghosts, bounds>>

(* open, flock, the read of the state or calloc fails.                     *)
OpenFileFails(t) ==
    /\ pc[t] = "open" /\ Fault
    /\ Abandon(t)
    /\ UNCHANGED <<broker, call, mine, client, ghosts, kills, restarts>>

InsertReuse(t) == pc[t] = "insert" /\ Reuse(t)

InsertNew(t) ==
    LET c == call[t]
        p == ProcessOf[t]
        h == Min({i \in HandleIDs : handles[i] = NoHandle})
    IN  /\ pc[t] = "insert" /\ FindReusable(p, c) = {}
        /\ handles' = [MarkGone(t) EXCEPT ![h] =
                         [process |-> p, name |-> c.name, gen |-> c.gen,
                          referenceCount |-> 1, unlinked |-> FALSE]]
        /\ mine' = [mine EXCEPT ![t] = h]
        /\ Return(t)
        /\ UNCHANGED <<broker, receipts, once, clock, ghosts, bounds>>

-----------------------------------------------------------------------------
(* sem_close and the broker's CLOSE.                                       *)

SemClose(t) ==
    LET h == mine[t]
    IN  /\ Idle(t) /\ h # 0
        /\ mine' = [mine EXCEPT ![t] = 0]
        /\ IF handles[h].referenceCount > 1
           THEN /\ handles' = [handles EXCEPT ![h].referenceCount = @ - 1]
                /\ UNCHANGED <<pc, call>>
           ELSE /\ handles' = [handles EXCEPT ![h] = NoHandle]
                /\ Goto(t, "closing")
                /\ call' = [call EXCEPT ![t].gen = handles[h].gen]
        /\ UNCHANGED <<broker, receipts, once, clock, ghosts, bounds>>

(* Closes after a reuse, after a failure and of the last handle.           *)
Closes(t) == pc[t] \in {"reuse", "drop", "closing"}

(* Mutant: any close destroys an unlinked generation.                      *)
DropDestroys(g) ==
    /\ references' = IF g \notin table \/ references[g] = 0 THEN references
                     ELSE [references EXCEPT ![g] = @ - 1]
    /\ table' = table \ (retired \cap {g})
    /\ retired' = retired \ {g}

(* Mutant: unlinked generations are not destroyed by their last close.     *)
DropKeepsEntry(g) ==
    /\ references' = IF g \notin table \/ references[g] = 0 THEN references
                     ELSE [references EXCEPT ![g] = @ - 1]
    /\ UNCHANGED <<table, retired>>

DropReference(g) ==
    IF g \notin table \/ references[g] = 0
    THEN UNCHANGED <<table, retired, references>>
    ELSE LET gone == {i \in {g} : i \in retired /\ references[i] = 1}
         IN  /\ references' = [references EXCEPT ![g] = @ - 1]
             /\ table' = table \ gone
             /\ retired' = retired \ gone

ServeClose(t) ==
    /\ Closes(t)
    /\ DropReference(call[t].gen)
    /\ Return(t)
    /\ UNCHANGED <<names, expected, next, epoch, files, mine, client, ghosts,
                   bounds>>

-----------------------------------------------------------------------------
(* sem_unlink and the broker's UNLINK.                                     *)

SemUnlink(t, n) ==
    /\ Idle(t)
    /\ Goto(t, "unlink")
    /\ call' = [call EXCEPT ![t].name = n]
    /\ UNCHANGED <<broker, mine, client, ghosts, bounds>>

(* A successful unlink; by a sem_unlink call or by sem_open's error path.  *)
ServeUnlink(t) ==
    LET n == call[t].name
        g == names[n]
    IN  /\ pc[t] \in {"unlink", "cleanup"} /\ g # 0
        /\ names' = [names EXCEPT ![n] = 0]
        /\ expected' = [expected EXCEPT ![n] = g]
        /\ table' = table \ Destroyed(n)
        /\ retired' = retired \cup Kept(n)
        /\ files' = files \ {g}
        /\ unlinker' = [unlinker EXCEPT
                          ![n] = IF pc[t] = "unlink" THEN t ELSE NoThread]
        /\ IF pc[t] = "unlink"
           THEN Goto(t, "record") /\ call' = [call EXCEPT ![t].gen = g]
           ELSE Goto(t, "drop") /\ UNCHANGED call
        /\ UNCHANGED <<references, next, epoch, mine, client, birth, leaked,
                       bounds>>

ServeUnlinkMissing(t) ==
    /\ pc[t] \in {"unlink", "cleanup"} /\ names[call[t].name] = 0
    /\ IF pc[t] = "unlink" THEN Return(t) ELSE Goto(t, "drop") /\ UNCHANGED call
    /\ UNCHANGED <<broker, mine, client, ghosts, bounds>>

(* The receipt is recorded, then the process's handles are marked.         *)
UnlinkFinish(t) ==
    LET c == call[t]
    IN  /\ pc[t] = "record"
        /\ RecordUnlinkReceipt(t, c.name, c.gen)
        /\ handles' =
             [h \in HandleIDs |->
                IF /\ handles[h] # NoHandle /\ handles[h].gen = c.gen
                   /\ handles[h].process = ProcessOf[t]
                   /\ handles[h].name = c.name
                THEN [handles[h] EXCEPT !.unlinked = TRUE]
                ELSE handles[h]]
        /\ Return(t)
        /\ UNCHANGED <<broker, mine, once, ghosts, bounds>>

-----------------------------------------------------------------------------
(* Failures.                                                               *)

(* A request finds no broker: the call fails, a close leaks its reference. *)
RequestFails(t) ==
    /\ Fault
    /\ \/ /\ pc[t] \in {"request", "unlink"}
          /\ Return(t) /\ UNCHANGED leaked
       \/ /\ pc[t] = "cleanup"
          /\ Goto(t, "drop") /\ UNCHANGED <<call, leaked>>
       \/ /\ Closes(t)
          /\ leaked' = [leaked EXCEPT ![call[t].gen] = @ + 1]
          /\ Return(t)
    /\ UNCHANGED <<broker, mine, client, birth, unlinker, kills, restarts>>

(* References of process p that its death leaves at the broker.            *)
Orphans(p, g) ==
    Cardinality({h \in HandleIDs : /\ handles[h].gen = g
                                   /\ handles[h].process = p})
  + Cardinality({t \in Threads : /\ ProcessOf[t] = p /\ pc[t] \in Owning
                                 /\ call[t].gen = g})

(* A process exits or is killed; the broker does not notice.               *)
Exit(p) ==
    /\ kills < MaxKills /\ kills' = kills + 1
    /\ Launched(p) /\ \E t \in Threads : ProcessOf[t] = p /\ pc[t] # "dead"
    /\ leaked' = [g \in Generations |-> leaked[g] + Orphans(p, g)]
    /\ pc' = [t \in Threads |-> IF ProcessOf[t] = p THEN "dead" ELSE pc[t]]
    /\ call' = [t \in Threads |-> IF ProcessOf[t] = p THEN NoCall ELSE call[t]]
    /\ mine' = [t \in Threads |-> IF ProcessOf[t] = p THEN 0 ELSE mine[t]]
    /\ handles' = [h \in HandleIDs |->
                     IF handles[h] # NoHandle /\ handles[h].process = p
                     THEN NoHandle ELSE handles[h]]
    /\ receipts' = [receipts EXCEPT ![p] = [i \in Slots |-> NoReceipt]]
    /\ UNCHANGED <<broker, once, clock, birth, unlinker, faults, restarts>>

(* launchd restarts macwshostd with empty tables; generations start from a *)
(* random number, taken not to meet the old ones.                          *)
RestartBroker ==
    /\ restarts < MaxRestarts /\ restarts' = restarts + 1
    /\ names' = [n \in Names |-> 0] /\ expected' = [n \in Names |-> 0]
    /\ table' = {} /\ retired' = {}
    /\ references' = [g \in Generations |-> 0]
    /\ epoch' = 0
    /\ UNCHANGED <<next, files, threads, client, ghosts, faults, kills>>

-----------------------------------------------------------------------------
Open(t) ==
    \/ \E n \in Names, f \in Flags : SemOpen(t, n, f)
    \/ ResetBroker(t) \/ ResetFails(t) \/ ResetDone(t)
    \/ ServeRefusal(t) \/ ServeJoin(t) \/ ServeCreate(t) \/ ServeCreateFails(t)
    \/ LookupReuse(t) \/ LookupNone(t) \/ OpenFile(t) \/ OpenFileFails(t)
    \/ InsertReuse(t) \/ InsertNew(t)

Close(t) == SemClose(t) \/ ServeClose(t)

Unlink(t) ==
    \/ \E n \in Names : SemUnlink(t, n)
    \/ ServeUnlink(t) \/ ServeUnlinkMissing(t) \/ UnlinkFinish(t)

Next ==
    \/ \E t \in Threads : Open(t) \/ Close(t) \/ Unlink(t) \/ RequestFails(t)
    \/ \E p \in Processes : Exit(p)
    \/ RestartBroker

Spec == Init /\ [][Next]_vars

-----------------------------------------------------------------------------
(* Properties.                                                             *)

(* Handles and calls that own a reference to generation g.                 *)
Owners(g) ==
    Cardinality({h \in HandleIDs : handles[h].gen = g})
  + Cardinality({t \in Threads : pc[t] \in Owning /\ call[t].gen = g})

(* entry->references is the number of handles and of opens and closes in   *)
(* progress, plus what dead processes and failed closes left behind: no    *)
(* close is counted twice, no reuse or error path forgets its CLOSE.       *)
ReferencesExact ==
    \A g \in table : references[g] = Owners(g) + leaked[g]

(* "Broker generation IDs preserve sem_unlink lifetime until the final     *)
(* already-open handle closes": while a handle is open, its generation is  *)
(* in the broker's table, whoever unlinks, recreates or closes the name,   *)
(* as long as macwshostd itself has not restarted.                         *)
HandlesBacked ==
    restarts = 0 =>
      \A h \in HandleIDs : handles[h] # NoHandle => handles[h].gen \in table

(* Two sem_open calls of a process for a name that is still linked return  *)
(* the same handle, whichever thread inserts first.                        *)
OneHandlePerName ==
    \A g, h \in HandleIDs :
      /\ handles[g] # NoHandle /\ handles[h] # NoHandle
      /\ handles[g].process = handles[h].process
      /\ handles[g].gen = handles[h].gen /\ handles[g].gen \in files
      => g = h

(* A recreate that the broker is going to honour comes from the thread     *)
(* whose unlink was the latest of that name.                               *)
ReceiptsOwned ==
    \A t \in Threads :
      LET c == call[t]
      IN  /\ pc[t] = "request" /\ c.receipt # 0
          /\ c.receipt = expected[c.name]
          => unlinker[c.name] = t

(* A process never gets a semaphore that an earlier launch left behind.    *)
LaunchesIsolated ==
    \A h \in HandleIDs :
      handles[h] # NoHandle =>
        birth[handles[h].gen] = EpochOf[handles[h].process]

(* The broker's tables agree: a name refers to a generation that is in the *)
(* table with its file linked, and every other generation of the table is  *)
(* unlinked and still referenced, so that a close will destroy it.         *)
TablesAgree ==
    /\ \A n \in Names : names[n] # 0 => names[n] \in (table \cap files) \ retired
    /\ \A g \in table : \/ \E n \in Names : names[n] = g
                        \/ g \in retired /\ references[g] # 0

(* "Keep a short-lived, thread-owned receipt for each successful unlink so *)
(* the broker can complete that exact caller's replace": a thread that     *)
(* presents its receipt, with no later unlink of the name, is not refused. *)
ReplaceCompletes ==
    \A t \in Threads :
      LET c == call[t]
      IN  pc[t] = "request" /\ c.receipt # 0 /\ unlinker[c.name] = t
            => ~Refused(c)

(* What a process holds: one handle for each name that is linked, a        *)
(* generation behind every handle, and as many references as opens that    *)
(* were not closed, across reuses, failed opens and closes of others.      *)
HandlesSound == OneHandlePerName /\ HandlesBacked /\ ReferencesExact

(* What the broker keeps: tables that agree with each other, receipts      *)
(* that only their latest unlinker can present, and nothing of a launch    *)
(* that ended.                                                             *)
NamespaceSound == TypeOK /\ TablesAgree /\ ReceiptsOwned /\ LaunchesIsolated
=============================================================================
