------------------------ MODULE SteamSemNames_proofs ------------------------
(* Safety of the namespace of Steam named semaphores for any number of     *)
(* threads, processes, launches, names and receipts, and any failures,     *)
(* kills and restarts of the broker.                                       *)
EXTENDS SteamSemNames, FiniteSetTheorems, TLAPS

(* Where a thread is in a sem_open that got past the broker's reset, and   *)
(* in any call that still needs its name.                                  *)
Opening == {"lookup", "open", "insert"}
Admitted == Opening \cup {"request", "reuse", "cleanup", "drop"}
Naming == Opening \cup {"once", "request", "cleanup", "unlink", "record"}

Alive(p) == \E t \in Threads : ProcessOf[t] = p /\ pc[t] # "dead"

(* The threads that have handle h open; the handles and the calls that own *)
(* a reference to generation g.                                            *)
Users(h) == {t \in Threads : mine[t] = h}
HandlesOf(g) == {h \in HandleIDs : handles[h].gen = g}
CallsOf(g) == {t \in Threads : pc[t] \in Owning /\ call[t].gen = g}

(* The locals of a call are set where they are used, and only a process    *)
(* whose reset succeeded asks the broker for a name.                       *)
CallOK(t) ==
    /\ pc[t] \in {"idle", "dead"} => call[t] = NoCall
    /\ pc[t] \in Naming => call[t].name \in Names
    /\ pc[t] \in Owning \cup {"record"} => call[t].gen \in 1 .. next
    /\ pc[t] \in Admitted => once[ProcessOf[t]] = "ok"
    /\ pc[t] \in {"once", "request"} \cup Opening => mine[t] = 0
Calls == \A t \in Threads : CallOK(t)

(* A thread's handle is one of its process, and a handle counts the        *)
(* threads that have it open; a handle is marked only once its file is     *)
(* gone.                                                                   *)
MineOK(t) == mine[t] # 0 => /\ handles[mine[t]] # NoHandle
                            /\ handles[mine[t]].process = ProcessOf[t]
HandleOK(h) == handles[h] # NoHandle =>
                 /\ handles[h].referenceCount = Cardinality(Users(h))
                 /\ handles[h].unlinked => handles[h].gen \notin files
Handled == (\A t \in Threads : MineOK(t)) /\ (\A h \in HandleIDs : HandleOK(h))

(* Generations are numbered in the order they are created.                 *)
Numbered ==
    /\ \A n \in Names : names[n] <= next
    /\ \A g \in table \cup files : g <= next
    /\ \A h \in HandleIDs : handles[h].gen <= next
    /\ \A g \in Generations : g > next => leaked[g] = 0

(* Generation g was given to an opener of n; a generation has one name.    *)
Gives(n, g) ==
    \/ names[n] = g
    \/ \E h \in HandleIDs : /\ handles[h] # NoHandle
                            /\ handles[h].name = n /\ handles[h].gen = g
    \/ \E t \in Threads : pc[t] \in Opening /\ call[t].name = n /\ call[t].gen = g
OneName == \A m, n \in Names, g \in Generations : Gives(m, g) /\ Gives(n, g) => m = n

(* Thread t holds the receipt of the unlink that took g from n, or is      *)
(* about to record it or to present it.                                    *)
Holds(t, n, g) ==
    \/ \E p \in Processes, i \in Slots :
         /\ receipts[p][i] # NoReceipt /\ receipts[p][i].thread = t
         /\ receipts[p][i].name = n /\ receipts[p][i].gen = g
    \/ pc[t] \in {"once", "request"} /\ call[t].name = n /\ call[t].receipt = g
    \/ pc[t] = "record" /\ call[t].name = n /\ call[t].gen = g

(* A receipt names a generation that lost its file for good, and only the  *)
(* latest unlinker of a name holds the one that the broker expects.        *)
ReceiptsTrue ==
    \A t \in Threads, n \in Names, g \in Generations :
      Holds(t, n, g) =>
        g <= next /\ g \notin files /\ (expected[n] = g => unlinker[n] = t)

(* Launches follow each other, and the broker serves the latest one, or,   *)
(* once macwshostd has restarted, whichever asks.                          *)
Serves(p) == /\ epoch = EpochOf[p] \/ (epoch = 0 /\ restarts # 0)
             /\ \A n \in Names : names[n] # 0 => birth[names[n]] = EpochOf[p]
Launches ==
    /\ \A t \in Threads : pc[t] \notin {"idle", "dead"} => Launched(ProcessOf[t])
    /\ \A p \in Processes : once[p] = "ok" => Launched(p)
    /\ \A p \in Processes : once[p] = "ok" /\ Alive(p) => Serves(p)
    /\ \A n \in Names : epoch # 0 /\ names[n] # 0 => birth[names[n]] = epoch

(* What a live process holds was created by its own launch.                *)
Births ==
    /\ \A h \in HandleIDs : handles[h] # NoHandle =>
         /\ birth[handles[h].gen] = EpochOf[handles[h].process]
         /\ once[handles[h].process] = "ok" /\ Alive(handles[h].process)
    /\ \A t \in Threads :
         pc[t] \in Opening => birth[call[t].gen] = EpochOf[ProcessOf[t]]

(* Handles, and the calls that are about to make one, are backed.          *)
Backed ==
    restarts = 0 =>
      /\ \A h \in HandleIDs : handles[h] # NoHandle => handles[h].gen \in table
      /\ \A t \in Threads : pc[t] \in Opening => call[t].gen \in table

IInv ==
    /\ TypeOK /\ Calls /\ Handled /\ Numbered /\ OneName /\ TablesAgree
    /\ ReceiptsTrue /\ Launches /\ Births /\ ReferencesExact /\ Backed
    /\ OneHandlePerName

-----------------------------------------------------------------------------
(* Facts about numbers and small sets.                                     *)

(* A non-empty set of natural numbers has a least element.                 *)
LEMMA LeastNatural ==
    ASSUME NEW T \in SUBSET Nat, T # {}
    PROVE  \E n \in T : \A m \in T : n <= m
<1> DEFINE I == {0..n : n \in T}
<1>1. \A n \in T : 0..n \in SUBSET Nat /\ IsFiniteSet(0..n)
  BY FS_Interval
<1>2. I \subseteq FiniteSubsetsOf(Nat) /\ I # {}
  BY <1>1 DEF FiniteSubsetsOf
<1>3. PICK x \in I : \A y \in I : ~ (<<y, x>> \in StrictSubsetOrdering(Nat))
  <2> HIDE DEF I
  <2> QED BY <1>2, FS_StrictSubsetOrderingWellFounded, WFMin
<1>4. PICK n \in T : x = 0..n
  OBVIOUS
<1>5. ASSUME NEW m \in T, m < n PROVE FALSE
  <2>1. 0..m \in SUBSET Nat /\ 0..n \in SUBSET Nat /\ 0..m \subseteq 0..n
    BY <1>5
  <2>2. n \in 0..n /\ n \notin 0..m
    BY <1>5
  <2>3. <<0..m, 0..n>> \in StrictSubsetOrdering(Nat)
    BY <2>1, <2>2 DEF StrictSubsetOrdering
  <2> QED BY <1>3, <1>4, <2>3
<1> QED BY <1>5

LEMMA MinIsMember ==
    ASSUME NEW T \in SUBSET Nat, T # {}
    PROVE  Min(T) \in T
BY LeastNatural DEF Min

LEMMA SetsAreFinite ==
    /\ Cardinality(Threads) \in Nat /\ IsFiniteSet(HandleIDs)
    /\ HandleIDs \subseteq Nat \ {0} /\ Cardinality(HandleIDs) = Cardinality(Threads)
    /\ \A h : IsFiniteSet(Users(h)) /\ Cardinality(Users(h)) \in Nat
              /\ Cardinality(Users(h)) <= Cardinality(Threads)
    /\ \A g : /\ IsFiniteSet(HandlesOf(g)) /\ Cardinality(HandlesOf(g)) \in Nat
              /\ IsFiniteSet(CallsOf(g)) /\ Cardinality(CallsOf(g)) \in Nat
<1>1. Cardinality(Threads) \in Nat /\ IsFiniteSet(Threads)
  BY NamesAssumption, FS_CardinalityType
<1>2. IsFiniteSet(HandleIDs) /\ Cardinality(HandleIDs) = Cardinality(Threads)
  BY <1>1, FS_Interval DEF HandleIDs
<1>3. \A h : IsFiniteSet(Users(h)) /\ Cardinality(Users(h)) <= Cardinality(Threads)
  BY <1>1, FS_Subset DEF Users
<1>4. \A g : IsFiniteSet(HandlesOf(g)) /\ IsFiniteSet(CallsOf(g))
  BY <1>1, <1>2, FS_Subset DEF HandlesOf, CallsOf
<1>5. HandleIDs \subseteq Nat \ {0}
  BY <1>1 DEF HandleIDs
<1> QED BY <1>1, <1>2, <1>3, <1>4, <1>5, FS_CardinalityType

(* The record that stands for no handle is the one with generation 0.      *)
LEMMA HandleFields ==
    ASSUME TypeOK, NEW h \in HandleIDs
    PROVE  /\ handles[h] # NoHandle <=> handles[h].gen # 0
           /\ handles[h] # NoHandle => handles[h] \in Handle
           /\ handles[h].gen \in 0 .. MaxGeneration
BY NamesAssumption DEF TypeOK, Handle, NoHandle, Generations

(* There is a handle for a thread that has none: all the others together   *)
(* cannot have as many as there are threads.                               *)
LEMMA FreeHandle ==
    ASSUME TypeOK, Handled, NEW t \in Threads, mine[t] = 0
    PROVE  /\ Min({i \in HandleIDs : handles[i] = NoHandle}) \in HandleIDs
           /\ handles[Min({i \in HandleIDs : handles[i] = NoHandle})] = NoHandle
<1>1. \E i \in HandleIDs : handles[i] = NoHandle
  <2> SUFFICES ASSUME \A i \in HandleIDs : handles[i] # NoHandle PROVE FALSE
    OBVIOUS
  <2> DEFINE O == Threads \ {t}
             f == [i \in HandleIDs |-> CHOOSE s \in O : mine[s] = i]
  <2>1. \A i \in HandleIDs : \E s \in O : mine[s] = i
    <3> SUFFICES ASSUME NEW i \in HandleIDs PROVE \E s \in O : mine[s] = i
      OBVIOUS
    <3>1. handles[i].referenceCount # 0 /\ handles[i].referenceCount = Cardinality(Users(i))
      BY HandleFields, SetsAreFinite DEF Handled, HandleOK, Handle
    <3>2. Users(i) # {}
      BY <3>1, FS_EmptySet
    <3> QED BY <3>2, SetsAreFinite DEF Users
  <2>2. f \in [HandleIDs -> O] /\ \A i \in HandleIDs : mine[f[i]] = i
    BY <2>1
  <2>3. IsFiniteSet(O) /\ Cardinality(O) = Cardinality(Threads) - 1
    BY NamesAssumption, FS_RemoveElement
  <2> HIDE DEF O, f
  <2>4. Cardinality(O) < Cardinality(HandleIDs) /\ IsFiniteSet(HandleIDs)
    BY <2>3, SetsAreFinite
  <2>5. \E i, j \in HandleIDs : i # j /\ f[i] = f[j]
    BY <2>2, <2>3, <2>4, FS_PigeonHole
  <2> QED BY <2>2, <2>5
<1>2. {i \in HandleIDs : handles[i] = NoHandle} \in SUBSET Nat
  BY SetsAreFinite
<1> QED BY <1>1, <1>2, MinIsMember

-----------------------------------------------------------------------------
(* A step of one thread, and what it leaves alone.                         *)
Moves(t) == Open(t) \/ Close(t) \/ Unlink(t) \/ RequestFails(t)

LEMMA MoverOnly ==
    ASSUME TypeOK, NEW t \in Threads, Moves(t)
    PROVE  /\ pc[t] # "dead" /\ pc'[t] # "dead" /\ pc'[t] \in PCs
           /\ pc' = [pc EXCEPT ![t] = pc'[t]]
           /\ call' = [call EXCEPT ![t] = call'[t]]
           /\ mine' = [mine EXCEPT ![t] = mine'[t]]
<1> USE DEF Goto, Return, Idle, threads, client, ghosts, PCs
<1>t. /\ pc \in [Threads -> PCs] /\ call \in [Threads -> Call]
      /\ mine \in [Threads -> HandleIDs \cup {0}]
  BY DEF TypeOK
<1>1. CASE Open(t)
  BY <1>1, <1>t DEF Open, SemOpen, ResetBroker, ResetFails, ResetDone, ServeRefusal,
     ServeJoin, ServeCreate, ServeCreateFails, Answer, LookupReuse, Reuse,
     LookupNone, OpenFile, OpenFileFails, Abandon, InsertReuse, InsertNew, Creating
<1>2. CASE Close(t)
  BY <1>2, <1>t DEF Close, SemClose, ServeClose, Closes
<1>3. CASE Unlink(t)
  BY <1>3, <1>t DEF Unlink, SemUnlink, ServeUnlink, ServeUnlinkMissing, UnlinkFinish
<1>4. CASE RequestFails(t)
  BY <1>4, <1>t DEF RequestFails, Closes
<1> QED BY <1>1, <1>2, <1>3, <1>4 DEF Moves

LEMMA CallFields ==
    ASSUME TypeOK, NEW t \in Threads
    PROVE  /\ call[t].name \in Names \cup {0} /\ call[t].flags \in OpenFlags \cup {"none"}
           /\ call[t].receipt \in 0 .. MaxGeneration
           /\ call[t].gen \in 0 .. MaxGeneration
BY DEF TypeOK, Call

LEMMA CallUpdates ==
    /\ NoCall \in Call
    /\ \A c \in Call, n \in Names : [c EXCEPT !.name = n] \in Call
    /\ \A c \in Call, g \in 0 .. MaxGeneration :
         /\ [c EXCEPT !.gen = g] \in Call
         /\ \A b \in BOOLEAN : [c EXCEPT !.gen = g, !.created = b] \in Call
    /\ \A n \in Names, f \in Flags, g \in 0 .. MaxGeneration :
         [NoCall EXCEPT !.name = n, !.flags = f, !.receipt = g] \in Call
<1>1. 0 \in 0 .. MaxGeneration /\ Flags \subseteq OpenFlags
  BY NamesAssumption
<1>2. NoCall \in Call
  BY <1>1 DEF NoCall, Call
<1> QED BY <1>1, <1>2 DEF NoCall, Call

LEMMA InitIInv == Init => IInv
<1> SUFFICES ASSUME Init PROVE IInv
  OBVIOUS
<1>0. NoCall \in Call
  BY CallUpdates
<1>1. TypeOK
  BY <1>0, NamesAssumption DEF Init, TypeOK, PCs
<1>2. \A h \in HandleIDs : handles[h] = NoHandle /\ handles[h].gen = 0
  BY DEF Init, NoHandle
<1>3. Calls /\ Handled /\ Numbered /\ TablesAgree /\ ReferencesExact /\ Backed
  BY <1>2, SetsAreFinite
  DEF Init, Calls, CallOK, Naming, Admitted, Opening, Owning, Handled, MineOK,
      HandleOK, Numbered, TablesAgree, ReferencesExact, Backed
<1>4. OneName /\ ReceiptsTrue
  BY <1>2 DEF Init, OneName, Gives, ReceiptsTrue, Holds, Opening, Generations
<1>5. Launches /\ Births /\ OneHandlePerName
  BY <1>2 DEF Init, Launches, Births, OneHandlePerName, Opening
<1> QED BY <1>1, <1>3, <1>4, <1>5 DEF IInv

-----------------------------------------------------------------------------
(* Types.                                                                  *)

(* What a step needs of the other invariants: a handle counts threads, and *)
(* names refer to the table.                                               *)
LEMMA ThreadTypes ==
    ASSUME TypeOK, Calls, Handled, NEW t \in Threads, Moves(t)
    PROVE  call'[t] \in Call /\ mine'[t] \in HandleIDs \cup {0}
<1> USE DEF Goto, Return, Idle, threads, client, ghosts
<1>t. /\ pc \in [Threads -> PCs] /\ call \in [Threads -> Call]
      /\ mine \in [Threads -> HandleIDs \cup {0}]
      /\ names \in [Names -> 0 .. MaxGeneration] /\ next \in Nat /\ MaxGeneration \in Nat
  BY NamesAssumption DEF TypeOK
<1>0. NoCall \in Call
  BY CallUpdates
<1>c. pc[t] \in Naming => call[t].name \in Names
  BY DEF Calls, CallOK
<1>1. CASE Open(t)
  <2>1. ASSUME NEW n \in Names, NEW f \in Flags, SemOpen(t, n, f)
        PROVE  call'[t] \in Call /\ mine'[t] \in HandleIDs \cup {0}
    <3>1. PICK r \in 0 .. MaxGeneration :
            call' = [call EXCEPT ![t] = [NoCall EXCEPT !.name = n, !.flags = f, !.receipt = r]]
      BY <2>1 DEF SemOpen
    <3>2. mine' = mine
      BY <2>1 DEF SemOpen
    <3> QED BY <3>1, <3>2, <1>t, CallUpdates
  <2>2. CASE ServeJoin(t) \/ ServeCreate(t)
    <3>1. PICK g \in 0 .. MaxGeneration, b \in BOOLEAN :
            call' = [call EXCEPT ![t].gen = g, ![t].created = b]
      <4>1. CASE ServeJoin(t)
        <5>1. names[call[t].name] \in 0 .. MaxGeneration
          BY <1>t, <1>c, <4>1 DEF ServeJoin, Naming
        <5> QED BY <4>1, <5>1 DEF ServeJoin, Answer
      <4>2. CASE ServeCreate(t)
        <5>1. next + 1 \in 0 .. MaxGeneration
          BY <1>t, <4>2 DEF ServeCreate, Creating
        <5> QED BY <4>2, <5>1 DEF ServeCreate, Answer
      <4> QED BY <2>2, <4>1, <4>2
    <3>2. mine' = mine
      BY <2>2 DEF ServeJoin, ServeCreate
    <3>3. call'[t] = [call[t] EXCEPT !.gen = g, !.created = b]
      BY <3>1, <1>t
    <3>4. call'[t] \in Call
      BY <3>3, <1>t DEF Call
    <3> QED BY <3>2, <3>4, <1>t
  <2>3. CASE InsertNew(t)
    <3>1. mine[t] = 0
      BY <2>3 DEF Calls, CallOK, Opening, InsertNew
    <3> QED BY <2>3, <3>1, <1>t, <1>0, FreeHandle DEF InsertNew
  <2> QED BY <2>1, <2>2, <2>3, <1>1, <1>t, <1>0
      DEF Open, ResetBroker, ResetFails, ResetDone, ServeRefusal, ServeCreateFails,
      LookupReuse, Reuse, FindReusable, Candidates, LookupNone, OpenFile, OpenFileFails,
      Abandon, InsertReuse
<1>2. CASE Close(t)
  <2>1. CASE SemClose(t)
    <3>1. mine[t] \in HandleIDs /\ handles[mine[t]].gen \in 0 .. MaxGeneration
      BY <2>1, <1>t, HandleFields DEF SemClose
    <3>2. /\ mine'[t] = 0
          /\ \/ call' = call
             \/ call'[t] = [call[t] EXCEPT !.gen = handles[mine[t]].gen]
      BY <1>t, <2>1 DEF SemClose
    <3>3. call'[t] \in Call
      BY <3>1, <3>2, <1>t DEF Call
    <3> QED BY <3>2, <3>3
  <2>2. CASE ServeClose(t)
    BY <2>2, <1>t, <1>0 DEF ServeClose
  <2> QED BY <1>2, <2>1, <2>2 DEF Close
<1>3. CASE Unlink(t)
  <2>1. ASSUME NEW n \in Names, SemUnlink(t, n)
        PROVE  call'[t] \in Call /\ mine'[t] \in HandleIDs \cup {0}
    BY <2>1, <1>t, CallUpdates DEF SemUnlink
  <2>2. CASE ServeUnlink(t)
    <3>1. names[call[t].name] \in 0 .. MaxGeneration
      BY <1>t, <1>c, <2>2 DEF ServeUnlink, Naming
    <3>2. /\ mine' = mine
          /\ \/ call' = call
             \/ call'[t] = [call[t] EXCEPT !.gen = names[call[t].name]]
      BY <1>t, <2>2 DEF ServeUnlink
    <3>3. call'[t] \in Call
      BY <3>1, <3>2, <1>t DEF Call
    <3> QED BY <3>2, <3>3, <1>t
  <2>3. CASE ServeUnlinkMissing(t) \/ UnlinkFinish(t)
    BY <2>3, <1>t, <1>0 DEF ServeUnlinkMissing, UnlinkFinish
  <2> QED BY <1>3, <2>1, <2>2, <2>3 DEF Unlink
<1>4. CASE RequestFails(t)
  BY <1>4, <1>t, <1>0 DEF RequestFails, Closes
<1> QED BY <1>1, <1>2, <1>3, <1>4 DEF Moves

(* The steps of a thread that change the broker's tables, the handles, the *)
(* receipts, and the rest.                                                 *)
AtBroker(t) ==
    \/ ResetBroker(t) \/ ServeJoin(t) \/ ServeCreate(t) \/ ServeCreateFails(t)
    \/ ServeClose(t) \/ ServeUnlink(t)
AtHandles(t) ==
    \/ (pc[t] \in {"lookup", "insert"} /\ Reuse(t)) \/ LookupNone(t) \/ InsertNew(t)
    \/ SemClose(t) \/ UnlinkFinish(t)
AtReceipts(t) == (\E n \in Names, f \in Flags : SemOpen(t, n, f)) \/ UnlinkFinish(t)

LEMMA Untouched ==
    ASSUME NEW t \in Threads, Moves(t)
    PROVE  /\ AtBroker(t) \/ UNCHANGED broker
           /\ AtHandles(t) \/ UNCHANGED <<handles, mine>>
           /\ AtReceipts(t) \/ UNCHANGED <<receipts, clock>>
           /\ ResetBroker(t) \/ ResetFails(t) \/ UNCHANGED once
           /\ ServeCreate(t) \/ UNCHANGED birth
           /\ ServeUnlink(t) \/ UNCHANGED unlinker
           /\ RequestFails(t) \/ UNCHANGED leaked
           /\ UNCHANGED <<kills, restarts>> /\ (Fault \/ UNCHANGED faults)
<1> USE DEF client, ghosts, bounds, AtBroker, AtHandles, AtReceipts
<1>1. CASE Open(t)
  BY <1>1 DEF Open, SemOpen, ResetBroker, ResetFails, ResetDone, ServeRefusal,
     ServeJoin, ServeCreate, ServeCreateFails, LookupReuse, Reuse,
     LookupNone, OpenFile, OpenFileFails, InsertReuse, InsertNew, Creating
<1>2. CASE Close(t)
  BY <1>2 DEF Close, SemClose, ServeClose
<1>3. CASE Unlink(t)
  BY <1>3 DEF Unlink, SemUnlink, ServeUnlink, ServeUnlinkMissing, UnlinkFinish
<1>4. CASE RequestFails(t)
  BY <1>4 DEF RequestFails
<1> QED BY <1>1, <1>2, <1>3, <1>4 DEF Moves

BrokerType ==
    /\ names \in [Names -> 0 .. MaxGeneration]
    /\ table \subseteq Generations /\ retired \subseteq table
    /\ references \in [Generations -> Nat]
    /\ expected \in [Names -> 0 .. MaxGeneration]
    /\ next \in 0 .. MaxGeneration
    /\ epoch \in {0} \cup {EpochOf[p] : p \in Processes}
    /\ files \subseteq Generations

ClientType ==
    /\ handles \in [HandleIDs -> Handle \cup {NoHandle}]
    /\ receipts \in [Processes -> [Slots -> Receipt \cup {NoReceipt}]]
    /\ once \in [Processes -> {"no", "ok", "failed"}]
    /\ clock \in Nat

BookType ==
    /\ birth \in [Generations -> {0} \cup {EpochOf[p] : p \in Processes}]
    /\ unlinker \in [Names -> Threads \cup {NoThread}]
    /\ leaked \in [Generations -> Nat]
    /\ faults \in 0 .. MaxFaults /\ kills \in 0 .. MaxKills
    /\ restarts \in 0 .. MaxRestarts

LEMMA ProcessOfThread == \A t \in Threads : ProcessOf[t] \in Processes
BY DEF Processes

(* A thread that is served for a name: the name and what it refers to.     *)
LEMMA NameInTable ==
    ASSUME TypeOK, Calls, Numbered, TablesAgree, NEW t \in Threads, pc[t] \in Naming
    PROVE  /\ call[t].name \in Names
           /\ names[call[t].name] \in 0 .. MaxGeneration /\ names[call[t].name] <= next
           /\ names[call[t].name] # 0 =>
                /\ names[call[t].name] \in Generations
                /\ names[call[t].name] \in (table \cap files) \ retired
           /\ next \in Nat /\ MaxGeneration \in Nat
BY NamesAssumption DEF TypeOK, Calls, CallOK, Numbered, TablesAgree, Generations

LEMMA BrokerTypeKept ==
    ASSUME TypeOK, Calls, Numbered, TablesAgree, NEW t \in Threads, AtBroker(t)
    PROVE  BrokerType'
<1>t. BrokerType /\ MaxGeneration \in Nat
  BY NamesAssumption DEF TypeOK, BrokerType
<1>1. CASE ResetBroker(t)
  BY <1>1, <1>t, ProcessOfThread, NamesAssumption DEF BrokerType, ResetBroker, ResetNamespace, broker
<1>2. CASE ServeJoin(t)
  <2>1. names[call[t].name] \in Generations
    BY <1>2, NameInTable DEF ServeJoin, Naming
  <2> QED BY <1>2, <2>1, <1>t DEF BrokerType, ServeJoin
<1>3. CASE ServeCreate(t) \/ ServeCreateFails(t)
  <2>0. next \in Nat /\ 0 \in 0 .. MaxGeneration /\ expected \in [Names -> 0 .. MaxGeneration]
    BY <1>t DEF BrokerType
  <2>1. Creating(t)
    BY <1>3 DEF ServeCreate, ServeCreateFails
  <2>g. next + 1 \in Generations /\ Generations \subseteq 0 .. MaxGeneration
    BY <2>0, <2>1, <1>t DEF Creating, Generations
  <2>2. pc[t] \in Naming /\ ConsumeExpected(call[t])
    BY <1>3, <2>1 DEF Creating, Naming, ServeCreate, ServeCreateFails
  <2>3. expected' \in [Names -> 0 .. MaxGeneration]
    BY <2>2, <2>0 DEF ConsumeExpected
  <2>4. /\ Destroyed(call[t].name) \cap retired = {}
        /\ Kept(call[t].name) \subseteq table \ Destroyed(call[t].name)
    BY <2>2, NameInTable DEF Destroyed, Kept
  <2>5. CASE ServeCreate(t)
    BY <2>g, <2>3, <2>4, <2>5, <1>t DEF BrokerType, ServeCreate
  <2>6. CASE ServeCreateFails(t)
    BY <2>0, <2>g, <2>3, <2>4, <2>6, <1>t DEF BrokerType, ServeCreateFails
  <2> QED BY <1>3, <2>5, <2>6
<1>4. CASE ServeClose(t)
  <2>1. DropReference(call[t].gen) /\ UNCHANGED <<names, expected, next, epoch, files>>
    BY <1>4 DEF ServeClose
  <2>2. /\ references' \in [Generations -> Nat] /\ table' \subseteq table
        /\ retired' \subseteq table'
    BY <2>1, <1>t DEF BrokerType, DropReference
  <2> QED BY <2>1, <2>2, <1>t DEF BrokerType
<1>5. CASE ServeUnlink(t)
  <2>1. pc[t] \in Naming
    BY <1>5 DEF ServeUnlink, Naming
  <2>2. /\ Destroyed(call[t].name) \cap retired = {}
        /\ Kept(call[t].name) \subseteq table \ Destroyed(call[t].name)
    BY <2>1, NameInTable DEF Destroyed, Kept
  <2> QED BY <1>5, <2>1, <2>2, <1>t, NameInTable DEF BrokerType, ServeUnlink
<1> QED BY <1>1, <1>2, <1>3, <1>4, <1>5 DEF AtBroker

(* A thread that has no handle open is not counted by any, so that there   *)
(* is room for it.                                                         *)
LEMMA RoomToReuse ==
    ASSUME TypeOK, Handled, NEW t \in Threads, mine[t] = 0,
           NEW h \in HandleIDs, handles[h] # NoHandle
    PROVE  /\ handles[h].referenceCount = Cardinality(Users(h))
           /\ handles[h].referenceCount + 1 \in HandleIDs
<1>1. Users(h) \subseteq Threads \ {t}
  BY SetsAreFinite DEF Users
<1>2. IsFiniteSet(Threads \ {t}) /\ Cardinality(Threads \ {t}) = Cardinality(Threads) - 1
  BY NamesAssumption, FS_RemoveElement
<1>3. Cardinality(Users(h)) <= Cardinality(Threads) - 1
  BY <1>1, <1>2, FS_Subset
<1> QED BY <1>3, SetsAreFinite DEF Handled, HandleOK, HandleIDs

(* Marking handles changes no other field of theirs.                       *)
Marked(h) == handles'[h] \in {handles[h], [handles[h] EXCEPT !.unlinked = TRUE]}

LEMMA MarkedType ==
    ASSUME TypeOK, NEW h \in HandleIDs, handles'[h] = handles[h]
             \/ (handles[h] # NoHandle /\ handles'[h] = [handles[h] EXCEPT !.unlinked = TRUE])
    PROVE  /\ handles'[h] \in Handle \cup {NoHandle}
           /\ handles'[h] = NoHandle <=> handles[h] = NoHandle
           /\ handles'[h].gen = handles[h].gen
           /\ handles[h] # NoHandle => /\ handles'[h].process = handles[h].process
                                       /\ handles'[h].name = handles[h].name
                                       /\ handles'[h].referenceCount = handles[h].referenceCount
<1>1. handles[h] \in Handle \cup {NoHandle}
  BY DEF TypeOK
<1> QED BY <1>1, HandleFields DEF Handle, NoHandle, Generations

LEMMA MarkGoneMarks ==
    ASSUME NEW t, NEW h \in HandleIDs
    PROVE  \/ MarkGone(t)[h] = handles[h]
           \/ handles[h] # NoHandle /\ MarkGone(t)[h] = [handles[h] EXCEPT !.unlinked = TRUE]
BY DEF MarkGone, Candidates

LEMMA HandlesTypeKept ==
    ASSUME TypeOK, Calls, Handled, NEW t \in Threads, AtHandles(t)
    PROVE  handles' \in [HandleIDs -> Handle \cup {NoHandle}]
<1>t. handles \in [HandleIDs -> Handle \cup {NoHandle}]
  BY DEF TypeOK
<1>1. CASE pc[t] \in {"lookup", "insert"} /\ Reuse(t)
  <2>1. PICK h \in FindReusable(ProcessOf[t], call[t]) :
          handles' = [handles EXCEPT ![h].referenceCount = @ + 1]
    BY <1>1 DEF Reuse
  <2>2. h \in HandleIDs /\ handles[h] # NoHandle /\ mine[t] = 0
    BY <1>1 DEF FindReusable, Candidates, Calls, CallOK, Opening
  <2>3. handles[h] \in Handle /\ handles[h].referenceCount + 1 \in HandleIDs
    BY <2>2, <1>t, RoomToReuse
  <2>4. [handles[h] EXCEPT !.referenceCount = @ + 1] \in Handle
    BY <2>3 DEF Handle
  <2> QED BY <2>1, <2>2, <2>4, <1>t
<1>m. MarkGone(t) \in [HandleIDs -> Handle \cup {NoHandle}]
  <2>1. ASSUME NEW h \in HandleIDs, handles[h] \in Handle
        PROVE  [handles[h] EXCEPT !.unlinked = TRUE] \in Handle
    BY <2>1 DEF Handle
  <2> QED BY <2>1, <1>t DEF MarkGone, Candidates
<1>2. CASE LookupNone(t)
  BY <1>2, <1>m DEF LookupNone
<1>3. CASE InsertNew(t)
  <2> DEFINE new == [process |-> ProcessOf[t], name |-> call[t].name, gen |-> call[t].gen,
                     referenceCount |-> 1, unlinked |-> FALSE]
  <2>1. call[t].name \in Names /\ call[t].gen \in 1 .. next /\ mine[t] = 0
    BY <1>3 DEF InsertNew, Calls, CallOK, Naming, Owning, Opening
  <2>2. call[t].gen \in Generations
    BY <2>1, NamesAssumption DEF TypeOK, Generations
  <2>f. PICK j \in HandleIDs : TRUE
    BY FreeHandle, <2>1
  <2>3. 1 \in HandleIDs
    BY <2>f, SetsAreFinite DEF HandleIDs
  <2>4. new \in Handle
    BY <2>1, <2>2, <2>3, ProcessOfThread DEF Handle
  <2> HIDE DEF new
  <2>5. handles' = [MarkGone(t) EXCEPT
                      ![Min({i \in HandleIDs : handles[i] = NoHandle})] = new]
    BY <1>3 DEF InsertNew, new
  <2> QED BY <2>4, <2>5, <1>m
<1>4. CASE SemClose(t)
  <2>1. mine[t] \in HandleIDs
    BY <1>4 DEF SemClose, TypeOK
  <2>2. CASE handles[mine[t]].referenceCount > 1
    <3>1. handles[mine[t]] \in Handle
      BY <1>4, <2>1, HandleFields DEF Handled, MineOK, SemClose
    <3>2. handles[mine[t]].referenceCount - 1 \in HandleIDs
      BY <2>2, <3>1, SetsAreFinite DEF Handle, HandleIDs
    <3>3. [handles[mine[t]] EXCEPT !.referenceCount = @ - 1] \in Handle
      BY <3>1, <3>2 DEF Handle
    <3> QED BY <1>4, <2>2, <3>3, <1>t DEF SemClose
  <2>3. CASE ~(handles[mine[t]].referenceCount > 1)
    BY <1>4, <2>3, <1>t DEF SemClose
  <2> QED BY <2>2, <2>3
<1>5. CASE UnlinkFinish(t)
  <2>1. ASSUME NEW h \in HandleIDs, handles[h] \in Handle
        PROVE  [handles[h] EXCEPT !.unlinked = TRUE] \in Handle
    BY <2>1 DEF Handle
  <2> QED BY <1>5, <2>1, <1>t DEF UnlinkFinish
<1> QED BY <1>1, <1>2, <1>3, <1>4, <1>5 DEF AtHandles

LEMMA ReceiptsTypeKept ==
    ASSUME TypeOK, Calls, NEW t \in Threads, AtReceipts(t)
    PROVE  /\ receipts' \in [Processes -> [Slots -> Receipt \cup {NoReceipt}]]
           /\ clock' \in Nat
<1>t. /\ receipts \in [Processes -> [Slots -> Receipt \cup {NoReceipt}]]
      /\ clock \in Nat
  BY DEF TypeOK
<1>1. ASSUME NEW n \in Names, NEW f \in Flags, SemOpen(t, n, f)
      PROVE  receipts' \in [Processes -> [Slots -> Receipt \cup {NoReceipt}]]
  <2>1. PICK r \in 0 .. MaxGeneration :
          IF f = "excl" THEN ConsumeUnlinkReceipt(t, n, r) ELSE UNCHANGED receipts
    BY <1>1 DEF SemOpen
  <2> QED BY <2>1, <1>t DEF ConsumeUnlinkReceipt
<1>2. CASE UnlinkFinish(t)
  <2>1. call[t].name \in Names /\ call[t].gen \in 1 .. next
    BY <1>2 DEF UnlinkFinish, Calls, CallOK, Naming
  <2>2. call[t].gen \in Generations
    BY <2>1, NamesAssumption DEF TypeOK, Generations
  <2>3. [gen |-> call[t].gen, thread |-> t, name |-> call[t].name, at |-> clock] \in Receipt
    BY <2>1, <2>2, <1>t DEF Receipt
  <2>4. ASSUME NEW r \in Receipt, NEW p \in Processes, NEW i
        PROVE  [receipts EXCEPT ![p][i] = r] \in [Processes -> [Slots -> Receipt \cup {NoReceipt}]]
    BY <1>t
  <2> QED BY <1>2, <1>t, <2>3, <2>4, ProcessOfThread DEF UnlinkFinish, RecordUnlinkReceipt
<1>3. ASSUME NEW n \in Names, NEW f \in Flags, SemOpen(t, n, f)
      PROVE  clock' = clock
  BY <1>3 DEF SemOpen
<1> QED BY <1>1, <1>2, <1>3, <1>t DEF AtReceipts, UnlinkFinish, RecordUnlinkReceipt

LEMMA BookTypeKept ==
    ASSUME TypeOK, Calls, NEW t \in Threads, Moves(t)
    PROVE  BookType' /\ once' \in [Processes -> {"no", "ok", "failed"}]
<1>t. BookType /\ once \in [Processes -> {"no", "ok", "failed"}]
  BY DEF TypeOK, BookType
<1>1. birth' \in [Generations -> {0} \cup {EpochOf[p] : p \in Processes}]
  <2>1. CASE ServeCreate(t)
    <3>1. birth' = [birth EXCEPT ![next + 1] = EpochOf[ProcessOf[t]]]
      BY <2>1 DEF ServeCreate
    <3> QED BY <1>t, <3>1, ProcessOfThread DEF BookType
  <2>2. CASE birth' = birth
    BY <1>t, <2>2 DEF BookType
  <2> QED BY <2>1, <2>2, Untouched
<1>2. unlinker' \in [Names -> Threads \cup {NoThread}]
  BY <1>t, Untouched DEF BookType, ServeUnlink
<1>3. leaked' \in [Generations -> Nat]
  BY <1>t, Untouched DEF BookType, RequestFails, ghosts
<1>4. faults' \in 0 .. MaxFaults /\ kills' \in 0 .. MaxKills /\ restarts' \in 0 .. MaxRestarts
  BY <1>t, Untouched, NamesAssumption DEF BookType, Fault
<1>5. once' \in [Processes -> {"no", "ok", "failed"}]
  BY <1>t, Untouched DEF ResetBroker, ResetFails
<1> QED BY <1>1, <1>2, <1>3, <1>4, <1>5 DEF BookType

LEMMA ExitTypes ==
    ASSUME TypeOK, NEW p \in Processes, Exit(p)
    PROVE  TypeOK'
<1>t. /\ pc \in [Threads -> PCs] /\ call \in [Threads -> Call]
      /\ mine \in [Threads -> HandleIDs \cup {0}]
      /\ handles \in [HandleIDs -> Handle \cup {NoHandle}]
      /\ receipts \in [Processes -> [Slots -> Receipt \cup {NoReceipt}]]
      /\ leaked \in [Generations -> Nat] /\ kills \in 0 .. MaxKills
  BY DEF TypeOK
<1>1. pc' \in [Threads -> PCs] /\ call' \in [Threads -> Call]
      /\ mine' \in [Threads -> HandleIDs \cup {0}]
  BY <1>t, CallUpdates DEF Exit, PCs
<1>2. handles' \in [HandleIDs -> Handle \cup {NoHandle}]
  BY <1>t DEF Exit
<1>3. receipts' \in [Processes -> [Slots -> Receipt \cup {NoReceipt}]]
  BY <1>t DEF Exit
<1>4. leaked' \in [Generations -> Nat]
  <2>1. \A g : Orphans(p, g) \in Nat
    <3> SUFFICES ASSUME NEW g PROVE Orphans(p, g) \in Nat
      OBVIOUS
    <3> DEFINE H == {h \in HandleIDs : handles[h].gen = g /\ handles[h].process = p}
               T == {t \in Threads : ProcessOf[t] = p /\ pc[t] \in Owning /\ call[t].gen = g}
    <3>1. H \subseteq HandleIDs /\ T \subseteq Threads
      OBVIOUS
    <3>2. Cardinality(H) \in Nat /\ Cardinality(T) \in Nat
      BY <3>1, SetsAreFinite, NamesAssumption, FS_Subset, FS_CardinalityType
    <3> QED BY <3>2 DEF Orphans
  <2> QED BY <1>t, <2>1 DEF Exit
<1>5. kills' \in 0 .. MaxKills
  BY <1>t, NamesAssumption DEF Exit
<1>6. UNCHANGED <<broker, once, clock, birth, unlinker, faults, restarts>>
  BY DEF Exit
<1> QED BY <1>1, <1>2, <1>3, <1>4, <1>5, <1>6 DEF TypeOK, broker

LEMMA TypePreserved == IInv /\ [Next]_vars => TypeOK'
<1> SUFFICES ASSUME IInv, [Next]_vars PROVE TypeOK'
  OBVIOUS
<1>i. TypeOK /\ Calls /\ Handled /\ Numbered /\ TablesAgree
  BY DEF IInv
<1>1. CASE UNCHANGED vars
  BY <1>1, <1>i DEF TypeOK, vars, broker, threads, client, ghosts, bounds
<1>2. ASSUME NEW t \in Threads, Moves(t) PROVE TypeOK'
  <2>1. BrokerType'
    <3>1. CASE AtBroker(t)
      BY <3>1, <1>i, BrokerTypeKept
    <3>2. CASE UNCHANGED broker
      BY <3>2, <1>i DEF TypeOK, BrokerType, broker
    <3> QED BY <3>1, <3>2, <1>2, Untouched
  <2>2. BookType' /\ once' \in [Processes -> {"no", "ok", "failed"}]
    BY <1>2, <1>i, BookTypeKept
  <2>3. handles' \in [HandleIDs -> Handle \cup {NoHandle}]
    <3>1. CASE AtHandles(t)
      BY <3>1, <1>i, HandlesTypeKept
    <3>2. CASE UNCHANGED <<handles, mine>>
      BY <3>2, <1>i DEF TypeOK
    <3> QED BY <3>1, <3>2, <1>2, Untouched
  <2>4. /\ receipts' \in [Processes -> [Slots -> Receipt \cup {NoReceipt}]]
        /\ clock' \in Nat
    <3>1. CASE AtReceipts(t)
      BY <3>1, <1>i, ReceiptsTypeKept
    <3>2. CASE UNCHANGED <<receipts, clock>>
      BY <3>2, <1>i DEF TypeOK
    <3> QED BY <3>1, <3>2, <1>2, Untouched
  <2>5. /\ pc' \in [Threads -> PCs] /\ call' \in [Threads -> Call]
        /\ mine' \in [Threads -> HandleIDs \cup {0}]
    BY <1>2, <1>i, MoverOnly, ThreadTypes DEF TypeOK
  <2> QED BY <2>1, <2>2, <2>3, <2>4, <2>5 DEF TypeOK, BrokerType, BookType
<1>3. ASSUME NEW p \in Processes, Exit(p) PROVE TypeOK'
  BY <1>3, <1>i, ExitTypes
<1>4. CASE RestartBroker
  <2>1. BrokerType' /\ restarts' \in 0 .. MaxRestarts
    BY <1>4, <1>i, NamesAssumption DEF TypeOK, BrokerType, RestartBroker
  <2> QED BY <1>4, <1>i, <2>1 DEF TypeOK, BrokerType, RestartBroker, threads, client, ghosts
<1> QED BY <1>1, <1>2, <1>3, <1>4 DEF Next, Moves

-----------------------------------------------------------------------------
(* The locals of a call.                                                   *)

LEMMA Grows ==
    ASSUME TypeOK, NEW t \in Threads, Moves(t)
    PROVE  /\ next' = next \/ (next < MaxGeneration /\ next' = next + 1)
           /\ next \in Nat /\ next' \in Nat
           /\ \A p \in Processes : once[p] = "ok" => once'[p] = "ok"
<1>1. next \in Nat
  BY NamesAssumption DEF TypeOK
<1>2. next' = next \/ (next < MaxGeneration /\ next' = next + 1)
  BY Untouched DEF AtBroker, broker, ResetBroker, ResetNamespace, ServeJoin, ServeCreate,
     ServeCreateFails, Creating, ServeClose, ServeUnlink
<1>3. \A p \in Processes : once[p] = "ok" => once'[p] = "ok"
  BY Untouched DEF ResetBroker, ResetFails, TypeOK
<1> QED BY <1>1, <1>2, <1>3

LEMMA CallsOfMover ==
    ASSUME TypeOK, Calls, Handled, Numbered, TablesAgree, NEW t \in Threads, Moves(t)
    PROVE  CallOK(t)'
<1> USE DEF Goto, Return, Idle
<1>t. /\ pc \in [Threads -> PCs] /\ call \in [Threads -> Call]
      /\ mine \in [Threads -> HandleIDs \cup {0}] /\ next \in Nat
      /\ ProcessOf[t] \in Processes /\ once \in [Processes -> {"no", "ok", "failed"}]
  BY NamesAssumption, ProcessOfThread DEF TypeOK
<1>c. CallOK(t)
  BY DEF Calls
<1>n. next' \in Nat /\ next' >= next
  BY Grows
<1> USE DEF CallOK, Naming, Admitted, Opening, Owning
<1>1. CASE Open(t)
  <2>1. ASSUME NEW n \in Names, NEW f \in Flags, SemOpen(t, n, f) PROVE CallOK(t)'
    <3>1. pc'[t] = "once" /\ mine'[t] = 0
      BY <2>1, <1>t DEF SemOpen
    <3>2. call'[t].name = n
      BY <2>1, <1>t DEF SemOpen, NoCall
    <3> QED BY <3>1, <3>2
  <2>2. CASE ResetBroker(t)
    BY <2>2, <1>t, <1>c DEF ResetBroker
  <2>3. CASE ResetFails(t) \/ ServeRefusal(t) \/ ServeCreateFails(t)
    BY <2>3, <1>t, <1>c DEF ResetFails, ServeRefusal, ServeCreateFails
  <2>4. CASE ResetDone(t)
    BY <2>4, <1>t, <1>c, <1>n DEF ResetDone, client
  <2>5. CASE ServeJoin(t)
    <3>1. /\ names[call[t].name] \in 1 .. next
          /\ pc[t] = "request" /\ UNCHANGED <<next, once, mine>>
      BY <2>5, <1>t, NameInTable DEF ServeJoin, client, Generations
    <3>2. pc'[t] = "lookup" /\ call'[t].name = call[t].name
          /\ call'[t].gen = names[call[t].name]
      BY <2>5, <1>t DEF ServeJoin, Answer, Call
    <3> QED BY <3>1, <3>2, <1>c
  <2>6. CASE ServeCreate(t)
    <3>1. pc[t] = "request" /\ next' = next + 1 /\ UNCHANGED <<once, mine>>
      BY <2>6 DEF ServeCreate, Creating, client
    <3>2. pc'[t] = "lookup" /\ call'[t].name = call[t].name /\ call'[t].gen = next + 1
      BY <2>6, <1>t DEF ServeCreate, Answer, Call
    <3> QED BY <3>1, <3>2, <1>c, <1>t
  <2>7. CASE LookupReuse(t) \/ InsertReuse(t)
    <3>1. /\ pc[t] \in {"lookup", "insert"} /\ pc'[t] = "reuse"
          /\ call' = call /\ next' = next /\ once' = once
      BY <2>7, <1>t DEF LookupReuse, InsertReuse, Reuse, broker
    <3> QED BY <3>1, <1>c
  <2>8. CASE LookupNone(t)
    <3>1. /\ pc[t] = "lookup" /\ pc'[t] = "open" /\ call' = call /\ mine' = mine
          /\ next' = next /\ once' = once
      BY <2>8, <1>t DEF LookupNone, broker
    <3> QED BY <3>1, <1>c
  <2>9. CASE OpenFile(t) \/ OpenFileFails(t)
    <3>1. /\ pc[t] = "open" /\ pc'[t] \in {"insert", "cleanup", "drop"}
          /\ call' = call /\ mine' = mine /\ next' = next /\ once' = once
      BY <2>9, <1>t DEF OpenFile, OpenFileFails, Abandon, broker, client
    <3> QED BY <3>1, <1>c
  <2>10. CASE InsertNew(t)
    BY <2>10, <1>t DEF InsertNew
  <2> QED BY <1>1, <2>1, <2>2, <2>3, <2>4, <2>5, <2>6, <2>7, <2>8, <2>9, <2>10 DEF Open
<1>2. CASE Close(t)
  <2>1. CASE ServeClose(t)
    BY <2>1, <1>t DEF ServeClose
  <2>2. CASE SemClose(t)
    <3>1. next' = next /\ once' = once /\ mine[t] \in HandleIDs /\ pc[t] = "idle"
      BY <2>2, <1>t DEF SemClose, broker
    <3>2. handles[mine[t]].gen \in 1 .. next /\ mine'[t] = 0
      BY <2>2, <3>1, <1>t, HandleFields DEF SemClose, Numbered, Handled, MineOK
    <3>3. CASE handles[mine[t]].referenceCount > 1
      BY <2>2, <3>1, <3>3, <1>c DEF SemClose
    <3>4. CASE ~(handles[mine[t]].referenceCount > 1)
      <4>1. pc'[t] = "closing" /\ call'[t].gen = handles[mine[t]].gen
        BY <2>2, <3>1, <3>4, <1>t DEF SemClose, Call
      <4> QED BY <4>1, <3>1, <3>2, <1>t
    <3> QED BY <3>3, <3>4
  <2> QED BY <1>2, <2>1, <2>2 DEF Close
<1>3. CASE Unlink(t)
  <2>1. ASSUME NEW n \in Names, SemUnlink(t, n) PROVE CallOK(t)'
    <3>1. pc'[t] = "unlink"
      BY <2>1, <1>t DEF SemUnlink
    <3>2. call'[t].name = n
      BY <2>1, <1>t DEF SemUnlink, Call
    <3> QED BY <3>1, <3>2
  <2>2. CASE ServeUnlink(t)
    <3>1. /\ names[call[t].name] \in 1 .. next /\ pc[t] \in {"unlink", "cleanup"}
          /\ next' = next /\ once' = once /\ mine' = mine
      BY <2>2, <1>t, NameInTable DEF ServeUnlink, client, Generations
    <3>2. CASE pc[t] = "unlink"
      <4>1. pc'[t] = "record" /\ call'[t].name = call[t].name
            /\ call'[t].gen = names[call[t].name]
        BY <2>2, <3>2, <1>t DEF ServeUnlink, Call
      <4> QED BY <4>1, <3>1, <3>2, <1>c
    <3>3. CASE pc[t] = "cleanup"
      <4>1. pc'[t] = "drop" /\ call' = call
        BY <2>2, <3>3, <1>t DEF ServeUnlink
      <4> QED BY <4>1, <3>1, <3>3, <1>c
    <3> QED BY <3>1, <3>2, <3>3
  <2>3. CASE ServeUnlinkMissing(t)
    <3>1. next' = next /\ once' = once /\ mine' = mine
      BY <2>3 DEF ServeUnlinkMissing, broker, client
    <3>2. \/ pc'[t] = "idle" /\ call'[t] = NoCall
          \/ pc[t] = "cleanup" /\ pc'[t] = "drop" /\ call' = call
      BY <2>3, <1>t DEF ServeUnlinkMissing
    <3> QED BY <3>1, <3>2, <1>c
  <2>4. CASE UnlinkFinish(t)
    BY <2>4, <1>t DEF UnlinkFinish
  <2> QED BY <1>3, <2>1, <2>2, <2>3, <2>4 DEF Unlink
<1>4. CASE RequestFails(t)
  <2>1. next' = next /\ once' = once /\ mine' = mine
    BY <1>4 DEF RequestFails, broker, client
  <2>2. \/ pc'[t] = "idle" /\ call'[t] = NoCall
        \/ pc[t] = "cleanup" /\ pc'[t] = "drop" /\ call' = call
    BY <1>4, <1>t DEF RequestFails
  <2> QED BY <2>1, <2>2, <1>c
<1> QED BY <1>1, <1>2, <1>3, <1>4 DEF Moves

LEMMA CallsPreserved == IInv /\ [Next]_vars => Calls'
<1> SUFFICES ASSUME IInv, [Next]_vars, NEW s \in Threads PROVE CallOK(s)'
  BY DEF Calls
<1>i. TypeOK /\ Calls /\ CallOK(s) /\ Handled /\ Numbered /\ TablesAgree
  BY DEF IInv, Calls
<1>1. CASE UNCHANGED vars
  BY <1>1, <1>i DEF CallOK, vars, broker, threads, client
<1>2. ASSUME NEW t \in Threads, Moves(t) PROVE CallOK(s)'
  <2>1. CASE s = t
    BY <1>2, <1>i, <2>1, CallsOfMover
  <2>2. CASE s # t
    <3>1. pc'[s] = pc[s] /\ call'[s] = call[s] /\ mine'[s] = mine[s]
      BY <1>2, <1>i, <2>2, MoverOnly DEF TypeOK
    <3>2. /\ next' \in Nat /\ next \in Nat /\ next' >= next
          /\ once[ProcessOf[s]] = "ok" => once'[ProcessOf[s]] = "ok"
      BY <1>2, <1>i, Grows, ProcessOfThread
    <3> QED BY <3>1, <3>2, <1>i DEF CallOK
  <2> QED BY <2>1, <2>2
<1>3. ASSUME NEW p \in Processes, Exit(p) PROVE CallOK(s)'
  <2>1. /\ mine'[s] \in {0, mine[s]} /\ next' = next /\ once' = once
        /\ \/ pc'[s] = pc[s] /\ call'[s] = call[s]
           \/ pc'[s] = "dead" /\ call'[s] = NoCall
    BY <1>3, <1>i DEF Exit, TypeOK, broker
  <2> QED BY <2>1, <1>i DEF CallOK, Naming, Admitted, Opening, Owning
<1>4. CASE RestartBroker
  BY <1>4, <1>i DEF CallOK, RestartBroker, threads, client
<1> QED BY <1>1, <1>2, <1>3, <1>4 DEF Next, Moves

-----------------------------------------------------------------------------
(* Handles and the threads that have them open.                            *)

(* A file of an old generation never comes back.                           *)
LEMMA FilesOfOld ==
    ASSUME TypeOK, NEW t \in Threads, Moves(t)
    PROVE  /\ \A g \in files' : g \in files \/ (g = next + 1 /\ next' = next + 1)
           /\ \A g \in Generations : g <= next /\ g \notin files => g \notin files'
<1>1. next \in Nat
  BY NamesAssumption DEF TypeOK
<1>2. \A g \in files' : g \in files \/ (g = next + 1 /\ next' = next + 1)
  <2>1. CASE ServeCreate(t)
    <3>1. /\ next' = next + 1
          /\ files' = (files \ {names[call[t].name]}) \cup {next + 1}
      BY <2>1 DEF ServeCreate
    <3> QED BY <3>1
  <2>2. CASE ResetBroker(t)
    BY <2>2 DEF broker, ResetBroker, ResetNamespace
  <2>3. CASE ServeJoin(t) \/ ServeCreateFails(t) \/ ServeClose(t) \/ ServeUnlink(t)
    BY <2>3 DEF ServeJoin, ServeCreateFails, ServeClose, ServeUnlink
  <2> QED BY Untouched, <2>1, <2>2, <2>3 DEF AtBroker, broker
<1> QED BY <1>1, <1>2 DEF Generations

LEMMA FilesOfHandles ==
    ASSUME TypeOK, Numbered, NEW t \in Threads, Moves(t), NEW h \in HandleIDs,
           handles[h] # NoHandle, handles[h].gen \notin files
    PROVE  handles[h].gen \notin files'
<1>1. handles[h].gen \in Generations /\ handles[h].gen <= next
  BY HandleFields, NamesAssumption DEF Numbered, Generations
<1> QED BY <1>1, FilesOfOld

LEMMA HandledByReuse ==
    ASSUME TypeOK, Calls, Handled, NEW t \in Threads, pc[t] \in {"lookup", "insert"}, Reuse(t)
    PROVE  Handled'
<1>1. PICK h \in FindReusable(ProcessOf[t], call[t]) :
        /\ handles' = [handles EXCEPT ![h].referenceCount = @ + 1]
        /\ mine' = [mine EXCEPT ![t] = h] /\ files' = files
  BY DEF Reuse, broker
<1>2. /\ h \in HandleIDs /\ handles[h] # NoHandle /\ handles[h].process = ProcessOf[t]
      /\ mine[t] = 0 /\ h # 0
  BY SetsAreFinite DEF FindReusable, Candidates, Calls, CallOK, Opening
<1>3. handles[h] \in Handle /\ handles \in [HandleIDs -> Handle \cup {NoHandle}]
      /\ mine \in [Threads -> HandleIDs \cup {0}]
  BY <1>2, HandleFields DEF TypeOK
<1>4. /\ handles'[h] = [handles[h] EXCEPT !.referenceCount = @ + 1]
      /\ \A k \in HandleIDs \ {h} : handles'[k] = handles[k]
  BY <1>1, <1>2, <1>3
<1>5. /\ handles'[h].referenceCount = handles[h].referenceCount + 1
      /\ handles'[h].process = handles[h].process /\ handles'[h].gen = handles[h].gen
      /\ handles'[h].unlinked = handles[h].unlinked
      /\ handles'[h].gen # 0
  BY <1>2, <1>3, <1>4, HandleFields DEF Handle
<1>6. /\ Users(h)' = Users(h) \cup {t} /\ t \notin Users(h)
      /\ \A k \in HandleIDs \ {h} : Users(k)' = Users(k)
  BY <1>1, <1>2, <1>3, SetsAreFinite DEF Users
<1>7. Cardinality(Users(h)') = Cardinality(Users(h)) + 1
  BY <1>6, SetsAreFinite, FS_AddElement
<1>8. ASSUME NEW k \in HandleIDs PROVE HandleOK(k)'
  <2>1. CASE k # h
    BY <1>1, <1>4, <1>6, <2>1 DEF Handled, HandleOK
  <2>2. HandleOK(h)'
    BY <1>1, <1>2, <1>5, <1>7 DEF Handled, HandleOK
  <2> QED BY <2>1, <2>2
<1>9. handles'[h] # NoHandle
  BY <1>5 DEF NoHandle
<1>10. ASSUME NEW s \in Threads PROVE MineOK(s)'
  <2>1. CASE s = t
    BY <1>1, <1>2, <1>3, <1>5, <1>9, <2>1 DEF MineOK
  <2>2. CASE s # t
    BY <1>1, <1>3, <1>4, <1>5, <1>9, <2>2 DEF Handled, MineOK
  <2> QED BY <2>1, <2>2
<1> QED BY <1>8, <1>10 DEF Handled

(* Steps that only mark handles.                                           *)
LEMMA HandledByMarks ==
    ASSUME TypeOK, Handled, mine' = mine, files' = files,
           \A h \in HandleIDs :
             \/ handles'[h] = handles[h]
             \/ /\ handles[h] # NoHandle /\ handles[h].gen \notin files
                /\ handles'[h] = [handles[h] EXCEPT !.unlinked = TRUE]
    PROVE  Handled'
<1>1. \A h : Users(h)' = Users(h)
  BY DEF Users
<1>2. ASSUME NEW h \in HandleIDs PROVE HandleOK(h)'
  <2>1. CASE handles'[h] = handles[h]
    BY <1>1, <2>1 DEF Handled, HandleOK
  <2>2. CASE /\ handles[h] # NoHandle /\ handles[h].gen \notin files
             /\ handles'[h] = [handles[h] EXCEPT !.unlinked = TRUE]
    BY <1>1, <2>2, MarkedType DEF Handled, HandleOK
  <2> QED BY <2>1, <2>2
<1>3. ASSUME NEW s \in Threads PROVE MineOK(s)'
  <2>1. mine[s] \in HandleIDs \cup {0}
    BY DEF TypeOK
  <2> QED BY <2>1, MarkedType DEF Handled, MineOK
<1> QED BY <1>2, <1>3 DEF Handled

LEMMA GoneAreUnlinked ==
    ASSUME NEW t, FindReusable(ProcessOf[t], call[t]) = {}, NEW h \in HandleIDs
    PROVE  \/ MarkGone(t)[h] = handles[h]
           \/ /\ handles[h] # NoHandle /\ handles[h].gen \notin files
              /\ MarkGone(t)[h] = [handles[h] EXCEPT !.unlinked = TRUE]
BY DEF MarkGone, FindReusable, Candidates

(* The new handle of InsertNew, once the old ones are marked.              *)
LEMMA InsertNewHandle ==
    ASSUME TypeOK, Calls, Handled, NEW t \in Threads, InsertNew(t)
    PROVE  \E h \in HandleIDs :
             /\ h # 0 /\ handles[h] = NoHandle /\ mine' = [mine EXCEPT ![t] = h]
             /\ handles'[h] = [process |-> ProcessOf[t], name |-> call[t].name,
                               gen |-> call[t].gen, referenceCount |-> 1, unlinked |-> FALSE]
             /\ handles'[h] # NoHandle /\ handles'[h] \in Handle
             /\ \A k \in HandleIDs \ {h} : handles'[k] = MarkGone(t)[k]
<1> DEFINE free == Min({i \in HandleIDs : handles[i] = NoHandle})
<1>1. mine[t] = 0 /\ call[t].gen \in 1 .. next
  BY DEF InsertNew, Calls, CallOK, Opening, Owning
<1>2. free \in HandleIDs /\ handles[free] = NoHandle
  BY <1>1, FreeHandle
<1>3. /\ mine' = [mine EXCEPT ![t] = free]
      /\ handles' = [MarkGone(t) EXCEPT ![free] =
           [process |-> ProcessOf[t], name |-> call[t].name, gen |-> call[t].gen,
            referenceCount |-> 1, unlinked |-> FALSE]]
  BY DEF InsertNew
<1>4. DOMAIN MarkGone(t) = HandleIDs
  BY DEF MarkGone
<1>5. handles' \in [HandleIDs -> Handle \cup {NoHandle}]
  BY HandlesTypeKept DEF AtHandles
<1> HIDE DEF free
<1>6. handles'[free].gen # 0
  BY <1>1, <1>2, <1>3, <1>4
<1> QED BY <1>2, <1>3, <1>4, <1>5, <1>6, SetsAreFinite DEF NoHandle

LEMMA HandledByInsert ==
    ASSUME TypeOK, Calls, Handled, NEW t \in Threads, InsertNew(t)
    PROVE  Handled'
<1>0. /\ FindReusable(ProcessOf[t], call[t]) = {} /\ files' = files /\ mine[t] = 0
      /\ mine \in [Threads -> HandleIDs \cup {0}]
  BY DEF InsertNew, broker, TypeOK, Calls, CallOK, Opening
<1>1. PICK h \in HandleIDs :
             /\ h # 0 /\ handles[h] = NoHandle /\ mine' = [mine EXCEPT ![t] = h]
             /\ handles'[h] = [process |-> ProcessOf[t], name |-> call[t].name,
                               gen |-> call[t].gen, referenceCount |-> 1, unlinked |-> FALSE]
             /\ handles'[h] # NoHandle /\ handles'[h] \in Handle
             /\ \A k \in HandleIDs \ {h} : handles'[k] = MarkGone(t)[k]
  BY InsertNewHandle
<1>2. /\ Users(h)' = {t}
      /\ \A k \in HandleIDs \ {h} : Users(k)' = Users(k)
  BY <1>0, <1>1, SetsAreFinite DEF Users, Handled, MineOK
<1>3. HandleOK(h)'
  <2>1. Cardinality(Users(h)') = 1
    BY <1>2, FS_Singleton
  <2>2. handles'[h].referenceCount = 1 /\ ~handles'[h].unlinked
    BY <1>1
  <2> QED BY <2>1, <2>2 DEF HandleOK
<1>4. ASSUME NEW k \in HandleIDs \ {h}
      PROVE  /\ HandleOK(k)'
             /\ handles'[k] = NoHandle <=> handles[k] = NoHandle
             /\ handles[k] # NoHandle => handles'[k].process = handles[k].process
  <2>1. \/ handles'[k] = handles[k]
        \/ /\ handles[k] # NoHandle /\ handles[k].gen \notin files
           /\ handles'[k] = [handles[k] EXCEPT !.unlinked = TRUE]
    BY <1>0, <1>1, GoneAreUnlinked
  <2>2. CASE handles'[k] = handles[k]
    BY <1>0, <1>2, <2>2 DEF Handled, HandleOK
  <2>3. CASE /\ handles[k] # NoHandle /\ handles[k].gen \notin files
             /\ handles'[k] = [handles[k] EXCEPT !.unlinked = TRUE]
    BY <1>0, <1>2, <2>3, MarkedType DEF Handled, HandleOK
  <2> QED BY <2>1, <2>2, <2>3
<1>5. ASSUME NEW s \in Threads PROVE MineOK(s)'
  <2>1. CASE s = t
    BY <1>0, <1>1, <2>1 DEF MineOK
  <2>2. CASE s # t
    BY <1>0, <1>1, <1>4, <2>2 DEF Handled, MineOK
  <2> QED BY <2>1, <2>2
<1> QED BY <1>3, <1>4, <1>5 DEF Handled

LEMMA HandledByClose ==
    ASSUME TypeOK, Handled, NEW t \in Threads, SemClose(t)
    PROVE  Handled'
<1>1. PICK h \in HandleIDs :
      /\ h = mine[t] /\ h # 0 /\ mine' = [mine EXCEPT ![t] = 0] /\ files' = files
      /\ mine \in [Threads -> HandleIDs \cup {0}]
      /\ handles \in [HandleIDs -> Handle \cup {NoHandle}]
  BY DEF SemClose, broker, TypeOK
<1>2. /\ handles[h] # NoHandle /\ handles[h] \in Handle
      /\ handles[h].referenceCount = Cardinality(Users(h))
  BY <1>1, HandleFields DEF Handled, MineOK, HandleOK
<1>3. /\ Users(h)' = Users(h) \ {t} /\ t \in Users(h)
      /\ \A k \in HandleIDs \ {h} : Users(k)' = Users(k)
  BY <1>1, SetsAreFinite DEF Users
<1>4. Cardinality(Users(h)') = Cardinality(Users(h)) - 1
  BY <1>3, SetsAreFinite, FS_RemoveElement
<1>5. \A k \in HandleIDs \ {h} : handles'[k] = handles[k]
  BY <1>1 DEF SemClose
<1>6. \A k \in HandleIDs \ {h} : HandleOK(k)'
  BY <1>1, <1>3, <1>5 DEF Handled, HandleOK
<1>7. CASE handles[h].referenceCount > 1
  <2>1. handles'[h] = [handles[h] EXCEPT !.referenceCount = @ - 1]
    BY <1>1, <1>7 DEF SemClose
  <2>2. /\ handles'[h].referenceCount = handles[h].referenceCount - 1
        /\ handles'[h].process = handles[h].process /\ handles'[h].gen = handles[h].gen
        /\ handles'[h].unlinked = handles[h].unlinked
    BY <1>2, <2>1 DEF Handle
  <2>3. handles'[h] # NoHandle
    BY <1>1, <1>2, <2>2, HandleFields DEF NoHandle
  <2>4. HandleOK(h)'
    BY <1>1, <1>2, <1>4, <2>2 DEF Handled, HandleOK
  <2>5. ASSUME NEW s \in Threads PROVE MineOK(s)'
    BY <1>1, <1>5, <2>2, <2>3 DEF Handled, MineOK
  <2> QED BY <1>6, <2>4, <2>5 DEF Handled
<1>8. CASE ~(handles[h].referenceCount > 1)
  <2>1. handles'[h] = NoHandle
    BY <1>1, <1>8 DEF SemClose
  <2>2. Users(h)' = {}
    <3>1. Cardinality(Users(h)') = 0 /\ IsFiniteSet(Users(h)')
      <4>1. IsFiniteSet(Users(h)') /\ Cardinality(Users(h)') \in Nat
        BY <1>3, SetsAreFinite, FS_RemoveElement, FS_CardinalityType
      <4> QED BY <1>2, <1>4, <1>8, <4>1, SetsAreFinite
    <3> QED BY <3>1, FS_EmptySet
  <2>3. ASSUME NEW s \in Threads PROVE MineOK(s)'
    <3>1. mine'[s] # h
      BY <1>1, <2>2 DEF Users
    <3> QED BY <1>1, <1>5, <3>1 DEF Handled, MineOK
  <2> QED BY <1>6, <2>1, <2>3 DEF Handled, HandleOK
<1> QED BY <1>7, <1>8

LEMMA HandledByExit ==
    ASSUME TypeOK, Handled, NEW p \in Processes, Exit(p)
    PROVE  Handled'
<1>1. /\ files' = files /\ mine \in [Threads -> HandleIDs \cup {0}]
      /\ mine' = [t \in Threads |-> IF ProcessOf[t] = p THEN 0 ELSE mine[t]]
      /\ handles' = [h \in HandleIDs |->
                     IF handles[h] # NoHandle /\ handles[h].process = p
                     THEN NoHandle ELSE handles[h]]
  BY DEF Exit, broker, TypeOK
<1>2. ASSUME NEW h \in HandleIDs PROVE HandleOK(h)'
  <2>1. CASE handles[h] # NoHandle /\ handles[h].process # p
    <3>1. Users(h)' = Users(h)
      BY <1>1, <2>1, SetsAreFinite DEF Users, Handled, MineOK
    <3> QED BY <1>1, <2>1, <3>1 DEF Handled, HandleOK
  <2>2. CASE ~(handles[h] # NoHandle /\ handles[h].process # p)
    BY <1>1, <2>2 DEF HandleOK
  <2> QED BY <2>1, <2>2
<1>3. ASSUME NEW s \in Threads PROVE MineOK(s)'
  BY <1>1 DEF Handled, MineOK
<1> QED BY <1>2, <1>3 DEF Handled

LEMMA HandledPreserved == IInv /\ [Next]_vars => Handled'
<1> SUFFICES ASSUME IInv, [Next]_vars PROVE Handled'
  OBVIOUS
<1>i. TypeOK /\ Calls /\ Handled /\ Numbered /\ ReceiptsTrue
  BY DEF IInv
<1>0. ASSUME handles' = handles, mine' = mine,
             \A h \in HandleIDs : handles[h] # NoHandle /\ handles[h].gen \notin files
                                    => handles[h].gen \notin files'
      PROVE  Handled'
  BY <1>0, <1>i DEF Handled, HandleOK, MineOK, Users
<1>1. CASE UNCHANGED vars
  BY <1>0, <1>1 DEF vars, broker, threads, client
<1>2. ASSUME NEW t \in Threads, Moves(t) PROVE Handled'
  <2>1. CASE pc[t] \in {"lookup", "insert"} /\ Reuse(t)
    BY <1>i, <2>1, HandledByReuse
  <2>2. CASE LookupNone(t)
    <3>1. /\ FindReusable(ProcessOf[t], call[t]) = {} /\ handles' = MarkGone(t)
          /\ mine' = mine /\ files' = files
      BY <2>2 DEF LookupNone, broker
    <3> QED BY <1>i, <3>1, GoneAreUnlinked, HandledByMarks
  <2>3. CASE InsertNew(t)
    BY <1>i, <2>3, HandledByInsert
  <2>4. CASE SemClose(t)
    BY <1>i, <2>4, HandledByClose
  <2>5. CASE UnlinkFinish(t)
    <3>1. call[t].gen \notin files
      <4>1. Holds(t, call[t].name, call[t].gen) /\ call[t].name \in Names
            /\ call[t].gen \in 1 .. next /\ next \in Nat /\ next <= MaxGeneration
        BY <1>i, <2>5, NamesAssumption DEF UnlinkFinish, Holds, Calls, CallOK, Naming, TypeOK
      <4>2. call[t].gen \in Generations
        BY <4>1, NamesAssumption DEF Generations
      <4> QED BY <1>i, <4>1, <4>2 DEF ReceiptsTrue
    <3>2. mine' = mine /\ files' = files
          /\ \A h \in HandleIDs :
               \/ handles'[h] = handles[h]
               \/ /\ handles[h] # NoHandle /\ handles[h].gen \notin files
                  /\ handles'[h] = [handles[h] EXCEPT !.unlinked = TRUE]
      BY <2>5, <3>1 DEF UnlinkFinish, broker
    <3> QED BY <1>i, <3>2, HandledByMarks
  <2>6. CASE UNCHANGED <<handles, mine>>
    BY <1>0, <1>2, <1>i, <2>6, FilesOfHandles
  <2> QED BY <1>2, <2>1, <2>2, <2>3, <2>4, <2>5, <2>6, Untouched DEF AtHandles
<1>3. ASSUME NEW p \in Processes, Exit(p) PROVE Handled'
  BY <1>i, <1>3, HandledByExit
<1>4. CASE RestartBroker
  BY <1>0, <1>4 DEF RestartBroker, threads, client
<1> QED BY <1>1, <1>2, <1>3, <1>4 DEF Next, Moves

-----------------------------------------------------------------------------
(* Generations in the order of their creation.                             *)

(* What a thread's step does to the generation of each handle.             *)
LEMMA HandleGens ==
    ASSUME TypeOK, Calls, Handled, NEW t \in Threads, Moves(t), NEW h \in HandleIDs
    PROVE  \/ handles[h] # NoHandle /\ handles'[h] # NoHandle
              /\ handles'[h].gen = handles[h].gen /\ handles'[h].name = handles[h].name
              /\ handles'[h].process = handles[h].process
              /\ (handles[h].unlinked => handles'[h].unlinked)
           \/ handles'[h] = NoHandle /\ (handles[h] = NoHandle \/ SemClose(t))
           \/ /\ InsertNew(t) /\ pc[t] = "insert" /\ handles[h] = NoHandle
              /\ handles'[h] # NoHandle
              /\ handles'[h].gen = call[t].gen /\ handles'[h].name = call[t].name
              /\ handles'[h].process = ProcessOf[t]
<1>0. handles[h] \in Handle \cup {NoHandle} /\ (handles[h] # NoHandle => handles[h].gen # 0)
      /\ handles \in [HandleIDs -> Handle \cup {NoHandle}]
  BY HandleFields DEF TypeOK
<1>m. ASSUME handles'[h] = handles[h]
              \/ (handles[h] # NoHandle /\ handles'[h] = [handles[h] EXCEPT !.unlinked = TRUE])
      PROVE  \/ handles[h] # NoHandle /\ handles'[h] # NoHandle
                /\ handles'[h].gen = handles[h].gen /\ handles'[h].name = handles[h].name
                /\ handles'[h].process = handles[h].process
                /\ (handles[h].unlinked => handles'[h].unlinked)
             \/ handles'[h] = NoHandle /\ handles[h] = NoHandle
  BY <1>m, <1>0, MarkedType DEF Handle
<1>1. CASE pc[t] \in {"lookup", "insert"} /\ Reuse(t)
  <2>1. PICK k \in FindReusable(ProcessOf[t], call[t]) :
          handles' = [handles EXCEPT ![k].referenceCount = @ + 1]
    BY <1>1 DEF Reuse
  <2>2. CASE k = h
    <3>1. handles[h] # NoHandle
      BY <2>2 DEF FindReusable, Candidates
    <3>2. handles'[h] = [handles[h] EXCEPT !.referenceCount = @ + 1]
      BY <1>0, <2>1, <2>2
    <3> QED BY <1>0, <3>1, <3>2 DEF Handle, NoHandle
  <2>3. CASE k # h
    BY <1>0, <1>m, <2>1, <2>3
  <2> QED BY <2>2, <2>3
<1>2. CASE LookupNone(t)
  BY <1>m, <1>2, MarkGoneMarks DEF LookupNone
<1>3. CASE InsertNew(t)
  <2>1. PICK k \in HandleIDs :
          /\ handles[k] = NoHandle /\ handles'[k] # NoHandle
          /\ handles'[k] = [process |-> ProcessOf[t], name |-> call[t].name,
                            gen |-> call[t].gen, referenceCount |-> 1, unlinked |-> FALSE]
          /\ \A i \in HandleIDs \ {k} : handles'[i] = MarkGone(t)[i]
    BY <1>3, InsertNewHandle
  <2>2. CASE k = h
    BY <1>3, <2>1, <2>2 DEF InsertNew
  <2>3. CASE k # h
    BY <1>m, <2>1, <2>3, MarkGoneMarks
  <2> QED BY <2>2, <2>3
<1>4. CASE SemClose(t)
  <2>1. \/ handles' = [handles EXCEPT ![mine[t]].referenceCount = @ - 1]
        \/ handles' = [handles EXCEPT ![mine[t]] = NoHandle]
    BY <1>4 DEF SemClose
  <2>2. CASE mine[t] = h
    <3>1. handles[h] # NoHandle
      BY <1>4, <2>2 DEF SemClose, Handled, MineOK
    <3>2. handles'[h] = NoHandle \/ handles'[h] = [handles[h] EXCEPT !.referenceCount = @ - 1]
      BY <1>0, <2>1, <2>2
    <3> QED BY <1>0, <1>4, <3>1, <3>2 DEF Handle, NoHandle
  <2>3. CASE mine[t] # h
    BY <1>0, <1>m, <2>1, <2>3
  <2> QED BY <2>2, <2>3
<1>5. CASE UnlinkFinish(t)
  BY <1>m, <1>5 DEF UnlinkFinish
<1>6. CASE UNCHANGED handles
  BY <1>m, <1>6
<1> QED BY <1>1, <1>2, <1>3, <1>4, <1>5, <1>6, Untouched DEF AtHandles

(* What a thread's step does to the names, the table and the calls.        *)
LEMMA NamesAfter ==
    ASSUME TypeOK, Calls, NEW t \in Threads, Moves(t), NEW m \in Names
    PROVE  \/ names'[m] = 0 \/ names'[m] = names[m]
           \/ ServeCreate(t) /\ m = call[t].name /\ names'[m] = next + 1
<1>t. names \in [Names -> 0 .. MaxGeneration]
  BY DEF TypeOK
<1>1. CASE ResetBroker(t)
  BY <1>1 DEF ResetBroker, ResetNamespace, broker
<1>2. CASE ServeCreate(t)
  BY <1>2, <1>t DEF ServeCreate
<1>3. CASE ServeCreateFails(t)
  BY <1>3, <1>t DEF ServeCreateFails
<1>4. CASE ServeUnlink(t)
  BY <1>4, <1>t DEF ServeUnlink
<1>5. CASE ServeJoin(t) \/ ServeClose(t)
  BY <1>5 DEF ServeJoin, ServeClose
<1> QED BY <1>1, <1>2, <1>3, <1>4, <1>5, Untouched DEF AtBroker, broker

LEMMA TableAfter ==
    ASSUME NEW t \in Threads, Moves(t)
    PROVE  \A g \in table' : g \in table \/ (ServeCreate(t) /\ g = next + 1)
<1>1. CASE ResetBroker(t)
  BY <1>1 DEF ResetBroker, ResetNamespace, broker
<1>2. CASE ServeCreate(t)
  <2>1. table' = (table \ Destroyed(call[t].name)) \cup {next + 1}
    BY <1>2 DEF ServeCreate
  <2> QED BY <1>2, <2>1
<1>5. CASE ServeCreateFails(t)
  <2>1. table' = table \ Destroyed(call[t].name)
    BY <1>5 DEF ServeCreateFails
  <2> QED BY <2>1
<1>3. CASE ServeClose(t)
  BY <1>3 DEF ServeClose, DropReference
<1>4. CASE ServeUnlink(t) \/ ServeJoin(t)
  BY <1>4 DEF ServeUnlink, ServeJoin
<1> QED BY <1>1, <1>2, <1>3, <1>4, <1>5, Untouched DEF AtBroker, broker

LEMMA OpeningAfter ==
    ASSUME TypeOK, NEW t \in Threads, Moves(t), pc'[t] \in Opening
    PROVE  \/ pc[t] \in Opening /\ call'[t] = call[t]
           \/ /\ ServeJoin(t) /\ call'[t].name = call[t].name
              /\ call'[t].gen = names[call[t].name] /\ names[call[t].name] # 0
           \/ /\ ServeCreate(t) /\ call'[t].name = call[t].name
              /\ call'[t].gen = next + 1
<1> USE DEF Goto, Return, Opening
<1>t. pc \in [Threads -> PCs] /\ call \in [Threads -> Call]
  BY DEF TypeOK
<1>1. CASE Open(t)
  <2>1. CASE ServeJoin(t)
    BY <2>1, <1>t DEF ServeJoin, Answer, Call
  <2>2. CASE ServeCreate(t)
    BY <2>2, <1>t DEF ServeCreate, Answer, Call
  <2>3. CASE LookupNone(t) \/ OpenFile(t) \/ OpenFileFails(t)
    BY <2>3, <1>t DEF LookupNone, OpenFile, OpenFileFails, Abandon
  <2> QED BY <1>1, <1>t, <2>1, <2>2, <2>3 DEF Open, SemOpen, ResetBroker, ResetFails, ResetDone,
     ServeRefusal, ServeCreateFails, LookupReuse, InsertReuse, Reuse, InsertNew
<1>2. CASE Close(t)
  BY <1>2, <1>t DEF Close, SemClose, ServeClose, Idle
<1>3. CASE Unlink(t)
  BY <1>3, <1>t DEF Unlink, SemUnlink, ServeUnlink, ServeUnlinkMissing, UnlinkFinish
<1>4. CASE RequestFails(t)
  BY <1>4, <1>t DEF RequestFails
<1> QED BY <1>1, <1>2, <1>3, <1>4 DEF Moves

(* The references that the death of process p takes with it.               *)
LostHandles(p, g) == {h \in HandleIDs : handles[h].gen = g /\ handles[h].process = p}
LostCalls(p, g) ==
    {t \in Threads : ProcessOf[t] = p /\ pc[t] \in Owning /\ call[t].gen = g}

LEMMA OrphansAreLost ==
    \A p, g : Orphans(p, g) = Cardinality(LostHandles(p, g)) + Cardinality(LostCalls(p, g))
BY DEF Orphans, LostHandles, LostCalls

LEMMA NumberedPreserved == IInv /\ [Next]_vars => Numbered'
<1> SUFFICES ASSUME IInv, [Next]_vars PROVE Numbered'
  OBVIOUS
<1>i. TypeOK /\ Calls /\ Handled /\ Numbered /\ TablesAgree
  BY DEF IInv
<1>t. /\ names \in [Names -> 0 .. MaxGeneration] /\ next \in Nat /\ leaked \in [Generations -> Nat]
      /\ table \subseteq Nat /\ files \subseteq Nat
  BY <1>i, NamesAssumption DEF TypeOK, Generations
<1>1. CASE UNCHANGED vars
  BY <1>1, <1>i DEF Numbered, vars, broker, client, ghosts
<1>2. ASSUME NEW t \in Threads, Moves(t) PROVE Numbered'
  <2>n. next' = next \/ next' = next + 1
    BY <1>2, <1>i, Grows
  <2>1. ASSUME NEW m \in Names PROVE names'[m] <= next'
    <3>1. names[m] \in Nat /\ names[m] <= next
      BY <1>i, <1>t DEF Numbered
    <3>2. CASE ServeCreate(t)
      <4>1. next' = next + 1
        BY <3>2 DEF ServeCreate
      <4> QED BY <1>2, <1>i, <1>t, <3>1, <4>1, NamesAfter
    <3> QED BY <1>2, <1>i, <1>t, <2>n, <3>1, <3>2, NamesAfter
  <2>2. ASSUME NEW g \in table' \cup files' PROVE g <= next'
    <3>1. g \in table \cup files \/ (g = next + 1 /\ next' = next + 1)
      BY <1>2, <1>i, FilesOfOld, TableAfter DEF ServeCreate
    <3>2. CASE g \in table \cup files
      <4>1. g \in Nat /\ g <= next
        BY <1>i, <1>t, <3>2 DEF Numbered
      <4> QED BY <1>t, <2>n, <4>1
    <3> QED BY <3>1, <3>2, <1>t
  <2>3. ASSUME NEW h \in HandleIDs PROVE handles'[h].gen <= next'
    <3>1. handles[h].gen \in Nat /\ handles[h].gen <= next
      BY <1>i, NamesAssumption, HandleFields DEF Numbered
    <3>2. CASE pc[t] = "insert" /\ handles'[h].gen = call[t].gen
      BY <1>i, <1>t, <2>n, <3>2 DEF Calls, CallOK, Owning
    <3>3. CASE handles'[h] = NoHandle
      BY <1>t, <2>n, <3>3 DEF NoHandle
    <3>4. CASE handles'[h].gen = handles[h].gen
      BY <1>t, <2>n, <3>1, <3>4
    <3> QED BY <1>2, <1>i, <3>2, <3>3, <3>4, HandleGens
  <2>4. ASSUME NEW g \in Generations, g > next' PROVE leaked'[g] = 0
    <3>1. g > next
      BY <1>t, <2>n, <2>4 DEF Generations
    <3>2. leaked[g] = 0
      BY <1>i, <3>1 DEF Numbered
    <3>3. CASE RequestFails(t)
      <4>1. leaked' = leaked \/ (Closes(t) /\ leaked' = [leaked EXCEPT ![call[t].gen] = @ + 1])
        BY <3>3 DEF RequestFails, ghosts
      <4>2. Closes(t) => call[t].gen \in 1 .. next
        BY <1>i DEF Closes, Calls, CallOK, Owning
      <4>3. Closes(t) => g # call[t].gen
        BY <4>2, <3>1, <1>t DEF Generations
      <4> QED BY <4>1, <4>3, <3>2, <1>t
    <3>4. CASE leaked' = leaked
      BY <3>2, <3>4
    <3> QED BY <1>2, <3>3, <3>4, Untouched
  <2> QED BY <2>1, <2>2, <2>3, <2>4 DEF Numbered
<1>3. ASSUME NEW p \in Processes, Exit(p) PROVE Numbered'
  <2>1. UNCHANGED broker /\ leaked' = [g \in Generations |-> leaked[g] + Orphans(p, g)]
        /\ \A h \in HandleIDs : handles'[h] \in {handles[h], NoHandle}
    BY <1>3, <1>i DEF Exit, TypeOK
  <2>2. ASSUME NEW g \in Generations, g > next PROVE leaked'[g] = 0
    <3>1. LostHandles(p, g) = {}
      BY <1>i, <1>t, <2>2, NamesAssumption, HandleFields DEF Numbered, Generations, LostHandles
    <3>2. LostCalls(p, g) = {}
      BY <1>i, <1>t, <2>2 DEF Calls, CallOK, Generations, LostCalls
    <3>3. Orphans(p, g) = 0
      BY <3>1, <3>2, FS_EmptySet, OrphansAreLost
    <3>4. leaked[g] = 0
      BY <1>i, <2>2 DEF Numbered
    <3> QED BY <2>1, <3>3, <3>4
  <2> QED BY <1>i, <1>t, <2>1, <2>2 DEF Numbered, NoHandle, broker
<1>4. CASE RestartBroker
  BY <1>4, <1>i, <1>t DEF Numbered, RestartBroker, client, ghosts
<1> QED BY <1>1, <1>2, <1>3, <1>4 DEF Next, Moves

-----------------------------------------------------------------------------
(* A generation has one name, and a process one handle for it.             *)

LEMMA GivesNumbered ==
    ASSUME TypeOK, Calls, Numbered, NEW n \in Names, NEW g, Gives(n, g)
    PROVE  g <= next
BY DEF Gives, Numbered, Calls, CallOK, Opening, Owning

LEMMA GivesAfter ==
    ASSUME TypeOK, Calls, Handled, NEW t \in Threads, Moves(t),
           NEW n \in Names, NEW g \in Generations, Gives(n, g)'
    PROVE  Gives(n, g) \/ (ServeCreate(t) /\ n = call[t].name /\ g = next + 1)
<1>0. g # 0
  BY DEF Generations
<1>1. CASE names'[n] = g
  BY <1>0, <1>1, NamesAfter DEF Gives
<1>2. CASE \E h \in HandleIDs : /\ handles'[h] # NoHandle
                                /\ handles'[h].name = n /\ handles'[h].gen = g
  <2>1. PICK h \in HandleIDs : handles'[h] # NoHandle /\ handles'[h].name = n /\ handles'[h].gen = g
    BY <1>2
  <2> QED BY <2>1, HandleGens DEF Gives, Opening
<1>3. CASE \E s \in Threads : pc'[s] \in Opening /\ call'[s].name = n /\ call'[s].gen = g
  <2>1. PICK s \in Threads : pc'[s] \in Opening /\ call'[s].name = n /\ call'[s].gen = g
    BY <1>3
  <2>2. CASE s = t
    <3>1. \/ pc[t] \in Opening /\ call'[t] = call[t]
          \/ /\ call'[t].name = call[t].name /\ call'[t].gen = names[call[t].name]
          \/ /\ ServeCreate(t) /\ call'[t].name = call[t].name
             /\ call'[t].gen = next + 1
      BY <2>1, <2>2, OpeningAfter
    <3> QED BY <2>1, <2>2, <3>1 DEF Gives
  <2>3. CASE s # t
    <3>1. pc'[s] = pc[s] /\ call'[s] = call[s]
      BY <2>3, MoverOnly DEF TypeOK
    <3> QED BY <2>1, <3>1 DEF Gives
  <2> QED BY <2>2, <2>3
<1> QED BY <1>1, <1>2, <1>3 DEF Gives

LEMMA OneNamePreserved == IInv /\ [Next]_vars => OneName'
<1> SUFFICES ASSUME IInv, [Next]_vars, NEW m \in Names, NEW n \in Names, NEW g \in Generations,
                    Gives(m, g)', Gives(n, g)'
             PROVE  m = n
  BY DEF OneName
<1>i. TypeOK /\ Calls /\ Handled /\ Numbered /\ OneName
  BY DEF IInv
<1>0. ASSUME Gives(m, g), Gives(n, g) PROVE m = n
  BY <1>i, <1>0 DEF OneName
<1>1. CASE UNCHANGED vars
  BY <1>0, <1>1 DEF Gives, vars, broker, threads, client
<1>2. ASSUME NEW t \in Threads, Moves(t) PROVE m = n
  <2>1. /\ Gives(m, g) \/ (m = call[t].name /\ g = next + 1)
        /\ Gives(n, g) \/ (n = call[t].name /\ g = next + 1)
    BY <1>2, <1>i, GivesAfter
  <2>2. next \in Nat /\ (Gives(m, g) \/ Gives(n, g) => g <= next)
    BY <1>i, GivesNumbered, NamesAssumption DEF TypeOK
  <2> QED BY <1>0, <2>1, <2>2
<1>3. ASSUME NEW p \in Processes, Exit(p) PROVE m = n
  <2>1. /\ UNCHANGED broker /\ \A h \in HandleIDs : handles'[h] \in {handles[h], NoHandle}
        /\ \A s \in Threads : pc'[s] = "dead" \/ (pc'[s] = pc[s] /\ call'[s] = call[s])
    BY <1>3, <1>i DEF Exit, TypeOK
  <2> QED BY <1>0, <2>1 DEF Gives, broker, Opening
<1>4. CASE RestartBroker
  BY <1>0, <1>4 DEF Gives, RestartBroker, threads, client, Generations
<1> QED BY <1>1, <1>2, <1>3, <1>4 DEF Next, Moves

LEMMA OneHandlePreserved == IInv /\ [Next]_vars => OneHandlePerName'
<1> SUFFICES ASSUME IInv, [Next]_vars, NEW g \in HandleIDs, NEW h \in HandleIDs,
                    handles'[g] # NoHandle, handles'[h] # NoHandle,
                    handles'[g].process = handles'[h].process,
                    handles'[g].gen = handles'[h].gen, handles'[g].gen \in files'
             PROVE  g = h
  BY DEF OneHandlePerName
<1>i. TypeOK /\ Calls /\ Handled /\ Numbered /\ OneName /\ OneHandlePerName
  BY DEF IInv
<1>0. ASSUME handles[g] # NoHandle, handles[h] # NoHandle,
             handles[g].process = handles[h].process,
             handles[g].gen = handles[h].gen, handles[g].gen \in files
      PROVE  g = h
  BY <1>0, <1>i DEF OneHandlePerName
<1>1. CASE UNCHANGED vars
  BY <1>0, <1>1 DEF vars, broker, client
<1>2. ASSUME NEW t \in Threads, Moves(t) PROVE g = h
  (* The handle that InsertNew makes is not the second one of its process. *)
  <2>1. ASSUME NEW k \in HandleIDs, handles[k] # NoHandle, handles'[k] # NoHandle,
               handles'[k].gen = handles[k].gen, handles'[k].name = handles[k].name,
               handles'[k].process = handles[k].process,
               InsertNew(t), handles[k].process = ProcessOf[t],
               handles[k].gen = call[t].gen, call[t].gen \in files'
        PROVE  FALSE
    <3>1. files' = files /\ pc[t] = "insert" /\ FindReusable(ProcessOf[t], call[t]) = {}
      BY <2>1 DEF InsertNew, broker
    <3>2. ~handles[k].unlinked
      BY <1>i, <2>1, <3>1 DEF Handled, HandleOK
    <3>3. handles[k].gen \in Generations /\ handles[k].name \in Names /\ call[t].name \in Names
      BY <1>i, <2>1, <3>1, HandleFields DEF Handle, Calls, CallOK, Naming, Opening
    <3>4. Gives(handles[k].name, call[t].gen) /\ Gives(call[t].name, call[t].gen)
      BY <2>1, <3>1 DEF Gives, Opening
    <3>5. handles[k].name = call[t].name
      BY <1>i, <2>1, <3>3, <3>4 DEF OneName
    <3> QED BY <2>1, <3>1, <3>2, <3>5 DEF FindReusable, Candidates
  <2>2. \/ handles[g] # NoHandle /\ handles'[g].gen = handles[g].gen
             /\ handles'[g].name = handles[g].name /\ handles'[g].process = handles[g].process
        \/ InsertNew(t) /\ handles[g] = NoHandle
             /\ handles'[g].gen = call[t].gen /\ handles'[g].process = ProcessOf[t]
    BY <1>2, <1>i, HandleGens
  <2>3. \/ handles[h] # NoHandle /\ handles'[h].gen = handles[h].gen
             /\ handles'[h].name = handles[h].name /\ handles'[h].process = handles[h].process
        \/ InsertNew(t) /\ handles[h] = NoHandle
             /\ handles'[h].gen = call[t].gen /\ handles'[h].process = ProcessOf[t]
    BY <1>2, <1>i, HandleGens
  <2>4. CASE handles[g] = NoHandle /\ handles[h] = NoHandle
    <3>1. PICK k \in HandleIDs : \A i \in HandleIDs \ {k} : handles'[i] = MarkGone(t)[i]
      BY <1>i, <2>2, <2>4, InsertNewHandle
    <3>2. MarkGone(t)[g] = NoHandle /\ MarkGone(t)[h] = NoHandle
      BY <2>4, MarkGoneMarks
    <3> QED BY <3>1, <3>2
  <2>5. CASE handles[g] # NoHandle /\ handles[h] # NoHandle
    <3>1. handles[g].gen \in files
      BY <1>2, <1>i, <2>2, <2>5, FilesOfHandles
    <3> QED BY <1>0, <2>2, <2>3, <2>5, <3>1
  <2>6. CASE handles[g] = NoHandle /\ handles[h] # NoHandle
    BY <2>1, <2>2, <2>3, <2>6
  <2>7. CASE handles[g] # NoHandle /\ handles[h] = NoHandle
    BY <2>1, <2>2, <2>3, <2>7
  <2> QED BY <2>4, <2>5, <2>6, <2>7
<1>3. ASSUME NEW p \in Processes, Exit(p) PROVE g = h
  <2>1. files' = files /\ \A k \in HandleIDs : handles'[k] \in {handles[k], NoHandle}
    BY <1>3, <1>i DEF Exit, TypeOK, broker
  <2> QED BY <1>0, <2>1
<1>4. CASE RestartBroker
  BY <1>0, <1>4 DEF RestartBroker, client
<1> QED BY <1>1, <1>2, <1>3, <1>4 DEF Next, Moves

-----------------------------------------------------------------------------
(* The broker's tables.                                                    *)

(* A name loses its generation: what Unlink, a recreate and a failed       *)
(* create do to the tables.                                                *)
LEMMA TablesRetire ==
    ASSUME TypeOK, OneName, TablesAgree, NEW n \in Names, references' = references,
           names' = [names EXCEPT ![n] = 0], table' = table \ Destroyed(n),
           retired' = retired \cup Kept(n), files' = files \ {names[n]}
    PROVE  TablesAgree'
<1>t. names \in [Names -> 0 .. MaxGeneration] /\ table \subseteq Generations
  BY DEF TypeOK
<1>1. ASSUME NEW m \in Names, m # n, names[m] # 0 PROVE names[m] # names[n]
  <2>1. names[m] \in Generations /\ Gives(m, names[m]) /\ Gives(n, names[n])
    BY <1>1, <1>t, NamesAssumption DEF Gives, Generations
  <2> QED BY <1>1, <2>1 DEF OneName
<1>2. ASSUME NEW m \in Names, names'[m] # 0
      PROVE  names'[m] \in (table' \cap files') \ retired'
  <2>1. m # n /\ names'[m] = names[m] /\ names[m] # 0
    BY <1>2, <1>t
  <2>2. names[m] \in (table \cap files) \ retired /\ names[m] # names[n]
    BY <1>1, <2>1 DEF TablesAgree
  <2> QED BY <2>1, <2>2 DEF Destroyed, Kept
<1>3. ASSUME NEW g \in table'
      PROVE  \/ \E m \in Names : names'[m] = g
             \/ g \in retired' /\ references'[g] # 0
  <2>1. g \in table /\ g \notin Destroyed(n) /\ g # 0
    BY <1>3, <1>t DEF Generations
  <2>2. CASE g = names[n]
    BY <2>1, <2>2 DEF Destroyed, Kept
  <2>3. CASE g # names[n]
    <3>1. CASE g \in retired /\ references[g] # 0
      BY <3>1
    <3>2. CASE \E m \in Names : names[m] = g
      BY <1>t, <2>3, <3>2
    <3> QED BY <2>1, <3>1, <3>2 DEF TablesAgree
  <2> QED BY <2>2, <2>3
<1> QED BY <1>2, <1>3 DEF TablesAgree

LEMMA TablesAtCreate ==
    ASSUME TypeOK, Calls, Numbered, OneName, TablesAgree, NEW t \in Threads, ServeCreate(t)
    PROVE  TablesAgree'
<1>1. PICK n \in Names, g \in Generations :
      /\ n = call[t].name /\ g = next + 1
      /\ names' = [names EXCEPT ![n] = g]
      /\ table' = (table \ Destroyed(n)) \cup {g}
      /\ retired' = retired \cup Kept(n)
      /\ files' = (files \ {names[n]}) \cup {g}
      /\ references' = [references EXCEPT ![g] = 1]
  <2>1. call[t].name \in Names
    BY NameInTable DEF ServeCreate, Creating, Naming
  <2>2. next + 1 \in Generations
    BY NamesAssumption DEF TypeOK, ServeCreate, Creating, Generations
  <2> QED BY <2>1, <2>2 DEF ServeCreate
<1>t. /\ names \in [Names -> 0 .. MaxGeneration] /\ table \subseteq Generations
      /\ retired \subseteq table /\ references \in [Generations -> Nat] /\ next \in Nat
  BY NamesAssumption DEF TypeOK
<1>f. g \notin table /\ g \notin retired /\ \A m \in Names : names[m] # g
  BY <1>1, <1>t DEF Numbered
<1>2. ASSUME NEW m \in Names, m # n, names[m] # 0 PROVE names[m] # names[n]
  <2>1. names[m] \in Generations /\ Gives(m, names[m]) /\ Gives(n, names[n])
    BY <1>2, <1>t, NamesAssumption DEF Gives, Generations
  <2> QED BY <1>2, <2>1 DEF OneName
<1>3. ASSUME NEW m \in Names, names'[m] # 0
      PROVE  names'[m] \in (table' \cap files') \ retired'
  <2>1. CASE m = n
    BY <1>1, <1>t, <1>f, <2>1 DEF Kept
  <2>2. CASE m # n
    <3>1. names'[m] = names[m] /\ names[m] # 0
      BY <1>1, <1>3, <1>t, <2>2
    <3>2. names[m] \in (table \cap files) \ retired /\ names[m] # names[n]
      BY <1>2, <2>2, <3>1 DEF TablesAgree
    <3> QED BY <1>1, <3>1, <3>2 DEF Destroyed, Kept
  <2> QED BY <2>1, <2>2
<1>4. ASSUME NEW k \in table'
      PROVE  \/ \E m \in Names : names'[m] = k
             \/ k \in retired' /\ references'[k] # 0
  <2>1. CASE k = g
    BY <1>1, <1>t, <2>1
  <2>2. CASE k # g
    <3>1. k \in table /\ k \notin Destroyed(n) /\ k # 0 /\ references'[k] = references[k]
      BY <1>1, <1>4, <1>t, <2>2 DEF Generations
    <3>2. CASE k = names[n]
      BY <1>1, <3>1, <3>2 DEF Destroyed, Kept
    <3>3. CASE k # names[n]
      <4>1. CASE k \in retired /\ references[k] # 0
        BY <1>1, <3>1, <4>1
      <4>2. CASE \E m \in Names : names[m] = k
        BY <1>1, <1>t, <3>3, <4>2
      <4> QED BY <3>1, <4>1, <4>2 DEF TablesAgree
    <3> QED BY <3>2, <3>3
  <2> QED BY <2>1, <2>2
<1> QED BY <1>3, <1>4 DEF TablesAgree

LEMMA TablesAtClose ==
    ASSUME TypeOK, TablesAgree, NEW t \in Threads, ServeClose(t)
    PROVE  TablesAgree'
<1> DEFINE g == call[t].gen
<1>t. /\ names \in [Names -> 0 .. MaxGeneration] /\ table \subseteq Generations
      /\ references \in [Generations -> Nat]
  BY DEF TypeOK
<1>1. DropReference(g) /\ names' = names /\ files' = files
  BY DEF ServeClose
<1>2. CASE g \notin table \/ references[g] = 0
  BY <1>1, <1>2 DEF DropReference, TablesAgree
<1>3. CASE g \in table /\ references[g] # 0
  <2> DEFINE gone == {i \in {g} : i \in retired /\ references[i] = 1}
  <2>1. /\ references' = [references EXCEPT ![g] = @ - 1]
        /\ table' = table \ gone /\ retired' = retired \ gone
    BY <1>1, <1>3 DEF DropReference
  <2>2. ASSUME NEW m \in Names, names[m] # 0
        PROVE  names[m] \in (table' \cap files') \ retired'
    BY <1>1, <2>1, <2>2 DEF TablesAgree
  <2>3. ASSUME NEW k \in table'
        PROVE  \/ \E m \in Names : names[m] = k
               \/ k \in retired' /\ references'[k] # 0
    <3>1. k \in table /\ k \notin gone
      BY <2>1, <2>3
    <3>2. CASE \E m \in Names : names[m] = k
      BY <3>2
    <3>3. CASE k \in retired /\ references[k] # 0
      <4>1. k \in Generations /\ references[k] \in Nat
        BY <1>t, <3>1
      <4>2. CASE k = g
        BY <1>t, <2>1, <3>1, <3>3, <4>1, <4>2
      <4>3. CASE k # g
        BY <1>t, <2>1, <3>1, <3>3, <4>1, <4>3
      <4> QED BY <4>2, <4>3
    <3> QED BY <3>1, <3>2, <3>3 DEF TablesAgree
  <2> QED BY <1>1, <2>2, <2>3 DEF TablesAgree
<1> QED BY <1>2, <1>3

LEMMA TablesEmpty ==
    ASSUME names' = [n \in Names |-> 0], table' = {}
    PROVE  TablesAgree'
BY DEF TablesAgree

LEMMA TablesPreserved == IInv /\ [Next]_vars => TablesAgree'
<1> SUFFICES ASSUME IInv, [Next]_vars PROVE TablesAgree'
  OBVIOUS
<1>i. TypeOK /\ Calls /\ Numbered /\ OneName /\ TablesAgree
  BY DEF IInv
<1>0. ASSUME UNCHANGED broker PROVE TablesAgree'
  BY <1>0, <1>i DEF broker, TablesAgree
<1>1. CASE UNCHANGED vars
  BY <1>0, <1>1 DEF vars
<1>2. ASSUME NEW t \in Threads, Moves(t) PROVE TablesAgree'
  <2>1. CASE ResetBroker(t)
    BY <1>0, <2>1, TablesEmpty DEF ResetBroker, ResetNamespace
  <2>2. CASE ServeJoin(t)
    <3>1. /\ references' = [references EXCEPT ![names[call[t].name]] = @ + 1]
          /\ UNCHANGED <<names, table, retired, files>>
      BY <2>2 DEF ServeJoin
    <3>2. \A g \in table : references[g] # 0 => references'[g] # 0
      BY <3>1, <1>i DEF TypeOK
    <3> QED BY <3>1, <3>2, <1>i DEF TablesAgree
  <2>3. CASE ServeCreate(t)
    BY <1>i, <2>3, TablesAtCreate
  <2>4. CASE ServeCreateFails(t)
    <3>1. call[t].name \in Names
      BY <1>i, <2>4, NameInTable DEF ServeCreateFails, Creating, Naming
    <3>2. /\ references' = references /\ names' = [names EXCEPT ![call[t].name] = 0]
          /\ table' = table \ Destroyed(call[t].name)
          /\ retired' = retired \cup Kept(call[t].name)
          /\ files' = files \ {names[call[t].name]}
      BY <2>4 DEF ServeCreateFails
    <3> QED BY <1>i, <3>1, <3>2, TablesRetire
  <2>5. CASE ServeClose(t)
    BY <1>i, <2>5, TablesAtClose
  <2>6. CASE ServeUnlink(t)
    <3>1. call[t].name \in Names
      BY <1>i, <2>6, NameInTable DEF ServeUnlink, Naming
    <3>2. /\ references' = references /\ names' = [names EXCEPT ![call[t].name] = 0]
          /\ table' = table \ Destroyed(call[t].name)
          /\ retired' = retired \cup Kept(call[t].name)
          /\ files' = files \ {names[call[t].name]}
      BY <2>6 DEF ServeUnlink
    <3> QED BY <1>i, <3>1, <3>2, TablesRetire
  <2> QED BY <1>0, <1>2, <2>1, <2>2, <2>3, <2>4, <2>5, <2>6, Untouched DEF AtBroker
<1>3. ASSUME NEW p \in Processes, Exit(p) PROVE TablesAgree'
  BY <1>0, <1>3 DEF Exit
<1>4. CASE RestartBroker
  BY <1>4, TablesEmpty DEF RestartBroker
<1> QED BY <1>1, <1>2, <1>3, <1>4 DEF Next, Moves

-----------------------------------------------------------------------------
(* Receipts.                                                               *)

LEMMA ReceiptUpdate ==
    ASSUME TypeOK, NEW r, NEW q, NEW j, receipts' = [receipts EXCEPT ![q][j] = r],
           NEW p \in Processes, NEW i \in Slots
    PROVE  receipts'[p][i] \in {receipts[p][i], r}
BY DEF TypeOK

LEMMA HoldsAfter ==
    ASSUME TypeOK, Calls, TablesAgree, NEW t \in Threads, Moves(t),
           NEW s \in Threads, NEW n \in Names, NEW g \in Generations, Holds(s, n, g)'
    PROVE  \/ Holds(s, n, g)
           \/ /\ ServeUnlink(t) /\ pc[t] = "unlink" /\ s = t
              /\ n = call[t].name /\ g = names[n]
<1>t. /\ pc \in [Threads -> PCs] /\ call \in [Threads -> Call]
      /\ receipts \in [Processes -> [Slots -> Receipt \cup {NoReceipt}]]
      /\ ProcessOf[t] \in Processes /\ g # 0
  BY ProcessOfThread DEF TypeOK, Generations
<1>1. CASE \E p \in Processes, i \in Slots :
             /\ receipts'[p][i] # NoReceipt /\ receipts'[p][i].thread = s
             /\ receipts'[p][i].name = n /\ receipts'[p][i].gen = g
  <2>1. PICK p \in Processes, i \in Slots :
             /\ receipts'[p][i] # NoReceipt /\ receipts'[p][i].thread = s
             /\ receipts'[p][i].name = n /\ receipts'[p][i].gen = g
    BY <1>1
  <2>0. CASE receipts'[p][i] = receipts[p][i]
    BY <2>0, <2>1 DEF Holds
  <2>2. CASE \E m \in Names, f \in Flags : SemOpen(t, m, f)
    <3>1. receipts' = receipts
          \/ \E j : receipts' = [receipts EXCEPT ![ProcessOf[t]][j] = NoReceipt]
      BY <2>2 DEF SemOpen, ConsumeUnlinkReceipt
    <3>2. receipts'[p][i] \in {receipts[p][i], NoReceipt}
      BY <3>1, ReceiptUpdate
    <3> QED BY <2>0, <2>1, <3>2
  <2>3. CASE UnlinkFinish(t)
    <3> DEFINE r == [gen |-> call[t].gen, thread |-> t, name |-> call[t].name, at |-> clock]
    <3>1. pc[t] = "record" /\ \E j : receipts' = [receipts EXCEPT ![ProcessOf[t]][j] = r]
      BY <2>3 DEF UnlinkFinish, RecordUnlinkReceipt
    <3>2. r.gen = call[t].gen /\ r.thread = t /\ r.name = call[t].name
      OBVIOUS
    <3> HIDE DEF r
    <3>3. receipts'[p][i] \in {receipts[p][i], r}
      BY <3>1, ReceiptUpdate
    <3> QED BY <2>0, <2>1, <3>1, <3>2, <3>3 DEF Holds
  <2> QED BY <2>0, <2>2, <2>3, Untouched DEF AtReceipts
<1>2. CASE /\ pc'[s] \in {"once", "request"} /\ call'[s].name = n /\ call'[s].receipt = g
  <2>1. CASE s # t
    BY <1>2, <1>t, <2>1, MoverOnly DEF Holds
  <2>2. CASE s = t
    <3>1. CASE \E m \in Names, f \in Flags : SemOpen(t, m, f)
      <4>1. PICK m \in Names, f \in Flags : SemOpen(t, m, f)
        BY <3>1
      <4>2. PICK r \in 0 .. MaxGeneration :
              /\ IF f = "excl" THEN ConsumeUnlinkReceipt(t, m, r) ELSE r = 0
              /\ call'[t] = [NoCall EXCEPT !.name = m, !.flags = f, !.receipt = r]
        BY <1>t, <4>1 DEF SemOpen
      <4>3. m = n /\ r = g
        BY <1>2, <2>2, <4>2 DEF NoCall
      <4>4. PICK i \in OwnReceipts(t, n) : receipts[ProcessOf[t]][i].gen = g
        <5>1. OwnReceipts(t, n) # {} /\ g = receipts[ProcessOf[t]][Min(OwnReceipts(t, n))].gen
          BY <1>t, <4>2, <4>3 DEF ConsumeUnlinkReceipt
        <5>2. OwnReceipts(t, n) \in SUBSET Nat
          BY NamesAssumption DEF OwnReceipts, Slots
        <5> QED BY <5>1, <5>2, MinIsMember
      <4> QED BY <1>t, <2>2, <4>4 DEF OwnReceipts, Holds
    <3>2. CASE ResetBroker(t) \/ ResetDone(t)
      BY <1>2, <1>t, <2>2, <3>2 DEF ResetBroker, ResetDone, Goto, Return, Holds
    <3>3. CASE ~(\E m \in Names, f \in Flags : SemOpen(t, m, f))
               /\ ~ResetBroker(t) /\ ~ResetDone(t)
      <4>1. pc'[t] \notin {"once", "request"}
        <5> USE DEF Goto, Return, Idle
        <5>1. CASE Open(t)
          BY <5>1, <1>t, <3>3 DEF Open, ResetFails, ServeRefusal, ServeJoin, ServeCreate,
             ServeCreateFails, Answer, LookupReuse, Reuse, LookupNone, OpenFile,
             OpenFileFails, Abandon, InsertReuse, InsertNew, Creating
        <5>2. CASE Close(t)
          BY <5>2, <1>t DEF Close, SemClose, ServeClose
        <5>3. CASE Unlink(t)
          BY <5>3, <1>t DEF Unlink, SemUnlink, ServeUnlink, ServeUnlinkMissing, UnlinkFinish
        <5>4. CASE RequestFails(t)
          BY <5>4, <1>t DEF RequestFails
        <5> QED BY <5>1, <5>2, <5>3, <5>4 DEF Moves
      <4> QED BY <1>2, <2>2, <4>1
    <3> QED BY <3>1, <3>2, <3>3
  <2> QED BY <2>1, <2>2
<1>3. CASE pc'[s] = "record" /\ call'[s].name = n /\ call'[s].gen = g
  <2>1. CASE s # t
    BY <1>3, <1>t, <2>1, MoverOnly DEF Holds
  <2>2. CASE s = t
    <3>1. CASE ServeUnlink(t)
      <4>1. pc[t] = "unlink" /\ call'[t].gen = names[call[t].name]
            /\ call'[t].name = call[t].name
        BY <1>3, <1>t, <2>2, <3>1 DEF ServeUnlink, Goto, Return, Call
      <4> QED BY <1>3, <2>2, <3>1, <4>1
    <3>2. CASE ~ServeUnlink(t)
      <4>1. pc'[t] # "record"
        <5> USE DEF Goto, Return, Idle
        <5>1. CASE Open(t)
          BY <5>1, <1>t DEF Open, SemOpen, ResetBroker, ResetFails, ResetDone, ServeRefusal,
             ServeJoin, ServeCreate, ServeCreateFails, Answer, LookupReuse, Reuse, LookupNone,
             OpenFile, OpenFileFails, Abandon, InsertReuse, InsertNew, Creating
        <5>2. CASE Close(t)
          BY <5>2, <1>t DEF Close, SemClose, ServeClose
        <5>3. CASE Unlink(t)
          BY <5>3, <1>t, <3>2 DEF Unlink, SemUnlink, ServeUnlinkMissing, UnlinkFinish
        <5>4. CASE RequestFails(t)
          BY <5>4, <1>t DEF RequestFails
        <5> QED BY <5>1, <5>2, <5>3, <5>4 DEF Moves
      <4> QED BY <1>3, <2>2, <4>1
    <3> QED BY <3>1, <3>2
  <2> QED BY <2>1, <2>2
<1> QED BY <1>1, <1>2, <1>3 DEF Holds

LEMMA ReceiptsPreserved == IInv /\ [Next]_vars => ReceiptsTrue'
<1> SUFFICES ASSUME IInv, [Next]_vars, NEW s \in Threads, NEW n \in Names,
                    NEW g \in Generations, Holds(s, n, g)'
             PROVE  g <= next' /\ g \notin files' /\ (expected'[n] = g => unlinker'[n] = s)
  BY DEF ReceiptsTrue
<1>i. TypeOK /\ Calls /\ Handled /\ Numbered /\ TablesAgree /\ ReceiptsTrue
  BY DEF IInv
<1>t. /\ expected \in [Names -> 0 .. MaxGeneration] /\ next \in Nat /\ g \in Nat /\ g # 0
      /\ unlinker \in [Names -> Threads \cup {NoThread}]
  BY <1>i, NamesAssumption DEF TypeOK, Generations
<1>0. ASSUME Holds(s, n, g)
      PROVE  g <= next /\ g \notin files /\ (expected[n] = g => unlinker[n] = s)
  BY <1>0, <1>i DEF ReceiptsTrue
<1>1. CASE UNCHANGED vars
  BY <1>0, <1>1 DEF Holds, vars, broker, threads, client, ghosts
<1>2. ASSUME NEW t \in Threads, Moves(t)
      PROVE  g <= next' /\ g \notin files' /\ (expected'[n] = g => unlinker'[n] = s)
  <2>n. next' = next \/ next' = next + 1
    BY <1>2, <1>i, Grows
  <2>1. CASE ServeUnlink(t) /\ pc[t] = "unlink" /\ s = t
             /\ n = call[t].name /\ g = names[n]
    <3>1. g <= next
      BY <1>i, <2>1 DEF Numbered
    <3>2. g \notin files' /\ next' = next /\ unlinker'[n] = s
      BY <1>t, <2>1 DEF ServeUnlink
    <3> QED BY <3>1, <3>2
  <2>2. CASE Holds(s, n, g)
    <3>1. g <= next /\ g \notin files /\ (expected[n] = g => unlinker[n] = s)
      BY <1>0, <2>2
    <3>2. g <= next' /\ g \notin files'
      BY <1>2, <1>i, <1>t, <2>n, <3>1, FilesOfOld
    <3>3. CASE ServeUnlink(t)
      <4>1. /\ expected' = [expected EXCEPT ![call[t].name] = names[call[t].name]]
            /\ names[call[t].name] # 0 /\ call[t].name \in Names
            /\ \E u : unlinker' = [unlinker EXCEPT ![call[t].name] = u]
        BY <1>i, <3>3, NameInTable DEF ServeUnlink, Naming
      <4>2. names[call[t].name] \in files
        BY <1>i, <4>1 DEF TablesAgree
      <4> QED BY <1>t, <3>1, <3>2, <4>1, <4>2
    <3>4. CASE ~ServeUnlink(t)
      <4>1. unlinker' = unlinker
        BY <1>2, <3>4, Untouched
      <4>2. expected'[n] \in {0, expected[n]}
        <5>1. CASE ResetBroker(t)
          BY <5>1 DEF ResetBroker, ResetNamespace, broker
        <5>2. CASE ServeCreate(t) \/ ServeCreateFails(t)
          <6>1. ConsumeExpected(call[t])
            BY <5>2 DEF ServeCreate, ServeCreateFails
          <6> QED BY <1>t, <6>1 DEF ConsumeExpected
        <5>3. CASE ServeJoin(t) \/ ServeClose(t)
          BY <5>3 DEF ServeJoin, ServeClose
        <5> QED BY <1>2, <3>4, <5>1, <5>2, <5>3, Untouched DEF AtBroker, broker
      <4> QED BY <1>t, <3>1, <3>2, <4>1, <4>2
    <3> QED BY <3>3, <3>4
  <2> QED BY <1>2, <1>i, <2>1, <2>2, HoldsAfter
<1>3. ASSUME NEW p \in Processes, Exit(p)
      PROVE  g <= next' /\ g \notin files' /\ (expected'[n] = g => unlinker'[n] = s)
  <2>1. /\ UNCHANGED broker /\ unlinker' = unlinker
        /\ pc'[s] = "dead" \/ (pc'[s] = pc[s] /\ call'[s] = call[s])
        /\ receipts' = [receipts EXCEPT ![p] = [i \in Slots |-> NoReceipt]]
    BY <1>3, <1>i DEF Exit, TypeOK
  <2>2. \A q \in Processes, i \in Slots : receipts'[q][i] \in {receipts[q][i], NoReceipt}
    BY <1>i, <2>1 DEF TypeOK
  <2>3. Holds(s, n, g)
    BY <2>1, <2>2 DEF Holds
  <2> QED BY <1>0, <2>1, <2>3 DEF broker
<1>4. CASE RestartBroker
  BY <1>0, <1>4, <1>t DEF Holds, RestartBroker, threads, client, ghosts
<1> QED BY <1>1, <1>2, <1>3, <1>4 DEF Next, Moves

-----------------------------------------------------------------------------
(* Launches.                                                               *)

(* Two live processes whose launches have started are of one launch.       *)
LEMMA OneLaunch ==
    ASSUME NEW p \in Processes, NEW q \in Processes, Alive(p), Alive(q),
           Launched(p), Launched(q)
    PROVE  EpochOf[p] = EpochOf[q]
<1>1. EpochOf[p] \in Nat /\ EpochOf[q] \in Nat
  BY NamesAssumption
<1>2. ~(EpochOf[p] < EpochOf[q]) /\ ~(EpochOf[q] < EpochOf[p])
  BY DEF Alive, Launched
<1> QED BY <1>1, <1>2

LEMMA LivesAfter ==
    ASSUME TypeOK, NEW t \in Threads, Moves(t)
    PROVE  /\ \A p \in Processes : Launched(p) => Launched(p)'
           /\ \A p \in Processes : Alive(p)' <=> Alive(p)
           /\ Alive(ProcessOf[t])
<1>1. \A s \in Threads : pc'[s] = "dead" <=> pc[s] = "dead"
  BY MoverOnly DEF TypeOK
<1> QED BY <1>1, MoverOnly DEF Launched, Alive

LEMMA MoverLaunched ==
    ASSUME TypeOK, Launches, NEW t \in Threads, Moves(t)
    PROVE  Launched(ProcessOf[t])
<1>1. CASE pc[t] \notin {"idle", "dead"}
  BY <1>1 DEF Launches
<1>2. CASE pc[t] = "idle"
  <2> USE DEF Idle
  <2>1. CASE Open(t)
    BY <1>2, <2>1 DEF Open, SemOpen, ResetBroker, ResetFails, ResetDone, ServeRefusal,
       ServeJoin, ServeCreate, ServeCreateFails, LookupReuse, LookupNone,
       OpenFile, OpenFileFails, InsertReuse, InsertNew, Creating
  <2>2. CASE Close(t)
    BY <1>2, <2>2 DEF Close, SemClose, ServeClose, Closes
  <2>3. CASE Unlink(t)
    BY <1>2, <2>3 DEF Unlink, SemUnlink, ServeUnlink, ServeUnlinkMissing, UnlinkFinish
  <2>4. CASE RequestFails(t)
    BY <1>2, <2>4 DEF RequestFails, Closes
  <2> QED BY <2>1, <2>2, <2>3, <2>4 DEF Moves
<1> QED BY <1>1, <1>2, MoverOnly

NamesOfEpoch == \A n \in Names : epoch # 0 /\ names[n] # 0 => birth[names[n]] = epoch

(* At a reset all the processes that have reset before are of the launch   *)
(* that asks; the broker forgets the names unless it serves it already.    *)
LEMMA LaunchesAtReset ==
    ASSUME TypeOK, Launches, NEW t \in Threads, Moves(t), ResetBroker(t),
           NEW p \in Processes, once'[p] = "ok"
    PROVE  /\ Launched(p)'
           /\ Alive(p)' => Serves(p)'
           /\ NamesOfEpoch'
<1> DEFINE q == ProcessOf[t]
<1>0. q \in Processes /\ Launched(q) /\ EpochOf[q] \in Nat \ {0}
  BY ProcessOfThread, MoverLaunched, NamesAssumption
<1>1. Launched(p)
  BY <1>0 DEF ResetBroker, Launches, TypeOK
<1>2. ResetNamespace(EpochOf[q]) /\ birth' = birth
  BY DEF ResetBroker, ghosts
<1>3. epoch' = EpochOf[q] /\ NamesOfEpoch'
  <2>1. CASE epoch = EpochOf[q]
    BY <1>2, <2>1 DEF ResetNamespace, Launches, NamesOfEpoch, broker
  <2>2. CASE epoch # EpochOf[q]
    BY <1>2, <2>2 DEF ResetNamespace, NamesOfEpoch
  <2> QED BY <2>1, <2>2
<1>4. Alive(p)' => EpochOf[p] = EpochOf[q]
  BY <1>0, <1>1, LivesAfter, OneLaunch
<1> QED BY <1>0, <1>1, <1>3, <1>4, LivesAfter DEF Serves, NamesOfEpoch

LEMMA LaunchesAtCreate ==
    ASSUME TypeOK, Calls, Numbered, TablesAgree, Launches, NEW t \in Threads, Moves(t),
           ServeCreate(t)
    PROVE  /\ \A p \in Processes : once[p] = "ok" /\ Alive(p) => Serves(p)'
           /\ NamesOfEpoch'
<1> DEFINE q == ProcessOf[t]
           n == call[t].name
           g == next + 1
<1>0. q \in Processes /\ Launched(q) /\ Alive(q) /\ once[q] = "ok"
  BY ProcessOfThread, MoverLaunched, LivesAfter
     DEF Calls, CallOK, Admitted, ServeCreate, Creating
<1>1. /\ g \in Generations /\ names' = [names EXCEPT ![n] = g]
      /\ birth' = [birth EXCEPT ![g] = EpochOf[q]] /\ UNCHANGED <<epoch, restarts>>
      /\ n \in Names
  BY NameInTable, NamesAssumption
     DEF TypeOK, ServeCreate, Creating, Generations, Naming, bounds
<1>t. /\ names \in [Names -> 0 .. MaxGeneration] /\ next \in Nat
      /\ DOMAIN birth = Generations
  BY NamesAssumption DEF TypeOK
<1>2. \A m \in Names : m # n /\ names[m] # 0 =>
                         names'[m] = names[m] /\ birth'[names[m]] = birth[names[m]]
  <2>1. \A m \in Names : names[m] # g
    BY <1>t DEF Numbered
  <2> QED BY <1>1, <1>t, <2>1
<1>3. names'[n] = g /\ birth'[g] = EpochOf[q]
  BY <1>1, <1>t
<1>4. \A m \in Names : m # n => names'[m] = names[m]
  BY <1>1, <1>t
<1>5. Serves(q)
  BY <1>0 DEF Launches
<1> HIDE DEF q, n, g
<1>6. \A p \in Processes : once[p] = "ok" /\ Alive(p) => EpochOf[p] = EpochOf[q] /\ Serves(p)
  BY <1>0, OneLaunch DEF Launches
<1>7. \A p \in Processes : once[p] = "ok" /\ Alive(p) => Serves(p)'
  BY <1>1, <1>2, <1>3, <1>4, <1>6 DEF Serves
<1>8. NamesOfEpoch'
  BY <1>1, <1>2, <1>3, <1>4, <1>5 DEF Serves, NamesOfEpoch, Launches
<1> QED BY <1>7, <1>8

LEMMA LaunchesPreserved == IInv /\ [Next]_vars => Launches'
<1> SUFFICES ASSUME IInv, [Next]_vars PROVE Launches'
  OBVIOUS
<1>i. TypeOK /\ Calls /\ Numbered /\ TablesAgree /\ Launches
  BY DEF IInv
<1>1. CASE UNCHANGED vars
  BY <1>1, <1>i DEF Launches, Launched, Alive, Serves, vars, broker, threads, client, ghosts, bounds
<1>2. ASSUME NEW t \in Threads, Moves(t) PROVE Launches'
  <2>1. ASSUME NEW s \in Threads, pc'[s] \notin {"idle", "dead"} PROVE Launched(ProcessOf[s])'
    <3>1. Launched(ProcessOf[s])
      BY <1>2, <1>i, <2>1, MoverLaunched, MoverOnly DEF Launches, TypeOK
    <3> QED BY <1>2, <1>i, <3>1, LivesAfter, ProcessOfThread
  <2>2. ASSUME NEW p \in Processes, once'[p] = "ok" PROVE Launched(p)'
    <3>1. CASE ResetBroker(t)
      BY <1>2, <1>i, <2>2, <3>1, LaunchesAtReset
    <3>2. CASE once[p] = "ok"
      BY <1>2, <1>i, <3>2, LivesAfter DEF Launches
    <3>3. CASE ResetFails(t)
      BY <1>i, <2>2, <3>2, <3>3 DEF ResetFails, TypeOK
    <3> QED BY <1>2, <2>2, <3>1, <3>2, <3>3, Untouched
  <2>3. ASSUME NEW p \in Processes, once'[p] = "ok", Alive(p)' PROVE Serves(p)'
    <3>1. CASE ResetBroker(t)
      BY <1>2, <1>i, <2>3, <3>1, LaunchesAtReset
    <3>2. CASE ~ResetBroker(t)
      <4>1. once[p] = "ok" /\ Alive(p) /\ Serves(p)
        BY <1>2, <1>i, <2>3, <3>2, LivesAfter, Untouched DEF ResetFails, TypeOK, Launches
      <4>2. CASE ServeCreate(t)
        BY <1>2, <1>i, <4>1, <4>2, LaunchesAtCreate
      <4>3. CASE ~ServeCreate(t)
        <5>1. birth' = birth /\ UNCHANGED <<epoch, restarts>>
          BY <1>2, <3>2, <4>3, Untouched DEF AtBroker, broker, ServeJoin, ServeCreateFails,
             ServeClose, ServeUnlink
        <5>2. \A n \in Names : names'[n] \in {0, names[n]}
          BY <1>2, <1>i, <4>3, NamesAfter
        <5> QED BY <4>1, <5>1, <5>2 DEF Serves
      <4> QED BY <4>2, <4>3
    <3> QED BY <3>1, <3>2
  <2>4. NamesOfEpoch'
    <3>1. CASE ResetBroker(t)
      <4>1. ProcessOf[t] \in Processes /\ once'[ProcessOf[t]] = "ok"
        BY <1>i, <3>1, ProcessOfThread DEF ResetBroker, TypeOK
      <4> QED BY <1>2, <1>i, <3>1, <4>1, LaunchesAtReset
    <3>2. CASE ServeCreate(t)
      BY <1>2, <1>i, <3>2, LaunchesAtCreate
    <3>3. CASE ~ResetBroker(t) /\ ~ServeCreate(t)
      <4>1. birth' = birth /\ epoch' = epoch
        BY <1>2, <3>3, Untouched DEF AtBroker, broker, ServeJoin, ServeCreateFails,
           ServeClose, ServeUnlink
      <4>2. \A n \in Names : names'[n] \in {0, names[n]}
        BY <1>2, <1>i, <3>3, NamesAfter
      <4> QED BY <1>i, <4>1, <4>2 DEF NamesOfEpoch, Launches
    <3> QED BY <3>1, <3>2, <3>3
  <2> QED BY <2>1, <2>2, <2>3, <2>4 DEF Launches, NamesOfEpoch
<1>3. ASSUME NEW p \in Processes, Exit(p) PROVE Launches'
  <2>1. /\ UNCHANGED <<broker, once, birth, restarts>>
        /\ \A s \in Threads : pc'[s] = "dead" \/ pc'[s] = pc[s]
        /\ \A s \in Threads : pc[s] = "dead" => pc'[s] = "dead"
    BY <1>3, <1>i DEF Exit, TypeOK
  <2>2. \A q : (Launched(q) => Launched(q)') /\ (Alive(q)' => Alive(q))
    BY <2>1 DEF Launched, Alive
  <2>3. \A q : Serves(q) => Serves(q)'
    BY <2>1 DEF Serves, broker
  <2> QED BY <1>i, <2>1, <2>2, <2>3 DEF Launches, broker
<1>4. CASE RestartBroker
  <2>1. /\ UNCHANGED <<pc, once>> /\ epoch' = 0 /\ restarts' # 0
        /\ \A n \in Names : names'[n] = 0
    BY <1>4, <1>i, NamesAssumption DEF RestartBroker, threads, client, TypeOK
  <2>2. \A p : (Launched(p) => Launched(p)') /\ Serves(p)'
    BY <2>1 DEF Launched, Serves
  <2> QED BY <1>i, <2>1, <2>2 DEF Launches
<1> QED BY <1>1, <1>2, <1>3, <1>4 DEF Next, Moves

LEMMA BirthsPreserved == IInv /\ [Next]_vars => Births'
<1> SUFFICES ASSUME IInv, [Next]_vars PROVE Births'
  OBVIOUS
<1>i. TypeOK /\ Calls /\ Handled /\ Numbered /\ TablesAgree /\ Launches /\ Births
  BY DEF IInv
<1>1. CASE UNCHANGED vars
  BY <1>1, <1>i DEF Births, Alive, vars, broker, threads, client, ghosts
<1>2. ASSUME NEW t \in Threads, Moves(t) PROVE Births'
  <2>0. \A g \in Generations : g <= next => birth'[g] = birth[g]
    <3>1. CASE ServeCreate(t)
      <4>1. birth' = [birth EXCEPT ![next + 1] = EpochOf[ProcessOf[t]]]
        BY <3>1 DEF ServeCreate
      <4> QED BY <1>i, <4>1, NamesAssumption DEF TypeOK, Generations
    <3> QED BY <1>2, <3>1, Untouched
  <2>1. ASSUME NEW h \in HandleIDs, handles'[h] # NoHandle
        PROVE  /\ birth'[handles'[h].gen] = EpochOf[handles'[h].process]
               /\ once'[handles'[h].process] = "ok" /\ Alive(handles[h].process)'
    <3>1. CASE handles[h] # NoHandle /\ handles'[h].gen = handles[h].gen
               /\ handles'[h].process = handles[h].process
      <4>1. /\ handles[h].gen \in Generations /\ handles[h].gen <= next
            /\ handles[h].process \in Processes
        BY <1>i, <3>1, HandleFields DEF Numbered, Handle
      <4> QED BY <1>2, <1>i, <2>0, <3>1, <4>1, LivesAfter, Grows DEF Births
    <3>2. CASE /\ pc[t] = "insert" /\ handles'[h].gen = call[t].gen
               /\ handles'[h].process = ProcessOf[t]
      <4>1. call[t].gen \in Generations /\ call[t].gen <= next /\ once[ProcessOf[t]] = "ok"
            /\ birth[call[t].gen] = EpochOf[ProcessOf[t]]
        BY <1>i, <3>2, NamesAssumption
           DEF Calls, CallOK, Owning, Admitted, Opening, TypeOK, Generations, Births
      <4> QED BY <1>2, <1>i, <2>0, <3>2, <4>1, LivesAfter, Grows, ProcessOfThread
    <3> QED BY <1>2, <1>i, <2>1, <3>1, <3>2, HandleGens
  <2>2. ASSUME NEW s \in Threads, pc'[s] \in Opening
        PROVE  birth'[call'[s].gen] = EpochOf[ProcessOf[s]]
    <3>1. CASE pc[s] \in Opening /\ call'[s] = call[s]
      <4>1. call[s].gen \in Generations /\ call[s].gen <= next
        BY <1>i, <3>1, NamesAssumption DEF Calls, CallOK, Owning, Opening, TypeOK, Generations
      <4> QED BY <1>i, <2>0, <3>1, <4>1 DEF Births
    <3>2. CASE s # t
      BY <1>2, <1>i, <2>2, <3>1, <3>2, MoverOnly DEF TypeOK
    <3>3. CASE s = t
      <4>1. CASE /\ ServeJoin(t) /\ call'[t].gen = names[call[t].name]
                 /\ names[call[t].name] # 0
        <5>1. /\ call[t].name \in Names /\ names[call[t].name] \in Generations
              /\ names[call[t].name] <= next
          BY <1>i, <4>1, NameInTable DEF ServeJoin, Naming
        <5>2. Serves(ProcessOf[t])
          BY <1>2, <1>i, <4>1, LivesAfter, ProcessOfThread
             DEF ServeJoin, Calls, CallOK, Admitted, Launches
        <5> QED BY <2>0, <3>3, <4>1, <5>1, <5>2 DEF Serves
      <4>2. CASE ServeCreate(t) /\ call'[t].gen = next + 1
        <5>1. birth' = [birth EXCEPT ![next + 1] = EpochOf[ProcessOf[t]]]
          BY <4>2 DEF ServeCreate
        <5>2. next + 1 \in Generations
          BY <1>i, <4>2, NamesAssumption DEF TypeOK, ServeCreate, Creating, Generations
        <5> QED BY <1>i, <3>3, <4>2, <5>1, <5>2 DEF TypeOK
      <4> QED BY <1>2, <1>i, <2>2, <3>1, <3>3, <4>1, <4>2, OpeningAfter
    <3> QED BY <3>2, <3>3
  <2> QED BY <2>1, <2>2 DEF Births
<1>3. ASSUME NEW p \in Processes, Exit(p) PROVE Births'
  <2>1. /\ UNCHANGED <<birth, once>>
        /\ \A h \in HandleIDs : handles'[h] = NoHandle
             \/ (handles'[h] = handles[h] /\ handles[h].process # p)
        /\ \A s \in Threads : (ProcessOf[s] = p /\ pc'[s] = "dead")
             \/ (ProcessOf[s] # p /\ pc'[s] = pc[s] /\ call'[s] = call[s])
    BY <1>3, <1>i DEF Exit, TypeOK
  <2>2. \A q : q # p => (Alive(q)' <=> Alive(q))
    BY <2>1 DEF Alive
  <2> QED BY <1>i, <2>1, <2>2 DEF Births, Opening
<1>4. CASE RestartBroker
  BY <1>4, <1>i DEF Births, Alive, RestartBroker, threads, client, ghosts
<1> QED BY <1>1, <1>2, <1>3, <1>4 DEF Next, Moves

-----------------------------------------------------------------------------
(* References.                                                             *)

Owns(t, g) == pc[t] \in Owning /\ call[t].gen = g

LEMMA OwnersCounted ==
    \A g : /\ Owners(g) = Cardinality(HandlesOf(g)) + Cardinality(CallsOf(g))
           /\ Owners(g)' = Cardinality(HandlesOf(g)') + Cardinality(CallsOf(g)')
BY DEF Owners, HandlesOf, CallsOf

(* The calls that own a generation, after a step of t, differ in t only.   *)
LEMMA CallsCount ==
    ASSUME TypeOK, NEW t \in Threads, Moves(t), NEW g
    PROVE  /\ (Owns(t, g)' <=> Owns(t, g)) => CallsOf(g)' = CallsOf(g)
           /\ ~Owns(t, g) /\ Owns(t, g)' =>
                Cardinality(CallsOf(g)') = Cardinality(CallsOf(g)) + 1
           /\ Owns(t, g) /\ ~Owns(t, g)' =>
                Cardinality(CallsOf(g)') = Cardinality(CallsOf(g)) - 1
<1>1. \A s \in Threads \ {t} : pc'[s] = pc[s] /\ call'[s] = call[s]
  BY MoverOnly DEF TypeOK
<1>2. (Owns(t, g)' <=> Owns(t, g)) => CallsOf(g)' = CallsOf(g)
  BY <1>1 DEF Owns, CallsOf
<1>3. ASSUME ~Owns(t, g), Owns(t, g)'
      PROVE  Cardinality(CallsOf(g)') = Cardinality(CallsOf(g)) + 1
  <2>1. CallsOf(g)' = CallsOf(g) \cup {t} /\ t \notin CallsOf(g)
    BY <1>1, <1>3 DEF Owns, CallsOf
  <2> QED BY <2>1, SetsAreFinite, FS_AddElement
<1>4. ASSUME Owns(t, g), ~Owns(t, g)'
      PROVE  Cardinality(CallsOf(g)') = Cardinality(CallsOf(g)) - 1
  <2>1. CallsOf(g)' = CallsOf(g) \ {t} /\ t \in CallsOf(g)
    BY <1>1, <1>4 DEF Owns, CallsOf
  <2> QED BY <2>1, SetsAreFinite, FS_RemoveElement
<1> QED BY <1>2, <1>3, <1>4

(* Likewise the handles, after a step that changes the generation of h.    *)
LEMMA HandlesCount ==
    ASSUME NEW h \in HandleIDs, \A k \in HandleIDs \ {h} : handles'[k].gen = handles[k].gen,
           NEW g
    PROVE  /\ (handles'[h].gen = g <=> handles[h].gen = g) => HandlesOf(g)' = HandlesOf(g)
           /\ handles[h].gen # g /\ handles'[h].gen = g =>
                Cardinality(HandlesOf(g)') = Cardinality(HandlesOf(g)) + 1
           /\ handles[h].gen = g /\ handles'[h].gen # g =>
                Cardinality(HandlesOf(g)') = Cardinality(HandlesOf(g)) - 1
<1>2. (handles'[h].gen = g <=> handles[h].gen = g) => HandlesOf(g)' = HandlesOf(g)
  BY DEF HandlesOf
<1>3. ASSUME handles[h].gen # g, handles'[h].gen = g
      PROVE  Cardinality(HandlesOf(g)') = Cardinality(HandlesOf(g)) + 1
  <2>1. HandlesOf(g)' = HandlesOf(g) \cup {h} /\ h \notin HandlesOf(g)
    BY <1>3 DEF HandlesOf
  <2> QED BY <2>1, SetsAreFinite, FS_AddElement
<1>4. ASSUME handles[h].gen = g, handles'[h].gen # g
      PROVE  Cardinality(HandlesOf(g)') = Cardinality(HandlesOf(g)) - 1
  <2>1. HandlesOf(g)' = HandlesOf(g) \ {h} /\ h \in HandlesOf(g)
    BY <1>4 DEF HandlesOf
  <2> QED BY <2>1, SetsAreFinite, FS_RemoveElement
<1> QED BY <1>2, <1>3, <1>4

(* Steps that change the owner of a reference, or their number.            *)
Trades(t) == \/ ServeJoin(t) \/ ServeCreate(t) \/ InsertNew(t) \/ SemClose(t)
             \/ ServeClose(t) \/ RequestFails(t)

LEMMA OwnersKept ==
    ASSUME TypeOK, Calls, Handled, NEW t \in Threads, Moves(t), ~Trades(t)
    PROVE  /\ \A g : Owns(t, g)' <=> Owns(t, g)
           /\ \A g : CallsOf(g)' = CallsOf(g)
           /\ \A g : HandlesOf(g)' = HandlesOf(g)
           /\ leaked' = leaked
           /\ UNCHANGED <<references, table>>
              \/ table' = {} \/ (references' = references /\ table' \subseteq table)
<1>t. pc \in [Threads -> PCs] /\ call \in [Threads -> Call]
  BY DEF TypeOK
<1>1. \A g : Owns(t, g)' <=> Owns(t, g)
  <2> USE DEF Goto, Return, Idle, Owns, Owning
  <2>1. CASE Open(t)
    BY <1>t, <2>1 DEF Trades, Open, SemOpen, ResetBroker, ResetFails, ResetDone, ServeRefusal,
       ServeCreateFails, Creating, LookupReuse, Reuse, LookupNone, OpenFile, OpenFileFails,
       Abandon, InsertReuse
  <2>2. CASE Unlink(t)
    <3>1. CASE ServeUnlink(t)
      <4>1. \/ pc[t] = "unlink" /\ pc'[t] = "record"
            \/ pc[t] = "cleanup" /\ pc'[t] = "drop" /\ call' = call
        BY <1>t, <3>1 DEF ServeUnlink
      <4> QED BY <4>1
    <3> QED BY <1>t, <2>2, <3>1 DEF Unlink, SemUnlink, ServeUnlinkMissing, UnlinkFinish
  <2> QED BY <2>1, <2>2 DEF Moves, Trades, Close
<1>2. \A g : CallsOf(g)' = CallsOf(g)
  BY <1>1, CallsCount
<1>3. \A h \in HandleIDs : handles'[h].gen = handles[h].gen
  BY HandleGens DEF Trades
<1>4. leaked' = leaked
  BY Untouched DEF Trades
<1>5. \/ UNCHANGED <<references, table>>
      \/ table' = {} \/ (references' = references /\ table' \subseteq table)
  BY Untouched DEF Trades, AtBroker, broker, ResetBroker, ResetNamespace, ServeCreateFails,
     ServeUnlink
<1> QED BY <1>1, <1>2, <1>3, <1>4, <1>5 DEF HandlesOf

(* A reference passes from the call to its new handle and back.            *)
LEMMA InsertCount ==
    ASSUME TypeOK, Calls, Handled, NEW t \in Threads, InsertNew(t), NEW g \in Generations
    PROVE  Owners(g)' = Owners(g)
<1>0. /\ Moves(t) /\ pc[t] = "insert" /\ pc'[t] = "idle" /\ Owns(t, call[t].gen)
      /\ \A k : ~Owns(t, k)'
  BY DEF Moves, Open, InsertNew, Return, Goto, TypeOK, Owns, Owning
<1>1. PICK h \in HandleIDs :
        /\ handles[h] = NoHandle
        /\ handles'[h] = [process |-> ProcessOf[t], name |-> call[t].name,
                          gen |-> call[t].gen, referenceCount |-> 1, unlinked |-> FALSE]
        /\ \A k \in HandleIDs \ {h} : handles'[k] = MarkGone(t)[k]
  BY InsertNewHandle
<1>2. ASSUME NEW k \in HandleIDs \ {h} PROVE handles'[k].gen = handles[k].gen
  <2>1. \/ handles'[k] = handles[k]
        \/ handles[k] # NoHandle /\ handles'[k] = [handles[k] EXCEPT !.unlinked = TRUE]
    BY <1>1, MarkGoneMarks
  <2> QED BY <2>1, MarkedType
<1>3. handles[h].gen # g /\ handles'[h].gen = call[t].gen
  BY <1>1 DEF NoHandle, Generations
<1>4. /\ Cardinality(CallsOf(g)) \in Nat /\ Cardinality(CallsOf(g)') \in Int
      /\ Cardinality(HandlesOf(g)) \in Nat
  BY SetsAreFinite, <1>0, CallsCount
<1>5. CASE call[t].gen = g
  BY <1>0, <1>1, <1>2, <1>3, <1>4, <1>5, CallsCount, HandlesCount, OwnersCounted
<1>6. CASE call[t].gen # g
  <2>1. ~Owns(t, g)
    BY <1>6 DEF Owns
  <2> QED BY <1>0, <1>1, <1>2, <1>3, <1>6, <2>1, CallsCount, HandlesCount, OwnersCounted
<1> QED BY <1>5, <1>6

LEMMA LastCloseCount ==
    ASSUME TypeOK, Handled, NEW t \in Threads, SemClose(t), NEW g \in Generations
    PROVE  Owners(g)' = Owners(g)
<1>0. /\ Moves(t) /\ pc[t] = "idle" /\ \A k : ~Owns(t, k)
      /\ mine[t] \in HandleIDs /\ handles[mine[t]] # NoHandle
      /\ handles \in [HandleIDs -> Handle \cup {NoHandle}]
  BY DEF Moves, Close, SemClose, Idle, TypeOK, Owns, Owning, Handled, MineOK
<1>1. PICK h \in HandleIDs : h = mine[t]
  BY <1>0
<1>2. handles[h] \in Handle /\ handles[h].gen # 0
  BY <1>0, <1>1, HandleFields
<1>3. \A k \in HandleIDs \ {h} : handles'[k].gen = handles[k].gen
  BY <1>0, <1>1 DEF SemClose
<1>4. CASE handles[h].referenceCount > 1
  <2>1. handles'[h].gen = handles[h].gen /\ pc' = pc
    BY <1>0, <1>1, <1>2, <1>4 DEF SemClose, Handle
  <2>2. \A k : ~Owns(t, k)'
    BY <1>0, <2>1 DEF Owns, Owning
  <2> QED BY <1>0, <1>3, <2>1, <2>2, CallsCount, HandlesCount, OwnersCounted
<1>5. CASE ~(handles[h].referenceCount > 1)
  <2>1. handles'[h].gen = 0 /\ pc'[t] = "closing" /\ call'[t].gen = handles[h].gen
    BY <1>0, <1>1, <1>2, <1>5 DEF SemClose, Goto, NoHandle, TypeOK, Call
  <2>2. \A k : Owns(t, k)' <=> k = handles[h].gen
    BY <2>1 DEF Owns, Owning
  <2>3. /\ Cardinality(CallsOf(g)) \in Nat /\ Cardinality(HandlesOf(g)) \in Nat
    BY SetsAreFinite
  <2>4. CASE handles[h].gen = g
    BY <1>0, <1>3, <2>1, <2>2, <2>3, <2>4, CallsCount, HandlesCount, OwnersCounted DEF Generations
  <2>5. CASE handles[h].gen # g
    BY <1>0, <1>3, <2>1, <2>2, <2>3, <2>5, CallsCount, HandlesCount, OwnersCounted DEF Generations
  <2> QED BY <2>4, <2>5
<1> QED BY <1>4, <1>5

LEMMA OwnerCounts ==
    /\ \A t \in Threads : \A g : Owns(t, g) => Cardinality(CallsOf(g)) >= 1
    /\ \A h \in HandleIDs : \A g : handles[h].gen = g => Cardinality(HandlesOf(g)) >= 1
    /\ \A s, t \in Threads : \A g : s # t /\ Owns(s, g) /\ Owns(t, g) => Cardinality(CallsOf(g)) >= 2
<1>1. ASSUME NEW t \in Threads, NEW g, Owns(t, g) PROVE Cardinality(CallsOf(g)) >= 1
  <2>1. CallsOf(g) # {}
    BY <1>1 DEF Owns, CallsOf
  <2> QED BY <2>1, SetsAreFinite, FS_EmptySet
<1>2. ASSUME NEW h \in HandleIDs, NEW g, handles[h].gen = g PROVE Cardinality(HandlesOf(g)) >= 1
  <2>1. HandlesOf(g) # {}
    BY <1>2 DEF HandlesOf
  <2> QED BY <2>1, SetsAreFinite, FS_EmptySet
<1>3. ASSUME NEW s \in Threads, NEW t \in Threads, NEW g, s # t, Owns(s, g), Owns(t, g)
      PROVE  Cardinality(CallsOf(g)) >= 2
  <2>1. t \in CallsOf(g) /\ CallsOf(g) \ {t} # {}
    BY <1>3 DEF Owns, CallsOf
  <2>2. /\ IsFiniteSet(CallsOf(g) \ {t})
        /\ Cardinality(CallsOf(g) \ {t}) = Cardinality(CallsOf(g)) - 1
    BY <2>1, SetsAreFinite, FS_RemoveElement
  <2>3. Cardinality(CallsOf(g) \ {t}) # 0 /\ Cardinality(CallsOf(g) \ {t}) \in Nat
    BY <2>1, <2>2, FS_EmptySet, FS_CardinalityType
  <2> QED BY <2>2, <2>3, SetsAreFinite
<1> QED BY <1>1, <1>2, <1>3

LEMMA CountTypes ==
    ASSUME TypeOK, NEW g \in Generations
    PROVE  /\ Cardinality(HandlesOf(g)) \in Nat /\ Cardinality(CallsOf(g)) \in Nat
           /\ references[g] \in Nat /\ leaked[g] \in Nat /\ Owners(g) \in Nat
BY SetsAreFinite, OwnersCounted DEF TypeOK

LEMMA ReferencesAtJoin ==
    ASSUME TypeOK, Calls, Numbered, TablesAgree, ReferencesExact,
           NEW t \in Threads, ServeJoin(t)
    PROVE  ReferencesExact'
<1>1. PICK k \in Generations :
      /\ k = names[call[t].name] /\ references' = [references EXCEPT ![k] = @ + 1]
  BY NameInTable DEF ServeJoin, Naming
<1>2. /\ Moves(t) /\ UNCHANGED <<table, handles, leaked>>
      /\ \A g : ~Owns(t, g) /\ (Owns(t, g)' <=> g = k)
  BY <1>1 DEF Moves, Open, ServeJoin, Answer, Goto, client, ghosts, TypeOK, Call, Owns, Owning
<1> SUFFICES ASSUME NEW g \in table' PROVE references'[g] = Owners(g)' + leaked'[g]
  BY DEF ReferencesExact
<1>3. g \in table /\ g \in Generations /\ references[g] = Owners(g) + leaked[g]
      /\ HandlesOf(g)' = HandlesOf(g)
  BY <1>2 DEF ReferencesExact, TypeOK, HandlesOf
<1>4. CASE g = k
  <2>1. references'[g] = references[g] + 1
    BY <1>1, <1>3, <1>4 DEF TypeOK
  <2>2. Cardinality(CallsOf(g)') = Cardinality(CallsOf(g)) + 1
    BY <1>2, <1>4, CallsCount
  <2> QED BY <1>2, <1>3, <2>1, <2>2, OwnersCounted, CountTypes
<1>5. CASE g # k
  <2>1. references'[g] = references[g]
    BY <1>1, <1>3, <1>5 DEF TypeOK
  <2>2. CallsOf(g)' = CallsOf(g)
    BY <1>2, <1>5, CallsCount
  <2> QED BY <1>2, <1>3, <2>1, <2>2, OwnersCounted
<1> QED BY <1>4, <1>5

LEMMA ReferencesAtCreate ==
    ASSUME TypeOK, Calls, Numbered, TablesAgree, ReferencesExact,
           NEW t \in Threads, ServeCreate(t)
    PROVE  ReferencesExact'
<1>1. PICK k \in Generations :
      /\ k = next + 1 /\ k > next /\ references' = [references EXCEPT ![k] = 1]
      /\ table' = (table \ Destroyed(call[t].name)) \cup {k}
  <2>1. next \in Nat /\ next < MaxGeneration /\ MaxGeneration \in Nat
    BY NamesAssumption DEF TypeOK, ServeCreate, Creating
  <2>2. next + 1 \in Generations /\ next + 1 > next
    BY <2>1 DEF Generations
  <2> QED BY <2>2 DEF ServeCreate
<1>2. /\ Moves(t) /\ UNCHANGED <<handles, leaked>>
      /\ \A g : ~Owns(t, g) /\ (Owns(t, g)' <=> g = k)
  BY <1>1 DEF Moves, Open, ServeCreate, Creating, Answer, Goto, client, TypeOK, Call, Owns, Owning
<1> SUFFICES ASSUME NEW g \in table' PROVE references'[g] = Owners(g)' + leaked'[g]
  BY DEF ReferencesExact
<1>3. CASE g = k
  <2>1. references'[g] = 1 /\ leaked'[g] = 0
    BY <1>1, <1>2, <1>3 DEF TypeOK, Numbered
  <2>2. HandlesOf(g)' = {}
    BY <1>1, <1>2, <1>3, HandleFields, NamesAssumption DEF HandlesOf, Numbered, TypeOK
  <2>3. CallsOf(g) = {}
    BY <1>1, <1>3, NamesAssumption DEF CallsOf, Calls, CallOK, TypeOK
  <2>4. Cardinality(CallsOf(g)') = 1
    BY <1>2, <1>3, <2>3, CallsCount, FS_EmptySet
  <2> QED BY <2>1, <2>2, <2>4, OwnersCounted, FS_EmptySet
<1>4. CASE g # k
  <2>1. g \in table /\ g \in Generations /\ references'[g] = references[g]
    BY <1>1, <1>4 DEF TypeOK
  <2>2. CallsOf(g)' = CallsOf(g) /\ HandlesOf(g)' = HandlesOf(g)
    BY <1>2, <1>4, CallsCount DEF HandlesOf
  <2> QED BY <1>2, <2>1, <2>2, OwnersCounted DEF ReferencesExact
<1> QED BY <1>3, <1>4

(* A close: the broker takes the reference back, or it is leaked.          *)
LEMMA ReferencesAtClose ==
    ASSUME TypeOK, Calls, ReferencesExact, NEW t \in Threads, ServeClose(t)
    PROVE  ReferencesExact'
<1>1. PICK k \in Generations : k = call[t].gen
  BY NamesAssumption DEF ServeClose, Closes, Calls, CallOK, Owning, TypeOK, Generations
<1>2. /\ Moves(t) /\ UNCHANGED <<handles, leaked>> /\ DropReference(k)
      /\ \A g : ~Owns(t, g)' /\ (Owns(t, g) <=> g = k)
  BY <1>1 DEF Moves, Close, ServeClose, Closes, Return, Goto, client, ghosts, TypeOK, Owns, Owning
<1>t. references \in [Generations -> Nat]
  BY DEF TypeOK
<1> SUFFICES ASSUME NEW g \in table' PROVE references'[g] = Owners(g)' + leaked'[g]
  BY DEF ReferencesExact
<1>3. /\ g \in table /\ g \in Generations /\ references[g] = Owners(g) + leaked[g]
      /\ HandlesOf(g)' = HandlesOf(g)
  BY <1>2 DEF DropReference, ReferencesExact, TypeOK, HandlesOf
<1>4. CASE g = k
  <2>1. references[k] # 0
    BY <1>2, <1>3, <1>4, OwnerCounts, OwnersCounted, CountTypes
  <2>2. references'[g] = references[g] - 1
    BY <1>2, <1>3, <1>4, <1>t, <2>1 DEF DropReference
  <2>3. Cardinality(CallsOf(g)') = Cardinality(CallsOf(g)) - 1
    BY <1>2, <1>4, CallsCount
  <2> QED BY <1>2, <1>3, <2>2, <2>3, OwnersCounted, CountTypes
<1>5. CASE g # k
  <2>1. references'[g] = references[g]
    BY <1>2, <1>3, <1>5, <1>t DEF DropReference
  <2>2. CallsOf(g)' = CallsOf(g)
    BY <1>2, <1>5, CallsCount
  <2> QED BY <1>2, <1>3, <2>1, <2>2, OwnersCounted
<1> QED BY <1>4, <1>5

LEMMA ReferencesAtFailure ==
    ASSUME TypeOK, Calls, ReferencesExact, NEW t \in Threads, RequestFails(t)
    PROVE  ReferencesExact'
<1>0. Moves(t) /\ UNCHANGED <<handles, table, references>>
  BY DEF Moves, RequestFails, broker, client
<1>t. pc \in [Threads -> PCs] /\ call \in [Threads -> Call] /\ leaked \in [Generations -> Nat]
  BY DEF TypeOK
<1> SUFFICES ASSUME NEW g \in table' PROVE references'[g] = Owners(g)' + leaked'[g]
  BY DEF ReferencesExact
<1>1. /\ g \in table /\ g \in Generations /\ references[g] = Owners(g) + leaked[g]
      /\ HandlesOf(g)' = HandlesOf(g)
  BY <1>0 DEF ReferencesExact, TypeOK, HandlesOf
<1>2. CASE ~Closes(t)
  <2>1. leaked' = leaked /\ (Owns(t, g)' <=> Owns(t, g))
    BY <1>2, <1>t DEF RequestFails, Closes, Return, Goto, Owns, Owning
  <2> QED BY <1>0, <1>1, <2>1, CallsCount, OwnersCounted
<1>3. CASE Closes(t)
  <2>1. /\ leaked' = [leaked EXCEPT ![call[t].gen] = @ + 1] /\ ~Owns(t, g)'
        /\ Owns(t, g) <=> g = call[t].gen
    BY <1>3, <1>t DEF RequestFails, Closes, Return, Goto, Owns, Owning
  <2>2. CASE g = call[t].gen
    <3>1. leaked'[g] = leaked[g] + 1
      BY <1>1, <1>t, <2>1, <2>2
    <3>2. Cardinality(CallsOf(g)') = Cardinality(CallsOf(g)) - 1
      BY <1>0, <2>1, <2>2, CallsCount
    <3> QED BY <1>0, <1>1, <3>1, <3>2, OwnersCounted, CountTypes
  <2>3. CASE g # call[t].gen
    <3>1. leaked'[g] = leaked[g]
      BY <1>1, <1>t, <2>1, <2>3
    <3> QED BY <1>0, <1>1, <2>1, <2>3, <3>1, CallsCount, OwnersCounted
  <2> QED BY <2>2, <2>3
<1> QED BY <1>2, <1>3

LEMMA ReferencesAtExit ==
    ASSUME TypeOK, ReferencesExact, NEW p \in Processes, Exit(p)
    PROVE  ReferencesExact'
<1>1. /\ UNCHANGED <<table, references>>
      /\ leaked' = [g \in Generations |-> leaked[g] + Orphans(p, g)]
      /\ \A h \in HandleIDs : handles'[h] =
            IF handles[h] # NoHandle /\ handles[h].process = p THEN NoHandle ELSE handles[h]
      /\ \A t \in Threads : /\ pc'[t] = IF ProcessOf[t] = p THEN "dead" ELSE pc[t]
                            /\ ProcessOf[t] # p => call'[t] = call[t]
  BY DEF Exit, broker, TypeOK
<1> SUFFICES ASSUME NEW g \in table' PROVE references'[g] = Owners(g)' + leaked'[g]
  BY DEF ReferencesExact
<1>2. g \in table /\ g \in Generations /\ references[g] = Owners(g) + leaked[g] /\ g # 0
  <2>1. g \in table /\ table \subseteq Generations /\ 0 \notin Generations
    BY <1>1 DEF TypeOK, Generations
  <2> QED BY <2>1 DEF ReferencesExact
<1>3. HandlesOf(g)' = HandlesOf(g) \ LostHandles(p, g) /\ LostHandles(p, g) \subseteq HandlesOf(g)
  <2>1. \A h \in HandleIDs : handles[h].gen = g => handles[h] # NoHandle
    BY <1>2 DEF NoHandle
  <2>2. \A h \in HandleIDs : handles'[h].gen = g <=> handles[h].gen = g /\ handles[h].process # p
    BY <1>1, <1>2, <2>1 DEF NoHandle
  <2> QED BY <2>2 DEF HandlesOf, LostHandles
<1>4. CallsOf(g)' = CallsOf(g) \ LostCalls(p, g) /\ LostCalls(p, g) \subseteq CallsOf(g)
  BY <1>1 DEF CallsOf, LostCalls, Owning
<1>5. /\ Cardinality(HandlesOf(g)') = Cardinality(HandlesOf(g)) - Cardinality(LostHandles(p, g))
      /\ Cardinality(LostHandles(p, g)) \in Nat
  <2>1. HandlesOf(g) \cap LostHandles(p, g) = LostHandles(p, g) /\ IsFiniteSet(LostHandles(p, g))
        /\ IsFiniteSet(HandlesOf(g))
    BY <1>3, SetsAreFinite, FS_Subset
  <2>2. Cardinality(HandlesOf(g) \ LostHandles(p, g)) = Cardinality(HandlesOf(g)) - Cardinality(LostHandles(p, g))
    BY <2>1, FS_Difference
  <2> QED BY <1>3, <2>1, <2>2, FS_CardinalityType
<1>6. /\ Cardinality(CallsOf(g)') = Cardinality(CallsOf(g)) - Cardinality(LostCalls(p, g))
      /\ Cardinality(LostCalls(p, g)) \in Nat
  <2>1. CallsOf(g) \cap LostCalls(p, g) = LostCalls(p, g) /\ IsFiniteSet(LostCalls(p, g))
        /\ IsFiniteSet(CallsOf(g))
    BY <1>4, SetsAreFinite, FS_Subset
  <2>2. Cardinality(CallsOf(g) \ LostCalls(p, g)) = Cardinality(CallsOf(g)) - Cardinality(LostCalls(p, g))
    BY <2>1, FS_Difference
  <2> QED BY <1>4, <2>1, <2>2, FS_CardinalityType
<1>7. leaked'[g] = leaked[g] + Cardinality(LostHandles(p, g)) + Cardinality(LostCalls(p, g))
  BY <1>1, <1>2, <1>5, <1>6, OrphansAreLost, CountTypes
<1> QED BY <1>1, <1>2, <1>5, <1>6, <1>7, OwnersCounted, CountTypes

LEMMA ReferencesPreserved == IInv /\ [Next]_vars => ReferencesExact'
<1> SUFFICES ASSUME IInv, [Next]_vars PROVE ReferencesExact'
  OBVIOUS
<1>i. TypeOK /\ Calls /\ Handled /\ Numbered /\ TablesAgree /\ ReferencesExact
  BY DEF IInv
<1>1. CASE UNCHANGED vars
  BY <1>1, <1>i DEF ReferencesExact, Owners, vars, broker, threads, client, ghosts
<1>2. ASSUME NEW t \in Threads, Moves(t) PROVE ReferencesExact'
  <2>1. CASE ServeJoin(t)
    BY <1>i, <2>1, ReferencesAtJoin
  <2>2. CASE ServeCreate(t)
    BY <1>i, <2>2, ReferencesAtCreate
  <2>3. CASE ServeClose(t)
    BY <1>i, <2>3, ReferencesAtClose
  <2>4. CASE RequestFails(t)
    BY <1>i, <2>4, ReferencesAtFailure
  <2>5. CASE InsertNew(t) \/ SemClose(t)
    <3>1. UNCHANGED <<table, references, leaked>> /\ table \subseteq Generations
      BY <1>i, <2>5 DEF InsertNew, SemClose, broker, ghosts, TypeOK
    <3>2. \A g \in Generations : Owners(g)' = Owners(g)
      BY <1>i, <2>5, InsertCount, LastCloseCount
    <3> QED BY <1>i, <3>1, <3>2 DEF ReferencesExact
  <2>6. CASE ~Trades(t)
    <3>1. \A g : Owners(g)' = Owners(g)
      BY <1>2, <1>i, <2>6, OwnersKept, OwnersCounted
    <3>2. leaked' = leaked /\ \/ UNCHANGED <<references, table>>
                              \/ table' = {} \/ (references' = references /\ table' \subseteq table)
      BY <1>2, <1>i, <2>6, OwnersKept
    <3> QED BY <1>i, <3>1, <3>2 DEF ReferencesExact
  <2> QED BY <2>1, <2>2, <2>3, <2>4, <2>5, <2>6 DEF Trades
<1>3. ASSUME NEW p \in Processes, Exit(p) PROVE ReferencesExact'
  BY <1>i, <1>3, ReferencesAtExit
<1>4. CASE RestartBroker
  BY <1>4 DEF RestartBroker, ReferencesExact
<1> QED BY <1>1, <1>2, <1>3, <1>4 DEF Next, Moves

-----------------------------------------------------------------------------
(* Generations behind handles.                                             *)

(* A generation is in use by a handle, or by a call about to make one.     *)
InUse(g) == \/ \E h \in HandleIDs : handles[h] # NoHandle /\ handles[h].gen = g
            \/ \E s \in Threads : pc[s] \in Opening /\ call[s].gen = g

LEMMA InUseOwned ==
    ASSUME NEW g, InUse(g), TypeOK, g \in Generations
    PROVE  Owners(g) # 0
<1>1. Cardinality(HandlesOf(g)) >= 1 \/ Cardinality(CallsOf(g)) >= 1
  BY OwnerCounts DEF InUse, Owns, Opening, Owning
<1> QED BY <1>1, OwnersCounted, SetsAreFinite

(* Its process is of the launch that the broker serves.                    *)
LEMMA InUseServed ==
    ASSUME IInv, restarts = 0, NEW g \in Generations, InUse(g),
           NEW t \in Threads, Moves(t)
    PROVE  epoch = EpochOf[ProcessOf[t]]
<1>i. TypeOK /\ Calls /\ Launches /\ Births
  BY DEF IInv
<1>1. PICK p \in Processes : once[p] = "ok" /\ Alive(p)
  <2>1. CASE \E h \in HandleIDs : handles[h] # NoHandle /\ handles[h].gen = g
    BY <1>i, <2>1, HandleFields DEF Births, Handle
  <2>2. CASE \E s \in Threads : pc[s] \in Opening /\ call[s].gen = g
    BY <1>i, <2>2, ProcessOfThread DEF Calls, CallOK, Admitted, Opening, Alive
  <2> QED BY <2>1, <2>2 DEF InUse
<1>2. Launched(p) /\ epoch = EpochOf[p]
  BY <1>i, <1>1 DEF Launches, Serves
<1>3. Alive(ProcessOf[t]) /\ Launched(ProcessOf[t]) /\ ProcessOf[t] \in Processes
  BY <1>i, LivesAfter, MoverLaunched, ProcessOfThread
<1> QED BY <1>1, <1>2, <1>3, OneLaunch

LEMMA InUseStays ==
    ASSUME IInv, restarts = 0, NEW g \in table, InUse(g), NEW t \in Threads, Moves(t)
    PROVE  g \in table'
<1>i. TypeOK /\ Calls /\ ReferencesExact
  BY DEF IInv
<1>0. g \in Generations /\ references[g] = Owners(g) + leaked[g] /\ references[g] # 0
  <2>1. g \in Generations /\ references[g] = Owners(g) + leaked[g]
    BY <1>i DEF TypeOK, ReferencesExact
  <2> QED BY <1>i, <2>1, InUseOwned, CountTypes
<1>1. CASE ResetBroker(t)
  <2>1. epoch = EpochOf[ProcessOf[t]]
    BY <1>0, InUseServed
  <2> QED BY <1>1, <2>1 DEF ResetBroker, ResetNamespace, broker
<1>2. CASE ServeJoin(t)
  BY <1>2 DEF ServeJoin
<1>3. CASE ServeCreate(t) \/ ServeCreateFails(t) \/ ServeUnlink(t)
  <2>1. g \notin Destroyed(call[t].name)
    BY <1>0 DEF Destroyed
  <2> QED BY <1>3, <2>1 DEF ServeCreate, ServeCreateFails, ServeUnlink
<1>4. CASE ServeClose(t)
  <2> SUFFICES ASSUME g = call[t].gen, references[g] = 1 PROVE FALSE
    BY <1>4 DEF ServeClose, DropReference
  <2>1. Owns(t, g) /\ pc[t] \notin Opening
    BY <1>4 DEF ServeClose, Closes, Owns, Owning, Opening
  <2>2. CASE \E h \in HandleIDs : handles[h] # NoHandle /\ handles[h].gen = g
    <3>1. Cardinality(HandlesOf(g)) >= 1 /\ Cardinality(CallsOf(g)) >= 1
      BY <2>1, <2>2, OwnerCounts
    <3> QED BY <1>0, <1>i, <3>1, OwnersCounted, CountTypes
  <2>3. CASE \E s \in Threads : pc[s] \in Opening /\ call[s].gen = g
    <3>1. PICK s \in Threads : s # t /\ Owns(s, g)
      BY <2>1, <2>3 DEF Owns, Opening, Owning
    <3>2. Cardinality(CallsOf(g)) >= 2
      BY <2>1, <3>1, OwnerCounts
    <3> QED BY <1>0, <1>i, <3>2, OwnersCounted, CountTypes
  <2> QED BY <2>2, <2>3 DEF InUse
<1> QED BY <1>1, <1>2, <1>3, <1>4, Untouched DEF AtBroker, broker

LEMMA BackedPreserved == IInv /\ [Next]_vars => Backed'
<1> SUFFICES ASSUME IInv, [Next]_vars PROVE Backed'
  OBVIOUS
<1>i. TypeOK /\ Calls /\ Handled /\ Numbered /\ TablesAgree /\ Backed
  BY DEF IInv
<1>1. CASE UNCHANGED vars
  BY <1>1, <1>i DEF Backed, vars, broker, threads, client, bounds
<1>2. ASSUME NEW t \in Threads, Moves(t) PROVE Backed'
  <2> SUFFICES ASSUME restarts' = 0
               PROVE  /\ \A h \in HandleIDs : handles'[h] # NoHandle => handles'[h].gen \in table'
                      /\ \A s \in Threads : pc'[s] \in Opening => call'[s].gen \in table'
    BY DEF Backed
  <2>0. restarts = 0
    BY <1>2, Untouched
  <2>u. \A g : InUse(g) => g \in table'
    <3>1. \A g : InUse(g) => g \in table
      BY <1>i, <2>0 DEF InUse, Backed
    <3> QED BY <1>2, <2>0, <3>1, InUseStays
  <2>1. ASSUME NEW h \in HandleIDs, handles'[h] # NoHandle PROVE handles'[h].gen \in table'
    <3>1. InUse(handles'[h].gen)
      BY <1>2, <1>i, <2>1, HandleGens DEF InUse, Opening
    <3> QED BY <2>u, <3>1
  <2>2. ASSUME NEW s \in Threads, pc'[s] \in Opening PROVE call'[s].gen \in table'
    <3>1. CASE pc[s] \in Opening /\ call'[s] = call[s]
      BY <2>u, <3>1 DEF InUse
    <3>2. CASE s # t
      BY <1>2, <1>i, <2>2, <3>1, <3>2, MoverOnly DEF TypeOK
    <3>3. CASE s = t
      <4>1. CASE ServeJoin(t) /\ call'[t].gen = names[call[t].name] /\ names[call[t].name] # 0
        <5>1. names[call[t].name] \in table /\ table' = table
          BY <1>i, <4>1, NameInTable DEF ServeJoin, Naming
        <5> QED BY <3>3, <4>1, <5>1
      <4>2. CASE ServeCreate(t) /\ call'[t].gen = next + 1
        BY <3>3, <4>2 DEF ServeCreate
      <4> QED BY <1>2, <1>i, <2>2, <3>1, <3>3, <4>1, <4>2, OpeningAfter
    <3> QED BY <3>2, <3>3
  <2> QED BY <2>1, <2>2
<1>3. ASSUME NEW p \in Processes, Exit(p) PROVE Backed'
  <2>1. /\ UNCHANGED <<table, restarts>>
        /\ \A h \in HandleIDs : handles'[h] \in {NoHandle, handles[h]}
        /\ \A s \in Threads : pc'[s] = "dead" \/ (pc'[s] = pc[s] /\ call'[s] = call[s])
    BY <1>3, <1>i DEF Exit, TypeOK, broker
  <2> QED BY <1>i, <2>1 DEF Backed, Opening
<1>4. CASE RestartBroker
  BY <1>4, <1>i, NamesAssumption DEF RestartBroker, Backed, TypeOK
<1> QED BY <1>1, <1>2, <1>3, <1>4 DEF Next, Moves

-----------------------------------------------------------------------------
LEMMA IInvPreserved == IInv /\ [Next]_vars => IInv'
<1> SUFFICES ASSUME IInv, [Next]_vars PROVE IInv'
  OBVIOUS
<1>1. TypeOK' /\ Calls' /\ Handled' /\ Numbered' /\ OneName' /\ OneHandlePerName'
  BY TypePreserved, CallsPreserved, HandledPreserved, NumberedPreserved,
     OneNamePreserved, OneHandlePreserved
<1>2. TablesAgree' /\ ReceiptsTrue' /\ Launches' /\ Births'
  BY TablesPreserved, ReceiptsPreserved, LaunchesPreserved, BirthsPreserved
<1>3. ReferencesExact' /\ Backed'
  BY ReferencesPreserved, BackedPreserved
<1> QED BY <1>1, <1>2, <1>3 DEF IInv

(* The invariant above holds in every behaviour of the program.            *)
THEOREM NamesInvariant == Spec => []IInv
<1> QED BY InitIInv, IInvPreserved, PTL DEF Spec

(* What a process holds: one handle for each name that is linked, a        *)
(* generation in the broker's table behind every handle until macwshostd   *)
(* restarts, and as many references there as handles, opens in progress    *)
(* and lost closes, whichever threads race and whichever requests fail.    *)
THEOREM HandlesSoundAlways == Spec => []HandlesSound
<1>1. IInv => HandlesSound
  BY DEF IInv, HandlesSound, Backed, HandlesBacked
<1> QED BY <1>1, NamesInvariant, PTL

(* What the broker keeps: names that refer to linked generations, retired  *)
(* ones that a close will destroy, receipts that only the latest unlinker  *)
(* of a name can present, and no generation of a launch that has ended.    *)
THEOREM NamespaceSoundAlways == Spec => []NamespaceSound
<1>1. IInv => ReceiptsOwned
  <2> SUFFICES ASSUME IInv, NEW t \in Threads, pc[t] = "request", call[t].receipt # 0,
                      call[t].receipt = expected[call[t].name]
               PROVE  unlinker[call[t].name] = t
    BY DEF ReceiptsOwned
  <2>1. call[t].name \in Names /\ call[t].receipt \in Generations
    BY CallFields, NamesAssumption DEF IInv, Calls, CallOK, Naming, Generations
  <2>2. Holds(t, call[t].name, call[t].receipt)
    BY DEF Holds
  <2> QED BY <2>1, <2>2 DEF IInv, ReceiptsTrue
<1>2. IInv => LaunchesIsolated
  BY DEF IInv, Births, LaunchesIsolated
<1>3. IInv => NamespaceSound
  BY <1>1, <1>2 DEF IInv, NamespaceSound
<1> QED BY <1>3, NamesInvariant, PTL
=============================================================================
