---------------------------- MODULE RelayMessage ----------------------------
(* Sending one message to an agent in a terminal: macpad_devin_relay.py    *)
(* (with a lock and receipts) and qoder_iterm_relay.py (with neither).     *)
(* The text is typed in three parts (body, marker, return) with a fresh    *)
(* snapshot of the session before the second and the third.                *)
EXTENDS Naturals, Sequences, FiniteSets

CONSTANTS
    Relays,         \* processes of the tool, run one after the other or at once
    MaxAgents       \* bound on the agents that follow each other in the session

ASSUME RelayBounds == MaxAgents \in Nat \ {0} /\ IsFiniteSet(Relays)

VARIABLES
    tool,       \* which script the processes run
    rpc,        \* rpc[r]: the step process r is at
    reminder,   \* reminder[r]: action remind-handover
    expects,    \* expects[r]: the agent of the first snapshot
    relayLock,  \* holders of tmp/macpad-relay.lock
    receipts,   \* identities with a reminder reserved, on disk
    agent,      \* pid of the agent in the session
    busy,       \* the agent works on what it was given
    draft,      \* what stands in its input line
    accepted,   \* the messages agents were given, ghost
    reminded    \* <<relay, agent>> reminders typed, ghost

relayVars == <<tool, rpc, reminder, expects, relayLock, receipts, agent, busy, draft,
               accepted, reminded>>

RelayInit ==
    /\ tool \in {"macpad", "qoder"}
    /\ rpc = [r \in Relays |-> "start"]
    /\ reminder \in [Relays -> BOOLEAN]
    /\ expects = [r \in Relays |-> 0]
    /\ relayLock = {} /\ receipts = {}
    /\ agent = 1 /\ busy = FALSE /\ draft = <<>>
    /\ accepted = {} /\ reminded = {}

Part(kind, r) == [kind |-> kind, relay |-> r]
InDraft(p) == \E i \in 1 .. Len(draft) : draft[i] = p
RelayGoto(r, at) == rpc' = [rpc EXCEPT ![r] = at]

(* The guards leave with an exception, the lock goes with the process.     *)
Stop(r) == RelayGoto(r, "ended") /\ relayLock' = relayLock \ {r}

(* Mutant: the lock file is opened and not locked.                         *)
OpenedOnly(r) == TRUE
(* flock(LOCK_EX | LOCK_NB) of macpad-relay.lock.                          *)
LockFree(r) == tool = "macpad" => relayLock = {}

Start(r) ==
    /\ rpc[r] = "start"
    /\ IF LockFree(r)
         THEN RelayGoto(r, "first") /\ relayLock' = IF tool = "macpad" THEN relayLock \cup {r} ELSE relayLock
         ELSE Stop(r)
    /\ UNCHANGED <<tool, reminder, expects, receipts, agent, busy, draft, accepted, reminded>>

(* handover_ready, idle and reminder_ready: the placeholder of an empty    *)
(* input line is shown and nothing says that the agent works.              *)
PromptIsEmpty == draft = <<>> /\ ~busy

(* The first snapshot, its guards and the checks of the arguments.         *)
FirstSnapshot(r) ==
    /\ rpc[r] = "first"
    /\ IF PromptIsEmpty
         THEN /\ RelayGoto(r, IF reminder[r] /\ tool = "macpad" THEN "receipt" ELSE "body")
              /\ expects' = [expects EXCEPT ![r] = agent] /\ UNCHANGED relayLock
         ELSE Stop(r) /\ UNCHANGED expects
    /\ UNCHANGED <<tool, reminder, receipts, agent, busy, draft, accepted, reminded>>

(* Mutant: the receipt is not kept.                                        *)
ReceiptDropped(r) == receipts
(* The receipt reserved before anything is typed, open(..., 'x').          *)
ReceiptKept(r) == receipts \cup {expects[r]}

Reserve(r) ==
    /\ rpc[r] = "receipt"
    /\ IF expects[r] \in receipts
         THEN Stop(r) /\ UNCHANGED receipts
         ELSE RelayGoto(r, "body") /\ receipts' = ReceiptKept(r) /\ UNCHANGED relayLock
    /\ UNCHANGED <<tool, reminder, expects, agent, busy, draft, accepted, reminded>>

Types(r, kind) == draft' = Append(draft, Part(kind, r))

SendText(r) ==
    /\ rpc[r] = "body" /\ Types(r, "body") /\ RelayGoto(r, "second")
    /\ reminded' = IF reminder[r] THEN reminded \cup {<<r, agent>>} ELSE reminded
    /\ UNCHANGED <<tool, reminder, expects, relayLock, receipts, agent, busy, accepted>>

(* The second snapshot: the same agent, and it has not begun to work.      *)
SecondSnapshot(r) ==
    /\ rpc[r] = "second"
    /\ IF agent = expects[r] /\ ~busy THEN RelayGoto(r, "marker") /\ UNCHANGED relayLock ELSE Stop(r)
    /\ UNCHANGED <<tool, reminder, expects, receipts, agent, busy, draft, accepted, reminded>>

SendMarker(r) ==
    /\ rpc[r] = "marker" /\ Types(r, "marker") /\ RelayGoto(r, "third")
    /\ UNCHANGED <<tool, reminder, expects, relayLock, receipts, agent, busy, accepted, reminded>>

(* The third snapshot: its own marker is shown to the same idle agent.     *)
ThirdSnapshot(r) ==
    /\ rpc[r] = "third"
    /\ IF agent = expects[r] /\ ~busy /\ InDraft(Part("marker", r))
         THEN RelayGoto(r, "return") /\ UNCHANGED relayLock ELSE Stop(r)
    /\ UNCHANGED <<tool, reminder, expects, receipts, agent, busy, draft, accepted, reminded>>

SendReturn(r) ==
    /\ rpc[r] = "return" /\ Stop(r)
    /\ draft' = <<>> /\ busy' = (busy \/ draft # <<>>)
    /\ accepted' = IF draft = <<>> THEN accepted ELSE accepted \cup {draft}
    /\ UNCHANGED <<tool, reminder, expects, receipts, agent, reminded>>

(* A failed call or the end of the process at any step.                    *)
RelayDies(r) ==
    /\ rpc[r] \notin {"start", "ended"} /\ Stop(r)
    /\ UNCHANGED <<tool, reminder, expects, receipts, agent, busy, draft, accepted, reminded>>

(* The agent in the session finishes its work, or gives way to another.    *)
AgentIdles ==
    /\ busy /\ busy' = FALSE
    /\ UNCHANGED <<tool, rpc, reminder, expects, relayLock, receipts, agent, draft, accepted, reminded>>

AgentReplaced ==
    /\ agent < MaxAgents /\ agent' = agent + 1
    /\ busy' = FALSE /\ draft' = <<>>
    /\ UNCHANGED <<tool, rpc, reminder, expects, relayLock, receipts, accepted, reminded>>

RelayStep(r) ==
    \/ Start(r) \/ FirstSnapshot(r) \/ Reserve(r) \/ SendText(r) \/ SecondSnapshot(r)
    \/ SendMarker(r) \/ ThirdSnapshot(r) \/ SendReturn(r) \/ RelayDies(r)

RelayNext == (\E r \in Relays : RelayStep(r)) \/ AgentIdles \/ AgentReplaced

RelaySpec == RelayInit /\ [][RelayNext]_relayVars

SendersIn(msg) == {msg[i].relay : i \in 1 .. Len(msg)}

(* What an agent is given is one relay's message: parts of two of them are *)
(* never submitted together, whichever of them fails or dies on the way    *)
(* and leaves its text behind (macpad_devin_relay.py, under its lock).     *)
MessagesNotMixed == tool = "macpad" => \A m \in accepted : Cardinality(SendersIn(m)) = 1

(* An agent is reminded at most once, even when the relay that reserved    *)
(* the reminder died before its return and another is started.             *)
ReminderOnce ==
    tool = "macpad" =>
        \A x, y \in reminded : x[2] = y[2] /\ x[2] = expects[x[1]]
                                /\ y[2] = expects[y[1]] => x = y

(* A message arrives in one piece and a reminder once, with relays that    *)
(* overlap, die and are run again.                                         *)
MessagesSound == MessagesNotMixed /\ ReminderOnce
=============================================================================
