--------------------------- MODULE NamedSemaphore ---------------------------
(***************************************************************************)
(* What one generation of a Steam named semaphore promises its users: a    *)
(* POSIX counting semaphore whose blocked waiters are served in arrival    *)
(* order.  A token is either available or owned by a client.               *)
(***************************************************************************)
EXTENDS Naturals, Sequences

CONSTANTS Clients,       \* threads that use the semaphore
          Producers,     \* clients that may post without having waited
          InitialValue

VARIABLES avail,         \* tokens available
          queue,         \* clients blocked in sem_wait, oldest first
          owner          \* clients that own a token

absVars == <<avail, queue, owner>>

Init ==
    /\ avail = InitialValue
    /\ queue = << >>
    /\ owner = {}

Acquire(c) ==
    /\ c \notin owner /\ avail > 0
    /\ avail' = avail - 1
    /\ owner' = owner \cup {c}
    /\ UNCHANGED queue

Enqueue(c) ==
    /\ c \notin owner /\ avail = 0
    /\ queue' = Append(queue, c)
    /\ UNCHANGED <<avail, owner>>

(* sem_post: the caller gives up a token, or a producer makes a new one.   *)
MayPost(c) == c \in owner \/ c \in Producers

Release(c) ==
    /\ MayPost(c) /\ queue = << >>
    /\ avail' = avail + 1
    /\ owner' = owner \ {c}
    /\ UNCHANGED queue

HandOff(c) ==
    /\ MayPost(c) /\ queue # << >>
    /\ owner' = (owner \ {c}) \cup {Head(queue)}
    /\ queue' = Tail(queue)
    /\ UNCHANGED avail

(* A waiter times out or dies.                                             *)
GiveUp(c) ==
    /\ \E i \in 1..Len(queue) :
         /\ queue[i] = c
         /\ queue' = SubSeq(queue, 1, i - 1) \o SubSeq(queue, i + 1, Len(queue))
    /\ UNCHANGED <<avail, owner>>

Next == \E c \in Clients :
    Acquire(c) \/ Enqueue(c) \/ Release(c) \/ HandOff(c) \/ GiveUp(c)

Spec == Init /\ [][Next]_absVars
=============================================================================
