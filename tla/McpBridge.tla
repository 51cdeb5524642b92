------------------------------ MODULE McpBridge ------------------------------
(* misc/mcp_stdio_tcp_bridge.py: bytes between a client's pipes and a TCP  *)
(* server.  Bytes are counted, as neither side reorders them.              *)
EXTENDS Naturals

CONSTANTS MaxRequests, MaxReplies   \* bounds on the bytes of either side

ASSUME BridgeBounds == MaxRequests \in Nat /\ MaxReplies \in Nat

VARIABLES
    running,    \* the while loop has not ended
    stdin_open, sock_open,
    out_buf, net_buf,
    inPipe,     \* bytes the client wrote and the bridge has not read
    inEnded,    \* the client closed its end
    asked,      \* bytes the client wrote, ghost
    got,        \* bytes the server received
    shut,       \* SHUT_WR was done
    outPipe,    \* bytes of the server the bridge has not read
    served,     \* bytes the server sent, ghost
    srvEnded,   \* the server closed its end
    told,       \* bytes on the client's stdout
    gone        \* the client closed its end of stdout

bridgeVars == <<running, stdin_open, sock_open, out_buf, net_buf, inPipe, inEnded,
                asked, got, shut, outPipe, served, srvEnded, told, gone>>
peerVars == <<inPipe, inEnded, asked, outPipe, served, srvEnded, gone>>

BridgeInit ==
    /\ running = TRUE /\ stdin_open = TRUE /\ sock_open = TRUE
    /\ out_buf = 0 /\ net_buf = 0 /\ got = 0 /\ told = 0 /\ shut = FALSE
    /\ inPipe = 0 /\ inEnded = FALSE /\ asked = 0 /\ gone = FALSE
    /\ outPipe = 0 /\ srvEnded = FALSE /\ served = 0

(* The client and the server, whatever they do.                            *)
ClientWrites ==
    /\ ~inEnded /\ asked < MaxRequests
    /\ inPipe' = inPipe + 1 /\ asked' = asked + 1
    /\ UNCHANGED <<running, stdin_open, sock_open, out_buf, net_buf, inEnded, got, shut,
                   outPipe, served, srvEnded, told, gone>>

ClientEnds ==
    /\ ~inEnded /\ inEnded' = TRUE
    /\ UNCHANGED <<running, stdin_open, sock_open, out_buf, net_buf, inPipe, asked, got,
                   shut, outPipe, served, srvEnded, told, gone>>

ClientGone ==
    /\ ~gone /\ gone' = TRUE
    /\ UNCHANGED <<running, stdin_open, sock_open, out_buf, net_buf, inPipe, inEnded,
                   asked, got, shut, outPipe, served, srvEnded, told>>

ServerWrites ==
    /\ ~srvEnded /\ served < MaxReplies
    /\ outPipe' = outPipe + 1 /\ served' = served + 1
    /\ UNCHANGED <<running, stdin_open, sock_open, out_buf, net_buf, inPipe, inEnded,
                   asked, got, shut, srvEnded, told, gone>>

ServerEnds ==
    /\ ~srvEnded /\ srvEnded' = TRUE
    /\ UNCHANGED <<running, stdin_open, sock_open, out_buf, net_buf, inPipe, inEnded,
                   asked, got, shut, outPipe, served, told, gone>>

(* Mutant: the loop goes round although it waits for nothing.              *)
EndsOnlyEmpty == ~ (sock_open \/ stdin_open \/ out_buf > 0 \/ net_buf > 0)
(* The loop's condition, and its break when no descriptor is left to wait  *)
(* for: bytes for a closed socket are given up.                            *)
NothingToWaitFor ==
    \/ ~ (sock_open \/ stdin_open \/ out_buf > 0 \/ net_buf > 0)
    \/ ~stdin_open /\ ~sock_open /\ out_buf = 0

LoopEnds ==
    /\ running /\ NothingToWaitFor /\ running' = FALSE
    /\ UNCHANGED <<stdin_open, sock_open, out_buf, net_buf, got, shut, told, peerVars>>

(* The select woke for stdin.                                              *)
ReadStdin ==
    /\ running /\ stdin_open /\ ~NothingToWaitFor
    /\ \/ /\ inPipe > 0 /\ inPipe' = inPipe - 1 /\ net_buf' = net_buf + 1
          /\ UNCHANGED <<stdin_open, shut>>
       \/ /\ inPipe = 0 /\ inEnded /\ stdin_open' = FALSE /\ shut' = TRUE
          /\ UNCHANGED <<inPipe, net_buf>>
    /\ UNCHANGED <<running, sock_open, out_buf, inEnded, asked, got, outPipe, served,
                   srvEnded, told, gone>>

(* Mutant: the end of the stream is seen before the bytes ahead of it.     *)
ClosedAtOnce == srvEnded
(* recv returns no byte: the server closed and all it sent was read.       *)
ReceivedEnd == outPipe = 0 /\ srvEnded

ReadSocket ==
    /\ running /\ sock_open /\ ~NothingToWaitFor
    /\ \/ /\ outPipe > 0 /\ ~ReceivedEnd
          /\ outPipe' = outPipe - 1 /\ out_buf' = out_buf + 1 /\ UNCHANGED sock_open
       \/ ReceivedEnd /\ sock_open' = FALSE /\ UNCHANGED <<outPipe, out_buf>>
    /\ UNCHANGED <<running, stdin_open, net_buf, inPipe, inEnded, asked, got, shut, served,
                   srvEnded, told, gone>>

(* A write that fails ends the bridge: the client has gone away.           *)
WriteStdout ==
    /\ running /\ out_buf > 0
    /\ IF gone THEN running' = FALSE /\ UNCHANGED <<out_buf, told>>
       ELSE out_buf' = out_buf - 1 /\ told' = told + 1 /\ UNCHANGED running
    /\ UNCHANGED <<stdin_open, sock_open, net_buf, got, shut, peerVars>>

(* send after SHUT_WR raises, and the socket is given up with the replies  *)
(* that were still to come.                                                *)
WriteSocket ==
    /\ running /\ sock_open /\ net_buf > 0
    /\ IF shut THEN sock_open' = FALSE /\ UNCHANGED <<net_buf, got>>
       ELSE net_buf' = net_buf - 1 /\ got' = got + 1 /\ UNCHANGED sock_open
    /\ UNCHANGED <<running, stdin_open, out_buf, shut, told, peerVars>>

BridgeLoop == LoopEnds \/ ReadStdin \/ ReadSocket \/ WriteStdout \/ WriteSocket

BridgeNext == BridgeLoop \/ ClientWrites \/ ClientEnds \/ ClientGone \/ ServerWrites \/ ServerEnds

BridgeSpec == BridgeInit /\ [][BridgeNext]_bridgeVars

(* A bridge that ended on its own, and never cut its write side with       *)
(* requests still buffered, gave the client every byte the server sent     *)
(* before it closed.                                                       *)
RepliesComplete == (~running /\ ~gone /\ net_buf = 0) => told = served

(* When both peers have closed, the bridge ends, also with bytes left that *)
(* it can no longer deliver, and has then given the client its replies.    *)
BridgeEnds == (inEnded /\ srvEnded) ~> (~running /\ RepliesComplete)
=============================================================================
