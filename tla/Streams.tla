------------------------------- MODULE Streams -------------------------------
(***************************************************************************)
(* The TCP connections between VPNClient and VPNServer as their asyncio    *)
(* StreamReader and StreamWriter objects show them (external: asyncio and  *)
(* the operating system).  One byte stream per direction, cut into whole   *)
(* frames; a read returns any non-empty part of what has arrived; after    *)
(* close() the peer reads what is still in the stream and then end-of-file,*)
(* and the closing side itself reads end-of-file as well.  A peer that     *)
(* vanishes without closing produces no end-of-file.                       *)
(***************************************************************************)
EXTENDS Integers, Sequences

CONSTANT Conns          \* TCP connections a client ever opens to the server

VARIABLES
    listening,          \* the server's socket accepts connections
    toServer,           \* toServer[c]: frames on their way to the server
    toClient,
    clientOpen,         \* clientOpen[c]: the client's transport is open
    serverOpen

streams == <<listening, toServer, toClient, clientOpen, serverOpen>>

Frames == {"CLIENT_HELLO", "SERVER_HELLO", "CLIENT_AUTH", "DATA"}

StreamsInit ==
    /\ listening = TRUE
    /\ toServer = [c \in Conns |-> <<>>]
    /\ toClient = [c \in Conns |-> <<>>]
    /\ clientOpen = [c \in Conns |-> FALSE]
    /\ serverOpen = [c \in Conns |-> FALSE]

StreamsTypeOK ==
    /\ listening \in BOOLEAN
    /\ toServer \in [Conns -> Seq(Frames)]
    /\ toClient \in [Conns -> Seq(Frames)]
    /\ clientOpen \in [Conns -> BOOLEAN]
    /\ serverOpen \in [Conns -> BOOLEAN]

Closed(c) == ~clientOpen[c] \/ ~serverOpen[c]

\* read() returns b"".  What is in the stream when a side closes its own
\* transport may never reach it.
ServerReadsEof(c) == ~serverOpen[c] \/ (toServer[c] = <<>> /\ ~clientOpen[c])
ClientReadsEof(c) == ~clientOpen[c] \/ (toClient[c] = <<>> /\ ~serverOpen[c])

\* What a read of k frames returns, and what it leaves in the stream.
Got(stream, k) == SubSeq(stream, 1, k)
Left(stream, k) == SubSeq(stream, k + 1, Len(stream))
=============================================================================
