--------------------------- MODULE OrderedChannel ---------------------------
(***************************************************************************)
(* What a pair of SecurityKeys objects promises to the relay loops above   *)
(* them, with the cryptography, the counters and the network abstracted    *)
(* away: each direction is a log of the bodies its sender sealed and a     *)
(* reading position that only moves forward.  A read skips fewer than      *)
(* Window bodies, never returns one twice, never returns one out of order  *)
(* and never returns one that was not sealed for this direction.  Reading  *)
(* a body that is not DATA hands nothing to the relay.                     *)
(***************************************************************************)
EXTENDS Integers, Sequences

CONSTANTS
    Payloads,      \* what the relays put into DATA packets
    Empty,         \* the (absent) payload of a KEEPALIVE or CLOSE packet
    Window         \* a read skips fewer than this many bodies

VARIABLES
    log,           \* log[e]: the bodies end e has sealed, in order
    position,      \* position[e]: how many bodies of the peer's log e is past
    handed         \* handed[e]: the payloads e's relay was given, in order

vars == <<log, position, handed>>

Ends == {"client", "server"}
Peer(e) == IF e = "client" THEN "server" ELSE "client"

Bodies == [type : {"DATA"}, data : Payloads]
          \cup [type : {"KEEPALIVE", "CLOSE"}, data : {Empty}]

Init ==
    /\ log = [e \in Ends |-> <<>>]
    /\ position = [e \in Ends |-> 0]
    /\ handed = [e \in Ends |-> <<>>]

Submit(e) ==
    /\ \E body \in Bodies : log' = [log EXCEPT ![e] = Append(@, body)]
    /\ UNCHANGED <<position, handed>>

Read(e) ==
    \E i \in 1 .. Len(log[Peer(e)]) :
        LET body == log[Peer(e)][i] IN
        /\ position[e] < i
        /\ i <= position[e] + Window
        /\ position' = [position EXCEPT ![e] = i]
        /\ handed' = [handed EXCEPT ![e] =
                          IF body.type = "DATA" THEN Append(@, body.data) ELSE @]
        /\ UNCHANGED log

Next == \E e \in Ends : Submit(e) \/ Read(e)

Spec == Init /\ [][Next]_vars
=============================================================================
