------------------------------- MODULE Framing -------------------------------
(***************************************************************************)
(* frame_packet and parse_framed_packet, and the read loops that call      *)
(* them, at the level of bytes: one direction of one connection.  At the   *)
(* server the receiving end is perform_handshake followed by               *)
(* tunnel_traffic's vpn_to_ssh, at the client perform_handshake followed   *)
(* by vpn_to_local.  TCP hands over any non-empty part of what it carries. *)
(* Refusals, timeouts and lost connections are VPNServer's and VPNClient's *)
(* subject: here no packet is empty (neither end sends such a one), and    *)
(* the connection stays up until the sending end closes it.                *)
(***************************************************************************)
EXTENDS Integers, Sequences, SequencesExt

CONSTANTS
    Base,               \* number of values of a byte (256 in the code)
    HeaderSize,         \* bytes of the length prefix (4)
    MAX_PACKET_SIZE,    \* (65535)
    Packets,            \* packets an end may send
    MaxPackets          \* bound on the packets of one connection

Byte == 0 .. Base - 1

\* Base ^ i
Power[i \in 0 .. HeaderSize] == IF i = 0 THEN 1 ELSE Base * Power[i - 1]

ASSUME FramingAssumption ==
    /\ Base \in Nat \ {0, 1} /\ HeaderSize \in Nat \ {0} /\ MaxPackets \in Nat
    /\ MAX_PACKET_SIZE \in 1 .. Power[HeaderSize] - 1
    /\ \A p \in Packets : /\ p \in Seq(Byte)
                          /\ Len(p) \in 1 .. Power[HeaderSize] - 1

VARIABLES
    side,       \* the receiving end: "server" or "client"
    sent,       \* packets framed and written by the sending end
    wire,       \* bytes written and not yet read
    closed,     \* the sending end has closed its transport
    buffer,     \* buffer, then vpn_buffer
    stage,      \* loop the receiving end is in
    handed      \* packets handed on, in order

vars == <<side, sent, wire, closed, buffer, stage, handed>>

Stages == {"handshake", "drain", "read", "ended", "refused"}

-----------------------------------------------------------------------------
(* protocol.py                                                             *)

LittleEndian(n) == [i \in 1 .. HeaderSize |-> (n \div Power[i - 1]) % Base]

\* struct.unpack('<I', data[:4])
Length(data) ==
    LET sum[i \in 0 .. HeaderSize] ==
            IF i = 0 THEN 0 ELSE sum[i - 1] + data[i] * Power[i - 1]
    IN  sum[HeaderSize]

frame_packet(p) == LittleEndian(Len(p)) \o p

\* parse_framed_packet: what it makes of data, and what it returns.
TooLargeFramed(data) ==      \* mutant: the prefix counts towards the maximum
    Len(data) >= HeaderSize /\ HeaderSize + Length(data) > MAX_PACKET_SIZE
TooLarge(data) == Len(data) >= HeaderSize /\ Length(data) > MAX_PACKET_SIZE
Complete(data) ==
    /\ Len(data) >= HeaderSize
    /\ Length(data) <= MAX_PACKET_SIZE
    /\ Len(data) >= HeaderSize + Length(data)
Packet(data) == SubSeq(data, HeaderSize + 1, HeaderSize + Length(data))
\* Mutant: the prefix is not skipped.
RemainingFromLength(data) == SubSeq(data, Length(data) + 1, Len(data))
Remaining(data) == SubSeq(data, HeaderSize + Length(data) + 1, Len(data))

-----------------------------------------------------------------------------
(* The two ends                                                            *)

\* Packets the receiving end's perform_handshake reads.
HandshakePackets == IF side = "server" THEN 2 ELSE 1

\* Every packet but the first waits for an answer to the first: CLIENT_AUTH
\* for SERVER_HELLO, the server's DATA for CLIENT_AUTH.  DATA may follow
\* CLIENT_AUTH at once.
MayFollow(i) == i = 1 \/ handed # <<>>

Init ==
    /\ side \in {"server", "client"}
    /\ sent = <<>> /\ wire = <<>> /\ closed = FALSE
    /\ buffer = <<>> /\ stage = "handshake" /\ handed = <<>>

\* writer.write(frame_packet(...)) at the sending end.
Send(p) ==
    /\ ~closed /\ Len(sent) < MaxPackets /\ MayFollow(Len(sent) + 1)
    /\ sent' = Append(sent, p)
    /\ wire' = wire \o frame_packet(p)
    /\ UNCHANGED <<side, closed, buffer, stage, handed>>

Close ==
    /\ ~closed /\ closed' = TRUE
    /\ UNCHANGED <<side, sent, wire, buffer, stage, handed>>

\* data = await reader.read(...); buffer += data
Arrives(n) == buffer \o SubSeq(wire, 1, n)

AfterHandshakeUndrained == "read"  \* mutant: the tunnel reads before it drains

\* Where the server's tunnel starts: with what the handshake read too much.
AfterHandshake == IF side = "server" THEN "drain" ELSE "read"
\* perform_handshake of the client drops its buffer; tunnel_traffic gets it.
HandedBuffer(rest) == IF side = "server" THEN rest ELSE <<>>

\* The loops of perform_handshake: read, then parse one packet.
HandshakeRead(n) ==
    /\ stage = "handshake"
    /\ wire' = SubSeq(wire, n + 1, Len(wire))
    /\ LET data == Arrives(n) IN
        \/ /\ TooLarge(data)
           /\ stage' = "refused" /\ buffer' = data /\ UNCHANGED handed
        \/ /\ ~TooLarge(data) /\ ~Complete(data)
           /\ buffer' = data /\ UNCHANGED <<stage, handed>>
        \/ /\ Complete(data)
           /\ handed' = Append(handed, Packet(data))
           /\ IF Len(handed') = HandshakePackets
              THEN stage' = AfterHandshake /\ buffer' = HandedBuffer(Remaining(data))
              ELSE buffer' = Remaining(data) /\ UNCHANGED stage
    /\ UNCHANGED <<side, sent, closed>>

\* vpn_to_ssh and vpn_to_local: read, then parse until nothing is complete.
RelayRead(n) ==
    /\ stage = "read"
    /\ wire' = SubSeq(wire, n + 1, Len(wire))
    /\ buffer' = Arrives(n)
    /\ stage' = "drain"
    /\ UNCHANGED <<side, sent, closed, handed>>

AfterPacket == "drain"

\* drain_buffer; a payload is forwarded (and awaited) packet by packet.
Drain ==
    /\ stage = "drain"
    /\ \/ /\ TooLarge(buffer)
          /\ stage' = "refused" /\ UNCHANGED <<buffer, handed>>
       \/ /\ ~TooLarge(buffer) /\ ~Complete(buffer)
          /\ stage' = "read" /\ UNCHANGED <<buffer, handed>>
       \/ /\ Complete(buffer)
          /\ handed' = Append(handed, Packet(buffer))
          /\ buffer' = Remaining(buffer)
          /\ stage' = AfterPacket
    /\ UNCHANGED <<side, sent, wire, closed>>

\* read() returns b"": the handshake fails, or the relay leaves its loop.
ReadEof ==
    /\ stage \in {"handshake", "read"} /\ wire = <<>> /\ closed
    /\ stage' = "ended"
    /\ UNCHANGED <<side, sent, wire, closed, buffer, handed>>

ReceiverRuns ==
    \/ \E n \in 1 .. Len(wire) : HandshakeRead(n) \/ RelayRead(n)
    \/ Drain
    \/ ReadEof

Next == Close \/ ReceiverRuns \/ \E p \in Packets : Send(p)

\* The event loop resumes a read when there are bytes, and a drain.
Spec == Init /\ [][Next]_vars /\ WF_vars(ReceiverRuns)

-----------------------------------------------------------------------------
(* Properties                                                              *)

Acceptable == {p \in Packets : Len(p) <= MAX_PACKET_SIZE}

\* The types of the variables; nothing too large is handed on.
TypeOK ==
    /\ side \in {"server", "client"} /\ closed \in BOOLEAN
    /\ sent \in Seq(Packets) /\ handed \in Seq(Acceptable)
    /\ wire \in Seq(Byte) /\ buffer \in Seq(Byte)
    /\ stage \in Stages

Framed(packets) == FlattenSeq([i \in DOMAIN packets |-> frame_packet(packets[i])])

\* No byte is lost, duplicated or moved on the way through the buffers: what
\* was handed on, what is buffered and what is on the wire are the frames
\* that were sent, also where the handshake's buffer becomes the tunnel's.
BytesConserved == Framed(sent) = Framed(handed) \o buffer \o wire

\* A relay that waits for bytes holds no complete packet, so that nothing
\* waits for a later packet to push it out; an end-of-file leaves nothing.
NothingHeldBack ==
    /\ stage \in {"read", "handshake"} => ~Complete(buffer)
    /\ stage = "ended" => buffer = <<>>

\* The loops over the byte stream hand packets over as FrameStream promises,
\* whatever the cuts TCP makes, and keep doing so; a packet above the maximum
\* is refused when its turn comes, and only then.
Abstract == INSTANCE FrameStream WITH
    end <- IF stage \in {"ended", "refused"} THEN stage ELSE "open"
ImplementsFrameStream == Abstract!Spec
=============================================================================
