---------------------------- MODULE SecureChannel ----------------------------
(***************************************************************************)
(* The data transport of a session: the two SecurityKeys objects that a    *)
(* handshake leaves behind (crypto_core.py), and the packet constructors   *)
(* and the parser that use them (protocol.py), joined by a network that    *)
(* may lose, duplicate, reorder, delay, misdeliver or damage packets.      *)
(*                                                                         *)
(* A sealed packet records what the AEAD binds: the key and the nonce it   *)
(* was sealed under and the body.  The 8-byte counter in front of the      *)
(* ciphertext is a separate field, because the receiver reads it before    *)
(* anything is authenticated.  ChaCha20-Poly1305 is idealised: a packet    *)
(* opens only under the key and nonce it was sealed with, undamaged.       *)
(***************************************************************************)
EXTENDS Integers, Sequences

CONSTANTS
    Payloads,      \* what the relays put into DATA packets
    Empty,         \* the (absent) payload of a KEEPALIVE or CLOSE packet
    Window,        \* 1000: how far ahead of rx_counter a counter may be
    CounterLimit,  \* 2^64 - 1000: encrypt refuses from this counter on
    Budget         \* how many packets the relay of each end has to send (a
                   \* bound for TLC: the code stops only at CounterLimit)

ASSUME ChannelAssumption ==
    /\ Window \in Nat \ {0}
    /\ CounterLimit \in Nat
    /\ Budget \in [{"client", "server"} -> Nat]

VARIABLES
    tx_counter,    \* tx_counter[e]: the nonce e's next packet is sealed with
    rx_counter,    \* rx_counter[e]: the counter of the last packet e accepted
    net,           \* packets in flight
    sealed,        \* history: the bodies e sealed, in order
    handed         \* history: the payloads parse_data_packet returned to e

vars == <<tx_counter, rx_counter, net, sealed, handed>>

-----------------------------------------------------------------------------
(* Packets                                                                 *)

Ends == {"client", "server"}
Peer(e) == IF e = "client" THEN "server" ELSE "client"

Bodies == [type : {"DATA"}, data : Payloads]
          \cup [type : {"KEEPALIVE", "CLOSE"}, data : {Empty}]

\* derive_session_keys: one key per direction, named here after the end that
\* transmits under it; the server's assignment is the mirror of the client's.
TxKey(e) == e
RxKeyNotMirrored(e) == e      \* mutant: both ends take the same labels
RxKey(e) == Peer(e)

Packets == [whole   : BOOLEAN,   \* at least a counter and a tag long
            counter : Nat,       \* the clear-text counter field
            key     : Ends,      \* what the ciphertext was sealed under ...
            nonce   : Nat,
            body    : Bodies,
            intact  : BOOLEAN]   \* the ciphertext and tag are undamaged

\* Mutant: the nonce is packed from too few bits of the counter.
SealNarrow(e, n, b) == [whole |-> TRUE, counter |-> n, key |-> TxKey(e),
                        nonce |-> n % 2, body |-> b, intact |-> TRUE]

Seal(e, n, b) == [whole |-> TRUE, counter |-> n, key |-> TxKey(e),
                  nonce |-> n, body |-> b, intact |-> TRUE]

\* What damage in transit can make of a packet.
Damaged(p) == {[p EXCEPT !.counter = n] : n \in 0 .. CounterLimit}
              \cup {[p EXCEPT !.intact = FALSE], [p EXCEPT !.whole = FALSE]}

Arriving == net \cup UNION {Damaged(p) : p \in net}

-----------------------------------------------------------------------------
(* SecurityKeys                                                            *)

Init ==
    /\ tx_counter = [e \in Ends |-> 0]
    /\ rx_counter = [e \in Ends |-> -1]
    /\ net = {}
    /\ sealed = [e \in Ends |-> <<>>]
    /\ handed = [e \in Ends |-> <<>>]

\* Mutant: the exhaustion check is off by one.
EncryptOneMore(e, body) ==
    /\ tx_counter[e] <= CounterLimit
    /\ net' = net \cup {Seal(e, tx_counter[e], body)}
    /\ tx_counter' = [tx_counter EXCEPT ![e] = @ + 1]
    /\ sealed' = [sealed EXCEPT ![e] = Append(@, body)]
    /\ UNCHANGED <<rx_counter, handed>>

\* encrypt: refuse near the end of the counter space, seal under the current
\* counter, advance it.
Encrypt(e, body) ==
    /\ tx_counter[e] < CounterLimit
    /\ net' = net \cup {Seal(e, tx_counter[e], body)}
    /\ tx_counter' = [tx_counter EXCEPT ![e] = @ + 1]
    /\ sealed' = [sealed EXCEPT ![e] = Append(@, body)]
    /\ UNCHANGED <<rx_counter, handed>>

\* The tag verifies: right key, right nonce, nothing changed.
Opens(e, p) == p.intact /\ p.key = RxKey(e) /\ p.nonce = p.counter

\* Mutant: no bound on how far the counter may jump.
DecryptedAnyJump(e, p) ==
    p.whole /\ p.counter > rx_counter[e] /\ Opens(e, p)

\* decrypt's checks, in its order.
Decrypted(e, p) ==
    /\ p.whole
    /\ p.counter > rx_counter[e]
    /\ p.counter <= rx_counter[e] + Window
    /\ Opens(e, p)

\* Mutant: rx_counter moves before the tag is verified.
NextRxEarly(e, p) ==
    IF p.whole /\ p.counter \in rx_counter[e] + 1 .. rx_counter[e] + Window
    THEN p.counter ELSE rx_counter[e]

\* rx_counter moves only once the tag has verified.
NextRx(e, p) == IF Decrypted(e, p) THEN p.counter ELSE rx_counter[e]

-----------------------------------------------------------------------------
(* Packet constructors and parser                                          *)

HasMore(e) == Len(sealed[e]) < Budget[e]

create_data_packet(e) ==
    /\ HasMore(e)
    /\ \E d \in Payloads : Encrypt(e, [type |-> "DATA", data |-> d])

create_keepalive(e) ==
    HasMore(e) /\ Encrypt(e, [type |-> "KEEPALIVE", data |-> Empty])

create_close(e) ==
    HasMore(e) /\ Encrypt(e, [type |-> "CLOSE", data |-> Empty])

\* parse_data_packet returns the payload of a packet that decrypts to DATA.
\* Every other arrival raises ProtocolError; a packet of another type has
\* advanced rx_counter by then.
parse_data_packet(e, p) ==
    /\ rx_counter' = [rx_counter EXCEPT ![e] = NextRx(e, p)]
    /\ handed' = [handed EXCEPT ![e] =
                      IF Decrypted(e, p) /\ p.body.type = "DATA"
                      THEN Append(@, p.body.data)
                      ELSE @]
    /\ UNCHANGED <<tx_counter, net, sealed>>

\* The network: an arrival leaves its packet in flight, so it may arrive
\* again, at either end, before or after any other; and it may be lost.
Receive(e) == \E p \in Arriving : parse_data_packet(e, p)

Lose ==
    /\ \E p \in net : net' = net \ {p}
    /\ UNCHANGED <<tx_counter, rx_counter, sealed, handed>>

Next ==
    \/ \E e \in Ends : \/ create_data_packet(e)
                       \/ create_keepalive(e)
                       \/ create_close(e)
                       \/ Receive(e)
    \/ Lose

Spec == Init /\ [][Next]_vars

-----------------------------------------------------------------------------
(* Properties                                                              *)

\* The types of the variables; counters stay within the refused region.
TypeOK ==
    /\ tx_counter \in [Ends -> 0 .. CounterLimit]
    /\ rx_counter \in [Ends -> -1 .. CounterLimit - 1]
    /\ net \in SUBSET Packets
    /\ sealed \in [Ends -> Seq(Bodies)]
    /\ handed \in [Ends -> Seq(Payloads)]

\* encrypt never reuses a nonce under a key: what is in flight under a key
\* and a nonce is the one body sealed with them, and the next nonce either
\* end will use is one it has not used.  (ChaCha20-Poly1305 fails completely
\* when a nonce repeats.)
NonceUsedOnce ==
    /\ \A p \in net :
          /\ p.nonce < tx_counter[p.key]
          /\ p.nonce + 1 \in DOMAIN sealed[p.key]
          /\ p.body = sealed[p.key][p.nonce + 1]
    /\ \A e \in Ends : tx_counter[e] = Len(sealed[e])

\* decrypt's replay window never runs ahead of the sender: however packets
\* are damaged, reflected to their sender or reordered, an end has accepted
\* only counters its peer has used, so a genuine next packet is never taken
\* for a replay.
RxBehindSender == \A e \in Ends : rx_counter[e] < tx_counter[Peer(e)]

\* What is still to come for e lies beyond its window: nothing acceptable is
\* in flight, and the sender's next counter is already too far ahead.
CutOff(e) ==
    /\ tx_counter[Peer(e)] > rx_counter[e] + Window
    /\ \A p \in net : p.key = RxKey(e) =>
          (p.nonce <= rx_counter[e] \/ p.nonce > rx_counter[e] + Window)

\* Once Window consecutive packets of a direction are lost, no packet of it
\* is ever accepted again: decrypt refuses a jump of more than Window and
\* nothing re-synchronises the counter.
GapIsFinal == [][\A e \in Ends : CutOff(e) => rx_counter'[e] = rx_counter[e]
                                              /\ CutOff(e)']_vars

\* The channel implements the abstract ordered channel: in order, at most
\* once, only what the peer sealed for this direction, gaps shorter than
\* Window.
Abstract == INSTANCE OrderedChannel
    WITH log <- sealed, position <- [e \in Ends |-> rx_counter[e] + 1]

ImplementsOrderedChannel == Abstract!Spec
=============================================================================
