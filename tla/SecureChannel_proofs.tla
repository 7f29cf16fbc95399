------------------------ MODULE SecureChannel_proofs ------------------------
(***************************************************************************)
(* Proofs about SecureChannel, for every Window, CounterLimit and set of   *)
(* payloads.  Inv is inductive: NonceUsedOnce needs the types, and         *)
(* RxBehindSender needs NonceUsedOnce, because an end accepts a counter    *)
(* only from a packet that opens, and NonceUsedOnce says that the peer has *)
(* used the counters of those.                                             *)
(***************************************************************************)
EXTENDS SecureChannel, SequenceTheorems, TLAPS

Inv == TypeOK /\ NonceUsedOnce /\ RxBehindSender

-----------------------------------------------------------------------------
(* Facts about the ends, packets and arrivals                              *)

\* There are two ends, each the other's peer.
LEMMA PeerFacts ==
    \A e \in Ends : /\ Peer(e) \in Ends
                    /\ Peer(e) # e
                    /\ Peer(Peer(e)) = e
BY DEF Ends, Peer

\* Damage never adds or removes a ciphertext: an arrival carries the key,
\* nonce and body of a packet that is in flight.
LEMMA ArrivalFacts ==
    ASSUME TypeOK, NEW p \in Arriving
    PROVE  /\ p \in Packets
           /\ \E q \in net : p.key = q.key /\ p.nonce = q.nonce /\ p.body = q.body
<1>1. CASE p \in net
    BY <1>1 DEF TypeOK
<1>2. CASE p \in UNION {Damaged(q) : q \in net}
    <2>1. PICK q \in net : p \in Damaged(q)
        BY <1>2
    <2>2. q \in Packets
        BY DEF TypeOK
    <2>3. CASE \E n \in 0 .. CounterLimit : p = [q EXCEPT !.counter = n]
        BY <2>2, <2>3, ChannelAssumption DEF Packets, ChannelAssumption
    <2>4. CASE p = [q EXCEPT !.intact = FALSE]
        BY <2>2, <2>4 DEF Packets
    <2>5. CASE p = [q EXCEPT !.whole = FALSE]
        BY <2>2, <2>5 DEF Packets
    <2> QED
        BY <2>1, <2>3, <2>4, <2>5 DEF Damaged
<1> QED
    BY <1>1, <1>2 DEF Arriving

\* What an end can open is what its peer sealed under that counter.
LEMMA OpenedFacts ==
    ASSUME Inv, NEW e \in Ends, NEW p \in Arriving,
           Decrypted(e, p)
    PROVE  /\ p.counter \in Nat
           /\ p.counter < tx_counter[Peer(e)]
           /\ p.counter + 1 \in 1 .. Len(sealed[Peer(e)])
           /\ p.body = sealed[Peer(e)][p.counter + 1]
           /\ p.body \in Bodies
<1>1. p \in Packets
    BY ArrivalFacts DEF Inv
<1>2. PICK q \in net : p.key = q.key /\ p.nonce = q.nonce /\ p.body = q.body
    BY ArrivalFacts DEF Inv
<1>3. p.key = Peer(e) /\ p.nonce = p.counter
    BY DEF Decrypted, Opens, RxKey
<1>4. /\ p.nonce < tx_counter[Peer(e)]
      /\ p.nonce + 1 \in DOMAIN sealed[Peer(e)]
      /\ p.body = sealed[Peer(e)][p.nonce + 1]
    BY <1>2, <1>3 DEF Inv, NonceUsedOnce
<1>5. p.counter \in Nat /\ p.body \in Bodies
    BY <1>1 DEF Packets
<1>6. DOMAIN sealed[Peer(e)] = 1 .. Len(sealed[Peer(e)])
    BY PeerFacts DEF Inv, TypeOK
<1> QED
    BY <1>3, <1>4, <1>5, <1>6

-----------------------------------------------------------------------------
(* The invariant                                                           *)

\* The parser leaves the sender's side alone and moves rx_counter only to a
\* counter the peer has used.
LEMMA ReceivePreserves ==
    ASSUME Inv, NEW e \in Ends, NEW p \in Arriving, parse_data_packet(e, p)
    PROVE  Inv'
<1> USE DEF Inv
<1>1. UNCHANGED <<tx_counter, net, sealed>>
    BY DEF parse_data_packet
<1>2. NonceUsedOnce'
    BY <1>1 DEF NonceUsedOnce
<1>3. NextRx(e, p) \in -1 .. CounterLimit - 1 /\ NextRx(e, p) < tx_counter[Peer(e)]
    <2>1. tx_counter[Peer(e)] \in 0 .. CounterLimit
        BY PeerFacts DEF TypeOK
    <2>2. CASE Decrypted(e, p)
        BY <2>1, <2>2, OpenedFacts, ChannelAssumption DEF NextRx, ChannelAssumption
    <2>3. CASE ~Decrypted(e, p)
        BY <2>3 DEF NextRx, TypeOK, RxBehindSender
    <2> QED
        BY <2>2, <2>3
<1>4. rx_counter' = [rx_counter EXCEPT ![e] = NextRx(e, p)]
    BY DEF parse_data_packet
<1>5. RxBehindSender'
    BY <1>1, <1>3, <1>4 DEF RxBehindSender, TypeOK
<1>6. handed' \in [Ends -> Seq(Payloads)]
    <2>1. CASE Decrypted(e, p) /\ p.body.type = "DATA"
        <3>1. p.body.data \in Payloads
            BY <2>1, OpenedFacts DEF Bodies
        <3>2. handed' = [handed EXCEPT ![e] = Append(@, p.body.data)]
            BY <2>1 DEF parse_data_packet
        <3> QED
            BY <3>1, <3>2 DEF TypeOK
    <2>2. CASE ~(Decrypted(e, p) /\ p.body.type = "DATA")
        <3>1. handed' = [handed EXCEPT ![e] = @]
            BY <2>2 DEF parse_data_packet
        <3> QED
            BY <3>1 DEF TypeOK
    <2> QED
        BY <2>1, <2>2
<1>7. TypeOK'
    BY <1>1, <1>3, <1>4, <1>6 DEF TypeOK
<1> QED
    BY <1>2, <1>5, <1>7

\* Sealing appends the body at the position its nonce names.
LEMMA EncryptPreserves ==
    ASSUME Inv, NEW e \in Ends, NEW b \in Bodies, Encrypt(e, b)
    PROVE  Inv'
<1> USE DEF Inv
<1> DEFINE new == Seal(e, tx_counter[e], b)
<1>1. /\ tx_counter[e] \in 0 .. CounterLimit - 1
      /\ tx_counter' = [tx_counter EXCEPT ![e] = @ + 1]
      /\ net' = net \cup {new}
      /\ sealed' = [sealed EXCEPT ![e] = Append(@, b)]
      /\ UNCHANGED <<rx_counter, handed>>
    BY ChannelAssumption DEF Encrypt, TypeOK, ChannelAssumption
<1>2. new \in Packets
    BY <1>1, ChannelAssumption DEF Seal, Packets, TxKey, ChannelAssumption
<1>3. sealed[e] \in Seq(Bodies)
    BY DEF TypeOK
<1>4. TypeOK'
    <2>1. tx_counter' \in [Ends -> 0 .. CounterLimit]
        BY <1>1, ChannelAssumption DEF TypeOK, ChannelAssumption
    <2>2. sealed' \in [Ends -> Seq(Bodies)]
        BY <1>1, <1>3 DEF TypeOK
    <2> QED
        BY <1>1, <1>2, <2>1, <2>2 DEF TypeOK
<1>5. RxBehindSender'
    BY <1>1, PeerFacts DEF RxBehindSender, TypeOK
<1>6. \A f \in Ends : tx_counter'[f] = Len(sealed'[f])
    BY <1>1, <1>3 DEF NonceUsedOnce, TypeOK
<1>7. ASSUME NEW p \in net'
      PROVE  /\ p.nonce < tx_counter'[p.key]
             /\ p.nonce + 1 \in DOMAIN sealed'[p.key]
             /\ p.body = sealed'[p.key][p.nonce + 1]
    <2>1. CASE p = new
        <3>1. p.key = e /\ p.nonce = tx_counter[e] /\ p.body = b
            BY <2>1 DEF Seal, TxKey
        <3>2. sealed'[e] = Append(sealed[e], b) /\ tx_counter'[e] = tx_counter[e] + 1
            BY <1>1 DEF TypeOK
        <3>3. tx_counter[e] = Len(sealed[e])
            BY DEF NonceUsedOnce
        <3> QED
            BY <1>1, <1>3, <3>1, <3>2, <3>3
    <2>2. CASE p \in net
        <3>1. p \in Packets /\ p.key \in Ends /\ p.nonce \in Nat
            BY <2>2 DEF TypeOK, Packets
        <3>2. /\ p.nonce < tx_counter[p.key]
              /\ p.nonce + 1 \in DOMAIN sealed[p.key]
              /\ p.body = sealed[p.key][p.nonce + 1]
            BY <2>2 DEF NonceUsedOnce
        <3>3. CASE p.key = e
            <4>1. sealed'[e] = Append(sealed[e], b) /\ tx_counter'[e] = tx_counter[e] + 1
                BY <1>1 DEF TypeOK
            <4>2. p.nonce + 1 \in 1 .. Len(sealed[e])
                BY <1>3, <3>2, <3>3
            <4> QED
                BY <1>1, <1>3, <3>1, <3>2, <3>3, <4>1, <4>2
        <3>4. CASE p.key # e
            <4>1. sealed'[p.key] = sealed[p.key] /\ tx_counter'[p.key] = tx_counter[p.key]
                BY <1>1, <3>1, <3>4 DEF TypeOK
            <4> QED
                BY <3>2, <4>1
        <3> QED
            BY <3>3, <3>4
    <2> QED
        BY <1>1, <2>1, <2>2
<1>8. NonceUsedOnce'
    BY <1>6, <1>7 DEF NonceUsedOnce
<1> QED
    BY <1>4, <1>5, <1>8

\* The three constructors are Encrypt applied to a body.
LEMMA ConstructorsEncrypt ==
    ASSUME NEW e \in Ends,
           create_data_packet(e) \/ create_keepalive(e) \/ create_close(e)
    PROVE  \E b \in Bodies : Encrypt(e, b)
BY DEF create_data_packet, create_keepalive, create_close, Bodies

\* Inv is inductive.
LEMMA Inductive == Inv /\ [Next]_vars => Inv'
<1> SUFFICES ASSUME Inv, [Next]_vars PROVE Inv'
    OBVIOUS
<1>1. ASSUME NEW e \in Ends,
             create_data_packet(e) \/ create_keepalive(e) \/ create_close(e)
      PROVE  Inv'
    BY <1>1, ConstructorsEncrypt, EncryptPreserves
<1>2. ASSUME NEW e \in Ends, Receive(e)
      PROVE  Inv'
    BY <1>2, ReceivePreserves DEF Receive
<1>3. CASE Lose
    BY <1>3 DEF Lose, Inv, TypeOK, NonceUsedOnce, RxBehindSender
<1>4. CASE UNCHANGED vars
    BY <1>4 DEF vars, Inv, TypeOK, NonceUsedOnce, RxBehindSender
<1> QED
    BY <1>1, <1>2, <1>3, <1>4 DEF Next

\* The initial state satisfies Inv.
LEMMA Initial == Init => Inv
BY PeerFacts, ChannelAssumption
   DEF Init, Inv, TypeOK, NonceUsedOnce, RxBehindSender, ChannelAssumption

\* Inv holds in every reachable state.
THEOREM Invariance == Spec => []Inv
BY Initial, Inductive, PTL DEF Spec

\* The counters of both SecurityKeys objects stay in range: in particular
\* tx_counter never passes the limit at which encrypt refuses.
THEOREM TypeCorrect == Spec => []TypeOK
BY Invariance, PTL DEF Inv

\* SecurityKeys.encrypt never reuses a nonce under a key.
THEOREM NonceSafety == Spec => []NonceUsedOnce
BY Invariance, PTL DEF Inv

\* SecurityKeys.decrypt never lets damaged, reflected or reordered packets
\* push the replay window past what the peer has sent.
THEOREM ReplayWindowSafety == Spec => []RxBehindSender
BY Invariance, PTL DEF Inv

-----------------------------------------------------------------------------
(* The gap                                                                 *)

\* A receiver that is cut off stays cut off: what its peer sends next is
\* further ahead still, and what the network delivers is refused.
LEMMA GapStep ==
    ASSUME Inv, [Next]_vars, NEW e \in Ends, CutOff(e)
    PROVE  rx_counter'[e] = rx_counter[e] /\ CutOff(e)'
<1> USE DEF Inv
<1>0. rx_counter[e] \in Int /\ tx_counter[Peer(e)] \in Int
    BY PeerFacts DEF TypeOK
<1>1. ASSUME NEW f \in Ends, NEW b \in Bodies, Encrypt(f, b)
      PROVE  rx_counter'[e] = rx_counter[e] /\ CutOff(e)'
    <2>1. rx_counter' = rx_counter /\ net' = net \cup {Seal(f, tx_counter[f], b)}
        BY <1>1 DEF Encrypt
    <2>2. tx_counter'[Peer(e)] >= tx_counter[Peer(e)]
        BY <1>1, PeerFacts DEF Encrypt, TypeOK
    <2>3. tx_counter'[Peer(e)] > rx_counter'[e] + Window
        <3>1. tx_counter'[Peer(e)] \in Int /\ rx_counter'[e] = rx_counter[e]
            BY <1>0, <1>1, <2>1, PeerFacts DEF Encrypt, TypeOK
        <3>2. tx_counter[Peer(e)] > rx_counter[e] + Window
            BY DEF CutOff
        <3> QED
            BY <1>0, <2>2, <3>1, <3>2, ChannelAssumption DEF ChannelAssumption
    <2>4. ASSUME NEW p \in net', p.key = RxKey(e)
          PROVE  p.nonce <= rx_counter'[e] \/ p.nonce > rx_counter'[e] + Window
        BY <2>1, <2>4 DEF CutOff, Seal, TxKey, RxKey
    <2> QED
        BY <2>1, <2>3, <2>4 DEF CutOff
<1>2. ASSUME NEW f \in Ends, NEW p \in Arriving, parse_data_packet(f, p)
      PROVE  rx_counter'[e] = rx_counter[e] /\ CutOff(e)'
    <2>1. UNCHANGED <<tx_counter, net>>
          /\ rx_counter' = [rx_counter EXCEPT ![f] = NextRx(f, p)]
        BY <1>2 DEF parse_data_packet
    <2>2. ~Decrypted(e, p)
        <3>1. SUFFICES ASSUME Decrypted(e, p) PROVE FALSE
            OBVIOUS
        <3>2. PICK q \in net : p.key = q.key /\ p.nonce = q.nonce
            BY ArrivalFacts
        <3>3. q.key = RxKey(e) /\ q.nonce = p.counter
            BY <3>1, <3>2 DEF Decrypted, Opens
        <3>4. p.counter \in Nat
            BY <3>1, OpenedFacts
        <3> QED
            BY <1>0, <3>1, <3>3, <3>4, ChannelAssumption
               DEF CutOff, Decrypted, ChannelAssumption
    <2>3. rx_counter'[e] = rx_counter[e]
        BY <2>1, <2>2 DEF NextRx, TypeOK
    <2> QED
        BY <2>1, <2>3 DEF CutOff
<1>3. CASE Lose
    BY <1>3 DEF Lose, CutOff
<1>4. CASE UNCHANGED vars
    BY <1>4 DEF vars, CutOff
<1> QED
    BY <1>1, <1>2, <1>3, <1>4, ConstructorsEncrypt DEF Next, Receive

\* Losing Window consecutive packets of a direction silences it for good.
THEOREM GapSafety == Spec => GapIsFinal
<1>1. Inv /\ [Next]_vars =>
         [\A e \in Ends : CutOff(e) => rx_counter'[e] = rx_counter[e]
                                       /\ CutOff(e)']_vars
    BY GapStep
<1> QED
    BY <1>1, Invariance, PTL DEF Spec, GapIsFinal

-----------------------------------------------------------------------------
(* Refinement                                                              *)

\* The initial states of the channel are initial states of the abstraction.
LEMMA RefinesInit == Init => Abstract!Init
BY DEF Init, Abstract!Init, Ends, Abstract!Ends

\* Every step of the channel is a step of the abstraction or leaves it
\* unchanged: sealing submits a body, an accepted packet reads the body its
\* counter names, a refused or lost packet changes nothing.
LEMMA RefinesStep == Inv /\ [Next]_vars => [Abstract!Next]_Abstract!vars
<1> SUFFICES ASSUME Inv, [Next]_vars
             PROVE  [Abstract!Next]_Abstract!vars
    OBVIOUS
<1> DEFINE pos == [e \in Ends |-> rx_counter[e] + 1]
<1>0. /\ Abstract!Ends = Ends
      /\ Abstract!Bodies = Bodies
      /\ \A e \in Ends : Abstract!Peer(e) = Peer(e)
    BY DEF Ends, Abstract!Ends, Bodies, Abstract!Bodies, Peer, Abstract!Peer
<1>1. ASSUME NEW e \in Ends, NEW b \in Bodies, Encrypt(e, b)
      PROVE  Abstract!Next
    <2>1. Abstract!Submit(e)
        BY <1>0, <1>1 DEF Encrypt, Abstract!Submit
    <2> QED
        BY <1>0, <2>1 DEF Abstract!Next
<1>2. ASSUME NEW e \in Ends, NEW p \in Arriving, parse_data_packet(e, p),
             Decrypted(e, p)
      PROVE  Abstract!Next
    <2> DEFINE i == p.counter + 1
    <2>1. /\ i \in 1 .. Len(sealed[Peer(e)])
          /\ p.body = sealed[Peer(e)][i]
          /\ p.counter \in Nat
        BY <1>2, OpenedFacts
    <2>2. rx_counter[e] \in Int /\ rx_counter' = [rx_counter EXCEPT ![e] = p.counter]
        BY <1>2 DEF parse_data_packet, NextRx, Inv, TypeOK
    <2>3. pos[e] < i /\ i <= pos[e] + Window
        BY <1>2, <2>1, <2>2, ChannelAssumption DEF Decrypted, ChannelAssumption
    <2>4. pos' = [pos EXCEPT ![e] = i]
        BY <2>2 DEF Inv, TypeOK
    <2>5. handed' = [handed EXCEPT ![e] =
              IF p.body.type = "DATA" THEN Append(@, p.body.data) ELSE @]
        BY <1>2 DEF parse_data_packet
    <2>6. sealed' = sealed
        BY <1>2 DEF parse_data_packet
    <2>7. Abstract!Read(e)
        BY <1>0, <2>1, <2>3, <2>4, <2>5, <2>6 DEF Abstract!Read
    <2> QED
        BY <1>0, <2>7 DEF Abstract!Next
<1>3. ASSUME NEW e \in Ends, NEW p \in Arriving, parse_data_packet(e, p),
             ~Decrypted(e, p)
      PROVE  UNCHANGED Abstract!vars
    <2>1. rx_counter' = rx_counter /\ handed' = handed /\ sealed' = sealed
        BY <1>3 DEF parse_data_packet, NextRx, Inv, TypeOK
    <2> QED
        BY <2>1 DEF Abstract!vars
<1>4. CASE Lose \/ UNCHANGED vars
    BY <1>4 DEF Lose, vars, Abstract!vars
<1> QED
    BY <1>1, <1>2, <1>3, <1>4, ConstructorsEncrypt DEF Next, Receive

\* A pair of SecurityKeys objects over the unreliable network implements the
\* ordered channel.
THEOREM Refinement == Spec => ImplementsOrderedChannel
BY Invariance, RefinesInit, RefinesStep, PTL
   DEF Spec, ImplementsOrderedChannel, Abstract!Spec
=============================================================================
