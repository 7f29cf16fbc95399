------------------------------ MODULE Handshake ------------------------------
(***************************************************************************)
(* The three-message handshake of protocol.py, for any number of client    *)
(* and server sessions over a network that may lose, duplicate, delay,     *)
(* misdeliver or damage what it carries:                                   *)
(*                                                                         *)
(*    CLIENT_HELLO   version, time, ephemeral key, identity key, KEM key   *)
(*    SERVER_HELLO   version, time, ephemeral key, identity key, KEM       *)
(*                   ciphertext, signature over the transcript             *)
(*    CLIENT_AUTH    sealed with the session key: identity key, signature  *)
(*                   over the transcript without the KEM ciphertext        *)
(*                                                                         *)
(* Cryptography is symbolic.  An ephemeral key pair is named by the        *)
(* session that generated it, an identity key by its owner.  A signature   *)
(* is the pair of signer and transcript, so damage to either makes it      *)
(* invalid; a sealed packet opens only under its key.  A damaged field     *)
(* holds any other value of its kind that exists, or Junk, which nobody    *)
(* generated.                                                              *)
(*                                                                         *)
(* Every host reads its own clock.  The clocks run at one rate, but a      *)
(* client's may be ahead of the server's or behind it by any amount.       *)
(***************************************************************************)
EXTENDS Integers, FiniteSets

CONSTANTS
    ClientSessions,  \* handshakes a client runs, one per VPN connection
    ServerSessions,  \* connections the server accepts
    People,          \* everybody who has an identity key
    Owner,           \* Owner[c]: the person whose client runs session c
    Roster,          \* the people the server authorises
    ImageMode,       \* the server's image authentication, see ImageModes
    ImageKey,        \* ImageKey[c]: what c's CLIENT_AUTH carries as image key
    MaxSkew,         \* MAX_TIMESTAMP_SKEW, 300 s
    MaxTime,         \* bound on the server's clock
    Aheads,          \* bound: by how much clients' clocks may be ahead of it
    Junk,            \* a damaged key: no private part exists
    None             \* an absent field

\* disabled: no validator; unavailable: no image could be fetched;
\* loaded: keys are checked against the image.
ImageModes == {"disabled", "unavailable", "loaded"}

ASSUME HandshakeAssumption ==
    /\ Owner \in [ClientSessions -> People]
    /\ Roster \subseteq People
    /\ ImageMode \in ImageModes
    /\ ImageKey \in [ClientSessions -> {"absent", "valid", "invalid"}]
    /\ MaxSkew \in Nat
    /\ MaxTime \in Nat
    /\ Aheads \subseteq Int
    /\ ClientSessions \cap ServerSessions = {}
    /\ {Junk, None, "server"} \cap
           (ClientSessions \cup ServerSessions \cup People) = {}
    /\ Junk # None /\ Junk # "server"

VARIABLES
    speaks,    \* PROTOCOL_VERSION of the server and of each client, as deployed
    ahead,     \* ahead[c]: c's host's clock minus the server's
    clock,     \* time.time() on the server
    client,    \* client[c]: the client's HandshakeState and session keys
    server,    \* server[s]: the server's HandshakeState and session keys
    sent       \* every packet ever sent: the network may deliver any of them

vars == <<speaks, ahead, clock, client, server, sent>>

\* What a clock of the server or of a client can show.
Times == {t + a : t \in 0 .. MaxTime, a \in Aheads \cup {0}}

\* time.time() on the host of client session c.
ClockOf(c) == clock + ahead[c]

\* validate_timestamp, where time.time() is now
TimestampOk(now, t) == now - t \in -MaxSkew .. MaxSkew

-----------------------------------------------------------------------------
(* Key exchange                                                            *)

Ephemerals == ClientSessions \cup ServerSessions \cup {Junk}

\* derive_shared_secret: X25519 of a private key with a public key.
SharedSecret(own, peer) == {own, peer}

\* ML-KEM: a ciphertext names the key it was encapsulated to and the session
\* that made it.  Decapsulating any other ciphertext gives a secret that
\* only the decapsulating key determines (implicit rejection), no error.
Ciphertexts == [to : ClientSessions \cup {Junk, None},
                by : ServerSessions \cup {Junk, None}]
NoCt == [to |-> None, by |-> None]

Encaps(ek, s) == [to |-> ek, by |-> s]
KemSecret(ct) == [ct |-> ct, rejected |-> None]
Decaps(c, ct) == [ct |-> ct,
                  rejected |-> IF ct.to = c /\ ct.by # Junk THEN None ELSE c]

\* derive_session_keys: the hybrid secret, the KEM part only in version 2.
SessionKey(shared, kem) == [dh |-> shared, kem |-> kem]
NoKem == KemSecret(NoCt)
NoKey == SessionKey({}, NoKem)

TranscriptNoTimes(ceph, seph, ctime, stime, ct) ==     \* mutant: times unsigned
    [ceph |-> ceph, seph |-> seph, ctime |-> 0, stime |-> 0, ct |-> ct]

TranscriptNoCt(ceph, seph, ctime, stime, ct) ==        \* mutant: ciphertext unsigned
    [ceph |-> ceph, seph |-> seph, ctime |-> ctime, stime |-> stime, ct |-> NoCt]

\* What both parties sign; the client leaves the ciphertext out.
Transcript(ceph, seph, ctime, stime, ct) ==
    [ceph |-> ceph, seph |-> seph, ctime |-> ctime, stime |-> stime, ct |-> ct]

Signature(signer, t) == [by |-> signer, over |-> t]

-----------------------------------------------------------------------------
(* Packets                                                                 *)

Hello(version, time, eph, id, ek) ==
    [packet |-> "CLIENT_HELLO", version |-> version, time |-> time,
     eph |-> eph, id |-> id, ek |-> ek]

ServerHello(version, time, eph, id, ct, sig) ==
    [packet |-> "SERVER_HELLO", version |-> version, time |-> time,
     eph |-> eph, id |-> id, ct |-> ct, sig |-> sig]

Auth(key, id, sig, image) ==
    [packet |-> "CLIENT_AUTH", key |-> key, id |-> id, sig |-> sig,
     image |-> image]

SentOf(kind) == {m \in sent : m.packet = kind}

\* CLIENT_HELLO is not authenticated: it arrives as it was sent, or with one
\* field damaged, possibly to what another hello holds (a bound: one field).
ArrivingHellos ==
    LET hellos == SentOf("CLIENT_HELLO")
    IN  UNION { {[m EXCEPT !.version = v] : v \in {1, 2}}
                \cup {[m EXCEPT !.time = t] : t \in Times}
                \cup {[m EXCEPT !.eph = n.eph] : n \in hellos}
                \cup {[m EXCEPT !.id = id] : id \in People}
                \cup {[m EXCEPT !.ek = n.ek] : n \in hellos}
                \cup {[m EXCEPT !.eph = Junk], [m EXCEPT !.ek = Junk]}
                : m \in hellos }

\* Fields of different SERVER_HELLOs may be mixed, each may be damaged.
ArrivingServerHellos ==
    LET hellos == SentOf("SERVER_HELLO")
    IN  {ServerHello(v, t, eph, id, ct, sig) :
            v \in {1, 2}, t \in {m.time : m \in hellos},
            eph \in {m.eph : m \in hellos} \cup {Junk},
            id \in {"server", Junk},
            ct \in {m.ct : m \in hellos} \cup {Encaps(Junk, Junk), NoCt},
            sig \in {m.sig : m \in hellos} \cup {Signature(Junk, None)}}

\* A sealed packet that was damaged does not open under any key.
ArrivingAuths == SentOf("CLIENT_AUTH")
                 \cup {Auth(Junk, Junk, Signature(Junk, None), "absent")}

-----------------------------------------------------------------------------
(* Client                                                                  *)

Init ==
    /\ speaks \in [ClientSessions \cup {"server"} -> {1, 2}]
    /\ ahead \in [ClientSessions -> Aheads]
    /\ clock = 0
    /\ client = [c \in ClientSessions |->
                    [phase |-> "idle", time |-> 0, peer_eph |-> None,
                     server_time |-> 0, key |-> NoKey]]
    /\ server = [s \in ServerSessions |->
                    [phase |-> "idle", peer |-> None, eph |-> None,
                     peer_eph |-> None, client_time |-> 0, checked_time |-> 0,
                     server_time |-> 0, key |-> NoKey]]
    /\ sent = {}

create_client_hello(c) ==
    /\ client[c].phase = "idle"
    /\ client' = [client EXCEPT ![c].phase = "hello_sent", ![c].time = ClockOf(c)]
    /\ sent' = sent \cup
         {Hello(speaks[c], ClockOf(c), c, Owner[c],
                IF speaks[c] = 2 THEN c ELSE None)}
    /\ UNCHANGED <<speaks, ahead, clock, server>>

\* process_server_hello, up to the first raise.  A version-1 packet has no
\* ciphertext field and a version-2 packet has one.
ServerHelloOk(c, m) ==
    /\ m.version = speaks[c]
    /\ (m.version = 1) = (m.ct = NoCt)
    /\ TimestampOk(ClockOf(c), m.time)
    /\ m.id = "server"
    /\ m.sig = Signature(m.id, Transcript(c, m.eph, client[c].time, m.time, m.ct))

\* The session key the client derives from an acceptable SERVER_HELLO.
ClientKey(c, m) ==
    SessionKey(SharedSecret(c, m.eph),
               IF m.version = 2 THEN Decaps(c, m.ct) ELSE NoKem)

\* create_client_auth follows at once; the client considers itself done.
\* Clients of this repository send no image key; the server accepts one.
process_server_hello(c) ==
    /\ client[c].phase = "hello_sent"
    /\ \E m \in ArrivingServerHellos :
        /\ ServerHelloOk(c, m)
        /\ client' = [client EXCEPT ![c].phase = "done",
                                    ![c].peer_eph = m.eph,
                                    ![c].server_time = m.time,
                                    ![c].key = ClientKey(c, m)]
        /\ sent' = sent \cup
             {Auth(ClientKey(c, m), Owner[c],
                   Signature(Owner[c],
                             Transcript(c, m.eph, client[c].time, m.time, NoCt)),
                   ImageKey[c])}
    /\ UNCHANGED <<speaks, ahead, clock, server>>

\* ProtocolError, the 30 s read timeout or a closed connection.
ClientFails(c) ==
    /\ client[c].phase = "hello_sent"
    /\ client' = [client EXCEPT ![c].phase = "failed", ![c].time = 0]
    /\ UNCHANGED <<speaks, ahead, clock, server, sent>>

-----------------------------------------------------------------------------
(* Server                                                                  *)

\* _resolve_peer: the presented key selects its roster entry, if any.
ResolvesAnybody(id) == id \in People      \* mutant: the roster is not consulted
Resolves(id) == id \in Roster

\* process_client_hello, up to the first raise.  Exact lengths: a version-1
\* packet has no KEM key, a version-2 packet has one.
ClientHelloOk(m) ==
    /\ m.version = speaks["server"]
    /\ (m.version = 1) = (m.ek = None)
    /\ TimestampOk(clock, m.time)
    /\ Resolves(m.id)

\* The KeyExchange() of a server session.
ServerEphemeralStatic(s) == None         \* mutant: one key pair for all sessions
ServerEphemeral(s) == s

ServerCt(s, m) == IF m.version = 2 THEN Encaps(m.ek, s) ELSE NoCt

ServerKey(s, m) ==
    SessionKey(SharedSecret(ServerEphemeral(s), m.eph), KemSecret(ServerCt(s, m)))

\* The clock is read twice: for the check, and after the roster was searched
\* and the key pair generated (now).  checked_time is not in the code: it
\* records the first reading.
process_client_hello(s) ==
    /\ server[s].phase = "idle"
    /\ \E m \in ArrivingHellos, now \in clock .. MaxTime :
        /\ ClientHelloOk(m)
        /\ clock' = now
        /\ server' = [server EXCEPT
             ![s] = [phase |-> "hello_ok", peer |-> m.id,
                     eph |-> ServerEphemeral(s), peer_eph |-> m.eph,
                     client_time |-> m.time, checked_time |-> clock,
                     server_time |-> now, key |-> ServerKey(s, m)]]
        /\ sent' = sent \cup
             {ServerHello(speaks["server"], now, ServerEphemeral(s), "server",
                          ServerCt(s, m),
                          Signature("server",
                                    Transcript(m.eph, ServerEphemeral(s),
                                               m.time, now, ServerCt(s, m))))}
    /\ UNCHANGED <<speaks, ahead, client>>

\* _validate_image_auth_key
ImageKeyOk(image) ==
    image = "absent" \/ ImageMode # "loaded" \/ image = "valid"

AuthOkAnyPeer(s, m) ==      \* mutant: any roster identity may complete the session
    /\ m.key = server[s].key
    /\ Resolves(m.id)
    /\ m.sig = Signature(m.id,
                   Transcript(server[s].peer_eph, server[s].eph,
                              server[s].client_time, server[s].server_time, NoCt))
    /\ ImageKeyOk(m.image)

\* process_client_auth: the packet opens, it names the peer that the hello
\* resolved to, the peer signed the transcript, the image key is in order.
AuthOk(s, m) ==
    /\ m.key = server[s].key
    /\ m.id = server[s].peer
    /\ m.sig = Signature(m.id,
                   Transcript(server[s].peer_eph, server[s].eph,
                              server[s].client_time, server[s].server_time, NoCt))
    /\ ImageKeyOk(m.image)

process_client_auth(s) ==
    /\ server[s].phase = "hello_ok"
    /\ \E m \in ArrivingAuths : AuthOk(s, m)
    /\ server' = [server EXCEPT ![s].phase = "established"]
    /\ UNCHANGED <<speaks, ahead, clock, client, sent>>

\* ProtocolError, the read timeout, the handshake deadline or a closed
\* connection.  (A session that fails before its hello is one that stays
\* idle: it holds no state yet.)
ServerFails(s) ==
    /\ server[s].phase = "hello_ok"
    /\ server' = [server EXCEPT ![s].phase = "failed"]
    /\ UNCHANGED <<speaks, ahead, clock, client, sent>>

-----------------------------------------------------------------------------

Tick ==
    /\ clock < MaxTime
    /\ clock' = clock + 1
    /\ UNCHANGED <<speaks, ahead, client, server, sent>>

Next ==
    \/ \E c \in ClientSessions : \/ create_client_hello(c)
                                 \/ process_server_hello(c)
                                 \/ ClientFails(c)
    \/ \E s \in ServerSessions : \/ process_client_hello(s)
                                 \/ process_client_auth(s)
                                 \/ ServerFails(s)
    \/ Tick

Spec == Init /\ [][Next]_vars

-----------------------------------------------------------------------------
(* Properties                                                              *)

ClientPhases == {"idle", "hello_sent", "done", "failed"}
ServerPhases == {"idle", "hello_ok", "established", "failed"}

KemSecrets == [ct : Ciphertexts, rejected : ClientSessions \cup {None}]
Keys == [dh : SUBSET Ephemerals, kem : KemSecrets]

\* The types of the variables.
TypeOK ==
    /\ speaks \in [ClientSessions \cup {"server"} -> {1, 2}]
    /\ ahead \in [ClientSessions -> Aheads]
    /\ clock \in 0 .. MaxTime
    /\ client \in [ClientSessions ->
         [phase : ClientPhases, time : Times, peer_eph : Ephemerals \cup {None},
          server_time : Times, key : Keys]]
    /\ server \in [ServerSessions ->
         [phase : ServerPhases, peer : Roster \cup {None},
          eph : ServerSessions \cup {None}, peer_eph : Ephemerals \cup {None},
          client_time : Times, checked_time : 0 .. MaxTime,
          server_time : 0 .. MaxTime, key : Keys]]

\* Client session c and server session s ran the same handshake.
Paired(c, s) ==
    /\ server[s].peer_eph = c
    /\ client[c].peer_eph = server[s].eph
    /\ server[s].client_time = client[c].time
    /\ server[s].server_time = client[c].server_time

\* A session the server has established as some person's was run by that
\* person's own client, over the same ephemeral keys and times, and both
\* hold the same key, whatever the network did to the packets.  In
\* particular the identity of CLIENT_AUTH cannot differ from the one the
\* roster entry was selected with in CLIENT_HELLO.
ServerAgreement ==
    \A s \in ServerSessions : server[s].phase = "established" =>
        \E c \in ClientSessions :
            /\ Owner[c] = server[s].peer
            /\ Owner[c] \in Roster
            /\ client[c].phase = "done"
            /\ Paired(c, s)
            /\ client[c].key = server[s].key

\* No two server sessions ever hold the same key, although a CLIENT_HELLO may
\* be delivered to both: counters start at 0 in each, so two sessions with
\* one key would repeat nonces.
SessionKeysUnique ==
    \A s, t \in ServerSessions :
        (s # t /\ server[s].key = server[t].key) => server[s].key = NoKey

\* A client that is done was answered by the real server: a server session
\* agrees with it on both ephemeral keys and both times, and holds the same
\* key unless the KEM key of the hello was damaged on its way.  (Implicit
\* rejection then gives the two ends different keys, which only the server
\* can notice, when CLIENT_AUTH does not open.)
ClientAgreement ==
    \A c \in ClientSessions : client[c].phase = "done" =>
        \E s \in ServerSessions :
            /\ server[s].phase # "idle"
            /\ Paired(c, s)
            /\ server[s].key.kem.ct.to \in {c, None} =>
                   server[s].key = client[c].key

\* A replayed or delayed hello does not become a session, although the
\* timestamp the server checks is not authenticated at that moment.  The
\* check compares two hosts' clocks, so what it promises depends on them: the
\* time that had passed since the client made the hello is the client's lead,
\* give or take MaxSkew.  So it is at most MaxSkew more than that lead, and
\* no client whose clock is more than MaxSkew behind gets a session.
SessionsAreFresh ==
    \A s \in ServerSessions, c \in ClientSessions :
        (server[s].phase = "established" /\ server[s].peer_eph = c) =>
            LET passed == server[s].checked_time - (client[c].time - ahead[c])
            IN  /\ 0 <= passed
                /\ passed - ahead[c] \in -MaxSkew .. MaxSkew
=============================================================================
