-------------------------- MODULE Handshake_proofs --------------------------
(***************************************************************************)
(* Proofs about Handshake, for any number of sessions and people, any      *)
(* roster, any skew and whatever the network does.  Every property rests   *)
(* on what can be in the set of packets ever sent: a signature or a sealed *)
(* packet in it was made by a session that still remembers making it       *)
(* (Provenance), because a session's record is final once the session has  *)
(* signed (Keep).                                                          *)
(***************************************************************************)
EXTENDS Handshake, TLAPS

-----------------------------------------------------------------------------
(* The invariant                                                           *)

Transcripts == [ceph : Ephemerals, seph : Ephemerals, ctime : Times,
                stime : Times, ct : Ciphertexts]

Hellos == [packet : {"CLIENT_HELLO"}, version : {1, 2}, time : Times,
           eph : ClientSessions, id : People, ek : ClientSessions \cup {None}]

ServerHellos == [packet : {"SERVER_HELLO"}, version : {1, 2}, time : Times,
                 eph : ServerSessions, id : {"server"}, ct : Ciphertexts,
                 sig : [by : {"server"}, over : Transcripts]]

Auths == [packet : {"CLIENT_AUTH"}, key : Keys, id : People,
          sig : [by : People, over : Transcripts],
          image : {"absent", "valid", "invalid"}]

\* What server session s has signed, and what client session c has sealed.
ServerSignature(s) ==
    Signature("server", Transcript(server[s].peer_eph, server[s].eph,
                                   server[s].client_time, server[s].server_time,
                                   server[s].key.kem.ct))

ClientAuth(c) ==
    Auth(client[c].key, Owner[c],
         Signature(Owner[c], Transcript(c, client[c].peer_eph, client[c].time,
                                        client[c].server_time, NoCt)),
         ImageKey[c])

\* Every packet was made by a session that remembers it.
Provenance ==
    /\ sent \subseteq Hellos \cup ServerHellos \cup Auths
    /\ \A m \in sent \cap Hellos : client[m.eph].phase # "idle"
    /\ \A m \in sent \cap ServerHellos :
          \E s \in ServerSessions :
              server[s].phase # "idle" /\ m.sig = ServerSignature(s)
    /\ \A m \in sent \cap Auths :
          \E c \in ClientSessions : client[c].phase = "done" /\ m = ClientAuth(c)

\* By time t of the server's clock, c had made the hello it still stands by.
MadeBy(c, t) ==
    client[c].phase \in {"hello_sent", "done"} => client[c].time - ahead[c] <= t

\* What a server session knows once it has answered a hello.
Answered(s) ==
    /\ server[s].peer \in Roster
    /\ server[s].eph = s
    /\ server[s].peer_eph \in ClientSessions \cup {Junk}
    /\ server[s].key.dh = {s, server[s].peer_eph}
    /\ server[s].key.kem.rejected = None
    /\ \/ server[s].key.kem.ct = NoCt
       \/ server[s].key.kem.ct.to # None /\ server[s].key.kem.ct.by = s
    /\ server[s].checked_time - server[s].client_time \in -MaxSkew .. MaxSkew
    /\ server[s].peer_eph \in ClientSessions =>
          /\ client[server[s].peer_eph].phase # "idle"
          /\ MadeBy(server[s].peer_eph, server[s].checked_time)

ServersInOrder ==
    \A s \in ServerSessions :
        IF server[s].phase = "idle" THEN server[s].key = NoKey ELSE Answered(s)

ClientsInTime == \A c \in ClientSessions : MadeBy(c, clock)

Inv ==
    /\ TypeOK
    /\ Provenance
    /\ ServersInOrder
    /\ ClientsInTime
    /\ ServerAgreement
    /\ ClientAgreement

-----------------------------------------------------------------------------
(* What arrives                                                            *)

\* Packets of different kinds are different, by their first field.
LEMMA Kinds ==
    /\ \A m \in Hellos : m.packet = "CLIENT_HELLO"
    /\ \A m \in ServerHellos : m.packet = "SERVER_HELLO"
    /\ \A m \in Auths : m.packet = "CLIENT_AUTH"
<1>1. \A m \in Hellos : m.packet = "CLIENT_HELLO"
    BY DEF Hellos
<1>2. \A m \in ServerHellos : m.packet = "SERVER_HELLO"
    BY DEF ServerHellos
<1>3. \A m \in Auths : m.packet = "CLIENT_AUTH"
    BY DEF Auths
<1> QED
    BY <1>1, <1>2, <1>3

LEMMA SentKinds ==
    ASSUME Provenance
    PROVE  /\ SentOf("CLIENT_HELLO") = sent \cap Hellos
           /\ SentOf("SERVER_HELLO") = sent \cap ServerHellos
           /\ SentOf("CLIENT_AUTH") = sent \cap Auths
BY Kinds DEF SentOf, Provenance

\* A hello arrives well formed, over the ephemeral key of a session that
\* has begun, or of nobody.
LEMMA HelloArrives ==
    ASSUME Provenance, NEW m \in ArrivingHellos
    PROVE  /\ m \in [packet : {"CLIENT_HELLO"}, version : {1, 2}, time : Times,
                     eph : ClientSessions \cup {Junk}, id : People,
                     ek : ClientSessions \cup {None, Junk}]
           /\ m.eph \in ClientSessions => client[m.eph].phase # "idle"
<1> DEFINE hellos == sent \cap Hellos
<1>1. PICK n \in hellos :
        m \in {[n EXCEPT !.version = v] : v \in {1, 2}}
              \cup {[n EXCEPT !.time = t] : t \in Times}
              \cup {[n EXCEPT !.eph = o.eph] : o \in hellos}
              \cup {[n EXCEPT !.id = id] : id \in People}
              \cup {[n EXCEPT !.ek = o.ek] : o \in hellos}
              \cup {[n EXCEPT !.eph = Junk], [n EXCEPT !.ek = Junk]}
    BY SentKinds DEF ArrivingHellos
<1>2. n \in Hellos /\ client[n.eph].phase # "idle"
    BY DEF Provenance
<1>3. CASE m \in {[n EXCEPT !.version = v] : v \in {1, 2}}
    BY <1>2, <1>3 DEF Hellos
<1>4. CASE m \in {[n EXCEPT !.time = t] : t \in Times}
    BY <1>2, <1>4 DEF Hellos
<1>5. CASE m \in {[n EXCEPT !.eph = o.eph] : o \in hellos}
    <2> PICK o \in hellos : m = [n EXCEPT !.eph = o.eph]
        BY <1>5
    <2>1. o \in Hellos /\ client[o.eph].phase # "idle"
        BY DEF Provenance
    <2> QED
        BY <1>2, <2>1 DEF Hellos
<1>6. CASE m \in {[n EXCEPT !.id = id] : id \in People}
    BY <1>2, <1>6 DEF Hellos
<1>7. CASE m \in {[n EXCEPT !.ek = o.ek] : o \in hellos}
    <2> PICK o \in hellos : m = [n EXCEPT !.ek = o.ek]
        BY <1>7
    <2> QED
        BY <1>2 DEF Hellos
<1>8. CASE m \in {[n EXCEPT !.eph = Junk], [n EXCEPT !.ek = Junk]}
    <2>1. CASE m = [n EXCEPT !.eph = Junk]
        BY <1>2, <2>1, HandshakeAssumption DEF Hellos
    <2>2. CASE m = [n EXCEPT !.ek = Junk]
        BY <1>2, <2>2 DEF Hellos
    <2> QED
        BY <1>8, <2>1, <2>2
<1> QED
    BY <1>1, <1>3, <1>4, <1>5, <1>6, <1>7, <1>8

\* A SERVER_HELLO that a client accepts carries the signature of a server
\* session that has answered.
LEMMA ServerHelloArrives ==
    ASSUME TypeOK, Provenance, ServersInOrder, NEW c \in ClientSessions,
           NEW p \in ArrivingServerHellos, ServerHelloOk(c, p)
    PROVE  /\ p.time \in Times /\ p.eph \in ServerSessions /\ p.ct \in Ciphertexts
           /\ p.version \in {1, 2}
           /\ \E s \in ServerSessions :
                 /\ server[s].phase # "idle"
                 /\ server[s].peer_eph = c /\ server[s].eph = p.eph
                 /\ server[s].client_time = client[c].time
                 /\ server[s].server_time = p.time
                 /\ server[s].key.kem.ct = p.ct
<1> DEFINE hellos == SentOf("SERVER_HELLO")
<1>1. PICK v \in {1, 2}, t \in {m.time : m \in hellos},
           eph \in {m.eph : m \in hellos} \cup {Junk}, id \in {"server", Junk},
           ct \in {m.ct : m \in hellos} \cup {Encaps(Junk, Junk), NoCt},
           sig \in {m.sig : m \in hellos} \cup {Signature(Junk, None)} :
               p = ServerHello(v, t, eph, id, ct, sig)
    BY DEF ArrivingServerHellos
<1>2. hellos = sent \cap ServerHellos
    BY SentKinds
<1>3. /\ p.version = v /\ p.time = t /\ p.eph = eph /\ p.ct = ct
      /\ p.id = "server" /\ p.sig = sig
      /\ sig = Signature("server", Transcript(c, eph, client[c].time, t, ct))
    BY <1>1 DEF ServerHello, ServerHelloOk
<1>4. sig # Signature(Junk, None)
    BY <1>3, HandshakeAssumption DEF Signature
<1>5. PICK n \in hellos : sig = n.sig
    BY <1>1, <1>4
<1>6. PICK s \in ServerSessions : server[s].phase # "idle" /\ sig = ServerSignature(s)
    BY <1>2, <1>5 DEF Provenance
<1>7. /\ c = server[s].peer_eph /\ eph = server[s].eph
      /\ client[c].time = server[s].client_time /\ t = server[s].server_time
      /\ ct = server[s].key.kem.ct
    BY <1>3, <1>6 DEF ServerSignature, Signature, Transcript
<1>8. server[s].eph = s
    BY <1>6 DEF ServersInOrder, Answered
<1>9. t \in Times
    BY <1>1, <1>2 DEF ServerHellos
<1>10. ct \in Ciphertexts
    BY <1>7 DEF TypeOK, Keys, KemSecrets
<1> QED
    BY <1>1, <1>3, <1>6, <1>7, <1>8, <1>9, <1>10

\* A CLIENT_AUTH that a server session accepts was sealed by a client session
\* that is done and agrees with it.
LEMMA AuthArrives ==
    ASSUME TypeOK, Provenance, ServersInOrder, NEW s \in ServerSessions,
           server[s].phase = "hello_ok", NEW m \in ArrivingAuths, AuthOk(s, m)
    PROVE  \E c \in ClientSessions :
               /\ Owner[c] = server[s].peer
               /\ Owner[c] \in Roster
               /\ client[c].phase = "done"
               /\ Paired(c, s)
               /\ client[c].key = server[s].key
<1>1. server[s].peer \in Roster /\ server[s].peer \in People
    BY HandshakeAssumption DEF ServersInOrder, Answered
<1>2. m.id = server[s].peer /\ m.key = server[s].key
    BY DEF AuthOk
<1>3. m # Auth(Junk, Junk, Signature(Junk, None), "absent")
    BY <1>1, <1>2, HandshakeAssumption DEF Auth
<1>4. m \in sent \cap Auths
    BY <1>3, SentKinds DEF ArrivingAuths
<1>5. PICK c \in ClientSessions : client[c].phase = "done" /\ m = ClientAuth(c)
    BY <1>4 DEF Provenance
<1>6. /\ m.key = client[c].key /\ m.id = Owner[c]
      /\ m.sig = Signature(Owner[c], Transcript(c, client[c].peer_eph, client[c].time,
                                                client[c].server_time, NoCt))
    BY <1>5 DEF ClientAuth, Auth
<1>7. /\ c = server[s].peer_eph /\ client[c].peer_eph = server[s].eph
      /\ client[c].time = server[s].client_time
      /\ client[c].server_time = server[s].server_time
    BY <1>6 DEF AuthOk, Signature, Transcript
<1> QED
    BY <1>1, <1>2, <1>5, <1>6, <1>7 DEF Paired

-----------------------------------------------------------------------------
(* The types                                                               *)

\* There is a time zero, and what a host's clock shows is a time.
LEMMA TimesFacts ==
    /\ 0 \in Times /\ 0 \in 0 .. MaxTime
    /\ Times \subseteq Int
    /\ \A t \in 0 .. MaxTime : t \in Times
    /\ \A t \in 0 .. MaxTime, a \in Aheads : t + a \in Times
<1>1. 0 \in 0 .. MaxTime
    BY HandshakeAssumption
<1>2. \A t \in 0 .. MaxTime : t + 0 = t
    OBVIOUS
<1>3. \A t \in 0 .. MaxTime : t \in Times
    BY <1>2 DEF Times
<1>4. \A t \in 0 .. MaxTime, a \in Aheads : t + a \in Times
    BY DEF Times
<1>5. Times \subseteq Int
    BY HandshakeAssumption DEF Times
<1> QED
    BY <1>1, <1>3, <1>4, <1>5

\* Whatever a host's clock shows is a time.
LEMMA ClockTypes ==
    ASSUME TypeOK
    PROVE  /\ clock \in Times /\ clock \in Int
           /\ \A c \in ClientSessions :
                 ahead[c] \in Int /\ ClockOf(c) \in Times /\ client[c].time \in Int
           /\ \A s \in ServerSessions :
                 server[s].checked_time \in Int /\ server[s].client_time \in Int
<1>1. clock \in 0 .. MaxTime /\ \A c \in ClientSessions : ahead[c] \in Aheads
    BY DEF TypeOK
<1>2. \A c \in ClientSessions : client[c].time \in Times
    BY DEF TypeOK
<1>3. \A s \in ServerSessions :
          server[s].checked_time \in 0 .. MaxTime /\ server[s].client_time \in Times
    BY DEF TypeOK
<1> QED
    BY <1>1, <1>2, <1>3, TimesFacts, HandshakeAssumption DEF ClockOf

\* Ciphertexts and keys of the sessions are ciphertexts and keys.
LEMMA ServerKeyType ==
    ASSUME NEW s \in ServerSessions,
           NEW m \in [packet : {"CLIENT_HELLO"}, version : {1, 2}, time : Times,
                      eph : ClientSessions \cup {Junk}, id : People,
                      ek : ClientSessions \cup {None, Junk}]
    PROVE  ServerCt(s, m) \in Ciphertexts /\ ServerKey(s, m) \in Keys
<1>1. ServerCt(s, m) \in Ciphertexts
    BY DEF ServerCt, Encaps, NoCt, Ciphertexts
<1>2. {s, m.eph} \in SUBSET Ephemerals
    BY DEF Ephemerals
<1> QED
    BY <1>1, <1>2 DEF ServerKey, SessionKey, SharedSecret, ServerEphemeral, KemSecret,
                      Keys, KemSecrets

LEMMA ClientKeyType ==
    ASSUME NEW c \in ClientSessions, NEW m, m.eph \in ServerSessions, m.ct \in Ciphertexts
    PROVE  ClientKey(c, m) \in Keys
<1>1. NoCt \in Ciphertexts
    BY DEF NoCt, Ciphertexts
<1>2. {c, m.eph} \in SUBSET Ephemerals
    BY DEF Ephemerals
<1> QED
    BY <1>1, <1>2 DEF ClientKey, SessionKey, SharedSecret, Decaps, NoKem, KemSecret,
                      Keys, KemSecrets

LEMMA NoKeyType == NoKey \in Keys
<1>1. NoCt \in Ciphertexts
    BY DEF NoCt, Ciphertexts
<1> QED
    BY <1>1 DEF NoKey, SessionKey, NoKem, KemSecret, Keys, KemSecrets

ClientRecords == [phase : ClientPhases, time : Times, peer_eph : Ephemerals \cup {None},
                  server_time : Times, key : Keys]

\* A client session's updates, field by field, as the whole record r.
LEMMA ClientBegins ==
    ASSUME TypeOK, NEW c \in ClientSessions, create_client_hello(c)
    PROVE  \E r \in ClientRecords :
              /\ client' = [client EXCEPT ![c] = r]
              /\ r.phase = "hello_sent" /\ r.time = ClockOf(c)
<1> DEFINE r == [client[c] EXCEPT !.phase = "hello_sent", !.time = ClockOf(c)]
<1>1. client \in [ClientSessions -> ClientRecords] /\ ClockOf(c) \in Times
    BY ClockTypes DEF TypeOK, ClientRecords
<1>2. client' = [client EXCEPT ![c] = r]
    BY <1>1 DEF create_client_hello, ClientRecords
<1>3. r \in ClientRecords
    BY <1>1 DEF ClientRecords, ClientPhases
<1> QED
    BY <1>1, <1>2, <1>3 DEF ClientRecords

LEMMA ClientGivesUp ==
    ASSUME TypeOK, NEW c \in ClientSessions, ClientFails(c)
    PROVE  \E r \in ClientRecords :
              client' = [client EXCEPT ![c] = r] /\ r.phase = "failed" /\ r.time = 0
<1> DEFINE r == [client[c] EXCEPT !.phase = "failed", !.time = 0]
<1>1. client \in [ClientSessions -> ClientRecords] /\ 0 \in Times
    BY TimesFacts DEF TypeOK, ClientRecords
<1>2. client' = [client EXCEPT ![c] = r]
    BY <1>1 DEF ClientFails, ClientRecords
<1>3. r \in ClientRecords
    BY <1>1 DEF ClientRecords, ClientPhases
<1> QED
    BY <1>1, <1>2, <1>3 DEF ClientRecords

LEMMA ClientCompletes ==
    ASSUME TypeOK, Provenance, ServersInOrder, NEW c \in ClientSessions,
           process_server_hello(c)
    PROVE  \E m \in ArrivingServerHellos, r \in ClientRecords :
              /\ ServerHelloOk(c, m)
              /\ client' = [client EXCEPT ![c] = r]
              /\ r.phase = "done" /\ r.peer_eph = m.eph /\ r.time = client[c].time
              /\ r.server_time = m.time /\ r.key = ClientKey(c, m)
              /\ sent' = sent \cup
                   {Auth(ClientKey(c, m), Owner[c],
                         Signature(Owner[c],
                                   Transcript(c, m.eph, client[c].time, m.time, NoCt)),
                         ImageKey[c])}
<1> PICK m \in ArrivingServerHellos :
        /\ ServerHelloOk(c, m)
        /\ client' = [client EXCEPT ![c].phase = "done", ![c].peer_eph = m.eph,
                                    ![c].server_time = m.time, ![c].key = ClientKey(c, m)]
        /\ sent' = sent \cup
             {Auth(ClientKey(c, m), Owner[c],
                   Signature(Owner[c],
                             Transcript(c, m.eph, client[c].time, m.time, NoCt)),
                   ImageKey[c])}
    BY DEF process_server_hello
<1> DEFINE r == [client[c] EXCEPT !.phase = "done", !.peer_eph = m.eph,
                                  !.server_time = m.time, !.key = ClientKey(c, m)]
<1>1. client \in [ClientSessions -> ClientRecords]
    BY DEF TypeOK, ClientRecords
<1>2. client' = [client EXCEPT ![c] = r]
    BY <1>1 DEF ClientRecords
<1>3. m.time \in Times /\ m.eph \in Ephemerals /\ ClientKey(c, m) \in Keys
    BY ServerHelloArrives, ClientKeyType DEF Ephemerals
<1>4. r \in ClientRecords
    BY <1>1, <1>3 DEF ClientRecords, ClientPhases
<1> QED
    BY <1>1, <1>2, <1>4 DEF ClientRecords

ServerRecords == [phase : ServerPhases, peer : Roster \cup {None},
                  eph : ServerSessions \cup {None}, peer_eph : Ephemerals \cup {None},
                  client_time : Times, checked_time : 0 .. MaxTime,
                  server_time : 0 .. MaxTime, key : Keys]

\* What a step that touches one client session leaves in type.
LEMMA ClientStepTypes ==
    ASSUME TypeOK, NEW c \in ClientSessions, NEW r \in ClientRecords,
           client' = [client EXCEPT ![c] = r],
           speaks' = speaks, ahead' = ahead, clock' = clock, server' = server
    PROVE  TypeOK'
<1>1. client \in [ClientSessions -> ClientRecords]
    BY DEF TypeOK, ClientRecords
<1>2. client' \in [ClientSessions -> ClientRecords]
    BY <1>1
<1> QED
    BY <1>2 DEF TypeOK, ClientRecords

\* A server session that only changes its phase keeps its type.
LEMMA ServerStepTypes ==
    ASSUME TypeOK, NEW s \in ServerSessions, NEW p \in ServerPhases,
           server' = [server EXCEPT ![s].phase = p],
           speaks' = speaks, ahead' = ahead, clock' = clock, client' = client
    PROVE  TypeOK'
<1>1. server \in [ServerSessions -> ServerRecords]
    BY DEF TypeOK, ServerRecords
<1> DEFINE q == [server[s] EXCEPT !.phase = p]
<1>2. server' = [server EXCEPT ![s] = q]
    BY <1>1
<1>3. q \in ServerRecords
    BY <1>1 DEF ServerRecords
<1>4. server' \in [ServerSessions -> ServerRecords]
    BY <1>1, <1>2, <1>3
<1> QED
    BY <1>4 DEF TypeOK, ServerRecords

LEMMA TypeStep ==
    ASSUME TypeOK, Provenance, ServersInOrder, [Next]_vars
    PROVE  TypeOK'
<1>1. ASSUME NEW c \in ClientSessions, create_client_hello(c)
      PROVE  TypeOK'
    <2> PICK r \in ClientRecords : client' = [client EXCEPT ![c] = r]
        BY <1>1, ClientBegins
    <2> QED
        BY <1>1, ClientStepTypes DEF create_client_hello
<1>2. ASSUME NEW c \in ClientSessions, process_server_hello(c)
      PROVE  TypeOK'
    <2> PICK r \in ClientRecords : client' = [client EXCEPT ![c] = r]
        BY <1>2, ClientCompletes
    <2> QED
        BY <1>2, ClientStepTypes DEF process_server_hello
<1>3. ASSUME NEW c \in ClientSessions, ClientFails(c)
      PROVE  TypeOK'
    <2> PICK r \in ClientRecords : client' = [client EXCEPT ![c] = r]
        BY <1>3, ClientGivesUp
    <2> QED
        BY <1>3, ClientStepTypes DEF ClientFails
<1>4. ASSUME NEW s \in ServerSessions, process_client_hello(s)
      PROVE  TypeOK'
    <2> PICK m \in ArrivingHellos, now \in clock .. MaxTime :
            /\ ClientHelloOk(m)
            /\ clock' = now
            /\ server' = [server EXCEPT
                 ![s] = [phase |-> "hello_ok", peer |-> m.id,
                         eph |-> ServerEphemeral(s), peer_eph |-> m.eph,
                         client_time |-> m.time, checked_time |-> clock,
                         server_time |-> now, key |-> ServerKey(s, m)]]
        BY <1>4 DEF process_client_hello
    <2>0. now \in 0 .. MaxTime
        BY HandshakeAssumption DEF TypeOK
    <2>1. ServerKey(s, m) \in Keys
        BY HelloArrives, ServerKeyType
    <2>2. m.id \in Roster /\ m.eph \in Ephemerals /\ m.time \in Times
        BY HelloArrives DEF ClientHelloOk, Resolves, Ephemerals
    <2>3. server \in [ServerSessions -> ServerRecords] /\ clock \in 0 .. MaxTime
        BY DEF TypeOK, ServerRecords
    <2>4. server'[s] \in ServerRecords
        BY <2>0, <2>1, <2>2, <2>3 DEF ServerRecords, ServerPhases, ServerEphemeral
    <2>5. server' \in [ServerSessions -> ServerRecords]
        BY <2>3, <2>4
    <2> QED
        BY <1>4, <2>0, <2>5 DEF TypeOK, process_client_hello, ServerRecords
<1>5. ASSUME NEW s \in ServerSessions, process_client_auth(s)
      PROVE  TypeOK'
    BY <1>5, ServerStepTypes DEF process_client_auth, ServerPhases
<1>6. ASSUME NEW s \in ServerSessions, ServerFails(s)
      PROVE  TypeOK'
    BY <1>6, ServerStepTypes DEF ServerFails, ServerPhases
<1>7. CASE Tick
    <2>1. clock' \in 0 .. MaxTime
        BY <1>7, HandshakeAssumption DEF Tick, TypeOK
    <2> QED
        BY <1>7, <2>1 DEF Tick, TypeOK
<1>8. CASE UNCHANGED vars
    BY <1>8 DEF vars, TypeOK
<1> QED
    BY <1>1, <1>2, <1>3, <1>4, <1>5, <1>6, <1>7, <1>8 DEF Next

-----------------------------------------------------------------------------
(* What no step undoes                                                     *)

\* A session that has answered only changes its phase; a client session that
\* has ended does not change any more, and none becomes idle again.  The
\* clocks' differences are fixed.
Keep ==
    /\ \A s \in ServerSessions : server[s].phase # "idle" =>
          /\ server'[s].phase # "idle"
          /\ server'[s].peer = server[s].peer
          /\ server'[s].eph = server[s].eph
          /\ server'[s].peer_eph = server[s].peer_eph
          /\ server'[s].client_time = server[s].client_time
          /\ server'[s].checked_time = server[s].checked_time
          /\ server'[s].server_time = server[s].server_time
          /\ server'[s].key = server[s].key
    /\ \A c \in ClientSessions :
          /\ client[c].phase \in {"done", "failed"} => client'[c] = client[c]
          /\ client[c].phase # "idle" =>
                /\ client'[c].phase # "idle"
                /\ client'[c].phase # "failed" => client'[c].time = client[c].time
    /\ ahead' = ahead

LEMMA ClientStepKeeps ==
    ASSUME TypeOK, NEW c \in ClientSessions, NEW r \in ClientRecords,
           client' = [client EXCEPT ![c] = r], server' = server, ahead' = ahead,
           client[c].phase \in {"idle", "hello_sent"}, r.phase # "idle",
           client[c].phase # "idle" /\ r.phase # "failed" => r.time = client[c].time
    PROVE  Keep
<1>1. client \in [ClientSessions -> ClientRecords]
    BY DEF TypeOK, ClientRecords
<1>2. \A d \in ClientSessions : client'[d] = IF d = c THEN r ELSE client[d]
    BY <1>1
<1> QED
    BY <1>2 DEF Keep

LEMMA ServerStepKeeps ==
    ASSUME TypeOK, NEW s \in ServerSessions, NEW r,
           server' = [server EXCEPT ![s] = r], client' = client, ahead' = ahead,
           \/ server[s].phase = "idle"
           \/ r = [server[s] EXCEPT !.phase = r.phase] /\ r.phase # "idle"
    PROVE  Keep
<1>1. \A t \in ServerSessions : server'[t] = IF t = s THEN r ELSE server[t]
    BY DEF TypeOK
<1> QED
    BY <1>1 DEF Keep, TypeOK

LEMMA KeepStep ==
    ASSUME TypeOK, Provenance, ServersInOrder, [Next]_vars
    PROVE  Keep
<1>1. ASSUME NEW c \in ClientSessions, create_client_hello(c)
      PROVE  Keep
    BY <1>1, ClientBegins, ClientStepKeeps DEF create_client_hello
<1>2. ASSUME NEW c \in ClientSessions, process_server_hello(c)
      PROVE  Keep
    <2> PICK r \in ClientRecords : /\ client' = [client EXCEPT ![c] = r]
                                   /\ r.phase = "done" /\ r.time = client[c].time
        BY <1>2, ClientCompletes
    <2>1. server' = server /\ ahead' = ahead /\ client[c].phase = "hello_sent"
        BY <1>2 DEF process_server_hello
    <2> QED
        BY <2>1, ClientStepKeeps
<1>3. ASSUME NEW c \in ClientSessions, ClientFails(c)
      PROVE  Keep
    <2> PICK r \in ClientRecords :
            client' = [client EXCEPT ![c] = r] /\ r.phase = "failed" /\ r.time = 0
        BY <1>3, ClientGivesUp
    <2>1. server' = server /\ ahead' = ahead /\ client[c].phase = "hello_sent"
        BY <1>3 DEF ClientFails
    <2> QED
        BY <2>1, ClientStepKeeps
<1>4. ASSUME NEW s \in ServerSessions, process_client_hello(s)
      PROVE  Keep
    BY <1>4, ServerStepKeeps DEF process_client_hello
<1>5. ASSUME NEW s \in ServerSessions, process_client_auth(s)
      PROVE  Keep
    <2>1. server' = [server EXCEPT ![s] = [server[s] EXCEPT !.phase = "established"]]
        BY <1>5 DEF process_client_auth
    <2> DEFINE r == [server[s] EXCEPT !.phase = "established"]
    <2>2. r = [server[s] EXCEPT !.phase = r.phase] /\ r.phase # "idle"
        BY DEF TypeOK
    <2>3. client' = client /\ ahead' = ahead
        BY <1>5 DEF process_client_auth
    <2> QED
        BY <2>1, <2>2, <2>3, ServerStepKeeps
<1>6. ASSUME NEW s \in ServerSessions, ServerFails(s)
      PROVE  Keep
    <2>1. server' = [server EXCEPT ![s] = [server[s] EXCEPT !.phase = "failed"]]
        BY <1>6 DEF ServerFails
    <2> DEFINE r == [server[s] EXCEPT !.phase = "failed"]
    <2>2. r = [server[s] EXCEPT !.phase = r.phase] /\ r.phase # "idle"
        BY DEF TypeOK
    <2>3. client' = client /\ ahead' = ahead
        BY <1>6 DEF ServerFails
    <2> QED
        BY <2>1, <2>2, <2>3, ServerStepKeeps
<1>7. CASE Tick \/ UNCHANGED vars
    BY <1>7 DEF Tick, vars, Keep
<1> QED
    BY <1>1, <1>2, <1>3, <1>4, <1>5, <1>6, <1>7 DEF Next

-----------------------------------------------------------------------------
(* The invariant is inductive                                              *)

LEMMA InitInv == Init => Inv
<1> SUFFICES ASSUME Init
             PROVE  Inv
    OBVIOUS
<1> USE DEF Init
<1>1. TypeOK
    BY NoKeyType, TimesFacts DEF TypeOK, ClientPhases, ServerPhases
<1>2. Provenance
    BY DEF Provenance
<1>3. ServersInOrder
    BY DEF ServersInOrder
<1>4. ClientsInTime
    BY DEF ClientsInTime, MadeBy
<1>5. ServerAgreement /\ ClientAgreement
    BY DEF ServerAgreement, ClientAgreement
<1> QED
    BY <1>1, <1>2, <1>3, <1>4, <1>5 DEF Inv

\* The clock does not go back.
LEMMA ClockStep ==
    ASSUME TypeOK, [Next]_vars
    PROVE  clock \in Int /\ clock' \in Int /\ clock <= clock'
<1>1. clock \in Int
    BY ClockTypes
<1>2. clock' = clock \/ clock' = clock + 1 \/ clock' \in clock .. MaxTime
    BY DEF Next, vars, create_client_hello, process_server_hello, ClientFails,
       process_client_hello, process_client_auth, ServerFails, Tick
<1> QED
    BY <1>1, <1>2

\* A client session that has not begun changes only by beginning.
LEMMA IdleClient ==
    ASSUME TypeOK, Provenance, ServersInOrder, [Next]_vars,
           NEW c \in ClientSessions, client[c].phase = "idle", ~create_client_hello(c)
    PROVE  client'[c] = client[c]
<1>1. client \in [ClientSessions -> ClientRecords]
    BY DEF TypeOK, ClientRecords
<1>2. ASSUME NEW d \in ClientSessions, create_client_hello(d)
      PROVE  client'[c] = client[c]
    <2> PICK r \in ClientRecords : client' = [client EXCEPT ![d] = r]
        BY <1>2, ClientBegins
    <2> QED
        BY <1>1, <1>2
<1>3. ASSUME NEW d \in ClientSessions, process_server_hello(d)
      PROVE  client'[c] = client[c]
    <2>1. c # d
        BY <1>3 DEF process_server_hello
    <2> PICK r \in ClientRecords : client' = [client EXCEPT ![d] = r]
        BY <1>3, ClientCompletes
    <2> QED
        BY <1>1, <2>1
<1>4. ASSUME NEW d \in ClientSessions, ClientFails(d)
      PROVE  client'[c] = client[c]
    <2>1. c # d
        BY <1>4 DEF ClientFails
    <2> PICK r \in ClientRecords : client' = [client EXCEPT ![d] = r]
        BY <1>4, ClientGivesUp
    <2> QED
        BY <1>1, <2>1
<1>5. CASE UNCHANGED client
    BY <1>5
<1> QED
    BY <1>2, <1>3, <1>4, <1>5
    DEF Next, vars, process_client_hello, process_client_auth, ServerFails, Tick

\* A client session made its hello at a time that has passed.
LEMMA InTimeStep ==
    ASSUME Inv, [Next]_vars
    PROVE  ClientsInTime'
<1>0. TypeOK /\ Provenance /\ ServersInOrder /\ ClientsInTime
    BY DEF Inv
<1>1. clock \in Int /\ clock' \in Int /\ clock <= clock'
    BY <1>0, ClockStep
<1>2. Keep
    BY <1>0, KeepStep
<1>3. \A c \in ClientSessions : client[c].time \in Int /\ ahead[c] \in Int
    BY <1>0, ClockTypes
<1>4. ASSUME NEW c \in ClientSessions, client'[c].phase \in {"hello_sent", "done"}
      PROVE  client'[c].time - ahead'[c] <= clock'
    <2>1. CASE client[c].phase # "idle"
        <3>1. client[c].phase \in {"hello_sent", "done"}
            BY <1>0, <1>2, <1>4, <2>1 DEF Keep, TypeOK, ClientPhases
        <3>2. client'[c].time = client[c].time /\ ahead' = ahead
            BY <1>2, <1>4, <2>1 DEF Keep
        <3>3. client[c].time - ahead[c] <= clock
            BY <1>0, <3>1 DEF ClientsInTime, MadeBy
        <3> QED
            BY <1>1, <1>3, <3>2, <3>3
    <2>2. CASE create_client_hello(c)
        <3> PICK r \in ClientRecords :
                client' = [client EXCEPT ![c] = r] /\ r.time = ClockOf(c)
            BY <1>0, <2>2, ClientBegins
        <3>1. client'[c].time = clock + ahead[c] /\ ahead' = ahead /\ clock' = clock
            BY <1>0, <2>2 DEF TypeOK, ClockOf, create_client_hello
        <3> QED
            BY <1>1, <1>3, <3>1
    <2>3. CASE client[c].phase = "idle" /\ ~create_client_hello(c)
        BY <1>0, <1>4, <2>3, IdleClient
    <2> QED
        BY <2>1, <2>2, <2>3
<1> QED
    BY <1>4 DEF ClientsInTime, MadeBy

\* A session's answer is in order, and stays so.
LEMMA AnswerStep ==
    ASSUME Inv, NEW s \in ServerSessions, process_client_hello(s)
    PROVE  server'[s].phase # "idle" /\ Answered(s)'
<1> USE DEF Inv
<1> PICK m \in ArrivingHellos, now \in clock .. MaxTime :
        /\ ClientHelloOk(m)
        /\ server' = [server EXCEPT
             ![s] = [phase |-> "hello_ok", peer |-> m.id,
                     eph |-> ServerEphemeral(s), peer_eph |-> m.eph,
                     client_time |-> m.time, checked_time |-> clock,
                     server_time |-> now, key |-> ServerKey(s, m)]]
    BY DEF process_client_hello
<1>1. server'[s] = [phase |-> "hello_ok", peer |-> m.id, eph |-> s, peer_eph |-> m.eph,
                    client_time |-> m.time, checked_time |-> clock, server_time |-> now,
                    key |-> ServerKey(s, m)]
    BY DEF TypeOK, ServerEphemeral
<1>2. /\ m \in [packet : {"CLIENT_HELLO"}, version : {1, 2}, time : Times,
                eph : ClientSessions \cup {Junk}, id : People,
                ek : ClientSessions \cup {None, Junk}]
      /\ m.eph \in ClientSessions => client[m.eph].phase # "idle"
    BY HelloArrives
<1>3. m.id \in Roster /\ clock - m.time \in -MaxSkew .. MaxSkew
    BY DEF ClientHelloOk, Resolves, TimestampOk
<1>4. /\ ServerKey(s, m).dh = {s, m.eph}
      /\ ServerKey(s, m).kem.rejected = None
      /\ ServerKey(s, m).kem.ct = ServerCt(s, m)
    BY DEF ServerKey, SessionKey, SharedSecret, ServerEphemeral, KemSecret
<1>5. ServerCt(s, m) = NoCt \/ (ServerCt(s, m).to # None /\ ServerCt(s, m).by = s)
    <2>1. CASE m.version = 2
        BY <1>2, <2>1 DEF ClientHelloOk, ServerCt, Encaps
    <2>2. CASE m.version # 2
        BY <2>2 DEF ServerCt
    <2> QED
        BY <2>1, <2>2
<1>6. client' = client /\ ahead' = ahead
    BY DEF process_client_hello
<1>7. m.eph \in ClientSessions => MadeBy(m.eph, clock)
    BY DEF ClientsInTime
<1> QED
    BY <1>1, <1>2, <1>3, <1>4, <1>5, <1>6, <1>7 DEF Answered, MadeBy

LEMMA OrderStep ==
    ASSUME Inv, [Next]_vars
    PROVE  ServersInOrder'
<1> USE DEF Inv
<1>1. ASSUME NEW s \in ServerSessions, server[s].phase # "idle"
      PROVE  server'[s].phase # "idle" /\ Answered(s)'
    <2>1. /\ server'[s].phase # "idle"
          /\ server'[s].peer = server[s].peer /\ server'[s].eph = server[s].eph
          /\ server'[s].peer_eph = server[s].peer_eph
          /\ server'[s].client_time = server[s].client_time
          /\ server'[s].checked_time = server[s].checked_time
          /\ server'[s].key = server[s].key
        BY <1>1, KeepStep DEF Keep
    <2>2. Answered(s)
        BY <1>1 DEF ServersInOrder
    <2>3. ASSUME NEW c \in ClientSessions, c = server[s].peer_eph
          PROVE  client'[c].phase # "idle" /\ MadeBy(c, server[s].checked_time)'
        <3>1. client[c].phase # "idle" /\ MadeBy(c, server[s].checked_time)
            BY <2>2, <2>3 DEF Answered
        <3>2. client[c].phase \in {"hello_sent", "done", "failed"}
            BY <3>1 DEF TypeOK, ClientPhases
        <3> QED
            BY <2>1, <3>1, <3>2, KeepStep DEF Keep, MadeBy
    <2> QED
        BY <2>1, <2>2, <2>3 DEF Answered
<1>2. ASSUME NEW s \in ServerSessions, server[s].phase = "idle"
      PROVE  IF server'[s].phase = "idle" THEN server'[s].key = NoKey ELSE Answered(s)'
    <2>1. CASE process_client_hello(s)
        BY <2>1, AnswerStep
    <2>2. CASE ~process_client_hello(s)
        <3>1. \/ UNCHANGED server
              \/ \E t \in ServerSessions :
                    \/ t # s /\ process_client_hello(t)
                    \/ process_client_auth(t)
                    \/ ServerFails(t)
            BY <2>2 DEF Next, vars, create_client_hello, process_server_hello,
               ClientFails, Tick
        <3>2. ASSUME NEW t \in ServerSessions, t # s, process_client_hello(t)
              PROVE  server'[s] = server[s]
            BY <3>2 DEF TypeOK, process_client_hello
        <3>3. ASSUME NEW t \in ServerSessions, process_client_auth(t) \/ ServerFails(t)
              PROVE  server'[s] = server[s]
            BY <1>2, <3>3 DEF TypeOK, process_client_auth, ServerFails
        <3>4. server'[s] = server[s]
            BY <3>1, <3>2, <3>3
        <3> QED
            BY <1>2, <3>4 DEF ServersInOrder
    <2> QED
        BY <2>1, <2>2
<1> QED
    BY <1>1, <1>2 DEF ServersInOrder

-----------------------------------------------------------------------------
(* Where packets come from                                                 *)

\* A step leaves the packets sent before it accounted for.
LEMMA PacketsStay ==
    ASSUME Provenance, Keep
    PROVE  /\ \A m \in sent \cap Hellos : client'[m.eph].phase # "idle"
           /\ \A m \in sent \cap ServerHellos :
                 \E s \in ServerSessions :
                     server'[s].phase # "idle" /\ m.sig = ServerSignature(s)'
           /\ \A m \in sent \cap Auths :
                 \E c \in ClientSessions :
                     client'[c].phase = "done" /\ m = ClientAuth(c)'
<1>1. ASSUME NEW m \in sent \cap Hellos
      PROVE  client'[m.eph].phase # "idle"
    <2>1. m.eph \in ClientSessions
        BY DEF Hellos
    <2> QED
        BY <2>1 DEF Provenance, Keep
<1>2. ASSUME NEW m \in sent \cap ServerHellos
      PROVE  \E s \in ServerSessions :
                 server'[s].phase # "idle" /\ m.sig = ServerSignature(s)'
    <2> PICK s \in ServerSessions : server[s].phase # "idle" /\ m.sig = ServerSignature(s)
        BY DEF Provenance
    <2>1. server'[s].phase # "idle" /\ ServerSignature(s)' = ServerSignature(s)
        BY DEF Keep, ServerSignature
    <2> QED
        BY <2>1
<1>3. ASSUME NEW m \in sent \cap Auths
      PROVE  \E c \in ClientSessions : client'[c].phase = "done" /\ m = ClientAuth(c)'
    <2> PICK c \in ClientSessions : client[c].phase = "done" /\ m = ClientAuth(c)
        BY DEF Provenance
    <2>1. client'[c] = client[c]
        BY DEF Keep
    <2>2. ClientAuth(c)' = ClientAuth(c)
        BY <2>1 DEF ClientAuth
    <2> QED
        BY <2>1, <2>2
<1> QED
    BY <1>1, <1>2, <1>3

\* The hello of a session that begins.
LEMMA HelloSent ==
    ASSUME Inv, NEW c \in ClientSessions, create_client_hello(c)
    PROVE  \E m \in Hellos : sent' = sent \cup {m} /\ client'[m.eph].phase # "idle"
<1> DEFINE m == Hello(speaks[c], ClockOf(c), c, Owner[c], IF speaks[c] = 2 THEN c ELSE None)
<1>1. TypeOK
    BY DEF Inv
<1>2. speaks[c] \in {1, 2} /\ ClockOf(c) \in Times /\ Owner[c] \in People
    BY <1>1, ClockTypes, HandshakeAssumption DEF TypeOK
<1>3. m \in Hellos /\ m.eph = c
    BY <1>2 DEF Hello, Hellos
<1>4. sent' = sent \cup {m}
    BY DEF create_client_hello
<1> PICK r \in ClientRecords : client' = [client EXCEPT ![c] = r] /\ r.phase = "hello_sent"
    BY <1>1, ClientBegins
<1>5. client'[c] = r
    BY <1>1 DEF TypeOK
<1> HIDE DEF m
<1> QED
    BY <1>3, <1>4, <1>5

\* The hello of a server session that answers.
LEMMA ServerHelloSent ==
    ASSUME Inv, NEW s \in ServerSessions, process_client_hello(s)
    PROVE  \E m \in ServerHellos :
              /\ sent' = sent \cup {m}
              /\ server'[s].phase # "idle"
              /\ m.sig = ServerSignature(s)'
<1>1. TypeOK /\ Provenance
    BY DEF Inv
<1> PICK h \in ArrivingHellos, now \in clock .. MaxTime :
        /\ ClientHelloOk(h)
        /\ server' = [server EXCEPT
             ![s] = [phase |-> "hello_ok", peer |-> h.id,
                     eph |-> ServerEphemeral(s), peer_eph |-> h.eph,
                     client_time |-> h.time, checked_time |-> clock,
                     server_time |-> now, key |-> ServerKey(s, h)]]
        /\ sent' = sent \cup
             {ServerHello(speaks["server"], now, ServerEphemeral(s), "server",
                          ServerCt(s, h),
                          Signature("server",
                                    Transcript(h.eph, ServerEphemeral(s),
                                               h.time, now, ServerCt(s, h))))}
    BY DEF process_client_hello
<1> DEFINE t == Transcript(h.eph, s, h.time, now, ServerCt(s, h))
           m == ServerHello(speaks["server"], now, s, "server", ServerCt(s, h),
                            Signature("server", t))
<1>2. sent' = sent \cup {m}
    BY DEF ServerEphemeral
<1>3. h \in [packet : {"CLIENT_HELLO"}, version : {1, 2}, time : Times,
             eph : ClientSessions \cup {Junk}, id : People,
             ek : ClientSessions \cup {None, Junk}]
    BY <1>1, HelloArrives
<1>4. ServerCt(s, h) \in Ciphertexts
    BY <1>3, ServerKeyType
<1>5. h.eph \in Ephemerals /\ s \in Ephemerals /\ h.time \in Times /\ now \in Times
      /\ speaks["server"] \in {1, 2}
    <2>1. now \in 0 .. MaxTime
        BY <1>1, HandshakeAssumption DEF TypeOK
    <2> QED
        BY <1>1, <1>3, <2>1, TimesFacts DEF Ephemerals, TypeOK
<1>6. t \in Transcripts
    BY <1>4, <1>5 DEF Transcript, Transcripts
<1>7. Signature("server", t) \in [by : {"server"}, over : Transcripts]
    BY <1>6 DEF Signature
<1>8. m \in ServerHellos /\ m.sig = Signature("server", t)
    BY <1>4, <1>5, <1>7 DEF ServerHello, ServerHellos
<1>9. server'[s] = [phase |-> "hello_ok", peer |-> h.id, eph |-> s, peer_eph |-> h.eph,
                    client_time |-> h.time, checked_time |-> clock, server_time |-> now,
                    key |-> ServerKey(s, h)]
    BY <1>1 DEF TypeOK, ServerEphemeral
<1>10. ServerKey(s, h).kem.ct = ServerCt(s, h)
    BY DEF ServerKey, SessionKey, KemSecret
<1>11. server'[s].phase # "idle" /\ ServerSignature(s)' = Signature("server", t)
    BY <1>9, <1>10 DEF ServerSignature
<1> HIDE DEF m
<1> QED
    BY <1>2, <1>8, <1>11

\* The CLIENT_AUTH of a client session that is done.
LEMMA AuthSent ==
    ASSUME Inv, NEW c \in ClientSessions, process_server_hello(c)
    PROVE  \E m \in Auths :
              /\ sent' = sent \cup {m}
              /\ client'[c].phase = "done"
              /\ m = ClientAuth(c)'
<1>1. TypeOK /\ Provenance /\ ServersInOrder
    BY DEF Inv
<1> PICK p \in ArrivingServerHellos, r \in ClientRecords :
        /\ ServerHelloOk(c, p)
        /\ client' = [client EXCEPT ![c] = r]
        /\ r.phase = "done" /\ r.peer_eph = p.eph /\ r.time = client[c].time
        /\ r.server_time = p.time /\ r.key = ClientKey(c, p)
        /\ sent' = sent \cup
             {Auth(ClientKey(c, p), Owner[c],
                   Signature(Owner[c],
                             Transcript(c, p.eph, client[c].time, p.time, NoCt)),
                   ImageKey[c])}
    BY <1>1, ClientCompletes
<1> DEFINE t == Transcript(c, p.eph, client[c].time, p.time, NoCt)
           m == Auth(ClientKey(c, p), Owner[c], Signature(Owner[c], t), ImageKey[c])
<1>2. client'[c] = r
    BY <1>1 DEF TypeOK
<1>3. m = ClientAuth(c)'
    BY <1>2 DEF ClientAuth
<1>4. p.time \in Times /\ p.eph \in ServerSessions /\ p.ct \in Ciphertexts
    BY <1>1, ServerHelloArrives
<1>5. ClientKey(c, p) \in Keys
    BY <1>4, ClientKeyType
<1>6. NoCt \in Ciphertexts
    BY DEF NoCt, Ciphertexts
<1>7. c \in Ephemerals /\ p.eph \in Ephemerals /\ client[c].time \in Times
    BY <1>1, <1>4 DEF Ephemerals, TypeOK
<1>8. t \in Transcripts
    BY <1>4, <1>6, <1>7 DEF Transcript, Transcripts
<1>9. Owner[c] \in People /\ ImageKey[c] \in {"absent", "valid", "invalid"}
    BY HandshakeAssumption
<1>10. Signature(Owner[c], t) \in [by : People, over : Transcripts]
    BY <1>8, <1>9 DEF Signature
<1>11. m \in Auths
    BY <1>5, <1>9, <1>10 DEF Auth, Auths
<1>12. sent' = sent \cup {m}
    OBVIOUS
<1> HIDE DEF m
<1> QED
    BY <1>2, <1>3, <1>11, <1>12

LEMMA ProvenanceStep ==
    ASSUME Inv, [Next]_vars
    PROVE  Provenance'
<1>1. TypeOK /\ Provenance /\ ServersInOrder
    BY DEF Inv
<1>2. Keep
    BY <1>1, KeepStep
<1>3. ASSUME NEW c \in ClientSessions, create_client_hello(c)
      PROVE  Provenance'
    BY <1>1, <1>2, <1>3, HelloSent, PacketsStay, Kinds DEF Provenance
<1>4. ASSUME NEW c \in ClientSessions, process_server_hello(c)
      PROVE  Provenance'
    BY <1>1, <1>2, <1>4, AuthSent, PacketsStay, Kinds DEF Provenance
<1>5. ASSUME NEW s \in ServerSessions, process_client_hello(s)
      PROVE  Provenance'
    BY <1>1, <1>2, <1>5, ServerHelloSent, PacketsStay, Kinds DEF Provenance
<1>6. CASE UNCHANGED sent
    BY <1>1, <1>2, <1>6, PacketsStay DEF Provenance
<1> QED
    BY <1>3, <1>4, <1>5, <1>6
    DEF Next, vars, ClientFails, process_client_auth, ServerFails, Tick

-----------------------------------------------------------------------------
(* Both ends agree                                                         *)

\* What pairs two sessions that have both finished their part is final.
LEMMA PairedStays ==
    ASSUME Keep, NEW c \in ClientSessions, NEW s \in ServerSessions,
           client[c].phase = "done", server[s].phase # "idle", Paired(c, s)
    PROVE  Paired(c, s)'
BY DEF Keep, Paired

LEMMA ServerAgreementStep ==
    ASSUME Inv, [Next]_vars
    PROVE  ServerAgreement'
<1>1. TypeOK /\ Provenance /\ ServersInOrder /\ ServerAgreement
    BY DEF Inv
<1>2. Keep
    BY <1>1, KeepStep
<1>3. SUFFICES ASSUME NEW s \in ServerSessions, server'[s].phase = "established"
               PROVE  \E c \in ClientSessions :
                          /\ Owner[c] = server'[s].peer
                          /\ Owner[c] \in Roster
                          /\ client'[c].phase = "done"
                          /\ Paired(c, s)'
                          /\ client'[c].key = server'[s].key
    BY DEF ServerAgreement
<1>4. /\ server[s].phase # "idle"
      /\ server[s].phase # "established" => process_client_auth(s)
    <2>1. ASSUME NEW t \in ServerSessions, process_client_hello(t)
          PROVE  server[s].phase = "established"
        BY <1>1, <1>3, <2>1 DEF process_client_hello, TypeOK
    <2>2. ASSUME NEW t \in ServerSessions, process_client_auth(t)
          PROVE  server[s].phase = "established" \/ s = t
        BY <1>1, <1>3, <2>2 DEF process_client_auth, TypeOK
    <2>3. ASSUME NEW t \in ServerSessions, ServerFails(t)
          PROVE  server[s].phase = "established"
        BY <1>1, <1>3, <2>3 DEF ServerFails, TypeOK
    <2>4. CASE UNCHANGED server
        BY <1>3, <2>4
    <2>5. process_client_auth(s) => server[s].phase # "idle"
        BY DEF process_client_auth
    <2> QED
        BY <2>1, <2>2, <2>3, <2>4, <2>5
        DEF Next, vars, create_client_hello, process_server_hello, ClientFails, Tick
<1>5. PICK c \in ClientSessions :
          /\ Owner[c] = server[s].peer
          /\ Owner[c] \in Roster
          /\ client[c].phase = "done"
          /\ Paired(c, s)
          /\ client[c].key = server[s].key
    <2>1. CASE server[s].phase = "established"
        BY <1>1, <2>1 DEF ServerAgreement
    <2>2. CASE process_client_auth(s)
        <3> PICK m \in ArrivingAuths : AuthOk(s, m)
            BY <2>2 DEF process_client_auth
        <3>1. server[s].phase = "hello_ok"
            BY <2>2 DEF process_client_auth
        <3> QED
            BY <1>1, <3>1, AuthArrives
    <2> QED
        BY <1>4, <2>1, <2>2
<1>6. Paired(c, s)'
    BY <1>2, <1>4, <1>5, PairedStays
<1> QED
    BY <1>2, <1>4, <1>5, <1>6 DEF Keep

\* When the server encapsulated to the client's own key, or to none, both
\* derive the same session key.
LEMMA SameKey ==
    ASSUME NEW c \in ClientSessions, NEW s \in ServerSessions, NEW m,
           m.version \in {1, 2}, ServerHelloOk(c, m),
           Answered(s), server[s].key \in Keys,
           server[s].peer_eph = c, server[s].eph = m.eph,
           server[s].key.kem.ct = m.ct, m.ct.to \in {c, None}
    PROVE  server[s].key = ClientKey(c, m)
<1>1. server[s].key.dh = SharedSecret(c, m.eph)
    BY DEF Answered, SharedSecret
<1>2. server[s].key.kem = KemSecret(m.ct)
    BY DEF Answered, Keys, KemSecrets, KemSecret
<1>3. KemSecret(m.ct) = IF m.version = 2 THEN Decaps(c, m.ct) ELSE NoKem
    <2>1. CASE m.version = 1
        BY <2>1 DEF ServerHelloOk, NoKem
    <2>2. CASE m.version = 2
        <3>1. m.ct # NoCt
            BY <2>2 DEF ServerHelloOk
        <3>2. m.ct.to = c /\ m.ct.by = s
            BY <3>1 DEF Answered
        <3>3. s # Junk
            BY HandshakeAssumption
        <3> QED
            BY <2>2, <3>2, <3>3 DEF Decaps, KemSecret
    <2> QED
        BY <2>1, <2>2
<1>4. server[s].key = [dh |-> server[s].key.dh, kem |-> server[s].key.kem]
    BY DEF Keys
<1> QED
    BY <1>1, <1>2, <1>3, <1>4 DEF ClientKey, SessionKey

LEMMA ClientAgreementStep ==
    ASSUME Inv, [Next]_vars
    PROVE  ClientAgreement'
<1>1. TypeOK /\ Provenance /\ ServersInOrder /\ ClientAgreement
    BY DEF Inv
<1>2. Keep
    BY <1>1, KeepStep
<1>3. SUFFICES ASSUME NEW c \in ClientSessions, client'[c].phase = "done"
               PROVE  \E s \in ServerSessions :
                          /\ server'[s].phase # "idle"
                          /\ Paired(c, s)'
                          /\ server'[s].key.kem.ct.to \in {c, None} =>
                                 server'[s].key = client'[c].key
    BY DEF ClientAgreement
<1>4. client[c].phase = "done" \/ process_server_hello(c)
    <2>1. ASSUME NEW d \in ClientSessions, create_client_hello(d)
          PROVE  client[c].phase = "done"
        BY <1>1, <1>3, <2>1 DEF create_client_hello, TypeOK
    <2>2. ASSUME NEW d \in ClientSessions, process_server_hello(d)
          PROVE  client[c].phase = "done" \/ c = d
        BY <1>1, <1>3, <2>2, ClientCompletes DEF TypeOK
    <2>3. ASSUME NEW d \in ClientSessions, ClientFails(d)
          PROVE  client[c].phase = "done"
        BY <1>1, <1>3, <2>3 DEF ClientFails, TypeOK
    <2>4. CASE UNCHANGED client
        BY <1>3, <2>4
    <2> QED
        BY <2>1, <2>2, <2>3, <2>4
        DEF Next, vars, process_client_hello, process_client_auth, ServerFails, Tick
<1>5. CASE client[c].phase = "done"
    <2> PICK s \in ServerSessions :
            /\ server[s].phase # "idle"
            /\ Paired(c, s)
            /\ server[s].key.kem.ct.to \in {c, None} => server[s].key = client[c].key
        BY <1>1, <1>5 DEF ClientAgreement
    <2>1. Paired(c, s)'
        BY <1>2, <1>5, PairedStays
    <2> QED
        BY <1>2, <1>5, <2>1 DEF Keep
<1>6. CASE process_server_hello(c)
    <2> PICK m \in ArrivingServerHellos, r \in ClientRecords :
            /\ ServerHelloOk(c, m)
            /\ client' = [client EXCEPT ![c] = r]
            /\ r.peer_eph = m.eph /\ r.time = client[c].time
            /\ r.server_time = m.time /\ r.key = ClientKey(c, m)
        BY <1>1, <1>6, ClientCompletes
    <2>1. client'[c] = r /\ server' = server
        BY <1>1, <1>6 DEF TypeOK, process_server_hello
    <2>2. m.version \in {1, 2}
        BY <1>1, ServerHelloArrives
    <2>3. PICK s \in ServerSessions :
              /\ server[s].phase # "idle"
              /\ server[s].peer_eph = c /\ server[s].eph = m.eph
              /\ server[s].client_time = client[c].time
              /\ server[s].server_time = m.time
              /\ server[s].key.kem.ct = m.ct
        BY <1>1, ServerHelloArrives
    <2>4. Paired(c, s)'
        BY <2>1, <2>3 DEF Paired
    <2>5. Answered(s) /\ server[s].key \in Keys
        BY <1>1, <2>3 DEF ServersInOrder, TypeOK
    <2>6. server[s].key.kem.ct.to \in {c, None} => server[s].key = ClientKey(c, m)
        BY <2>2, <2>3, <2>5, SameKey
    <2> QED
        BY <2>1, <2>3, <2>4, <2>6
<1> QED
    BY <1>4, <1>5, <1>6

-----------------------------------------------------------------------------
(* The theorems                                                            *)

LEMMA InvStep == Inv /\ [Next]_vars => Inv'
BY TypeStep, ProvenanceStep, OrderStep, InTimeStep, ServerAgreementStep,
   ClientAgreementStep DEF Inv

LEMMA Invariance == Spec => []Inv
BY InitInv, InvStep, PTL DEF Spec

\* Every variable keeps its type, whatever arrives and in whatever order.
THEOREM TypeCorrect == Spec => []TypeOK
BY Invariance, PTL DEF Inv

\* process_client_auth establishes a session only for the roster entry whose
\* own client ran it, with the same ephemeral keys, times and session key.
THEOREM ServersAgree == Spec => []ServerAgreement
BY Invariance, PTL DEF Inv

\* A client that is done was answered by the real server, over the same
\* ephemeral keys and times, and holds the same key unless its KEM key was
\* damaged on the way.
THEOREM ClientsAgree == Spec => []ClientAgreement
BY Invariance, PTL DEF Inv

\* The ephemeral key a server session makes is in its key and in no other
\* server session's: no two of them ever hold the same one.
THEOREM KeysAreUnique == Spec => []SessionKeysUnique
<1>1. Inv => SessionKeysUnique
    <2> SUFFICES ASSUME Inv, NEW s \in ServerSessions, NEW t \in ServerSessions,
                        s # t, server[s].key = server[t].key, server[s].key # NoKey
                 PROVE  FALSE
        BY DEF SessionKeysUnique
    <2>1. Answered(s) /\ Answered(t)
        BY DEF Inv, ServersInOrder
    <2>2. {s, server[s].peer_eph} = {t, server[t].peer_eph}
        BY <2>1 DEF Answered
    <2>3. server[s].peer_eph # t /\ server[t].peer_eph # s
        BY <2>1, HandshakeAssumption DEF Answered
    <2> QED
        BY <2>2, <2>3
<1> QED
    BY <1>1, Invariance, PTL

\* The hello of an established session was checked after its client made it,
\* and the time between differs from the client's lead over the server's
\* clock by at most MaxSkew: no older hello becomes a session.
THEOREM SessionsFresh == Spec => []SessionsAreFresh
<1>1. Inv => SessionsAreFresh
    <2> SUFFICES ASSUME Inv, NEW s \in ServerSessions, NEW c \in ClientSessions,
                        server[s].phase = "established", server[s].peer_eph = c
                 PROVE  LET passed == server[s].checked_time - (client[c].time - ahead[c])
                        IN  /\ 0 <= passed
                            /\ passed - ahead[c] \in -MaxSkew .. MaxSkew
        BY DEF SessionsAreFresh
    <2>1. server[s].client_time = client[c].time /\ client[c].phase = "done"
        BY DEF Inv, ServerAgreement, Paired
    <2>2. /\ client[c].time - ahead[c] <= server[s].checked_time
          /\ server[s].checked_time - server[s].client_time \in -MaxSkew .. MaxSkew
        BY <2>1 DEF Inv, ServersInOrder, Answered, MadeBy
    <2>3. /\ server[s].checked_time \in Int /\ client[c].time \in Int
          /\ ahead[c] \in Int
        BY ClockTypes DEF Inv
    <2> QED
        BY <2>1, <2>2, <2>3, HandshakeAssumption
<1> QED
    BY <1>1, Invariance, PTL
=============================================================================
