------------------------------ MODULE VPNSystem ------------------------------
(***************************************************************************)
(* VPNServer and its VPNClients, composed over the streams between them.   *)
(***************************************************************************)
EXTENDS VPNServer, VPNClient

CONSTANT MaxEnds        \* bound: how often a process is ended

ASSUME SystemAssumption == MaxEnds \in Nat

VARIABLE ends           \* how often it was

vars == <<streams, serverVars, clientVars, ends>>

Init == StreamsInit /\ ServerInit /\ ClientInit /\ ends = 0

Next ==
    \/ \E c \in Conns :
        \/ ServerStep(c) /\ UNCHANGED <<clientVars, ends>>
        \/ ClientStep(c) /\ UNCHANGED <<serverVars, ends>>
    \/ ServerStarts /\ UNCHANGED <<clientVars, ends>>
    \/ /\ ends < MaxEnds
       /\ ends' = ends + 1
       /\ \/ ProcessEnds /\ UNCHANGED clientVars
          \/ \E p \in Clients : ClientStops(p) /\ UNCHANGED serverVars

\* The event loops run every task that can run, timers fire, and TCP
\* connects or gives up.  Nothing is assumed of the applications, of the SSH
\* server's and the account manager's answers, or of a host that vanishes.
Fairness ==
    \A c \in Conns :
        /\ WF_vars(HandlerRuns(c) /\ UNCHANGED <<clientVars, ends>>)
        /\ WF_vars(UpRuns(c) /\ UNCHANGED <<clientVars, ends>>)
        /\ WF_vars(DownRuns(c) /\ UNCHANGED <<clientVars, ends>>)
        /\ WF_vars(OpenerRuns(c) /\ UNCHANGED <<serverVars, ends>>)
        /\ WF_vars(LupStops(c) /\ UNCHANGED <<serverVars, ends>>)
        /\ WF_vars(LdownRuns(c) /\ UNCHANGED <<serverVars, ends>>)

Spec == Init /\ [][Next]_vars /\ Fairness

-----------------------------------------------------------------------------
(* Safety                                                                  *)

\* The types of the variables.
TypeOK == ends \in 0 .. MaxEnds /\ StreamsTypeOK /\ ServerTypeOK /\ ClientTypeOK

\* active_connections counts exactly the connections whose handle_client is
\* past the capacity check and not finished, on every path through it, and
\* never exceeds max_connections.
SlotsCounted ==
    /\ active_connections = Cardinality({c \in Conns : task[c] \in Counted})
    /\ active_connections <= MaxConnections

DataIn(stream) == Cardinality({i \in DOMAIN stream : stream[i] = "DATA"})

\* Nothing the application sent is lost between the two relays: every DATA
\* packet is still in the stream, or was read (perhaps together with
\* CLIENT_AUTH, perhaps before the tunnel existed) and not yet forwarded, or
\* has reached SSH.
NoRequestLost ==
    \A c \in Conns :
        (task[c] \in {"none"} \cup Handshaking \cup {"opening", "relay"}
            /\ up[c] # "ended" /\ ssh[c] # "closed") =>
        requested[c] = DataIn(toServer[c]) + DataIn(buffer[c]) + forwarded[c]

\* Nothing SSH sent is lost on its way back, although the client's handshake
\* drops what it reads beyond SERVER_HELLO.
NoReplyLost ==
    \A c \in Conns : conn[c] \in {"hello_sent", "relay"} /\ ldown[c] # "ended" =>
        replied[c] = DataIn(toClient[c]) + delivered[c]

\* "This preflight does one handshake up front so an authentication or
\* reachability problem surfaces immediately instead of on the first
\* request" (connect's docstring): a client that serves its local port was
\* not refused in its preflight.  Fails: the client is done when it has sent
\* CLIENT_AUTH, and the protocol has no message that tells it the verdict.
PreflightCatchesRejection ==
    \A c \in Preflights :
        proxy[ClientOf[c]] = "serving" => verdict[c] # "rejected"

-----------------------------------------------------------------------------
(* Liveness                                                                *)

\* No connection stays in the handshake: not with a client that vanished,
\* not with an account manager that does not answer.
HandshakeEnds ==
    \A c \in Conns : task[c] \in Handshaking ~> task[c] \notin Handshaking

\* When the client closes its end, the server gives the connection's slot
\* back, whatever stage it was in.
ClosingFreesSlot ==
    \A c \in Conns : conn[c] \in {"done", "failed"} ~> task[c] \notin Counted /\ ~serverOpen[c]

\* When the server ends or refuses a connection, the client's session ends
\* and its application is told.
ServerEndReachesApp ==
    \A c \in Conns : task[c] \in Over ~>
        (conn[c] = "vanished" \/ (conn[c] \in Ended /\ app[c] # "open"))

\* When the server is told to stop, it ends every connection it has,
\* whatever stage each was in, and so can end itself.
ShutdownEndsAll ==
    ~listening ~> \A c \in Conns : task[c] \notin Counted /\ ~serverOpen[c]

\* What the application sends is forwarded without waiting for it to send
\* more, or the tunnel is over.
RequestsForwarded ==
    \A c \in Conns : \A n \in 1 .. MaxRequests :
        requested[c] = n ~> \/ forwarded[c] >= n
                            \/ task[c] \in {"closing"} \cup Over
                            \/ up[c] = "ended" \/ ssh[c] = "closed"

\* "Timeout: 5 minutes of inactivity" (PROTOCOL.md): a tunnel whose
\* application has closed, and over which nothing can be sent any more, ends.
\* Fails: there is no idle timer, local_to_vpn tells nobody, and both sides
\* wait for an SSH server that waits for them.
InactiveTunnelEnds ==
    \A c \in Conns : app[c] = "closed" ~> conn[c] \in Ended
=============================================================================
