------------------------------ MODULE VPNClient ------------------------------
(***************************************************************************)
(* VPNClient (client.py): connect() runs one handshake as a preflight and  *)
(* then serves a local port; every local connection opens a VPN connection *)
(* of its own and relays between the two with two coroutines.              *)
(***************************************************************************)
EXTENDS Streams

CONSTANTS
    Clients,            \* running client processes
    ClientOf,           \* ClientOf[c]: the process that may open connection c
    Preflights,         \* the connections opened by connect(), one per client
    MaxRequests         \* bound: chunks a local application sends

ASSUME ClientAssumption ==
    /\ ClientOf \in [Conns -> Clients]
    /\ Preflights \subseteq Conns
    /\ \A c, d \in Preflights : ClientOf[c] = ClientOf[d] => c = d
    /\ MaxRequests \in Nat

VARIABLES
    proxy,              \* proxy[p]: starting, serving, failed or stopped
    conn,               \* conn[c]: where the code that owns connection c is
    lup, ldown,         \* lup[c], ldown[c]: local_to_vpn and vpn_to_local
    app,                \* app[c]: the local application's socket
    requested,          \* requested[c]: chunks local_to_vpn has sent
    delivered           \* delivered[c]: payloads written to the application

clientVars == <<proxy, conn, lup, ldown, app, requested, delivered>>
relayVars == <<lup, ldown, app, requested, delivered>>

\* idle; hello_sent: awaiting SERVER_HELLO; relay; done; failed: the
\* handshake failed and the connection was given up; vanished: the client's
\* host is gone and nothing tells the server.
ConnStates == {"idle", "hello_sent", "relay", "done", "failed", "vanished"}
Ended == {"done", "failed", "vanished"}

ClientInit ==
    /\ proxy = [p \in Clients |-> "starting"]
    /\ conn = [c \in Conns |-> "idle"]
    /\ lup = [c \in Conns |-> "off"]
    /\ ldown = [c \in Conns |-> "off"]
    /\ app = [c \in Conns |-> "none"]
    /\ requested = [c \in Conns |-> 0]
    /\ delivered = [c \in Conns |-> 0]

-----------------------------------------------------------------------------
(* perform_handshake                                                       *)

\* A failed preflight ends the process, another failure only closes the
\* application's socket.
GiveUp(c) ==
    IF c \in Preflights
    THEN proxy' = [proxy EXCEPT ![ClientOf[c]] = "failed"] /\ UNCHANGED app
    ELSE app' = [app EXCEPT ![c] = "closed"] /\ UNCHANGED proxy

\* open_connection and CLIENT_HELLO.  The server's kernel completes the TCP
\* connection before handle_client runs.
Dial(c) ==
    /\ conn[c] = "idle"
    /\ listening
    /\ conn' = [conn EXCEPT ![c] = "hello_sent"]
    /\ clientOpen' = [clientOpen EXCEPT ![c] = TRUE]
    /\ serverOpen' = [serverOpen EXCEPT ![c] = TRUE]
    /\ toServer' = [toServer EXCEPT ![c] = <<"CLIENT_HELLO">>]
    /\ UNCHANGED <<listening, toClient>>

\* connect()
DialPreflight(c) ==
    /\ c \in Preflights
    /\ proxy[ClientOf[c]] = "starting"
    /\ Dial(c)
    /\ UNCHANGED <<proxy, relayVars>>

\* handle_local_connection, when an application connects.
DialForApp(c) ==
    /\ c \notin Preflights
    /\ proxy[ClientOf[c]] = "serving"
    /\ Dial(c)
    /\ app' = [app EXCEPT ![c] = "open"]
    /\ UNCHANGED <<proxy, lup, ldown, requested, delivered>>

\* open_connection raises.
DialFails(c) ==
    /\ conn[c] = "idle"
    /\ proxy[ClientOf[c]] = IF c \in Preflights THEN "starting" ELSE "serving"
    /\ ~listening
    /\ conn' = [conn EXCEPT ![c] = "failed"]
    /\ GiveUp(c)
    /\ UNCHANGED <<streams, lup, ldown, requested, delivered>>

\* SERVER_HELLO is in order, CLIENT_AUTH is sent: perform_handshake returns
\* the session keys and drops what it read beyond SERVER_HELLO.
ReceivesServerHello(c) ==
    /\ conn[c] = "hello_sent"
    /\ toClient[c] # <<>>
    /\ Head(toClient[c]) = "SERVER_HELLO"
    /\ \E k \in 1 .. Len(toClient[c]) :
          toClient' = [toClient EXCEPT ![c] = Left(@, k)]
    /\ toServer' = [toServer EXCEPT
                       ![c] = IF Closed(c) THEN @ ELSE Append(@, "CLIENT_AUTH")]

\* The preflight connection is closed and the local port opened.
PreflightSucceeds(c) ==
    /\ c \in Preflights
    /\ ReceivesServerHello(c)
    /\ conn' = [conn EXCEPT ![c] = "done"]
    /\ clientOpen' = [clientOpen EXCEPT ![c] = FALSE]
    /\ proxy' = [proxy EXCEPT ![ClientOf[c]] = "serving"]
    /\ UNCHANGED <<listening, serverOpen, relayVars>>

SessionOpens(c) ==
    /\ c \notin Preflights
    /\ ReceivesServerHello(c)
    /\ conn' = [conn EXCEPT ![c] = "relay"]
    /\ lup' = [lup EXCEPT ![c] = "running"]
    /\ ldown' = [ldown EXCEPT ![c] = "running"]
    /\ UNCHANGED <<listening, clientOpen, serverOpen, proxy, app, requested, delivered>>

\* End-of-file, the read timeout or a SERVER_HELLO that is not in order.
HandshakeFails(c) ==
    /\ conn[c] = "hello_sent"
    /\ conn' = [conn EXCEPT ![c] = "failed"]
    /\ clientOpen' = [clientOpen EXCEPT ![c] = FALSE]
    /\ GiveUp(c)
    /\ UNCHANGED <<listening, toServer, toClient, serverOpen, lup, ldown, requested, delivered>>

-----------------------------------------------------------------------------
(* handle_local_connection                                                 *)

LupForwards(c) ==
    /\ lup[c] = "running"
    /\ app[c] = "open"
    /\ requested[c] < MaxRequests
    /\ ~Closed(c)
    /\ requested' = [requested EXCEPT ![c] = @ + 1]
    /\ toServer' = [toServer EXCEPT ![c] = Append(@, "DATA")]
    /\ UNCHANGED <<listening, toClient, clientOpen, serverOpen, proxy, conn, lup, ldown,
                   app, delivered>>

\* The application has closed its socket, or vpn_to_local has: read()
\* returns b"".  Nothing else is told.
LupStops(c) ==
    /\ lup[c] = "running"
    /\ app[c] = "closed"
    /\ lup' = [lup EXCEPT ![c] = "ended"]
    /\ UNCHANGED <<streams, proxy, conn, ldown, app, requested, delivered>>

\* Only by writing does local_to_vpn learn that the VPN socket is gone: what
\* the application sends then is lost without notice (a step that changes
\* nothing here), or drain() raises.
LupFails(c) ==
    /\ lup[c] = "running"
    /\ app[c] = "open"
    /\ Closed(c)
    /\ lup' = [lup EXCEPT ![c] = "ended"]
    /\ UNCHANGED <<streams, proxy, conn, ldown, app, requested, delivered>>

LdownForwards(c) ==
    /\ ldown[c] = "running"
    /\ toClient[c] # <<>>
    /\ toClient' = [toClient EXCEPT ![c] = Tail(@)]
    /\ delivered' = [delivered EXCEPT ![c] = @ + 1]
    /\ UNCHANGED <<listening, toServer, clientOpen, serverOpen, proxy, conn, lup, ldown,
                   app, requested>>

AppKept(c) == app[c]         \* mutant: vpn_to_local leaves the application waiting
AppAfterLdown(c) == "closed"

LdownStops(c) ==
    /\ ldown' = [ldown EXCEPT ![c] = "ended"]
    /\ app' = [app EXCEPT ![c] = AppAfterLdown(c)]
    /\ UNCHANGED <<streams, proxy, conn, lup, requested, delivered>>

LdownEof(c) == ldown[c] = "running" /\ ClientReadsEof(c) /\ LdownStops(c)

\* A packet does not parse, the application is gone when it is written, or
\* the server's closing reset the connection.
LdownFails(c) ==
    /\ ldown[c] = "running"
    /\ toClient[c] # <<>> \/ ~serverOpen[c]
    /\ LdownStops(c)

\* gather returns when both have ended.
SessionEnds(c) ==
    /\ conn[c] = "relay"
    /\ lup[c] = "ended"
    /\ ldown[c] = "ended"
    /\ conn' = [conn EXCEPT ![c] = "done"]
    /\ clientOpen' = [clientOpen EXCEPT ![c] = FALSE]
    /\ UNCHANGED <<listening, toServer, toClient, serverOpen, proxy, relayVars>>

-----------------------------------------------------------------------------
(* The end of the process                                                  *)

\* SIGINT or SIGTERM: the local port is closed, connect() is cancelled and
\* with it a preflight it awaits.  disconnect() is never reached, because the
\* KeyboardInterrupt is raised outside of main.
ClientStops(p) ==
    /\ proxy[p] \in {"starting", "serving"}
    /\ proxy' = [proxy EXCEPT ![p] = "stopped"]
    /\ LET awaited == {c \in Preflights : ClientOf[c] = p /\ conn[c] = "hello_sent"} IN
          /\ conn' = [c \in Conns |-> IF c \in awaited THEN "failed" ELSE conn[c]]
          /\ clientOpen' = [c \in Conns |-> c \notin awaited /\ clientOpen[c]]
    /\ UNCHANGED <<listening, toServer, toClient, serverOpen, relayVars>>

\* A session of a client that stops is cancelled at once, or, where
\* Server.wait_closed() waits for it, with the next signal or never.
SessionCancelled(c) ==
    /\ proxy[ClientOf[c]] = "stopped"
    /\ conn[c] \in {"hello_sent", "relay"}
    /\ conn' = [conn EXCEPT ![c] = "done"]
    /\ clientOpen' = [clientOpen EXCEPT ![c] = FALSE]
    /\ lup' = [lup EXCEPT ![c] = IF @ = "off" THEN "off" ELSE "ended"]
    /\ ldown' = [ldown EXCEPT ![c] = IF @ = "off" THEN "off" ELSE "ended"]
    /\ app' = [app EXCEPT ![c] = "closed"]
    /\ UNCHANGED <<listening, toServer, toClient, serverOpen, proxy, requested,
                   delivered>>

-----------------------------------------------------------------------------
(* The surroundings (external)                                             *)

AppCloses(c) ==
    /\ app[c] = "open"
    /\ app' = [app EXCEPT ![c] = "closed"]
    /\ UNCHANGED <<streams, proxy, conn, lup, ldown, requested, delivered>>

\* The client's host loses power or its network.
Vanishes(c) ==
    /\ conn[c] \in {"hello_sent", "relay"}
    /\ conn' = [conn EXCEPT ![c] = "vanished"]
    /\ lup' = [lup EXCEPT ![c] = "off"]
    /\ ldown' = [ldown EXCEPT ![c] = "off"]
    /\ UNCHANGED <<streams, proxy, app, requested, delivered>>

-----------------------------------------------------------------------------

\* What the event loop and the read timeout run, task by task.
OpenerRuns(c) ==
    PreflightSucceeds(c) \/ SessionOpens(c) \/ HandshakeFails(c) \/ SessionEnds(c)

LdownRuns(c) == LdownForwards(c) \/ LdownEof(c)

ClientStep(c) ==
    \/ OpenerRuns(c) \/ LupStops(c) \/ LdownRuns(c)
    \/ DialPreflight(c) \/ DialForApp(c) \/ DialFails(c) \/ SessionCancelled(c)
    \/ LupForwards(c) \/ LupFails(c) \/ LdownFails(c)
    \/ AppCloses(c) \/ Vanishes(c)

ClientTypeOK ==
    /\ proxy \in [Clients -> {"starting", "serving", "failed", "stopped"}]
    /\ conn \in [Conns -> ConnStates]
    /\ lup \in [Conns -> {"off", "running", "ended"}]
    /\ ldown \in [Conns -> {"off", "running", "ended"}]
    /\ app \in [Conns -> {"none", "open", "closed"}]
    /\ requested \in [Conns -> 0 .. MaxRequests]
    /\ delivered \in [Conns -> Nat]
=============================================================================
