------------------------------ MODULE VPNServer ------------------------------
(***************************************************************************)
(* VPNServer.handle_client (server.py): one asyncio task per accepted      *)
(* connection, and two more per tunnel.  A step is the code between two    *)
(* awaits at which the task really waits, because nothing else of this     *)
(* single-threaded server runs in between.                                 *)
(*                                                                         *)
(* What a hello or an auth packet is judged by is the subject of Handshake *)
(* and Roster; here the verdict on each is left open, as are the answers   *)
(* of the account manager and of the SSH server.                           *)
(***************************************************************************)
EXTENDS Streams, FiniteSets

CONSTANTS
    MaxConnections,     \* max_connections, 256
    MaxReplies          \* bound: chunks the SSH server sends per connection

ASSUME ServerAssumption ==
    /\ IsFiniteSet(Conns)
    /\ MaxConnections \in Nat
    /\ MaxReplies \in Nat

VARIABLES
    task,               \* task[c]: where c's handle_client is
    active_connections,
    buffer,             \* buffer[c]: what was read and not yet parsed
    up, down,           \* up[c], down[c]: vpn_to_ssh and ssh_to_vpn
    ssh,                \* ssh[c]: the socket to the SSH server
    pending,            \* pending[c]: chunks from SSH that are not read yet
    forwarded,          \* forwarded[c]: payloads written to SSH
    replied,            \* replied[c]: chunks from SSH written to the tunnel
    verdict             \* history: how the handshake of c was judged

serverVars == <<task, active_connections, buffer, up, down, ssh, pending,
                forwarded, replied, verdict>>
tunnelVars == <<up, down, ssh, pending, forwarded, replied>>

\* hello, auth: reading CLIENT_HELLO, CLIENT_AUTH.  account: awaiting the
\* account manager.  opening: connecting to SSH.  closing: in the finally.
Handshaking == {"hello", "auth", "account"}
Counted == Handshaking \cup {"opening", "relay", "closing"}
Over == {"refused", "done"}

ServerInit ==
    /\ task = [c \in Conns |-> "none"]
    /\ active_connections = 0
    /\ buffer = [c \in Conns |-> <<>>]
    /\ up = [c \in Conns |-> "off"]
    /\ down = [c \in Conns |-> "off"]
    /\ ssh = [c \in Conns |-> "none"]
    /\ pending = [c \in Conns |-> 0]
    /\ forwarded = [c \in Conns |-> 0]
    /\ replied = [c \in Conns |-> 0]
    /\ verdict = [c \in Conns |-> "none"]

-----------------------------------------------------------------------------
(* Accepting a connection                                                  *)

AtCapacityLate == active_connections > MaxConnections    \* mutant: off by one
AtCapacity == active_connections >= MaxConnections

Accept(c) ==
    /\ task[c] = "none"
    /\ serverOpen[c]
    /\ ~AtCapacity
    /\ active_connections' = active_connections + 1
    /\ task' = [task EXCEPT ![c] = "hello"]
    /\ UNCHANGED <<streams, buffer, tunnelVars, verdict>>

AfterRefusalFinally == "closing"  \* mutant: the refusal runs the finally block
AfterRefusal == "refused"

Refuse(c) ==
    /\ task[c] = "none"
    /\ serverOpen[c]
    /\ AtCapacity
    /\ task' = [task EXCEPT ![c] = AfterRefusal]
    /\ serverOpen' = [serverOpen EXCEPT ![c] = FALSE]
    /\ UNCHANGED <<listening, toServer, toClient, clientOpen, active_connections, buffer,
                   tunnelVars, verdict>>

-----------------------------------------------------------------------------
(* perform_handshake                                                       *)

\* Every way out of handle_client runs its finally block: writer.close().
Leave(c) ==
    /\ task' = [task EXCEPT ![c] = "closing"]
    /\ serverOpen' = [serverOpen EXCEPT ![c] = FALSE]

\* A read that completes the frame the handshake waits for.
ReadFrame(c, frame, k) ==
    LET data == buffer[c] \o Got(toServer[c], k) IN
    /\ Head(data) = frame
    /\ toServer' = [toServer EXCEPT ![c] = Left(@, k)]
    /\ buffer' = [buffer EXCEPT ![c] = Tail(data)]

AfterHelloTunnel == "opening"    \* mutant: the tunnel starts before CLIENT_AUTH
AfterHello == "auth"

HelloAccepted(c) ==
    /\ task[c] = "hello"
    /\ \E k \in 1 .. Len(toServer[c]) : ReadFrame(c, "CLIENT_HELLO", k)
    /\ toClient' = [toClient EXCEPT ![c] = Append(@, "SERVER_HELLO")]
    /\ task' = [task EXCEPT ![c] = AfterHello]
    /\ UNCHANGED <<listening, clientOpen, serverOpen, active_connections, tunnelVars, verdict>>

AuthAccepted(c) ==
    /\ task[c] = "auth"
    /\ \E k \in 1 .. Len(toServer[c]) : ReadFrame(c, "CLIENT_AUTH", k)
    /\ task' = [task EXCEPT ![c] = "account"]
    /\ UNCHANGED <<listening, toClient, clientOpen, serverOpen, active_connections,
                   tunnelVars, verdict>>

\* ProtocolError, CryptoException or an unexpected exception.
PacketRejected(c) ==
    /\ task[c] \in {"hello", "auth"}
    /\ toServer[c] # <<>>
    /\ toServer' = [toServer EXCEPT ![c] = <<>>]
    /\ Leave(c)
    /\ verdict' = [verdict EXCEPT ![c] = "rejected"]
    /\ UNCHANGED <<listening, toClient, clientOpen, active_connections, buffer, tunnelVars>>

HandshakeEof(c) ==
    /\ task[c] \in {"hello", "auth"}
    /\ ServerReadsEof(c)
    /\ Leave(c)
    /\ UNCHANGED <<listening, toServer, toClient, clientOpen, active_connections, buffer,
                   tunnelVars, verdict>>

DeadlineWithoutAccount == {"hello", "auth"}  \* mutant: the check is outside wait_for
DeadlineCovers == Handshaking

\* A read's own timeout or the deadline on the whole of perform_handshake.
HandshakeTimeout(c) ==
    /\ task[c] \in DeadlineCovers
    /\ Leave(c)
    /\ UNCHANGED <<listening, toServer, toClient, clientOpen, active_connections, buffer,
                   tunnelVars, verdict>>

\* validate_vpn_user: every failure of the request is a refusal.
AccountGrants(c) ==
    /\ task[c] = "account"
    /\ task' = [task EXCEPT ![c] = "opening"]
    /\ verdict' = [verdict EXCEPT ![c] = "admitted"]
    /\ UNCHANGED <<streams, active_connections, buffer, tunnelVars>>

AccountDenies(c) ==
    /\ task[c] = "account"
    /\ Leave(c)
    /\ verdict' = [verdict EXCEPT ![c] = "rejected"]
    /\ UNCHANGED <<listening, toServer, toClient, clientOpen, active_connections, buffer,
                   tunnelVars>>

-----------------------------------------------------------------------------
(* The tunnel                                                              *)

LeftoverDropped(c) == <<>>    \* mutant: perform_handshake returns the keys only
Leftover(c) == buffer[c]

SshConnects(c) ==
    /\ task[c] = "opening"
    /\ task' = [task EXCEPT ![c] = "relay"]
    /\ ssh' = [ssh EXCEPT ![c] = "open"]
    /\ up' = [up EXCEPT ![c] = "running"]
    /\ down' = [down EXCEPT ![c] = "running"]
    /\ buffer' = [buffer EXCEPT ![c] = Leftover(c)]
    /\ UNCHANGED <<streams, active_connections, pending, forwarded, replied, verdict>>

SshUnavailable(c) ==
    /\ task[c] = "opening"
    /\ Leave(c)
    /\ UNCHANGED <<listening, toServer, toClient, clientOpen, active_connections, buffer,
                   tunnelVars, verdict>>

\* tunnel_traffic builds a second SecureVPNProtocol from the roster; if the
\* roster has been emptied meanwhile, or cannot be read, it raises, and
\* nobody closes the SSH socket.
TunnelRefused(c) ==
    /\ task[c] = "opening"
    /\ ssh' = [ssh EXCEPT ![c] = "abandoned"]
    /\ Leave(c)
    /\ UNCHANGED <<listening, toServer, toClient, clientOpen, active_connections, buffer,
                   up, down, pending, forwarded, replied, verdict>>

\* drain_buffer: forward what is buffered, before any read.
UpForwards(c) ==
    /\ up[c] = "running"
    /\ buffer[c] # <<>>
    /\ buffer' = [buffer EXCEPT ![c] = Tail(@)]
    /\ forwarded' = [forwarded EXCEPT ![c] = IF ssh[c] = "open" THEN @ + 1 ELSE @]
    /\ UNCHANGED <<streams, task, active_connections, up, down, ssh, pending,
                   replied, verdict>>

UpReads(c) ==
    /\ up[c] = "running"
    /\ buffer[c] = <<>>
    /\ \E k \in 1 .. Len(toServer[c]) :
          /\ buffer' = [buffer EXCEPT ![c] = Got(toServer[c], k)]
          /\ toServer' = [toServer EXCEPT ![c] = Left(@, k)]
    /\ UNCHANGED <<listening, toClient, clientOpen, serverOpen, task, active_connections,
                   tunnelVars, verdict>>

SshKept(c) == ssh[c]          \* mutant: vpn_to_ssh leaves the SSH socket open
SshAfterUp(c) == "closed"

\* vpn_to_ssh ends and closes the SSH socket: what SSH has not sent is lost.
UpStops(c) ==
    /\ up' = [up EXCEPT ![c] = "ended"]
    /\ ssh' = [ssh EXCEPT ![c] = SshAfterUp(c)]
    /\ UNCHANGED <<streams, task, active_connections, buffer, down, pending,
                   forwarded, replied, verdict>>

UpEof(c) ==
    /\ up[c] = "running"
    /\ buffer[c] = <<>>
    /\ ServerReadsEof(c)
    /\ UpStops(c)

\* A packet does not parse, or the SSH socket is gone when it is written.
UpFails(c) ==
    /\ up[c] = "running"
    /\ buffer[c] # <<>>
    /\ UpStops(c)

DownForwards(c) ==
    /\ down[c] = "running"
    /\ pending[c] > 0
    /\ pending' = [pending EXCEPT ![c] = @ - 1]
    /\ toClient' = [toClient EXCEPT ![c] = IF Closed(c) THEN @ ELSE Append(@, "DATA")]
    /\ replied' = [replied EXCEPT ![c] = IF Closed(c) THEN @ ELSE @ + 1]
    /\ UNCHANGED <<listening, toServer, clientOpen, serverOpen, task, active_connections,
                   buffer, up, down, ssh, forwarded, verdict>>

\* ssh_to_vpn ends and closes the VPN socket: SSH has ended, or the client's
\* socket is gone when it is written.
DownStops(c) ==
    /\ down[c] = "running"
    /\ \/ pending[c] = 0 /\ ssh[c] # "open"
       \/ pending[c] > 0 /\ Closed(c)
    /\ down' = [down EXCEPT ![c] = "ended"]
    /\ serverOpen' = [serverOpen EXCEPT ![c] = FALSE]
    /\ UNCHANGED <<listening, toServer, toClient, clientOpen, task, active_connections,
                   buffer, up, ssh, pending, forwarded, replied, verdict>>

\* gather returns when both have ended.
TunnelEnds(c) ==
    /\ task[c] = "relay"
    /\ up[c] = "ended"
    /\ down[c] = "ended"
    /\ Leave(c)
    /\ UNCHANGED <<listening, toServer, toClient, clientOpen, active_connections, buffer,
                   tunnelVars, verdict>>

\* The finally block after wait_closed().
Release(c) ==
    /\ task[c] = "closing"
    /\ task' = [task EXCEPT ![c] = "done"]
    /\ active_connections' = active_connections - 1
    /\ UNCHANGED <<streams, buffer, tunnelVars, verdict>>

-----------------------------------------------------------------------------
(* The end of the process, and the next one                                *)

\* signal_handler: the socket is closed and the loop stopped, whereupon
\* asyncio.run cancels every task.
ServerStops ==
    /\ listening
    /\ listening' = FALSE
    /\ UNCHANGED <<toServer, toClient, clientOpen, serverOpen, serverVars>>

CancelledInHandshake == {"none", "opening"} \cup Handshaking  \* mutant: the tunnel swallows it
CancelledAt == {"none", "opening", "relay"} \cup Handshaking

\* The task of c is cancelled at its next step: `except Exception' does not
\* catch that, every finally block runs.  A handler that has not begun never
\* does, and what it was given is dropped.
Cancelled(c) ==
    /\ task[c] \in CancelledAt
    /\ serverOpen[c] \/ task[c] # "none"
    /\ serverOpen' = [serverOpen EXCEPT ![c] = FALSE]
    /\ task' = [task EXCEPT ![c] = IF @ = "none" THEN "refused" ELSE "closing"]
    /\ IF task[c] = "relay"
       THEN /\ up' = [up EXCEPT ![c] = "ended"]
            /\ down' = [down EXCEPT ![c] = "ended"]
            /\ ssh' = [ssh EXCEPT ![c] = "closed"]
       ELSE UNCHANGED <<up, down, ssh>>
    /\ UNCHANGED <<listening, toServer, toClient, clientOpen, active_connections,
                   buffer, pending, forwarded, replied, verdict>>

\* SIGKILL or a crash: its memory is gone, the kernel closes its sockets.
ServerKilled ==
    /\ listening \/ active_connections > 0
    /\ listening' = FALSE
    /\ serverOpen' = [c \in Conns |-> FALSE]
    /\ task' = [c \in Conns |-> CASE task[c] \in Counted -> "done"
                                  [] task[c] = "none" /\ serverOpen[c] -> "refused"
                                  [] OTHER -> task[c]]
    /\ active_connections' = 0
    /\ up' = [c \in Conns |-> IF up[c] = "off" THEN "off" ELSE "ended"]
    /\ down' = [c \in Conns |-> IF down[c] = "off" THEN "off" ELSE "ended"]
    /\ ssh' = [c \in Conns |-> IF ssh[c] = "none" THEN "none" ELSE "closed"]
    /\ buffer' = [c \in Conns |-> <<>>]
    /\ pending' = [c \in Conns |-> 0]
    /\ UNCHANGED <<toServer, toClient, clientOpen, forwarded, replied, verdict>>

\* main() once more, after the last process has gone.
ServerStarts ==
    /\ ~listening
    /\ \A c \in Conns : task[c] \notin Counted /\ ~serverOpen[c]
    /\ listening' = TRUE
    /\ active_connections' = 0
    /\ UNCHANGED <<toServer, toClient, clientOpen, serverOpen, task, buffer,
                   tunnelVars, verdict>>

-----------------------------------------------------------------------------
(* The SSH server (external)                                               *)

SshSends(c) ==
    /\ ssh[c] = "open"
    /\ pending[c] + replied[c] < MaxReplies
    /\ pending' = [pending EXCEPT ![c] = @ + 1]
    /\ UNCHANGED <<streams, task, active_connections, buffer, up, down, ssh,
                   forwarded, replied, verdict>>

SshCloses(c) ==
    /\ ssh[c] = "open"
    /\ ssh' = [ssh EXCEPT ![c] = "closed"]
    /\ UNCHANGED <<streams, task, active_connections, buffer, up, down, pending,
                   forwarded, replied, verdict>>

-----------------------------------------------------------------------------

\* What the event loop and the operating system run, task by task.
HandlerRuns(c) ==
    \/ listening /\ \/ Accept(c) \/ Refuse(c)
                    \/ HelloAccepted(c) \/ AuthAccepted(c) \/ HandshakeEof(c)
                    \/ HandshakeTimeout(c)
                    \/ SshConnects(c) \/ SshUnavailable(c) \/ TunnelEnds(c)
    \/ ~listening /\ Cancelled(c)
    \/ Release(c)

UpRuns(c) == listening /\ (UpForwards(c) \/ UpReads(c) \/ UpEof(c))
DownRuns(c) == listening /\ (DownForwards(c) \/ DownStops(c))

\* What they may run, or not.
HandlerMay(c) ==
    /\ listening
    /\ \/ PacketRejected(c) \/ AccountGrants(c) \/ AccountDenies(c)
       \/ TunnelRefused(c) \/ UpFails(c)

ServerStep(c) ==
    \/ HandlerRuns(c) \/ UpRuns(c) \/ DownRuns(c) \/ HandlerMay(c)
    \/ SshSends(c) \/ SshCloses(c)

ProcessEnds == ServerStops \/ ServerKilled

ServerTypeOK ==
    /\ task \in [Conns -> {"none"} \cup Counted \cup Over]
    /\ active_connections \in Nat
    /\ buffer \in [Conns -> Seq(Frames)]
    /\ up \in [Conns -> {"off", "running", "ended"}]
    /\ down \in [Conns -> {"off", "running", "ended"}]
    /\ ssh \in [Conns -> {"none", "open", "closed", "abandoned"}]
    /\ pending \in [Conns -> 0 .. MaxReplies]
    /\ forwarded \in [Conns -> Nat]
    /\ replied \in [Conns -> 0 .. MaxReplies]
    /\ verdict \in [Conns -> {"none", "admitted", "rejected"}]
=============================================================================
