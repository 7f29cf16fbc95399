# Secure VPN: a TLA+ model of the protocol, the server and the client

This directory holds a formal model of the VPN in this repository: TLA+
modules translated from the Python source, TLC configurations that check them
on small instances, and proofs, checked by TLAPS, of the properties that matter
most for every value of the constants.

Paths below are relative to the source directory. Definitions carry the names
of the functions they model where TLA+ allows it; `PROJECT.json` gives the
lines behind each definition.

* [The system](#the-system)
* [The modules](#the-modules)
* [What the runs show](#what-the-runs-show)
* [What is proved](#what-is-proved)
* [What the model found](#what-the-model-found)
* [What is left out](#what-is-left-out)
* [Plan](#plan)

## The system

A client program opens a local TCP port. Every connection to that port becomes
one TCP connection to the VPN server, which runs a three-message handshake over
it and then relays bytes to the local SSH service. Both programs are
single-threaded asyncio programs.

| Component | State | Operations | Talks to |
|---|---|---|---|
| Session keys, data packets (`crypto_core.py`, `protocol.py`) | `tx_counter`, `rx_counter`, the two directional keys | `encrypt`, `decrypt`, `create_data_packet`, `create_keepalive`, `create_close`, `parse_data_packet` | its peer, over packets |
| Handshake (`protocol.py`) | a `HandshakeState` per session, session keys | `create_client_hello`, `process_client_hello`, `create_server_hello`, `process_server_hello`, `create_client_auth`, `process_client_auth` | its peer; roster; image authentication |
| Roster (`server.py`) | `_cache`, `_seen`; the roster file and `.pub` files | `current`, `_names_now`, `_stamp` | the file system, edited by the operator |
| VPN server (`server.py`) | `active_connections`; per connection a task, a buffer, two relay coroutines, an SSH socket | `handle_client`, `perform_handshake`, `tunnel_traffic`, their cancellation when the process stops | clients, roster, account manager, SSH |
| VPN client (`client.py`) | per local connection a VPN connection and two relay coroutines | `connect`, `_open_session`, `perform_handshake`, `handle_local_connection` | the server, the local application |
| Framing (`protocol.py`) | the buffer of unparsed bytes | `frame_packet`, `parse_framed_packet` | both relays and both handshakes |
| Image authentication (`vpn_image_auth.py`, `admin_client.py`) | the validator's cache of image keys, the image client's cache | derive, validate, fetch | the handshake, an HTTP service |
| Key manager (`key_manager.py`) | key files | save, load, import, load a peer's key | roster, both programs |
| Account manager client (`account_manager.py`) | base URL, token, an HTTP session | open the session, validate a user, close it | the server, an HTTP service |
| Server process, SSH service manager (`server.py`) | whether the SSH service was running before, whether this relay started it | `main`, `signal_handler`, `__enter__`, `__exit__` | systemctl, the key manager, the connections |
| ML-KEM-768 (`mlkem768/src/lib.rs`) | none: pure functions | key generation, encapsulation, decapsulation | the handshake |
| Configuration, demos, set-up | none worth modelling | | |

What makes each of them correct, and what makes that hard:

* **Session keys.** A nonce is never used twice under a key, also near the end
  of the 64-bit counter; a packet is accepted at most once, in order, and only
  if the peer sealed it, whatever is lost, repeated, reordered, reflected or
  damaged; and an unacceptable packet does not change what the next good one
  will meet. The clear-text counter is read before anything is authenticated.
* **Handshake.** A session the server records under a person's name was run by
  that person, over the same ephemeral keys, as recently as the two hosts' clocks
  can tell; no two sessions have one key. The hello is unauthenticated when its timestamp, identity and keys are
  used, hellos can be replayed, and the two sides may speak different versions.
* **Roster.** Revocation and enrolment take effect with the next handshake
  although the answer is cached and the files change while they are read, or
  cannot be read for a while.
* **Server.** The connection slots are counted exactly on every way out of a
  connection, also when the process is stopped under it; a handshake always
  ends; no byte that was read early is lost; a tunnel of which one direction has
  ended, ends; a stopping server gets rid of every connection.
* **Client.** Its port opens only after a successful preflight; a tunnel that
  the server ends is reported to the application; no reply is lost.
* **Framing.** Packets come out as they went in however TCP cuts the stream.
* **Image authentication.** A key is accepted in its own 30-second bucket or the
  one after it, and only for an image that was current during the call, although
  the cache is keyed by `id()`, which Python gives out again; a check is skipped
  only when the image could not be had.
* **Key manager.** A save that nothing disturbed leaves a pair, whatever crashed
  saves left before it; a server never loads a key nobody could have been given.
* **Server process.** A signal ends it whenever it comes; the SSH service is left
  as it was found, also by relays that come and go side by side.
* **ML-KEM.** Decapsulation inverts encapsulation; each optimised operation
  equals its definition.

`PROJECT.json` lists the hazards behind these at the lines where they bite, with
the properties that cover each, or the reason none does yet.

## The modules

    OrderedChannel <--implemented by-- SecureChannel     what a session carries
    Handshake                                            how a session is made
    Roster                                               who may make one
    FrameStream <--implemented by-- Framing              how packets share a stream
    ImageAuth                                            which image keys are good
    Streams <- VPNServer \
    Streams <- VPNClient  > VPNSystem                    who runs all of this
    KeyStore, SSHService <- ServerLife                   the process around it

`MC*.tla` and `*.cfg` instantiate them for TLC. `SecureChannel_proofs`,
`Handshake_proofs`, `Roster_proofs`, `Framing_proofs`, `ImageAuth_proofs`,
`ServerLife_proofs` and `VPNSystem_proofs` hold the proofs.
A definition whose comment begins with *mutant* is not part of the
specification: it is a plausible mistake in the definition that follows it, and
substituting it must make a property fail.

### SecureChannel, OrderedChannel

`tx_counter` and `rx_counter` are the fields of the two `SecurityKeys` objects;
`net` is the set of packets in flight; `sealed` and `handed` are histories.
`Encrypt` is `encrypt`; `Decrypted` lists `decrypt`'s checks in the code's
order; `parse_data_packet` is the parser with everything it calls. A sealed
packet records the key, the nonce and the body it was made from, and opens only
with exactly these: ChaCha20-Poly1305 is idealised. Its counter field is
separate from its nonce, as in the code, so that damage can change the one and
not the other. A packet stays in flight after it arrived, so it may arrive
again, at either end; `Lose` removes it.

A relay stops at a packet that does not parse, as `VPNServer` and `VPNClient`
model (`UpFails`, `LdownFails`). `SecureChannel` allows more: reading on after
an error. Whatever holds of it holds of a reader that stops.

`OrderedChannel` is the abstraction that the relays rely on: a log per
direction and a reading position that moves forward, by at most `Window`, over
what the peer sealed. The refinement maps `log` to `sealed` and `position` to
`rx_counter + 1`.

### Handshake

Any number of client and server sessions share a network that keeps everything
ever sent (`sent`) and may deliver any of it, any number of times, to anybody:
`CLIENT_HELLO` with any one field damaged, `SERVER_HELLO` with fields of
different packets mixed, `CLIENT_AUTH` as sent or spoilt. Keys are named by
their owners; a signature is its signer and the transcript; a shared secret is
the pair of key names; ML-KEM is a ciphertext that names the key it was made
for, with implicit rejection. Each `process_...` action is the whole handler;
the conditions under which the handler raises are the negations of
`ServerHelloOk`, `ClientHelloOk` and `AuthOk`, and a session that fails ends in
`ClientFails` or `ServerFails`. The version of each party is a variable chosen
once, so that every mix of version 1 and version 2 is covered.

`clock` is the server's clock, and `ClockOf(c)` that of `c`'s host, which is
ahead of it by `ahead[c]`: any of `Aheads`, negative if it is behind, chosen
once. That a lead stays the same while the model runs is an assumption; a clock
that is set or drifts during a handshake is not covered.
`process_client_hello` reads the server's clock twice, for the check and for its
own timestamp, and time may pass between the two; `checked_time` is a history of
the first reading.

The server's roster is a constant here (its changes are the subject of
`Roster`), and so are the image keys and the server's image mode (`ImageKeyOk`
is the verdict of the image validator).

### Roster

One call of `Roster.current` is a sequence of steps, one per file access:
`CallBegins` (stat), then `CacheHit`, `ReadNames` or `ReadRaises`, then `LoadKey`
or `LoadRaises` per name, then `Store`. Between any two the operator may write
the roster file (`EditRoster`), remove it (`LoseRoster`), or write, truncate,
remove or protect a key file (`EditKeyFile`).

A roster file that exists need not be readable (`access`): `hidden`, where
`os.stat` fails as it does for a missing file; `locked`, where `os.stat` works
but opening or reading raises `OSError`; `garbled`, text that is not UTF-8.
`ChangeAccess` moves between the first two and `readable` without touching
modification time or size. What `_names_now` returns on an `OSError` is the
pinned names and the lines read before it (`NamesNow`), and these are cached
under the file's own stamp; a `UnicodeDecodeError` is not caught and ends the
call (`ReadRaises`).

Three histories say what the answer owes. Two are kept with the call:
`outside`, the names unauthorised ever since it began, and `settled`, the names
authorised since it began and `intact`. `intact` are the names whose key file
was complete when the roster was last written and is untouched since, and that
no reading since then has missed.

Assumed about the file system: every write of the roster file gets a
modification time of its own, and names count as equally long, so the stamp is
the pair of the time and the number of names. A garbled file is assumed to stay
accessible. The order in which key files are
loaded is left open.

### Framing, FrameStream

One direction of one connection, byte by byte. `Length`, `TooLarge`,
`Complete`, `Packet` and `Remaining` are the parts of `parse_framed_packet`;
`stage` is the loop the receiving end is in: `handshake` (`perform_handshake`,
which reads before it parses), then `drain` and `read` (`vpn_to_ssh`,
`vpn_to_local`, which parse until nothing is complete). A read returns any
non-empty beginning of `wire`. `HandedBuffer` is what one loop leaves to the
next: the server hands its buffer over; the client drops it, which loses nothing
only because the server sends nothing between `SERVER_HELLO` and what answers
`CLIENT_AUTH` (`MayFollow`).

`FrameStream` promises what `Streams` takes for granted: whole packets, once, in
order, each without waiting for a later one; a packet too large is refused when
its turn comes. The refinement maps `end` to the last value of `stage` and the
rest to itself, and includes liveness.

### ImageAuth

One validator, used by several threads: the class takes its lock in every method
and its test uses it that way; in the program the relay's event loop is the only
one. `validate_auth_key` is cut where it leaves or takes the lock: `Check` reads
the clock, `ReadImage` the image, `LookUpHit` or `LookUpMiss` the cache, `Store`
writes what it computed in between. Around it, on the relay's thread only,
`_validate_image_auth_key`: `Look`, `Fetch` (the cached client and its
back-off), `Miss` or `Got` (the HTTP answer), `Refresh`, `LookAgain`. A call is
modelled for all keys at once: `answer.keys` is what it would accept.

An image is an object, content and `id()`; a new object may get the `id()` of
one that nothing references (`Referenced`). `seen`, `began`, `gotAt` and
`failedAt` are histories. The HTTP service answers or does not; whatever
`fetch_image` makes of a failure is `None`.

The caching client is modelled as a class: used again and again. In the relay
every handler constructs a client of its own, which fetches at most once, so
that neither its time to live nor its back-off is ever consulted there. What
`FetchedIsRecent` says, and the back-off case of `FallbackOnlyAfterMiss`, is about
the class.

### KeyStore, SSHService, ServerLife

`KeyStore` is one identity's two files and any number of runs of `save_identity`
that open and write them one operation at a time, and may crash in between; a
file that is opened is empty until it is written, and a shorter text written
over a longer one leaves its tail. `SSHService` is systemctl's view of a Linux
host, where the service is the unit `sshd`, the unit `ssh`, both or neither: the
state check asks for `sshd`, a start and a stop fall back to `ssh`.

`ServerLife` runs several relays on that host: `Load`, `Check`, `Enter`, `Bind`,
`Serve`, `HandleSignal`, `Stopped` are the stretches of `main` between which
something else can happen, in the process or beside it. A signal that comes
before `main` first awaits waits until then. `disturbed` remembers what `main`
has no answer to: a command that fails, a second signal, SIGKILL.

### Streams, VPNServer, VPNClient, VPNSystem

`Streams` is TCP as asyncio shows it: a sequence of whole frames per direction,
reads that return any non-empty part of it, end-of-file after a close, and
nothing at all from a peer that vanished. `VPNServer` has one action per way
from one await of `handle_client`, `perform_handshake` or the two relay
coroutines to the next; `VPNClient` the same for `connect`,
`perform_handshake` and `handle_local_connection`. Steps are that large because
nothing else in the same process runs between two awaits. `local_to_vpn` ends
when its application's socket is closed, by either side (`LupStops`), or when it
writes to a server that is gone (`LupFails`); it does not read the VPN socket, so
nothing else tells it.

| Variable | In the code |
|---|---|
| `task[c]` | the await at which the handler of `c` waits: `hello`, `auth` (reads), `account` (`validate_vpn_user`), `opening` (connecting to SSH), `relay` (`gather`), `closing` (`wait_closed` in the `finally` block) |
| `buffer[c]` | the local `buffer`, handed from `perform_handshake` to `tunnel_traffic` |
| `up`, `down` | `vpn_to_ssh`, `ssh_to_vpn` |
| `conn[c]`, `lup`, `ldown` | the client's owner of the connection; `local_to_vpn`, `vpn_to_local` |
| `verdict`, `requested`, `forwarded`, `replied`, `delivered` | histories |

What a packet is judged by belongs to `Handshake`; here the verdict is open, as
are the answers of the account manager and of SSH. `TunnelRefused` is the second
`SecureVPNProtocol` that `tunnel_traffic` builds from the roster, which raises
when the roster has become empty. Assumed about asyncio: `drain` returns, and so
does a connection's own `wait_closed`.

Either process may end (`MaxEnds` times in all) and start again. The server
stops on a signal (`ServerStops`): it no longer listens and every handler is
cancelled at its await (`Cancelled`), where what happens next differs: a
handshake ends in the `finally` block, a tunnel cancels its two relays first. Or
it is killed (`ServerKilled`), and the operating system closes its sockets. Then
it starts anew. The client stops (`ClientStops`) and its sessions are cancelled
one by one (`SessionCancelled`). An attempt that finds nobody
listening (`DialFails`), or whose handshake fails, closes the application's
connection, or, if it was the preflight, ends the client (`GiveUp`).

## What the runs show

Every passing run checks its properties over the whole state space of its
instance.

| Run | Checks | Instance |
|---|---|---|
| `secure_channel` | `NonceUsedOnce`, `RxBehindSender`, `GapIsFinal`, `ImplementsOrderedChannel` | window 2 (1000 in the code), counters up to 3 (2^64 - 1000), 4 and 1 packets to send, 2 payloads; 51,000 states |
| `handshake` | `ServerAgreement`, `ClientAgreement`, `SessionKeysUnique`, `SessionsAreFresh` | an enrolled and an unenrolled client session, a second enrolled person, 2 server sessions, skew 1, time up to 1, each client's clock 1 behind, equal or 2 ahead; 387,000 states |
| `roster` | `RevokedIsOut`, `EnrolledIsIn` | 2 names, 1 pinned, 2 keys, 3 roster writes, 1 key write, the roster file locked, hidden and accessible again at any time; 1,409,000 states |
| `framing` | `BytesConserved`, `NothingHeldBack`, `ImplementsFrameStream` | bytes of 2 values, a 2-byte prefix, packets of 1, 2 and 3 bytes with a maximum of 2, 4 packets |
| `image_auth` | `CacheIsCurrent`, `FetchedIsRecent`, `AcceptedKeyIsGenuine`, `GenuineKeyIsAccepted`, `FallbackOnlyAfterMiss` | the relay and one other thread, 2 contents, 2 ids, cache of 2, buckets of 2 ticks, time up to 2; 1,060,000 states |
| `server_life` | `SSHRestored`, `CompletedSaveIsWhole`, `LoadedIsPublished`, `SignalEndsRelay` | 2 relays, 2 saves (one encrypted), any units; 333,000 states |
| `vpn` | `SlotsCounted`, `NoRequestLost`, `NoReplyLost` | 2 clients, 3 connections, 1 slot, 1 chunk each way, 1 process end; 1,400,000 states |
| `vpn_liveness` | `HandshakeEnds`, `ClosingFreesSlot`, `ServerEndReachesApp`, `RequestsForwarded`, `ShutdownEndsAll` | 1 client, 2 connections, 1 slot, 1 request, 1 process end; 36,000 states |

Each also checks the type invariant of its module, except `vpn_liveness`. Four
more runs, `roster_missing`, `roster_unreadable`, `vpn_preflight` and
`vpn_inactive`, show a stated expectation violated (see below).

Why these bounds are enough for the interesting cases to happen:

* **secure_channel.** A window of 2 distinguishes the next counter, one that is
  skipped, and one beyond the window. Four packets against a limit of 3 reach
  the refusal in `encrypt`. Three packets sealed and none received is a gap
  longer than the window. One packet from the server suffices for reflection
  and for keys mixed up between directions. The theorems remove the bounds.
* **handshake.** Two server sessions are what it takes to deliver one hello
  twice, or a `CLIENT_AUTH` to the wrong session. Damage can put the second
  enrolled person's key into a hello, which is what the check of the peer in
  `process_client_auth` is for. A lead of 2 exceeds the skew, and a clock that is
  1 behind exceeds it once a tick has passed: hellos are refused in either
  direction, and one that is refused now may be accepted a tick later. Symmetry: server sessions are interchangeable.
* **roster.** A wrongly cached answer takes one write before a call, one during
  it and one after it. Two names make two rosters of one size. Access to the
  roster file changes without a bound. One key write changes a key before,
  during or after a call. The theorems remove the bounds. Symmetry: keys are interchangeable.
* **vpn.** One slot and three connections: one holds it, one competes, and the
  preflight's may still be closing. One chunk each way can be read together
  with `CLIENT_AUTH`, before the account check.
* **vpn_liveness.** One request, so that "forwarded when the next one arrives" is
  not enough. One process end, of either side, at any moment.
* **framing.** Prefixes whose two bytes matter in order, the maximum, one byte
  more, and every cut of the stream. Four packets: two of the handshake, and two
  that can be read together with its last.
* **image_auth.** Two ids and two contents: an id comes back with another image.
  A second thread suffices to replace, free and allocate between two steps of
  the first. A bucket ends and the back-off (1) and the time to live (2) expire
  within the time. A cache of two evicts.
* **server_life.** Two relays are what it takes for one to find the service that
  the other started; each may run any number of times. The exit code for a unit
  that does not exist is 4 here; with 3, which some versions of systemd give, a
  host that has only the unit `ssh` looks off when it is on, and `SSHRestored`
  promises nothing (`StateIsTold`).

Bounds in the guards: `MaxTime`, `MaxEdits`, `MaxKeyEdits`, `Budget`,
`MaxRequests`, `MaxReplies`, `MaxEnds`, `MaxPackets`. `CHECK_DEADLOCK FALSE` is said where these bounds
(or the end of every connection) really stop the model.

**Fairness** (`VPNSystem!Fairness`). Weak fairness for each task separately,
because the event loop runs every task that can run, and its timers fire: the
connection handler with its deadline and its cancellation, the two server relays, the client's
opener with its read timeout, and its two relays. Granting or refusing an SSH
connection is part of the handler: the operating system connects or gives up.
Nothing is assumed of applications, of what SSH sends or whether it ever
closes, of the account manager's answer, or of a client that vanishes. That is
why `HandshakeEnds` depends on the deadline, and why `InactiveTunnelEnds` fails.
Nor is it assumed that a stopping client gets round to cancelling a session:
`Server.wait_closed` may first wait for its connections, depending on the
version of Python. In `Framing` the receiving end runs when it can
(`ReceiverRuns`); in `ServerLife` each relay does its next step (`Proceeds`),
as systemctl and closing connections return. `ImageAuth` needs no fairness.

Every property has a mutant in `PROJECT.json`: a plausible mistake in a modelled
definition, under which TLC finds the property violated in the same run.

## What is proved

For every value of the constants that satisfies the assumptions of the module:

| Theorem | States |
|---|---|
| `SecureChannel_proofs!TypeCorrect` | `Spec => []TypeOK` |
| `SecureChannel_proofs!NonceSafety` | `Spec => []NonceUsedOnce` |
| `SecureChannel_proofs!ReplayWindowSafety` | `Spec => []RxBehindSender` |
| `SecureChannel_proofs!GapSafety` | `Spec => GapIsFinal` |
| `SecureChannel_proofs!Refinement` | `Spec => ImplementsOrderedChannel` |
| `Handshake_proofs!TypeCorrect` | `Spec => []TypeOK` |
| `Handshake_proofs!ServersAgree` | `Spec => []ServerAgreement` |
| `Handshake_proofs!ClientsAgree` | `Spec => []ClientAgreement` |
| `Handshake_proofs!KeysAreUnique` | `Spec => []SessionKeysUnique` |
| `Handshake_proofs!SessionsFresh` | `Spec => []SessionsAreFresh` |
| `Roster_proofs!TypeCorrect` | `Spec => []TypeOK` |
| `Roster_proofs!Revocation` | `Spec => RevokedIsOut` |
| `Roster_proofs!Enrolment` | `Spec => EnrolledIsIn` |
| `VPNSystem_proofs!TypeCorrect` | `Spec => []TypeOK` |
| `VPNSystem_proofs!SlotAccounting` | `Spec => []SlotsCounted` |
| `VPNSystem_proofs!RequestsConserved` | `Spec => []NoRequestLost` |
| `VPNSystem_proofs!RepliesConserved` | `Spec => []NoReplyLost` |
| `Framing_proofs!TypeCorrect` | `Spec => []TypeOK` |
| `Framing_proofs!BytesKept` | `Spec => []BytesConserved` |
| `Framing_proofs!NothingWaits` | `Spec => []NothingHeldBack` |
| `Framing_proofs!ImplementsFrames` | `Spec => Abstract!Init /\ [][Abstract!Next]_(Abstract!vars)` |
| `ImageAuth_proofs!TypeCorrect` | `Spec => []TypeOK` |
| `ImageAuth_proofs!CacheCurrent` | `Spec => []CacheIsCurrent` |
| `ImageAuth_proofs!FetchedRecent` | `Spec => []FetchedIsRecent` |
| `ImageAuth_proofs!AcceptedIsGenuine` | `Spec => AcceptedKeyIsGenuine` |
| `ImageAuth_proofs!GenuineIsAccepted` | `Spec => GenuineKeyIsAccepted` |
| `ImageAuth_proofs!FallbackAfterMiss` | `Spec => FallbackOnlyAfterMiss` |
| `ServerLife_proofs!TypeCorrect` | `Spec => []TypeOK` |
| `ServerLife_proofs!ServiceRestored` | `Spec => []SSHRestored` |
| `ServerLife_proofs!SavesAreWhole` | `Spec => []CompletedSaveIsWhole` |
| `ServerLife_proofs!LoadsArePublished` | `Spec => []LoadedIsPublished` |

In each proof module `Inv` is the inductive invariant (with `EnrolInv` in
`Roster_proofs`). TLC finds each of them to hold on the instance of the module's
run as well; `VPNSystem_proofs!Inv`, on one of two connections and one client.

* **SecureChannel.** Assumptions: the window is a positive number, the counter
  limit and the budgets are natural numbers. `Inv`, the conjunction of the
  types, `NonceUsedOnce` and `RxBehindSender`, is inductive, and none of its
  parts is alone: an end accepts a counter only from a packet that opens
  (`ArrivalFacts`, `OpenedFacts`: damage makes no new ciphertexts), and
  `NonceUsedOnce` says that the peer has used the counters of those. The gap and
  the refinement theorems follow step by step from the same invariant.
* **Handshake.** Assumptions: the special values differ from the names of people
  and sessions, and from one another; the clocks' leads are whole numbers, of any
  size. The network keeps everything and may mix
  and damage it, so what a session can conclude from a packet depends on what
  can ever be in `sent`. `Provenance` says it: every hello, signature and sealed
  `CLIENT_AUTH` was made by a session that has since then not changed what it
  put into it (`Keep`: a server session that has answered only changes its phase,
  and a client session that is done changes no more). `ServersInOrder` says what a session knows once it has answered a hello:
  the peer is on the roster, its part of the key is its own, and the hello's time
  was within the skew of its own clock at `checked_time`; `ClientsInTime`, that a
  hello was made when its client's clock showed its time. The agreement properties follow, packet by packet, from the
  signatures; uniqueness follows from `ServersInOrder`, freshness from it and
  `ServerAgreement`.
* **Roster.** Assumptions: finitely many names, and the special values are
  distinct from keys and stamps. The properties compare an answer with a
  history; what makes them true is a relation between stamps and contents. No
  stamp is newer than the file (`StampsInv`); so a write of the file makes every
  stamp old (`WriteAgesStamps`); the cache whose stamp is the present file's
  names only people authorised now (`CacheInv`); what a call has loaded so far,
  and will load, under such a stamp is authorised now (`LoadInv`); and what the
  call in progress can still return meets nobody in `outside` (`AnswerInv`).
  `EnrolInv` is the converse for `settled`: nobody in it is missing.
* **VPNSystem.** Assumptions: finitely many connections, each of one client,
  which has at most one preflight; the bounds are natural numbers. `SlotInv` adds
  the type of `task` to `SlotsCounted`. Each step of the server either takes a
  slot, frees one or keeps them all (`ServerStepKinds`); the cardinality lemmas
  are `TakeSlot`, `FreeSlot` and `KeepSlot`. That no byte is lost needs to know,
  stage by stage, what can be in a connection's two streams and in its buffer
  (`ClientInOrder`, `ServerInOrder`): nothing is buffered until `CLIENT_AUTH` has
  been read, and from then on everything in the stream and the buffer is `DATA`;
  the client's relays never meet a handshake packet. `TunnelInOrder` ties the two
  coroutines and the socket to the task. `InOrder(c)` speaks of one connection
  only, and a step of the server or the client changes one (`ServerLocal`,
  `ClientLocal`), so the proof is per connection; the end of a process, which
  changes them all, is a case of its own.
* **Framing.** Assumptions: bytes of at least two values, a prefix of at least
  one byte, a maximum that the prefix can name, and packets that are neither
  empty nor too long for the prefix. The lemmas about the operators come first:
  the powers of the base (`PowerDefined`, `PowerType`), that reading back a
  prefix gives what was packed (`LengthOfPrefix`), that `Framed` grows by one
  frame per packet (`FramedAppend`) and what follows the first packets' frames
  begins with the next frame (`FramedNext`), and so what the parser makes of any
  cut of the stream (`Parses`). `Inv` adds to the checked properties that what
  was handed on is a beginning of what was sent (`InTurn`), that the second
  packet waits for an answer to the first (`FirstAlone`), without which the
  buffer the client drops could hold bytes, and where the loops are (`Reading`).
  The refinement of `FrameStream` is proved step by step, without its fairness.
* **ImageAuth.** Assumptions: bucket, time to live and the evicted part are
  positive, the cache holds at least what is evicted at once, and `NoImage` is
  neither an image nor an id. The difficulty is the cache's key: `CacheIsCurrent`
  is kept because an id in use belongs to one object (`IdsAreUnique`), which in
  turn needs to know every object a thread, a cache or the validator still holds
  (`ThreadsInOrder`, `ClientInOrder`). The three action properties follow from
  what a thread knows of the images and times of its call.
* **ServerLife.** Assumptions: relays that manage the service are relays; a
  missing unit's exit code is 3 or 4; a saver is none of the values that stand
  for a file without a key. `SSHRestored` follows from `ServiceAccounted`: until
  something disturbs it, the service is as it was, or a relay that will stop it
  has started it (`ManagersAreIn`), and every relay that found it off is right.
  `SaveInOrder` and `PublishedFirst` do the same for the two key files.

The library's induction theorems take an operator as a parameter, which the
installed provers cannot instantiate. `Framing_proofs!SetInduction` states
induction for sets instead, and is proved from the well-foundedness of the
natural numbers; this is how the recursive functions in `Framing` (`Power`, the
sum in `Length`) and `FlattenSeq` become accessible. `Framing` defines `Power`
because the provers know nothing about `^`.

Only model-checked, because fairness and `ENABLED` are out of the prover's
reach: the properties of `vpn_liveness` (`HandshakeEnds`, `ClosingFreesSlot`,
`ServerEndReachesApp`, `RequestsForwarded`, `ShutdownEndsAll`), `SignalEndsRelay`,
and the fairness of `FrameStream` within `ImplementsFrameStream`. Every other
property of a passing run is one of the theorems above.

## What the model found

| Run | In short |
|---|---|
| `roster_unreadable` | A `.pub` file that exists but cannot be opened makes `current` raise, for everybody; its docstring says such a name is skipped. Only `FileNotFoundError` and `ValueError` are caught. |
| `roster_missing` | A call that finds no roster file remembers the stamp `None`, but may then read a file that has just appeared. If that file is removed again, the stamp `None` matches and the cached people are returned as long as the file is missing; the code says that a missing roster is an empty one. |
| `vpn_preflight` | The client finishes its handshake by sending `CLIENT_AUTH` and no message carries a verdict back. So a rejected authentication, or a refusal by the account manager, does not surface in `connect`, contrary to its docstring. |
| `vpn_inactive` | `PROTOCOL.md` promises a timeout after 5 minutes of inactivity; nothing implements it, and `local_to_vpn` tells nobody that its application has closed. The tunnel stays as long as SSH stays silent. |

## What is left out

* **Cryptographic strength.** Primitives are symbolic, and their randomness is
  fresh by assumption.
* **Bytes outside `Framing`.** Frames and packets are whole; lengths are checked
  where the code checks them, as alternatives (`whole`, version against
  ciphertext).
* **Rekeying.** `README.md` and `PROTOCOL.md` promise it after a time or a
  volume; `should_rekey` has no caller, so there is no step to model.
* **The first packet.** `CLIENT_AUTH` is the client's packet with counter 0;
  `SecureChannel` treats it as one more body.
* **Revocation against a handshake under way.** The roster is resolved when the
  connection is accepted, and `Handshake` has it constant. What bounds the delay
  is the composition of two results: what a handshake resolves is current
  (`RevokedIsOut`), and a handshake ends by its deadline (`HandshakeEnds`). A
  tunnel that is up outlives its owner's revocation: nothing ends it.
* **An abandoned SSH socket.** When `tunnel_traffic` raises after connecting,
  nobody closes the socket; `ssh[c] = "abandoned"` records it. When it closes
  depends on the Python runtime.
* **Image authentication.** A comment speaks of a tolerance of ±30 seconds; the code accepts the bucket before, not the one after, and so does
  the model. An image, once loaded, is not fetched again by a handler; only
  another thread's `set_image_data` replaces it. `validate_auth_key_with_tolerance`,
  `get_current_key`, the age queries and the metadata request have no caller.
* **macOS.** `systemsetup` has one setting where Linux has two units.
* **Account manager.** An HTTP service; `account_manager.py` is its client. Its
  answers are in `VPNServer`, a timeout or a broken connection among the
  refusals. Opening and closing the client's HTTP session are part of steps of
  `ServerLife`, without a state of their own.
* **Without effect.** The client's `disconnect` closes `vpn_writer`, which nothing
  sets, and is called for a `KeyboardInterrupt` that asyncio raises elsewhere.
* **ML-KEM arithmetic.** `Handshake` uses ML-KEM's symbolic contract. The number
  theory underneath (transform, compression, sampling, packing) is sequential
  code with test vectors of its own; its faults are not of the kind that small
  instances show.
* **Statistics, logging, wording, permissions, argument parsing, configuration,
  demos and set-up.**

## Plan

Every safety property that a passing run checks is proved. What is left:

1. `Roster` composed with `Handshake`, if it can be kept within reach of TLC, so
   that a roster that changes during a handshake is checked rather than argued.
2. The abstract specification of the tunnel: that `VPNSystem`, seen from one
   application and its SSH connection, implements a pair of ordered streams, as
   `Framing` implements `FrameStream`.
3. The arithmetic around liveness that the prover can do: that the steps that
   fairness is assumed of decrease what they are meant to decrease.
