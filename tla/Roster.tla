-------------------------------- MODULE Roster --------------------------------
(***************************************************************************)
(* Roster.current() (server.py): who may complete a handshake.  The server *)
(* calls it once per handshake and once per tunnel, always to completion   *)
(* before the event loop runs anything else, so there is one call at a     *)
(* time; but the operator edits the roster file and the <name>.pub files   *)
(* from other processes, between any two of the call's file accesses, and  *)
(* can make the roster file inaccessible without changing it.              *)
(*                                                                         *)
(* A call stats the roster file, decides whether its cache is current, and *)
(* if not reads the names and then the key file of every name.             *)
(*                                                                         *)
(* The behaviours start when the Roster object is constructed.  VPNServer  *)
(* makes the first call at once and does not start if the map is empty;    *)
(* calls that follow an empty first one are allowed here all the same.     *)
(***************************************************************************)
EXTENDS Integers, FiniteSets

CONSTANTS
    Names,         \* peer names that may be listed
    Pinned,        \* names given on the command line
    Keys,          \* public keys
    MaxEdits,      \* bound: writes of the roster file
    MaxKeyEdits,   \* bound: writes of key files
    None,          \* no roster file, no stamp, no entry, no answer yet
    Raised         \* the call ended with an exception

\* States of a key file that hold no key.  missing: no such file;
\* partial: truncated or half written, load_peer_public_key raises ValueError;
\* denied: it exists and cannot be opened, load_peer_public_key raises OSError.
NoKeyFile == {"missing", "partial", "denied"}

\* How an existing roster file answers the server.  hidden: os.stat fails;
\* locked: os.stat works, opening or reading the file fails (permissions,
\* another process's exclusive access); garbled: it is not UTF-8 text.
Accesses == {"readable", "hidden", "locked", "garbled"}

\* The stamps of existing roster files: modification time and size.
FileStamps == (0 .. MaxEdits) \X (0 .. Cardinality(Names))

ASSUME RosterAssumption ==
    /\ IsFiniteSet(Names)
    /\ Pinned \subseteq Names
    /\ MaxEdits \in Nat
    /\ MaxKeyEdits \in Nat
    /\ None \notin Keys
    /\ \A S \in SUBSET Names : None # S
    /\ \A t \in FileStamps : None # t
    /\ Keys \cap NoKeyFile = {}

VARIABLES
    listed,      \* the names in the roster file, None when there is no file
    access,      \* one of Accesses; "readable" when there is no file
    mtime,       \* its modification time; also counts the writes
    keyfile,     \* keyfile[n]: the content of <n>.pub
    keyedits,    \* counts the writes of key files
    cache,       \* _cache, as a total function: None for a name without entry
    seen,        \* _seen
    call,        \* the call in progress: its position, stamp, names left, map,
                 \* and two histories of the time since it began:
                 \*   outside: the names never authorised in that time
                 \*   settled: the names always authorised and intact
    answer,      \* what the last call returned, a map or Raised; None during one
    intact       \* history: the names whose key file held a key when the roster
                 \* file was last written and is untouched since, and that no
                 \* reading of the roster file has missed since

files == <<listed, access, mtime, keyfile, keyedits>>
vars == <<listed, access, mtime, keyfile, keyedits, cache, seen, call, answer,
          intact>>

Maps == [Names -> Keys \cup {None}]
EmptyMap == [n \in Names |-> None]
Stamps == FileStamps \cup {None}

\* The people the operator has authorised at this moment.
Authorised == Pinned \cup (IF listed = None THEN {} ELSE listed)
HasKey(n) == keyfile[n] \in Keys
WithKey == {n \in Names : HasKey(n)}

-----------------------------------------------------------------------------
(* The server                                                              *)

NoStamp == listed = None \/ access = "hidden"

StampSizeOnly ==               \* mutant: an edit of equal size goes unnoticed
    IF NoStamp THEN None ELSE <<0, Cardinality(listed)>>

\* _stamp: modification time and size, None when stat fails.  Names count as
\* equally long.
Stamp == IF NoStamp THEN None ELSE <<mtime, Cardinality(listed)>>

\* _names_now: what it may return.  An OSError leaves the pinned names and
\* those read before it; a missing file has no others.
NamesNow ==
    IF listed # None /\ access # "readable"
    THEN {Pinned \cup some : some \in SUBSET listed}
    ELSE {Authorised}

StampAfterReading(c) == Stamp  \* mutant: stat again once the names are read

\* The stamp to remember is the one taken before anything was read.
StampToKeep(c) == c.stamp

NeedsReload == call.stamp # seen \/ cache = EmptyMap

Idle == [at |-> "idle", stamp |-> None, names |-> {}, fresh |-> EmptyMap,
         outside |-> {}, settled |-> {}]

CallBegins ==
    /\ call.at = "idle"
    /\ call' = [Idle EXCEPT !.at = "stamped", !.stamp = Stamp,
                            !.outside = Names \ Authorised,
                            !.settled = Authorised \cap intact]
    /\ answer' = None
    /\ UNCHANGED <<files, cache, seen, intact>>

CacheHit ==
    /\ call.at = "stamped"
    /\ ~NeedsReload
    /\ answer' = cache
    /\ call' = Idle
    /\ UNCHANGED <<files, cache, seen, intact>>

ReadNames ==
    /\ call.at = "stamped"
    /\ NeedsReload
    /\ access # "garbled"
    /\ \E names \in NamesNow :
        /\ call' = [call EXCEPT !.at = "loading", !.names = names,
                                !.settled = @ \cap names]
        /\ intact' = intact \ (Authorised \ names)
    /\ UNCHANGED <<files, cache, seen, answer>>

\* The call ends with an exception, and nothing is stored.
Raise ==
    /\ call' = Idle
    /\ answer' = Raised
    /\ UNCHANGED <<files, cache, seen, intact>>

\* UnicodeDecodeError is a ValueError, which _names_now does not catch.
ReadRaises ==
    /\ call.at = "stamped"
    /\ NeedsReload
    /\ access = "garbled"
    /\ Raise

LoadedUnchecked(n) == keyfile[n]   \* mutant: the key's length is not checked

\* load_peer_public_key: a name without a usable key is skipped.
Loaded(n) == IF HasKey(n) THEN keyfile[n] ELSE None

LoadKey(n) ==
    /\ call.at = "loading"
    /\ n \in call.names
    /\ keyfile[n] # "denied"
    /\ call' = [call EXCEPT !.names = @ \ {n}, !.fresh[n] = Loaded(n)]
    /\ UNCHANGED <<files, cache, seen, answer, intact>>

\* Only FileNotFoundError and ValueError are caught around a key file.
LoadRaises(n) ==
    /\ call.at = "loading"
    /\ n \in call.names
    /\ keyfile[n] = "denied"
    /\ Raise

Store ==
    /\ call.at = "loading"
    /\ call.names = {}
    /\ cache' = call.fresh
    /\ seen' = StampToKeep(call)
    /\ answer' = call.fresh
    /\ call' = Idle
    /\ UNCHANGED <<files, intact>>

-----------------------------------------------------------------------------
(* The operator: not part of the repository, modelled from the Roster       *)
(* docstring and from KeyManager.import_peer_public_key                      *)

\* A write of the roster file, or its loss, leaves these people authorised.
RosterBecomes(names) ==
    /\ mtime < MaxEdits
    /\ mtime' = mtime + 1
    /\ call' = [call EXCEPT !.outside = @ \ names,
                            !.settled = @ \cap (Pinned \cup names)]
    /\ intact' = WithKey
    /\ UNCHANGED <<keyfile, keyedits, cache, seen, answer>>

\* Write the roster file.  Every write gets a modification time of its own.
\* Writing {} is also what truncation leaves until the content follows.
EditRoster(names) ==
    /\ listed' = names
    /\ access' \in {"readable", "garbled"}
    /\ RosterBecomes(names)

LoseRoster ==
    /\ listed' = None
    /\ access' = "readable"
    /\ RosterBecomes({})

\* Another process locks the file or lets go of it, or its permissions or
\* its directory's change: neither its modification time nor its size does.
\* (A bound: a garbled file stays accessible.)
ChangeAccess(how) ==
    /\ listed # None
    /\ access # "garbled"
    /\ access' = how
    /\ UNCHANGED <<listed, mtime, keyfile, keyedits, cache, seen, call, answer, intact>>

\* Create, truncate, replace, remove or protect a key file.
EditKeyFile(n, content) ==
    /\ keyedits < MaxKeyEdits
    /\ keyedits' = keyedits + 1
    /\ content # keyfile[n]
    /\ keyfile' = [keyfile EXCEPT ![n] = content]
    /\ call' = [call EXCEPT !.settled = @ \ {n}]
    /\ intact' = intact \ {n}
    /\ UNCHANGED <<listed, access, mtime, cache, seen, answer>>

-----------------------------------------------------------------------------

Init ==
    /\ listed \in (SUBSET Names) \cup {None}
    /\ access = "readable"
    /\ mtime = 0
    /\ keyfile \in [Names -> Keys \cup {"missing"}]
    /\ keyedits = 0
    /\ cache = EmptyMap
    /\ seen = None
    /\ call = Idle
    /\ answer = None
    /\ intact = WithKey

Next ==
    \/ CallBegins
    \/ CacheHit
    \/ ReadNames
    \/ ReadRaises
    \/ \E n \in Names : LoadKey(n) \/ LoadRaises(n)
    \/ Store
    \/ \E names \in SUBSET Names : EditRoster(names)
    \/ LoseRoster
    \/ \E how \in Accesses \ {"garbled"} : ChangeAccess(how)
    \/ \E n \in Names, content \in Keys \cup NoKeyFile : EditKeyFile(n, content)

Spec == Init /\ [][Next]_vars

-----------------------------------------------------------------------------
(* Properties                                                              *)

\* The types of the variables.
TypeOK ==
    /\ listed = None \/ listed \in SUBSET Names
    /\ access \in Accesses
    /\ mtime \in 0 .. MaxEdits
    /\ keyfile \in [Names -> Keys \cup NoKeyFile]
    /\ keyedits \in 0 .. MaxKeyEdits
    /\ cache \in Maps
    /\ seen = None \/ seen \in FileStamps
    /\ call \in [at : {"idle", "stamped", "loading"}, stamp : Stamps,
                 names : SUBSET Names, fresh : Maps,
                 outside : SUBSET Names, settled : SUBSET Names]
    /\ answer \in {None, Raised} \/ answer \in Maps
    /\ intact \subseteq Names

\* The call in progress returns a map in this step.
Returns == call.at # "idle" /\ call'.at = "idle" /\ answer' # Raised

\* It vouches for the roster: it found a roster file to compare its cache
\* with, or has just read everything.
Vouched == call.stamp # None \/ call.at = "loading"

\* Revocation takes effect with the next handshake: a call never returns a
\* name that was unauthorised from the moment the call began, even if the
\* roster was being edited while an earlier call was filling the cache.
RevokedIsOut ==
    [][Returns /\ Vouched => \A n \in call.outside : answer'[n] = None]_vars

\* Enrolment takes effect with the next handshake: a call returns, with the
\* key in its file, every name that has been authorised since the call began
\* and whose key file was complete when the roster was last written and has
\* not been touched since, unless a reading of the roster since that write
\* missed the name.  A reading misses names when the file is there and cannot
\* be opened: what it finds instead is kept under the file's own stamp, and
\* the people missed stay out until the next write, however soon the file
\* can be opened again.
EnrolledIsIn ==
    [][Returns /\ Vouched => \A n \in call.settled : answer'[n] = keyfile[n]]_vars

\* "A missing roster is an empty one; the pinned names still stand"
\* (_names_now): RevokedIsOut for a call that finds no roster file.  Fails:
\* a cache filled while the file existed, by a call that had started before
\* it did, carries the stamp None, and every later absence matches it.
MissingRosterIsEmpty ==
    [][Returns /\ call.stamp = None => \A n \in call.outside : answer'[n] = None]_vars

\* "A name whose .pub cannot be read is skipped and announced rather than
\* being fatal: one unreadable key must not take the tunnel down for
\* everybody else" (current's docstring).  Fails: PermissionError and
\* IsADirectoryError are not among the exceptions it catches.
UnreadableKeyIsSkipped ==
    [][call.at = "loading" /\ call'.at = "idle" => answer' # Raised]_vars
=============================================================================
