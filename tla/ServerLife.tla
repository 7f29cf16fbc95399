----------------------------- MODULE ServerLife -----------------------------
(***************************************************************************)
(* The life of relay processes on one host, each one run of server.py's    *)
(* main(): it loads its identity from the key store, starts the SSH        *)
(* service if it is off, serves, and on a signal ends its connections and  *)
(* restores the service.  Runs of key_manager, crashes and failing         *)
(* commands interfere; nobody else starts or stops the service.  What a    *)
(* serving relay does with its connections is VPNServer's subject.         *)
(***************************************************************************)
EXTENDS KeyStore, SSHService

VARIABLES
    pc,             \* where each relay's main() is
    pending,        \* a signal it has not handled yet
    original,       \* units that ran before the first relay began
    disturbed       \* something happened that main() cannot make up for

mainVars == <<pc, pending>>
vars == <<keyStoreVars, sshVars, mainVars, original, disturbed>>

Up == {"loaded", "checked", "entered", "bound", "serving", "stopping"}

Init ==
    /\ KeyStoreInit /\ SSHServiceInit
    /\ pc = [r \in Relays |-> "off"]
    /\ pending = [r \in Relays |-> FALSE]
    /\ original = active /\ disturbed = FALSE

Goto(r, label) == pc' = [pc EXCEPT ![r] = label]

-----------------------------------------------------------------------------
(* main()                                                                  *)

\* The identity, then the roster, which must not be empty; then the signal
\* handlers are installed and the account manager's client is set up.  If the
\* key file is missing, does not parse or has another password, or nobody is
\* authorised, the process ends as it began.
Load(r) ==
    /\ pc[r] = "off"
    /\ Goto(r, "loaded")
    /\ \E passwords \in SUBSET Encrypted : Loadable(passwords)
    /\ UNCHANGED <<keyStoreVars, sshVars, pending, original, disturbed>>

\* SSHServiceManager.__enter__
Check(r) ==
    /\ pc[r] = "loaded" /\ Goto(r, "checked")
    /\ CheckState(r)
    /\ UNCHANGED <<keyStoreVars, pending, original, disturbed>>

Enter(r) ==
    /\ pc[r] = "checked" /\ Goto(r, "entered")
    /\ \/ StartService(r) /\ UNCHANGED disturbed
       \/ ~(Starts(r) /\ Acted # {}) /\ LeaveService /\ UNCHANGED disturbed
       \/ Starts(r) /\ LeaveService /\ disturbed' = TRUE
    /\ UNCHANGED <<keyStoreVars, pending, original>>

\* start(): the socket listens, and the loop turns once before server.server
\* is assigned.
Bind(r) ==
    /\ pc[r] = "entered" /\ Goto(r, "bound")
    /\ UNCHANGED <<keyStoreVars, sshVars, pending, original, disturbed>>

\* The process and its SSHServiceManager are gone.
Ends(r) ==
    /\ Goto(r, "off")
    /\ pending' = [pending EXCEPT ![r] = FALSE]
    /\ initial_state' = [initial_state EXCEPT ![r] = "unknown"]
    /\ managed' = [managed EXCEPT ![r] = FALSE]
    /\ UNCHANGED <<keyStoreVars, installed, original>>

\* SSHServiceManager.__exit__, then the account manager's client is closed.
Exit(r) ==
    /\ Ends(r)
    /\ \/ RestoreService(r) /\ UNCHANGED disturbed
       \/ Stops(r) /\ UNCHANGED active /\ disturbed' = TRUE

BindFails(r) == pc[r] = "entered" /\ Exit(r)

Serve(r) ==
    /\ pc[r] = "bound" /\ Goto(r, "serving")
    /\ UNCHANGED <<keyStoreVars, sshVars, pending, original, disturbed>>

\* SIGINT or SIGTERM.  One that comes earlier waits too: the loop turns, and
\* the handler runs, only when main first awaits.
Signal(r) ==
    /\ pc[r] \in {"bound", "serving"} /\ pending' = [pending EXCEPT ![r] = TRUE]
    /\ UNCHANGED <<keyStoreVars, sshVars, pc, original, disturbed>>

\* Mutant: only a server that is assigned already is stopped.
StopsLoopIfServing(r) == pc[r] = "serving"

\* signal_handler: closes server.server if there is one, and stops the loop,
\* which makes asyncio.run cancel main and every handler.
StopsLoop(r) == TRUE

HandleSignal(r) ==
    /\ pc[r] \in {"bound", "serving"} /\ pending[r]
    /\ pending' = [pending EXCEPT ![r] = FALSE]
    /\ IF StopsLoop(r) THEN Goto(r, "stopping") ELSE UNCHANGED pc
    /\ UNCHANGED <<keyStoreVars, sshVars, original, disturbed>>

\* serve_forever leaves once the connections have gone.
Stopped(r) == pc[r] = "stopping" /\ Exit(r)

\* A second signal stops the loop that waits for the cancelled tasks; whether
\* main's with statement is still left depends on when its frame is collected.
SecondSignal(r) ==
    /\ pc[r] = "stopping" /\ Ends(r)
    /\ RestoreService(r) \/ UNCHANGED active
    /\ disturbed' = TRUE

Kill(r) ==
    /\ pc[r] \in Up /\ Ends(r)
    /\ disturbed' = TRUE /\ UNCHANGED active

Proceeds(r) ==
    Check(r) \/ Enter(r) \/ Bind(r) \/ BindFails(r) \/ Serve(r) \/ HandleSignal(r) \/ Stopped(r)

Next ==
    \/ \E s \in Savers : save_identity(s) /\ UNCHANGED <<sshVars, mainVars, original, disturbed>>
    \/ \E r \in Relays :
        \/ Load(r) \/ Proceeds(r) \/ Signal(r) \/ SecondSignal(r) \/ Kill(r)

\* A relay that has something to do does it: its commands return, and its
\* cancelled connections close.
Spec == Init /\ [][Next]_vars /\ \A r \in Relays : WF_vars(Proceeds(r))

-----------------------------------------------------------------------------
(* Properties                                                              *)

\* The types of the variables.
TypeOK ==
    /\ KeyStoreTypeOK /\ SSHServiceTypeOK
    /\ pc \in [Relays -> Up \cup {"off"}]
    /\ pending \in [Relays -> BOOLEAN]
    /\ original \subseteq installed /\ disturbed \in BOOLEAN
    /\ \A r \in Relays : pending[r] => pc[r] \in Up

\* systemctl tells whether the service runs: it knows the unit that is asked
\* about, or says that it does not.
StateIsTold == "sshd" \in installed \/ MissingCode # 3

\* When every relay has ended, in whatever order they came and went and
\* however their checks, starts and stops interleaved, the SSH service is as
\* it was before the first.
SSHRestored ==
    StateIsTold /\ ~disturbed /\ (\A r \in Relays : pc[r] = "off") => active = original

\* A run of save_identity that no other run overlapped leaves a pair of files
\* that belong together, whatever crashed runs left behind.
CompletedSaveIsWhole ==
    last # Nobody /\ save[last] = "done" /\ ~overlapped =>
        pub = last /\ key = last

\* A relay only ever loads an identity whose public key has been in place,
\* so that clients can have been given it.
LoadedIsPublished == (\E passwords \in SUBSET Encrypted : Loadable(passwords)) => key \in published

\* A signal ends the relay, whenever it arrives.
SignalEndsRelay == \A r \in Relays : pending[r] ~> pc[r] = "off"
=============================================================================
