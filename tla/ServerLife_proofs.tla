-------------------------- MODULE ServerLife_proofs --------------------------
(***************************************************************************)
(* Proofs about ServerLife: for any number of relays and of key_manager    *)
(* runs, whichever of them are encrypted, whichever relays manage the SSH  *)
(* service, and whatever units the host has.                               *)
(***************************************************************************)
EXTENDS ServerLife, TLAPS

-----------------------------------------------------------------------------
(* The invariant                                                           *)

\* A relay that manages the service found it off, and has not ended.
ManagersAreIn ==
    \A r \in Relays : managed[r] =>
        /\ initial_state[r] = "off" /\ r \in Managing
        /\ pc[r] \in {"entered", "bound", "serving", "stopping"}

\* Until something disturbs it, the service is as it was, or a relay that
\* will stop it has started it; every relay that found it off is right about
\* how it was before the first.
ServiceAccounted ==
    StateIsTold /\ ~disturbed =>
        /\ \/ active = original
           \/ /\ active = original \cup {"sshd"}
              /\ \E r \in Relays : managed[r]
        /\ \A r \in Relays : initial_state[r] = "off" =>
              "sshd" \in installed /\ "sshd" \notin original

\* What the files hold while a run that nobody overlaps is under way.
SaveInOrder ==
    ~overlapped /\ last # Nobody =>
        /\ \A o \in Savers : o # last => save[o] \notin Underway
        /\ save[last] = "pub opened" => pub = "empty"
        /\ save[last] = "pub written" => pub = last
        /\ save[last] = "key opened" => pub = last /\ key = "empty"
        /\ save[last] = "done" => pub = last /\ key = last

\* name.pub is complete before name.key is opened.
PublishedFirst ==
    /\ key \in Savers => key \in published
    /\ \A s \in Savers : save[s] \in {"pub written", "key opened", "done"} => s \in published

Inv ==
    /\ TypeOK
    /\ ManagersAreIn
    /\ ServiceAccounted
    /\ SaveInOrder
    /\ PublishedFirst

-----------------------------------------------------------------------------
(* save_identity                                                           *)

StoreInv == KeyStoreTypeOK /\ SaveInOrder /\ PublishedFirst

\* What a run's file operations preserve.
LEMMA SaveStep ==
    ASSUME StoreInv, NEW s \in Savers, save_identity(s)
    PROVE  StoreInv'
<1> USE KeyStoreAssumption
    DEF StoreInv, KeyStoreTypeOK, Contents, Lacking, Steps, Underway, Advance
<1>1. CASE OpenPub(s)
    <2>1. KeyStoreTypeOK'
        BY <1>1 DEF OpenPub, Truncated
    <2>2. SaveInOrder'
        BY <1>1 DEF OpenPub, Truncated, SaveInOrder
    <2>3. PublishedFirst'
        BY <1>1 DEF OpenPub, PublishedFirst
    <2> QED
        BY <2>1, <2>2, <2>3
<1>2. CASE WritePub(s)
    <2>1. KeyStoreTypeOK'
        BY <1>2 DEF WritePub, OverPub
    <2>2. SaveInOrder'
        BY <1>2 DEF WritePub, OverPub, SaveInOrder
    <2>3. PublishedFirst'
        BY <1>2 DEF WritePub, PublishedFirst
    <2> QED
        BY <2>1, <2>2, <2>3
<1>3. CASE OpenKey(s)
    <2>1. KeyStoreTypeOK'
        BY <1>3 DEF OpenKey, Truncated
    <2>2. SaveInOrder'
        BY <1>3 DEF OpenKey, Truncated, SaveInOrder
    <2>3. PublishedFirst'
        BY <1>3 DEF OpenKey, Truncated, PublishedFirst
    <2> QED
        BY <2>1, <2>2, <2>3
<1>4. CASE WriteKey(s)
    <2>1. KeyStoreTypeOK'
        BY <1>4 DEF WriteKey, OverKey
    <2>2. SaveInOrder'
        BY <1>4 DEF WriteKey, OverKey, SaveInOrder
    <2>3. PublishedFirst'
        BY <1>4 DEF WriteKey, OverKey, PublishedFirst
    <2> QED
        BY <2>1, <2>2, <2>3
<1>5. CASE Crash(s)
    <2>1. KeyStoreTypeOK'
        BY <1>5 DEF Crash
    <2>2. SaveInOrder'
        BY <1>5 DEF Crash, SaveInOrder
    <2>3. PublishedFirst'
        BY <1>5 DEF Crash, PublishedFirst
    <2> QED
        BY <2>1, <2>2, <2>3
<1> QED
    BY <1>1, <1>2, <1>3, <1>4, <1>5 DEF save_identity

LEMMA StoreStays ==
    ASSUME StoreInv, UNCHANGED keyStoreVars
    PROVE  StoreInv'
BY DEF StoreInv, KeyStoreTypeOK, SaveInOrder, PublishedFirst, keyStoreVars

-----------------------------------------------------------------------------
(* main()                                                                  *)

HostTypeOK ==
    /\ SSHServiceTypeOK
    /\ pc \in [Relays -> Up \cup {"off"}]
    /\ pending \in [Relays -> BOOLEAN]
    /\ original \subseteq installed /\ disturbed \in BOOLEAN
    /\ \A r \in Relays : pending[r] => pc[r] \in Up

HostInv == HostTypeOK /\ ManagersAreIn /\ ServiceAccounted

\* A relay that has started the service, or finds it as it was, ends: the
\* service is as it was before the first.
LEMMA ExitRestores ==
    ASSUME HostInv, NEW r \in Relays, Exit(r), StateIsTold, ~disturbed'
    PROVE  /\ active' = original \/ (active' = active /\ ~managed[r])
           /\ ~disturbed
<1>1. RestoreService(r) /\ ~disturbed
    BY DEF Exit, HostInv, HostTypeOK
<1>2. CASE managed[r]
    <2>1. Stops(r) /\ active' = active \ Acted
        BY <1>1, <1>2 DEF HostInv, ManagersAreIn, Stops, RestoreService
    <2>2. "sshd" \in installed /\ "sshd" \notin original
        BY <1>1, <1>2 DEF HostInv, ManagersAreIn, ServiceAccounted
    <2>3. Acted = {"sshd"}
        BY <2>2 DEF Acted
    <2>4. active = original \/ active = original \cup {"sshd"}
        BY <1>1 DEF HostInv, ServiceAccounted
    <2> QED
        BY <1>1, <2>1, <2>2, <2>3, <2>4
<1>3. CASE ~managed[r]
    BY <1>1, <1>3 DEF RestoreService, Stops
<1> QED
    BY <1>2, <1>3

\* What the end of a process preserves, however it comes.
LEMMA EndStep ==
    ASSUME HostInv, NEW r \in Relays, Ends(r), active' \subseteq active,
           disturbed' \in BOOLEAN,
           ~disturbed' /\ StateIsTold =>
               /\ active' = original \/ (active' = active /\ ~managed[r])
               /\ ~disturbed
    PROVE  HostInv'
<1> USE DEF HostInv, Ends, Goto
<1>1. HostTypeOK'
    BY DEF HostTypeOK, SSHServiceTypeOK
<1>2. ManagersAreIn'
    BY DEF ManagersAreIn, HostTypeOK, SSHServiceTypeOK
<1>3. ServiceAccounted'
    <2> SUFFICES ASSUME StateIsTold, ~disturbed'
                 PROVE  /\ \/ active' = original'
                           \/ active' = original' \cup {"sshd"} /\ \E q \in Relays : managed'[q]
                        /\ \A q \in Relays : initial_state'[q] = "off" =>
                              "sshd" \in installed' /\ "sshd" \notin original'
        BY DEF ServiceAccounted, StateIsTold
    <2>1. \A q \in Relays : q # r => managed'[q] = managed[q]
        BY DEF HostTypeOK, SSHServiceTypeOK
    <2>2. \A q \in Relays : initial_state'[q] = "off" => initial_state[q] = "off"
        BY DEF HostTypeOK, SSHServiceTypeOK
    <2> QED
        BY <2>1, <2>2 DEF ServiceAccounted
<1> QED
    BY <1>1, <1>2, <1>3

LEMMA ExitStep ==
    ASSUME HostInv, NEW r \in Relays, Exit(r)
    PROVE  HostInv'
<1>1. Ends(r) /\ active' \subseteq active
    BY DEF Exit, RestoreService
<1>2. disturbed' \in BOOLEAN
    BY DEF Exit, HostInv, HostTypeOK
<1> QED
    BY <1>1, <1>2, ExitRestores, EndStep

LEMMA RelayStep ==
    ASSUME HostInv, NEW r \in Relays,
           Load(r) \/ Proceeds(r) \/ Signal(r) \/ SecondSignal(r) \/ Kill(r)
    PROVE  HostInv'
<1>1. CASE Load(r)
    BY <1>1 DEF Load, Goto, sshVars, HostInv, HostTypeOK, SSHServiceTypeOK, ManagersAreIn,
       ServiceAccounted, StateIsTold, Up
<1>2. CASE Check(r)
    <2> USE <1>2 DEF Check, CheckState, Goto, HostInv
    <2>1. _get_state \in {"on", "off", "unknown"}
        BY DEF _get_state
    <2>2. HostTypeOK'
        BY <2>1 DEF HostTypeOK, SSHServiceTypeOK, Up
    <2>3. ManagersAreIn'
        BY DEF ManagersAreIn, HostTypeOK, SSHServiceTypeOK
    <2>4. ServiceAccounted'
        <3>1. StateIsTold /\ _get_state = "off" =>
                  "sshd" \in installed /\ "sshd" \notin active
            BY SSHServiceAssumption DEF _get_state, ExitCode, StateIsTold
        <3>2. ~managed[r]
            BY DEF ManagersAreIn
        <3> QED
            BY <3>1, <3>2 DEF ServiceAccounted, StateIsTold, HostTypeOK, SSHServiceTypeOK
    <2> QED
        BY <2>2, <2>3, <2>4
<1>3. CASE Enter(r)
    <2> USE <1>3 DEF Enter, Goto, HostInv
    <2>1. HostTypeOK'
        BY DEF HostTypeOK, SSHServiceTypeOK, StartService, LeaveService, sshVars, Acted,
           Units, Up
    <2>2. ManagersAreIn'
        BY DEF ManagersAreIn, HostTypeOK, SSHServiceTypeOK, StartService, Starts,
           LeaveService, sshVars
    <2>3. ServiceAccounted'
        <3>1. CASE StartService(r)
            <4>1. active' = active \cup Acted /\ managed'[r] /\ initial_state[r] = "off"
                BY <3>1 DEF StartService, Starts, HostTypeOK, SSHServiceTypeOK
            <4>2. UNCHANGED <<installed, initial_state, original>>
                BY <3>1 DEF StartService
            <4>3. ~disturbed' => ~disturbed
                BY DEF HostTypeOK
            <4> QED
                BY <4>1, <4>2, <4>3 DEF ServiceAccounted, StateIsTold, Acted
        <3>2. CASE LeaveService
            BY <3>2 DEF LeaveService, sshVars, ServiceAccounted, StateIsTold
        <3> QED
            BY <3>1, <3>2
    <2> QED
        BY <2>1, <2>2, <2>3
<1>4. CASE Bind(r)
    BY <1>4 DEF Bind, Goto, sshVars, HostInv, HostTypeOK, SSHServiceTypeOK, ManagersAreIn,
       ServiceAccounted, StateIsTold, Up
<1>5. CASE Serve(r)
    BY <1>5 DEF Serve, Goto, sshVars, HostInv, HostTypeOK, SSHServiceTypeOK, ManagersAreIn,
       ServiceAccounted, StateIsTold, Up
<1>6. CASE HandleSignal(r)
    BY <1>6 DEF HandleSignal, Goto, sshVars, HostInv, HostTypeOK, SSHServiceTypeOK,
       ManagersAreIn, ServiceAccounted, StateIsTold, Up
<1>7. CASE Signal(r)
    BY <1>7 DEF Signal, sshVars, HostInv, HostTypeOK, SSHServiceTypeOK, ManagersAreIn,
       ServiceAccounted, StateIsTold, Up
<1>8. CASE Exit(r)
    BY <1>8, ExitStep
<1>9. CASE SecondSignal(r) \/ Kill(r)
    <2>1. Ends(r) /\ active' \subseteq active /\ disturbed' = TRUE
        BY <1>9 DEF SecondSignal, Kill, RestoreService
    <2> QED
        BY <2>1, EndStep
<1> QED
    BY <1>1, <1>2, <1>3, <1>4, <1>5, <1>6, <1>7, <1>8, <1>9
    DEF Proceeds, BindFails, Stopped

LEMMA HostStays ==
    ASSUME HostInv, UNCHANGED <<sshVars, mainVars, original, disturbed>>
    PROVE  HostInv'
BY DEF HostInv, HostTypeOK, SSHServiceTypeOK, ManagersAreIn, ServiceAccounted, StateIsTold,
   sshVars, mainVars

-----------------------------------------------------------------------------
(* Together                                                                *)

LEMMA Parts == Inv <=> StoreInv /\ HostInv
BY DEF Inv, TypeOK, StoreInv, HostInv, HostTypeOK

LEMMA InitInv == Init => Inv
<1> SUFFICES ASSUME Init
             PROVE  StoreInv /\ HostInv
    BY Parts
<1>1. StoreInv
    BY KeyStoreAssumption
    DEF Init, KeyStoreInit, StoreInv, KeyStoreTypeOK, Contents, Lacking, Steps,
        SaveInOrder, PublishedFirst
<1>2. HostInv
    BY DEF Init, SSHServiceInit, HostInv, HostTypeOK, SSHServiceTypeOK, ManagersAreIn,
       ServiceAccounted, Up
<1> QED
    BY <1>1, <1>2

LEMMA InvStep == Inv /\ [Next]_vars => Inv'
<1> SUFFICES ASSUME StoreInv, HostInv, [Next]_vars
             PROVE  StoreInv' /\ HostInv'
    BY Parts DEF Inv, TypeOK, StoreInv, HostInv, HostTypeOK
<1>1. ASSUME NEW s \in Savers, save_identity(s),
             UNCHANGED <<sshVars, mainVars, original, disturbed>>
      PROVE  StoreInv' /\ HostInv'
    BY <1>1, SaveStep, HostStays
<1>2. ASSUME NEW r \in Relays,
             Load(r) \/ Proceeds(r) \/ Signal(r) \/ SecondSignal(r) \/ Kill(r)
      PROVE  StoreInv' /\ HostInv'
    <2>1. UNCHANGED keyStoreVars
        BY <1>2 DEF Load, Proceeds, Check, Enter, Bind, BindFails, Serve, HandleSignal,
           Stopped, Exit, Ends, Signal, SecondSignal, Kill
    <2> QED
        BY <1>2, <2>1, StoreStays, RelayStep
<1>3. CASE UNCHANGED vars
    BY <1>3, StoreStays, HostStays DEF vars
<1> QED
    BY <1>1, <1>2, <1>3 DEF Next

LEMMA Invariance == Spec => []Inv
BY InitInv, InvStep, PTL DEF Spec

\* Every variable keeps its type, and a signal waits only for a relay that is up.
THEOREM TypeCorrect == Spec => []TypeOK
BY Invariance, PTL DEF Inv

\* SSHServiceManager: however the checks, starts and stops of any number of
\* relays interleave, when all have ended the SSH service is as it was.
THEOREM ServiceRestored == Spec => []SSHRestored
<1>1. Inv => SSHRestored
    BY DEF Inv, ManagersAreIn, ServiceAccounted, SSHRestored
<1> QED
    BY <1>1, Invariance, PTL

\* save_identity: a run that no other overlapped leaves its own public key
\* beside its own private key, whatever crashed runs left behind.
THEOREM SavesAreWhole == Spec => []CompletedSaveIsWhole
<1>1. Inv => CompletedSaveIsWhole
    BY DEF Inv, SaveInOrder, CompletedSaveIsWhole
<1> QED
    BY <1>1, Invariance, PTL

\* load_identity only ever returns an identity whose name.pub has been written.
THEOREM LoadsArePublished == Spec => []LoadedIsPublished
<1>1. Inv => LoadedIsPublished
    BY DEF Inv, PublishedFirst, LoadedIsPublished, Loadable
<1> QED
    BY <1>1, Invariance, PTL
=============================================================================
