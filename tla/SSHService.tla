----------------------------- MODULE SSHService -----------------------------
(***************************************************************************)
(* The SSH service of a Linux host and the SSHServiceManager of each relay *)
(* process on it.  systemctl knows the service as the unit sshd, as the    *)
(* unit ssh, or not at all.                                                *)
(***************************************************************************)
EXTENDS Integers, FiniteSets

CONSTANTS
    Relays,         \* relay processes on this host
    Managing,       \* those that run as root and forward to this host
    MissingCode     \* what is-active exits with for an unknown unit (external)

ASSUME SSHServiceAssumption == Managing \subseteq Relays /\ MissingCode \in {3, 4}

VARIABLES
    installed,      \* units of the host
    active,         \* those that run
    initial_state,  \* SSHServiceManager.initial_state: "on", "off" or "unknown"
    managed         \* SSHServiceManager.managed

sshVars == <<installed, active, initial_state, managed>>

Units == {"sshd", "ssh"}

SSHServiceInit ==
    /\ installed \in SUBSET Units
    /\ active \in SUBSET installed
    /\ initial_state = [r \in Relays |-> "unknown"]
    /\ managed = [r \in Relays |-> FALSE]

SSHServiceTypeOK ==
    /\ installed \subseteq Units /\ active \subseteq installed
    /\ initial_state \in [Relays -> {"on", "off", "unknown"}]
    /\ managed \in [Relays -> BOOLEAN]

\* systemctl is-active sshd
ExitCode == IF "sshd" \in active THEN 0 ELSE IF "sshd" \in installed THEN 3 ELSE MissingCode

\* Mutant: what systemctl does not know counts as off.
StateOnUnlessInactive == IF ExitCode = 0 THEN "on" ELSE "off"
_get_state == CASE ExitCode = 0 -> "on" [] ExitCode = 3 -> "off" [] OTHER -> "unknown"

ActedOnBoth == Units   \* mutant: the second command's failure is not noticed

\* The unit a start or a stop acts upon: systemctl is run for sshd, then, if
\* that fails, for ssh.
Acted == IF "sshd" \in installed THEN {"sshd"} ELSE installed

\* __enter__ up to the state check.  (A relay that forwards to another host
\* does not look, and does nothing with what it would have seen.)
CheckState(r) ==
    /\ initial_state' = [initial_state EXCEPT ![r] = _get_state]
    /\ managed' = [managed EXCEPT ![r] = FALSE]
    /\ UNCHANGED <<installed, active>>

Starts(r) == initial_state[r] = "off" /\ r \in Managing

\* _set_state(True): managed if the service could be started.
StartService(r) ==
    /\ Starts(r) /\ Acted # {}
    /\ active' = active \cup Acted
    /\ managed' = [managed EXCEPT ![r] = TRUE]
    /\ UNCHANGED <<installed, initial_state>>

\* Nothing to do, nothing that may be done, or systemctl failed.
LeaveService == UNCHANGED sshVars

Stops(r) == managed[r] /\ initial_state[r] = "off" /\ r \in Managing

\* __exit__, when its commands succeed.
RestoreService(r) == active' = IF Stops(r) THEN active \ Acted ELSE active
=============================================================================
