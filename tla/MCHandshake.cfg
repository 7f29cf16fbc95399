SPECIFICATION Spec
CONSTANTS
    alice1 = alice1
    carol1 = carol1
    ClientSessions = {alice1, carol1}
    ServerSessions = {s1, s2}
    People = {"alice", "bob", "carol"}
    Roster = {"alice", "bob"}
    Owner <- MCOwner
    ImageMode = "loaded"
    ImageKey <- MCImageKey
    MaxSkew = 1
    MaxTime = 1
    Aheads <- MCAheads
    Junk = junk
    None = none
SYMMETRY ServerSymmetry
INVARIANTS
    TypeOK
    ServerAgreement
    SessionKeysUnique
    ClientAgreement
    SessionsAreFresh
\* Every session has ended and the clock has reached its bound.
CHECK_DEADLOCK FALSE
