SPECIFICATION Spec
CONSTANTS
    alice = alice
    bob = bob
    preA = preA
    appA = appA
    preB = preB
    Conns = {preA, appA}
    Clients = {alice}
    ClientOf <- OneClientOf
    Preflights = {preA}
    MaxConnections = 1
    MaxReplies = 1
    MaxEnds = 0
    MaxRequests = 1
INVARIANT
    PreflightCatchesRejection
CHECK_DEADLOCK FALSE
