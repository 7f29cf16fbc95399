SPECIFICATION Spec
CONSTANTS
    alice = alice
    bob = bob
    preA = preA
    appA = appA
    preB = preB
    Conns = {preA, appA, preB}
    Clients = {alice, bob}
    ClientOf <- MCClientOf
    Preflights = {preA, preB}
    MaxConnections = 1
    MaxReplies = 1
    MaxEnds = 1
    MaxRequests = 1
INVARIANTS
    TypeOK
    SlotsCounted
    NoRequestLost
    NoReplyLost
CHECK_DEADLOCK FALSE
