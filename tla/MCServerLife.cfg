CONSTANTS
    Savers = {s1, s2}
    Encrypted = {s1}
    Nobody = nobody
    Relays = {r1, r2}
    Managing = {r1, r2}
    MissingCode = 4

SPECIFICATION Spec

CHECK_DEADLOCK FALSE

INVARIANTS
    TypeOK
    SSHRestored
    CompletedSaveIsWhole
    LoadedIsPublished

PROPERTIES
    SignalEndsRelay
