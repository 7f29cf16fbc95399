CONSTANTS
    Base = 2
    HeaderSize = 2
    MAX_PACKET_SIZE = 2
    Packets <- MCPackets
    MaxPackets = 4

SPECIFICATION Spec

CHECK_DEADLOCK FALSE

INVARIANTS
    TypeOK
    BytesConserved
    NothingHeldBack

PROPERTIES
    ImplementsFrameStream
