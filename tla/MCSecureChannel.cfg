SPECIFICATION Spec
CONSTANTS
    Payloads = {d1, d2}
    Empty = empty
    Window = 2
    CounterLimit = 3
    Budget <- MCBudget
INVARIANTS
    TypeOK
    NonceUsedOnce
    RxBehindSender
PROPERTIES
    GapIsFinal
    ImplementsOrderedChannel
\* Counters exhausted and nothing in flight: the channel has stopped.
CHECK_DEADLOCK FALSE
