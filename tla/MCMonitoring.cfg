\* One client that registers twice, over a network that loses and delays.
CONSTANTS
    c1 = c1
    f1 = f1
    noSuchFacility = noSuchFacility
    Clients = {c1}
    Facilities = {f1}
    Names = {f1, noSuchFacility}
    Intervals = {1, 2}
    CheckHistory = TRUE
    Lossy = TRUE
    TimeoutSec = 2
    MaxRetries = 2
    IntRange = 1000000
    MaxCalls = 2
    MaxVersion = 2
    MaxTime = 6
SPECIFICATION Spec
CHECK_DEADLOCK FALSE
INVARIANTS
    TypeOK
    ListenBound
    RegisteredOnce
    NoChangeMissed
PROPERTIES
    UpdatesFindListener
