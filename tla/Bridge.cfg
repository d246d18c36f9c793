SPECIFICATION Spec
CONSTANTS
    Images = {0, 1, 2}
    MaxRequests = 3
    MaxFaults = 2
    MaxResets = 1
INVARIANTS
    TypeOK
    BusFreed
    ShadowTrue
    LatchesShifted
    DrivenOrError
    ErrorShown
PROPERTIES
    Follows
