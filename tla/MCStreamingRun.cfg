CONSTANTS
    MaxReq = 7
    Par = 2
    OutCap = 2
    GuestsMayPanic = TRUE
SPECIFICATION FairSpec
INVARIANTS
    OrderedResponses
    InFlightBound
    ReadAheadBound
    NoSilentTruncation
PROPERTIES
    Implements
    Released
    AnsweredUnlessPanic
