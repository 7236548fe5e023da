CONSTANTS
    MaxReq = 3
    Par = 1
    OutCap = 1
    GuestsMayPanic = TRUE
SPECIFICATION FairSpec
PROPERTIES
    EveryRequestAnswered
