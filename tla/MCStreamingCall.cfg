CONSTANTS
    MaxReq = 1
    Par = 1
    OutCap = 1
    GuestsMayPanic = TRUE
    Cores = 1
    Others <- MCOthers
    Strangers <- MCStrangers
    CallOf <- MCCallOf
SPECIFICATION CallSpec
INVARIANTS
    OneSliceAfterClose
PROPERTIES
    PipelineHolds
    GuestsHold
    CallGone
