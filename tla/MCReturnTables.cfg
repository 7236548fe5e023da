CONSTANTS
    Keys <- MCKeys
    Values <- MCValues
    Rows <- MCRows
    MaxTables = 2
    MaxPushes = 2
SPECIFICATION Spec
INVARIANTS
    RowsStayTogether
    WellTypedIsShown
