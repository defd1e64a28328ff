CONSTANTS
    r1 = r1
    r2 = r2
    r3 = r3
    d1 = d1
    Requests <- ThreeRequests
    Conns <- OneConn
    Calls <- AllCalls
    Valid <- Parsed
    Names <- AllNames
    FileAtStart <- Either
    AtOnce = 2
SPECIFICATION Spec
SYMMETRY RequestSymmetry
INVARIANTS
    KeyKept
    AddressesKept
    NobodyMeetsNil
PROPERTY DefaultIsSticky
CHECK_DEADLOCK FALSE
