CONSTANTS
    c1 = c1
    c2 = c2
    c3 = c3
    c4 = c4
    d1 = d1
    Commands <- FourCommands
    Conns <- OneConn
    Width = 2
    Destinations <- Ends
    CommandLines <- Lines
    DialerFlags <- Flags
    AtOnce = 1
SPECIFICATION HSpec
SYMMETRY CommandSymmetry
INVARIANTS
    ListIsTable
    DialAnswersFirstMatch
CHECK_DEADLOCK FALSE
