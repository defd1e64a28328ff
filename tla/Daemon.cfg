CONSTANTS
    p1 = p1
    p2 = p2
    c1 = c1
    c2 = c2
    c3 = c3
    NoFile = nofile
    Empty = empty
    Pids <- TwoPids
    Commands <- ThreeCommands
    CommandLists <- AnyList
    AtOnce = 2
    Patience <- Either
    MaxStops = 1
SPECIFICATION FairSpec
INVARIANTS
    TypeOK
    OneServes
    PidNamesServing
PROPERTY StopIsHeard
CHECK_DEADLOCK FALSE
