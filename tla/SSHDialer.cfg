CONSTANTS
    d1 = d1
    d2 = d2
    s1 = s1
    NoOne = noone
    Dialers <- TwoDialers
    Sessions <- NoSession
    Calls <- FirstTwice
    MaxConnectors <- OnePerCall
SPECIFICATION FairSpec
INVARIANTS
    RegisteredIsLive
    AwaitedIsStarted
    NilClientExplained
PROPERTIES
    
    LockIsGranted
CHECK_DEADLOCK FALSE
