CONSTANTS
    s1 = s1
    s2 = s2
    Connect = connect
    NoOne = noone
    Sessions <- TwoSessions
    CliSessions <- OneSession
    NAddr = 2
    AuthMethods <- KeysAndPasswords
    BannerLimit = 2
SPECIFICATION Spec
INVARIANTS
    TypeOK
    WaitersAreParked
    DecisionSlotFree
    
    
    

    
    
CHECK_DEADLOCK FALSE
