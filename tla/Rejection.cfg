CONSTANTS
    s1 = s1
    s2 = s2
    Connect = connect
    NoOne = noone
    Sessions <- OneSession
    CliSessions <- OneSession
    NAddr = 1
    AuthMethods <- Keys
    BannerLimit = 0
SPECIFICATION FairSpec
PROPERTY
    RejectionAborts
CHECK_DEADLOCK FALSE
