CONSTANTS
    s1 = s1
    s2 = s2
    Connect = connect
    NoOne = noone
    Sessions <- TwoSessions
    CliSessions <- OneSession
    NAddr = 1
    AuthMethods <- KeysAndPasswords
    BannerLimit = 0
SPECIFICATION FairSpec
PROPERTIES
    
    ResultIsReported
    PassphraseIsTaken
CHECK_DEADLOCK FALSE
