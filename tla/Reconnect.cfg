CONSTANTS
    d1 = d1
    d2 = d2
    s1 = s1
    NoOne = noone
    Dialers <- OneDialer
    Sessions <- OneSession
    Calls <- Twice
    MaxConnectors <- OnePerCall
SPECIFICATION FairSpec
PROPERTY
    ReconnectProceeds
CHECK_DEADLOCK FALSE
