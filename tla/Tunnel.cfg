CONSTANTS
    Kinds <- BothKinds
    Chunks = 3
    Window = 1
SPECIFICATION FairSpec
INVARIANTS
    CountsTruthful
    
    DescriptorsReleased
PROPERTY TunnelCloses
CHECK_DEADLOCK FALSE
