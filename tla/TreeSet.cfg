CONSTANTS
    Nodes <- Eight
    Key <- KeyOf
    Kinds <- BothKinds
SPECIFICATION Spec
INVARIANTS
    Balanced
    WalksInOrder
PROPERTIES
    ImplementsOrderedSet
CHECK_DEADLOCK FALSE
