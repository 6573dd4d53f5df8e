CONSTANTS
    MaxConns <- MCMaxConns
    Kinds <- MCKinds
    OneshotValues <- MCOneshotValues
SPECIFICATION Spec
INVARIANT NoPanic
CHECK_DEADLOCK FALSE
