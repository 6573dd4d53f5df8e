CONSTANTS
    MaxConns <- MCMaxConns
    Kinds <- MCKinds
    OneshotValues <- MCOneshotValues
SPECIFICATION Spec
INVARIANT PsOutlivesSessions
CHECK_DEADLOCK FALSE
