CONSTANTS
    MaxConns <- MCMaxConns
    Kinds <- MCKinds
    OneshotValues <- MCOneshotValues
SPECIFICATION Spec
INVARIANT OneshotTakesFirstSuccess
CHECK_DEADLOCK FALSE
