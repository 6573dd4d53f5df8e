CONSTANTS
    MaxConns <- MCMaxConns
    Kinds <- MCKinds
    OneshotValues <- MCOneshotValues
SPECIFICATION Spec
INVARIANT LeftErrorsDoNotStopServer
CHECK_DEADLOCK FALSE
