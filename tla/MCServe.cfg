CONSTANTS
    MaxConns <- MCMaxConns
    Kinds <- MCKinds
    OneshotValues <- MCOneshotValues
SPECIFICATION Spec
INVARIANT PsOutlivesServeOnceSession
INVARIANT ErrorsReportedOnce
CHECK_DEADLOCK FALSE
