CONSTANT MaxChunks <- MCMaxChunks
SPECIFICATION Spec
INVARIANT JoinWaitsForBoth
INVARIANT NoTransferOutlivesSession
CHECK_DEADLOCK FALSE
