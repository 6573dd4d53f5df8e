CONSTANTS
    Bytes <- MCBytes
    MaxMsgs <- MCMaxMsgs
    MaxMsgLen <- MCMaxMsgLen
    MaxBuf <- MCMaxBuf
SPECIFICATION Spec
PROPERTY ImplementsReadDebtAbs
\* A reader whose stream is drained stops: no read has anything to return.
CHECK_DEADLOCK FALSE
