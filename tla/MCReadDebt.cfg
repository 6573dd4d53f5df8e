CONSTANTS
    Bytes <- MCBytes
    MaxMsgs <- MCMaxMsgs
    MaxMsgLen <- MCMaxMsgLen
    MaxBuf <- MCMaxBuf
SPECIFICATION Spec
INVARIANT TypeOK
INVARIANT DebtConservation
CHECK_DEADLOCK FALSE
