----------------------------- MODULE MCReadDebt -----------------------------
(* Model-checking instance of ReadDebt: two byte values so that a reorder *)
(* is visible, messages of up to three bytes read through buffers of one   *)
(* or two bytes, so that a debt is split again before it is drained.       *)
EXTENDS ReadDebt

MCBytes == {0, 1}
MCMaxMsgs == 2
MCMaxMsgLen == 3
MCMaxBuf == 2
=============================================================================
