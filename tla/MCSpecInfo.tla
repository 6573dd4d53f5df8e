----------------------------- MODULE MCSpecInfo -----------------------------
(* Specifiers of up to three layers (ws-l:ws-l:tcp-l is three), with the  *)
(* two types the lints tell apart.                                        *)
EXTENDS SpecInfo

MCMaxDepth == 3

MCTypes == {"Stdio", "Other"}

=============================================================================
