----------------------------- MODULE MCSession -----------------------------
(* Model-checking instance of Session: two chunks per direction, enough for *)
(* a direction to be caught with a chunk buffered when the other ends.      *)
EXTENDS Session

MCMaxChunks == 2
=============================================================================
