------------------------------ MODULE MCServe ------------------------------
(* Model-checking instance of Serve: up to three left connections, so that *)
(* a stream can hold an error between two peers and two tasks can be       *)
(* active when the stream ends; both variants on each side; both oneshot values.  *)
EXTENDS Serve

MCMaxConns == 3
MCKinds == {"once", "multi"}
MCOneshotValues == BOOLEAN
=============================================================================
