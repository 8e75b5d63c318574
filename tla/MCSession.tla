----------------------------- MODULE MCSession -----------------------------
(* A client that may reconnect, and two messages on each of its sockets.    *)
EXTENDS Session
=============================================================================
