------------------------- MODULE MCInvocationStore -------------------------
(* Small instances of InvocationStore for TLC.                              *)
EXTENDS InvocationStore, TLC
=============================================================================
