------------------------- MODULE MCCallbackStorage -------------------------
(* Small instances of CallbackStorage for TLC.                              *)
EXTENDS CallbackStorage, TLC
=============================================================================
