----------------------- MODULE MCConnectionLifecycle -----------------------
(* Small instances of ConnectionLifecycle for TLC: each configuration gives *)
(* the handles, the connections and the reconnect policy their values.      *)
EXTENDS ConnectionLifecycle
=============================================================================
