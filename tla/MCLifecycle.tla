---------------------------- MODULE MCLifecycle ----------------------------
(***************************************************************************)
(* Model-checking instance of Lifecycle: three connections, so that some   *)
(* may stream while others come and go during a shutdown.                  *)
(***************************************************************************)
EXTENDS Lifecycle

CONSTANTS c1, c2, c3

MCConns == {c1, c2, c3}
=============================================================================
