---------------------------- MODULE MCLifecycle -----------------------------
(* TLC instances of Lifecycle.                                             *)
EXTENDS Lifecycle

Both == {"int", "hup"}
=============================================================================
