------------------------- MODULE MCServiceRegistry -------------------------
(* Small instances of ServiceRegistry for TLC. *)
EXTENDS ServiceRegistry
=============================================================================
