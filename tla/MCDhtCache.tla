----------------------------- MODULE MCDhtCache -----------------------------
(* DhtCache on a small instance: one key, and two tasks that invalidate it. *)
EXTENDS DhtCache
=============================================================================
