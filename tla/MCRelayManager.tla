--------------------------- MODULE MCRelayManager ---------------------------
(* An instance of RelayManager for TLC. *)
EXTENDS RelayManager

CONSTANTS r1, r2, r3

MCConfigured == <<r1>>

(***************************************************************************)
(* Bounds.  The second relay is discovered only where the swarm has not    *)
(* yet told of a bootstrap query, and none succeeds after that: what these *)
(* queries set off is checked with one relay.  The third one, which is in  *)
(* excess of the target, is discovered while the others are in use, and    *)
(* there is no reload after that.  No action that fairness forces is       *)
(* restricted.                                                             *)
(***************************************************************************)
OneTopic ==
    /\ nodes' \in {<<r1>>, <<r1, r2>>, <<r1, r2, r3>>}
    /\ Len(nodes') > 1 =>
          /\ ~swarm'.bootstrapped /\ ~registry'.bootstrapped
          /\ \A i \in DOMAIN queue' : queue'[i].kind # "bootstrap"
    /\ Len(nodes') > 2 =>
          /\ spent'.reloads = 0
          /\ nodes' # nodes => manager.active = {r1, r2}

MCSpec == Init /\ [][Next /\ OneTopic]_vars /\ Fairness
=============================================================================
