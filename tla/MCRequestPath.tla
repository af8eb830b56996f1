--------------------------- MODULE MCRequestPath ---------------------------
(***************************************************************************)
(* The two parts that an inbound request passes, the gate and then the     *)
(* dispatcher, on small instances.  They share no state, InboundPipeline   *)
(* has what passes between them, so they are explored side by side: focus  *)
(* names the one that moves.                                               *)
(***************************************************************************)
EXTENDS AuthGate, ServiceDispatcher, TLC

CONSTANTS w1, w2, p1, s1, h1, h2, b1, b2

VARIABLE focus

\* The newer list drops p1; the third document conflicts with the second one
\* and has no entry for the service.
MCWhitelist == (h1 :> [version |-> 1, members |-> {p1}]) @@ (h2 :> [version |-> 2, members |-> {}])

Doc(v, e, h) == [version |-> v, expires_at |-> e, services |-> s1 :> h]
MCIndex == {Doc(1, 0, h1), Doc(2, 1, h2), Doc(2, 1, Nothing)}

\* The workers are alike, and so are the backends: the one that is explored
\* moves, the other is in its initial state, so that one swap does for both.
BothSwapped ==
    {f \in Permutations(Worker \cup Service) : {f[w1], f[w2]} = Worker /\ (f[w1] = w1 <=> f[b1] = b1)}

MCInit ==
    /\ focus \in {"gate", "dispatcher"}
    /\ GateInit /\ Init
    /\ focus = "dispatcher" => state = "disabled"

\* Only a node that shuts down may come to a halt.
MCNext ==
    \/ focus = "gate" /\ GateNext /\ UNCHANGED <<focus, vars>>
    \/ /\ focus = "dispatcher" /\ (Next \/ (shutdown /\ UNCHANGED vars))
       /\ UNCHANGED <<focus, gateVars>>

MCSpec == MCInit /\ [][MCNext]_<<focus, vars, gateVars>>
=============================================================================
