---------------------------- MODULE MCSwarmActor ----------------------------
EXTENDS SwarmActor, TLC

Config(kad, transport, required, keys, sign) ==
    [kad |-> kad, transport |-> transport, required |-> required, keys |-> keys, sign |-> sign]

\* PQ preferred with Kademlia, PQ required without it, neither, and PQ switched
\* on without keys.  Queries do not look at the PQ switches.
MCConfigs ==
    {Config(TRUE, TRUE, FALSE, TRUE, TRUE), Config(FALSE, TRUE, TRUE, TRUE, FALSE),
     Config(FALSE, FALSE, FALSE, FALSE, FALSE), Config(FALSE, TRUE, FALSE, FALSE, FALSE)}

\* Bound: calls and inbound requests meet in a reload, a shutdown and the
\* connections only, so a second call is made where there is no inbound request.
Load == (\A c \in Call : call'[c].state # "new") => \A i \in Inbound : inbound'[i].state = "new"

MCSpec == Init /\ [][Next /\ Load]_vars

Symmetry == Permutations(Call) \cup Permutations(Conn)
=============================================================================
