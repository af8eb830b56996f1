---------------------------- MODULE RelayManager ----------------------------
(***************************************************************************)
(* The relay reservations of a node behind NAT: RelayManager and           *)
(* BootstrapDiscovery of src/src/controller, the event handlers of         *)
(* node_controller.rs that drive them, what they tell the service          *)
(* registry, and the listeners of the swarm that src/src/network/actor.rs  *)
(* owns and replaces in a reload.                                          *)
(*                                                                         *)
(* The controller is one task: a handler runs to its end before the next   *)
(* event is taken from the unbounded queue.  Lengths of time are left out: *)
(* a reservation may become overdue, and a backoff may end, at any moment. *)
(***************************************************************************)
EXTENDS Integers, Sequences, FiniteSets, Functions

CONSTANTS
    Relay,         \* the peers that may serve as relay
    Target,        \* RELAY_TARGET
    Configured,    \* bootstrap_nodes of the configuration, by peer
    Eligible,      \* allow_bootstrap, on a dual-stack node
    MaxLosses,     \* bound: listeners that close, listen_on calls that fail
    MaxOverdue,    \* bound: reservations that time out under a live listener
    MaxReloads,    \* bound of the reloads
    MaxQueue       \* bound of the events that wait

ASSUME RelayAssumption ==
    /\ Target \in Nat \ {0} /\ MaxLosses \in Nat /\ MaxOverdue \in Nat /\ MaxReloads \in Nat /\ MaxQueue \in Nat
    /\ Configured \in Seq(Relay) /\ Eligible \in BOOLEAN /\ IsFiniteSet(Relay)

VARIABLES
    need,          \* need_relay()
    nodes,         \* bootstrap_nodes, one entry per peer
    manager,       \* RelayManager
    provider,      \* is_bootstrap_provider
    registry,      \* what the service registry has been told
    swarm,         \* the current swarm: its listeners and its Kademlia state
    queue,         \* event_rx; epoch is the swarm an event comes from
    stale,         \* history: active relays whose last confirmation an earlier swarm sent
    silent,        \* history: relays whose only circuit ended before it had an address
    spent          \* bounds

vars == <<need, nodes, manager, provider, registry, swarm, queue, stale, silent, spent>>

Stage == {"requested", "accepted", "listening", "open"}
NoManager == [active |-> {}, pending |-> {}, overdue |-> {}, backoff |-> {}]
NewSwarm(epoch) == [listener |-> [r \in Relay |-> [st \in Stage |-> 0]], bootstrapped |-> FALSE,
                    noticed |-> FALSE, providing |-> FALSE, epoch |-> epoch]
FreshRegistry == [relays |-> 0, bootstrapped |-> FALSE]
Event(kind, r) == [kind |-> kind, relay |-> r, epoch |-> swarm.epoch]
Nobody == "nobody"

\* A listener of the relay has a circuit; there is none and no event of one.
Live(r) == \E st \in Stage \ {"requested"} : swarm.listener[r][st] > 0
Gone(r) == /\ \A st \in Stage : swarm.listener[r][st] = 0
           /\ \A i \in DOMAIN queue : queue[i].relay # r

-----------------------------------------------------------------------------
(* RelayManager                                                            *)

record_failure(m, peers) == [m EXCEPT !.backoff = @ \cup peers]

\* The mutant waits for an answer without limit.
ExpireNothing(m) == m

expire_pending(m) ==
    record_failure([m EXCEPT !.pending = @ \ m.overdue, !.overdue = {}], m.overdue)

desired == IF Target < Len(nodes) THEN Target ELSE Len(nodes)

\* The loop of tick() at a candidate: it is passed over when enough relays, or
\* this one, are in use or awaited, or while it is backed off.  ok: the peers
\* for which listen_on succeeds.
TryCandidate(m, r, ok) ==
    IF \/ Cardinality(m.active) + Cardinality(m.pending) >= desired
       \/ r \in m.active \cup m.pending \cup m.backoff
    THEN m
    ELSE IF r \in ok THEN [m EXCEPT !.pending = @ \cup {r}]
    ELSE record_failure(m, {r})

tick(m, ok) ==
    LET after[n \in 0..Len(nodes)] ==
            IF n = 0 THEN expire_pending(m) ELSE TryCandidate(after[n - 1], nodes[n], ok)
    IN  IF need THEN after[Len(nodes)] ELSE m

\* The peers that a tick from m to n starts to listen on, and those it failed on.
Listened(m, n) == n.pending \ expire_pending(m).pending
Failed(m, n) == n.backoff \ expire_pending(m).backoff

Confirm(m, r) ==
    [active |-> m.active \cup {r}, pending |-> m.pending \ {r},
     overdue |-> m.overdue \ {r}, backoff |-> m.backoff \ {r}]

Forget(m, r) ==
    record_failure([m EXCEPT !.active = @ \ {r}, !.pending = @ \ {r}, !.overdue = @ \ {r}], {r})

\* listen_on for these peers.
Requested(listener, peers) ==
    [r \in Relay |-> IF r \in peers THEN [listener[r] EXCEPT !["requested"] = @ + 1] ELSE listener[r]]

\* The trailing relay.tick() of a handler that left the manager as m.
Tick(m, s) ==
    \E result \in {tick(m, ok) : ok \in SUBSET Range(nodes)} :
        /\ spent.losses + Cardinality(Failed(m, result)) <= MaxLosses
        /\ manager' = result
        /\ spent' = [spent EXCEPT !.losses = @ + Cardinality(Failed(m, result))]
        /\ swarm' = [s EXCEPT !.listener = Requested(s.listener, Listened(m, result))]

-----------------------------------------------------------------------------
(* BootstrapDiscovery                                                      *)

\* announce_self; the DHT may refuse.
announce_self(flag, providing) ==
    IF flag \/ ~Eligible THEN {<<flag, providing>>} ELSE {<<FALSE, providing>>, <<TRUE, TRUE>>}

\* on_identify of a dual-stack peer that the cached providers contain.
on_identify(r) ==
    /\ r \notin Range(nodes)
    /\ nodes' = Append(nodes, r)
    /\ UNCHANGED <<need, manager, provider, registry, swarm, queue, stale, silent, spent>>

-----------------------------------------------------------------------------
(* NodeController                                                          *)

Taken(kind) == queue # <<>> /\ Head(queue).kind = kind /\ queue' = Tail(queue)

\* History: who confirmed the relay last.
Marked(r) == IF Head(queue).epoch = swarm.epoch THEN stale \ {r} ELSE stale \cup {r}

\* RelayCircuitReady
on_circuit_ready ==
    /\ Taken("ready")
    /\ \E r \in {Head(queue).relay} :
          /\ manager' = Confirm(manager, r)
          /\ stale' = Marked(r)
    /\ registry' = [registry EXCEPT !.relays = Cardinality(manager'.active)]
    /\ UNCHANGED <<need, nodes, provider, swarm, silent, spent>>

\* RelayClient: the registry is not told.
on_relay_client_event ==
    /\ Taken("accepted")
    /\ \E r \in {Head(queue).relay} :
          /\ manager' = Confirm(manager, r)
          /\ stale' = Marked(r)
    /\ UNCHANGED <<need, nodes, provider, registry, swarm, silent, spent>>

\* The mutant tells the registry only of reservations that were pending.
ClosedQuietly ==
    /\ Taken("closed")
    /\ \E r \in {Head(queue).relay} :
          \/ /\ r \in manager.active \cup manager.pending
             /\ registry' = IF r \in manager.active THEN registry
                            ELSE [registry EXCEPT !.relays = Cardinality(manager.active \ {r})]
             /\ stale' = stale \ {r}
             /\ Tick(Forget(manager, r), swarm)
          \/ /\ r \notin manager.active \cup manager.pending
             /\ UNCHANGED <<registry, manager, swarm, stale, spent>>
    /\ UNCHANGED <<need, nodes, provider, silent>>

\* The mutant drops only reservations that are pending.
ClosedPendingOnly ==
    /\ Taken("closed")
    /\ \E r \in {Head(queue).relay} :
          \/ r \in manager.pending /\ Tick(Forget(manager, r), swarm)
          \/ r \notin manager.pending /\ UNCHANGED <<manager, swarm, spent>>
    /\ UNCHANGED <<need, nodes, provider, registry, stale, silent>>

\* ListenerClosed
on_listener_closed ==
    /\ Taken("closed")
    /\ \E r \in {Head(queue).relay} :
          \/ /\ r \in manager.active \cup manager.pending
             /\ registry' = [registry EXCEPT !.relays = Cardinality(manager.active \ {r})]
             /\ stale' = stale \ {r}
             /\ Tick(Forget(manager, r), swarm)
          \/ /\ r \notin manager.active \cup manager.pending
             /\ UNCHANGED <<registry, manager, swarm, stale, spent>>
    /\ UNCHANGED <<need, nodes, provider, silent>>

\* The mutant returns early on a node that is announced already.
CompletedIfNotAnnounced ==
    /\ Taken("bootstrap")
    /\ registry' = IF provider THEN registry ELSE [registry EXCEPT !.bootstrapped = TRUE]
    /\ \E answer \in announce_self(provider, swarm.providing) :
          /\ provider' = answer[1]
          /\ Tick(manager, [swarm EXCEPT !.providing = answer[2]])
    /\ UNCHANGED <<need, nodes, stale, silent>>

\* BootstrapCompleted
BootstrapCompleted ==
    /\ Taken("bootstrap")
    /\ registry' = [registry EXCEPT !.bootstrapped = TRUE]
    /\ \E answer \in announce_self(FALSE, swarm.providing) :
          /\ provider' = answer[1]
          /\ Tick(manager, [swarm EXCEPT !.providing = answer[2]])
    /\ UNCHANGED <<need, nodes, stale, silent>>

\* relay_tick of run()
RelayTick ==
    /\ \E answer \in announce_self(provider, swarm.providing) :
          /\ provider' = answer[1]
          /\ Tick(manager, [swarm EXCEPT !.providing = answer[2]])
    /\ UNCHANGED <<need, nodes, registry, queue, stale, silent>>

\* The mutant keeps the bootstrap flag over a reload.
ReloadKeepsProvider ==
    /\ spent.reloads < MaxReloads
    /\ swarm' = NewSwarm(swarm.epoch + 1)
    /\ manager' = NoManager /\ registry' = FreshRegistry /\ stale' = {} /\ silent' = {}
    /\ spent' = [spent EXCEPT !.reloads = @ + 1]
    /\ UNCHANGED <<need, nodes, provider, queue>>

\* reload_config, when the new swarm can be built (nothing changes otherwise).
cmd_reload_config ==
    /\ spent.reloads < MaxReloads
    /\ swarm' = NewSwarm(swarm.epoch + 1)
    /\ manager' = NoManager /\ provider' = FALSE /\ registry' = FreshRegistry /\ stale' = {} /\ silent' = {}
    /\ spent' = [spent EXCEPT !.reloads = @ + 1]
    /\ UNCHANGED <<need, nodes, queue>>

-----------------------------------------------------------------------------
(* Time                                                                    *)

\* A reservation is unconfirmed for too long.
Overdue(r) ==
    /\ r \in manager.pending \ manager.overdue
    /\ manager' = [manager EXCEPT !.overdue = @ \cup {r}]
    /\ \/ Gone(r) /\ UNCHANGED spent
       \/ /\ ~Gone(r) /\ spent.overdue < MaxOverdue
          /\ spent' = [spent EXCEPT !.overdue = @ + 1]
    /\ UNCHANGED <<need, nodes, provider, registry, swarm, queue, stale, silent>>

BackoffEnds(r) ==
    /\ r \in manager.backoff
    /\ manager' = [manager EXCEPT !.backoff = @ \ {r}]
    /\ UNCHANGED <<need, nodes, provider, registry, swarm, queue, stale, silent, spent>>

-----------------------------------------------------------------------------
(* The swarm and the relays (external), as handle_event passes them on     *)

Emit(event) == Len(queue) < MaxQueue /\ queue' = Append(queue, event)

Move(r, from, to) ==
    /\ swarm.listener[r][from] > 0
    /\ swarm' = [swarm EXCEPT !.listener[r][from] = @ - 1, !.listener[r][to] = @ + 1]

\* NewListenAddr of a circuit address.
NewListenAddr(r) ==
    /\ Move(r, "requested", "listening") \/ Move(r, "accepted", "open")
    /\ Emit(Event("ready", r))
    /\ silent' = silent \ {r}
    /\ UNCHANGED <<need, nodes, manager, provider, registry, stale, spent>>

\* ReservationReqAccepted, before or after the new address.
ReservationReqAccepted(r) ==
    /\ Move(r, "requested", "accepted") \/ Move(r, "listening", "open")
    /\ Emit(Event("accepted", r))
    /\ silent' = silent \ {r}
    /\ UNCHANGED <<need, nodes, manager, provider, registry, stale, spent>>

\* A renewal repeats both events (bound: one at a time).
Renewal(r) ==
    /\ swarm.listener[r]["open"] > 0 /\ queue = <<>>
    /\ queue' = <<Event("accepted", r), Event("ready", r)>>
    /\ UNCHANGED <<need, nodes, manager, provider, registry, swarm, stale, silent, spent>>

\* ListenerClosed, at any stage: it lists the addresses the listener had, which
\* may be none as long as NewListenAddr has not come.
ListenerClosed(r) ==
    /\ spent.losses < MaxLosses
    /\ \E st \in Stage, peer \in {r, Nobody} :
          /\ swarm.listener[r][st] > 0 /\ (st \in {"listening", "open"} => peer = r)
          /\ swarm' = [swarm EXCEPT !.listener[r][st] = @ - 1]
          /\ Emit(Event("closed", peer))
          /\ silent' = IF st = "accepted" /\ peer = Nobody /\ ~Live(r)' THEN silent \cup {r} ELSE silent
    /\ spent' = [spent EXCEPT !.losses = @ + 1]
    /\ UNCHANGED <<need, nodes, manager, provider, registry, stale>>

\* A bootstrap query succeeds; at most one notice in 30 seconds.
KadBootstrap ==
    /\ ~swarm.noticed
    /\ swarm' = [swarm EXCEPT !.bootstrapped = TRUE, !.noticed = TRUE]
    /\ Emit(Event("bootstrap", Nobody))
    /\ UNCHANGED <<need, nodes, manager, provider, registry, stale, silent, spent>>

NoticeDue ==
    /\ swarm.noticed /\ queue = <<>>
    /\ swarm' = [swarm EXCEPT !.noticed = FALSE]
    /\ UNCHANGED <<need, nodes, manager, provider, registry, queue, stale, silent, spent>>

-----------------------------------------------------------------------------

Init ==
    /\ need \in BOOLEAN
    /\ nodes = Configured
    /\ manager = NoManager /\ provider = FALSE /\ registry = FreshRegistry
    /\ swarm = NewSwarm(0)
    /\ queue = <<>> /\ stale = {} /\ silent = {}
    /\ spent = [losses |-> 0, overdue |-> 0, reloads |-> 0]

Handle == on_circuit_ready \/ on_relay_client_event \/ on_listener_closed \/ BootstrapCompleted

Next ==
    \/ Handle \/ RelayTick \/ cmd_reload_config \/ KadBootstrap \/ NoticeDue
    \/ \E r \in Relay :
          \/ on_identify(r) \/ Overdue(r) \/ BackoffEnds(r)
          \/ NewListenAddr(r) \/ ReservationReqAccepted(r) \/ Renewal(r) \/ ListenerClosed(r)

Spec == Init /\ [][Next]_vars

\* The controller's loop and its timers go on; listeners that the relays do
\* not refuse are granted and renewed.
Fairness ==
    /\ WF_vars(Handle) /\ WF_vars(RelayTick)
    /\ WF_vars(\E r \in Relay : Overdue(r) \/ BackoffEnds(r))
    /\ SF_vars(\E r \in Relay : NewListenAddr(r) \/ ReservationReqAccepted(r))
    /\ SF_vars(\E r \in Relay : Renewal(r))

FairSpec == Spec /\ Fairness

-----------------------------------------------------------------------------
(* Properties                                                              *)

\* The sets hold relays; a relay is in use or awaited, not both.
TypeOK ==
    /\ nodes \in Seq(Relay) /\ provider \in BOOLEAN
    /\ manager \in [active : SUBSET Relay, pending : SUBSET Relay,
                    overdue : SUBSET manager.pending, backoff : SUBSET Relay]
    /\ manager.active \cap manager.pending = {}
    /\ registry \in [relays : 0..Cardinality(Relay), bootstrapped : BOOLEAN]
    /\ \A r \in Relay : swarm.listener[r] \in [Stage -> Nat]
    /\ stale \subseteq manager.active /\ silent \subseteq Relay

(***************************************************************************)
(* notify_relay_state follows every loss: the registry never counts more   *)
(* relays than the manager has, so that it does not announce services over *)
(* a relay the manager has given up.  (State well typed; a relay is in use *)
(* or awaited, not both.)                                                  *)
(***************************************************************************)
GateNeverAhead == TypeOK /\ registry.relays <= Cardinality(manager.active)

(***************************************************************************)
(* active: "Relays confirmed usable."  A relay that the current swarm      *)
(* confirmed has a live circuit, or the news of its end is on the way,     *)
(* through time-outs, double listeners and reloads.  The exception is a    *)
(* listener that closes between ReservationReqAccepted and NewListenAddr:  *)
(* its ListenerClosed lists no address, and on_listener_closed finds no    *)
(* relay in it.                                                            *)
(***************************************************************************)
ConfirmedIsLive ==
    \A r \in manager.active \ (stale \cup silent) :
        Live(r) \/ \E i \in DOMAIN queue : queue[i].kind = "closed" /\ queue[i].relay = r

(***************************************************************************)
(* is_bootstrap_provider: a node that believes it is announced as a        *)
(* bootstrap node is announced in the swarm it now runs.                   *)
(***************************************************************************)
ProviderIsCurrent == provider => swarm.providing

(***************************************************************************)
(* tick(): "best-effort reach the target number of usable relays".  Once   *)
(* relays no longer fail, a node that needs relays has the desired number  *)
(* and the registry knows it, unless an event of a replaced swarm was      *)
(* taken for a confirmation, or a relay in use was lost without a word.    *)
(***************************************************************************)
TargetIsReached ==
    <>[](need => registry.relays >= desired \/ stale # {} \/ silent \cap manager.active # {})

(***************************************************************************)
(* A BootstrapCompleted of a replaced swarm that is handled after the      *)
(* reload opens the gate of the registry too early.  This does not last:   *)
(* where bootstrap queries go on succeeding, the registry in the end says  *)
(* of the swarm that runs what is true of it.                              *)
(* (handle_controller_event, cmd_reload_config, last_bootstrap_notice.)    *)
(***************************************************************************)
BootstrapGateHeals ==
    []<><<KadBootstrap>>_vars => <>[](registry.bootstrapped /\ swarm.bootstrapped)

(***************************************************************************)
(* active: "Relays confirmed usable."  With no event left to handle, every *)
(* relay in use has a circuit.  An event that a replaced swarm sent before *)
(* a reload breaks it: nothing in the event tells the swarms apart.        *)
(***************************************************************************)
ActiveIsUsable == queue = <<>> => \A r \in manager.active : Live(r)
=============================================================================
