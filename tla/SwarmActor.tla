----------------------------- MODULE SwarmActor -----------------------------
(***************************************************************************)
(* The task of src/src/network/actor.rs that owns the libp2p swarm: its    *)
(* commands, its tables of pending work, inbound service requests, the     *)
(* post-quantum (PQ) identity of a peer, and the reload that replaces the  *)
(* swarm.  The task is a loop, so an event or a command is one step.       *)
(*                                                                         *)
(* A swarm numbers its queries and requests from zero: after a reload the  *)
(* numbers come again.  One remote peer, which may have several            *)
(* connections, and one record key stand for all.  Relay listeners and     *)
(* bootstrap notices are in module RelayManager.                           *)
(***************************************************************************)
EXTENDS Integers, Sequences, FiniteSets, Functions

CONSTANTS
    Call,          \* requests through NetworkHandle
    Kinds,         \* which ones are made
    Inbound,       \* service requests of the peer
    Conn,          \* its connections
    Configs,       \* the configurations a node may run with
    MaxFetches,    \* bound: PQ identity requests of one swarm
    MaxReloads     \* bound of the reloads

ASSUME ActorAssumption ==
    /\ Kinds \subseteq {"get", "providers", "closest", "put", "provide", "remove", "local", "send", "reload"}
    /\ Configs \subseteq [kad : BOOLEAN, transport : BOOLEAN, required : BOOLEAN, keys : BOOLEAN, sign : BOOLEAN]
    /\ MaxFetches \in Nat /\ MaxReloads \in Nat

VARIABLES
    config, running,
    commands,      \* cmd_rx
    call,          \* the callers
    net,           \* the swarm: work under way, numbers, local record, connections
    pending,       \* pending_kad, pending_outbound, pending_outbound_pq, pending_pq_identity
    peer,          \* peer_protocols and pq_identities of the peer
    inbound        \* inbound requests: pending_inbound, the application, replies sent

vars == <<config, running, commands, call, net, pending, peer, inbound>>

None == "none"
Behaviour == {"kad", "plain", "pq", "identity"}
NoWork == [b \in Behaviour |-> <<>>]
NewSwarm == [live |-> NoWork, next |-> [b \in Behaviour |-> 0], record |-> None, open |-> {}, reloads |-> 0]
UnknownPeer == [protocols |-> "unknown", identity |-> FALSE]

pq_enabled == config.transport \/ config.sign

-----------------------------------------------------------------------------
(* Helpers                                                                 *)

With(f, key, value) == [k \in DOMAIN f \cup {key} |-> IF k = key THEN value ELSE f[k]]
Drop(f, keys) == Restrict(f, DOMAIN f \ keys)

Answered(result) == [state |-> "done", kind |-> None, result |-> result]
Gone == [state |-> "gone", kind |-> None, result |-> None]

\* The entry leaves pending_inbound, its channel used or dropped.
Replied(entry) == [entry EXCEPT !.state = "replied", !.conn = None, !.pq = FALSE, !.replies = @ + 1]
Dropped(entry) == [entry EXCEPT !.state = "dropped", !.conn = None, !.pq = FALSE]

\* resp.send(..) to the callers cs.
Resolve(cs, result) ==
    call' = [c \in Call |-> IF c \in cs THEN Answered(result) ELSE call[c]]

\* Work of the behaviour b begins for the caller c.
Begin(b, c, swarm) ==
    /\ net' = [swarm EXCEPT !.live[b] = With(@, net.next[b], c), !.next[b] = @ + 1]
    /\ pending' = [pending EXCEPT ![b] = With(@, net.next[b], [call |-> c, found |-> FALSE])]

Await(c) == call' = [call EXCEPT ![c].state = "waiting"]

Taken(op) == running /\ commands # <<>> /\ Head(commands).op = op /\ commands' = Tail(commands)

-----------------------------------------------------------------------------
(* NetworkHandle                                                           *)

\* request(): a command with a oneshot; without the actor it fails at once.
Issue(c, kind) ==
    /\ call[c].state = "new"
    /\ kind = "reload" => net.reloads < MaxReloads
    /\ IF running
       THEN /\ call' = [call EXCEPT ![c].state = "sent", ![c].kind = kind]
            /\ commands' = Append(commands, [op |-> kind, arg |-> c])
       ELSE /\ call' = [call EXCEPT ![c] = Gone]
            /\ UNCHANGED commands
    /\ UNCHANGED <<config, running, net, pending, peer, inbound>>

shutdown ==
    /\ running /\ \A i \in DOMAIN commands : commands[i].op # "shutdown"
    /\ commands' = Append(commands, [op |-> "shutdown", arg |-> None])
    /\ UNCHANGED <<config, running, call, net, pending, peer, inbound>>

-----------------------------------------------------------------------------
(* handle_command                                                          *)

\* Kademlia commands that start a query; put and provide write locally first,
\* which the store may refuse.
KadQuery ==
    \E op \in {"get", "providers", "closest", "put", "provide"} :
        /\ Taken(op)
        /\ \E c \in {Head(commands).arg} :
              \/ /\ config.kad
                 /\ Begin("kad", c, IF op = "put" THEN [net EXCEPT !.record = c] ELSE net)
                 /\ Await(c)
              \/ /\ ~config.kad \/ op \in {"put", "provide"}
                 /\ Resolve({c}, "error")
                 /\ UNCHANGED <<net, pending>>
        /\ UNCHANGED <<config, running, peer, inbound>>

\* KadRemoveRecord
KadRemoveRecord ==
    /\ Taken("remove")
    /\ net' = IF config.kad THEN [net EXCEPT !.record = None] ELSE net
    /\ Resolve({Head(commands).arg}, IF config.kad THEN "ok" ELSE "error")
    /\ UNCHANGED <<config, running, pending, peer, inbound>>

\* KadStopProviding, KadCacheRefresh, ListenOn, Dial: answered on the spot.
LocalCommand ==
    /\ Taken("local")
    /\ \E result \in {"ok", "error"} : Resolve({Head(commands).arg}, result)
    /\ UNCHANGED <<config, running, net, pending, peer, inbound>>

\* send_security; supports is "unknown", "pq" or "plain".
send_security(supports) ==
    IF config.required /\ ~config.transport THEN "MissingTransport"
    ELSE IF config.required /\ ~peer.identity
    THEN IF supports = "plain" THEN "Unsupported" ELSE "WaitIdentity"
    ELSE IF ~config.transport THEN "Plaintext"
    ELSE IF ~config.keys THEN "MissingKeys"
    ELSE IF peer.identity THEN "Pq"
    ELSE IF supports = "plain" THEN "Plaintext" ELSE "WaitIdentity"

\* Whether an identity request goes out for the protocols p; a second one may.
Fetches(p) == config.keys /\ pq_enabled /\ ~peer.identity /\ p = "pq"

maybe_fetch_pq_identity(p) ==
    IF Fetches(p) THEN Begin("identity", None, net) ELSE UNCHANGED <<net, pending>>

\* ServiceSendRequest; a request may be too large to send.
ServiceSendRequest ==
    /\ Taken("send")
    /\ \E c \in {Head(commands).arg}, security \in {send_security(peer.protocols)} :
          \/ /\ security \in {"Pq", "Plaintext"}
             /\ Begin(IF security = "Pq" THEN "pq" ELSE "plain", c, net)
             /\ Await(c)
          \/ /\ security \in {"Pq", "Plaintext"}
             /\ Resolve({c}, "error")
             /\ UNCHANGED <<net, pending>>
          \/ /\ security = "WaitIdentity"
             /\ Fetches(peer.protocols) => net.next["identity"] < MaxFetches
             /\ maybe_fetch_pq_identity(peer.protocols)
             /\ Resolve({c}, "error")
          \/ /\ security \in {"MissingKeys", "MissingTransport", "Unsupported"}
             /\ Resolve({c}, "error")
             /\ UNCHANGED <<net, pending>>
    /\ UNCHANGED <<config, running, peer, inbound>>

\* The mutant leaves the entry in pending_inbound.
RespondKeepsEntry ==
    /\ Taken("respond")
    /\ inbound' = [inbound EXCEPT ![Head(commands).arg].replies =
                      IF inbound[Head(commands).arg].state = "pending" THEN @ + 1 ELSE @]
    /\ UNCHANGED <<config, running, call, net, pending, peer>>

\* ServiceSendResponse: an entry is answered once, an unknown one ignored; a
\* sealed reply may fail, which drops the channel.
ServiceSendResponse ==
    /\ Taken("respond")
    /\ \E i \in {Head(commands).arg} :
          \/ /\ inbound[i].state = "pending"
             /\ inbound' = [inbound EXCEPT ![i] = Replied(@)]
          \/ /\ inbound[i].state = "pending" /\ inbound[i].pq
             /\ inbound' = [inbound EXCEPT ![i] = Dropped(@)]
          \/ inbound[i].state # "pending" /\ UNCHANGED inbound
    /\ UNCHANGED <<config, running, call, net, pending, peer>>

Waiting == {c \in Call : call[c].state = "waiting"}

\* What a reload does to inbound requests: the pending ones are rejected, and
\* those that arrive while the old swarm drains; sealing a rejection may fail.
RejectInbound ==
    \E late \in SUBSET {i \in Inbound : inbound[i].state = "new"} :
        LET Rejected == late \cup {i \in Inbound : inbound[i].state = "pending"}
        IN  \E failed \in SUBSET {i \in Rejected : IF i \in late THEN pq_enabled ELSE inbound[i].pq} :
                inbound' = [i \in Inbound |-> IF i \in failed THEN Dropped(inbound[i])
                                              ELSE IF i \in Rejected THEN Replied(inbound[i])
                                              ELSE inbound[i]]

\* The mutant forgets the queries of the old swarm in pending_kad.
ReloadKeepsQueries ==
    /\ Taken("reload")
    /\ \E c \in {Head(commands).arg} :
          Resolve({c} \cup {d \in Waiting : call[d].kind = "send"}, "ok")
    /\ RejectInbound
    /\ net' = [NewSwarm EXCEPT !.reloads = net.reloads + 1]
    /\ pending' = [NoWork EXCEPT !["kad"] = pending["kad"]]
    /\ peer' = UnknownPeer
    /\ UNCHANGED <<config, running>>

\* reload(): building the new swarm may fail and changes nothing then.
reload ==
    /\ Taken("reload")
    /\ \E c \in {Head(commands).arg} :
          \/ /\ call' = [d \in Call |->
                            IF d = c THEN Answered("ok")
                            ELSE IF d \in Waiting THEN Answered("error") ELSE call[d]]
             /\ RejectInbound
             /\ net' = [NewSwarm EXCEPT !.reloads = net.reloads + 1]
             /\ pending' = NoWork
             /\ peer' = UnknownPeer
          \/ /\ Resolve({c}, "error")
             /\ UNCHANGED <<net, pending, peer, inbound>>
    /\ UNCHANGED <<config, running>>

\* Shutdown: the loop ends and everything it owns is dropped.
Shutdown ==
    /\ Taken("shutdown")
    /\ running' = FALSE
    /\ call' = [c \in Call |-> IF call[c].state \in {"sent", "waiting"}
                               THEN Gone ELSE call[c]]
    /\ inbound' = [i \in Inbound |-> IF inbound[i].state = "pending"
                                     THEN Dropped(inbound[i]) ELSE inbound[i]]
    /\ net' = NewSwarm /\ pending' = NoWork /\ peer' = UnknownPeer
    /\ UNCHANGED config

HandleCommand ==
    \/ KadQuery \/ KadRemoveRecord \/ LocalCommand \/ ServiceSendRequest
    \/ ServiceSendResponse \/ reload \/ Shutdown

-----------------------------------------------------------------------------
(* Swarm events                                                            *)

\* FoundRecord: the entry keeps what was found.  (So it does for FoundProviders,
\* but there an error discards it: nothing to tell apart.)
KadProgress(id) ==
    /\ running /\ id \in DOMAIN net.live["kad"] \cap DOMAIN pending["kad"]
    /\ call[net.live["kad"][id]].kind = "get"
    /\ pending' = [pending EXCEPT !["kad"][id].found = TRUE]
    /\ UNCHANGED <<config, running, commands, call, net, peer, inbound>>

\* The mutant keeps the local record of a failed publication.
FinishKeepsRecord(id, ok) ==
    /\ running /\ id \in DOMAIN net.live["kad"]
    /\ net' = [net EXCEPT !.live["kad"] = Drop(@, {id})]
    /\ pending' = [pending EXCEPT !["kad"] = Drop(@, {id})]
    /\ Resolve({pending["kad"][n].call : n \in DOMAIN pending["kad"] \cap {id}}, IF ok THEN "ok" ELSE "error")
    /\ UNCHANGED <<config, running, commands, peer, inbound>>

\* handle_kad_event: a query ends.  Records found before an error count,
\* providers do not; a failed publication takes the local record back.
KadFinished(id, ok) ==
    /\ running /\ id \in DOMAIN net.live["kad"]
    /\ \E owner \in {net.live["kad"][id]}, entries \in {DOMAIN pending["kad"] \cap {id}} :
          /\ net' = [net EXCEPT !.live["kad"] = Drop(@, {id}),
                                !.record = IF call[owner].kind = "put" /\ ~ok /\ entries # {} THEN None ELSE @]
          /\ pending' = [pending EXCEPT !["kad"] = Drop(@, {id})]
          /\ Resolve({pending["kad"][n].call : n \in entries},
                     IF ok \/ (call[owner].kind = "get" /\ \E n \in entries : pending["kad"][n].found)
                     THEN "ok" ELSE "error")
    /\ UNCHANGED <<config, running, commands, peer, inbound>>

\* The response to an outbound request, or OutboundFailure.
OutboundFinished(b, id, ok) ==
    /\ running /\ id \in DOMAIN net.live[b]
    /\ net' = [net EXCEPT !.live[b] = Drop(@, {id})]
    /\ pending' = [pending EXCEPT ![b] = Drop(@, {id})]
    /\ Resolve({pending[b][n].call : n \in DOMAIN pending[b] \cap {id}}, IF ok THEN "ok" ELSE "error")
    /\ UNCHANGED <<config, running, commands, peer, inbound>>

\* handle_pq_identity: an identity that verifies is cached if it is awaited.
IdentityFinished(id, ok) ==
    /\ running /\ id \in DOMAIN net.live["identity"]
    /\ net' = [net EXCEPT !.live["identity"] = Drop(@, {id})]
    /\ pending' = [pending EXCEPT !["identity"] = Drop(@, {id})]
    /\ peer' = [peer EXCEPT !.identity = @ \/ (ok /\ id \in DOMAIN pending["identity"])]
    /\ UNCHANGED <<config, running, commands, call, inbound>>

ConnectionEstablished(k) ==
    /\ running /\ k \notin net.open
    /\ net' = [net EXCEPT !.open = @ \cup {k}]
    /\ UNCHANGED <<config, running, commands, call, pending, peer, inbound>>

\* The mutant goes on waiting for the identity of a peer that has left.
CloseKeepsFetch(k) ==
    /\ running /\ k \in net.open
    /\ net' = [net EXCEPT !.open = @ \ {k}]
    /\ inbound' = [i \in Inbound |-> IF inbound[i].state = "pending" /\ inbound[i].conn = k
                                     THEN Dropped(inbound[i]) ELSE inbound[i]]
    /\ peer' = IF net.open = {k} THEN UnknownPeer ELSE peer
    /\ UNCHANGED <<config, running, commands, call, pending>>

\* ConnectionClosed: its requests can no longer be answered; with the last
\* connection what is known of the peer goes.
ConnectionClosed(k) ==
    /\ running /\ k \in net.open
    /\ net' = [net EXCEPT !.open = @ \ {k}]
    /\ inbound' = [i \in Inbound |-> IF inbound[i].state = "pending" /\ inbound[i].conn = k
                                     THEN Dropped(inbound[i]) ELSE inbound[i]]
    /\ IF net.open = {k}
       THEN peer' = UnknownPeer /\ pending' = [pending EXCEPT !["identity"] = <<>>]
       ELSE UNCHANGED <<peer, pending>>
    /\ UNCHANGED <<config, running, commands, call>>

\* on_identify_peer, for a node of this network or a stranger.
Identify(protocols, ours) ==
    /\ running /\ net.open # {}
    /\ peer' = [peer EXCEPT !.protocols = protocols]
    /\ ours /\ Fetches(protocols) => net.next["identity"] < MaxFetches
    /\ IF ours THEN maybe_fetch_pq_identity(protocols) ELSE UNCHANGED <<net, pending>>
    /\ UNCHANGED <<config, running, commands, call, inbound>>

\* A request is taken in, for the application to answer.
Accept(i, k, pq) ==
    inbound' = [inbound EXCEPT ![i] = [@ EXCEPT !.state = "pending", !.conn = k, !.pq = pq, !.app = "owns"]]

\* handle_service_req: a plaintext request.
PlainRequest(i, k) ==
    /\ running /\ k \in net.open /\ inbound[i].state = "new"
    /\ IF config.required THEN inbound' = [inbound EXCEPT ![i] = Replied(@)] ELSE Accept(i, k, FALSE)
    /\ UNCHANGED <<config, running, commands, call, net, pending, peer>>

\* handle_service_req_pq: it may fail to open, or be refused because it lacks a
\* signature or is malformed.
PqRequest(i, k) ==
    /\ running /\ pq_enabled /\ k \in net.open /\ inbound[i].state = "new"
    /\ \/ inbound' = [inbound EXCEPT ![i] = Dropped(@)]
       \/ config.keys /\ inbound' = [inbound EXCEPT ![i] = Replied(@)]
       \/ config.keys /\ Accept(i, k, TRUE)
    /\ UNCHANGED <<config, running, commands, call, net, pending, peer>>

-----------------------------------------------------------------------------
(* The application behind an inbound request                               *)

Reply(i, app) ==
    /\ inbound' = [inbound EXCEPT ![i].app = app]
    /\ commands' = IF running THEN Append(commands, [op |-> "respond", arg |-> i]) ELSE commands
    /\ UNCHANGED <<config, running, call, net, pending, peer>>

\* The controller answers itself, and drops the oneshot.
send_response(i) == inbound[i].app = "owns" /\ Reply(i, "refused")

\* The oneshot resolves or is dropped: the waiting task sends the response.
ResponseTask(i) == inbound[i].app \in {"owns", "refused"} /\ Reply(i, "done")

-----------------------------------------------------------------------------

Init ==
    /\ config \in Configs /\ running = TRUE /\ commands = <<>>
    /\ call = [c \in Call |-> [state |-> "new", kind |-> None, result |-> None]]
    /\ net = NewSwarm /\ pending = NoWork /\ peer = UnknownPeer
    /\ inbound = [i \in Inbound |-> [state |-> "new", conn |-> None, pq |-> FALSE, replies |-> 0, app |-> None]]

Next ==
    \/ HandleCommand \/ shutdown
    \/ \E c \in Call, kind \in Kinds : Issue(c, kind)
    \/ \E id \in DOMAIN net.live["kad"] : KadProgress(id) \/ \E ok \in BOOLEAN : KadFinished(id, ok)
    \/ \E b \in {"plain", "pq"} : \E id \in DOMAIN net.live[b], ok \in BOOLEAN : OutboundFinished(b, id, ok)
    \/ \E id \in DOMAIN net.live["identity"], ok \in BOOLEAN : IdentityFinished(id, ok)
    \/ \E k \in Conn : ConnectionEstablished(k) \/ ConnectionClosed(k)
    \/ \E protocols \in {"pq", "plain"}, ours \in BOOLEAN : Identify(protocols, ours)
    \/ \E i \in Inbound : \/ \E k \in Conn : PlainRequest(i, k) \/ PqRequest(i, k)
                          \/ send_response(i) \/ ResponseTask(i)

Spec == Init /\ [][Next]_vars

-----------------------------------------------------------------------------
(* Properties                                                              *)

\* Callers, tables and inbound requests are well formed: a caller has a result
\* exactly when it was answered, and no table holds a number that this swarm
\* has not given out.
TypeOK ==
    /\ running \in BOOLEAN
    /\ \A c \in Call : /\ call[c].state \in {"new", "sent", "waiting", "done", "gone"}
                        /\ call[c].result # None <=> call[c].state = "done"
    /\ \A b \in Behaviour : DOMAIN pending[b] \subseteq 0..(net.next[b] - 1)
    /\ peer \in [protocols : {"unknown", "pq", "plain"}, identity : BOOLEAN]
    /\ \A i \in Inbound : inbound[i].state \in {"new", "pending", "replied", "dropped"}
    /\ net.open \subseteq Conn /\ net.record \in Call \cup {None}

(***************************************************************************)
(* "waking the matching pending entry by QueryId": a caller that waits is  *)
(* in exactly one table, under the number of work that the swarm of now is *)
(* doing for it.  A reload must not leave an entry behind, for the new     *)
(* swarm would use the number again.  (State well typed.)                  *)
(***************************************************************************)
WaitersAreTracked ==
    /\ TypeOK
    /\ \A c \in Waiting :
        LET Entries == UNION {{<<b, id>> : id \in DOMAIN pending[b]} : b \in Behaviour \ {"identity"}}
            Mine == {e \in Entries : pending[e[1]][e[2]].call = c}
        IN  /\ Cardinality(Mine) = 1
            /\ \A e \in Mine : e[2] \in DOMAIN net.live[e[1]] /\ net.live[e[1]][e[2]] = c

(***************************************************************************)
(* "Whatever the outcome, a response must be sent back": while an inbound  *)
(* request is pending, its connection is open and a response to it is on   *)
(* its way or can still be made; and no request gets two, although the     *)
(* controller and the task of the request may both send one, and a reload  *)
(* a third.                                                                *)
(***************************************************************************)
InboundAccounted ==
    \A i \in Inbound :
        /\ inbound[i].replies <= 1
        /\ inbound[i].state = "pending" =>
              /\ inbound[i].conn \in net.open
              /\ \/ inbound[i].app \in {"owns", "refused"}
                 \/ \E n \in DOMAIN commands : commands[n] = [op |-> "respond", arg |-> i]

(***************************************************************************)
(* "A failed publication must not leave a local-only value that later      *)
(* reads would treat as published."                                        *)
(***************************************************************************)
NoUnpublishedRecord ==
    net.record # None => ~(call[net.record].state = "done" /\ call[net.record].result # "ok")

(***************************************************************************)
(* pq_identities: an identity is held only while the peer is connected, so *)
(* that a late answer cannot bring back what ConnectionClosed dropped.     *)
(***************************************************************************)
IdentityIsCurrent == peer.identity => net.open # {}

(***************************************************************************)
(* pq_required: no plaintext request is under way or taken in.             *)
(***************************************************************************)
RequiredMeansPq ==
    config.required =>
        /\ pending["plain"] = <<>>
        /\ \A i \in Inbound : inbound[i].state = "pending" => inbound[i].pq

\* What the actor takes to be encrypted is, and to whom it holds a connection.
PqIsKept == IdentityIsCurrent /\ RequiredMeansPq

=============================================================================
