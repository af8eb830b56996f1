-------------------------- MODULE SwarmActorProofs --------------------------
(***************************************************************************)
(* Proofs about the task that owns the swarm: callers that wait are        *)
(* tracked, inbound requests are accounted for, no record outlives the     *)
(* failure of its publication, and what must be encrypted is.              *)
(***************************************************************************)
EXTENDS SwarmActor, TLAPS

-----------------------------------------------------------------------------
(* The shape of the state                                                  *)

\* The tables of one behaviour, in the swarm and in the actor.
Work == UNION {[S -> Call \cup {None}] : S \in SUBSET Nat}
Entries == UNION {[S -> [call : Call \cup {None}, found : BOOLEAN]] : S \in SUBSET Nat}

NetState == [live : [Behaviour -> Work], next : [Behaviour -> Nat], record : Call \cup {None},
             open : SUBSET Conn, reloads : Nat]
PendingState == [Behaviour -> Entries]
PeerState == [protocols : {"unknown", "pq", "plain"}, identity : BOOLEAN]
CallState == [state : {"new", "sent", "waiting", "done", "gone"}, kind : Kinds \cup {None},
              result : {None, "ok", "error"}]
InboundState == [state : {"new", "pending", "replied", "dropped"}, conn : Conn \cup {None}, pq : BOOLEAN,
                 replies : Nat, app : {None, "owns", "refused", "done"}]

\* An entry belongs to work of the swarm that runs, and all work is numbered
\* below the next number.
TablesOK ==
    \A b \in Behaviour :
        /\ DOMAIN pending[b] \subseteq DOMAIN net.live[b]
        /\ \A id \in DOMAIN net.live[b] : id < net.next[b]

Shape ==
    /\ config \in Configs /\ running \in BOOLEAN
    /\ net \in NetState /\ pending \in PendingState /\ peer \in PeerState
    /\ call \in [Call -> CallState] /\ inbound \in [Inbound -> InboundState]
    /\ TablesOK

-----------------------------------------------------------------------------
(* Callers                                                                 *)

\* The tables whose entries wake a caller.
Waking == {"kad", "plain", "pq"}

\* The commands that a caller waits for.
IsCall(command) == command.op \in Kinds

Command == [op : Kinds \cup {"respond", "shutdown"}, arg : Call \cup Inbound \cup {None}]

\* A caller whose command is queued has sent it, once.
Queued ==
    /\ commands \in Seq(Command)
    /\ \A n \in 1..Len(commands) :
          /\ commands[n].op = "respond" => commands[n].arg \in Inbound
          /\ IsCall(commands[n]) => commands[n].arg \in Call
    /\ running => \A n \in 1..Len(commands) : IsCall(commands[n]) =>
          /\ call[commands[n].arg].state = "sent" /\ call[commands[n].arg].kind = commands[n].op
          /\ \A m \in 1..Len(commands) : IsCall(commands[m]) /\ commands[m].arg = commands[n].arg => m = n

\* Entries belong to callers that wait, each to its own.
Owners ==
    \A b \in Waking : \A id \in DOMAIN pending[b] :
        \E c \in Call :
            /\ pending[b][id].call = c /\ net.live[b][id] = c /\ call[c].state = "waiting"
            /\ b # "kad" => call[c].kind = "send"
            /\ \A d \in Waking : \A n \in DOMAIN pending[d] : pending[d][n].call = c => d = b /\ n = id

Woken == \A c \in Waiting : \E b \in Waking : \E id \in DOMAIN pending[b] : pending[b][id].call = c

Results == \A c \in Call : call[c].result # None <=> call[c].state = "done"

\* The local record is that of a put that is under way or succeeded, or whose
\* caller went with the actor.
Record ==
    \A c \in Call : net.record = c /\ c # None =>
        /\ call[c].state \in {"waiting", "done", "gone"}
        /\ call[c].state = "waiting" => call[c].kind = "put"
        /\ call[c].state = "done" => call[c].result = "ok"

Calls == Owners /\ Woken /\ Results /\ Record

-----------------------------------------------------------------------------
(* Inbound requests and the peer                                           *)

RespondQueued(i) == \E n \in 1..Len(commands) : commands[n] = [op |-> "respond", arg |-> i]

InboundOK(i) ==
    /\ inbound[i].replies <= 1
    /\ inbound[i].state \in {"new", "pending"} => inbound[i].replies = 0
    /\ inbound[i].state = "pending" =>
          /\ running /\ inbound[i].conn \in net.open
          /\ inbound[i].app \in {"owns", "refused"} \/ RespondQueued(i)
          /\ config.required => inbound[i].pq

\* What is known of the peer, or awaited, goes with its last connection.
Connected == peer.identity \/ peer.protocols = "pq" \/ DOMAIN pending["identity"] # {} => net.open # {}

NoPlaintext == config.required => pending["plain"] = <<>> /\ net.live["plain"] = <<>>

Inv == Shape /\ Queued /\ Calls /\ (\A i \in Inbound : InboundOK(i)) /\ Connected /\ NoPlaintext

-----------------------------------------------------------------------------
(* Tables                                                                  *)

LEMMA DropFacts ==
    ASSUME NEW f, NEW key
    PROVE  /\ DOMAIN Drop(f, {key}) = DOMAIN f \ {key}
           /\ \A k \in DOMAIN f : k # key => Drop(f, {key})[k] = f[k]
  BY Zenon DEF Drop, Restrict

\* Tables stay tables.
LEMMA WorkFacts ==
    /\ <<>> \in Work /\ <<>> \in Entries /\ DOMAIN <<>> = {}
    /\ \A f \in Work : \A n \in Nat, c \in Call \cup {None} : With(f, n, c) \in Work
    /\ \A f \in Entries : \A n \in Nat, c \in Call \cup {None} :
          With(f, n, [call |-> c, found |-> FALSE]) \in Entries
    /\ \A f \in Work : \A n : Drop(f, {n}) \in Work
    /\ \A f \in Entries : \A n : Drop(f, {n}) \in Entries
    /\ \A f \in Entries : \A n \in DOMAIN f : [f EXCEPT ![n].found = TRUE] \in Entries
<1>1. <<>> \in Work /\ <<>> \in Entries /\ DOMAIN <<>> = {}
  <2>1. <<>> \in [{} -> Call \cup {None}] /\ <<>> \in [{} -> [call : Call \cup {None}, found : BOOLEAN]]
    OBVIOUS
  <2>2. QED
    BY <2>1, Zenon DEF Work, Entries
<1>2. ASSUME NEW f \in Work, NEW n \in Nat, NEW c \in Call \cup {None}
      PROVE  With(f, n, c) \in Work
  <2>1. PICK S \in SUBSET Nat : f \in [S -> Call \cup {None}]
    BY Zenon DEF Work
  <2>2. With(f, n, c) \in [S \cup {n} -> Call \cup {None}]
    BY <2>1, Zenon DEF With
  <2>3. S \cup {n} \in SUBSET Nat
    BY <2>1, Zenon
  <2>4. QED
    BY <2>2, <2>3, Zenon DEF Work
<1>3. ASSUME NEW f \in Entries, NEW n \in Nat, NEW c \in Call \cup {None}
      PROVE  With(f, n, [call |-> c, found |-> FALSE]) \in Entries
  <2> DEFINE E == [call : Call \cup {None}, found : BOOLEAN]
             e == [call |-> c, found |-> FALSE]
  <2>1. PICK S \in SUBSET Nat : f \in [S -> E]
    BY Zenon DEF Entries
  <2>2. e \in E
    BY Zenon
  <2> HIDE DEF e, E
  <2>3. With(f, n, e) \in [S \cup {n} -> E]
    BY <2>1, <2>2, Zenon DEF With
  <2>4. S \cup {n} \in SUBSET Nat
    BY <2>1, Zenon
  <2>5. QED
    BY <2>3, <2>4, Zenon DEF Entries, E, e
<1>4. ASSUME NEW f \in Work, NEW n
      PROVE  Drop(f, {n}) \in Work
  <2>1. PICK S \in SUBSET Nat : f \in [S -> Call \cup {None}]
    BY Zenon DEF Work
  <2>2. Drop(f, {n}) \in [S \ {n} -> Call \cup {None}] /\ S \ {n} \in SUBSET Nat
    BY <2>1, Zenon DEF Drop, Restrict
  <2>3. QED
    BY <2>2, Zenon DEF Work
<1>5. ASSUME NEW f \in Entries, NEW n
      PROVE  Drop(f, {n}) \in Entries
  <2> DEFINE E == [call : Call \cup {None}, found : BOOLEAN]
  <2>1. PICK S \in SUBSET Nat : f \in [S -> E]
    BY Zenon DEF Entries
  <2> HIDE DEF E
  <2>2. Drop(f, {n}) \in [S \ {n} -> E] /\ S \ {n} \in SUBSET Nat
    BY <2>1, Zenon DEF Drop, Restrict
  <2>3. QED
    BY <2>2, Zenon DEF Entries, E
<1>6. ASSUME NEW f \in Entries, NEW n \in DOMAIN f
      PROVE  [f EXCEPT ![n].found = TRUE] \in Entries
  <2>1. PICK S \in SUBSET Nat : f \in [S -> [call : Call \cup {None}, found : BOOLEAN]]
    BY Zenon DEF Entries
  <2>2. [f EXCEPT ![n].found = TRUE] \in [S -> [call : Call \cup {None}, found : BOOLEAN]]
    BY <2>1, Zenon
  <2>3. QED
    BY <2>1, <2>2, Zenon DEF Entries
<1>7. QED
  BY <1>1, <1>2, <1>3, <1>4, <1>5, <1>6, Zenon

\* New work of b for c, under the next number; s is the swarm but for its record.
Added(b, c, s) ==
    LET n == net.next[b]
    IN  /\ net' \in NetState /\ pending' \in PendingState /\ TablesOK'
        /\ net'.record = s.record /\ net'.open = net.open /\ n \notin DOMAIN net.live[b]
        /\ DOMAIN pending'[b] = DOMAIN pending[b] \cup {n} /\ DOMAIN net'.live[b] = DOMAIN net.live[b] \cup {n}
        /\ pending'[b][n].call = c /\ net'.live[b][n] = c
        /\ \A id \in DOMAIN pending[b] : pending'[b][id] = pending[b][id]
        /\ \A id \in DOMAIN net.live[b] : net'.live[b][id] = net.live[b][id]
        /\ \A d \in Behaviour \ {b} : pending'[d] = pending[d] /\ net'.live[d] = net.live[d]

LEMMA BeginFacts ==
    ASSUME Shape, NEW b \in Behaviour, NEW c \in Call \cup {None}, NEW r \in Call \cup {None}, NEW s,
           s = [net EXCEPT !.record = r], Begin(b, c, s)
    PROVE  Added(b, c, s)
<1> DEFINE n == net.next[b]
           e == [call |-> c, found |-> FALSE]
<1>1. net \in NetState /\ pending \in PendingState /\ TablesOK
  BY Zenon DEF Shape
<1>2. /\ net.live \in [Behaviour -> Work] /\ net.next \in [Behaviour -> Nat] /\ n \in Nat
      /\ s.live = net.live /\ s.next = net.next /\ s.open = net.open /\ s \in NetState
  BY <1>1, Zenon DEF NetState
<1>3. pending \in [Behaviour -> Entries]
  BY <1>1, Zenon DEF PendingState
<1>4. e.call = c
  BY Zenon
<1> DEFINE l == With(net.live[b], n, c)
           p == With(pending[b], n, e)
<1>5. l \in Work /\ p \in Entries
  BY <1>2, <1>3, WorkFacts, Zenon
<1>6. /\ net' = [s EXCEPT !.live[b] = l, !.next[b] = n + 1]
      /\ pending' = [pending EXCEPT ![b] = p]
  BY <1>2, Zenon DEF Begin
<1>7. /\ DOMAIN l = DOMAIN net.live[b] \cup {n} /\ l[n] = c
      /\ \A k \in DOMAIN net.live[b] : k # n => l[k] = net.live[b][k]
      /\ DOMAIN p = DOMAIN pending[b] \cup {n} /\ p[n] = e
      /\ \A k \in DOMAIN pending[b] : k # n => p[k] = pending[b][k]
  <2> HIDE DEF n, e
  <2>1. /\ DOMAIN l = DOMAIN net.live[b] \cup {n} /\ l[n] = c
        /\ \A k \in DOMAIN net.live[b] : k # n => l[k] = net.live[b][k]
    BY Zenon DEF With
  <2>2. /\ DOMAIN p = DOMAIN pending[b] \cup {n} /\ p[n] = e
        /\ \A k \in DOMAIN pending[b] : k # n => p[k] = pending[b][k]
    BY Zenon DEF With
  <2>3. QED
    BY <2>1, <2>2, Zenon
<1> HIDE DEF l, p, e
<1>8. /\ net' \in NetState /\ net'.record = s.record /\ net'.open = net.open
      /\ net'.live[b] = l /\ \A d \in Behaviour \ {b} : net'.live[d] = net.live[d] /\ net'.next[d] = net.next[d]
      /\ net'.next[b] = n + 1
  <2> DEFINE L == [s.live EXCEPT ![b] = l]
             N == [s.next EXCEPT ![b] = n + 1]
  <2>1. L \in [Behaviour -> Work] /\ L[b] = l /\ \A d \in Behaviour \ {b} : L[d] = net.live[d]
    BY <1>2, <1>5, Zenon
  <2>2. N \in [Behaviour -> Nat] /\ N[b] = n + 1 /\ \A d \in Behaviour \ {b} : N[d] = net.next[d]
    BY <1>2
  <2>3. net' = [s EXCEPT !.live = L, !.next = N]
    BY <1>2, <1>6, Zenon DEF NetState
  <2> HIDE DEF L, N
  <2>4. /\ net' \in NetState /\ net'.record = s.record /\ net'.open = s.open
        /\ net'.live = L /\ net'.next = N
    BY <1>2, <2>1, <2>2, <2>3, Zenon DEF NetState
  <2>5. QED
    BY <1>2, <2>1, <2>2, <2>4, Zenon
<1>9. /\ pending' \in PendingState /\ pending'[b] = p
      /\ \A d \in Behaviour \ {b} : pending'[d] = pending[d]
  BY <1>3, <1>5, <1>6, Zenon DEF PendingState
<1>10. n \notin DOMAIN net.live[b] /\ n \notin DOMAIN pending[b]
  <2>1. ~(n < n)
    BY <1>2
  <2>2. QED
    BY <1>1, <2>1, Zenon DEF TablesOK
<1>11. TablesOK'
  <2> SUFFICES ASSUME NEW d \in Behaviour
               PROVE  /\ DOMAIN pending'[d] \subseteq DOMAIN net'.live[d]
                      /\ \A id \in DOMAIN net'.live[d] : id < net'.next[d]
    BY Zenon DEF TablesOK
  <2>1. CASE d # b
    BY <1>1, <1>8, <1>9, <2>1, Zenon DEF TablesOK
  <2>2. CASE d = b
    <3>1. DOMAIN net.live[b] \subseteq Nat
      <4>1. \A f \in Work : DOMAIN f \subseteq Nat
        BY Zenon DEF Work
      <4>2. QED
        BY <1>2, <4>1, Zenon
    <3>2. \A id \in DOMAIN net.live[b] \cup {n} : id < n + 1
      BY <1>1, <1>2, <3>1 DEF TablesOK
    <3>3. QED
      BY <1>1, <1>7, <1>8, <1>9, <2>2, <3>2, Zenon DEF TablesOK
  <2>3. QED
    BY <2>1, <2>2, Zenon
<1>12. QED
  BY <1>4, <1>7, <1>8, <1>9, <1>10, <1>11, Zenon DEF Added

\* Work of b ends; a failed publication may take the record with it.
Removed(b, n) ==
    /\ net' \in NetState /\ pending' \in PendingState /\ TablesOK' /\ net'.open = net.open
    /\ DOMAIN pending'[b] = DOMAIN pending[b] \ {n} /\ DOMAIN net'.live[b] = DOMAIN net.live[b] \ {n}
    /\ \A id \in DOMAIN pending[b] \ {n} : pending'[b][id] = pending[b][id]
    /\ \A id \in DOMAIN net.live[b] \ {n} : net'.live[b][id] = net.live[b][id]
    /\ \A d \in Behaviour \ {b} : pending'[d] = pending[d] /\ net'.live[d] = net.live[d]

LEMMA EndFacts ==
    ASSUME Shape, NEW b \in Behaviour, NEW n, NEW r \in Call \cup {None},
           net' = [net EXCEPT !.live[b] = Drop(@, {n}), !.record = r],
           pending' = [pending EXCEPT ![b] = Drop(@, {n})]
    PROVE  Removed(b, n) /\ net'.record = r
<1>1. net \in NetState /\ pending \in PendingState /\ TablesOK
  BY Zenon DEF Shape
<1>2. net.live \in [Behaviour -> Work]
  BY <1>1, Zenon DEF NetState
<1>3. pending \in [Behaviour -> Entries]
  BY <1>1, Zenon DEF PendingState
<1> DEFINE l == Drop(net.live[b], {n})
           p == Drop(pending[b], {n})
           L == [net.live EXCEPT ![b] = l]
<1>4. l \in Work /\ p \in Entries
  BY <1>2, <1>3, WorkFacts, Zenon
<1>5. net' = [net EXCEPT !.live = L, !.record = r]
  BY <1>2, Zenon
<1>6. pending' = [pending EXCEPT ![b] = p]
  BY Zenon
<1>7. /\ DOMAIN l = DOMAIN net.live[b] \ {n} /\ DOMAIN p = DOMAIN pending[b] \ {n}
      /\ \A id \in DOMAIN net.live[b] \ {n} : l[id] = net.live[b][id]
      /\ \A id \in DOMAIN pending[b] \ {n} : p[id] = pending[b][id]
  BY DropFacts, ZenonT(60)
<1> HIDE DEF l, p
<1>8. L \in [Behaviour -> Work] /\ L[b] = l /\ \A d \in Behaviour \ {b} : L[d] = net.live[d]
  BY <1>2, <1>4, Zenon
<1>9. pending' \in PendingState /\ pending'[b] = p /\ \A d \in Behaviour \ {b} : pending'[d] = pending[d]
  BY <1>3, <1>4, <1>6, Zenon DEF PendingState
<1> HIDE DEF L
<1>10. /\ net' \in NetState /\ net'.open = net.open /\ net'.record = r
       /\ net'.live = L /\ net'.next = net.next
  BY <1>1, <1>5, <1>8, Zenon DEF NetState
<1>11. TablesOK'
  <2> SUFFICES ASSUME NEW d \in Behaviour
               PROVE  /\ DOMAIN pending'[d] \subseteq DOMAIN net'.live[d]
                      /\ \A id \in DOMAIN net'.live[d] : id < net'.next[d]
    BY Zenon DEF TablesOK
  <2>1. CASE d # b
    BY <1>1, <1>8, <1>9, <1>10, <2>1, Zenon DEF TablesOK
  <2>2. CASE d = b
    BY <1>1, <1>7, <1>8, <1>9, <1>10, <2>2, Zenon DEF TablesOK
  <2>3. QED
    BY <2>1, <2>2, Zenon
<1>12. QED
  BY <1>7, <1>8, <1>9, <1>10, <1>11, Zenon DEF Removed

\* Nothing under way, in a swarm that is new.
LEMMA FreshFacts ==
    ASSUME NEW n \in Nat
    PROVE  /\ NoWork \in PendingState /\ \A b \in Behaviour : NoWork[b] = <<>>
           /\ [NewSwarm EXCEPT !.reloads = n] \in NetState
           /\ [NewSwarm EXCEPT !.reloads = n].live = NoWork
           /\ [NewSwarm EXCEPT !.reloads = n].record = None
           /\ [NewSwarm EXCEPT !.reloads = n].open = {}
           /\ NewSwarm \in NetState /\ NewSwarm.live = NoWork /\ NewSwarm.record = None /\ NewSwarm.open = {}
           /\ UnknownPeer \in PeerState /\ UnknownPeer.identity = FALSE /\ UnknownPeer.protocols # "pq"
<1>1. NoWork \in PendingState /\ NoWork \in [Behaviour -> Work] /\ \A b \in Behaviour : NoWork[b] = <<>>
  BY WorkFacts, Zenon DEF NoWork, PendingState
<1>2. UnknownPeer \in PeerState /\ UnknownPeer.identity = FALSE /\ UnknownPeer.protocols # "pq"
  BY Zenon DEF UnknownPeer, PeerState
<1>3. /\ NewSwarm \in NetState /\ NewSwarm.live = NoWork /\ NewSwarm.record = None /\ NewSwarm.open = {}
      /\ NewSwarm.reloads = 0
  <2> HIDE DEF NoWork
  <2>1. [b \in Behaviour |-> 0] \in [Behaviour -> Nat]
    BY Zenon
  <2>2. QED
    BY <1>1, <2>1, Zenon DEF NewSwarm, NetState
<1>4. /\ [NewSwarm EXCEPT !.reloads = n] \in NetState /\ [NewSwarm EXCEPT !.reloads = n].live = NewSwarm.live
      /\ [NewSwarm EXCEPT !.reloads = n].record = NewSwarm.record
      /\ [NewSwarm EXCEPT !.reloads = n].open = NewSwarm.open
  BY <1>3, Zenon DEF NetState
<1>5. QED
  BY <1>1, <1>2, <1>3, <1>4, Zenon

-----------------------------------------------------------------------------
(* Callers and the tables                                                  *)

\* The entries that wake callers stay, and the work they belong to.
SameOwners ==
    \A b \in Waking :
        /\ \A id : id \in DOMAIN pending'[b] <=> id \in DOMAIN pending[b]
        /\ \A id \in DOMAIN pending[b] : pending'[b][id].call = pending[b][id].call
                                         /\ net'.live[b][id] = net.live[b][id]

\* A caller that no entry belongs to moves on, or none does.
LEMMA CallsMove ==
    ASSUME Calls, SameOwners, net'.record = net.record \/ net'.record = None,
           \A d \in Call : \/ call'[d] = call[d]
                           \/ /\ call[d].state \in {"new", "sent"} /\ call'[d].state # "waiting"
                              /\ call'[d].result # None <=> call'[d].state = "done"
    PROVE  Calls'
<1>0. "new" # "waiting" /\ "sent" # "waiting" /\ {"new", "sent"} \cap {"waiting", "done", "gone"} = {}
  BY Zenon
<1>1. Owners'
  <2> SUFFICES ASSUME NEW b \in Waking, NEW id \in DOMAIN pending[b]
               PROVE  \E c \in Call :
                         /\ pending'[b][id].call = c /\ net'.live[b][id] = c /\ call'[c].state = "waiting"
                         /\ b # "kad" => call'[c].kind = "send"
                         /\ \A d \in Waking : \A n \in DOMAIN pending'[d] :
                               pending'[d][n].call = c => d = b /\ n = id
    BY DEF Owners, SameOwners
  <2>1. PICK c \in Call :
            /\ pending[b][id].call = c /\ net.live[b][id] = c /\ call[c].state = "waiting"
            /\ b # "kad" => call[c].kind = "send"
            /\ \A d \in Waking : \A n \in DOMAIN pending[d] : pending[d][n].call = c => d = b /\ n = id
    BY Zenon DEF Calls, Owners
  <2>2. call'[c] = call[c]
    BY <1>0, <2>1, Zenon
  <2>3. /\ \A d \in Waking : \A n \in DOMAIN pending'[d] : pending'[d][n].call = c => d = b /\ n = id
        /\ pending'[b][id].call = c /\ net'.live[b][id] = c
    BY <2>1 DEF SameOwners
  <2>4. QED
    BY <2>1, <2>2, <2>3, Zenon
<1>2. Woken'
  <2> SUFFICES ASSUME NEW c \in Call, call'[c].state = "waiting"
               PROVE  \E b \in Waking : \E id \in DOMAIN pending'[b] : pending'[b][id].call = c
    BY Zenon DEF Woken, Waiting
  <2>1. call[c].state = "waiting"
    BY Zenon
  <2>2. QED
    BY <2>1 DEF Calls, Woken, Waiting, SameOwners
<1>3. Results'
  BY Zenon DEF Calls, Results
<1>4. Record'
  <2> SUFFICES ASSUME NEW c \in Call, net'.record = c, c # None
               PROVE  /\ call'[c].state \in {"waiting", "done", "gone"}
                      /\ call'[c].state = "waiting" => call'[c].kind = "put"
                      /\ call'[c].state = "done" => call'[c].result = "ok"
    BY Zenon DEF Record
  <2>1. call'[c] = call[c]
    BY <1>0, Zenon DEF Calls, Record
  <2>2. QED
    BY <2>1, ZenonT(60) DEF Calls, Record
<1>5. QED
  BY <1>1, <1>2, <1>3, <1>4, Zenon DEF Calls

\* The actor begins work for the caller c.
LEMMA CallsBegin ==
    ASSUME Shape, Calls, NEW b \in Waking, NEW c \in Call, NEW s, Added(b, c, s),
           call[c].state = "sent", b # "kad" => call[c].kind = "send",
           call' = [call EXCEPT ![c].state = "waiting"],
           s.record = net.record \/ (s.record = c /\ call[c].kind = "put")
    PROVE  Calls'
<1> DEFINE n == net.next[b]
<1>1. /\ Waking \subseteq Behaviour /\ "sent" # "waiting" /\ "sent" # "done"
      /\ ~("sent" \in {"waiting", "done", "gone"})
  BY Zenon DEF Waking, Behaviour
<1>2. call \in [Call -> CallState]
  BY Zenon DEF Shape
<1>3. /\ call'[c].state = "waiting" /\ call'[c].kind = call[c].kind /\ call'[c].result = call[c].result
      /\ \A d \in Call \ {c} : call'[d] = call[d]
  BY <1>2, Zenon DEF CallState
<1>4. /\ DOMAIN pending'[b] = DOMAIN pending[b] \cup {n} /\ pending'[b][n].call = c /\ net'.live[b][n] = c
      /\ \A d \in Waking : \A id \in DOMAIN pending[d] :
            /\ id \in DOMAIN pending'[d] /\ pending'[d][id] = pending[d][id]
            /\ net'.live[d][id] = net.live[d][id] /\ ~(d = b /\ id = n)
      /\ \A d \in Waking : \A id \in DOMAIN pending'[d] : id \in DOMAIN pending[d] \/ (d = b /\ id = n)
      /\ net'.record = s.record
  <2>1. TablesOK
    BY Zenon DEF Shape
  <2>2. \A d \in Waking : \A id \in DOMAIN pending[d] : d = b /\ id = n => FALSE
    BY <1>1, <2>1, Zenon DEF TablesOK, Added
  <2>3. \A d \in Waking : \A id \in DOMAIN pending[d] : id \in DOMAIN net.live[d]
    BY <1>1, <2>1, Zenon DEF TablesOK
  <2>4. \A d \in Waking : \A id \in DOMAIN pending[d] :
            /\ id \in DOMAIN pending'[d] /\ pending'[d][id] = pending[d][id]
            /\ net'.live[d][id] = net.live[d][id]
    BY <1>1, <2>3, Zenon DEF Added
  <2>5. \A d \in Waking : \A id \in DOMAIN pending'[d] : id \in DOMAIN pending[d] \/ (d = b /\ id = n)
    <3> SUFFICES ASSUME NEW d \in Waking, NEW id \in DOMAIN pending'[d]
                 PROVE  id \in DOMAIN pending[d] \/ (d = b /\ id = n)
      BY Zenon
    <3>0. DOMAIN pending'[b] = DOMAIN pending[b] \cup {n}
      BY Zenon DEF Added
    <3>1. CASE d = b
      <4> HIDE DEF n
      <4>1. QED
        BY <3>0, <3>1, Zenon
    <3>2. CASE d # b
      <4>1. d \in Behaviour \ {b}
        BY <1>1, <3>2, Zenon
      <4>2. pending'[d] = pending[d]
        BY <4>1, Zenon DEF Added
      <4>3. QED
        BY <4>2, Zenon
    <3>3. QED
      BY <3>1, <3>2, Zenon
  <2>6. QED
    BY <2>2, <2>4, <2>5 DEF Added
<1> HIDE DEF n
<1>5. \A d \in Waking : \A id \in DOMAIN pending[d] : pending[d][id].call # c
  BY <1>1 DEF Calls, Owners
<1>6. Owners'
  <2> SUFFICES ASSUME NEW d \in Waking, NEW id \in DOMAIN pending'[d]
               PROVE  \E o \in Call :
                         /\ pending'[d][id].call = o /\ net'.live[d][id] = o /\ call'[o].state = "waiting"
                         /\ d # "kad" => call'[o].kind = "send"
                         /\ \A e \in Waking : \A k \in DOMAIN pending'[e] :
                               pending'[e][k].call = o => e = d /\ k = id
    BY Zenon DEF Owners
  <2>1. CASE d = b /\ id = n
    BY <1>3, <1>4, <1>5, <2>1
  <2>2. CASE id \in DOMAIN pending[d]
    <3>1. PICK o \in Call :
              /\ pending[d][id].call = o /\ net.live[d][id] = o /\ call[o].state = "waiting"
              /\ d # "kad" => call[o].kind = "send"
              /\ \A e \in Waking : \A k \in DOMAIN pending[e] : pending[e][k].call = o => e = d /\ k = id
      BY <2>2, Zenon DEF Calls, Owners
    <3>2. o # c /\ call'[o] = call[o]
      BY <1>3, <1>5, <2>2, <3>1, Zenon
    <3>3. pending'[d][id].call = o /\ net'.live[d][id] = o
      BY <1>4, <2>2, <3>1
    <3>4. \A e \in Waking : \A k \in DOMAIN pending'[e] : pending'[e][k].call = o => e = d /\ k = id
      BY <1>4, <3>1, <3>2
    <3>5. QED
      BY <3>1, <3>2, <3>3, <3>4, Zenon
  <2>3. QED
    BY <1>4, <2>1, <2>2, Zenon
<1>7. Woken'
  <2> SUFFICES ASSUME NEW d \in Call, call'[d].state = "waiting"
               PROVE  \E e \in Waking : \E id \in DOMAIN pending'[e] : pending'[e][id].call = d
    BY Zenon DEF Woken, Waiting
  <2>1. CASE d = c
    <3>1. n \in DOMAIN pending'[b]
      BY <1>4, Zenon
    <3>2. QED
      BY <1>4, <2>1, <3>1, Zenon
  <2>2. CASE d # c
    BY <1>3, <1>4, <2>2 DEF Calls, Woken, Waiting
  <2>3. QED
    BY <2>1, <2>2, Zenon
<1>8. Results'
  BY <1>1, <1>3, Zenon DEF Calls, Results
<1>9. Record'
  <2> SUFFICES ASSUME NEW d \in Call, net'.record = d, d # None
               PROVE  /\ call'[d].state \in {"waiting", "done", "gone"}
                      /\ call'[d].state = "waiting" => call'[d].kind = "put"
                      /\ call'[d].state = "done" => call'[d].result = "ok"
    BY Zenon DEF Record
  <2>1. CASE d = c
    <3>1. net.record # c
      BY <1>1, <2>1, Zenon DEF Calls, Record
    <3>2. call[c].kind = "put"
      BY <1>4, <2>1, <3>1, Zenon
    <3>3. QED
      BY <1>3, <2>1, <3>2, Zenon
  <2>2. CASE d # c
    BY <1>3, <1>4, <2>2 DEF Calls, Record
  <2>3. QED
    BY <2>1, <2>2, Zenon
<1>10. QED
  BY <1>6, <1>7, <1>8, <1>9, Zenon DEF Calls

\* Work ends, with a result for the caller whose entry it was, if any.
LEMMA CallsEnd ==
    ASSUME Shape, Calls, NEW b \in Waking, NEW n, Removed(b, n), NEW result \in {"ok", "error"},
           Resolve({pending[b][k].call : k \in DOMAIN pending[b] \cap {n}}, result),
           net'.record = net.record \/ net'.record = None,
           \A c \in Call : n \in DOMAIN pending[b] /\ pending[b][n].call = c /\ call[c].kind = "put" /\ result # "ok"
                           => net'.record = None
    PROVE  Calls'
<1>1. Waking \subseteq Behaviour
  BY Zenon DEF Waking, Behaviour
<1>2. /\ \A d \in Waking : \A id \in DOMAIN pending'[d] :
            /\ id \in DOMAIN pending[d] /\ pending'[d][id] = pending[d][id] /\ net'.live[d][id] = net.live[d][id]
            /\ ~(d = b /\ id = n)
      /\ \A d \in Waking : \A id \in DOMAIN pending[d] : id \in DOMAIN pending'[d] \/ (d = b /\ id = n)
  <2>1. \A d \in Behaviour : \A id \in DOMAIN pending[d] : id \in DOMAIN net.live[d]
    BY Zenon DEF Shape, TablesOK
  <2>2. \A d \in Waking \ {b} : pending'[d] = pending[d] /\ net'.live[d] = net.live[d]
    BY <1>1, Zenon DEF Removed
  <2>3. /\ \A id \in DOMAIN pending'[b] : id \in DOMAIN pending[b] \ {n}
        /\ \A id \in DOMAIN pending[b] \ {n} : /\ id \in DOMAIN pending'[b] /\ pending'[b][id] = pending[b][id]
                                               /\ net'.live[b][id] = net.live[b][id]
    BY <1>1, <2>1, Zenon DEF Removed
  <2>4. \A d \in Waking : d = b \/ d \in Waking \ {b}
    BY Zenon
  <2>5. \A d \in Waking \ {b} : \A id : id \in DOMAIN pending'[d] <=> id \in DOMAIN pending[d]
    BY <2>2, Zenon
  <2>6. QED
    BY <2>2, <2>3, <2>4, <2>5, Zenon
<1>3. CASE n \notin DOMAIN pending[b]
  <2>1. call' = [c \in Call |-> call[c]]
    BY <1>3, Zenon DEF Resolve
  <2>2. SameOwners
    BY <1>2, <1>3 DEF SameOwners
  <2>3. QED
    BY <2>1, <2>2, CallsMove, Zenon
<1>4. CASE n \in DOMAIN pending[b]
  <2>1. PICK c \in Call :
            /\ pending[b][n].call = c /\ call[c].state = "waiting"
            /\ \A d \in Waking : \A k \in DOMAIN pending[d] : pending[d][k].call = c => d = b /\ k = n
    BY <1>4 DEF Calls, Owners
  <2>2. {pending[b][k].call : k \in DOMAIN pending[b] \cap {n}} = {c}
    BY <1>4, <2>1, Zenon
  <2>3. /\ call'[c] = Answered(result) /\ \A d \in Call \ {c} : call'[d] = call[d]
    BY <2>2, Zenon DEF Resolve
  <2>4. call'[c].state = "done" /\ call'[c].result = result /\ result # None
    BY <2>3 DEF Answered, None
  <2>5. Owners'
    <3> SUFFICES ASSUME NEW d \in Waking, NEW id \in DOMAIN pending'[d]
                 PROVE  \E o \in Call :
                           /\ pending'[d][id].call = o /\ net'.live[d][id] = o /\ call'[o].state = "waiting"
                           /\ d # "kad" => call'[o].kind = "send"
                           /\ \A e \in Waking : \A k \in DOMAIN pending'[e] :
                                 pending'[e][k].call = o => e = d /\ k = id
      BY Zenon DEF Owners
    <3>1. id \in DOMAIN pending[d]
      BY <1>2, Zenon
    <3>2. PICK o \in Call :
              /\ pending[d][id].call = o /\ net.live[d][id] = o /\ call[o].state = "waiting"
              /\ d # "kad" => call[o].kind = "send"
              /\ \A e \in Waking : \A k \in DOMAIN pending[e] : pending[e][k].call = o => e = d /\ k = id
      BY <3>1 DEF Calls, Owners
    <3>3. o # c /\ call'[o] = call[o]
      BY <1>2, <2>1, <2>3, <3>1, <3>2
    <3>4. /\ pending'[d][id].call = o /\ net'.live[d][id] = o
          /\ \A e \in Waking : \A k \in DOMAIN pending'[e] : pending'[e][k].call = o => e = d /\ k = id
      BY <1>2, <3>2
    <3>5. QED
      BY <3>2, <3>3, <3>4, Zenon
  <2>6. Woken'
    <3> SUFFICES ASSUME NEW d \in Call, call'[d].state = "waiting"
                 PROVE  \E e \in Waking : \E id \in DOMAIN pending'[e] : pending'[e][id].call = d
      BY Zenon DEF Woken, Waiting
    <3>1. d # c /\ call[d].state = "waiting"
      BY <2>3, <2>4, Zenon
    <3>2. PICK e \in Waking : \E id \in DOMAIN pending[e] : pending[e][id].call = d
      BY <3>1, Zenon DEF Calls, Woken, Waiting
    <3>3. PICK id \in DOMAIN pending[e] : pending[e][id].call = d
      BY <3>2, Zenon
    <3>4. id \in DOMAIN pending'[e] /\ pending'[e][id] = pending[e][id]
      BY <1>2, <2>1, <3>1, <3>3
    <3>5. QED
      BY <3>3, <3>4, Zenon
  <2>7. Results'
    BY <2>3, <2>4, Zenon DEF Calls, Results
  <2>8. Record'
    <3> SUFFICES ASSUME NEW d \in Call, net'.record = d, d # None
                 PROVE  /\ call'[d].state \in {"waiting", "done", "gone"}
                        /\ call'[d].state = "waiting" => call'[d].kind = "put"
                        /\ call'[d].state = "done" => call'[d].result = "ok"
      BY Zenon DEF Record
    <3>1. net.record = d
      BY Zenon
    <3>2. CASE d = c
      <4>1. call[c].kind = "put"
        BY <2>1, <3>1, <3>2, Zenon DEF Calls, Record
      <4>2. result = "ok"
        BY <1>4, <2>1, <3>2, <4>1, Zenon
      <4>3. QED
        BY <2>4, <3>2, <4>2, Zenon
    <3>3. CASE d # c
      BY <2>3, <3>1, <3>3, Zenon DEF Calls, Record
    <3>4. QED
      BY <3>2, <3>3, Zenon
  <2>9. QED
    BY <2>5, <2>6, <2>7, <2>8, Zenon DEF Calls
<1>5. QED
  BY <1>3, <1>4, Zenon

\* Nothing is under way and nobody waits.
LEMMA CallsClear ==
    ASSUME \A b \in Waking : DOMAIN pending'[b] = {}, net'.record = None,
           \A c \in Call : call'[c].state # "waiting" /\ (call'[c].result # None <=> call'[c].state = "done")
    PROVE  Calls'
<1>1. Owners'
  BY Zenon DEF Owners
<1>2. Woken' /\ Results' /\ Record'
  BY Zenon DEF Woken, Waiting, Results, Record
<1>3. QED
  BY <1>1, <1>2, Zenon DEF Calls

-----------------------------------------------------------------------------
(* The command queue                                                       *)

LEMMA HeadFacts ==
    ASSUME Queued, NEW op, Taken(op)
    PROVE  /\ running /\ Head(commands) \in Command /\ Head(commands).op = op
           /\ Head(commands) = commands[1] /\ 1 \in 1..Len(commands)
           /\ op = "respond" => Head(commands).arg \in Inbound
           /\ op \in Kinds => /\ Head(commands).arg \in Call
                              /\ call[Head(commands).arg].state = "sent"
                              /\ call[Head(commands).arg].kind = op
<1>1. running /\ commands \in Seq(Command) /\ commands # <<>> /\ Head(commands).op = op
  BY Zenon DEF Queued, Taken
<1>2. Head(commands) \in Command /\ Head(commands) = commands[1] /\ 1 \in 1..Len(commands)
  BY <1>1
<1>3. QED
  BY <1>1, <1>2, Zenon DEF Queued, IsCall

\* A command is taken; the other callers that have sent one are not touched.
LEMMA QueueTail ==
    ASSUME Queued, NEW op, Taken(op), running' \in BOOLEAN,
           running' => \A d \in Call : \/ call'[d] = call[d] \/ call[d].state # "sent"
                                       \/ op \in Kinds /\ d = Head(commands).arg
    PROVE  /\ Queued'
           /\ \A i : op # "respond" \/ Head(commands).arg # i => (RespondQueued(i) => RespondQueued(i)')
<1>1. /\ running /\ Head(commands).op = op /\ Head(commands) = commands[1] /\ 1 \in 1..Len(commands)
      /\ commands \in Seq(Command) /\ commands' = Tail(commands) /\ commands # <<>>
  BY HeadFacts, Zenon DEF Taken, Queued
<1>2. /\ commands' \in Seq(Command) /\ Len(commands') = Len(commands) - 1 /\ Len(commands) \in Nat
      /\ \A n \in 1..Len(commands') : commands'[n] = commands[n + 1]
      /\ \A n \in 1..Len(commands') : n + 1 \in 1..Len(commands) /\ n + 1 # 1
      /\ \A n, m \in 1..Len(commands') : n + 1 = m + 1 => n = m
  BY <1>1
<1>3. \A n \in 1..Len(commands') :
          /\ commands'[n].op = "respond" => commands'[n].arg \in Inbound
          /\ IsCall(commands'[n]) => commands'[n].arg \in Call
  BY <1>2, ZenonT(60) DEF Queued
<1>4. ASSUME running', NEW n \in 1..Len(commands'), IsCall(commands'[n])
      PROVE  /\ call'[commands'[n].arg].state = "sent" /\ call'[commands'[n].arg].kind = commands'[n].op
             /\ \A m \in 1..Len(commands') : IsCall(commands'[m]) /\ commands'[m].arg = commands'[n].arg => m = n
  <2>1. n + 1 \in 1..Len(commands) /\ commands'[n] = commands[n + 1] /\ n + 1 # 1
    BY <1>2, Zenon
  <2>2. /\ call[commands[n + 1].arg].state = "sent" /\ call[commands[n + 1].arg].kind = commands[n + 1].op
        /\ \A m \in 1..Len(commands) : IsCall(commands[m]) /\ commands[m].arg = commands[n + 1].arg => m = n + 1
        /\ commands[n + 1].arg \in Call
    BY <1>1, <1>4, <2>1, Zenon DEF Queued
  <2>3. ~(op \in Kinds /\ commands[n + 1].arg = Head(commands).arg)
    BY <1>1, <2>1, <2>2, Zenon DEF IsCall
  <2>4. call'[commands[n + 1].arg] = call[commands[n + 1].arg]
    BY <1>4, <2>2, <2>3, Zenon
  <2>5. \A m \in 1..Len(commands') : IsCall(commands'[m]) /\ commands'[m].arg = commands'[n].arg => m = n
    BY <1>2, <2>1, <2>2, Zenon
  <2>6. QED
    BY <2>1, <2>2, <2>4, <2>5, Zenon
<1>5. Queued'
  BY <1>2, <1>3, <1>4, Zenon DEF Queued, IsCall
<1>6. ASSUME NEW i, op # "respond" \/ Head(commands).arg # i, RespondQueued(i)
      PROVE  RespondQueued(i)'
  <2>1. PICK n \in 1..Len(commands) : commands[n] = [op |-> "respond", arg |-> i]
    BY <1>6, Zenon DEF RespondQueued
  <2>2. n # 1
    BY <1>1, <1>6, <2>1
  <2>3. n - 1 \in 1..Len(commands') /\ (n - 1) + 1 = n
    BY <1>2, <2>2
  <2>4. commands'[n - 1] = [op |-> "respond", arg |-> i]
    BY <1>2, <2>1, <2>3, Zenon
  <2>5. QED
    BY <2>3, <2>4, Zenon DEF RespondQueued
<1>7. QED
  BY <1>5, <1>6, Zenon

\* The queue stays, and so do the callers that have sent a command.
LEMMA QueueSame ==
    ASSUME Queued, UNCHANGED <<commands, running>>,
           \A d \in Call : call'[d] = call[d] \/ call[d].state # "sent"
    PROVE  Queued' /\ \A i : RespondQueued(i) => RespondQueued(i)'
<1>1. ASSUME running, NEW n \in 1..Len(commands), IsCall(commands[n])
      PROVE  call'[commands[n].arg] = call[commands[n].arg]
  BY <1>1, Zenon DEF Queued
<1>2. Queued'
  BY <1>1, Zenon DEF Queued, IsCall
<1>3. QED
  BY <1>2, Zenon DEF RespondQueued

\* A command is sent: for a caller that has sent none, or for nobody.
LEMMA QueueAppend ==
    ASSUME Queued, NEW command \in Command, commands' = Append(commands, command), UNCHANGED running,
           \A d \in Call : call'[d] = call[d] \/ call[d].state # "sent",
           command.op = "respond" => command.arg \in Inbound,
           IsCall(command) => /\ command.arg \in Call /\ call[command.arg].state # "sent"
                              /\ call'[command.arg].state = "sent" /\ call'[command.arg].kind = command.op
    PROVE  /\ Queued' /\ \A i : RespondQueued(i) => RespondQueued(i)'
           /\ \A i : command = [op |-> "respond", arg |-> i] => RespondQueued(i)'
<1>1. commands \in Seq(Command) /\ Len(commands) \in Nat
  BY DEF Queued
<1> DEFINE l == Len(commands) + 1
<1>2. /\ commands' \in Seq(Command) /\ Len(commands') = l /\ commands'[l] = command /\ l \in 1..Len(commands')
      /\ \A n \in 1..Len(commands) : commands'[n] = commands[n] /\ n \in 1..Len(commands')
      /\ \A n \in 1..Len(commands') : n = l \/ n \in 1..Len(commands)
  BY <1>1
<1> HIDE DEF l
<1>3. \A n \in 1..Len(commands') :
          /\ commands'[n].op = "respond" => commands'[n].arg \in Inbound
          /\ IsCall(commands'[n]) => commands'[n].arg \in Call
  BY <1>2 DEF Queued
<1>4. ASSUME running, NEW n \in 1..Len(commands), IsCall(commands[n])
      PROVE  /\ call'[commands[n].arg] = call[commands[n].arg] /\ call[commands[n].arg].state = "sent"
             /\ call[commands[n].arg].kind = commands[n].op
             /\ \A m \in 1..Len(commands) : IsCall(commands[m]) /\ commands[m].arg = commands[n].arg => m = n
  BY <1>4, Zenon DEF Queued
<1>5. ASSUME running, NEW n \in 1..Len(commands'), IsCall(commands'[n])
      PROVE  /\ call'[commands'[n].arg].state = "sent" /\ call'[commands'[n].arg].kind = commands'[n].op
             /\ \A m \in 1..Len(commands') : IsCall(commands'[m]) /\ commands'[m].arg = commands'[n].arg => m = n
  <2>1. CASE n = l
    BY <1>2, <1>4, <1>5, <2>1
  <2>2. CASE n \in 1..Len(commands)
    BY <1>2, <1>4, <1>5, <2>2
  <2>3. QED
    BY <1>2, <2>1, <2>2, Zenon
<1>6. Queued'
  BY <1>2, <1>3, <1>5, Zenon DEF Queued, IsCall
<1>7. \A i : RespondQueued(i) => RespondQueued(i)'
  BY <1>2, Zenon DEF RespondQueued
<1>8. \A i : command = [op |-> "respond", arg |-> i] => RespondQueued(i)'
  BY <1>2, Zenon DEF RespondQueued
<1>9. QED
  BY <1>6, <1>7, <1>8, Zenon

-----------------------------------------------------------------------------
(* Inbound requests                                                        *)

\* A request that the step does not touch.
LEMMA InboundKept ==
    ASSUME NEW i \in Inbound, InboundOK(i), inbound'[i] = inbound[i], UNCHANGED config,
           inbound[i].state = "pending" =>
               running' /\ inbound[i].conn \in net'.open /\ (RespondQueued(i) => RespondQueued(i)')
    PROVE  InboundOK(i)'
  BY Zenon DEF InboundOK

\* A request that is answered, or whose channel is dropped.
LEMMA InboundClosed ==
    ASSUME NEW i \in Inbound, inbound \in [Inbound -> InboundState], InboundOK(i),
           inbound[i].state \in {"new", "pending"},
           inbound'[i] = Replied(inbound[i]) \/ inbound'[i] = Dropped(inbound[i])
    PROVE  InboundOK(i)' /\ inbound'[i] \in InboundState
<1>1. inbound[i] \in InboundState /\ inbound[i].replies = 0
  BY Zenon DEF InboundOK
<1>2. /\ inbound'[i] \in InboundState /\ inbound'[i].replies <= 1
      /\ inbound'[i].state \in {"replied", "dropped"}
  <2>1. PICK e \in InboundState : e = inbound[i]
    BY <1>1, Zenon
  <2>2. Replied(e) \in InboundState /\ Replied(e).replies = e.replies + 1 /\ Replied(e).state = "replied"
    <3>1. e.replies \in Nat /\ e.replies + 1 \in Nat
      BY DEF InboundState
    <3>2. PICK n \in Nat : n = e.replies + 1
      BY <3>1, Zenon
    <3>3. Replied(e) = [e EXCEPT !.state = "replied", !.conn = None, !.pq = FALSE, !.replies = n]
      BY <3>2, Zenon DEF Replied
    <3>4. QED
      BY <3>2, <3>3, Zenon DEF InboundState
  <2>3. Dropped(e) \in InboundState /\ Dropped(e).replies = e.replies /\ Dropped(e).state = "dropped"
    BY Zenon DEF Dropped, InboundState
  <2>4. e.replies = 0 /\ (inbound'[i] = Replied(e) \/ inbound'[i] = Dropped(e))
    BY <1>1, <2>1, Zenon
  <2>5. QED
    BY <2>2, <2>3, <2>4
<1>3. inbound'[i].state # "new" /\ inbound'[i].state # "pending"
  BY <1>2, Zenon
<1>4. QED
  BY <1>2, <1>3, Zenon DEF InboundOK

\* Steps that leave all requests, and the connections they came over.
LEMMA InboundSame ==
    ASSUME Inv, UNCHANGED <<inbound, config, running>>, net.open \subseteq net'.open,
           \A i \in Inbound : RespondQueued(i) => RespondQueued(i)'
    PROVE  \A i \in Inbound : InboundOK(i)'
<1> SUFFICES ASSUME NEW i \in Inbound
             PROVE  InboundOK(i)'
  BY Zenon
<1>1. InboundOK(i) /\ inbound'[i] = inbound[i]
  BY Zenon DEF Inv
<1>2. inbound[i].state = "pending" => running' /\ inbound[i].conn \in net'.open
  BY <1>1, Zenon DEF InboundOK
<1>3. QED
  BY <1>1, <1>2, InboundKept, Zenon

-----------------------------------------------------------------------------
(* Commands                                                                *)

Op == {"get", "providers", "closest", "put", "provide", "remove", "local", "send", "reload"}

\* The caller of the command that is taken has sent it and waits for nothing yet.
LEMMA CallerFacts ==
    ASSUME Inv, NEW op \in Op, Taken(op)
    PROVE  /\ op \in Kinds /\ op # "respond" /\ Head(commands).arg \in Call
           /\ call[Head(commands).arg].state = "sent" /\ call[Head(commands).arg].kind = op
<1>1. op # "respond" /\ op # "shutdown"
  BY Zenon DEF Op
<1>2. Head(commands) \in Command /\ Head(commands).op = op
  BY HeadFacts, Zenon DEF Inv
<1>3. op \in Kinds
  BY <1>1, <1>2, Zenon DEF Command
<1>4. QED
  BY <1>1, <1>3, HeadFacts, Zenon DEF Inv

\* The callers that Resolve answers.
LEMMA ResolveFacts ==
    ASSUME call \in [Call -> CallState], NEW cs, NEW result \in {"ok", "error"}, Resolve(cs, result)
    PROVE  /\ call' \in [Call -> CallState]
           /\ \A d \in Call \ cs : call'[d] = call[d]
           /\ \A d \in Call \cap cs : /\ call'[d] = Answered(result) /\ call'[d].state = "done"
                                      /\ call'[d].result = result /\ result # None
<1>1. /\ Answered(result) \in CallState /\ Answered(result).state = "done"
      /\ Answered(result).result = result /\ result # None
  BY Zenon DEF Answered, CallState, None
<1>2. call' = [d \in Call |-> IF d \in cs THEN Answered(result) ELSE call[d]]
  BY Zenon DEF Resolve
<1>3. call' \in [Call -> CallState]
  BY <1>1, <1>2, Zenon
<1>4. \A d \in Call : call'[d] = IF d \in cs THEN Answered(result) ELSE call[d]
  BY <1>2, Zenon
<1>5. QED
  BY <1>1, <1>3, <1>4, Zenon

\* What a step may do to the swarm and the tables without waking anyone.
Silent ==
    /\ net' \in NetState /\ pending' \in PendingState /\ TablesOK' /\ peer' \in PeerState
    /\ SameOwners /\ net.open \subseteq net'.open /\ (net'.record = net.record \/ net'.record = None)
    /\ Connected' /\ NoPlaintext'

\* The command is answered on the spot.
LEMMA AnswerInv ==
    ASSUME Inv, NEW op \in Op, Taken(op), NEW result \in {"ok", "error"}, Resolve({Head(commands).arg}, result),
           UNCHANGED <<config, running, inbound>>, Silent
    PROVE  Inv'
<1>1. PICK c \in Call : c = Head(commands).arg /\ call[c].state = "sent"
  BY CallerFacts, Zenon
<1>2. /\ call \in [Call -> CallState] /\ config \in Configs /\ running \in BOOLEAN
      /\ inbound \in [Inbound -> InboundState]
  BY Zenon DEF Inv, Shape
<1>3. /\ call' \in [Call -> CallState] /\ call'[c].state = "done" /\ call'[c].result # None
      /\ \A d \in Call \ {c} : call'[d] = call[d]
  <2>1. Resolve({c}, result)
    BY <1>1, Zenon
  <2>2. /\ call' \in [Call -> CallState] /\ \A d \in Call \ {c} : call'[d] = call[d]
        /\ \A d \in Call \cap {c} : /\ call'[d] = Answered(result) /\ call'[d].state = "done"
                                    /\ call'[d].result = result /\ result # None
    BY <1>2, <2>1, ResolveFacts
  <2>3. QED
    BY <2>2, Zenon
<1>4. Shape'
  BY <1>2, <1>3, Zenon DEF Shape, Silent
<1>5. Queued' /\ \A i : RespondQueued(i) => RespondQueued(i)'
  <2>1. op \in Kinds /\ op # "respond"
    BY CallerFacts, Zenon
  <2>2. \A d \in Call : \/ call'[d] = call[d] \/ call[d].state # "sent"
                        \/ (op \in Kinds /\ d = Head(commands).arg)
    BY <1>1, <1>3, <2>1, Zenon
  <2>3. QED
    BY <1>2, <2>1, <2>2, QueueTail, Zenon DEF Inv
<1>6. Calls'
  <2>1. \A d \in Call : \/ call'[d] = call[d]
                        \/ /\ call[d].state \in {"new", "sent"} /\ call'[d].state # "waiting"
                           /\ call'[d].result # None <=> call'[d].state = "done"
    BY <1>1, <1>3, Zenon
  <2>2. QED
    BY <2>1, CallsMove, Zenon DEF Inv, Silent
<1>7. \A i \in Inbound : InboundOK(i)'
  BY <1>5, InboundSame, Zenon DEF Silent
<1>8. QED
  BY <1>4, <1>5, <1>6, <1>7, Zenon DEF Inv, Silent

\* Nothing happens to the swarm, the tables and the peer, but for the record.
LEMMA SilentSame ==
    ASSUME Inv, UNCHANGED <<config, pending, peer>>, net' = net \/ net' = [net EXCEPT !.record = None]
    PROVE  Silent
<1>1. /\ net' \in NetState /\ net'.live = net.live /\ net'.next = net.next /\ net'.open = net.open
      /\ (net'.record = net.record \/ net'.record = None)
  <2>1. net \in NetState
    BY Zenon DEF Inv, Shape
  <2>2. CASE net' = net
    BY <2>1, <2>2, Zenon
  <2>3. CASE net' = [net EXCEPT !.record = None]
    BY <2>1, <2>3, Zenon DEF NetState
  <2>4. QED
    BY <2>2, <2>3, Zenon
<1>2. TablesOK'
  BY <1>1, Zenon DEF Inv, Shape, TablesOK
<1>3. SameOwners
  BY <1>1, Zenon DEF SameOwners
<1>4. Connected' /\ NoPlaintext'
  BY <1>1, Zenon DEF Inv, Connected, NoPlaintext
<1>5. QED
  BY <1>1, <1>2, <1>3, <1>4, Zenon DEF Silent, Inv, Shape

\* Work begins for the caller of the command.
LEMMA BeginInv ==
    ASSUME Inv, NEW op \in Op, Taken(op), NEW c, c = Head(commands).arg, NEW b \in Waking,
           NEW s, s = net \/ (s = [net EXCEPT !.record = c] /\ op = "put"),
           Begin(b, c, s), Await(c), UNCHANGED <<config, running, peer, inbound>>,
           b # "kad" => op = "send", b = "plain" => ~config.required
    PROVE  Inv'
<1>1. c \in Call /\ call[c].state = "sent" /\ call[c].kind = op /\ op \in Kinds /\ op # "respond"
  BY CallerFacts, Zenon
<1>2. /\ call \in [Call -> CallState] /\ config \in Configs /\ running \in BOOLEAN
      /\ inbound \in [Inbound -> InboundState] /\ net \in NetState /\ Shape /\ peer \in PeerState
  BY Zenon DEF Inv, Shape
<1>3. Waking \subseteq Behaviour
  BY Zenon DEF Waking, Behaviour
<1>4. \E r \in Call \cup {None} : s = [net EXCEPT !.record = r] /\ (r = net.record \/ (r = c /\ op = "put"))
  <2>1. net.record \in Call \cup {None} /\ net = [net EXCEPT !.record = net.record]
    BY <1>2, Zenon DEF NetState
  <2>2. QED
    BY <1>1, <2>1, Zenon
<1>5. PICK r \in Call \cup {None} : s = [net EXCEPT !.record = r] /\ (r = net.record \/ (r = c /\ op = "put"))
  BY <1>4, Zenon
<1>6. Added(b, c, s)
  BY <1>1, <1>2, <1>3, <1>5, BeginFacts, Zenon
<1>7. s.record = r
  BY <1>2, <1>5, Zenon DEF NetState
<1>8. call' = [call EXCEPT ![c].state = "waiting"]
  BY Zenon DEF Await
<1>9. call' \in [Call -> CallState] /\ \A d \in Call \ {c} : call'[d] = call[d]
  BY <1>1, <1>2, <1>8 DEF CallState
<1>10. Calls'
  BY <1>1, <1>2, <1>5, <1>6, <1>7, <1>8, CallsBegin, Zenon DEF Inv
<1>11. Shape'
  BY <1>2, <1>6, <1>9, Zenon DEF Shape, Added
<1>12. Queued' /\ \A i : RespondQueued(i) => RespondQueued(i)'
  <2>1. \A d \in Call : \/ call'[d] = call[d] \/ call[d].state # "sent"
                        \/ (op \in Kinds /\ d = Head(commands).arg)
    BY <1>1, <1>9, Zenon
  <2>2. QED
    BY <1>1, <1>2, <2>1, QueueTail, Zenon DEF Inv
<1>13. net'.open = net.open /\ \A d \in Behaviour \ {b} : pending'[d] = pending[d] /\ net'.live[d] = net.live[d]
  BY <1>6, Zenon DEF Added
<1>14. \A i \in Inbound : InboundOK(i)'
  BY <1>12, <1>13, InboundSame, Zenon
<1>15. Connected'
  <2>1. "identity" \in Behaviour \ {b}
    BY Zenon DEF Waking, Behaviour
  <2>2. QED
    BY <1>13, <2>1, Zenon DEF Inv, Connected
<1>16. NoPlaintext'
  <2>1. CASE b = "plain"
    BY <2>1, Zenon DEF NoPlaintext
  <2>2. CASE b # "plain"
    <3>1. "plain" \in Behaviour \ {b}
      BY <2>2, Zenon DEF Behaviour
    <3>2. QED
      BY <1>13, <3>1, Zenon DEF Inv, NoPlaintext
  <2>3. QED
    BY <2>1, <2>2, Zenon
<1>17. QED
  BY <1>10, <1>11, <1>12, <1>14, <1>15, <1>16, Zenon DEF Inv

LEMMA KadQueryInv ==
    ASSUME Inv, KadQuery
    PROVE  Inv'
<1>1. PICK op \in {"get", "providers", "closest", "put", "provide"} :
          /\ Taken(op)
          /\ \E c \in {Head(commands).arg} :
                \/ /\ Begin("kad", c, IF op = "put" THEN [net EXCEPT !.record = c] ELSE net)
                   /\ Await(c)
                \/ Resolve({c}, "error") /\ UNCHANGED <<net, pending>>
          /\ UNCHANGED <<config, running, peer, inbound>>
  BY Zenon DEF KadQuery
<1>2. op \in Op /\ "kad" \in Waking /\ "error" \in {"ok", "error"} /\ "kad" # "plain"
  BY Zenon DEF Op, Waking
<1>3. PICK c : c = Head(commands).arg
  BY Zenon
<1>4. CASE Begin("kad", c, IF op = "put" THEN [net EXCEPT !.record = c] ELSE net) /\ Await(c)
  <2> DEFINE s == IF op = "put" THEN [net EXCEPT !.record = c] ELSE net
  <2>1. s = net \/ (s = [net EXCEPT !.record = c] /\ op = "put")
    BY Zenon
  <2> HIDE DEF s
  <2>2. Begin("kad", c, s)
    BY <1>4, Zenon DEF s
  <2>3. QED
    BY <1>1, <1>2, <1>3, <1>4, <2>1, <2>2, BeginInv, Zenon
<1>5. CASE Resolve({c}, "error") /\ UNCHANGED <<net, pending>>
  BY <1>1, <1>2, <1>3, <1>5, SilentSame, AnswerInv, Zenon
<1>6. QED
  BY <1>1, <1>3, <1>4, <1>5, Zenon

LEMMA LocalInv ==
    ASSUME Inv, KadRemoveRecord \/ LocalCommand
    PROVE  Inv'
<1>1. {"remove", "local"} \subseteq Op
  BY Zenon DEF Op
<1>2. PICK op \in {"remove", "local"}, result \in {"ok", "error"} :
          Taken(op) /\ Resolve({Head(commands).arg}, result)
  BY Zenon DEF KadRemoveRecord, LocalCommand
<1>3. /\ UNCHANGED <<config, running, pending, peer, inbound>>
      /\ net' = net \/ net' = [net EXCEPT !.record = None]
  BY Zenon DEF KadRemoveRecord, LocalCommand
<1>4. QED
  BY <1>1, <1>2, <1>3, SilentSame, AnswerInv, Zenon

\* No plaintext where PQ is required; an identity is fetched from a peer that
\* speaks PQ.
LEMMA SecurityFacts ==
    ASSUME NEW supports
    PROVE  send_security(supports) = "Plaintext" => ~config.required
  BY Zenon DEF send_security

LEMMA FetchSilent ==
    ASSUME Inv, NEW p, maybe_fetch_pq_identity(p), p = "pq" => net.open # {},
           UNCHANGED config, peer' \in PeerState,
           peer'.identity \/ peer'.protocols = "pq" => net.open # {}
    PROVE  Silent /\ net'.open = net.open
<1>1. Shape /\ net \in NetState
  BY Zenon DEF Inv, Shape
<1>2. CASE UNCHANGED <<net, pending>>
  <2>1. TablesOK' /\ SameOwners
    BY <1>1, <1>2, Zenon DEF Shape, TablesOK, SameOwners
  <2>2. Connected' /\ NoPlaintext'
    BY <1>2, Zenon DEF Inv, Connected, NoPlaintext
  <2>3. QED
    BY <1>1, <1>2, <2>1, <2>2, Zenon DEF Silent, Shape
<1>3. CASE Begin("identity", None, net) /\ p = "pq"
  <2>1. net.record \in Call \cup {None} /\ net = [net EXCEPT !.record = net.record]
    BY <1>1, Zenon DEF NetState
  <2>2. /\ "identity" \in Behaviour /\ "plain" \in Behaviour \ {"identity"}
        /\ Waking \subseteq Behaviour \ {"identity"}
    BY Zenon DEF Behaviour, Waking
  <2>3. Added("identity", None, net)
    BY <1>1, <1>3, <2>1, <2>2, BeginFacts, Zenon
  <2>4. \A d \in Behaviour \ {"identity"} : pending'[d] = pending[d] /\ net'.live[d] = net.live[d]
    BY <2>3, Zenon DEF Added
  <2>5. SameOwners
    BY <2>2, <2>4, Zenon DEF SameOwners
  <2>6. net'.open = net.open /\ net.open # {}
    BY <1>3, <2>3, Zenon DEF Added
  <2>7. Connected' /\ NoPlaintext'
    BY <2>2, <2>4, <2>6, Zenon DEF Inv, Connected, NoPlaintext
  <2>8. QED
    BY <2>3, <2>5, <2>6, <2>7, Zenon DEF Silent, Added
<1>4. QED
  BY <1>2, <1>3, Zenon DEF maybe_fetch_pq_identity, Fetches

LEMMA SendInv ==
    ASSUME Inv, ServiceSendRequest
    PROVE  Inv'
<1>1. Taken("send") /\ UNCHANGED <<config, running, peer, inbound>>
  BY Zenon DEF ServiceSendRequest
<1>2. "send" \in Op /\ {"pq", "plain"} \subseteq Waking /\ "error" \in {"ok", "error"} /\ "pq" # "plain"
      /\ "pq" # "kad" /\ "plain" # "kad" /\ "send" # "put" /\ "Pq" # "Plaintext"
  BY Zenon DEF Op, Waking
<1>3. PICK c, security : c = Head(commands).arg /\ security = send_security(peer.protocols)
  BY Zenon
<1>4. CASE security = "Pq" /\ Begin("pq", c, net) /\ Await(c)
  BY <1>1, <1>2, <1>3, <1>4, BeginInv, Zenon
<1>5. CASE security = "Plaintext" /\ Begin("plain", c, net) /\ Await(c)
  <2>1. ~config.required
    BY <1>3, <1>5, SecurityFacts, Zenon
  <2>2. QED
    BY <1>1, <1>2, <1>3, <1>5, <2>1, BeginInv, Zenon
<1>6. CASE Resolve({c}, "error") /\ UNCHANGED <<net, pending>>
  BY <1>1, <1>2, <1>3, <1>6, SilentSame, AnswerInv, Zenon
<1>7. CASE maybe_fetch_pq_identity(peer.protocols) /\ Resolve({c}, "error")
  <2>1. Silent
    BY <1>1, <1>7, FetchSilent, Zenon DEF Inv, Shape, Connected
  <2>2. QED
    BY <1>1, <1>2, <1>3, <1>7, <2>1, AnswerInv, Zenon
<1>8. QED
  BY <1>2, <1>3, <1>4, <1>5, <1>6, <1>7, Zenon DEF ServiceSendRequest

LEMMA RespondInv ==
    ASSUME Inv, ServiceSendResponse
    PROVE  Inv'
<1>1. Taken("respond") /\ UNCHANGED <<config, running, call, net, pending, peer>>
  BY Zenon DEF ServiceSendResponse
<1>2. /\ inbound \in [Inbound -> InboundState] /\ Shape /\ running \in BOOLEAN
      /\ \A i \in Inbound : InboundOK(i)
  BY Zenon DEF Inv, Shape
<1>3. PICK i \in Inbound : i = Head(commands).arg
  BY <1>1, HeadFacts, Zenon DEF Inv
<1>4. /\ Queued' /\ \A j : j # i => (RespondQueued(j) => RespondQueued(j)')
  BY <1>1, <1>2, <1>3, QueueTail, Zenon DEF Inv
<1>5. /\ inbound' \in [Inbound -> InboundState] /\ \A j \in Inbound : InboundOK(j)'
  <2>1. CASE /\ inbound[i].state = "pending"
             /\ \/ inbound' = [inbound EXCEPT ![i] = Replied(@)] \/ inbound' = [inbound EXCEPT ![i] = Dropped(@)]
    <3>1. /\ DOMAIN inbound' = Inbound /\ inbound' = [j \in Inbound |-> inbound'[j]]
          /\ inbound'[i] = Replied(inbound[i]) \/ inbound'[i] = Dropped(inbound[i])
          /\ \A j \in Inbound \ {i} : inbound'[j] = inbound[j]
      BY <1>2, <2>1, Zenon
    <3>2. inbound[i].state \in {"new", "pending"}
      BY <2>1, Zenon
    <3>3. InboundOK(i)' /\ inbound'[i] \in InboundState
      BY <1>2, <3>1, <3>2, InboundClosed, Zenon
    <3>4. ASSUME NEW j \in Inbound \ {i}
          PROVE  InboundOK(j)' /\ inbound'[j] \in InboundState
      <4>1. inbound[j].state = "pending" => running' /\ inbound[j].conn \in net'.open
        BY <1>1, <1>2, Zenon DEF InboundOK
      <4>2. InboundOK(j)'
        BY <1>1, <1>2, <1>4, <3>1, <4>1, InboundKept, Zenon
      <4>3. QED
        BY <1>2, <3>1, <4>2, Zenon
    <3>5. \A j \in Inbound : inbound'[j] \in InboundState
      BY <3>3, <3>4, Zenon
    <3>6. inbound' \in [Inbound -> InboundState]
      BY <3>1, <3>5, Zenon
    <3>7. QED
      BY <3>3, <3>4, <3>6, Zenon
  <2>2. CASE inbound[i].state # "pending" /\ UNCHANGED inbound
    <3>1. ASSUME NEW j \in Inbound
          PROVE  InboundOK(j)'
      <4>1. inbound[j].state = "pending" => running' /\ inbound[j].conn \in net'.open /\ j # i
        BY <1>1, <1>2, <2>2, Zenon DEF InboundOK
      <4>2. QED
        BY <1>1, <1>2, <1>4, <2>2, <4>1, InboundKept, Zenon
    <3>2. QED
      BY <1>2, <2>2, <3>1, Zenon
  <2>3. QED
    BY <1>3, <2>1, <2>2, Zenon DEF ServiceSendResponse
<1>6. Shape'
  BY <1>1, <1>2, <1>5, Zenon DEF Shape, TablesOK
<1>7. Calls'
  <2>1. SameOwners
    BY <1>1, Zenon DEF SameOwners
  <2>2. QED
    BY <1>1, <2>1, CallsMove, Zenon DEF Inv
<1>8. Connected' /\ NoPlaintext'
  BY <1>1, Zenon DEF Inv, Connected, NoPlaintext
<1>9. QED
  BY <1>4, <1>5, <1>6, <1>7, <1>8, Zenon DEF Inv

\* All work and all that is known of the peer goes; pending requests are closed.
LEMMA ClearInv ==
    ASSUME Inv, NEW op, Taken(op), op # "respond", UNCHANGED config, running' \in BOOLEAN,
           NEW n \in Nat, net' = NewSwarm \/ net' = [NewSwarm EXCEPT !.reloads = n],
           pending' = NoWork, peer' = UnknownPeer,
           call' \in [Call -> CallState],
           \A c \in Call : call'[c].state # "waiting" /\ (call'[c].result # None <=> call'[c].state = "done"),
           running' => \A d \in Call : \/ call'[d] = call[d] \/ call[d].state # "sent"
                                       \/ (op \in Kinds /\ d = Head(commands).arg),
           inbound' = [i \in Inbound |-> inbound'[i]],
           \A i \in Inbound : /\ inbound[i].state = "pending" => inbound'[i] # inbound[i]
                              /\ inbound'[i] # inbound[i] =>
                                     /\ inbound[i].state \in {"new", "pending"}
                                     /\ inbound'[i] = Replied(inbound[i]) \/ inbound'[i] = Dropped(inbound[i])
    PROVE  Inv'
<1>1. /\ net' \in NetState /\ net'.live = NoWork /\ net'.record = None /\ net'.open = {}
      /\ pending' \in PendingState /\ peer' \in PeerState /\ peer'.identity = FALSE /\ peer'.protocols # "pq"
      /\ \A b \in Behaviour : NoWork[b] = <<>>
  BY FreshFacts, Zenon
<1>2. DOMAIN <<>> = {} /\ Waking \subseteq Behaviour /\ "identity" \in Behaviour /\ "plain" \in Behaviour
  BY DEF Waking, Behaviour
<1>3. TablesOK'
  BY <1>1, <1>2, Zenon DEF TablesOK
<1>4. Calls'
  <2>1. \A b \in Waking : DOMAIN pending'[b] = {}
    BY <1>1, <1>2, Zenon
  <2>2. QED
    BY <1>1, <2>1, CallsClear, Zenon
<1>5. Queued'
  BY QueueTail, Zenon DEF Inv
<1>6. ASSUME NEW i \in Inbound
      PROVE  InboundOK(i)' /\ inbound'[i] \in InboundState
  <2>0. inbound \in [Inbound -> InboundState] /\ InboundOK(i)
    BY Zenon DEF Inv, Shape
  <2>1. CASE inbound'[i] = inbound[i]
    <3>1. InboundOK(i)'
      BY <2>0, <2>1, InboundKept, Zenon
    <3>2. QED
      BY <2>0, <2>1, <3>1, Zenon
  <2>2. CASE inbound'[i] # inbound[i]
    BY <2>0, <2>2, InboundClosed, Zenon
  <2>3. QED
    BY <2>1, <2>2, Zenon
<1>7. inbound' \in [Inbound -> InboundState]
  BY <1>6, Zenon
<1>8. Shape'
  BY <1>1, <1>3, <1>7, Zenon DEF Shape, Inv
<1>9. Connected' /\ NoPlaintext'
  <2>1. DOMAIN pending'["identity"] = {} /\ pending'["plain"] = <<>> /\ net'.live["plain"] = <<>>
    BY <1>1, <1>2, Zenon
  <2>2. QED
    BY <1>1, <2>1, Zenon DEF Connected, NoPlaintext
<1>10. QED
  BY <1>4, <1>5, <1>6, <1>8, <1>9, Zenon DEF Inv

LEMMA ShutdownInv ==
    ASSUME Inv, Shutdown
    PROVE  Inv'
<1>1. /\ Taken("shutdown") /\ running' = FALSE /\ net' = NewSwarm /\ pending' = NoWork /\ peer' = UnknownPeer
      /\ UNCHANGED config /\ "shutdown" # "respond"
  BY Zenon DEF Shutdown
<1>2. call \in [Call -> CallState] /\ Results
  BY Zenon DEF Inv, Shape, Calls
<1>3. Gone \in CallState /\ Gone.state = "gone" /\ Gone.result = None
  BY Zenon DEF Gone, CallState
<1>4. \A c \in Call : call'[c] = IF call[c].state \in {"sent", "waiting"} THEN Gone ELSE call[c]
  BY Zenon DEF Shutdown
<1>5. call' \in [Call -> CallState]
  BY <1>2, <1>3, Zenon DEF Shutdown
<1>6. \A c \in Call : call'[c].state # "waiting" /\ (call'[c].result # None <=> call'[c].state = "done")
  BY <1>2, <1>3, <1>4, Zenon DEF Results
<1>7. /\ inbound' = [i \in Inbound |-> inbound'[i]]
      /\ \A i \in Inbound : inbound'[i] = IF inbound[i].state = "pending" THEN Dropped(inbound[i]) ELSE inbound[i]
  BY Zenon DEF Shutdown
<1>8. ASSUME NEW i \in Inbound, inbound[i].state = "pending"
      PROVE  Dropped(inbound[i]) # inbound[i] /\ inbound[i].state \in {"new", "pending"}
  <2>1. inbound[i] \in InboundState
    BY Zenon DEF Inv, Shape
  <2>2. Dropped(inbound[i]).state = "dropped"
    BY <2>1, Zenon DEF Dropped, InboundState
  <2>3. QED
    BY <1>8, <2>2, Zenon
<1>9. 0 \in Nat /\ FALSE \in BOOLEAN
  BY Zenon
<1>10. QED
  BY <1>1, <1>5, <1>6, <1>7, <1>8, <1>9, ClearInv, Zenon

\* A rejection closes what it rejects.
LEMMA RejectFacts ==
    ASSUME Inv, RejectInbound
    PROVE  /\ inbound' = [i \in Inbound |-> inbound'[i]]
           /\ \A i \in Inbound :
                 /\ inbound[i].state = "pending" => inbound'[i] # inbound[i]
                 /\ inbound'[i] # inbound[i] =>
                        /\ inbound[i].state \in {"new", "pending"}
                        /\ inbound'[i] = Replied(inbound[i]) \/ inbound'[i] = Dropped(inbound[i])
<1>1. PICK late \in SUBSET {i \in Inbound : inbound[i].state = "new"} :
          LET Rejected == late \cup {i \in Inbound : inbound[i].state = "pending"}
          IN  \E failed \in SUBSET {i \in Rejected : IF i \in late THEN pq_enabled ELSE inbound[i].pq} :
                  inbound' = [i \in Inbound |-> IF i \in failed THEN Dropped(inbound[i])
                                                ELSE IF i \in Rejected THEN Replied(inbound[i])
                                                ELSE inbound[i]]
  BY Zenon DEF RejectInbound
<1> DEFINE Rejected == late \cup {i \in Inbound : inbound[i].state = "pending"}
<1>2. PICK failed \in SUBSET Rejected :
          inbound' = [i \in Inbound |-> IF i \in failed THEN Dropped(inbound[i])
                                        ELSE IF i \in Rejected THEN Replied(inbound[i])
                                        ELSE inbound[i]]
  BY <1>1, Zenon
<1>3. /\ inbound' = [i \in Inbound |-> inbound'[i]]
      /\ \A i \in Inbound : inbound'[i] = IF i \in failed THEN Dropped(inbound[i])
                                          ELSE IF i \in Rejected THEN Replied(inbound[i]) ELSE inbound[i]
  BY <1>2, Zenon
<1>4. \A i \in Rejected : inbound[i].state \in {"new", "pending"}
  BY Zenon
<1>5. ASSUME NEW i \in Inbound, inbound[i].state = "pending"
      PROVE  Dropped(inbound[i]) # inbound[i] /\ Replied(inbound[i]) # inbound[i] /\ i \in Rejected
  <2>1. inbound[i] \in InboundState
    BY Zenon DEF Inv, Shape
  <2>2. Dropped(inbound[i]).state = "dropped" /\ Replied(inbound[i]).state = "replied"
    BY <2>1, Zenon DEF Dropped, Replied, InboundState
  <2>3. QED
    BY <1>5, <2>2, Zenon
<1> HIDE DEF Rejected
<1>6. QED
  BY <1>3, <1>4, <1>5, Zenon

LEMMA ReloadInv ==
    ASSUME Inv, reload
    PROVE  Inv'
<1>1. Taken("reload") /\ UNCHANGED <<config, running>>
  BY Zenon DEF reload
<1>2. "reload" \in Op /\ "reload" # "respond" /\ "error" \in {"ok", "error"}
  BY Zenon DEF Op
<1>0. PICK c \in {Head(commands).arg} :
          \/ /\ call' = [d \in Call |-> IF d = c THEN Answered("ok")
                                       ELSE IF d \in Waiting THEN Answered("error") ELSE call[d]]
             /\ RejectInbound
             /\ net' = [NewSwarm EXCEPT !.reloads = net.reloads + 1]
             /\ pending' = NoWork
             /\ peer' = UnknownPeer
          \/ Resolve({c}, "error") /\ UNCHANGED <<net, pending, peer, inbound>>
  BY Zenon DEF reload
<1>3. c \in Call /\ c = Head(commands).arg
  BY <1>0, <1>1, <1>2, CallerFacts, Zenon
<1>4. CASE Resolve({c}, "error") /\ UNCHANGED <<net, pending, peer, inbound>>
  BY <1>1, <1>2, <1>3, <1>4, SilentSame, AnswerInv, Zenon
<1>5. CASE /\ call' = [d \in Call |-> IF d = c THEN Answered("ok")
                                      ELSE IF d \in Waiting THEN Answered("error") ELSE call[d]]
           /\ RejectInbound
           /\ net' = [NewSwarm EXCEPT !.reloads = net.reloads + 1]
           /\ pending' = NoWork
           /\ peer' = UnknownPeer
  <2>1. call \in [Call -> CallState] /\ Results /\ net.reloads + 1 \in Nat /\ running \in BOOLEAN
    BY DEF Inv, Shape, Calls, NetState
  <2>2. \A r \in {"ok", "error"} : /\ Answered(r) \in CallState /\ Answered(r).state = "done"
                                   /\ Answered(r).result # None
    BY Zenon DEF Answered, CallState, None
  <2>3. \A d \in Call : call'[d] = IF d = c THEN Answered("ok")
                                   ELSE IF d \in Waiting THEN Answered("error") ELSE call[d]
    BY <1>5, Zenon
  <2>4. call' \in [Call -> CallState]
    BY <1>5, <2>1, <2>2, Zenon
  <2>5. \A d \in Call : call'[d].state # "waiting" /\ (call'[d].result # None <=> call'[d].state = "done")
    BY <2>1, <2>2, <2>3, Zenon DEF Results, Waiting
  <2>6. "reload" \in Kinds
    BY <1>1, <1>2, CallerFacts, Zenon
  <2>7. \A d \in Call : \/ call'[d] = call[d] \/ call[d].state # "sent"
                        \/ ("reload" \in Kinds /\ d = Head(commands).arg)
    <3>1. "waiting" # "sent"
      BY Zenon
    <3>2. QED
      BY <1>3, <2>3, <2>6, <3>1, Zenon DEF Waiting
  <2>8. QED
    BY <1>1, <1>2, <1>5, <2>1, <2>4, <2>5, <2>7, RejectFacts, ClearInv, Zenon
<1>6. QED
  BY <1>0, <1>4, <1>5, Zenon

-----------------------------------------------------------------------------
(* The handle                                                              *)

LEMMA HandleInv ==
    ASSUME Inv, shutdown \/ \E c \in Call, kind \in Kinds : Issue(c, kind)
    PROVE  Inv'
<1>0. /\ call \in [Call -> CallState] /\ Shape
      /\ UNCHANGED <<config, running, net, pending, peer, inbound>>
  BY Zenon DEF Inv, Shape, shutdown, Issue
<1>1. Silent
  BY <1>0, SilentSame, Zenon
<1>2. ASSUME Queued' /\ Calls' /\ (\A i : RespondQueued(i) => RespondQueued(i)'), call' \in [Call -> CallState]
      PROVE  Inv'
  <2>1. \A i \in Inbound : InboundOK(i)'
    BY <1>0, <1>1, <1>2, InboundSame, Zenon DEF Silent
  <2>2. Shape'
    BY <1>0, <1>1, <1>2, Zenon DEF Shape, Silent
  <2>3. QED
    BY <1>1, <1>2, <2>1, <2>2, Zenon DEF Inv, Silent
<1>3. CASE shutdown
  <2> DEFINE command == [op |-> "shutdown", arg |-> None]
  <2>1. command \in Command /\ command.op # "respond" /\ ~IsCall(command)
    BY ActorAssumption, Zenon DEF Command, IsCall
  <2>2. commands' = Append(commands, command) /\ UNCHANGED call
    BY <1>3, Zenon DEF shutdown
  <2> HIDE DEF command
  <2>3. Queued' /\ \A i : RespondQueued(i) => RespondQueued(i)'
    BY <1>0, <2>1, <2>2, QueueAppend, Zenon DEF Inv
  <2>4. Calls'
    BY <1>1, <2>2, CallsMove, Zenon DEF Inv, Silent
  <2>5. QED
    BY <1>0, <1>2, <2>2, <2>3, <2>4, Zenon
<1>4. ASSUME NEW c \in Call, NEW kind \in Kinds, Issue(c, kind)
      PROVE  Inv'
  <2>0. call[c].state = "new" /\ call[c] \in CallState /\ call[c].result = None
    <3>1. call[c].state = "new" /\ call[c] \in CallState
      BY <1>0, <1>4, Zenon DEF Issue
    <3>2. QED
      BY <3>1, Zenon DEF Inv, Calls, Results
  <2>1. CASE running
    <3> DEFINE command == [op |-> kind, arg |-> c]
    <3>1. command \in Command /\ command.op = kind /\ command.arg = c /\ IsCall(command)
      BY Zenon DEF Command, IsCall
    <3>2. kind # "respond"
      BY ActorAssumption, Zenon
    <3>3. /\ call' = [call EXCEPT ![c].state = "sent", ![c].kind = kind] /\ commands' = Append(commands, command)
      BY <1>4, <2>1, Zenon DEF Issue
    <3> HIDE DEF command
    <3>4. /\ call' \in [Call -> CallState] /\ call'[c].state = "sent" /\ call'[c].kind = kind
          /\ call'[c].result = None /\ \A d \in Call \ {c} : call'[d] = call[d]
      BY <1>0, <2>0, <3>3, Zenon DEF CallState
    <3>5. \A d \in Call : call'[d] = call[d] \/ call[d].state # "sent"
      BY <2>0, <3>4, Zenon
    <3>6. call[c].state # "sent"
      BY <2>0, Zenon
    <3>7. Queued' /\ \A i : RespondQueued(i) => RespondQueued(i)'
      BY <1>0, <3>1, <3>2, <3>3, <3>4, <3>5, <3>6, QueueAppend, Zenon DEF Inv
    <3>8. \A d \in Call : \/ call'[d] = call[d]
                          \/ /\ call[d].state \in {"new", "sent"} /\ call'[d].state # "waiting"
                             /\ call'[d].result # None <=> call'[d].state = "done"
      BY <2>0, <3>4, Zenon
    <3>9. QED
      BY <1>1, <1>2, <3>4, <3>7, <3>8, CallsMove, Zenon DEF Inv, Silent
  <2>2. CASE ~running
    <3>1. call' = [call EXCEPT ![c] = Gone] /\ UNCHANGED commands
      BY <1>4, <2>2, Zenon DEF Issue
    <3>2. Gone \in CallState /\ Gone.state = "gone" /\ Gone.result = None
      BY Zenon DEF Gone, CallState
    <3>3. call' \in [Call -> CallState] /\ call'[c] = Gone /\ \A d \in Call \ {c} : call'[d] = call[d]
      BY <1>0, <3>1, <3>2, Zenon
    <3>4. \A d \in Call : call'[d] = call[d] \/ call[d].state # "sent"
      BY <2>0, <3>3, Zenon
    <3>5. Queued' /\ \A i : RespondQueued(i) => RespondQueued(i)'
      BY <1>0, <3>1, <3>4, QueueSame, Zenon DEF Inv
    <3>6. \A d \in Call : \/ call'[d] = call[d]
                          \/ /\ call[d].state \in {"new", "sent"} /\ call'[d].state # "waiting"
                             /\ call'[d].result # None <=> call'[d].state = "done"
      BY <2>0, <3>2, <3>3, Zenon
    <3>7. QED
      BY <1>1, <1>2, <3>3, <3>5, <3>6, CallsMove, Zenon DEF Inv, Silent
  <2>3. QED
    BY <2>1, <2>2, Zenon
<1>5. QED
  BY <1>3, <1>4, Zenon

-----------------------------------------------------------------------------
(* Events of the swarm                                                     *)

\* A step that takes no command and leaves running and the configuration.
LEMMA EventInv ==
    ASSUME Inv, UNCHANGED <<config, running, commands>>,
           net' \in NetState, pending' \in PendingState, TablesOK', peer' \in PeerState,
           call' \in [Call -> CallState], \A d \in Call : call'[d] = call[d] \/ call[d].state # "sent", Calls',
           inbound' \in [Inbound -> InboundState],
           \A i \in Inbound : \/ inbound'[i] = inbound[i] /\ (inbound[i].conn \in net.open => inbound[i].conn \in net'.open)
                              \/ InboundOK(i)',
           Connected', NoPlaintext'
    PROVE  Inv'
<1>1. Queued' /\ \A i : RespondQueued(i) => RespondQueued(i)'
  BY QueueSame, Zenon DEF Inv
<1>2. ASSUME NEW i \in Inbound
      PROVE  InboundOK(i)'
  <2>1. CASE inbound'[i] = inbound[i] /\ (inbound[i].conn \in net.open => inbound[i].conn \in net'.open)
    <3>1. InboundOK(i)
      BY Zenon DEF Inv
    <3>2. inbound[i].state = "pending" => running' /\ inbound[i].conn \in net'.open
      BY <2>1, <3>1, Zenon DEF InboundOK
    <3>3. QED
      BY <1>1, <2>1, <3>1, <3>2, InboundKept, Zenon
  <2>2. QED
    BY <2>1, Zenon
<1>3. Shape'
  BY Zenon DEF Shape, Inv
<1>4. QED
  BY <1>1, <1>2, <1>3, Zenon DEF Inv

LEMMA ProgressInv ==
    ASSUME Inv, NEW id, KadProgress(id)
    PROVE  Inv'
<1>1. /\ id \in DOMAIN pending["kad"] /\ pending' = [pending EXCEPT !["kad"][id].found = TRUE]
      /\ UNCHANGED <<config, running, commands, call, net, peer, inbound>>
  BY Zenon DEF KadProgress
<1>2. /\ Shape /\ pending \in [Behaviour -> Entries] /\ "kad" \in Behaviour /\ Waking \subseteq Behaviour
      /\ "plain" \in Behaviour \ {"kad"} /\ "identity" \in Behaviour \ {"kad"}
  BY Zenon DEF Inv, Shape, PendingState, Behaviour, Waking
<1> DEFINE p == [pending["kad"] EXCEPT ![id].found = TRUE]
<1>3. p \in Entries
  BY <1>1, <1>2, WorkFacts, Zenon
<1>4. DOMAIN p = DOMAIN pending["kad"] /\ \A n \in DOMAIN pending["kad"] : p[n].call = pending["kad"][n].call
  <2>1. DOMAIN p = DOMAIN pending["kad"]
    BY Zenon
  <2>2. PICK S \in SUBSET Nat : pending["kad"] \in [S -> [call : Call \cup {None}, found : BOOLEAN]]
    BY <1>2 DEF Entries
  <2>3. \A n \in S : p[n].call = pending["kad"][n].call
    BY <2>2, Zenon
  <2>4. QED
    BY <2>1, <2>2, <2>3, Zenon
<1>5. pending' = [pending EXCEPT !["kad"] = p]
  BY <1>1, <1>2, Zenon
<1> HIDE DEF p
<1>6. /\ pending' \in PendingState /\ pending'["kad"] = p
      /\ \A b \in Behaviour \ {"kad"} : pending'[b] = pending[b]
  BY <1>2, <1>3, <1>5, Zenon DEF PendingState
<1>7. \A b \in Behaviour : DOMAIN pending'[b] = DOMAIN pending[b]
  BY <1>4, <1>6, Zenon
<1>8. TablesOK'
  BY <1>1, <1>2, <1>7, Zenon DEF Shape, TablesOK
<1>9. SameOwners
  <2>1. \A b \in Behaviour : \A n \in DOMAIN pending[b] : pending'[b][n].call = pending[b][n].call
    BY <1>4, <1>6, Zenon
  <2>2. QED
    BY <1>1, <1>2, <1>7, <2>1, Zenon DEF SameOwners
<1>10. Calls'
  BY <1>1, <1>9, CallsMove, Zenon DEF Inv
<1>11. Connected' /\ NoPlaintext'
  BY <1>1, <1>2, <1>6, Zenon DEF Inv, Connected, NoPlaintext
<1>12. QED
  BY <1>1, <1>2, <1>6, <1>8, <1>10, <1>11, EventInv, Zenon DEF Shape

\* Work of b ends.
LEMMA EndInv ==
    ASSUME Inv, NEW b \in Waking, NEW id \in DOMAIN net.live[b], NEW r, r = net.record \/ r = None,
           net' = [net EXCEPT !.live[b] = Drop(@, {id}), !.record = r],
           pending' = [pending EXCEPT ![b] = Drop(@, {id})],
           NEW result \in {"ok", "error"},
           Resolve({pending[b][n].call : n \in DOMAIN pending[b] \cap {id}}, result),
           \A c \in Call : id \in DOMAIN pending[b] /\ pending[b][id].call = c /\ call[c].kind = "put" /\ result # "ok"
                           => r = None,
           UNCHANGED <<config, running, commands, peer, inbound>>
    PROVE  Inv'
<1>1. /\ Shape /\ call \in [Call -> CallState] /\ peer \in PeerState /\ inbound \in [Inbound -> InboundState]
      /\ net \in NetState
  BY Zenon DEF Inv, Shape
<1>2. b \in Behaviour /\ b # "identity"
  BY Zenon DEF Waking, Behaviour
<1>3. r \in Call \cup {None}
  BY <1>1, Zenon DEF NetState
<1>4. Removed(b, id) /\ net'.record = r
  BY <1>1, <1>2, <1>3, EndFacts, Zenon
<1> DEFINE cs == {pending[b][n].call : n \in DOMAIN pending[b] \cap {id}}
<1>5. \A c \in Call \cap cs : call[c].state = "waiting"
  <2> SUFFICES ASSUME NEW n \in DOMAIN pending[b], pending[b][n].call \in Call
               PROVE  call[pending[b][n].call].state = "waiting"
    BY Zenon
  <2>1. QED
    BY ZenonT(60) DEF Inv, Calls, Owners
<1>6. call' \in [Call -> CallState] /\ \A d \in Call \ cs : call'[d] = call[d]
  BY <1>1, ResolveFacts, ZenonT(60)
<1>7. \A d \in Call : call'[d] = call[d] \/ call[d].state # "sent"
  BY <1>5, <1>6, Zenon
<1>8. Calls'
  BY <1>1, <1>4, CallsEnd DEF Inv
<1>9. Connected'
  <2>1. "identity" \in Behaviour \ {b}
    BY <1>2, Zenon DEF Behaviour
  <2>2. pending'["identity"] = pending["identity"] /\ net'.open = net.open
    BY <1>4, <2>1, Zenon DEF Removed
  <2>3. QED
    BY <2>2, Zenon DEF Inv, Connected
<1>10. NoPlaintext'
  <2>1. CASE b = "plain"
    <3>1. ~config.required
      BY <2>1 DEF Inv, NoPlaintext
    <3>2. QED
      BY <3>1, Zenon DEF NoPlaintext
  <2>2. CASE b # "plain"
    <3>1. "plain" \in Behaviour \ {b}
      BY <2>2, Zenon DEF Behaviour
    <3>2. QED
      BY <1>4, <3>1, Zenon DEF Inv, NoPlaintext, Removed
  <2>3. QED
    BY <2>1, <2>2, Zenon
<1>11. QED
  BY <1>1, <1>4, <1>6, <1>7, <1>8, <1>9, <1>10, EventInv, Zenon DEF Removed

LEMMA KadFinishedInv ==
    ASSUME Inv, NEW id, NEW ok, KadFinished(id, ok)
    PROVE  Inv'
<1> DEFINE entries == DOMAIN pending["kad"] \cap {id}
           owner == net.live["kad"][id]
           r == IF call[owner].kind = "put" /\ ~ok /\ entries # {} THEN None ELSE net.record
           result == IF ok \/ (call[owner].kind = "get" /\ \E n \in entries : pending["kad"][n].found)
                     THEN "ok" ELSE "error"
<1>1. /\ id \in DOMAIN net.live["kad"] /\ "kad" \in Waking
      /\ UNCHANGED <<config, running, commands, peer, inbound>>
  BY Zenon DEF KadFinished, Waking
<1>2. /\ net' = [net EXCEPT !.live["kad"] = Drop(@, {id}), !.record = r]
      /\ pending' = [pending EXCEPT !["kad"] = Drop(@, {id})]
      /\ Resolve({pending["kad"][n].call : n \in entries}, result)
  BY Zenon DEF KadFinished
<1>3. result \in {"ok", "error"} /\ (r = net.record \/ r = None)
  BY Zenon
<1>4. ASSUME NEW c \in Call, id \in DOMAIN pending["kad"], pending["kad"][id].call = c, call[c].kind = "put",
             result # "ok"
      PROVE  r = None
  <2>1. owner = c
    BY <1>1, <1>4, ZenonT(60) DEF Inv, Calls, Owners
  <2>2. ~ok /\ entries # {}
    BY <1>4, Zenon
  <2>3. QED
    BY <1>4, <2>1, <2>2, Zenon
<1> HIDE DEF r, result
<1>5. QED
  BY <1>1, <1>2, <1>3, <1>4, EndInv, Zenon

LEMMA OutboundFinishedInv ==
    ASSUME Inv, NEW b \in {"plain", "pq"}, NEW id, NEW ok, OutboundFinished(b, id, ok)
    PROVE  Inv'
<1> DEFINE result == IF ok THEN "ok" ELSE "error"
<1>1. /\ id \in DOMAIN net.live[b] /\ b \in Waking /\ b # "kad"
      /\ UNCHANGED <<config, running, commands, peer, inbound>>
  BY Zenon DEF OutboundFinished, Waking
<1>2. net' = [net EXCEPT !.live[b] = Drop(@, {id}), !.record = net.record]
  <2>1. net \in NetState /\ net' = [net EXCEPT !.live[b] = Drop(@, {id})]
    BY Zenon DEF Inv, Shape, OutboundFinished
  <2>2. QED
    BY <2>1, Zenon DEF NetState
<1>3. /\ pending' = [pending EXCEPT ![b] = Drop(@, {id})]
      /\ Resolve({pending[b][n].call : n \in DOMAIN pending[b] \cap {id}}, result)
  BY Zenon DEF OutboundFinished
<1>4. result \in {"ok", "error"}
  BY Zenon
<1>5. \A c \in Call : id \in DOMAIN pending[b] /\ pending[b][id].call = c => call[c].kind # "put"
  BY <1>1 DEF Inv, Calls, Owners
<1> HIDE DEF result
<1>6. QED
  BY <1>1, <1>2, <1>3, <1>4, <1>5, EndInv, Zenon

\* Steps that wake nobody.
LEMMA SilentInv ==
    ASSUME Inv, UNCHANGED <<config, running, commands, call, inbound>>, Silent
    PROVE  Inv'
<1>1. call \in [Call -> CallState] /\ inbound \in [Inbound -> InboundState]
  BY Zenon DEF Inv, Shape
<1>2. Calls'
  BY CallsMove, Zenon DEF Inv, Silent
<1>3. QED
  BY <1>1, <1>2, EventInv, Zenon DEF Silent

LEMMA IdentityInv ==
    ASSUME Inv, NEW id, NEW ok \in BOOLEAN, IdentityFinished(id, ok)
    PROVE  Inv'
<1>1. /\ UNCHANGED <<config, running, commands, call, inbound>>
      /\ pending' = [pending EXCEPT !["identity"] = Drop(@, {id})]
      /\ peer' = [peer EXCEPT !.identity = @ \/ (ok /\ id \in DOMAIN pending["identity"])]
  BY Zenon DEF IdentityFinished
<1>2. /\ "identity" \in Behaviour /\ "plain" \in Behaviour \ {"identity"}
      /\ Waking \subseteq Behaviour \ {"identity"}
  BY Zenon DEF Behaviour, Waking
<1>3. Shape /\ net \in NetState /\ peer \in PeerState
  BY Zenon DEF Inv, Shape
<1>4. net.record \in Call \cup {None} /\ net' = [net EXCEPT !.live["identity"] = Drop(@, {id}), !.record = net.record]
  <2>1. net' = [net EXCEPT !.live["identity"] = Drop(@, {id})]
    BY Zenon DEF IdentityFinished
  <2>2. QED
    BY <1>3, <2>1, Zenon DEF NetState
<1>5. Removed("identity", id) /\ net'.record = net.record
  BY <1>1, <1>2, <1>3, <1>4, EndFacts, Zenon
<1>6. \A d \in Behaviour \ {"identity"} : pending'[d] = pending[d] /\ net'.live[d] = net.live[d]
  BY <1>5, Zenon DEF Removed
<1>7. SameOwners
  BY <1>2, <1>6, Zenon DEF SameOwners
<1>8. /\ peer' \in PeerState /\ peer'.protocols = peer.protocols
      /\ peer'.identity => peer.identity \/ DOMAIN pending["identity"] # {}
  <2>1. PICK known \in BOOLEAN : known = (peer.identity \/ (ok /\ id \in DOMAIN pending["identity"]))
    BY <1>3, Zenon DEF PeerState
  <2>2. peer' = [peer EXCEPT !.identity = known]
    BY <1>1, <2>1, Zenon
  <2>3. peer' \in PeerState /\ peer'.protocols = peer.protocols /\ peer'.identity = known
    BY <1>3, <2>2, Zenon DEF PeerState
  <2>4. QED
    BY <2>1, <2>3, Zenon
<1>9. Connected'
  <2>1. net'.open = net.open /\ (DOMAIN pending'["identity"] # {} => DOMAIN pending["identity"] # {})
    BY <1>5, Zenon DEF Removed
  <2>2. QED
    BY <1>8, <2>1, Zenon DEF Inv, Connected
<1>10. NoPlaintext'
  BY <1>1, <1>2, <1>6, Zenon DEF Inv, NoPlaintext
<1>11. Silent
  BY <1>5, <1>7, <1>8, <1>9, <1>10, Zenon DEF Silent, Removed
<1>12. QED
  BY <1>1, <1>11, SilentInv, Zenon

LEMMA IdentifyInv ==
    ASSUME Inv, NEW protocols \in {"pq", "plain"}, NEW ours, Identify(protocols, ours)
    PROVE  Inv'
<1>1. /\ UNCHANGED <<config, running, commands, call, inbound>> /\ net.open # {}
      /\ peer' = [peer EXCEPT !.protocols = protocols]
  BY Zenon DEF Identify
<1>2. peer' \in PeerState
  BY <1>1, Zenon DEF Inv, Shape, PeerState
<1>3. CASE ours
  BY <1>1, <1>2, <1>3, FetchSilent, SilentInv, Zenon DEF Identify
<1>4. CASE ~ours
  <2>1. UNCHANGED <<net, pending>>
    BY <1>4, Zenon DEF Identify
  <2>2. TablesOK' /\ SameOwners /\ Connected' /\ NoPlaintext'
    BY <1>1, <2>1, Zenon DEF Inv, Shape, TablesOK, SameOwners, Connected, NoPlaintext
  <2>3. QED
    BY <1>1, <1>2, <2>1, <2>2, SilentInv, Zenon DEF Silent, Inv, Shape
<1>5. QED
  BY <1>3, <1>4, Zenon

LEMMA EstablishedInv ==
    ASSUME Inv, NEW k \in Conn, ConnectionEstablished(k)
    PROVE  Inv'
<1>1. /\ UNCHANGED <<config, running, commands, call, pending, peer, inbound>>
      /\ net' = [net EXCEPT !.open = @ \cup {k}]
  BY Zenon DEF ConnectionEstablished
<1>2. /\ net' \in NetState /\ net'.open = net.open \cup {k} /\ net'.live = net.live /\ net'.next = net.next
      /\ net'.record = net.record
  BY <1>1, Zenon DEF Inv, Shape, NetState
<1>3. net.open \subseteq net'.open /\ net'.open # {}
  BY <1>2, Zenon
<1>4. TablesOK' /\ SameOwners /\ Connected' /\ NoPlaintext'
  BY <1>1, <1>2, <1>3, Zenon DEF Inv, Shape, TablesOK, SameOwners, Connected, NoPlaintext
<1>5. QED
  BY <1>1, <1>2, <1>3, <1>4, SilentInv, Zenon DEF Silent, Inv, Shape

LEMMA ClosedInv ==
    ASSUME Inv, NEW k \in Conn, ConnectionClosed(k)
    PROVE  Inv'
<1>1. UNCHANGED <<config, running, commands, call>> /\ net' = [net EXCEPT !.open = @ \ {k}] /\ k \in net.open
  BY Zenon DEF ConnectionClosed
<1>2. /\ net' \in NetState /\ net'.open = net.open \ {k} /\ net'.live = net.live /\ net'.next = net.next
      /\ net'.record = net.record
  BY <1>1, Zenon DEF Inv, Shape, NetState
<1>3. /\ Shape /\ call \in [Call -> CallState] /\ inbound \in [Inbound -> InboundState]
      /\ pending \in [Behaviour -> Entries] /\ peer \in PeerState
  BY Zenon DEF Inv, Shape, PendingState
<1>4. /\ "identity" \in Behaviour /\ "plain" \in Behaviour \ {"identity"} /\ DOMAIN <<>> = {}
      /\ Waking \subseteq Behaviour \ {"identity"}
  BY DEF Behaviour, Waking
<1>5. /\ pending' \in PendingState /\ peer' \in PeerState
      /\ \A d \in Behaviour \ {"identity"} : pending'[d] = pending[d]
      /\ DOMAIN pending'["identity"] \subseteq DOMAIN pending["identity"]
      /\ Connected'
  <2>1. CASE net.open = {k}
    <3>1. peer' = UnknownPeer /\ pending' = [pending EXCEPT !["identity"] = <<>>]
      BY <2>1, Zenon DEF ConnectionClosed
    <3>2. <<>> \in Entries
      BY WorkFacts, Zenon
    <3>3. /\ pending' \in PendingState /\ pending'["identity"] = <<>>
          /\ \A d \in Behaviour \ {"identity"} : pending'[d] = pending[d]
      BY <1>3, <1>4, <3>1, <3>2, Zenon DEF PendingState
    <3>4. peer' \in PeerState /\ peer'.identity = FALSE /\ peer'.protocols # "pq"
      BY <3>1, FreshFacts, Zenon
    <3>5. DOMAIN pending'["identity"] = {}
      BY <1>4, <3>3, Zenon
    <3>6. QED
      BY <3>3, <3>4, <3>5, Zenon DEF Connected
  <2>2. CASE net.open # {k}
    <3>1. UNCHANGED <<peer, pending>>
      BY <2>2, Zenon DEF ConnectionClosed
    <3>2. net'.open # {}
      BY <1>1, <1>2, <2>2, Zenon
    <3>3. QED
      BY <1>3, <3>1, <3>2, Zenon DEF Connected, PendingState
  <2>3. QED
    BY <2>1, <2>2, Zenon
<1>6. TablesOK'
  <2>1. \A d \in Behaviour : DOMAIN pending'[d] \subseteq DOMAIN pending[d]
    BY <1>5
  <2>2. QED
    BY <1>2, <1>3, <2>1, Zenon DEF Shape, TablesOK
<1>7. Calls'
  <2>1. SameOwners
    BY <1>2, <1>4, <1>5, Zenon DEF SameOwners
  <2>2. QED
    BY <1>1, <1>2, <2>1, CallsMove, Zenon DEF Inv
<1>8. NoPlaintext'
  BY <1>1, <1>2, <1>4, <1>5, Zenon DEF Inv, NoPlaintext
<1>9. /\ inbound' = [i \in Inbound |-> inbound'[i]]
      /\ \A i \in Inbound : inbound'[i] = IF inbound[i].state = "pending" /\ inbound[i].conn = k
                                          THEN Dropped(inbound[i]) ELSE inbound[i]
  BY Zenon DEF ConnectionClosed
<1>10. ASSUME NEW i \in Inbound
       PROVE  /\ inbound'[i] \in InboundState
              /\ InboundOK(i)' \/ (inbound'[i] = inbound[i]
                                   /\ (inbound[i].conn \in net.open => inbound[i].conn \in net'.open))
  <2>1. InboundOK(i)
    BY Zenon DEF Inv
  <2>2. CASE inbound[i].state = "pending" /\ inbound[i].conn = k
    <3>1. inbound'[i] = Dropped(inbound[i]) /\ inbound[i].state \in {"new", "pending"}
      BY <1>9, <2>2, Zenon
    <3>2. QED
      BY <1>3, <2>1, <3>1, InboundClosed, Zenon
  <2>3. CASE inbound[i].state = "pending" /\ inbound[i].conn # k
    <3>1. inbound'[i] = inbound[i] /\ (inbound[i].conn \in net.open => inbound[i].conn \in net'.open)
      BY <1>2, <1>9, <2>3, Zenon
    <3>2. QED
      BY <1>3, <3>1, Zenon
  <2>4. CASE inbound[i].state # "pending"
    <3>1. inbound'[i] = inbound[i]
      BY <1>9, <2>4, Zenon
    <3>2. InboundOK(i)'
      BY <1>1, <2>1, <2>4, <3>1, InboundKept, Zenon
    <3>3. QED
      BY <1>3, <3>1, <3>2, Zenon
  <2>5. QED
    BY <2>2, <2>3, <2>4, Zenon
<1>11. inbound' \in [Inbound -> InboundState]
  BY <1>9, <1>10, Zenon
<1>12. QED
  BY <1>1, <1>2, <1>3, <1>5, <1>6, <1>7, <1>8, <1>10, <1>11, EventInv, Zenon

\* A request arrives: it is taken in, refused or not understood.
LEMMA RequestInv ==
    ASSUME Inv, NEW i \in Inbound, NEW k \in Conn, PlainRequest(i, k) \/ PqRequest(i, k)
    PROVE  Inv'
<1>1. /\ UNCHANGED <<config, running, commands, call, net, pending, peer>>
      /\ running /\ k \in net.open /\ inbound[i].state = "new"
  BY Zenon DEF PlainRequest, PqRequest
<1>2. /\ Shape /\ call \in [Call -> CallState] /\ inbound \in [Inbound -> InboundState]
      /\ InboundOK(i) /\ net \in NetState /\ pending \in PendingState /\ peer \in PeerState /\ TablesOK
  BY Zenon DEF Inv, Shape
<1>3. inbound[i] \in InboundState /\ inbound[i].replies = 0 /\ inbound[i].state \in {"new", "pending"}
  BY <1>1, <1>2, Zenon DEF InboundOK
<1>4. TablesOK' /\ SameOwners /\ Connected' /\ NoPlaintext'
  BY <1>1, <1>2, Zenon DEF Inv, TablesOK, SameOwners, Connected, NoPlaintext
<1>5. Calls'
  BY <1>1, <1>4, CallsMove, Zenon DEF Inv
<1>6. PICK e : inbound' = [inbound EXCEPT ![i] = e] /\
               (e = Replied(inbound[i]) \/ e = Dropped(inbound[i]) \/
                \E pq \in BOOLEAN : /\ config.required => pq
                                    /\ e = [inbound[i] EXCEPT !.state = "pending", !.conn = k, !.pq = pq, !.app = "owns"])
  BY <1>2, Zenon DEF PlainRequest, PqRequest, Accept
<1>7. /\ inbound'[i] = e /\ \A j \in Inbound \ {i} : inbound'[j] = inbound[j]
      /\ inbound' = [j \in Inbound |-> inbound'[j]]
  BY <1>2, <1>6, Zenon
<1>8. InboundOK(i)' /\ inbound'[i] \in InboundState
  <2>1. CASE e = Replied(inbound[i]) \/ e = Dropped(inbound[i])
    BY <1>2, <1>3, <1>7, <2>1, InboundClosed, Zenon
  <2>2. ASSUME NEW pq \in BOOLEAN, config.required => pq,
               e = [inbound[i] EXCEPT !.state = "pending", !.conn = k, !.pq = pq, !.app = "owns"]
        PROVE  InboundOK(i)' /\ inbound'[i] \in InboundState
    <3>1. /\ e \in InboundState /\ e.conn = k /\ e.pq = pq /\ e.app \in {"owns", "refused"} /\ e.replies = 0
      BY <1>3, <2>2, Zenon DEF InboundState
    <3>2. 0 <= 1
      OBVIOUS
    <3>3. QED
      BY <1>1, <1>7, <2>2, <3>1, <3>2, Zenon DEF InboundOK
  <2>3. QED
    BY <1>6, <2>1, <2>2, Zenon
<1>9. \A j \in Inbound : \/ inbound'[j] = inbound[j] /\ (inbound[j].conn \in net.open => inbound[j].conn \in net'.open)
                         \/ InboundOK(j)'
  BY <1>1, <1>7, <1>8, Zenon
<1>10. inbound' \in [Inbound -> InboundState]
  BY <1>2, <1>7, <1>8, Zenon
<1>11. QED
  BY <1>1, <1>2, <1>4, <1>5, <1>9, <1>10, EventInv, Zenon

\* The application answers: its command is queued, unless the actor is gone.
LEMMA ReplyInv ==
    ASSUME Inv, NEW i \in Inbound, send_response(i) \/ ResponseTask(i)
    PROVE  Inv'
<1>1. PICK app \in {"refused", "done"} : Reply(i, app)
  BY Zenon DEF send_response, ResponseTask
<1>2. /\ UNCHANGED <<config, running, call, net, pending, peer>>
      /\ inbound' = [inbound EXCEPT ![i].app = app]
  BY <1>1, Zenon DEF Reply
<1>3. Shape /\ Queued /\ inbound \in [Inbound -> InboundState] /\ running \in BOOLEAN /\ call \in [Call -> CallState]
  BY Zenon DEF Inv, Shape
<1>4. /\ inbound' \in [Inbound -> InboundState] /\ \A j \in Inbound \ {i} : inbound'[j] = inbound[j]
      /\ inbound'[i].state = inbound[i].state /\ inbound'[i].conn = inbound[i].conn
      /\ inbound'[i].pq = inbound[i].pq /\ inbound'[i].replies = inbound[i].replies
  BY <1>2, <1>3, Zenon DEF InboundState
<1>5. Queued' /\ (\A j : RespondQueued(j) => RespondQueued(j)') /\ (running => RespondQueued(i)')
  <2>1. \A d \in Call : call'[d] = call[d] \/ call[d].state # "sent"
    BY <1>2, Zenon
  <2>2. CASE running
    <3> DEFINE command == [op |-> "respond", arg |-> i]
    <3>1. /\ command \in Command /\ command.op = "respond" /\ command.arg \in Inbound
          /\ ~IsCall(command)
      BY ActorAssumption, Zenon DEF Command, IsCall
    <3>2. commands' = Append(commands, command)
      BY <1>1, <2>2, Zenon DEF Reply
    <3>3. command = [op |-> "respond", arg |-> i]
      BY Zenon
    <3> HIDE DEF command
    <3>4. QED
      BY <1>2, <1>3, <2>1, <3>1, <3>2, <3>3, QueueAppend, Zenon
  <2>3. CASE ~running
    <3>1. UNCHANGED <<commands, running>>
      BY <1>1, <1>2, <2>3, Zenon DEF Reply
    <3>2. QED
      BY <1>3, <2>1, <2>3, <3>1, QueueSame, Zenon
  <2>4. QED
    BY <2>2, <2>3, Zenon
<1>6. ASSUME NEW j \in Inbound
      PROVE  InboundOK(j)'
  <2>1. InboundOK(j)
    BY Zenon DEF Inv
  <2>2. CASE j = i
    BY <1>2, <1>4, <1>5, <2>1, <2>2, Zenon DEF InboundOK
  <2>3. CASE j # i
    <3>1. inbound'[j] = inbound[j]
      BY <1>4, <2>3, Zenon
    <3>2. inbound[j].state = "pending" => running' /\ inbound[j].conn \in net'.open
      BY <1>2, <2>1, Zenon DEF InboundOK
    <3>3. QED
      BY <1>2, <1>5, <2>1, <3>1, <3>2, InboundKept, Zenon
  <2>4. QED
    BY <2>2, <2>3, Zenon
<1>7. Shape'
  BY <1>2, <1>3, <1>4, Zenon DEF Shape, TablesOK
<1>8. Calls' /\ Connected' /\ NoPlaintext'
  <2>1. SameOwners /\ Connected' /\ NoPlaintext'
    BY <1>2, Zenon DEF Inv, SameOwners, Connected, NoPlaintext
  <2>2. QED
    BY <1>2, <2>1, CallsMove, Zenon DEF Inv
<1>9. QED
  BY <1>5, <1>6, <1>7, <1>8, Zenon DEF Inv

-----------------------------------------------------------------------------
(* The inductive invariant                                                 *)

LEMMA InitInv == Init => Inv
<1> SUFFICES ASSUME Init PROVE Inv
  BY Zenon
<1>1. /\ NoWork \in PendingState /\ NewSwarm \in NetState /\ NewSwarm.live = NoWork /\ NewSwarm.record = None
      /\ NewSwarm.open = {} /\ UnknownPeer \in PeerState /\ UnknownPeer.identity = FALSE /\ UnknownPeer.protocols # "pq"
      /\ \A b \in Behaviour : NoWork[b] = <<>>
  <2>1. 0 \in Nat
    BY Zenon
  <2>2. QED
    BY <2>1, FreshFacts, Zenon
<1>2. /\ DOMAIN <<>> = {} /\ {"plain", "identity"} \subseteq Behaviour /\ Waking \subseteq Behaviour
      /\ commands = <<>> /\ Len(<<>>) = 0 /\ 1..0 = {} /\ <<>> \in Seq(Command)
  BY DEF Behaviour, Waking, Init
<1>3. /\ call \in [Call -> CallState]
      /\ \A c \in Call : call[c].state = "new" /\ call[c].result = None
      /\ inbound \in [Inbound -> InboundState]
      /\ \A i \in Inbound : inbound[i].state = "new" /\ inbound[i].replies = 0
  BY Zenon DEF Init, CallState, InboundState, None
<1>4. \A b \in Behaviour : DOMAIN pending[b] = {} /\ DOMAIN net.live[b] = {}
  BY <1>1, <1>2, Zenon DEF Init
<1>5. Shape
  BY <1>1, <1>3, <1>4, Zenon DEF Init, Shape, TablesOK
<1>6. Queued
  BY <1>2, Zenon DEF Queued
<1>7. Calls
  <2>1. Owners
    BY <1>2, <1>4, Zenon DEF Owners
  <2>2. Woken
    BY <1>3, Zenon DEF Woken, Waiting
  <2>3. Results
    BY <1>3, Zenon DEF Results
  <2>4. Record
    BY <1>1, Zenon DEF Init, Record
  <2>5. QED
    BY <2>1, <2>2, <2>3, <2>4, Zenon DEF Calls
<1>8. \A i \in Inbound : InboundOK(i)
  BY <1>3 DEF InboundOK
<1>9. Connected
  BY <1>1, <1>2, <1>4, Zenon DEF Init, Connected
<1>10. NoPlaintext
  BY <1>1, <1>2, Zenon DEF Init, NoPlaintext
<1>11. QED
  BY <1>5, <1>6, <1>7, <1>8, <1>9, <1>10, Zenon DEF Inv

LEMMA NextInv == Inv /\ [Next]_vars => Inv'
<1> SUFFICES ASSUME Inv, [Next]_vars PROVE Inv'
  BY Zenon
<1>1. CASE HandleCommand
  BY <1>1, KadQueryInv, LocalInv, SendInv, RespondInv, ReloadInv, ShutdownInv, Zenon DEF HandleCommand
<1>2. CASE shutdown \/ \E c \in Call, kind \in Kinds : Issue(c, kind)
  BY <1>2, HandleInv, Zenon
<1>3. CASE \E id \in DOMAIN net.live["kad"] : KadProgress(id) \/ \E ok \in BOOLEAN : KadFinished(id, ok)
  BY <1>3, ProgressInv, KadFinishedInv, Zenon
<1>4. CASE \E b \in {"plain", "pq"} : \E id \in DOMAIN net.live[b], ok \in BOOLEAN : OutboundFinished(b, id, ok)
  BY <1>4, OutboundFinishedInv, Zenon
<1>5. CASE \E id \in DOMAIN net.live["identity"], ok \in BOOLEAN : IdentityFinished(id, ok)
  BY <1>5, IdentityInv, Zenon
<1>6. CASE \E k \in Conn : ConnectionEstablished(k) \/ ConnectionClosed(k)
  BY <1>6, EstablishedInv, ClosedInv, Zenon
<1>7. CASE \E protocols \in {"pq", "plain"}, ours \in BOOLEAN : Identify(protocols, ours)
  BY <1>7, IdentifyInv, Zenon
<1>8. CASE \E i \in Inbound : \/ \E k \in Conn : PlainRequest(i, k) \/ PqRequest(i, k)
                              \/ send_response(i) \/ ResponseTask(i)
  BY <1>8, RequestInv, ReplyInv, Zenon
<1>9. CASE UNCHANGED vars
  BY <1>9, SilentSame, SilentInv, Zenon DEF vars
<1>10. QED
  BY <1>1, <1>2, <1>3, <1>4, <1>5, <1>6, <1>7, <1>8, <1>9, Zenon DEF Next

\* The inductive invariant holds in every reachable state.
THEOREM InvHolds == Spec => []Inv
  BY InitInv, NextInv, PTL DEF Spec

-----------------------------------------------------------------------------
(* What follows                                                            *)

F == INSTANCE FiniteSetTheorems

LEMMA Single ==
    ASSUME NEW S, NEW x, S = {x}
    PROVE  Cardinality(S) = 1
<1>1. F!Cardinality(S) = 1
  BY F!FS_Singleton, Zenon
<1>2. F!Cardinality(S) = Cardinality(S)
  BY Zenon DEF F!Cardinality, Cardinality, F!IsFiniteSet, IsFiniteSet
<1>3. QED
  BY <1>1, <1>2, Zenon

LEMMA TypeFromInv == Inv => TypeOK
<1> SUFFICES ASSUME Inv PROVE TypeOK
  BY Zenon
<1>1. Shape /\ Results
  BY Zenon DEF Inv, Calls
<1>2. \A c \in Call : call[c].state \in {"new", "sent", "waiting", "done", "gone"}
  BY <1>1, Zenon DEF Shape, CallState
<1>3. peer \in PeerState /\ running \in BOOLEAN
  BY <1>1, Zenon DEF Shape
<1>4. \A i \in Inbound : inbound[i].state \in {"new", "pending", "replied", "dropped"}
  BY <1>1, Zenon DEF Shape, InboundState
<1>5. net.open \subseteq Conn /\ net.record \in Call \cup {None} /\ net.next \in [Behaviour -> Nat]
      /\ pending \in [Behaviour -> Entries]
  BY <1>1, Zenon DEF Shape, NetState, PendingState
<1>6. ASSUME NEW b \in Behaviour, NEW id \in DOMAIN pending[b]
      PROVE  id \in 0..(net.next[b] - 1)
  <2>0. pending[b] \in Entries
    BY <1>5, Zenon
  <2>1. PICK S \in SUBSET Nat : pending[b] \in [S -> [call : Call \cup {None}, found : BOOLEAN]]
    BY <2>0, Zenon DEF Entries
  <2>2. id \in Nat
    BY <2>1, Zenon
  <2>3. id < net.next[b] /\ net.next[b] \in Nat
    BY <1>1, <1>5, Zenon DEF Shape, TablesOK
  <2>4. QED
    BY <2>2, <2>3
<1>7. QED
  BY <1>1, <1>2, <1>3, <1>4, <1>5, <1>6, Zenon DEF TypeOK, PeerState, Results

(***************************************************************************)
(* Across any number of reloads, with any mix of commands in the queue and *)
(* answers in any order, a caller that waits is in exactly one table and   *)
(* under the number of work that the swarm of now does for it.             *)
(***************************************************************************)
THEOREM WaitersTracked == Spec => []WaitersAreTracked
<1>1. Inv => WaitersAreTracked
  <2> SUFFICES ASSUME Inv PROVE WaitersAreTracked
    BY Zenon
  <2> DEFINE Tables == UNION {{<<b, id>> : id \in DOMAIN pending[b]} : b \in Behaviour \ {"identity"}}
             Mine(c) == {e \in Tables : pending[e[1]][e[2]].call = c}
  <2>1. Waking = Behaviour \ {"identity"}
    BY Zenon DEF Waking, Behaviour
  <2>2. \A e : e \in Tables <=> \E b \in Waking : \E id \in DOMAIN pending[b] : e = <<b, id>>
    <3> DEFINE Of(b) == {<<b, id>> : id \in DOMAIN pending[b]}
    <3>1. \A e : e \in Tables <=> \E b \in Waking : e \in Of(b)
      <4> HIDE DEF Of
      <4>1. Tables = UNION {Of(b) : b \in Waking}
        BY <2>1, Zenon DEF Of
      <4> HIDE DEF Tables
      <4>2. QED
        BY <4>1, Zenon
    <3>2. \A b, e : e \in Of(b) <=> \E id \in DOMAIN pending[b] : e = <<b, id>>
      BY Zenon
    <3> HIDE DEF Of, Tables
    <3>3. QED
      BY <3>1, <3>2, ZenonT(60)
  <2>3. \A b, id : <<b, id>>[1] = b /\ <<b, id>>[2] = id
    BY Zenon
  <2>4. Owners /\ Woken
    BY Zenon DEF Inv, Calls
  <2>5. ASSUME NEW c \in Waiting
        PROVE  /\ Cardinality(Mine(c)) = 1
               /\ \A e \in Mine(c) : e[2] \in DOMAIN net.live[e[1]] /\ net.live[e[1]][e[2]] = c
    <3>1. PICK b \in Waking : \E id \in DOMAIN pending[b] : pending[b][id].call = c
      BY <2>4, Zenon DEF Woken
    <3>2. PICK id \in DOMAIN pending[b] : pending[b][id].call = c
      BY <3>1, Zenon
    <3>3. /\ net.live[b][id] = c
          /\ \A d \in Waking : \A n \in DOMAIN pending[d] : pending[d][n].call = c => d = b /\ n = id
      <4>1. PICK w \in Call :
                /\ pending[b][id].call = w /\ net.live[b][id] = w
                /\ \A d \in Waking : \A n \in DOMAIN pending[d] : pending[d][n].call = w => d = b /\ n = id
        BY <2>4, <3>1, <3>2 DEF Owners
      <4>2. w = c
        BY <3>2, <4>1, Zenon
      <4>3. QED
        BY <4>1, <4>2, Zenon
    <3>4. id \in DOMAIN net.live[b]
      BY <2>1, Zenon DEF Inv, Shape, TablesOK
    <3>5. \A e : e \in Mine(c) <=> e = <<b, id>>
      <4> HIDE DEF Tables
      <4>1. ASSUME NEW e \in Tables, pending[e[1]][e[2]].call = c
            PROVE  e = <<b, id>>
        <5>1. PICK d \in Waking : \E n \in DOMAIN pending[d] : e = <<d, n>>
          BY <2>2, Zenon
        <5>2. PICK n \in DOMAIN pending[d] : e = <<d, n>>
          BY <5>1, Zenon
        <5>3. e[1] = d /\ e[2] = n
          BY <2>3, <5>2, Zenon
        <5>4. d = b /\ n = id
          BY <3>3, <4>1, <5>3, Zenon
        <5>5. QED
          BY <5>2, <5>4, Zenon
      <4>2. <<b, id>> \in Tables
        BY <2>2, <3>2, Zenon
      <4>3. pending[<<b, id>>[1]][<<b, id>>[2]].call = c
        BY <2>3, <3>2, Zenon
      <4>4. QED
        BY <4>1, <4>2, <4>3, Zenon
    <3>6. Mine(c) = {<<b, id>>}
      <4> HIDE DEF Mine
      <4>1. QED
        BY <3>5, Zenon
    <3> HIDE DEF Mine
    <3>7. Cardinality(Mine(c)) = 1
      BY <3>6, Single, Zenon
    <3>8. ASSUME NEW e \in Mine(c)
          PROVE  e[2] \in DOMAIN net.live[e[1]] /\ net.live[e[1]][e[2]] = c
      <4>1. e = <<b, id>>
        BY <3>6, <3>8, Zenon
      <4>2. e[1] = b /\ e[2] = id
        BY <4>1, Zenon
      <4>3. QED
        BY <3>3, <3>4, <4>2, Zenon
    <3>9. QED
      BY <3>7, <3>8, Zenon
  <2>6. QED
    BY <2>5, TypeFromInv, Zenon DEF WaitersAreTracked
<1>2. QED
  BY <1>1, InvHolds, PTL

(***************************************************************************)
(* A pending inbound request has an open connection and an answer made or  *)
(* still to be made, and no request is answered twice, whoever answers     *)
(* first and whatever reload or close comes between.                       *)
(***************************************************************************)
THEOREM InboundAnswered == Spec => []InboundAccounted
<1>1. Inv => InboundAccounted
  <2> SUFFICES ASSUME Inv PROVE InboundAccounted
    BY Zenon
  <2>1. DOMAIN commands = 1..Len(commands)
    BY DEF Inv, Queued
  <2>2. \A i \in Inbound : InboundOK(i)
    BY Zenon DEF Inv
  <2>3. QED
    BY <2>1, <2>2, Zenon DEF InboundAccounted, InboundOK, RespondQueued
<1>2. QED
  BY <1>1, InvHolds, PTL

(***************************************************************************)
(* The local store holds no record whose publication was answered with an  *)
(* error.                                                                  *)
(***************************************************************************)
THEOREM RecordPublished == Spec => []NoUnpublishedRecord
<1>1. Inv => NoUnpublishedRecord
  <2> SUFFICES ASSUME Inv PROVE NoUnpublishedRecord
    BY Zenon
  <2>1. net.record \in Call \cup {None}
    BY Zenon DEF Inv, Shape, NetState
  <2>2. Record
    BY Zenon DEF Inv, Calls
  <2>3. QED
    BY <2>1, <2>2, Zenon DEF Record, NoUnpublishedRecord
<1>2. QED
  BY <1>1, InvHolds, PTL

(***************************************************************************)
(* A peer's identity is held only while it is connected, late answers      *)
(* included, and a node that requires post-quantum encryption has no       *)
(* plaintext request under way or taken in.                                *)
(***************************************************************************)
THEOREM PqKept == Spec => []PqIsKept
<1>1. Inv => PqIsKept
  BY Zenon DEF Inv, Connected, NoPlaintext, InboundOK, PqIsKept, IdentityIsCurrent, RequiredMeansPq
<1>2. QED
  BY <1>1, InvHolds, PTL
=============================================================================
