------------------------- MODULE RelayManagerProofs -------------------------
(***************************************************************************)
(* Proofs about RelayManager, for any relays, any bootstrap nodes, any     *)
(* target and any number of losses, time-outs, reloads and queued events.  *)
(***************************************************************************)
EXTENDS RelayManager, TLAPS, WellFoundedInduction

-----------------------------------------------------------------------------
(* Induction over the candidates                                           *)

\* A nonempty set of naturals has a least element: the library's theorem on
\* well-founded relations, for the order of the naturals.
LEMMA LeastNatural ==
    ASSUME NEW S \in SUBSET Nat, S # {}
    PROVE  \E m \in S : \A n \in S : m <= n
<1> DEFINE R == {ss \in Nat \X Nat : ss[1] < ss[2]}
<1>1. R = OpToRel(<, Nat)
  BY Zenon DEF OpToRel
<1>2. IsWellFoundedOn(R, Nat)
  BY <1>1, NatLessThanWellFounded, Zenon
<1> HIDE DEF R
<1>3. PICK m \in S : \A n \in S : ~(<<n, m>> \in R)
  BY <1>2, WFMin, Zenon
<1>4. ASSUME NEW n \in S
      PROVE  m <= n
  <2>1. n \in Nat /\ m \in Nat
    BY Zenon
  <2>2. n < m => <<n, m>> \in R
    BY <2>1, Zenon DEF R
  <2>3. QED
    BY <1>3, <2>1, <2>2
<1>5. QED
  BY <1>4, Zenon

\* Induction up to N, with a set for the predicate.
LEMMA UpTo ==
    ASSUME NEW N \in Nat, NEW S, 0 \in S,
           \A n \in 0..(N - 1) : n \in S => n + 1 \in S
    PROVE  0..N \subseteq S
<1> SUFFICES ASSUME (0..N) \ S # {}
             PROVE  FALSE
  BY Zenon
<1>1. (0..N) \ S \in SUBSET Nat
  OBVIOUS
<1>2. PICK m \in (0..N) \ S : \A n \in (0..N) \ S : m <= n
  BY <1>1, LeastNatural, Zenon
<1>3. m # 0 /\ m - 1 \in 0..(N - 1) /\ (m - 1) + 1 = m
  BY <1>2
<1>4. m - 1 \in S
  BY <1>2, <1>3
<1>5. QED
  BY <1>2, <1>3, <1>4, Zenon

-----------------------------------------------------------------------------
(* tick()                                                                  *)

\* f is what tick's loop makes of the manager over the first N candidates.
Loop(f, N, m, ok) ==
    f = [n \in 0..N |-> IF n = 0 THEN expire_pending(m) ELSE TryCandidate(f[n - 1], nodes[n], ok)]

\* The loop computes something: the recursive function of tick exists.
LEMMA LoopExists ==
    ASSUME NEW N \in Nat, NEW m, NEW ok
    PROVE  \E f : Loop(f, N, m, ok)
<1> DEFINE S == {n \in 0..N : \E f : Loop(f, n, m, ok)}
<1>1. 0 \in S
  <2>1. Loop([n \in 0..0 |-> expire_pending(m)], 0, m, ok)
    BY DEF Loop
  <2>2. QED
    BY <2>1
<1>2. ASSUME NEW n \in 0..(N - 1), n \in S
      PROVE  n + 1 \in S
  <2>1. PICK f : Loop(f, n, m, ok)
    BY <1>2, Zenon
  <2> DEFINE g == [i \in 0..(n + 1) |-> IF i = n + 1 THEN TryCandidate(f[n], nodes[n + 1], ok) ELSE f[i]]
  <2>2. ASSUME NEW i \in 0..(n + 1)
        PROVE  g[i] = IF i = 0 THEN expire_pending(m) ELSE TryCandidate(g[i - 1], nodes[i], ok)
    <3>1. CASE i = n + 1
      <4>1. g[i] = TryCandidate(f[n], nodes[n + 1], ok) /\ i - 1 = n /\ i # 0
        BY <3>1
      <4>2. g[n] = f[n]
        OBVIOUS
      <4>3. QED
        BY <3>1, <4>1, <4>2, Zenon
    <3>2. CASE i # n + 1
      <4>1. i \in 0..n /\ g[i] = f[i]
        BY <3>2
      <4>2. i # 0 => i - 1 \in 0..n /\ i - 1 # n + 1 /\ g[i - 1] = f[i - 1]
        BY <4>1
      <4>3. f[i] = IF i = 0 THEN expire_pending(m) ELSE TryCandidate(f[i - 1], nodes[i], ok)
        BY <2>1, <4>1, Zenon DEF Loop
      <4>4. QED
        BY <4>1, <4>2, <4>3, Zenon
    <3>3. QED
      BY <3>1, <3>2, Zenon
  <2>3. Loop(g, n + 1, m, ok)
    <3> HIDE DEF g
    <3>1. g = [i \in 0..(n + 1) |-> g[i]]
      BY Zenon DEF g
    <3>2. QED
      BY <3>1, <2>2, Zenon DEF Loop
  <2>4. QED
    BY <2>3
<1>3. N \in S
  <2> HIDE DEF S
  <2>1. 0..N \subseteq S
    BY <1>1, <1>2, UpTo, Zenon
  <2>2. QED
    BY <2>1
<1>4. QED
  BY <1>3, Zenon

\* What a manager is made of.
Manager == [active : SUBSET Relay, pending : SUBSET Relay, overdue : SUBSET Relay, backoff : SUBSET Relay]

ManagerOK(m) == m \in Manager /\ m.overdue \subseteq m.pending /\ m.active \cap m.pending = {}

\* A manager that tick can have made of m.
After(m, n) == ManagerOK(n) /\ n.active = m.active

\* One more candidate keeps the manager well formed and the relays in use.
LEMMA TryCandidateFacts ==
    ASSUME NEW m, NEW n, After(m, n), NEW r \in Relay, NEW ok
    PROVE  After(m, TryCandidate(n, r, ok))
<1>1. n \in Manager
  BY Zenon DEF After, ManagerOK
<1>2. CASE TryCandidate(n, r, ok) = n
  BY <1>2, Zenon
<1>3. CASE TryCandidate(n, r, ok) = [n EXCEPT !.pending = @ \cup {r}] /\ r \notin n.active
  <2> DEFINE k == [n EXCEPT !.pending = @ \cup {r}]
  <2>1. /\ k \in Manager /\ k.active = n.active /\ k.overdue = n.overdue /\ k.pending = n.pending \cup {r}
    BY <1>1, Zenon DEF Manager
  <2> HIDE DEF k
  <2>2. QED
    BY <1>3, <2>1, Zenon DEF After, ManagerOK, k
<1>4. CASE TryCandidate(n, r, ok) = record_failure(n, {r})
  <2> DEFINE k == record_failure(n, {r})
  <2>1. k \in Manager /\ k.active = n.active /\ k.overdue = n.overdue /\ k.pending = n.pending
    BY <1>1, Zenon DEF Manager, record_failure
  <2> HIDE DEF k
  <2>2. QED
    BY <1>4, <2>1, Zenon DEF After, ManagerOK, k
<1>5. QED
  BY <1>2, <1>3, <1>4, Zenon DEF TryCandidate

LEMMA ExpireFacts ==
    ASSUME NEW m, ManagerOK(m)
    PROVE  After(m, expire_pending(m))
<1> DEFINE k == expire_pending(m)
<1>1. m \in Manager
  BY Zenon DEF ManagerOK
<1>2. k \in Manager /\ k.active = m.active /\ k.overdue = {} /\ k.pending = m.pending \ m.overdue
  BY <1>1, Zenon DEF Manager, expire_pending, record_failure
<1> HIDE DEF k
<1>3. QED
  BY <1>2, Zenon DEF After, ManagerOK, k

\* tick keeps the manager well formed and does not touch the relays in use.
LEMMA TickFacts ==
    ASSUME NEW m, ManagerOK(m), nodes \in Seq(Relay), NEW ok
    PROVE  After(m, tick(m, ok))
<1>1. CASE ~need
  <2>1. tick(m, ok) = m
    BY <1>1, Zenon DEF tick
  <2>2. QED
    BY <2>1, Zenon DEF After
<1>2. CASE need
  <2>0. Len(nodes) \in Nat /\ \A n \in 1..Len(nodes) : nodes[n] \in Relay
    OBVIOUS
  <2> DEFINE after == CHOOSE f : Loop(f, Len(nodes), m, ok)
  <2>1. Loop(after, Len(nodes), m, ok)
    BY <2>0, LoopExists, Zenon
  <2>2. tick(m, ok) = after[Len(nodes)]
    BY <1>2, Zenon DEF tick, Loop
  <2> HIDE DEF after
  <2>3. \A n \in 0..Len(nodes) :
            after[n] = IF n = 0 THEN expire_pending(m) ELSE TryCandidate(after[n - 1], nodes[n], ok)
    BY <2>1, Zenon DEF Loop
  <2> DEFINE S == {n \in 0..Len(nodes) : After(m, after[n])}
  <2>4. 0 \in S
    <3>1. 0 \in 0..Len(nodes)
      BY <2>0
    <3>2. after[0] = expire_pending(m)
      BY <2>3, <3>1, Zenon
    <3>3. QED
      BY <3>1, <3>2, ExpireFacts, Zenon
  <2>5. ASSUME NEW n \in 0..(Len(nodes) - 1), n \in S
        PROVE  n + 1 \in S
    <3>1. n + 1 \in 0..Len(nodes) /\ n + 1 \in 1..Len(nodes) /\ (n + 1) - 1 = n /\ n + 1 # 0
      BY <2>0
    <3>2. after[n + 1] = TryCandidate(after[n], nodes[n + 1], ok)
      BY <2>3, <3>1, Zenon
    <3>3. After(m, after[n + 1])
      BY <2>0, <2>5, <3>1, <3>2, TryCandidateFacts, Zenon
    <3>4. QED
      BY <3>1, <3>3, Zenon
  <2> HIDE DEF S
  <2>6. 0..Len(nodes) \subseteq S
    BY <2>0, <2>4, <2>5, UpTo, Zenon
  <2>7. Len(nodes) \in 0..Len(nodes)
    BY <2>0
  <2>8. QED
    BY <2>2, <2>6, <2>7, Zenon DEF S
<1>3. QED
  BY <1>1, <1>2, Zenon

-----------------------------------------------------------------------------
(* The inductive invariant                                                 *)

SwarmState == [listener : [Relay -> [Stage -> Nat]], bootstrapped : BOOLEAN,
               noticed : BOOLEAN, providing : BOOLEAN, epoch : Nat]

EventState == [kind : {"ready", "accepted", "closed", "bootstrap"}, relay : Relay \cup {Nobody}, epoch : Nat]

Confirms(e) == e.kind \in {"ready", "accepted"}
Closes(e, r) == e.kind = "closed" /\ e.relay = r

QueueOK ==
    /\ queue \in Seq(EventState)
    /\ \A i \in 1..Len(queue) : /\ queue[i].epoch <= swarm.epoch
                                /\ Confirms(queue[i]) => queue[i].relay \in Relay

TypeInv ==
    /\ nodes \in Seq(Relay) /\ provider \in BOOLEAN
    /\ ManagerOK(manager) /\ stale \subseteq manager.active /\ silent \subseteq Relay
    /\ swarm \in SwarmState

\* The relay has a circuit, or lost it without a word.
Held(r) == Live(r) \/ r \in silent

\* A confirmation of the current swarm that waits in the queue is still true,
\* or the news of the circuit's end waits behind it.
News ==
    \A i \in 1..Len(queue) :
        Confirms(queue[i]) /\ queue[i].epoch = swarm.epoch =>
            Held(queue[i].relay) \/ \E j \in (i + 1)..Len(queue) : Closes(queue[j], queue[i].relay)

\* What ConfirmedIsLive says of one relay, if it is not silent.
Known(r) == Held(r) \/ \E i \in 1..Len(queue) : Closes(queue[i], r)

Inv ==
    /\ TypeInv /\ QueueOK /\ News /\ ProviderIsCurrent
    /\ \A r \in manager.active \ stale : Known(r)

-----------------------------------------------------------------------------
(* The queue                                                               *)

\* Taking an event from the queue: what waits behind it keeps its place.
LEMMA TailFacts ==
    ASSUME QueueOK, News, queue # <<>>, queue' = Tail(queue), swarm'.epoch = swarm.epoch,
           \A r \in Relay : Held(r) => Held(r)'
    PROVE  /\ QueueOK' /\ News'
           /\ \A r \in Relay : Known(r) /\ ~Closes(Head(queue), r) => Known(r)'
           /\ Head(queue) \in EventState
           /\ Confirms(Head(queue)) => Head(queue).relay \in Relay
           /\ \A r \in Relay : Confirms(Head(queue)) /\ Head(queue).epoch = swarm.epoch /\ Head(queue).relay = r
                               => Known(r)'
<1>1. /\ queue \in Seq(EventState) /\ Len(queue) \in Nat /\ Len(queue) >= 1
      /\ Head(queue) = queue[1] /\ Head(queue) \in EventState
  BY DEF QueueOK
<1>2. /\ queue' \in Seq(EventState) /\ Len(queue') = Len(queue) - 1
      /\ \A i \in 1..Len(queue') : queue'[i] = queue[i + 1]
  BY <1>1
<1>3. \A i \in 1..Len(queue') : i + 1 \in 1..Len(queue)
  BY <1>1, <1>2
<1>4. QueueOK'
  BY <1>2, <1>3, Zenon DEF QueueOK, Confirms
<1>5. \A r : \A i \in 1..Len(queue) : (\E j \in (i + 1)..Len(queue) : Closes(queue[j], r)) =>
          \E j \in i..Len(queue') : Closes(queue'[j], r)
  <2> SUFFICES ASSUME NEW r, NEW i \in 1..Len(queue), NEW j \in (i + 1)..Len(queue), Closes(queue[j], r)
               PROVE  \E k \in i..Len(queue') : Closes(queue'[k], r)
    BY Zenon
  <2>1. j - 1 \in i..Len(queue') /\ j - 1 \in 1..Len(queue') /\ (j - 1) + 1 = j
    BY <1>1, <1>2
  <2>2. queue'[j - 1] = queue[j]
    BY <1>2, <2>1, Zenon
  <2>3. QED
    BY <2>1, <2>2, Zenon
<1>6. News'
  <2> SUFFICES ASSUME NEW i \in 1..Len(queue'), Confirms(queue'[i]), queue'[i].epoch = swarm'.epoch
               PROVE  \E r : r = queue'[i].relay
                             /\ (Held(r)' \/ \E j \in (i + 1)..Len(queue') : Closes(queue'[j], r))
    BY DEF News, Confirms, Closes, Held, Live
  <2>1. i + 1 \in 1..Len(queue) /\ queue'[i] = queue[i + 1]
    BY <1>2, <1>3, Zenon
  <2>2. queue[i + 1].relay \in Relay
    BY <2>1, Zenon DEF QueueOK
  <2>3. \/ Held(queue[i + 1].relay)
        \/ \E j \in ((i + 1) + 1)..Len(queue) : Closes(queue[j], queue[i + 1].relay)
    BY <2>1, Zenon DEF News
  <2>4. PICK r \in Relay : r = queue[i + 1].relay
    BY <2>2, Zenon
  <2>5. Held(r)' \/ \E j \in (i + 1)..Len(queue') : Closes(queue'[j], r)
    BY <1>5, <2>1, <2>3, <2>4, Zenon
  <2>6. QED
    BY <2>1, <2>4, <2>5, Zenon
<1>7. ASSUME NEW r \in Relay, Known(r), ~Closes(Head(queue), r)
      PROVE  Known(r)'
  <2>1. CASE Held(r)
    BY <2>1, Zenon DEF Known
  <2>2. ASSUME NEW i \in 1..Len(queue), Closes(queue[i], r)
        PROVE  Known(r)'
    <3>1. i # 1
      BY <1>1, <1>7, <2>2, Zenon
    <3>2. 1 \in 1..Len(queue) /\ i \in (1 + 1)..Len(queue)
      BY <1>1, <3>1
    <3>3. \E j \in 1..Len(queue') : Closes(queue'[j], r)
      BY <1>5, <2>2, <3>2, Zenon
    <3>4. QED
      BY <3>3, Zenon DEF Known, Closes
  <2>3. QED
    BY <1>7, <2>1, <2>2, Zenon DEF Known
<1>8. ASSUME Confirms(Head(queue))
      PROVE  /\ Head(queue).relay \in Relay
             /\ \A r \in Relay : Head(queue).epoch = swarm.epoch /\ Head(queue).relay = r => Known(r)'
  <2>1. 1 \in 1..Len(queue)
    BY <1>1
  <2>2. PICK r \in Relay : r = Head(queue).relay
    BY <1>1, <1>8, <2>1, Zenon DEF QueueOK
  <2>3. Head(queue).epoch = swarm.epoch => Held(r) \/ \E j \in (1 + 1)..Len(queue) : Closes(queue[j], r)
    BY <1>1, <1>8, <2>1, <2>2, Zenon DEF News
  <2>4. Head(queue).epoch = swarm.epoch => Held(r)' \/ \E j \in 1..Len(queue') : Closes(queue'[j], r)
    BY <1>5, <2>1, <2>3, Zenon
  <2>5. Head(queue).epoch = swarm.epoch => Known(r)'
    BY <2>4, Zenon DEF Known, Closes
  <2>6. QED
    BY <2>2, <2>5, Zenon
<1>9. QED
  BY <1>1, <1>4, <1>6, <1>7, <1>8, Zenon

\* An event is added to the queue: a confirmation that is true, or the news of
\* a circuit's end.
LEMMA AppendFacts ==
    ASSUME QueueOK, News, NEW e \in EventState, queue' = Append(queue, e),
           swarm.epoch \in Nat, swarm'.epoch = swarm.epoch, e.epoch = swarm.epoch,
           \A r \in Relay : Held(r) => Held(r)' \/ Closes(e, r),
           Confirms(e) => e.relay \in Relay,
           \A r \in Relay : Confirms(e) /\ e.relay = r => Held(r)'
    PROVE  /\ QueueOK' /\ News'
           /\ \A r \in Relay : Known(r) => Known(r)'
<1>1. queue \in Seq(EventState) /\ Len(queue) \in Nat
  BY DEF QueueOK
<1>2. /\ queue' \in Seq(EventState) /\ Len(queue') = Len(queue) + 1
      /\ \A i \in 1..Len(queue) : queue'[i] = queue[i]
      /\ queue'[Len(queue) + 1] = e
  BY <1>1
<1>3. \A i \in 1..Len(queue') : i \in 1..Len(queue) \/ i = Len(queue) + 1
  BY <1>1, <1>2
<1>4. Len(queue) + 1 \in 1..Len(queue') /\ \A i \in 1..Len(queue) : i \in 1..Len(queue')
  BY <1>1, <1>2
<1>5. QueueOK'
  BY <1>2, <1>3 DEF QueueOK, Confirms
<1>6. \A r \in Relay : \A i \in 1..Len(queue) :
          Held(r) \/ (\E j \in (i + 1)..Len(queue) : Closes(queue[j], r)) =>
              Held(r)' \/ \E j \in (i + 1)..Len(queue') : Closes(queue'[j], r)
  <2> SUFFICES ASSUME NEW r \in Relay, NEW i \in 1..Len(queue),
                      Held(r) \/ (\E j \in (i + 1)..Len(queue) : Closes(queue[j], r)),
                      ~Held(r)'
               PROVE  \E j \in (i + 1)..Len(queue') : Closes(queue'[j], r)
    BY Zenon
  <2>1. CASE Held(r)
    <3>1. Closes(e, r) /\ Len(queue) + 1 \in (i + 1)..Len(queue')
      BY <1>1, <1>2, <2>1
    <3>2. QED
      BY <1>2, <3>1, Zenon
  <2>2. ASSUME NEW j \in (i + 1)..Len(queue), Closes(queue[j], r)
        PROVE  \E k \in (i + 1)..Len(queue') : Closes(queue'[k], r)
    <3>1. j \in 1..Len(queue) /\ j \in (i + 1)..Len(queue')
      BY <1>1, <1>2
    <3>2. QED
      BY <1>2, <2>2, <3>1, Zenon
  <2>3. QED
    BY <2>1, <2>2, Zenon
<1>7. News'
  <2> SUFFICES ASSUME NEW i \in 1..Len(queue'), Confirms(queue'[i]), queue'[i].epoch = swarm'.epoch
               PROVE  \E r : r = queue'[i].relay
                             /\ (Held(r)' \/ \E j \in (i + 1)..Len(queue') : Closes(queue'[j], r))
    BY DEF News, Confirms, Closes, Held, Live
  <2>1. CASE i = Len(queue) + 1
    BY <1>2, <2>1, Zenon
  <2>2. CASE i \in 1..Len(queue)
    <3>1. queue'[i] = queue[i]
      BY <1>2, <2>2, Zenon
    <3>2. PICK r \in Relay : r = queue[i].relay
      BY <2>2, <3>1, Zenon DEF QueueOK
    <3>3. Held(r) \/ \E j \in (i + 1)..Len(queue) : Closes(queue[j], r)
      BY <2>2, <3>1, <3>2, Zenon DEF News
    <3>4. QED
      BY <1>6, <2>2, <3>1, <3>2, <3>3, Zenon
  <2>3. QED
    BY <1>3, <2>1, <2>2, Zenon
<1>8. ASSUME NEW r \in Relay, Known(r)
      PROVE  Known(r)'
  <2>1. CASE Held(r)
    <3>1. Held(r)' \/ Closes(e, r)
      BY <2>1, Zenon
    <3>2. QED
      BY <1>2, <1>4, <3>1, Zenon DEF Known, Closes
  <2>2. ASSUME NEW i \in 1..Len(queue), Closes(queue[i], r)
        PROVE  Known(r)'
    BY <1>2, <1>4, <2>2, Zenon DEF Known, Closes
  <2>3. QED
    BY <1>8, <2>1, <2>2, Zenon DEF Known
<1>9. QED
  BY <1>5, <1>7, <1>8, Zenon

-----------------------------------------------------------------------------
(* The trailing tick                                                       *)

\* What the tick that ends a handler leaves alone.
LEMMA TickStep ==
    ASSUME NEW m, ManagerOK(m), NEW s \in SwarmState, nodes \in Seq(Relay), Tick(m, s)
    PROVE  /\ ManagerOK(manager') /\ manager'.active = m.active
           /\ swarm' \in SwarmState /\ swarm'.epoch = s.epoch /\ swarm'.providing = s.providing
           /\ \A r \in Relay, st \in Stage \ {"requested"} : swarm'.listener[r][st] = s.listener[r][st]
<1>1. PICK result \in {tick(m, ok) : ok \in SUBSET Range(nodes)} :
          /\ manager' = result
          /\ swarm' = [s EXCEPT !.listener = Requested(s.listener, Listened(m, result))]
  BY Zenon DEF Tick
<1>2. ManagerOK(manager') /\ manager'.active = m.active
  BY <1>1, TickFacts, Zenon DEF After
<1> DEFINE l == Requested(s.listener, Listened(m, result))
<1>3. swarm' = [s EXCEPT !.listener = l]
  BY <1>1, Zenon
<1>4. s.listener \in [Relay -> [Stage -> Nat]]
  BY Zenon DEF SwarmState
<1>5. l \in [Relay -> [Stage -> Nat]]
  BY <1>4 DEF Stage, Requested
<1>6. \A r \in Relay, st \in Stage \ {"requested"} : l[r][st] = s.listener[r][st]
  BY <1>4, Zenon DEF Stage, Requested
<1> HIDE DEF l
<1>7. swarm' \in SwarmState /\ swarm'.epoch = s.epoch /\ swarm'.providing = s.providing /\ swarm'.listener = l
  BY <1>3, <1>5, Zenon DEF SwarmState
<1>8. QED
  BY <1>2, <1>6, <1>7, Zenon

\* A step of the controller that takes no event and leaves the relays in use.
Quiet ==
    /\ TypeInv' /\ ProviderIsCurrent' /\ swarm'.epoch = swarm.epoch
    /\ \A r \in Relay : Held(r) => Held(r)'
    /\ manager'.active = manager.active /\ stale' = stale /\ silent' = silent

LEMMA QuietFacts ==
    ASSUME Inv, Quiet, UNCHANGED queue
    PROVE  Inv'
<1>1. QueueOK'
  BY Zenon DEF Inv, QueueOK, Confirms, Quiet
<1>2. News'
  <2> SUFFICES ASSUME NEW i \in 1..Len(queue), Confirms(queue[i]), queue[i].epoch = swarm.epoch
               PROVE  \E r : r = queue[i].relay
                             /\ (Held(r)' \/ \E j \in (i + 1)..Len(queue) : Closes(queue[j], r))
    BY DEF News, Confirms, Closes, Held, Live, Quiet
  <2>1. PICK r \in Relay : r = queue[i].relay
    BY Zenon DEF Inv, QueueOK
  <2>2. QED
    BY <2>1, Zenon DEF Inv, News, Quiet
<1>3. ASSUME NEW r \in manager'.active \ stale'
      PROVE  Known(r)'
  <2>1. r \in manager.active \ stale /\ r \in Relay
    BY <1>3, Zenon DEF Quiet, Inv, TypeInv, ManagerOK, Manager
  <2>2. Known(r)
    BY <2>1, Zenon DEF Inv
  <2>3. QED
    BY <2>1, <2>2, Zenon DEF Known, Quiet, Closes
<1>4. QED
  BY <1>1, <1>2, <1>3, Zenon DEF Inv, Quiet

\* The step ends with a tick; providing may be set, and the provider flag with it.
LEMMA AnnounceAndTick ==
    ASSUME Inv, UNCHANGED <<nodes, stale, silent>>, NEW flag \in BOOLEAN, flag => swarm.providing,
           NEW answer \in announce_self(flag, swarm.providing),
           provider' = answer[1], Tick(manager, [swarm EXCEPT !.providing = answer[2]])
    PROVE  Quiet
<1> DEFINE s == [swarm EXCEPT !.providing = answer[2]]
<1>1. /\ swarm \in SwarmState /\ nodes \in Seq(Relay) /\ ManagerOK(manager)
      /\ stale \subseteq manager.active /\ silent \subseteq Relay
  BY Zenon DEF Inv, TypeInv
<1>2. answer[1] \in BOOLEAN /\ answer[2] \in BOOLEAN /\ (answer[1] => answer[2])
  <2>1. swarm.providing \in BOOLEAN
    BY <1>1, Zenon DEF SwarmState
  <2>2. \/ answer = <<flag, swarm.providing>> \/ answer = <<FALSE, swarm.providing>> \/ answer = <<TRUE, TRUE>>
    BY Zenon DEF announce_self
  <2>3. \/ answer[1] = flag /\ answer[2] = swarm.providing
        \/ answer[1] = FALSE /\ answer[2] = swarm.providing
        \/ answer[1] = TRUE /\ answer[2] = TRUE
    <3>1. \A a, b : answer = <<a, b>> => answer[1] = a /\ answer[2] = b
      OBVIOUS
    <3>2. QED
      BY <2>2, <3>1, Zenon
  <2>4. QED
    BY <2>1, <2>3, Zenon
<1>3. /\ s \in SwarmState /\ s.epoch = swarm.epoch /\ s.listener = swarm.listener
      /\ s.providing = answer[2]
  BY <1>1, <1>2, Zenon DEF SwarmState
<1> HIDE DEF s
<1>4. Tick(manager, s)
  BY Zenon DEF s
<1>5. /\ ManagerOK(manager') /\ manager'.active = manager.active
      /\ swarm' \in SwarmState /\ swarm'.epoch = s.epoch /\ swarm'.providing = s.providing
      /\ \A r \in Relay, st \in Stage \ {"requested"} : swarm'.listener[r][st] = s.listener[r][st]
  BY <1>1, <1>3, <1>4, TickStep, Zenon
<1>6. \A r \in Relay : Held(r) => Held(r)'
  BY <1>3, <1>5 DEF Held, Live
<1>7. TypeInv'
  BY <1>1, <1>2, <1>5, Zenon DEF TypeInv
<1>8. ProviderIsCurrent'
  BY <1>2, <1>3, <1>5, Zenon DEF ProviderIsCurrent
<1>9. QED
  BY <1>3, <1>5, <1>6, <1>7, <1>8, Zenon DEF Quiet

-----------------------------------------------------------------------------
(* The actions                                                             *)

LEMMA TickInv ==
    ASSUME Inv, RelayTick
    PROVE  Inv'
<1>1. PICK answer \in announce_self(provider, swarm.providing) :
          provider' = answer[1] /\ Tick(manager, [swarm EXCEPT !.providing = answer[2]])
  BY Zenon DEF RelayTick
<1>2. Quiet
  BY <1>1, AnnounceAndTick, Zenon DEF RelayTick, Inv, TypeInv, ProviderIsCurrent
<1>3. QED
  BY <1>2, QuietFacts, Zenon DEF RelayTick

\* Behind the event that a handler takes, the queue stays as it was.
LEMMA TakenFacts ==
    ASSUME Inv, NEW kind, Taken(kind), TypeInv', swarm'.epoch = swarm.epoch, ProviderIsCurrent',
           \A r \in Relay : Held(r) => Held(r)',
           \A r \in manager'.active \ stale' :
               \/ r \in manager.active \ stale /\ ~Closes(Head(queue), r)
               \/ Confirms(Head(queue)) /\ Head(queue).relay = r /\ Head(queue).epoch = swarm.epoch
    PROVE  Inv'
<1>1. /\ QueueOK' /\ News'
      /\ \A r \in Relay : Known(r) /\ ~Closes(Head(queue), r) => Known(r)'
      /\ \A r \in Relay : Confirms(Head(queue)) /\ Head(queue).epoch = swarm.epoch /\ Head(queue).relay = r
                          => Known(r)'
  BY TailFacts, Zenon DEF Inv, Taken
<1>2. ASSUME NEW r \in manager'.active \ stale'
      PROVE  Known(r)'
  <2>1. r \in Relay
    BY <1>2, Zenon DEF TypeInv, ManagerOK, Manager
  <2>2. QED
    BY <1>1, <1>2, <2>1, Zenon DEF Inv
<1>3. QED
  BY <1>1, <1>2, Zenon DEF Inv

LEMMA BootstrapInv ==
    ASSUME Inv, BootstrapCompleted
    PROVE  Inv'
<1>1. PICK answer \in announce_self(FALSE, swarm.providing) :
          provider' = answer[1] /\ Tick(manager, [swarm EXCEPT !.providing = answer[2]])
  BY Zenon DEF BootstrapCompleted
<1>2. Quiet
  BY <1>1, AnnounceAndTick, Zenon DEF BootstrapCompleted
<1>3. \A r : ~Closes(Head(queue), r)
  BY Zenon DEF BootstrapCompleted, Taken, Closes
<1>4. QED
  BY <1>2, <1>3, TakenFacts, Zenon DEF BootstrapCompleted, Quiet

LEMMA ConfirmInv ==
    ASSUME Inv, NEW kind \in {"ready", "accepted"}, Taken(kind),
           NEW r, r = Head(queue).relay, manager' = Confirm(manager, r), stale' = Marked(r),
           UNCHANGED <<nodes, provider, swarm, silent>>
    PROVE  Inv'
<1>1. /\ ManagerOK(manager) /\ stale \subseteq manager.active /\ silent \subseteq Relay /\ nodes \in Seq(Relay)
      /\ provider \in BOOLEAN /\ swarm \in SwarmState /\ ProviderIsCurrent
  BY Zenon DEF Inv, TypeInv
<1>2. Confirms(Head(queue)) /\ \A q : ~Closes(Head(queue), q)
  BY Zenon DEF Taken, Confirms, Closes
<1>3. \A q \in Relay : Held(q) => Held(q)'
  BY Zenon DEF Held, Live
<1>4. r \in Relay
  BY <1>2, <1>3, TailFacts, Zenon DEF Inv, Taken
<1>5. ManagerOK(manager') /\ manager'.active = manager.active \cup {r}
  BY <1>1, <1>4, Zenon DEF ManagerOK, Manager, Confirm
<1>6. stale' \subseteq manager'.active
  BY <1>1, <1>5, Zenon DEF Marked
<1>7. TypeInv' /\ ProviderIsCurrent'
  BY <1>1, <1>5, <1>6, Zenon DEF TypeInv, ProviderIsCurrent
<1>8. \A q \in manager'.active \ stale' :
          \/ q \in manager.active \ stale /\ ~Closes(Head(queue), q)
          \/ Confirms(Head(queue)) /\ Head(queue).relay = q /\ Head(queue).epoch = swarm.epoch
  BY <1>2, <1>5, Zenon DEF Marked
<1>9. QED
  BY <1>3, <1>7, <1>8, TakenFacts, Zenon

LEMMA ClosedInv ==
    ASSUME Inv, on_listener_closed
    PROVE  Inv'
<1>0. Taken("closed") /\ UNCHANGED <<need, nodes, provider, silent>>
  BY Zenon DEF on_listener_closed
<1>1. /\ ManagerOK(manager) /\ stale \subseteq manager.active /\ silent \subseteq Relay /\ nodes \in Seq(Relay)
      /\ provider \in BOOLEAN /\ swarm \in SwarmState /\ ProviderIsCurrent
  BY Zenon DEF Inv, TypeInv
<1>2. PICK r : r = Head(queue).relay
  BY Zenon
<1>3. ~Confirms(Head(queue)) /\ \A q : Closes(Head(queue), q) => q = r
  BY <1>0, <1>2, Zenon DEF Taken, Confirms, Closes
<1>4. CASE r \in manager.active \cup manager.pending
  <2>1. stale' = stale \ {r} /\ Tick(Forget(manager, r), swarm)
    BY <1>2, <1>4, Zenon DEF on_listener_closed
  <2> DEFINE m == Forget(manager, r)
  <2>2. ManagerOK(m) /\ m.active = manager.active \ {r}
    BY <1>1, <1>4, Zenon DEF ManagerOK, Manager, Forget, record_failure
  <2> HIDE DEF m
  <2>3. Tick(m, swarm)
    BY <2>1, Zenon DEF m
  <2>4. /\ ManagerOK(manager') /\ manager'.active = m.active
        /\ swarm' \in SwarmState /\ swarm'.epoch = swarm.epoch /\ swarm'.providing = swarm.providing
        /\ \A q \in Relay, st \in Stage \ {"requested"} : swarm'.listener[q][st] = swarm.listener[q][st]
    BY <1>1, <2>2, <2>3, TickStep, Zenon
  <2>5. \A q \in Relay : Held(q) => Held(q)'
    BY <1>0, <2>4, Zenon DEF Held, Live
  <2>6. TypeInv' /\ ProviderIsCurrent'
    BY <1>0, <1>1, <2>1, <2>2, <2>4, Zenon DEF TypeInv, ProviderIsCurrent
  <2>7. \A q \in manager'.active \ stale' : q \in manager.active \ stale /\ ~Closes(Head(queue), q)
    BY <1>3, <2>1, <2>2, <2>4, Zenon
  <2>8. QED
    BY <1>0, <2>4, <2>5, <2>6, <2>7, TakenFacts, Zenon
<1>5. CASE r \notin manager.active \cup manager.pending
  <2>1. UNCHANGED <<manager, swarm, stale>>
    BY <1>2, <1>5, Zenon DEF on_listener_closed
  <2>2. TypeInv' /\ ProviderIsCurrent' /\ swarm'.epoch = swarm.epoch /\ \A q \in Relay : Held(q) => Held(q)'
    BY <1>0, <1>1, <2>1, Zenon DEF TypeInv, ProviderIsCurrent, Held, Live
  <2>3. \A q \in manager'.active \ stale' : q \in manager.active \ stale /\ ~Closes(Head(queue), q)
    BY <1>3, <1>5, <2>1, Zenon
  <2>4. QED
    BY <1>0, <2>2, <2>3, TakenFacts, Zenon
<1>6. QED
  BY <1>4, <1>5, Zenon

LEMMA ReloadInv ==
    ASSUME Inv, cmd_reload_config
    PROVE  Inv'
<1>1. /\ swarm \in SwarmState /\ nodes \in Seq(Relay) /\ swarm.epoch \in Nat
  BY Zenon DEF Inv, TypeInv, SwarmState
<1>2. swarm' \in SwarmState /\ swarm'.epoch = swarm.epoch + 1
  BY <1>1 DEF cmd_reload_config, NewSwarm, SwarmState, Stage
<1>3. ManagerOK(manager') /\ manager'.active = {}
  BY Zenon DEF cmd_reload_config, NoManager, ManagerOK, Manager
<1>4. TypeInv' /\ ProviderIsCurrent'
  BY <1>1, <1>2, <1>3, Zenon DEF TypeInv, ProviderIsCurrent, cmd_reload_config
<1>5. QueueOK /\ queue' = queue
  BY Zenon DEF Inv, cmd_reload_config
<1>6. \A i \in 1..Len(queue) : queue[i].epoch \in Nat /\ queue[i].epoch <= swarm.epoch
  <2>1. \A i \in 1..Len(queue) : queue[i] \in EventState /\ queue[i].epoch <= swarm.epoch
    BY <1>5 DEF QueueOK
  <2>2. \A e \in EventState : e.epoch \in Nat
    BY Zenon DEF EventState
  <2>3. QED
    BY <2>1, <2>2, Zenon
<1>7. \A i \in 1..Len(queue) : queue[i].epoch <= swarm'.epoch /\ queue[i].epoch # swarm'.epoch
  BY <1>1, <1>2, <1>6
<1>8. QueueOK'
  BY <1>5, <1>7, Zenon DEF QueueOK, Confirms
<1>9. News'
  BY <1>5, <1>7, Zenon DEF News
<1>10. QED
  BY <1>3, <1>4, <1>8, <1>9, Zenon DEF Inv

\* The swarm changes a counter of a relay's listeners and tells the controller.
LEMMA EmitInv ==
    ASSUME Inv, NEW e \in EventState, Emit(e), e.epoch = swarm.epoch,
           UNCHANGED <<nodes, manager, provider, stale>>, silent' \subseteq Relay,
           swarm' \in SwarmState, swarm'.epoch = swarm.epoch, swarm'.providing = swarm.providing,
           \A r \in Relay : Held(r) => Held(r)' \/ Closes(e, r),
           Confirms(e) => e.relay \in Relay,
           \A r \in Relay : Confirms(e) /\ e.relay = r => Held(r)'
    PROVE  Inv'
<1>1. /\ ManagerOK(manager) /\ stale \subseteq manager.active /\ silent \subseteq Relay /\ nodes \in Seq(Relay)
      /\ provider \in BOOLEAN /\ swarm \in SwarmState /\ ProviderIsCurrent /\ QueueOK /\ News
  BY Zenon DEF Inv, TypeInv
<1>2. swarm.epoch \in Nat
  BY <1>1, Zenon DEF SwarmState
<1>3. QueueOK' /\ News' /\ \A r \in Relay : Known(r) => Known(r)'
  BY <1>1, <1>2, AppendFacts, Zenon DEF Emit
<1>4. TypeInv' /\ ProviderIsCurrent'
  BY <1>1, Zenon DEF TypeInv, ProviderIsCurrent
<1>5. manager.active \subseteq Relay
  BY <1>1, Zenon DEF ManagerOK, Manager
<1>6. \A r \in manager'.active \ stale' : Known(r)'
  BY <1>3, <1>5, Zenon DEF Inv
<1>7. QED
  BY <1>3, <1>4, <1>6, Zenon DEF Inv

\* A listener that moves on to a stage with a circuit gives the relay one.
LEMMA MoveFacts ==
    ASSUME swarm \in SwarmState, NEW r \in Relay, NEW from \in Stage, NEW to \in Stage \ {"requested"},
           from # to, Move(r, from, to)
    PROVE  /\ swarm' \in SwarmState /\ swarm'.epoch = swarm.epoch /\ swarm'.providing = swarm.providing
           /\ Live(r)' /\ \A q \in Relay : Live(q) => Live(q)'
<1>1. swarm.listener \in [Relay -> [Stage -> Nat]] /\ swarm.listener[r][from] > 0
  BY Zenon DEF SwarmState, Move
<1> DEFINE l == [swarm.listener EXCEPT ![r][from] = @ - 1, ![r][to] = @ + 1]
<1>2. swarm' = [swarm EXCEPT !.listener = l]
  BY <1>1, Zenon DEF Move, SwarmState
<1>3. l \in [Relay -> [Stage -> Nat]]
  BY <1>1
<1>4. l[r][to] > 0 /\ \A q \in Relay \ {r} : l[q] = swarm.listener[q]
  BY <1>1
<1> HIDE DEF l
<1>5. /\ swarm' \in SwarmState /\ swarm'.epoch = swarm.epoch /\ swarm'.providing = swarm.providing
      /\ swarm'.listener = l
  BY <1>2, <1>3, Zenon DEF SwarmState
<1>6. Live(r)'
  BY <1>4, <1>5, Zenon DEF Live
<1>7. \A q \in Relay : Live(q) => Live(q)'
  BY <1>4, <1>5, <1>6, Zenon DEF Live
<1>8. QED
  BY <1>5, <1>6, <1>7, Zenon

\* The events of the swarm.
LEMMA EventFacts ==
    ASSUME Inv, NEW kind \in {"ready", "accepted", "closed", "bootstrap"}, NEW r \in Relay \cup {Nobody}
    PROVE  /\ Event(kind, r) \in EventState /\ Event(kind, r).epoch = swarm.epoch
           /\ Event(kind, r).kind = kind /\ Event(kind, r).relay = r
  BY Zenon DEF Inv, TypeInv, SwarmState, Event, EventState

LEMMA GrantInv ==
    ASSUME Inv, NEW r \in Relay, NewListenAddr(r) \/ ReservationReqAccepted(r)
    PROVE  Inv'
<1>1. /\ swarm \in SwarmState /\ UNCHANGED <<nodes, manager, provider, stale>>
      /\ silent \subseteq Relay /\ silent' = silent \ {r}
  BY Zenon DEF Inv, TypeInv, NewListenAddr, ReservationReqAccepted
<1>2. PICK kind \in {"ready", "accepted"} : Emit(Event(kind, r))
  BY Zenon DEF NewListenAddr, ReservationReqAccepted
<1>3. /\ swarm' \in SwarmState /\ swarm'.epoch = swarm.epoch /\ swarm'.providing = swarm.providing
      /\ Live(r)' /\ \A q \in Relay : Live(q) => Live(q)'
  <2>1. /\ {"requested", "accepted", "listening", "open"} \subseteq Stage
        /\ {"accepted", "listening", "open"} \subseteq Stage \ {"requested"}
        /\ "requested" # "listening" /\ "accepted" # "open" /\ "requested" # "accepted" /\ "listening" # "open"
    BY Zenon DEF Stage
  <2>2. \/ Move(r, "requested", "listening") \/ Move(r, "accepted", "open")
        \/ Move(r, "requested", "accepted") \/ Move(r, "listening", "open")
    BY Zenon DEF NewListenAddr, ReservationReqAccepted
  <2>3. QED
    BY <1>1, <2>1, <2>2, MoveFacts, Zenon
<1> DEFINE e == Event(kind, r)
<1>4. e \in EventState /\ e.epoch = swarm.epoch /\ e.relay = r
  BY <1>2, EventFacts
<1> HIDE DEF e
<1>5. Emit(e)
  BY <1>2, Zenon DEF e
<1>6. silent' \subseteq Relay /\ Held(r)' /\ \A q \in Relay : Held(q) => Held(q)'
  BY <1>1, <1>3, Zenon DEF Held
<1>7. QED
  BY <1>1, <1>3, <1>4, <1>5, <1>6, EmitInv, Zenon

LEMMA CloseInv ==
    ASSUME Inv, NEW r \in Relay, ListenerClosed(r)
    PROVE  Inv'
<1>1. swarm \in SwarmState /\ UNCHANGED <<nodes, manager, provider, stale>> /\ silent \subseteq Relay
  BY Zenon DEF Inv, TypeInv, ListenerClosed
<1>2. PICK st \in Stage, peer \in {r, Nobody} :
          /\ swarm.listener[r][st] > 0 /\ (st \in {"listening", "open"} => peer = r)
          /\ swarm' = [swarm EXCEPT !.listener[r][st] = @ - 1]
          /\ Emit(Event("closed", peer))
          /\ silent' = IF st = "accepted" /\ peer = Nobody /\ ~Live(r)' THEN silent \cup {r} ELSE silent
  BY Zenon DEF ListenerClosed
<1>3. swarm.listener \in [Relay -> [Stage -> Nat]] /\ st \in Stage
  BY <1>1, Zenon DEF SwarmState, Stage
<1> DEFINE l == [swarm.listener EXCEPT ![r][st] = @ - 1]
<1>4. swarm' = [swarm EXCEPT !.listener = l]
  BY <1>2, Zenon
<1>5. l \in [Relay -> [Stage -> Nat]]
  BY <1>2, <1>3
<1>6. /\ \A q \in Relay \ {r} : l[q] = swarm.listener[q]
      /\ \A s \in Stage \ {st} : l[r][s] = swarm.listener[r][s]
  BY <1>3, Zenon
<1> HIDE DEF l
<1>7. /\ swarm' \in SwarmState /\ swarm'.epoch = swarm.epoch /\ swarm'.providing = swarm.providing
      /\ swarm'.listener = l
  BY <1>1, <1>4, <1>5, Zenon DEF SwarmState
<1> DEFINE e == Event("closed", peer)
<1>8. e \in EventState /\ e.epoch = swarm.epoch /\ e.kind = "closed" /\ e.relay = peer
  BY EventFacts
<1> HIDE DEF e
<1>9. Emit(e)
  BY <1>2, Zenon DEF e
<1>10. silent \subseteq silent' /\ silent' \subseteq Relay
  BY <1>1, <1>2, Zenon
<1>11. ASSUME NEW q \in Relay, Live(q), ~Closes(e, q)
       PROVE  Held(q)'
  <2>1. CASE q # r
    BY <1>6, <1>7, <1>11, <2>1, Zenon DEF Live, Held
  <2>2. CASE q = r /\ st = "requested"
    BY <1>6, <1>7, <1>11, <2>2, Zenon DEF Live, Held
  <2>3. CASE q = r /\ st # "requested"
    <3>1. peer # r
      BY <1>8, <1>11, <2>3, Zenon DEF Closes
    <3>2. st = "accepted" /\ peer = Nobody
      BY <1>2, <2>3, <3>1, Zenon DEF Stage
    <3>3. QED
      BY <1>2, <2>3, <3>2, Zenon DEF Held
  <2>4. QED
    BY <2>1, <2>2, <2>3, Zenon
<1>12. \A q \in Relay : Held(q) => Held(q)' \/ Closes(e, q)
  BY <1>10, <1>11, Zenon DEF Held
<1>13. ~Confirms(e)
  BY <1>8, Zenon DEF Confirms
<1>14. QED
  BY <1>1, <1>7, <1>8, <1>9, <1>10, <1>12, <1>13, EmitInv, Zenon

LEMMA KadInv ==
    ASSUME Inv, KadBootstrap
    PROVE  Inv'
<1>1. swarm \in SwarmState /\ UNCHANGED <<nodes, manager, provider, stale, silent>> /\ silent \subseteq Relay
  BY Zenon DEF Inv, TypeInv, KadBootstrap
<1>2. /\ swarm' \in SwarmState /\ swarm'.epoch = swarm.epoch /\ swarm'.providing = swarm.providing
      /\ swarm'.listener = swarm.listener
  BY <1>1, Zenon DEF SwarmState, KadBootstrap
<1> DEFINE e == Event("bootstrap", Nobody)
<1>3. e \in EventState /\ e.epoch = swarm.epoch /\ e.kind = "bootstrap"
  BY EventFacts, Zenon
<1> HIDE DEF e
<1>4. Emit(e)
  BY Zenon DEF e, KadBootstrap
<1>5. \A q \in Relay : Held(q) => Held(q)'
  BY <1>1, <1>2, Zenon DEF Held, Live
<1>6. ~Confirms(e)
  BY <1>3, Zenon DEF Confirms
<1>7. QED
  BY <1>1, <1>2, <1>3, <1>4, <1>5, <1>6, EmitInv, Zenon

LEMMA RenewalInv ==
    ASSUME Inv, NEW r \in Relay, Renewal(r)
    PROVE  Inv'
<1> DEFINE a == Event("accepted", r)
           b == Event("ready", r)
<1>1. /\ a \in EventState /\ a.epoch = swarm.epoch /\ a.relay = r
      /\ b \in EventState /\ b.epoch = swarm.epoch /\ b.relay = r
  BY EventFacts, Zenon
<1>2. queue' = <<a, b>> /\ queue = <<>> /\ UNCHANGED <<nodes, manager, provider, swarm, stale, silent>>
  BY Zenon DEF Renewal
<1>3. Held(r)' /\ \A q \in Relay : Held(q) => Held(q)'
  BY <1>2, Zenon DEF Renewal, Held, Live, Stage
<1> HIDE DEF a, b
<1>4. /\ queue' \in Seq(EventState) /\ Len(queue') = 2 /\ queue'[1] = a /\ queue'[2] = b
      /\ \A i \in 1..Len(queue') : i = 1 \/ i = 2
  BY <1>1, <1>2
<1>5. \A i \in 1..Len(queue') : queue'[i] \in EventState /\ queue'[i].epoch = swarm.epoch /\ queue'[i].relay = r
  BY <1>1, <1>4, Zenon
<1>6. swarm.epoch <= swarm.epoch
  BY DEF Inv, TypeInv, SwarmState
<1>7. QueueOK'
  BY <1>2, <1>4, <1>5, <1>6, Zenon DEF QueueOK
<1>8. News'
  BY <1>3, <1>5, Zenon DEF News, Held, Live
<1>9. TypeInv' /\ ProviderIsCurrent'
  BY <1>2, Zenon DEF Inv, TypeInv, ProviderIsCurrent
<1>10. ASSUME NEW q \in manager'.active \ stale'
       PROVE  Known(q)'
  <2>1. q \in manager.active \ stale /\ q \in Relay
    BY <1>2, <1>10, Zenon DEF Inv, TypeInv, ManagerOK, Manager
  <2>2. Known(q) /\ ~(\E i \in 1..Len(queue) : Closes(queue[i], q))
    BY <1>2, <2>1 DEF Inv
  <2>3. QED
    BY <1>3, <2>1, <2>2, Zenon DEF Known
<1>11. QED
  BY <1>7, <1>8, <1>9, <1>10, Zenon DEF Inv

\* What only concerns the manager's waiting list, its backoff or the known
\* bootstrap nodes.
LEMMA OtherInv ==
    ASSUME Inv,
           \/ NoticeDue \/ UNCHANGED vars
           \/ \E r \in Relay : on_identify(r) \/ Overdue(r) \/ BackoffEnds(r)
    PROVE  Inv'
<1>1. /\ ManagerOK(manager) /\ stale \subseteq manager.active /\ silent \subseteq Relay /\ nodes \in Seq(Relay)
      /\ provider \in BOOLEAN /\ swarm \in SwarmState /\ ProviderIsCurrent
  BY Zenon DEF Inv, TypeInv
<1>2. UNCHANGED <<provider, queue, stale, silent>>
  BY Zenon DEF NoticeDue, vars, on_identify, Overdue, BackoffEnds
<1>3. nodes' \in Seq(Relay)
  BY <1>1 DEF NoticeDue, vars, on_identify, Overdue, BackoffEnds
<1>4. /\ swarm' \in SwarmState /\ swarm'.epoch = swarm.epoch /\ swarm'.providing = swarm.providing
      /\ swarm'.listener = swarm.listener
  <2>1. CASE NoticeDue
    BY <1>1, <2>1, Zenon DEF NoticeDue, SwarmState
  <2>2. CASE UNCHANGED swarm
    BY <1>1, <2>2, Zenon
  <2>3. QED
    BY <2>1, <2>2, Zenon DEF vars, on_identify, Overdue, BackoffEnds
<1>5. ManagerOK(manager') /\ manager'.active = manager.active
  <2>1. CASE UNCHANGED manager
    BY <1>1, <2>1, Zenon
  <2>2. ASSUME NEW r \in Relay, Overdue(r) \/ BackoffEnds(r)
        PROVE  ManagerOK(manager') /\ manager'.active = manager.active
    BY <1>1, <2>2 DEF ManagerOK, Manager, Overdue, BackoffEnds
  <2>3. QED
    BY <2>1, <2>2, Zenon DEF NoticeDue, vars, on_identify
<1>6. Quiet
  BY <1>1, <1>2, <1>3, <1>4, <1>5, Zenon DEF Quiet, TypeInv, ProviderIsCurrent, Held, Live
<1>7. QED
  BY <1>2, <1>6, QuietFacts, Zenon

LEMMA InitInv == Init => Inv
<1> SUFFICES ASSUME Init
             PROVE  Inv
  BY Zenon
<1>1. swarm \in SwarmState
  BY Zenon DEF Init, NewSwarm, SwarmState, Stage
<1>2. ManagerOK(manager) /\ manager.active = {}
  BY Zenon DEF Init, NoManager, ManagerOK, Manager
<1>3. nodes \in Seq(Relay) /\ provider = FALSE /\ stale = {} /\ silent = {}
  BY RelayAssumption, Zenon DEF Init
<1>4. queue \in Seq(EventState) /\ Len(queue) = 0 /\ 1..Len(queue) = {}
  BY DEF Init
<1>5. QueueOK /\ News
  BY <1>4, Zenon DEF QueueOK, News
<1>6. QED
  BY <1>1, <1>2, <1>3, <1>5, Zenon DEF Inv, TypeInv, ProviderIsCurrent

LEMMA NextInv == Inv /\ [Next]_vars => Inv'
<1> SUFFICES ASSUME Inv, [Next]_vars
             PROVE  Inv'
  BY Zenon
<1>1. CASE on_circuit_ready
  BY <1>1, ConfirmInv, Zenon DEF on_circuit_ready
<1>2. CASE on_relay_client_event
  BY <1>2, ConfirmInv, Zenon DEF on_relay_client_event
<1>3. CASE on_listener_closed
  BY <1>3, ClosedInv, Zenon
<1>4. CASE BootstrapCompleted
  BY <1>4, BootstrapInv, Zenon
<1>5. CASE RelayTick
  BY <1>5, TickInv, Zenon
<1>6. CASE cmd_reload_config
  BY <1>6, ReloadInv, Zenon
<1>7. CASE KadBootstrap
  BY <1>7, KadInv, Zenon
<1>8. CASE \E r \in Relay : NewListenAddr(r) \/ ReservationReqAccepted(r)
  BY <1>8, GrantInv, Zenon
<1>9. CASE \E r \in Relay : Renewal(r)
  BY <1>9, RenewalInv, Zenon
<1>10. CASE \E r \in Relay : ListenerClosed(r)
  BY <1>10, CloseInv, Zenon
<1>11. CASE \/ NoticeDue \/ UNCHANGED vars
            \/ \E r \in Relay : on_identify(r) \/ Overdue(r) \/ BackoffEnds(r)
  BY <1>11, OtherInv, Zenon
<1>12. QED
  BY <1>1, <1>2, <1>3, <1>4, <1>5, <1>6, <1>7, <1>8, <1>9, <1>10, <1>11, Zenon DEF Next, Handle

\* The inductive invariant holds in every behaviour of the controller and the swarm.
THEOREM InvHolds == Spec => []Inv
<1>1. QED
  BY InitInv, NextInv, PTL DEF Spec

\* A relay that the current swarm confirmed has a live circuit, or the news of
\* its end waits in the controller's queue, unless its listener closed between
\* ReservationReqAccepted and NewListenAddr: for any set of relays, any target
\* and a queue of any length.
THEOREM ConfirmedRelaysLive == Spec => []ConfirmedIsLive
<1>1. Inv => ConfirmedIsLive
  <2> SUFFICES ASSUME Inv
               PROVE  ConfirmedIsLive
    BY Zenon
  <2>1. DOMAIN queue = 1..Len(queue)
    BY DEF Inv, QueueOK
  <2>2. QED
    BY <2>1, Zenon DEF Inv, Known, Held, Closes, ConfirmedIsLive
<1>2. QED
  BY <1>1, InvHolds, PTL

\* is_bootstrap_provider never outlives the swarm in which the node announced
\* itself.
THEOREM ProviderFlagTrue == Spec => []ProviderIsCurrent
<1>1. Inv => ProviderIsCurrent
  BY Zenon DEF Inv
<1>2. QED
  BY <1>1, InvHolds, PTL

-----------------------------------------------------------------------------
(* What the registry is told                                               *)

\* A step tells the registry the number of relays in use, or leaves the number
\* alone and takes no relay out of use.
Told ==
    \/ registry' = [registry EXCEPT !.relays = Cardinality(manager'.active)]
    \/ registry' = FreshRegistry /\ manager'.active = {}
    \/ /\ registry' = registry \/ registry' = [registry EXCEPT !.bootstrapped = TRUE]
       /\ manager.active \subseteq manager'.active

LEMMA ToldFacts ==
    ASSUME Inv, [Next]_vars
    PROVE  Told
<1>0. ManagerOK(manager) /\ nodes \in Seq(Relay) /\ swarm \in SwarmState
  BY Zenon DEF Inv, TypeInv
<1>1. CASE on_circuit_ready
  BY <1>1, Zenon DEF on_circuit_ready, Told
<1>2. CASE on_relay_client_event
  <2>1. PICK r : manager' = Confirm(manager, r)
    BY <1>2, Zenon DEF on_relay_client_event
  <2>2. manager.active \subseteq manager'.active
    BY <2>1, Zenon DEF Confirm
  <2>3. QED
    BY <1>2, <2>2, Zenon DEF on_relay_client_event, Told
<1>3. CASE on_listener_closed
  <2>1. PICK r : r = Head(queue).relay
    BY Zenon
  <2>2. CASE r \in manager.active \cup manager.pending
    <3>1. /\ registry' = [registry EXCEPT !.relays = Cardinality(manager.active \ {r})]
          /\ Tick(Forget(manager, r), swarm)
      BY <1>3, <2>1, <2>2, Zenon DEF on_listener_closed
    <3>2. ManagerOK(Forget(manager, r)) /\ Forget(manager, r).active = manager.active \ {r}
      BY <1>0, <2>2, Zenon DEF ManagerOK, Manager, Forget, record_failure
    <3>3. manager'.active = manager.active \ {r}
      BY <1>0, <3>1, <3>2, TickStep, Zenon
    <3>4. QED
      BY <3>1, <3>3, Zenon DEF Told
  <2>3. CASE r \notin manager.active \cup manager.pending
    BY <1>3, <2>1, <2>3, Zenon DEF on_listener_closed, Told
  <2>4. QED
    BY <2>2, <2>3, Zenon
<1>4. CASE BootstrapCompleted
  <2>1. PICK answer \in announce_self(FALSE, swarm.providing) :
            provider' = answer[1] /\ Tick(manager, [swarm EXCEPT !.providing = answer[2]])
    BY <1>4, Zenon DEF BootstrapCompleted
  <2>2. Quiet
    BY <1>4, <2>1, AnnounceAndTick, Zenon DEF BootstrapCompleted
  <2>3. QED
    BY <1>4, <2>2, Zenon DEF BootstrapCompleted, Quiet, Told
<1>5. CASE RelayTick
  <2>1. PICK answer \in announce_self(provider, swarm.providing) :
            provider' = answer[1] /\ Tick(manager, [swarm EXCEPT !.providing = answer[2]])
    BY <1>5, Zenon DEF RelayTick
  <2>2. Quiet
    BY <1>5, <2>1, AnnounceAndTick, Zenon DEF RelayTick, Inv, TypeInv, ProviderIsCurrent
  <2>3. QED
    BY <1>5, <2>2, Zenon DEF RelayTick, Quiet, Told
<1>6. CASE cmd_reload_config
  BY <1>6, Zenon DEF cmd_reload_config, NoManager, Told
<1>7. CASE UNCHANGED <<manager, registry>>
  BY <1>7, Zenon DEF Told
<1>8. ASSUME NEW r \in Relay, Overdue(r) \/ BackoffEnds(r)
      PROVE  Told
  <2>1. manager'.active = manager.active /\ registry' = registry
    BY <1>0, <1>8, Zenon DEF Overdue, BackoffEnds, ManagerOK, Manager
  <2>2. QED
    BY <2>1, Zenon DEF Told
<1>9. QED
  BY <1>1, <1>2, <1>3, <1>4, <1>5, <1>6, <1>7, <1>8, Zenon
  DEF Next, Handle, vars, KadBootstrap, NoticeDue, on_identify, NewListenAddr, ReservationReqAccepted,
      Renewal, ListenerClosed

F == INSTANCE FiniteSetTheorems

\* The size of a set of relays.
LEMMA RelaySets ==
    ASSUME NEW A, NEW B \in SUBSET Relay, A \subseteq B
    PROVE  /\ Cardinality(A) \in Nat /\ Cardinality(A) <= Cardinality(B)
           /\ Cardinality(B) \in Nat /\ Cardinality(B) <= Cardinality(Relay) /\ Cardinality(Relay) \in Nat
           /\ Cardinality({}) = 0
<1>1. \A S : F!Cardinality(S) = Cardinality(S)
  BY Zenon DEF F!Cardinality, Cardinality
<1>2. F!IsFiniteSet(Relay)
  BY RelayAssumption, Zenon DEF F!IsFiniteSet, IsFiniteSet
<1>3. /\ F!IsFiniteSet(B) /\ F!Cardinality(B) <= F!Cardinality(Relay)
  BY <1>2, F!FS_Subset, Zenon
<1>4. F!IsFiniteSet(A) /\ F!Cardinality(A) <= F!Cardinality(B)
  BY <1>3, F!FS_Subset, Zenon
<1>5. F!Cardinality(A) \in Nat /\ F!Cardinality(B) \in Nat /\ F!Cardinality(Relay) \in Nat /\ F!Cardinality({}) = 0
  BY <1>2, <1>3, <1>4, F!FS_CardinalityType, F!FS_EmptySet, Zenon
<1>6. QED
  BY <1>1, <1>3, <1>4, <1>5, Zenon

RegistryState == [relays : Nat, bootstrapped : BOOLEAN]
GateInv == registry \in RegistryState /\ registry.relays <= Cardinality(manager.active)

\* The registry never counts more relays than the manager has in use, for any
\* number of relays.
THEOREM GateFollows == Spec => []GateNeverAhead
<1>1. Init => GateInv
  <2> SUFFICES ASSUME Init
               PROVE  GateInv
    BY Zenon
  <2>1. manager.active = {} /\ registry \in RegistryState /\ registry.relays = 0
    BY Zenon DEF Init, NoManager, FreshRegistry, RegistryState
  <2>2. Cardinality({}) = 0
    BY RelaySets, Zenon
  <2>3. QED
    BY <2>1, <2>2 DEF GateInv
<1>2. Inv /\ Inv' /\ GateInv /\ [Next]_vars => GateInv'
  <2> SUFFICES ASSUME Inv, Inv', GateInv, [Next]_vars
               PROVE  GateInv'
    BY Zenon
  <2>1. Told
    BY ToldFacts, Zenon
  <2>2. manager.active \subseteq Relay /\ manager'.active \subseteq Relay
    BY Zenon DEF Inv, TypeInv, ManagerOK, Manager
  <2>3. /\ Cardinality(manager.active) \in Nat /\ Cardinality(manager'.active) \in Nat /\ Cardinality({}) = 0
        /\ manager.active \subseteq manager'.active => Cardinality(manager.active) <= Cardinality(manager'.active)
    BY <2>2, RelaySets, Zenon
  <2>4. registry \in RegistryState /\ registry.relays \in Nat /\ registry.relays <= Cardinality(manager.active)
    BY Zenon DEF GateInv, RegistryState
  <2>5. CASE registry' = [registry EXCEPT !.relays = Cardinality(manager'.active)]
    BY <2>3, <2>4, <2>5 DEF GateInv, RegistryState
  <2>6. CASE registry' = FreshRegistry /\ manager'.active = {}
    BY <2>3, <2>6 DEF GateInv, RegistryState, FreshRegistry
  <2>7. CASE /\ registry' = registry \/ registry' = [registry EXCEPT !.bootstrapped = TRUE]
             /\ manager.active \subseteq manager'.active
    <3>1. registry' \in RegistryState /\ registry'.relays = registry.relays
      BY <2>4, <2>7, Zenon DEF RegistryState
    <3>2. QED
      BY <2>3, <2>4, <2>7, <3>1 DEF GateInv
  <2>8. QED
    BY <2>1, <2>5, <2>6, <2>7, Zenon DEF Told
<1>3. Inv /\ GateInv => GateNeverAhead
  <2> SUFFICES ASSUME Inv, GateInv
               PROVE  GateNeverAhead
    BY Zenon
  <2>1. manager.active \subseteq Relay
    BY Zenon DEF Inv, TypeInv, ManagerOK, Manager
  <2>2. Cardinality(manager.active) \in Nat /\ Cardinality(manager.active) <= Cardinality(Relay)
        /\ Cardinality(Relay) \in Nat
    BY <2>1, RelaySets, Zenon
  <2>3. registry \in [relays : 0..Cardinality(Relay), bootstrapped : BOOLEAN]
    BY <2>2 DEF GateInv, RegistryState
  <2>4. /\ manager \in [active : SUBSET Relay, pending : SUBSET Relay,
                        overdue : SUBSET manager.pending, backoff : SUBSET Relay]
        /\ manager.active \cap manager.pending = {}
    BY Zenon DEF Inv, TypeInv, ManagerOK, Manager
  <2>5. \A r \in Relay : swarm.listener[r] \in [Stage -> Nat]
    BY Zenon DEF Inv, TypeInv, SwarmState
  <2>6. QED
    BY <2>3, <2>4, <2>5, Zenon DEF GateNeverAhead, TypeOK, Inv, TypeInv, GateInv
<1>4. QED
  BY <1>1, <1>2, <1>3, InvHolds, PTL DEF Spec
=============================================================================
