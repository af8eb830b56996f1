------------------------ MODULE GateAndFilesProofs ------------------------
(***************************************************************************)
(* Proofs about what a node admits and what it keeps in files, for any     *)
(* number of workers, documents, whitelists, records per answer, threads,  *)
(* entries, edits, addresses, keys and failures.                           *)
(*                                                                         *)
(* The gate: what select_index finds, and what a request that passes has   *)
(* been checked against.  The log: its rotation loses no entry,            *)
(* EntriesKept and OnlyALeftoverIsLost.  The start: it keeps what the      *)
(* operator wrote and runs as saved, EditsKept, RunsAsSaved, and it        *)
(* implements NodeIdentity.  Each of the three has one inductive           *)
(* invariant, and no two share a variable.                                 *)
(***************************************************************************)
EXTENDS AuthGate, LogRotation, NodeStart, TLAPS, WellFoundedInduction

-----------------------------------------------------------------------------
(* Induction over the records of an answer                                 *)

\* A nonempty set of naturals has a least element: the library's theorem on
\* well-founded relations, for the order of the naturals.
LEMMA LeastNatural ==
    ASSUME NEW S \in SUBSET Nat, S # {}
    PROVE  \E m \in S : \A n \in S : m <= n
<1> DEFINE R == {ss \in Nat \X Nat : ss[1] < ss[2]}
<1>1. R = OpToRel(<, Nat)
  BY Zenon DEF OpToRel
<1>2. IsWellFoundedOn(R, Nat)
  BY <1>1, NatLessThanWellFounded, Zenon
<1> HIDE DEF R
<1>3. PICK m \in S : \A n \in S : ~(<<n, m>> \in R)
  BY <1>2, WFMin, Zenon
<1>4. ASSUME NEW n \in S
      PROVE  m <= n
  <2>1. n \in Nat /\ m \in Nat
    BY Zenon
  <2>2. n < m => <<n, m>> \in R
    BY <2>1, Zenon DEF R
  <2>3. QED
    BY <1>3, <2>1, <2>2
<1>5. QED
  BY <1>4, Zenon

\* Induction up to N, with a set for the predicate.
LEMMA UpTo ==
    ASSUME NEW N \in Nat, NEW S, 0 \in S,
           \A n \in 0..(N - 1) : n \in S => n + 1 \in S
    PROVE  0..N \subseteq S
<1> SUFFICES ASSUME (0..N) \ S # {}
             PROVE  FALSE
  BY Zenon
<1>1. (0..N) \ S \in SUBSET Nat
  OBVIOUS
<1>2. PICK m \in (0..N) \ S : \A n \in (0..N) \ S : m <= n
  BY <1>1, LeastNatural, Zenon
<1>3. m # 0 /\ m - 1 \in 0..(N - 1) /\ (m - 1) + 1 = m
  BY <1>2
<1>4. m - 1 \in S
  BY <1>2, <1>3
<1>5. QED
  BY <1>2, <1>3, <1>4, Zenon

-----------------------------------------------------------------------------
(* select_index                                                            *)

\* f is what select_index's loop computes over the first N records.
Loop(f, N, records, time) ==
    f = [n \in 0..N |-> IF n = 0 THEN Missing ELSE NextLeader(f[n - 1], records[n], time)]

\* The loop computes something: the recursive function of select_index exists.
LEMMA LoopExists ==
    ASSUME NEW N \in Nat, NEW records, NEW time
    PROVE  \E f : Loop(f, N, records, time)
<1> DEFINE S == {n \in 0..N : \E f : Loop(f, n, records, time)}
<1>1. 0 \in S
  <2>1. Loop([n \in 0..0 |-> Missing], 0, records, time)
    BY DEF Loop
  <2>2. QED
    BY <2>1
<1>2. ASSUME NEW n \in 0..(N - 1), n \in S
      PROVE  n + 1 \in S
  <2>1. PICK f : Loop(f, n, records, time)
    BY <1>2, Zenon
  <2> DEFINE g == [m \in 0..(n + 1) |->
                      IF m = n + 1 THEN NextLeader(f[n], records[n + 1], time) ELSE f[m]]
  <2>2. ASSUME NEW m \in 0..(n + 1)
        PROVE  g[m] = IF m = 0 THEN Missing ELSE NextLeader(g[m - 1], records[m], time)
    <3>1. CASE m = n + 1
      <4>1. g[m] = NextLeader(f[n], records[n + 1], time) /\ m - 1 = n /\ m # 0
        BY <3>1
      <4>2. g[n] = f[n]
        OBVIOUS
      <4>3. QED
        BY <3>1, <4>1, <4>2, Zenon
    <3>2. CASE m # n + 1
      <4>1. m \in 0..n /\ g[m] = f[m]
        BY <3>2
      <4>2. m # 0 => m - 1 \in 0..n /\ m - 1 # n + 1 /\ g[m - 1] = f[m - 1]
        BY <4>1
      <4>3. f[m] = IF m = 0 THEN Missing ELSE NextLeader(f[m - 1], records[m], time)
        BY <2>1, <4>1, Zenon DEF Loop
      <4>4. QED
        BY <4>1, <4>2, <4>3, Zenon
    <3>3. QED
      BY <3>1, <3>2, Zenon
  <2>3. Loop(g, n + 1, records, time)
    <3> HIDE DEF g
    <3>1. g = [m \in 0..(n + 1) |-> g[m]]
      BY Zenon DEF g
    <3>2. QED
      BY <3>1, <2>2, Zenon DEF Loop
  <2>4. QED
    BY <2>3
<1>3. N \in S
  <2> HIDE DEF S
  <2>1. 0..N \subseteq S
    BY <1>1, <1>2, UpTo, Zenon
  <2>2. QED
    BY <2>1
<1>4. QED
  BY <1>3, Zenon

LEMMA SelectIndexIsTheLoop ==
    ASSUME NEW records, Len(records) \in Nat, NEW time
    PROVE  \E f : Loop(f, Len(records), records, time) /\ select_index(records, time) = f[Len(records)]
<1> DEFINE best == CHOOSE f : Loop(f, Len(records), records, time)
<1>1. Loop(best, Len(records), records, time)
  BY LoopExists, Zenon
<1>2. select_index(records, time) = best[Len(records)]
  BY Zenon DEF select_index, Loop
<1>3. QED
  BY <1>1, <1>2, Zenon

Document == Index \cup {Invalid}
Leaders == {Missing, Conflict} \cup {Found(doc) : doc \in Index}

\* What select_index knows of a leader after the valid documents V.
IsLeader(leader, V) ==
    /\ leader \in Leaders
    /\ leader = Missing <=> V = {}
    /\ leader.kind = "found" =>
          leader.doc \in V /\ \A doc \in V \ {leader.doc} : doc.version < leader.doc.version
    /\ leader = Conflict => \E a, b \in V : a # b /\ a.version = b.version

\* One more record keeps the leader right.
LEMMA NextLeaderLeads ==
    ASSUME NEW V \in SUBSET Index, NEW leader, IsLeader(leader, V), NEW doc \in Document, NEW time
    PROVE  IsLeader(NextLeader(leader, doc, time), V \cup {d \in {doc} : verify_index(d, time)})
<1>1. CASE ~verify_index(doc, time)
  BY <1>1, Zenon DEF NextLeader, IsLeader
<1>2. CASE verify_index(doc, time)
  <2> DEFINE W == V \cup {d \in {doc} : verify_index(d, time)}
  <2>1. doc \in Index /\ doc.version \in Nat /\ W = V \cup {doc}
    BY <1>2, AuthAssumption, Zenon DEF verify_index, Document
  <2>2. \A d \in V : d.version \in Nat
    BY AuthAssumption, Zenon
  <2> SUFFICES IsLeader(NextLeader(leader, doc, time), W)
    BY Zenon
  <2> HIDE DEF W
  <2>3. CASE leader = Missing
    <3>1. V = {} /\ NextLeader(leader, doc, time) = Found(doc)
      BY <1>2, <2>3, Zenon DEF NextLeader, IsLeader, Missing
    <3>2. QED
      BY <2>1, <3>1 DEF IsLeader, Found, Missing, Conflict, Leaders
  <2>4. CASE leader = Conflict
    <3>1. NextLeader(leader, doc, time) = leader
      BY <2>4, Zenon DEF NextLeader, Conflict
    <3>2. QED
      BY <2>1, <2>4, <3>1 DEF IsLeader, Missing, Conflict, Leaders
  <2>5. CASE \E d \in Index : leader = Found(d)
    <3>1. PICK d \in Index : leader = Found(d)
      BY <2>5, Zenon
    <3>2. /\ leader.kind = "found" /\ leader.doc = d /\ d \in V /\ leader # Missing /\ leader # Conflict
          /\ \A e \in V \ {d} : e.version < d.version
      BY <3>1, Zenon DEF IsLeader, Found, Missing, Conflict
    <3>3. CASE doc.version > d.version
      <4>1. NextLeader(leader, doc, time) = Found(doc)
        BY <1>2, <3>2, <3>3, Zenon DEF NextLeader
      <4>2. \A e \in W \ {doc} : e.version < doc.version
        BY <2>1, <2>2, <3>2, <3>3
      <4>3. QED
        BY <2>1, <4>1, <4>2 DEF IsLeader, Found, Missing, Conflict, Leaders
    <3>4. CASE doc.version = d.version /\ doc # d
      <4>1. NextLeader(leader, doc, time) = Conflict
        BY <1>2, <2>1, <2>2, <3>2, <3>4 DEF NextLeader
      <4>2. QED
        BY <2>1, <3>2, <3>4, <4>1 DEF IsLeader, Missing, Conflict, Leaders
    <3>5. CASE ~(doc.version > d.version) /\ ~(doc.version = d.version /\ doc # d)
      <4>1. NextLeader(leader, doc, time) = leader
        BY <1>2, <3>2, <3>5, Zenon DEF NextLeader
      <4>2. \A e \in W \ {d} : e.version < d.version
        BY <2>1, <2>2, <3>2, <3>5
      <4>3. QED
        BY <2>1, <3>1, <3>2, <4>1, <4>2, Zenon DEF IsLeader
    <3>6. QED
      BY <3>3, <3>4, <3>5, Zenon
  <2>6. QED
    BY <2>3, <2>4, <2>5, Zenon DEF IsLeader, Leaders
<1>3. QED
  BY <1>1, <1>2, Zenon

Valid(records, n, time) == {doc \in {records[i] : i \in 1..n} : verify_index(doc, time)}

\* What the loop computes leads among the records it has seen.
LEMMA LoopLeads ==
    ASSUME NEW records \in Seq(Document), NEW time, NEW f, Loop(f, Len(records), records, time)
    PROVE  IsLeader(f[Len(records)], Valid(records, Len(records), time))
<1> DEFINE N == Len(records)
           S == {n \in 0..N : IsLeader(f[n], Valid(records, n, time))}
<1>1. N \in Nat /\ \A i \in 1..N : records[i] \in Document
  OBVIOUS
<1>2. 0 \in S
  <2>0. 0 \in 0..N
    BY <1>1
  <2>1. f[0] = Missing
    <3>1. f[0] = IF 0 = 0 THEN Missing ELSE NextLeader(f[0 - 1], records[0], time)
      BY <2>0, Zenon DEF Loop
    <3>2. QED
      BY <3>1, Zenon
  <2>2. Valid(records, 0, time) = {}
    BY DEF Valid
  <2>3. IsLeader(Missing, {})
    BY Zenon DEF IsLeader, Leaders, Missing, Conflict
  <2>4. QED
    BY <2>0, <2>1, <2>2, <2>3, Zenon
<1>3. ASSUME NEW n \in 0..(N - 1), n \in S
      PROVE  n + 1 \in S
  <2>1. n + 1 \in 0..N /\ n + 1 # 0 /\ (n + 1) - 1 = n /\ records[n + 1] \in Document
    BY <1>1
  <2>2. f[n + 1] = NextLeader(f[n], records[n + 1], time)
    BY <2>1, Zenon DEF Loop
  <2>3. Valid(records, n, time) \in SUBSET Index
    <3>1. \A i \in 1..n : records[i] \in Document
      BY <1>1
    <3>2. QED
      BY <3>1, Zenon DEF Valid, verify_index, Document
  <2>4. Valid(records, n + 1, time) =
            Valid(records, n, time) \cup {d \in {records[n + 1]} : verify_index(d, time)}
    <3>1. 1..(n + 1) = 1..n \cup {n + 1}
      BY <1>1
    <3>2. {records[i] : i \in 1..(n + 1)} = {records[i] : i \in 1..n} \cup {records[n + 1]}
      BY <3>1, Zenon
    <3>3. QED
      BY <3>2, Zenon DEF Valid
  <2>5. IsLeader(f[n + 1], Valid(records, n + 1, time))
    BY <1>3, <2>1, <2>2, <2>3, <2>4, NextLeaderLeads
  <2>6. QED
    BY <2>1, <2>5, Zenon
<1>4. QED
  <2> HIDE DEF S
  <2>1. 0..N \subseteq S
    BY <1>1, <1>2, <1>3, UpTo, Zenon
  <2>2. QED
    BY <1>1, <2>1 DEF S

\* select_index: of any answer of the DHT, at any time, what it selects leads
\* among all documents in the answer that verify.
LEMMA SelectIndexLeads ==
    ASSUME NEW time \in 0..MaxTime, NEW answer \in Answers[time]
    PROVE  IsLeader(answer.result, answer.valid)
<1>1. PICK records \in Records :
          /\ answer.valid = {doc \in Range(records) : verify_index(doc, time)}
          /\ answer.result = select_index(records, time)
  BY DEF Answers
<1>2. records \in Seq(Document)
  BY <1>1, AuthAssumption DEF Records, Document
<1>3. Len(records) \in Nat /\ DOMAIN records = 1..Len(records)
  BY <1>2
<1>4. PICK f : Loop(f, Len(records), records, time) /\ select_index(records, time) = f[Len(records)]
  BY <1>3, SelectIndexIsTheLoop, Zenon
<1>5. answer.valid = Valid(records, Len(records), time)
  BY <1>1, <1>3, Zenon DEF Valid, Range
<1>6. QED
  BY <1>1, <1>2, <1>4, <1>5, LoopLeads, Zenon

-----------------------------------------------------------------------------
(* The inductive invariant                                                 *)

\* The steps of authorize that have accepted an index document.
Accepted == {"whitelist", "whitelist_wait", "check_whitelist"}

WorkerState ==
    [pc : {"idle", "index", "index_wait", "check_index", "decided"} \cup Accepted,
     peer : Peer \cup {Nothing}, service : ServiceName \cup {Nothing}, doc : Document,
     list : DOMAIN Whitelist \cup {Nothing}, decision : {Nothing, "allow", "deny", "unprotected"},
     floor : Int, began : Int]

GateTypes ==
    /\ state \in {"disabled", "active", "misconfigured"}
    /\ index \in {Absent, Missing} \cup {Found(doc) : doc \in Index}
    /\ versions \in [index : Int, whitelists : [ServiceName -> Int]]
    /\ now \in 0..MaxTime /\ used \in Int
    /\ worker \in [Worker -> WorkerState]

\* What a cached whitelist is keyed by names its content.
KeysName == \A named \in DOMAIN whitelist : whitelist[named] \in {named[2], "missing"}

\* The entry of a worker's service in the document it goes by.
Listed(w) == worker[w].doc.services[worker[w].service]

\* A worker on its way holds a document that had not expired when it began,
\* and the list that this document names.
WayInv(w) ==
    /\ worker[w].pc \notin {"idle", "decided"} => Checked(w)
    /\ worker[w].pc \in Accepted \cup {"check_index"} =>
          worker[w].doc \in Index /\ worker[w].began <= worker[w].doc.expires_at
    /\ worker[w].pc \in Accepted => Listed(w) # Nothing
    /\ worker[w].pc = "check_whitelist" => worker[w].list = Listed(w)
    /\ Passed(w) /\ Checked(w) =>
          /\ worker[w].began <= worker[w].doc.expires_at
          /\ IF Listed(w) = Nothing THEN worker[w].decision = "unprotected"
             ELSE worker[w].decision = "allow" /\ worker[w].peer \in Whitelist[Listed(w)].members

\* versions.index is above every version that was used or is about to be,
\* and above the floor of every request on its way.
FloorInv(w) ==
    /\ worker[w].began <= now
    /\ state = "active" =>
          /\ worker[w].floor <= versions.index
          /\ worker[w].pc # "check_index" => worker[w].doc.version <= versions.index
          /\ worker[w].pc \in Accepted \/ (Passed(w) /\ Checked(w)) =>
                worker[w].floor <= worker[w].doc.version

GateInv ==
    /\ GateTypes /\ KeysName
    /\ state = "active" => -1 <= versions.index /\ used <= versions.index
    /\ \A w \in Worker : WayInv(w) /\ FloorInv(w)

LEMMA DocumentType ==
    /\ \A doc \in Document : doc.version \in Int /\ doc.expires_at \in Int
    /\ \A doc \in Document : doc.services \in [ServiceName -> DOMAIN Whitelist \cup {Nothing}]
    /\ Invalid.version = -1 /\ Invalid \in Document /\ Index \subseteq Document
BY AuthAssumption DEF Document, Invalid

LEMMA GateInitInv == GateInit => GateInv
<1> SUFFICES ASSUME GateInit
             PROVE  GateInv
  BY Zenon
<1>1. IdleWorker \in WorkerState
  BY DocumentType DEF IdleWorker, WorkerState
<1>2. GateTypes
  BY <1>1, AuthAssumption DEF GateInit, GateTypes, NoVersions, Absent
<1>3. KeysName
  BY DEF GateInit, KeysName
<1>4. \A w \in Worker : WayInv(w) /\ FloorInv(w)
  BY <1>1, DocumentType, AuthAssumption DEF GateInit, WayInv, FloorInv, IdleWorker, Passed, NoVersions, Accepted
<1>5. QED
  BY <1>2, <1>3, <1>4 DEF GateInit, GateInv, NoVersions

\* The steps that leave the workers alone.
LEMMA CacheStepInv ==
    ASSUME GateInv,
           \/ RefreshIndex \/ invalidate_all \/ InvalidateWhitelists \/ reload \/ Tick
           \/ \E s \in ServiceName, doc \in Index : RefreshWhitelist(s, doc)
    PROVE  GateInv'
<1> USE DEF GateInv
<1>0. UNCHANGED <<state, worker, used>>
  BY Zenon DEF RefreshIndex, invalidate_all, InvalidateWhitelists, reload, Tick, RefreshWhitelist
<1>1. UNCHANGED <<versions, now>> => (\A w \in Worker : WayInv(w) /\ FloorInv(w))'
  BY <1>0, ZenonT(60) DEF WayInv, FloorInv, Listed, Checked, Passed
<1>2. CASE RefreshIndex
  <2>1. index' \in {Absent, Missing} \cup {Found(doc) : doc \in Index}
    <3>1. PICK answer \in Answers[now] :
              index' = IF answer.result = Conflict THEN index
                       ELSE IF /\ answer.result # Missing /\ index.kind = "found"
                               /\ index.doc.version >= answer.result.doc.version
                            THEN index ELSE answer.result
      BY <1>2, Zenon DEF RefreshIndex
    <3>2. answer.result \in Leaders
      BY <3>1, SelectIndexLeads, Zenon DEF GateTypes, IsLeader
    <3>3. QED
      BY <3>1, <3>2, Zenon DEF GateTypes, Leaders
  <2>2. GateTypes'
    BY <1>0, <1>2, <2>1, Zenon DEF RefreshIndex, GateTypes
  <2>3. QED
    BY <1>0, <1>1, <1>2, <2>2, Zenon DEF RefreshIndex, KeysName
<1>3. CASE invalidate_all
  <2>1. GateTypes' /\ KeysName'
    BY <1>3, Zenon DEF invalidate_all, GateTypes, KeysName
  <2>2. QED
    BY <1>0, <1>1, <1>3, <2>1, Zenon DEF invalidate_all
<1>4. CASE InvalidateWhitelists
  <2>1. GateTypes' /\ KeysName'
    BY <1>4 DEF InvalidateWhitelists, GateTypes, KeysName
  <2>2. QED
    BY <1>0, <1>1, <1>4, <2>1, Zenon DEF InvalidateWhitelists
<1>5. CASE reload
  <2>1. GateTypes' /\ KeysName'
    BY <1>5 DEF reload, GateTypes, KeysName, NoVersions
  <2>2. state = "active" => UNCHANGED versions
    BY <1>5, Zenon DEF reload, same_trust_domain
  <2>3. (\A w \in Worker : WayInv(w) /\ FloorInv(w))'
    BY <1>0, <1>5, <2>2, Zenon DEF reload, WayInv, FloorInv, Listed, Checked, Passed
  <2>4. QED
    BY <1>0, <2>1, <2>2, <2>3, Zenon
<1>6. CASE Tick
  <2>0. now' \in 0..MaxTime
    BY <1>6, AuthAssumption DEF Tick, GateTypes
  <2>1. GateTypes' /\ KeysName'
    BY <1>6, <2>0, Zenon DEF Tick, GateTypes, KeysName
  <2>2. (\A w \in Worker : WayInv(w) /\ FloorInv(w))'
    <3>1. now <= now' /\ now \in Int /\ now' \in Int /\ UNCHANGED <<state, worker, versions>>
      BY <1>6, AuthAssumption DEF Tick, GateTypes
    <3>2. \A w \in Worker : worker[w].began \in Int
      BY Zenon DEF GateTypes, WorkerState
    <3>3. \A w \in Worker : worker[w].began <= now'
      BY <3>1, <3>2 DEF FloorInv
    <3>4. QED
      BY <3>1, <3>3, Zenon DEF WayInv, FloorInv, Listed, Checked, Passed
  <2>3. QED
    BY <1>0, <1>6, <2>1, <2>2, Zenon DEF Tick
<1>7. CASE \E s \in ServiceName, doc \in Index : RefreshWhitelist(s, doc)
  <2>1. PICK s \in ServiceName, doc \in Index : RefreshWhitelist(s, doc)
    BY <1>7, Zenon
  <2>2. GateTypes'
    BY <2>1, Zenon DEF RefreshWhitelist, GateTypes
  <2>3. KeysName'
    BY <2>1 DEF RefreshWhitelist, KeysName, WhitelistKey
  <2>4. QED
    BY <1>0, <1>1, <2>1, <2>2, <2>3, Zenon DEF RefreshWhitelist
<1>8. QED
  BY <1>2, <1>3, <1>4, <1>5, <1>6, <1>7, Zenon

\* A request that is refused keeps nothing.
LEMMA DenyInv ==
    ASSUME GateInv, NEW w \in Worker, Deny(w), UNCHANGED <<state, now, used>>,
           \/ UNCHANGED versions
           \/ versions' \in [index : Int, whitelists : [ServiceName -> Int]] /\ versions'.index = versions.index,
           index' \in {index, Absent},
           whitelist' = whitelist \/ \E named : whitelist' = [k \in DOMAIN whitelist \ {named} |-> whitelist[k]]
    PROVE  GateInv'
<1> USE DEF GateInv
<1> DEFINE denied == [IdleWorker EXCEPT !.pc = "decided", !.decision = "deny"]
<1>1. worker' = [worker EXCEPT ![w] = denied]
  BY Zenon DEF Deny
<1>2. IdleWorker \in WorkerState
  BY DocumentType DEF IdleWorker, WorkerState
<1>3. denied \in WorkerState
  BY <1>2, Zenon DEF WorkerState
<1>4. /\ denied.pc = "decided" /\ denied.decision = "deny" 
      /\ denied.doc = Invalid /\ denied.floor = -1 /\ denied.began = 0
  BY Zenon DEF IdleWorker
<1> HIDE DEF denied
<1>5. GateTypes'
  BY <1>1, <1>3, Zenon DEF GateTypes
<1>6. KeysName'
  BY Zenon DEF KeysName
<1>7. ASSUME NEW v \in Worker
      PROVE  WayInv(v)' /\ FloorInv(v)'
  <2>1. CASE v = w
    <3>1. worker'[v] = denied
      BY <1>1, <2>1, Zenon DEF GateTypes
    <3>2. QED
      BY <1>4, <3>1, DocumentType, AuthAssumption DEF GateTypes, WayInv, FloorInv, Passed, Accepted
  <2>2. CASE v # w
    <3>1. worker'[v] = worker[v]
      BY <1>1, <2>2, Zenon DEF GateTypes
    <3>2. QED
      BY <3>1, Zenon DEF WayInv, FloorInv, Listed, Passed, Checked
  <2>3. QED
    BY <2>1, <2>2, Zenon
<1>8. QED
  BY <1>5, <1>6, <1>7, Zenon

\* A step of the worker w leaves the others as they are, since the version
\* floor only rises.
LEMMA OthersInv ==
    ASSUME GateInv, NEW w \in Worker, NEW r, worker' = [worker EXCEPT ![w] = r], UNCHANGED <<state, now>>,
           versions'.index \in Int, versions.index <= versions'.index
    PROVE  \A v \in Worker \ {w} : WayInv(v)' /\ FloorInv(v)'
<1> SUFFICES ASSUME NEW v \in Worker \ {w}
             PROVE  WayInv(v)' /\ FloorInv(v)'
  BY Zenon
<1>1. worker'[v] = worker[v]
  BY Zenon DEF GateInv, GateTypes
<1>2. WayInv(v)'
  BY <1>1, Zenon DEF GateInv, WayInv, Listed, Passed, Checked
<1>3. /\ worker[v].floor \in Int /\ worker[v].doc.version \in Int
      /\ versions.index \in Int /\ versions'.index \in Int /\ versions.index <= versions'.index
  BY DocumentType, Zenon DEF GateInv, GateTypes, WorkerState
<1>4. FloorInv(v)'
  BY <1>1, <1>3 DEF GateInv, FloorInv, Passed, Checked
<1>5. QED
  BY <1>2, <1>4, Zenon

\* What has to be shown of a step of the worker w.
LEMMA WorkerStepInv ==
    ASSUME GateInv, NEW w \in Worker, NEW r \in WorkerState, worker' = [worker EXCEPT ![w] = r],
           UNCHANGED <<state, index, whitelist, now, clearing>>,
           versions' \in [index : Int, whitelists : [ServiceName -> Int]], versions.index <= versions'.index,
           used' \in Int, state = "active" => used' <= versions'.index,
           WayInv(w)' /\ FloorInv(w)'
    PROVE  GateInv'
<1>1. GateTypes'
  BY Zenon DEF GateInv, GateTypes
<1>2. KeysName'
  BY Zenon DEF GateInv, KeysName
<1>3. \A v \in Worker \ {w} : WayInv(v)' /\ FloorInv(v)'
  BY OthersInv, Zenon
<1>4. state' = "active" => -1 <= versions'.index
  BY DEF GateInv, GateTypes
<1>5. QED
  BY <1>1, <1>2, <1>3, <1>4, Zenon DEF GateInv

LEMMA PlainStepInv ==
    ASSUME GateInv, NEW w \in Worker, NEW r \in WorkerState, worker' = [worker EXCEPT ![w] = r],
           UNCHANGED <<state, index, whitelist, versions, now, clearing, used>>,
           WayInv(w)' /\ FloorInv(w)'
    PROVE  GateInv'
<1>1. /\ versions' \in [index : Int, whitelists : [ServiceName -> Int]] /\ versions.index <= versions'.index
      /\ used' \in Int /\ (state = "active" => used' <= versions'.index)
  BY DEF GateInv, GateTypes
<1>2. QED
  BY <1>1, WorkerStepInv, Zenon

LEMMA AuthorizeInv ==
    ASSUME GateInv, NEW w \in Worker, NEW p \in Peer, NEW s \in ServiceName, Authorize(w, p, s)
    PROVE  GateInv'
<1>1. CASE Deny(w)
  BY <1>1, DenyInv, Zenon DEF Authorize
<1>2. CASE ~Deny(w)
  <2> DEFINE open == state = "disabled" \/ s \notin Protected
             r == [IdleWorker EXCEPT !.pc = IF open THEN "decided" ELSE "index",
                               !.decision = IF open THEN "allow" ELSE Nothing,
                               !.peer = p, !.service = s, !.floor = used, !.began = now]
  <2>1. state # "misconfigured" /\ worker' = [worker EXCEPT ![w] = r]
    BY <1>2, Zenon DEF Authorize
  <2>2. IdleWorker \in WorkerState
    BY DocumentType DEF IdleWorker, WorkerState
  <2>3. r \in WorkerState
    <3>1. used \in Int /\ now \in Int
      BY DEF GateInv, GateTypes
    <3>2. QED
      BY <2>2, <3>1, Zenon DEF WorkerState
  <2>4. /\ r.pc = (IF open THEN "decided" ELSE "index") /\ r.service = s /\ r.floor = used
        /\ r.began = now /\ r.doc = Invalid
    BY Zenon DEF IdleWorker
  <2>5. worker'[w] = r
    BY <2>1, Zenon DEF GateInv, GateTypes
  <2> HIDE DEF r
  <2>6. WayInv(w)'
    BY <2>1, <2>4, <2>5, Zenon DEF Authorize, WayInv, Passed, Checked, Accepted, GateInv, GateTypes
  <2>7. FloorInv(w)'
    BY <2>1, <2>4, <2>5, DocumentType DEF Authorize, FloorInv, Passed, Checked, Accepted, GateInv, GateTypes
  <2>8. QED
    BY <2>1, <2>3, <2>6, <2>7, PlainStepInv, Zenon DEF Authorize
<1>3. QED
  BY <1>1, <1>2, Zenon

LEMMA IndexStepsInv ==
    ASSUME GateInv, NEW w \in Worker, IndexWait(w) \/ IndexFails(w) \/ IndexRead(w)
    PROVE  GateInv'
<1>0. worker[w] \in WorkerState
  BY Zenon DEF GateInv, GateTypes
<1>1. CASE IndexWait(w)
  <2> DEFINE r == [worker[w] EXCEPT !.pc = "index_wait"]
  <2>1. worker' = [worker EXCEPT ![w] = r] /\ worker'[w] = r /\ r \in WorkerState
    BY <1>0, <1>1, Zenon DEF IndexWait, WorkerState, GateInv, GateTypes
  <2>2. WayInv(w)' /\ FloorInv(w)'
    BY <1>0, <1>1, <2>1, Zenon DEF IndexWait, WayInv, FloorInv, Passed, Checked, Accepted, WorkerState, GateInv
  <2>3. QED
    BY <1>1, <2>1, <2>2, PlainStepInv, Zenon DEF IndexWait
<1>2. CASE IndexFails(w)
  BY <1>2, DenyInv, Zenon DEF IndexFails
<1>3. CASE IndexRead(w)
  <2>1. CASE Deny(w)
    BY <1>3, <2>1, DenyInv, Zenon DEF IndexRead
  <2>2. CASE ~Deny(w)
    <3> DEFINE r == [worker[w] EXCEPT !.pc = "check_index", !.doc = index.doc]
    <3>1. index # Missing /\ index # Absent /\ ~(now > index.doc.expires_at) /\ worker' = [worker EXCEPT ![w] = r]
      BY <1>3, <2>2, Zenon DEF IndexRead
    <3>2. index.doc \in Index /\ index.doc \in Document
      BY <3>1, DocumentType DEF GateInv, GateTypes, Found
    <3>3. worker'[w] = r /\ r \in WorkerState
      BY <1>0, <3>1, <3>2, Zenon DEF WorkerState, GateInv, GateTypes
    <3>4. r.pc = "check_index" /\ r.doc = index.doc /\ r.floor = worker[w].floor /\ r.began = worker[w].began
          /\ r.service = worker[w].service
      BY <1>0, Zenon DEF WorkerState
    <3> HIDE DEF r
    <3>5. worker[w].began <= index.doc.expires_at
      BY <1>0, <3>1, <3>2, DocumentType DEF GateInv, FloorInv, GateTypes, WorkerState
    <3>6. WayInv(w)' /\ FloorInv(w)'
      BY <1>3, <3>2, <3>3, <3>4, <3>5, Zenon DEF IndexRead, WayInv, FloorInv, Passed, Checked, Accepted, GateInv
    <3>7. QED
      BY <1>3, <3>1, <3>3, <3>6, PlainStepInv, Zenon DEF IndexRead
  <2>3. QED
    BY <2>1, <2>2, Zenon
<1>4. QED
  BY <1>1, <1>2, <1>3, Zenon

\* check_index: the floor rises to the version that is accepted.
LEMMA CheckIndexInv ==
    ASSUME GateInv, NEW w \in Worker, CheckIndex(w)
    PROVE  GateInv'
<1>0. worker[w] \in WorkerState /\ worker[w].pc = "check_index" /\ Checked(w) /\ worker[w].doc \in Index
  BY Zenon DEF CheckIndex, GateInv, GateTypes, WayInv
<1>1. CASE Deny(w) /\ index' = Absent /\ UNCHANGED versions
  BY <1>1, DenyInv, Zenon DEF CheckIndex
<1>2. CASE worker[w].doc.version >= versions.index /\ AcceptIndex(w, worker[w].doc.version)
  <2> DEFINE r == [worker[w] EXCEPT !.pc = IF Listed(w) = Nothing THEN "decided" ELSE "whitelist",
                                    !.decision = IF Listed(w) = Nothing THEN "unprotected" ELSE @]
  <2>1. worker' = [worker EXCEPT ![w] = r]
    <3>1. CASE Listed(w) = Nothing
      <4>1. worker' = [worker EXCEPT ![w].pc = "decided", ![w].decision = "unprotected"]
        BY <1>2, <3>1, Zenon DEF AcceptIndex, Pass, Listed
      <4>2. QED
        BY <1>0, <3>1, <4>1, Zenon DEF GateInv, GateTypes
    <3>2. CASE Listed(w) # Nothing
      <4>1. worker' = [worker EXCEPT ![w].pc = "whitelist"]
        BY <1>2, <3>2, Zenon DEF AcceptIndex, Listed
      <4>2. r = [worker[w] EXCEPT !.pc = "whitelist"]
        BY <1>0, <3>2, Zenon DEF WorkerState
      <4>3. QED
        BY <4>1, <4>2, Zenon
    <3>3. QED
      BY <3>1, <3>2, Zenon
  <2>2. worker'[w] = r /\ r \in WorkerState
    BY <1>0, <2>1, Zenon DEF WorkerState, Accepted, GateInv, GateTypes
  <2>3. /\ r.pc = (IF Listed(w) = Nothing THEN "decided" ELSE "whitelist")
        /\ Listed(w) = Nothing => r.decision = "unprotected"
        /\ r.doc = worker[w].doc /\ r.service = worker[w].service
        /\ r.floor = worker[w].floor /\ r.began = worker[w].began
    BY <1>0, Zenon DEF WorkerState
  <2> HIDE DEF r
  <2>4. /\ versions' = [versions EXCEPT !.index = worker[w].doc.version] /\ UNCHANGED index
        /\ UNCHANGED <<state, whitelist, now, clearing, used>>
    BY <1>2, Zenon DEF CheckIndex, AcceptIndex
  <2>5. /\ versions' \in [index : Int, whitelists : [ServiceName -> Int]]
        /\ versions'.index = worker[w].doc.version /\ versions.index <= versions'.index
        /\ worker[w].doc.version \in Int /\ versions.index \in Int
    BY <1>0, <1>2, <2>4, DocumentType, Zenon DEF GateInv, GateTypes
  <2>6. worker[w].floor \in Int /\ worker[w].floor <= versions.index
    BY <1>0, Zenon DEF GateInv, FloorInv, Checked, WorkerState
  <2>7. WayInv(w)'
    <3>1. Listed(w)' = Listed(w)
      BY <2>2, <2>3, Zenon DEF Listed
    <3>2. worker[w].began <= worker[w].doc.expires_at
      BY <1>0, Zenon DEF GateInv, WayInv
    <3>3. QED
      BY <1>0, <2>2, <2>3, <2>4, <3>1, <3>2, Zenon DEF WayInv, Passed, Checked, Accepted
  <2>8. FloorInv(w)'
    BY <2>2, <2>3, <2>4, <2>5, <2>6 DEF GateInv, FloorInv
  <2>9. used' \in Int /\ (state = "active" => used' <= versions'.index)
    BY <2>4, <2>5 DEF GateInv, GateTypes
  <2>10. QED
    BY <2>1, <2>2, <2>4, <2>5, <2>7, <2>8, <2>9, WorkerStepInv, Zenon
<1>3. QED
  BY <1>1, <1>2, Zenon DEF CheckIndex

LEMMA WhitelistStepsInv ==
    ASSUME GateInv, NEW w \in Worker, WhitelistWait(w) \/ WhitelistFails(w) \/ WhitelistRead(w)
    PROVE  GateInv'
<1>0. worker[w] \in WorkerState
  BY Zenon DEF GateInv, GateTypes
<1>1. CASE WhitelistWait(w)
  <2> DEFINE r == [worker[w] EXCEPT !.pc = "whitelist_wait"]
  <2>1. worker' = [worker EXCEPT ![w] = r] /\ worker'[w] = r /\ r \in WorkerState
    BY <1>0, <1>1, Zenon DEF WhitelistWait, WorkerState, Accepted, GateInv, GateTypes
  <2>2. WayInv(w)' /\ FloorInv(w)'
    BY <1>0, <1>1, <2>1, Zenon
    DEF WhitelistWait, WayInv, FloorInv, Listed, Passed, Checked, Accepted, WorkerState, GateInv
  <2>3. QED
    BY <1>1, <2>1, <2>2, PlainStepInv, Zenon DEF WhitelistWait
<1>2. CASE WhitelistFails(w)
  BY <1>2, DenyInv, Zenon DEF WhitelistFails
<1>3. CASE WhitelistRead(w)
  <2>1. CASE Deny(w)
    BY <1>3, <2>1, DenyInv, Zenon DEF WhitelistRead
  <2>2. CASE ~Deny(w)
    <3> DEFINE named == WhitelistKey(worker[w].service, worker[w].doc)
               r == [worker[w] EXCEPT !.pc = "check_whitelist", !.list = whitelist[named]]
    <3>1. /\ worker[w].pc \in {"whitelist", "whitelist_wait"} /\ named \in DOMAIN whitelist
          /\ whitelist[named] # "missing" /\ worker' = [worker EXCEPT ![w] = r]
      BY <1>3, <2>2, Zenon DEF WhitelistRead
    <3>2. whitelist[named] = Listed(w)
      BY <3>1, Zenon DEF GateInv, KeysName, WhitelistKey, Listed
    <3>3. /\ worker[w].doc \in Index /\ Listed(w) # Nothing /\ Checked(w)
          /\ worker[w].began <= worker[w].doc.expires_at
      BY <3>1, Zenon DEF GateInv, WayInv, Accepted
    <3>4. whitelist[named] \in DOMAIN Whitelist
      BY <3>2, <3>3, AuthAssumption, Zenon DEF Listed, Checked
    <3>5. worker'[w] = r /\ r \in WorkerState
      BY <1>0, <3>1, <3>4, Zenon DEF WorkerState, Accepted, GateInv, GateTypes
    <3>6. /\ r.pc = "check_whitelist" /\ r.list = Listed(w) /\ r.doc = worker[w].doc
          /\ r.service = worker[w].service /\ r.floor = worker[w].floor /\ r.began = worker[w].began
      BY <1>0, <3>2, Zenon DEF WorkerState
    <3> HIDE DEF r
    <3>7. WayInv(w)'
      <4>1. Listed(w)' = Listed(w)
        BY <3>5, <3>6, Zenon DEF Listed
      <4>2. QED
        BY <1>3, <3>3, <3>5, <3>6, <4>1, Zenon DEF WhitelistRead, WayInv, Passed, Checked, Accepted
    <3>8. FloorInv(w)'
      BY <1>3, <3>1, <3>5, <3>6, Zenon DEF WhitelistRead, GateInv, FloorInv, Passed, Accepted
    <3>9. QED
      BY <1>3, <3>1, <3>5, <3>7, <3>8, PlainStepInv, Zenon DEF WhitelistRead
  <2>3. QED
    BY <2>1, <2>2, Zenon
<1>4. QED
  BY <1>1, <1>2, <1>3, Zenon

LEMMA CheckWhitelistInv ==
    ASSUME GateInv, NEW w \in Worker, CheckWhitelist(w)
    PROVE  GateInv'
<1> DEFINE list == Whitelist[worker[w].list]
           s == worker[w].service
<1>0. /\ worker[w] \in WorkerState /\ worker[w].pc = "check_whitelist" /\ Checked(w)
      /\ worker[w].doc \in Index /\ worker[w].began <= worker[w].doc.expires_at
      /\ worker[w].list = Listed(w) /\ Listed(w) # Nothing
  BY Zenon DEF CheckWhitelist, GateInv, GateTypes, WayInv, Accepted
<1>1. s \in ServiceName /\ list.version \in Int
  <2>1. s \in ServiceName
    BY <1>0, AuthAssumption, Zenon DEF Checked
  <2>2. worker[w].list \in DOMAIN Whitelist
    BY <1>0, Zenon DEF WorkerState
  <2>3. QED
    BY <2>1, <2>2, AuthAssumption
<1>2. CASE Deny(w) /\ UNCHANGED versions
  BY <1>2, DenyInv, Zenon DEF CheckWhitelist
<1>3. CASE versions' = [versions EXCEPT !.whitelists[s] = list.version] /\ UNCHANGED whitelist
  <2>1. versions' \in [index : Int, whitelists : [ServiceName -> Int]] /\ versions'.index = versions.index
    BY <1>1, <1>3, Zenon DEF GateInv, GateTypes
  <2>2. CASE Deny(w)
    <3>1. UNCHANGED <<state, index, now, used>>
      BY Zenon DEF CheckWhitelist
    <3>2. QED
      BY <1>3, <2>1, <2>2, <3>1, DenyInv, Zenon
  <2>3. CASE worker[w].peer \in list.members /\ Pass(w, "allow")
    <3> DEFINE r == [worker[w] EXCEPT !.pc = "decided", !.decision = "allow"]
    <3>1. worker' = [worker EXCEPT ![w] = r]
      BY <1>0, <2>3, Zenon DEF Pass, GateInv, GateTypes
    <3>2. worker'[w] = r /\ r \in WorkerState
      BY <1>0, <3>1, Zenon DEF WorkerState, GateInv, GateTypes
    <3>3. /\ r.pc = "decided" /\ r.decision = "allow" /\ r.doc = worker[w].doc /\ r.peer = worker[w].peer
          /\ r.service = worker[w].service /\ r.floor = worker[w].floor /\ r.began = worker[w].began
      BY <1>0, Zenon DEF WorkerState
    <3> HIDE DEF r
    <3>4. WayInv(w)'
      <4>1. Listed(w)' = Listed(w)
        BY <3>2, <3>3, Zenon DEF Listed
      <4>2. QED
        BY <1>0, <2>3, <3>2, <3>3, <4>1, Zenon DEF CheckWhitelist, WayInv, Passed, Checked, Accepted
    <3>5. FloorInv(w)'
      BY <1>0, <2>1, <3>2, <3>3, Zenon DEF CheckWhitelist, GateInv, FloorInv, Accepted
    <3>6. /\ UNCHANGED <<state, index, whitelist, now, clearing>> /\ versions.index <= versions'.index
          /\ used' \in Int /\ (state = "active" => used' <= versions'.index)
      BY <1>3, <2>1 DEF CheckWhitelist, GateInv, GateTypes
    <3>7. QED
      BY <2>1, <3>1, <3>2, <3>4, <3>5, <3>6, WorkerStepInv, Zenon
  <2>4. QED
    BY <1>0, <1>1, <1>3, <2>2, <2>3, Zenon DEF CheckWhitelist, GateInv, GateTypes
<1>4. QED
  BY <1>2, <1>3, Zenon DEF CheckWhitelist

LEMMA FinishInv ==
    ASSUME GateInv, NEW w \in Worker, Finish(w)
    PROVE  GateInv'
<1>1. worker' = [worker EXCEPT ![w] = IdleWorker] /\ UNCHANGED <<state, index, whitelist, versions, now, clearing>>
  BY Zenon DEF Finish
<1>2. IdleWorker \in WorkerState
  BY DocumentType DEF IdleWorker, WorkerState
<1>3. worker'[w] = IdleWorker
  BY <1>1, Zenon DEF GateInv, GateTypes
<1>4. WayInv(w)'
  BY <1>3 DEF WayInv, IdleWorker, Passed, Accepted
<1>5. FloorInv(w)'
  BY <1>1, <1>3, DocumentType, AuthAssumption DEF GateInv, GateTypes, FloorInv, IdleWorker, Passed, Accepted
<1>6. /\ versions' \in [index : Int, whitelists : [ServiceName -> Int]] /\ versions.index <= versions'.index
  BY <1>1 DEF GateInv, GateTypes
<1>7. worker[w].doc.version \in Int /\ used \in Int /\ (state = "active" => worker[w].doc.version <= versions.index)
  BY DocumentType, Zenon DEF Finish, GateInv, GateTypes, WorkerState, FloorInv
<1>8. used' \in Int /\ (state = "active" => used' <= versions'.index)
  BY <1>1, <1>7, Zenon DEF Finish, GateInv
<1>9. QED
  BY <1>1, <1>2, <1>4, <1>5, <1>6, <1>8, WorkerStepInv, Zenon

LEMMA GateNextInv == GateInv /\ [GateNext]_gateVars => GateInv'
<1> SUFFICES ASSUME GateInv, [GateNext]_gateVars
             PROVE  GateInv'
  BY Zenon
<1>1. CASE \/ RefreshIndex \/ invalidate_all \/ InvalidateWhitelists \/ reload \/ Tick
           \/ \E s \in ServiceName, doc \in Index : RefreshWhitelist(s, doc)
  BY <1>1, CacheStepInv, Zenon
<1>2. ASSUME NEW w \in Worker,
             \/ \E p \in Peer, s \in ServiceName : Authorize(w, p, s)
             \/ IndexWait(w) \/ IndexFails(w) \/ IndexRead(w) \/ CheckIndex(w)
             \/ WhitelistWait(w) \/ WhitelistFails(w) \/ WhitelistRead(w) \/ CheckWhitelist(w)
             \/ Finish(w)
      PROVE  GateInv'
  BY <1>2, AuthorizeInv, IndexStepsInv, CheckIndexInv, WhitelistStepsInv, CheckWhitelistInv, FinishInv, Zenon
<1>3. CASE UNCHANGED gateVars
  BY <1>3, ZenonT(60) DEF gateVars, GateInv, GateTypes, KeysName, WayInv, FloorInv, Listed, Passed, Checked
<1>4. QED
  BY <1>1, <1>2, <1>3, Zenon DEF GateNext

-----------------------------------------------------------------------------
(* Theorems                                                                *)

\* The invariant holds in every state that authorize's workers, the caches'
\* refreshes and the reloads reach.
THEOREM GateInvHolds == GateSpec => []GateInv
<1>1. QED
  BY GateInitInv, GateNextInv, PTL DEF GateSpec

\* check_index never lets a request pass on an index older than one that had
\* been used when the request began.
THEOREM RollbackRejected == GateSpec => []NoRollback
<1>1. GateInv => NoRollback
  BY DocumentType, Zenon DEF GateInv, FloorInv, NoRollback, Checked, Passed, GateTypes, WorkerState
<1>2. QED
  BY GateInvHolds, <1>1, PTL

\* authorize allows a request on the list that its own index document names,
\* however the caches and the floors move while it waits.
THEOREM IndexedListDecides == GateSpec => []AllowedByTheIndexedList
<1>1. GateInv => AllowedByTheIndexedList
  BY Zenon DEF GateInv, WayInv, AllowedByTheIndexedList, Listed
<1>2. QED
  BY GateInvHolds, <1>1, PTL

\* No cache can make authorize pass a request on an index that had expired
\* when the request began.
THEOREM ExpiryHolds == GateSpec => []ExpiredIsRejected
<1>1. GateInv => ExpiredIsRejected
  BY Zenon DEF GateInv, WayInv, ExpiredIsRejected
<1>2. QED
  BY GateInvHolds, <1>1, PTL

\* What select_index computes, for any number of records in any order.
THEOREM NewestIsSelected == GateSpec => []SelectsTheNewest
<1>1. GateInv => SelectsTheNewest
  <2> SUFFICES ASSUME GateInv, NEW answer \in Answers[now]
               PROVE  /\ answer.result = Missing <=> answer.valid = {}
                      /\ answer.result.kind = "found" =>
                            /\ answer.result.doc \in answer.valid
                            /\ \A doc \in answer.valid \ {answer.result.doc} :
                                  doc.version < answer.result.doc.version
                      /\ answer.result = Conflict =>
                            \E a, b \in answer.valid : a # b /\ a.version = b.version
    BY Zenon DEF SelectsTheNewest
  <2>1. IsLeader(answer.result, answer.valid)
    BY SelectIndexLeads, Zenon DEF GateInv, GateTypes
  <2>2. QED
    BY <2>1, Zenon DEF IsLeader
<1>2. QED
  BY GateInvHolds, <1>1, PTL

-----------------------------------------------------------------------------
(* The log                                                                 *)

\* The values of the variables.
EmitterType == emitter \in [Thread -> [at: At, line: Entry \cup {NoEntry}, file: File]]
RollerType == roller \in [Thread -> [at: Step, job: {"first", "repair", "second"}, buffer: SUBSET Entry]]
FilesType ==
    /\ faults \in Nat
    /\ present \subseteq {"log", "tmp"}
    /\ log \subseteq Entry /\ tmp \subseteq Entry /\ archives \subseteq Entry
    /\ unsaid \subseteq Entry /\ written \subseteq Entry /\ dropped \subseteq Entry
LogTypeOK == EmitterType /\ RollerType /\ FilesType

\* The thread has ROLLING: it is about to look at the log, or it rotates.
Rotates(t) == emitter[t].at = "stat" \/ roller[t].at # "none"

\* ROLLING admits one of them.
OneRotation ==
    /\ \A t \in Thread : Rotates(t) => rolling
    /\ \A t, u \in Thread : Rotates(t) /\ Rotates(u) => t = u
    /\ \A t \in Thread : emitter[t].at = "stat" => roller[t].at = "none"

\* An append writes an entry to the file that is the log.
OpenIsLog ==
    \A t \in Thread :
        /\ emitter[t].at # "idle" => emitter[t].line \in Entry
        /\ emitter[t].at = "write" => emitter[t].file = "log"

\* What the rotation is about to remove is in its buffer or archived.
CopySafe ==
    /\ "tmp" \notin present => tmp = {}
    /\ \A t \in Thread :
        /\ roller[t].at = "create" => tmp \subseteq roller[t].buffer
        /\ roller[t].at = "remove" => tmp \subseteq archives

\* Without a failure there is no `log.tmp` but that of a rotation at work.
NoLeftover ==
    faults = 0 /\ (\A t \in Thread : roller[t].at \notin {"read", "create", "remove"}) => "tmp" \notin present

LogInv == LogTypeOK /\ OneRotation /\ OpenIsLog /\ CopySafe /\ NoLeftover /\ EntriesKept /\ OnlyALeftoverIsLost

USE DEF At, Step, File, Idle, NoRoller, Rotates, logFiles

\* The invariant holds when the process first starts.
LEMMA LogInitInv == ASSUME LogInit PROVE LogInv
BY LogAssumption, Zenon DEF LogInit, LogInv, LogTypeOK, EmitterType, RollerType, FilesType, OneRotation, OpenIsLog, CopySafe, NoLeftover, EntriesKept, OnlyALeftoverIsLost

\* No step of an emitter breaks it.
LEMMA EmitInv == ASSUME LogInv, NEW t \in Thread, Emit(t) PROVE LogInv'
<1> USE LogAssumption
<1>1. ASSUME NEW e \in Entry, emit(t, e) PROVE LogInv'
  <2>1. EmitterType'
    BY <1>1, Zenon DEF emit, LogInv, LogTypeOK, EmitterType
  <2>2. FilesType'
    BY <1>1, Zenon DEF emit, LogInv, LogTypeOK, FilesType
  <2>3. OneRotation'
    BY <1>1, Zenon DEF emit, LogInv, LogTypeOK, OneRotation, EmitterType, RollerType
  <2>4. OpenIsLog'
    BY <1>1, Zenon DEF emit, LogInv, LogTypeOK, OpenIsLog, EmitterType
  <2>5. RollerType' /\ CopySafe' /\ NoLeftover' /\ EntriesKept' /\ OnlyALeftoverIsLost'
    BY <1>1, Zenon DEF emit, LogInv, LogTypeOK, RollerType, CopySafe, NoLeftover, FilesType, EntriesKept, OnlyALeftoverIsLost
  <2> QED  BY <2>1, <2>2, <2>3, <2>4, <2>5, Zenon DEF LogInv, LogTypeOK
<1>2. CASE maybe_check_and_roll(t)
  <2>1. EmitterType'
    BY <1>2, ZenonT(60) DEF maybe_check_and_roll, LogInv, LogTypeOK, EmitterType
  <2>2. OneRotation'
    BY <1>2 DEF maybe_check_and_roll, LogInv, LogTypeOK, OneRotation, EmitterType, RollerType
  <2>3. OpenIsLog'
    BY <1>2, Zenon DEF maybe_check_and_roll, LogInv, LogTypeOK, OpenIsLog, EmitterType
  <2>4. RollerType' /\ FilesType' /\ CopySafe' /\ NoLeftover' /\ EntriesKept' /\ OnlyALeftoverIsLost'
    BY <1>2, Zenon DEF maybe_check_and_roll, LogInv, LogTypeOK, RollerType, FilesType, CopySafe, NoLeftover, EntriesKept, OnlyALeftoverIsLost
  <2> QED  BY <2>1, <2>2, <2>3, <2>4, Zenon DEF LogInv, LogTypeOK
<1>3. CASE check_and_roll(t)
  <2>1. EmitterType'
    BY <1>3, Zenon DEF check_and_roll, Fault, NoFault, LogInv, LogTypeOK, EmitterType
  <2>2. RollerType'
    BY <1>3, ZenonT(60) DEF check_and_roll, Fault, NoFault, LogInv, LogTypeOK, RollerType
  <2>3. FilesType'
    BY <1>3 DEF check_and_roll, Fault, NoFault, LogInv, LogTypeOK, FilesType
  <2>4. OneRotation'
    BY <1>3 DEF check_and_roll, Fault, NoFault, LogInv, LogTypeOK, OneRotation, EmitterType, RollerType
  <2>5. OpenIsLog'
    BY <1>3, Zenon DEF check_and_roll, Fault, NoFault, LogInv, LogTypeOK, OpenIsLog, EmitterType
  <2>6. CopySafe'
    BY <1>3, ZenonT(60) DEF check_and_roll, Fault, NoFault, LogInv, LogTypeOK, CopySafe, RollerType
  <2>7. NoLeftover'
    <3>1. roller[t].at = "none" /\ \A u \in Thread \ {t} : roller'[u] = roller[u]
      BY <1>3, Zenon DEF check_and_roll, LogInv, LogTypeOK, OneRotation, RollerType
    <3>2. present' = present /\ (faults' = faults \/ faults' = faults + 1)
      BY <1>3, Zenon DEF check_and_roll, Fault, NoFault
    <3> QED  BY <3>1, <3>2 DEF LogInv, LogTypeOK, FilesType, NoLeftover
  <2>8. EntriesKept'
    BY <1>3, Zenon DEF check_and_roll, Fault, NoFault, LogInv, EntriesKept
  <2>9. OnlyALeftoverIsLost'
    BY <1>3 DEF check_and_roll, Fault, NoFault, LogInv, LogTypeOK, OnlyALeftoverIsLost, FilesType
  <2> QED  BY <2>1, <2>2, <2>3, <2>4, <2>5, <2>6, <2>7, <2>8, <2>9, Zenon DEF LogInv, LogTypeOK
<1>4. CASE append_open(t)
  <2>1. EmitterType'
    BY <1>4 DEF append_open, Fault, NoFault, LogInv, LogTypeOK, EmitterType
  <2>2. RollerType'
    BY <1>4, Zenon DEF append_open, Fault, NoFault, LogInv, LogTypeOK, RollerType
  <2>3. FilesType'
    BY <1>4 DEF append_open, Fault, NoFault, LogInv, LogTypeOK, FilesType
  <2>4. OneRotation'
    <3>1. \A u \in Thread : emitter'[u].at = "stat" => emitter[u].at = "stat"
      BY <1>4 DEF append_open, LogInv, LogTypeOK, EmitterType
    <3> QED  BY <1>4, <3>1, Zenon DEF append_open, LogInv, OneRotation
  <2>5. OpenIsLog'
    BY <1>4 DEF append_open, Fault, NoFault, LogInv, LogTypeOK, OpenIsLog, EmitterType
  <2>6. CopySafe'
    BY <1>4, Zenon DEF append_open, Fault, NoFault, LogInv, LogTypeOK, CopySafe, RollerType
  <2>7. NoLeftover'
    BY <1>4 DEF append_open, Fault, NoFault, LogInv, LogTypeOK, NoLeftover, RollerType, FilesType
  <2>8. EntriesKept'
    BY <1>4, Zenon DEF append_open, Fault, NoFault, LogInv, EntriesKept
  <2>9. OnlyALeftoverIsLost'
    BY <1>4 DEF append_open, Fault, NoFault, LogInv, LogTypeOK, OnlyALeftoverIsLost, FilesType
  <2> QED  BY <2>1, <2>2, <2>3, <2>4, <2>5, <2>6, <2>7, <2>8, <2>9, Zenon DEF LogInv, LogTypeOK
<1>5. CASE append_write(t)
  <2>1. EmitterType'
    BY <1>5, Zenon DEF append_write, Fault, NoFault, LogInv, LogTypeOK, EmitterType
  <2>2. RollerType'
    BY <1>5, Zenon DEF append_write, Fault, NoFault, LogInv, LogTypeOK, RollerType
  <2>3. FilesType'
    BY <1>5 DEF append_write, Fault, NoFault, LogInv, LogTypeOK, FilesType, EmitterType, OpenIsLog
  <2>4. OneRotation'
    BY <1>5, Zenon DEF append_write, Fault, NoFault, LogInv, LogTypeOK, OneRotation, EmitterType, RollerType
  <2>5. OpenIsLog'
    BY <1>5, Zenon DEF append_write, Fault, NoFault, LogInv, LogTypeOK, OpenIsLog, EmitterType
  <2>6. CopySafe'
    BY <1>5, Zenon DEF append_write, Fault, NoFault, LogInv, LogTypeOK, CopySafe, RollerType, OpenIsLog, EmitterType
  <2>7. NoLeftover'
    BY <1>5 DEF append_write, Fault, NoFault, LogInv, LogTypeOK, NoLeftover, RollerType, FilesType
  <2>8. EntriesKept'
    BY <1>5, Zenon DEF append_write, Fault, NoFault, LogInv, EntriesKept, OpenIsLog
  <2>9. OnlyALeftoverIsLost'
    BY <1>5 DEF append_write, Fault, NoFault, LogInv, LogTypeOK, OnlyALeftoverIsLost, FilesType
  <2> QED  BY <2>1, <2>2, <2>3, <2>4, <2>5, <2>6, <2>7, <2>8, <2>9, Zenon DEF LogInv, LogTypeOK
<1> QED  BY <1>1, <1>2, <1>3, <1>4, <1>5, Zenon DEF Emit

\* A rotation that goes on keeps ROLLING, and one that ends was the only one.
LEMMA RotationMoves ==
    ASSUME OneRotation, NEW t \in Thread, roller[t].at # "none",
           \A u \in Thread : emitter'[u].at = emitter[u].at,
           \A u \in Thread \ {t} : roller'[u] = roller[u],
           roller'[t].at = "none" \/ rolling' = rolling
    PROVE  OneRotation'
BY DEF OneRotation

\* No step of a rotation breaks it.
LEMMA RollInv == ASSUME LogInv, NEW t \in Thread, Roll(t) PROVE LogInv'
<1> USE LogAssumption DEF Fault, NoFault, RollEnds, ArchiveEnds
<1>1. CASE roll_stat(t)
  <2>1. EmitterType'
    BY <1>1, Zenon DEF roll_stat, LogInv, LogTypeOK, EmitterType
  <2>2. RollerType'
    BY <1>1 DEF roll_stat, LogInv, LogTypeOK, RollerType
  <2>3. FilesType'
    BY <1>1 DEF roll_stat, LogInv, LogTypeOK, FilesType
  <2>4. OneRotation'
    BY <1>1 DEF roll_stat, LogInv, LogTypeOK, OneRotation, EmitterType, RollerType
  <2>5. OpenIsLog'
    BY <1>1, Zenon DEF roll_stat, LogInv, LogTypeOK, OpenIsLog, EmitterType
  <2>6. CopySafe'
    BY <1>1 DEF roll_stat, LogInv, LogTypeOK, CopySafe, RollerType, OneRotation
  <2>7. NoLeftover'
    BY <1>1 DEF roll_stat, LogInv, LogTypeOK, NoLeftover, RollerType, FilesType, OneRotation
  <2>8. EntriesKept'
    BY <1>1, Zenon DEF roll_stat, LogInv, EntriesKept
  <2>9. OnlyALeftoverIsLost'
    BY <1>1 DEF roll_stat, LogInv, LogTypeOK, OnlyALeftoverIsLost, FilesType
  <2> QED  BY <2>1, <2>2, <2>3, <2>4, <2>5, <2>6, <2>7, <2>8, <2>9, Zenon DEF LogInv, LogTypeOK
<1>2. CASE perform_roll(t) /\ Renamed(t)
  <2>1. EmitterType'
    BY <1>2, Zenon DEF perform_roll, Renamed, LogInv, LogTypeOK, EmitterType
  <2>2. RollerType'
    BY <1>2, Zenon DEF perform_roll, Renamed, LogInv, LogTypeOK, RollerType
  <2>3. FilesType'
    BY <1>2, Zenon DEF perform_roll, Renamed, LockFree, LogInv, LogTypeOK, FilesType
  <2>4. OneRotation'
    BY <1>2 DEF perform_roll, Renamed, LockFree, LogInv, LogTypeOK, OneRotation, EmitterType, RollerType
  <2>5. OpenIsLog'
    BY <1>2, Zenon DEF perform_roll, Renamed, LockFree, LogInv, LogTypeOK, OpenIsLog, EmitterType
  <2>6. CopySafe'
    BY <1>2, ZenonT(60) DEF perform_roll, Renamed, LockFree, LogInv, LogTypeOK, CopySafe, RollerType, OneRotation
  <2>7. NoLeftover'
    BY <1>2, Zenon DEF perform_roll, Renamed, LockFree, LogInv, LogTypeOK, NoLeftover, RollerType, FilesType, OneRotation
  <2>8. EntriesKept'
    BY <1>2, Zenon DEF perform_roll, Renamed, LockFree, LogInv, EntriesKept
  <2>9. OnlyALeftoverIsLost'
    BY <1>2 DEF perform_roll, Renamed, LockFree, LogInv, LogTypeOK, OnlyALeftoverIsLost, FilesType, NoLeftover, CopySafe, OneRotation, RollerType
  <2> QED  BY <2>1, <2>2, <2>3, <2>4, <2>5, <2>6, <2>7, <2>8, <2>9, Zenon DEF LogInv, LogTypeOK
<1>3. CASE perform_roll(t) /\ (Refused(t) \/ NotRenamed(t))
  <2>1. EmitterType'
    BY <1>3, Zenon DEF perform_roll, Refused, NotRenamed, LogInv, LogTypeOK, EmitterType
  <2>2. RollerType'
    BY <1>3 DEF perform_roll, Refused, NotRenamed, LogInv, LogTypeOK, RollerType
  <2>3. FilesType'
    <3>1. UNCHANGED <<present, log, tmp, archives, unsaid, written, dropped>>
      BY <1>3, Zenon DEF perform_roll, Refused, NotRenamed
    <3>2. faults' = faults \/ faults' = faults + 1
      BY <1>3, Zenon DEF perform_roll, Refused, NotRenamed
    <3> QED  BY <3>1, <3>2 DEF LogInv, LogTypeOK, FilesType
  <2>4. OneRotation'
    <3>1. roller[t].at # "none" /\ UNCHANGED emitter
      BY <1>3, Zenon DEF perform_roll, Refused, NotRenamed
    <3>2. /\ \A u \in Thread \ {t} : roller'[u] = roller[u]
          /\ roller'[t].at = "none" \/ rolling' = rolling
      BY <1>3 DEF perform_roll, Refused, NotRenamed, LogInv, LogTypeOK, RollerType
    <3> QED  BY <3>1, <3>2, RotationMoves, Zenon DEF LogInv
  <2>5. OpenIsLog'
    BY <1>3, Zenon DEF perform_roll, Refused, NotRenamed, LogInv, LogTypeOK, OpenIsLog, EmitterType
  <2>6. CopySafe'
    <3>1. UNCHANGED <<present, tmp, archives>>
      BY <1>3, Zenon DEF perform_roll, Refused, NotRenamed
    <3>2. roller'[t].at \notin {"create", "remove"} /\ \A u \in Thread \ {t} : roller'[u] = roller[u]
      BY <1>3 DEF perform_roll, Refused, NotRenamed, RollEnds, LogInv, LogTypeOK, RollerType
    <3> QED  BY <3>1, <3>2 DEF LogInv, CopySafe
  <2>7. NoLeftover'
    BY <1>3 DEF perform_roll, Refused, NotRenamed, LogInv, LogTypeOK, NoLeftover, RollerType, FilesType, OneRotation
  <2>8. EntriesKept'
    BY <1>3, Zenon DEF perform_roll, Refused, NotRenamed, LogInv, EntriesKept
  <2>9. OnlyALeftoverIsLost'
    BY <1>3 DEF perform_roll, Refused, NotRenamed, LogInv, LogTypeOK, OnlyALeftoverIsLost, FilesType
  <2> QED  BY <2>1, <2>2, <2>3, <2>4, <2>5, <2>6, <2>7, <2>8, <2>9, Zenon DEF LogInv, LogTypeOK
<1>4. CASE archive_read(t)
  <2>1. EmitterType'
    BY <1>4, Zenon DEF archive_read, LogInv, LogTypeOK, EmitterType
  <2>2. RollerType'
    BY <1>4 DEF archive_read, LogInv, LogTypeOK, RollerType, FilesType
  <2>3. FilesType'
    BY <1>4 DEF archive_read, LogInv, LogTypeOK, FilesType
  <2>4. OneRotation'
    BY <1>4 DEF archive_read, LogInv, LogTypeOK, OneRotation, EmitterType, RollerType
  <2>5. OpenIsLog'
    BY <1>4, Zenon DEF archive_read, LogInv, LogTypeOK, OpenIsLog, EmitterType
  <2>6. CopySafe'
    BY <1>4 DEF archive_read, LogInv, LogTypeOK, CopySafe, RollerType, OneRotation
  <2>7. NoLeftover'
    BY <1>4 DEF archive_read, LogInv, LogTypeOK, NoLeftover, RollerType, FilesType, OneRotation
  <2>8. EntriesKept'
    BY <1>4, Zenon DEF archive_read, LogInv, EntriesKept
  <2>9. OnlyALeftoverIsLost'
    BY <1>4 DEF archive_read, LogInv, LogTypeOK, OnlyALeftoverIsLost, FilesType
  <2> QED  BY <2>1, <2>2, <2>3, <2>4, <2>5, <2>6, <2>7, <2>8, <2>9, Zenon DEF LogInv, LogTypeOK
<1>5. CASE archive_create(t)
  <2>1. EmitterType'
    BY <1>5, Zenon DEF archive_create, LogInv, LogTypeOK, EmitterType
  <2>2. RollerType'
    BY <1>5 DEF archive_create, LogInv, LogTypeOK, RollerType
  <2>3. FilesType'
    BY <1>5 DEF archive_create, LogInv, LogTypeOK, FilesType, RollerType
  <2>4. OneRotation'
    BY <1>5 DEF archive_create, LogInv, LogTypeOK, OneRotation, EmitterType, RollerType
  <2>5. OpenIsLog'
    BY <1>5, Zenon DEF archive_create, LogInv, LogTypeOK, OpenIsLog, EmitterType
  <2>6. CopySafe'
    BY <1>5 DEF archive_create, LogInv, LogTypeOK, CopySafe, RollerType, OneRotation
  <2>7. NoLeftover'
    BY <1>5 DEF archive_create, LogInv, LogTypeOK, NoLeftover, RollerType, FilesType, OneRotation
  <2>8. EntriesKept'
    BY <1>5, Zenon DEF archive_create, LogInv, EntriesKept
  <2>9. OnlyALeftoverIsLost'
    BY <1>5 DEF archive_create, LogInv, LogTypeOK, OnlyALeftoverIsLost, FilesType
  <2> QED  BY <2>1, <2>2, <2>3, <2>4, <2>5, <2>6, <2>7, <2>8, <2>9, Zenon DEF LogInv, LogTypeOK
<1>6. CASE archive_remove(t)
  <2>1. EmitterType'
    BY <1>6 DEF archive_remove, LogInv, LogTypeOK, EmitterType
  <2>2. RollerType'
    BY <1>6 DEF archive_remove, LogInv, LogTypeOK, RollerType
  <2>3. FilesType'
    BY <1>6 DEF archive_remove, LogInv, LogTypeOK, FilesType
  <2>4. OneRotation'
    <3>1. roller[t].at # "none" /\ \A u \in Thread : emitter'[u].at = emitter[u].at
      BY <1>6 DEF archive_remove, LogInv, LogTypeOK, EmitterType
    <3>2. /\ \A u \in Thread \ {t} : roller'[u] = roller[u]
          /\ roller'[t].at = "none" \/ rolling' = rolling
      BY <1>6 DEF archive_remove, LogInv, LogTypeOK, RollerType
    <3> QED  BY <3>1, <3>2, RotationMoves, Zenon DEF LogInv
  <2>5. OpenIsLog'
    BY <1>6 DEF archive_remove, LogInv, LogTypeOK, OpenIsLog, EmitterType
  <2>6. CopySafe'
    BY <1>6 DEF archive_remove, LogInv, LogTypeOK, CopySafe, RollerType, OneRotation
  <2>7. NoLeftover'
    BY <1>6 DEF archive_remove, LogInv, LogTypeOK, NoLeftover, RollerType, FilesType, OneRotation
  <2>8. EntriesKept'
    BY <1>6, Zenon DEF archive_remove, LogInv, EntriesKept, CopySafe
  <2>9. OnlyALeftoverIsLost'
    BY <1>6 DEF archive_remove, LogInv, LogTypeOK, OnlyALeftoverIsLost, FilesType
  <2> QED  BY <2>1, <2>2, <2>3, <2>4, <2>5, <2>6, <2>7, <2>8, <2>9, Zenon DEF LogInv, LogTypeOK
<1> QED  BY <1>1, <1>2, <1>3, <1>4, <1>5, <1>6, Zenon DEF Roll, perform_roll

\* Neither does any other step.
LEMMA LogStepInv == ASSUME LogInv, [LogNext]_logVars PROVE LogInv'
<1>1. CASE \E t \in Thread : Emit(t) \/ Roll(t)
  BY <1>1, EmitInv, RollInv, Zenon
<1>2. CASE IntervalEnds
  BY <1>2, Zenon DEF IntervalEnds, LogInv, LogTypeOK, EmitterType, RollerType, FilesType, OneRotation, OpenIsLog, CopySafe, NoLeftover, EntriesKept, OnlyALeftoverIsLost
<1>3. CASE LogCrash
  BY <1>3, LogAssumption DEF LogCrash, Fault, LogInv, LogTypeOK, EmitterType, RollerType, FilesType, OneRotation, OpenIsLog, CopySafe, NoLeftover, EntriesKept, OnlyALeftoverIsLost
<1>4. CASE UNCHANGED logVars
  BY <1>4, Zenon DEF logVars, LogInv, LogTypeOK, EmitterType, RollerType, FilesType, OneRotation, OpenIsLog, CopySafe, NoLeftover, EntriesKept, OnlyALeftoverIsLost
<1> QED  BY <1>1, <1>2, <1>3, <1>4, Zenon DEF LogNext

\* LogInv is an invariant.
LEMMA LogInvHolds == LogSpec => []LogInv
<1>1. LogInit => LogInv
  BY LogInitInv, Zenon
<1>2. LogInv /\ [LogNext]_logVars => LogInv'
  BY LogStepInv, Zenon
<1> QED  BY <1>1, <1>2, PTL DEF LogSpec

\* append_file and perform_roll together: no entry that was written is lost,
\* but to a rename over a leftover `log.tmp`.
THEOREM LogKept == LogSpec => []EntriesKept
<1>1. LogInv => EntriesKept
  BY Zenon DEF LogInv
<1> QED  BY <1>1, LogInvHolds, PTL

\* Where fs::rename refuses an existing target, and before any failure where
\* it does not, no entry is lost at all: ROLLING and repair_tmp_file see to it.
THEOREM LeftoverOnly == LogSpec => []OnlyALeftoverIsLost
<1>1. LogInv => OnlyALeftoverIsLost
  BY Zenon DEF LogInv
<1> QED  BY <1>1, LogInvHolds, PTL

-----------------------------------------------------------------------------
(* The start                                                               *)

\* The phases in which main has a keypair, and those in which it has a
\* configuration that is also in the file.
HasKey == {"pq_load", "pq", "address", "network", "running"}
Loaded == HasKey \cup {"key"}

\* The values the argument needs.
StartTypeOK ==
    /\ phase \in Phase /\ owed \subseteq Edit /\ key \in Key \cup {NoKey}
    /\ config = Text(config.form, config.edit, config.net)
    /\ config.form = "absent" => config.edit = Default

\* What the next write of config.toml replaces is an edit made since the
\* file was read, or what the write puts there again.
FileInv ==
    /\ phase \in {"default", "torn"} => config.edit = Default \/ config.edit \in raced
    /\ phase = "complete" => config.edit = cfg.edit \/ config.edit \in raced
    /\ phase \in Loaded => config = Text("full", cfg.edit, cfg.net) \/ config.edit \in raced

\* The keys in memory are the ones in the files.
KeyInv ==
    /\ phase \in HasKey => peer = key /\ key # NoKey
    /\ phase = "pq" => pq_keys \in {NoKey, pq}
    /\ phase \in {"address", "network", "running"} => pq_keys \in {NoKey, pq}

StartInv == StartTypeOK /\ FileInv /\ KeyInv /\ EditsKept

USE DEF Phase, Form, HasKey, Loaded, Works, Goes, diskVars, memVars, Text, NoCfg

\* The invariant holds before the first start.
LEMMA StartInitInv == ASSUME StartInit PROVE StartInv
BY StartAssumption, Zenon DEF StartInit, StartInv, StartTypeOK, FileInv, KeyInv, EditsKept

\* The end of the process keeps it, whatever was under way.
LEMMA EndsInv == ASSUME StartInv, Ends, UNCHANGED <<diskVars, host, owed>> PROVE StartInv'
BY Zenon DEF Ends, StartInv, StartTypeOK, FileInv, KeyInv, EditsKept

\* The steps that read and write config.toml keep it.
LEMMA ConfigInv ==
    ASSUME StartInv, from_toml_file \/ complete_missing_fields \/ rename_bad_config \/ default_open \/ default_write
    PROVE StartInv'
<1> USE StartAssumption
<1>1. CASE Exits
  BY <1>1, EndsInv, Zenon DEF Exits
<1>2. CASE from_toml_file /\ ~Exits
  <2>1. CASE config.form \in {"unreadable", "invalid"} /\ Ends /\ UNCHANGED <<diskVars, host, owed>>
    BY <2>1, EndsInv, Zenon
  <2>2. CASE config.form \in {"partial", "full"}
    <3>1. cfg' = [edit |-> config.edit, net |-> config.net] /\ UNCHANGED <<config, backups, key, owed, raced>>
      BY <1>2, <2>2, Zenon DEF from_toml_file
    <3>2. phase' = IF config.form = "partial" THEN "complete" ELSE "key"
      BY <1>2, <2>2, Zenon DEF from_toml_file
    <3>3. config.form = "full" => config = Text("full", config.edit, config.net)
      BY Zenon DEF StartInv, StartTypeOK
    <3> QED  BY <2>2, <3>1, <3>2, <3>3, Zenon DEF StartInv, StartTypeOK, FileInv, KeyInv, EditsKept
  <2>3. CASE config.form = "corrupt"
    BY <1>2, <2>3, Zenon DEF from_toml_file, StartInv, StartTypeOK, FileInv, KeyInv, EditsKept
  <2>4. CASE config.form = "absent"
    BY <1>2, <2>4, Zenon DEF from_toml_file, StartInv, StartTypeOK, FileInv, KeyInv, EditsKept
  <2> QED  BY <1>2, <2>1, <2>2, <2>3, <2>4, Zenon DEF from_toml_file
<1>3. CASE complete_missing_fields /\ ~Exits
  BY <1>3 DEF complete_missing_fields, StartInv, StartTypeOK, FileInv, KeyInv, EditsKept
<1>4. CASE rename_bad_config /\ ~Exits
  BY <1>4 DEF rename_bad_config, StartInv, StartTypeOK, FileInv, KeyInv, EditsKept
<1>5. CASE default_open /\ ~Exits
  BY <1>5 DEF default_open, StartInv, StartTypeOK, FileInv, KeyInv, EditsKept
<1>6. CASE default_write /\ ~Exits
  BY <1>6 DEF default_write, StartInv, StartTypeOK, FileInv, KeyInv, EditsKept
<1> QED  BY <1>1, <1>2, <1>3, <1>4, <1>5, <1>6, Zenon

\* So do the steps that read and write the key files.
LEMMA KeysInv == ASSUME StartInv, load_or_create \/ load_pq_keys \/ ensure_pq_keys PROVE StartInv'
<1> USE StartAssumption
<1>1. CASE Exits
  BY <1>1, EndsInv, Zenon DEF Exits
<1>2. CASE load_or_create /\ ~Exits
  BY <1>2, Zenon DEF load_or_create, StartInv, StartTypeOK, FileInv, KeyInv, EditsKept
<1>3. CASE load_pq_keys
  BY <1>3, Zenon DEF load_pq_keys, StartInv, StartTypeOK, FileInv, KeyInv, EditsKept
<1>4. CASE ensure_pq_keys
  BY <1>4, Zenon DEF ensure_pq_keys, StartInv, StartTypeOK, FileInv, KeyInv, EditsKept
<1> QED  BY <1>1, <1>2, <1>3, <1>4, Zenon

\* And so do the rest of main and the running node.
LEMMA RunInv ==
    ASSUME StartInv, update_config_with_public_ip \/ NetworkStart \/ save_to_default \/ Stop \/ Crash \/ Start
    PROVE StartInv'
<1> USE StartAssumption
<1>1. CASE Exits
  BY <1>1, EndsInv, Zenon DEF Exits
<1>2. CASE update_config_with_public_ip /\ ~Exits
  <2>1. phase = "address" /\ phase' = "network" /\ UNCHANGED <<backups, key, pq, peer, pq_keys, host, owed, raced>>
    BY <1>2, Zenon DEF update_config_with_public_ip
  <2>2. cfg' = [cfg EXCEPT !.net = Probed(cfg.net)]
    BY <1>2, Zenon DEF update_config_with_public_ip
  <2>3. config' = IF Probed(cfg.net) # cfg.net THEN Text("full", cfg.edit, Probed(cfg.net)) ELSE config
    BY <1>2, Zenon DEF update_config_with_public_ip
  <2>4. StartTypeOK' /\ FileInv' /\ EditsKept'
    BY <2>1, <2>2, <2>3 DEF StartInv, StartTypeOK, FileInv, EditsKept
  <2>5. KeyInv'
    BY <2>1, Zenon DEF StartInv, KeyInv
  <2> QED  BY <2>4, <2>5, Zenon DEF StartInv
<1>3. CASE NetworkStart /\ ~Exits
  BY <1>3, EndsInv, Zenon DEF NetworkStart, StartInv, StartTypeOK, FileInv, KeyInv, EditsKept
<1>4. CASE save_to_default /\ ~Exits
  BY <1>4 DEF save_to_default, StartInv, StartTypeOK, FileInv, KeyInv, EditsKept
<1>5. CASE Stop
  BY <1>5, EndsInv, Zenon DEF Stop
<1>6. CASE Start
  BY <1>6, Zenon DEF Start, StartInv, StartTypeOK, FileInv, KeyInv, EditsKept
<1> QED  BY <1>1, <1>2, <1>3, <1>4, <1>5, <1>6, Zenon DEF Crash

\* The invariant is inductive.
LEMMA StartStepInv == ASSUME StartInv, [StartNext]_startVars PROVE StartInv'
<1>1. CASE MainStep
  BY <1>1, ConfigInv, KeysInv, RunInv, Zenon DEF MainStep
<1>2. CASE Start \/ save_to_default \/ Stop \/ Crash
  BY <1>2, RunInv, Zenon
<1>3. ASSUME NEW e \in Edit, NEW form \in Form \ {"absent"}, NEW net \in EditNet, OperatorEdits(e, form, net)
      PROVE StartInv'
  BY <1>3, StartAssumption, ZenonT(60) DEF OperatorEdits, StartInv, StartTypeOK, FileInv, KeyInv, EditsKept
<1>4. ASSUME NEW f \in Family, NEW a \in Addr \cup {NoAddr}, HostMoves(f, a) PROVE StartInv'
  BY <1>4, Zenon DEF HostMoves, StartInv, StartTypeOK, FileInv, KeyInv, EditsKept
<1>5. CASE UNCHANGED startVars
  BY <1>5, Zenon DEF startVars, StartInv, StartTypeOK, FileInv, KeyInv, EditsKept
<1> QED  BY <1>1, <1>2, <1>3, <1>4, <1>5, Zenon DEF StartNext

\* StartInv is an invariant.
LEMMA StartInvHolds == StartSpec => []StartInv
<1>1. StartInit => StartInv
  BY StartInitInv, Zenon
<1>2. StartInv /\ [StartNext]_startVars => StartInv'
  BY StartStepInv, Zenon
<1> QED  BY <1>1, <1>2, PTL DEF StartSpec

\* from_toml_file, its backups and every save keep the operator's
\* configuration.
THEOREM ConfigKept == StartSpec => []EditsKept
<1>1. StartInv => EditsKept
  BY Zenon DEF StartInv
<1> QED  BY <1>1, StartInvHolds, PTL

\* A node that main has brought up is the one its files describe.
THEOREM RunningIsSaved == StartSpec => []RunsAsSaved
<1>1. StartInv => RunsAsSaved
  BY DEF StartInv, StartTypeOK, FileInv, KeyInv, RunsAsSaved
<1> QED  BY <1>1, StartInvHolds, PTL

-----------------------------------------------------------------------------
(* The refinement of NodeIdentity                                          *)

\* Every step of a start is a step of NodeIdentity or changes neither the
\* saved keypair nor the one the node is known by.
LEMMA IdentityStep ==
    ASSUME StartInv, StartInv', [StartNext]_startVars
    PROVE [Identity!Create \/ Identity!Run \/ Identity!End]_(Identity!identityVars)
<1> USE StartAssumption DEF Identity!Create, Identity!Run, Identity!End, Identity!identityVars
<1>1. CASE key' = key /\ phase' # "running"
  BY <1>1, Zenon
<1>2. CASE key' = key /\ phase' = "running"
  BY <1>2, Zenon DEF StartInv, KeyInv
<1>3. CASE key' # key
  <2>1. load_or_create /\ ~Exits
    BY <1>3, Zenon DEF StartNext, MainStep, Start, from_toml_file, complete_missing_fields, rename_bad_config,
         default_open, default_write, load_or_create, load_pq_keys, ensure_pq_keys, update_config_with_public_ip,
         NetworkStart, save_to_default, Stop, Crash, Exits, Ends, OperatorEdits, HostMoves, startVars
  <2>2. key = NoKey /\ key' \in Key /\ phase = "key" /\ phase' = "pq_load"
    BY <1>3, <2>1, Zenon DEF load_or_create
  <2> QED  BY <2>2, Zenon
<1> QED  BY <1>1, <1>2, <1>3, Zenon

\* main, KeyManager and every failure between them implement one identity
\* that is made once and never changes.
THEOREM StartImplementsIdentity == StartSpec => IdentityKept
<1>1. StartInit => Identity!Init
  BY Zenon DEF StartInit, Identity!Init
<1>2. StartInv /\ StartInv' /\ [StartNext]_startVars
      => [Identity!Create \/ Identity!Run \/ Identity!End]_(Identity!identityVars)
  BY IdentityStep, Zenon
<1> QED  BY <1>1, <1>2, StartInvHolds, PTL DEF StartSpec, IdentityKept, Identity!Spec
=============================================================================
