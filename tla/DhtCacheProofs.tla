--------------------------- MODULE DhtCacheProofs ---------------------------
(***************************************************************************)
(* Proofs about DhtCache, for any keys, callers, refresh tasks and workers *)
(* that invalidate, and for any number of invalidations.                   *)
(***************************************************************************)
EXTENDS DhtCache, TLAPS

-----------------------------------------------------------------------------
(* The inductive invariant                                                 *)

\* A caller that captures the generation owns the task it has just listed.
Capturing(c) == caller[c].pc \in {"capture_global", "capture_key"}

Links ==
    /\ \A c \in Caller :
          /\ caller[c].pc # "idle" => caller[c].key \in Key
          /\ caller[c].pc = "waiting" => caller[c].rx \in Task
          /\ Capturing(c) => /\ caller[c].rx \in Task
                             /\ task[caller[c].rx].pc = "starting"
                             /\ task[caller[c].rx].key = caller[c].key
    /\ \A c, d \in Caller : Capturing(c) /\ Capturing(d) /\ caller[c].rx = caller[d].rx => c = d
    /\ \A t \in Task : task[t].pc # "idle" => task[t].key \in Key

\* What a task has captured lies behind the generations of now if the task
\* was voided, and was not ahead of them before.
VoidInv(t) ==
    /\ task[t].generation[1] <= global_generation
    /\ task[t].pc = "starting" => task[t].void = "no"
    /\ task[t].pc \in {"fetching", "load_global"} =>
          /\ task[t].void = "no" => task[t].generation[2] <= key_generation[task[t].key]
          /\ task[t].void = "all" => task[t].generation[1] < global_generation
    /\ task[t].pc \in {"fetching", "load_global", "load_key"} /\ task[t].void = "key" =>
          task[t].generation[2] < key_generation[task[t].key]
    /\ task[t].pc = "load_key" /\ task[t].void = "all" => task[t].generation[1] < task[t].seen
    /\ task[t].pc \in {"apply", "store"} => task[t].void \notin {"key", "all"}

\* Only what was found has a version.
EntriesInv ==
    \A k \in DOMAIN entries : entries[k].version # Unversioned => entries[k].value # None

Inv == SingleFlight /\ Links /\ EntriesInv /\ VoidedIsDiscarded /\ \A t \in Task : VoidInv(t)

-----------------------------------------------------------------------------
(* Facts about the entries                                                 *)

\* What an insertion does, but for the choice of the entries it keeps.
Inserted(t, k, entry) ==
    \E kept \in SUBSET (DOMAIN entries \cup {k}) :
        /\ entries' = [x \in kept |-> IF x = k THEN entry ELSE entries[x]]
        /\ Fits(entries', kept) \/ Cardinality(kept) = 1
        /\ older' = Among(TouchAs(t, k), kept \cup (Stamped \ {t}))

LEMMA InsertEffect ==
    ASSUME NEW t, NEW k, NEW entry, Insert(t, k, entry)
    PROVE  Inserted(t, k, entry)
<1> DEFINE e == [x \in DOMAIN entries \cup {k} |-> IF x = k THEN entry ELSE entries[x]]
<1>1. PICK kept \in SUBSET DOMAIN e :
          /\ evict(e, TouchAs(t, k), kept)
          /\ entries' = [x \in kept |-> e[x]]
          /\ older' = Among(TouchAs(t, k), kept \cup (Stamped \ {t}))
  BY Zenon DEF Insert
<1>2. kept \in SUBSET (DOMAIN entries \cup {k})
  BY Zenon
<1>3. entries' = [x \in kept |-> IF x = k THEN entry ELSE entries[x]]
  BY <1>1, <1>2, Zenon
<1>4. Fits(e, kept) \/ Cardinality(kept) = 1
  BY <1>1, Zenon DEF evict
<1>5. {x \in kept : entries'[x].value # None} = {x \in kept : e[x].value # None}
  BY <1>1, Zenon
<1>6. Fits(entries', kept) \/ Cardinality(kept) = 1
  BY <1>4, <1>5, Zenon DEF Fits
<1>7. QED
  BY <1>1, <1>2, <1>3, <1>6, Zenon DEF Inserted

\* The set of entries after an insertion is well formed again.
LEMMA InsertInv ==
    ASSUME TypeOK, EntriesInv, VoidedIsDiscarded, NEW t \in Task, NEW k \in Key, NEW entry \in Entry,
           entry.version # Unversioned => entry.value # None, entry.void \notin {"key", "all"},
           Insert(t, k, entry), Stamped' = Stamped \ {t}
    PROVE  /\ DOMAIN entries' \subseteq Key /\ \A x \in DOMAIN entries' : entries'[x] \in Entry
           /\ older' \subseteq Items' \X Items'
           /\ EntriesInv' /\ VoidedIsDiscarded'
<1>0. Inserted(t, k, entry)
  BY InsertEffect, Zenon
<1>1. PICK kept \in SUBSET (DOMAIN entries \cup {k}) :
          /\ entries' = [x \in kept |-> IF x = k THEN entry ELSE entries[x]]
          /\ Fits(entries', kept) \/ Cardinality(kept) = 1
          /\ older' = Among(TouchAs(t, k), kept \cup (Stamped \ {t}))
  BY <1>0, Zenon DEF Inserted
<1>2. DOMAIN entries' = kept
  BY <1>1, Zenon
<1>3. DOMAIN entries' \subseteq Key /\ \A x \in DOMAIN entries' : entries'[x] \in Entry
  BY <1>1, <1>2, Zenon DEF TypeOK
<1>4. older' \subseteq Items' \X Items'
  <2>1. Items' = kept \cup (Stamped \ {t})
    BY <1>2, Zenon DEF Items
  <2>2. older' \subseteq (kept \cup (Stamped \ {t})) \X (kept \cup (Stamped \ {t}))
    BY <1>1 DEF Among, TouchAs
  <2>3. QED
    BY <2>1, <2>2, Zenon
<1>5. VoidedIsDiscarded' /\ EntriesInv'
  BY <1>1, <1>2, Zenon DEF VoidedIsDiscarded, EntriesInv
<1>6. QED
  BY <1>3, <1>4, <1>5, Zenon

\* So it is after some entries have been removed.
LEMMA RemoveInv ==
    ASSUME TypeOK, EntriesInv, VoidedIsDiscarded, NEW S,
           entries' = [x \in DOMAIN entries \ S |-> entries[x]]
    PROVE  /\ DOMAIN entries' \subseteq Key /\ \A x \in DOMAIN entries' : entries'[x] \in Entry
           /\ EntriesInv' /\ VoidedIsDiscarded'
<1>1. DOMAIN entries' = DOMAIN entries \ S /\ DOMAIN entries' \subseteq DOMAIN entries
  BY Zenon
<1>2. \A x \in DOMAIN entries' : entries'[x] = entries[x]
  BY Zenon
<1>3. QED
  BY <1>1, <1>2, Zenon DEF TypeOK, VoidedIsDiscarded, EntriesInv

\* An access to an entry reorders what is there.
LEMMA LookupOrder ==
    ASSUME TypeOK, NEW k, Lookup(k), Items' = Items
    PROVE  older' \subseteq Items' \X Items'
<1>1. older \subseteq Items \X Items
  BY Zenon DEF TypeOK
<1>2. CASE k \in DOMAIN entries
  <2>1. k \in Items /\ older' = Touch(k)
    BY <1>2, Zenon DEF Lookup, Items
  <2>2. Touch(k) \subseteq Items \X Items
    BY <1>1, <2>1 DEF Touch, Without
  <2>3. QED
    BY <2>1, <2>2, Zenon
<1>3. CASE k \notin DOMAIN entries
  BY <1>1, <1>3, Zenon DEF Lookup
<1>4. QED
  BY <1>2, <1>3, Zenon

-----------------------------------------------------------------------------
(* Every step preserves the invariant                                      *)

LEMMA InitInv == Init => Inv
<1> SUFFICES ASSUME Init PROVE Inv
  BY Zenon
<1>1. Ended \in TaskState /\ Ended.pc = "idle" /\ Ended.generation = <<0, 0>>
  BY Zenon DEF Ended, TaskState, NoResult, Fetched, Void
<1>2. Idle \in CallerState /\ Idle.pc = "idle"
  BY Zenon DEF Idle, CallerState
<1>3. DOMAIN entries = {}
  BY DEF Init
<1>4. TypeOK
  BY <1>1, <1>2, <1>3, Zenon DEF Init, TypeOK, WorkerState
<1>5. \A t \in Task : task[t] = Ended
  BY Zenon DEF Init
<1>6. SingleFlight
  BY <1>1, <1>4, <1>5, NoneAssumption, Zenon DEF Init, SingleFlight
<1>7. \A c \in Caller : caller[c].pc = "idle"
  BY <1>2, Zenon DEF Init
<1>8. Links
  BY <1>1, <1>5, <1>7, Zenon DEF Links, Capturing
<1>9. EntriesInv
  BY <1>3, Zenon DEF EntriesInv
<1>10. \A t \in Task : VoidInv(t)
  BY <1>1, <1>5 DEF VoidInv, Init
<1>11. VoidedIsDiscarded
  BY <1>3, Zenon DEF VoidedIsDiscarded
<1>12. QED
  BY <1>6, <1>8, <1>9, <1>10, <1>11, Zenon DEF Inv

\* A step of a caller that touches nothing but its own state and the order.
LEMMA CallerOnlyInv ==
    ASSUME Inv, NEW c \in Caller, NEW r \in CallerState, caller' = [caller EXCEPT ![c] = r],
           r.pc \notin {"capture_global", "capture_key"},
           r.pc # "idle" => r.key \in Key, r.pc = "waiting" => r.rx \in Task,
           older' \subseteq Items' \X Items',
           UNCHANGED <<entries, inflight, global_generation, key_generation, task, worker>>
    PROVE  Inv'
<1>1. TypeOK'
  BY Zenon DEF Inv, SingleFlight, TypeOK
<1>2. SingleFlight'
  BY <1>1, Zenon DEF Inv, SingleFlight
<1>3. \A d \in Caller : caller'[d] = IF d = c THEN r ELSE caller[d]
  BY ZenonT(60) DEF Inv, SingleFlight, TypeOK
<1>4. \A d \in Caller : Capturing(d)' => d # c /\ Capturing(d)
  BY <1>3, Zenon DEF Capturing
<1>5. Links'
  BY <1>3, <1>4 DEF Inv, Links
<1>6. EntriesInv' /\ VoidedIsDiscarded' /\ \A t \in Task : VoidInv(t)'
  BY Zenon DEF Inv, EntriesInv, VoidedIsDiscarded, VoidInv
<1>7. QED
  BY <1>2, <1>5, <1>6, Zenon DEF Inv

\* A caller's look at the cache, and its return from wait_for.
LEMMA LookInv ==
    ASSUME Inv, NEW c \in Caller, NEW k \in Key, Peek(c, k) \/ Get(c, k) \/ Refresh(c, k) \/ Wake(c)
    PROVE  Inv'
<1>1. TypeOK /\ Links
  BY Zenon DEF Inv, SingleFlight
<1>2. caller[c] \in CallerState
  BY <1>1, Zenon DEF TypeOK
<1>3. Items' = Items
  BY Zenon DEF Peek, Get, Refresh, Wake, Items, Stamped
<1>4. Idle \in CallerState /\ Idle.pc = "idle"
  BY Zenon DEF Idle, CallerState
<1>5. older' \subseteq Items' \X Items'
  <2>1. (\E x : Lookup(x)) \/ older' = older
    BY Zenon DEF Peek, Get, Refresh, Wake
  <2>2. QED
    BY <1>1, <1>3, <2>1, LookupOrder, Zenon DEF TypeOK
<1>6. CASE Peek(c, k)
  <2>1. /\ entries' = entries /\ inflight' = inflight /\ global_generation' = global_generation
        /\ key_generation' = key_generation /\ task' = task /\ caller' = caller /\ worker' = worker
    BY <1>6, Zenon DEF Peek
  <2>2. TypeOK'
    BY <1>1, <1>5, <2>1, Zenon DEF TypeOK
  <2>3. QED
    BY <2>1, <2>2, ZenonT(60) DEF Inv, SingleFlight, Links, Capturing, EntriesInv, VoidedIsDiscarded, VoidInv
<1>7. CASE Get(c, k)
  <2> DEFINE r == [pc |-> "ensure", key |-> k, rx |-> None, hit |-> k \in DOMAIN entries]
  <2>1. r \in CallerState /\ r.pc = "ensure" /\ r.key = k
    BY DEF CallerState
  <2>2. /\ caller' = [caller EXCEPT ![c] = r]
        /\ UNCHANGED <<entries, inflight, global_generation, key_generation, task, worker>>
    BY <1>7, Zenon DEF Get
  <2> HIDE DEF r
  <2>3. QED
    BY <1>5, <2>1, <2>2, CallerOnlyInv, Zenon
<1>8. CASE Refresh(c, k)
  <2> DEFINE r == [pc |-> "ensure", key |-> k, rx |-> None, hit |-> TRUE]
  <2>1. r \in CallerState /\ r.pc = "ensure" /\ r.key = k
    BY Zenon DEF CallerState
  <2>2. /\ caller' = [caller EXCEPT ![c] = r]
        /\ UNCHANGED <<entries, inflight, global_generation, key_generation, task, worker>>
    BY <1>8, Zenon DEF Refresh
  <2> HIDE DEF r
  <2>3. QED
    BY <1>5, <2>1, <2>2, CallerOnlyInv, Zenon
<1>9. CASE Wake(c)
  <2>1. /\ caller' = [caller EXCEPT ![c] = Idle]
        /\ UNCHANGED <<entries, inflight, global_generation, key_generation, task, worker>>
    BY <1>9, Zenon DEF Wake
  <2>2. QED
    BY <1>4, <1>5, <2>1, CallerOnlyInv, Zenon
<1>10. QED
  BY <1>6, <1>7, <1>8, <1>9, Zenon

\* Listing a refresh: a key has a task from now on, and the task has one owner.
LEMMA EnsureInv ==
    ASSUME Inv, NEW c \in Caller, ensure_refresh(c)
    PROVE  Inv'
<1> DEFINE k == caller[c].key
<1>1. TypeOK /\ Links /\ SingleFlight
  BY Zenon DEF Inv, SingleFlight
<1>2. caller[c] \in CallerState /\ caller[c].pc = "ensure" /\ k \in Key
  BY <1>1, Zenon DEF TypeOK, Links, ensure_refresh
<1>3. /\ entries' = entries /\ older' = older /\ global_generation' = global_generation
      /\ key_generation' = key_generation /\ worker' = worker
  BY Zenon DEF ensure_refresh
<1>4. CASE inflight[k] # None
  <2> DEFINE r == IF caller[c].hit THEN Idle ELSE [caller[c] EXCEPT !.pc = "waiting", !.rx = inflight[k]]
  <2>1. inflight[k] \in Task
    BY <1>1, <1>2, <1>4, Zenon DEF TypeOK
  <2>2. r \in CallerState
    BY <1>2, <2>1, Zenon DEF CallerState, Idle
  <2>3. r.pc \in {"idle", "waiting"} /\ (r.pc = "waiting" => r.key = k /\ r.rx \in Task)
    BY <1>2, <2>1, Zenon DEF CallerState, Idle
  <2>4. caller' = [caller EXCEPT ![c] = r] /\ inflight' = inflight /\ task' = task
    BY <1>4, Zenon DEF ensure_refresh, Subscribe
  <2>5. older' \subseteq Items' \X Items'
    BY <1>1, <1>3, <2>4, Zenon DEF TypeOK, Items, Stamped
  <2> HIDE DEF r
  <2>6. QED
    BY <1>2, <1>3, <2>2, <2>3, <2>4, <2>5, CallerOnlyInv, Zenon
<1>5. CASE inflight[k] = None
  <2>1. PICK t \in Task :
            /\ Reusable(t)
            /\ inflight' = [inflight EXCEPT ![k] = t]
            /\ task' = [task EXCEPT ![t] = [Ended EXCEPT !.pc = "starting", !.key = k]]
            /\ caller' = [caller EXCEPT ![c].pc = "capture_global", ![c].rx = t]
    BY <1>5, Zenon DEF ensure_refresh
  <2> DEFINE r == [Ended EXCEPT !.pc = "starting", !.key = k]
             q == [caller[c] EXCEPT !.pc = "capture_global", !.rx = t]
  <2>2. r \in TaskState /\ r.pc = "starting" /\ r.key = k /\ r.void = "no" /\ r.generation = <<0, 0>>
    BY <1>2, Zenon DEF Ended, TaskState, NoResult, Fetched, Void
  <2>3. q \in CallerState /\ q.pc = "capture_global" /\ q.rx = t /\ q.key = k
    BY <1>2, Zenon DEF CallerState
  <2>4. task' = [task EXCEPT ![t] = r] /\ caller' = [caller EXCEPT ![c] = q]
    BY <1>1, <2>1, Zenon DEF TypeOK
  <2> HIDE DEF r, q
  <2>5. /\ task' \in [Task -> TaskState] /\ caller' \in [Caller -> CallerState]
        /\ inflight' \in [Key -> Task \cup {None}]
    <3>1. inflight' \in [Key -> Task \cup {None}]
      BY <1>1, <2>1, Zenon DEF TypeOK
    <3>2. QED
      BY <1>1, <2>2, <2>3, <2>4, <3>1, Zenon DEF TypeOK
  <2>6. /\ \A u \in Task : task'[u] = IF u = t THEN r ELSE task[u]
        /\ \A d \in Caller : caller'[d] = IF d = c THEN q ELSE caller[d]
        /\ \A x \in Key : inflight'[x] = IF x = k THEN t ELSE inflight[x]
    BY <1>1, <2>1, <2>4, Zenon DEF TypeOK
  <2>7. task[t].pc = "idle" /\ \A d \in Caller : caller[d].rx # t
    BY <2>1, Zenon DEF Reusable
  <2>8. Stamped' = Stamped
    BY <2>2, <2>6, <2>7, Zenon DEF Stamped
  <2>9. TypeOK'
    BY <1>1, <1>3, <2>5, <2>8, Zenon DEF TypeOK, Items
  <2>10. SingleFlight'
    <3> SUFFICES ASSUME NEW u \in Task, NEW x \in Key
                 PROVE  inflight'[x] = u <=> task'[u].pc # "idle" /\ task'[u].key = x
      BY <2>9, Zenon DEF SingleFlight
    <3>1. inflight[x] = u <=> task[u].pc # "idle" /\ task[u].key = x
      BY <1>1, Zenon DEF SingleFlight
    <3>2. QED
      BY <1>2, <1>5, <2>2, <2>6, <2>7, <3>1, NoneAssumption, ZenonT(60)
  <2>11. Links'
    <3>1. \A d \in Caller : Capturing(d)' => d = c \/ (Capturing(d) /\ caller[d].rx # t)
      BY <2>6, <2>7, Zenon DEF Capturing
    <3>2. QED
      BY <1>1, <1>2, <2>2, <2>3, <2>6, <2>7, <3>1 DEF Links
  <2>12. \A u \in Task : VoidInv(u)'
    <3> SUFFICES ASSUME NEW u \in Task PROVE VoidInv(u)'
      BY Zenon
    <3>1. VoidInv(u) /\ 0 <= global_generation
      BY <1>1 DEF Inv, TypeOK
    <3>2. CASE u = t
      BY <1>3, <2>2, <2>6, <3>1, <3>2 DEF VoidInv
    <3>3. CASE u # t
      BY <1>3, <2>6, <3>1, <3>3, Zenon DEF VoidInv
    <3>4. QED
      BY <3>2, <3>3, Zenon
  <2>13. QED
    BY <1>3, <2>10, <2>11, <2>12, Zenon DEF Inv, EntriesInv, VoidedIsDiscarded
<1>6. QED
  BY <1>4, <1>5, Zenon

\* A step of a task that owns its key and keeps it, with the conjuncts the
\* step itself has to answer for.
LEMMA TaskOnlyInv ==
    ASSUME Inv, NEW t \in Task, NEW r \in TaskState, task' = [task EXCEPT ![t] = r],
           task[t].pc # "idle", r.pc # "idle", r.key = task[t].key,
           \A c \in Caller : Capturing(c)' => Capturing(c) /\ caller'[c].rx = caller[c].rx
                                                           /\ caller'[c].key = caller[c].key,
           \A c \in Caller : Capturing(c)' /\ caller'[c].rx = t => r.pc = "starting",
           \A c \in Caller : /\ caller'[c].pc # "idle" => caller'[c].key \in Key
                             /\ caller'[c].pc = "waiting" => caller'[c].rx \in Task,
           caller' \in [Caller -> CallerState],
           DOMAIN entries' \subseteq Key, \A x \in DOMAIN entries' : entries'[x] \in Entry,
           older' \subseteq Items' \X Items', EntriesInv', VoidedIsDiscarded', VoidInv(t)',
           UNCHANGED <<inflight, global_generation, key_generation, worker>>
    PROVE  Inv'
<1>1. TypeOK /\ Links /\ SingleFlight
  BY Zenon DEF Inv, SingleFlight
<1>2. TypeOK'
  BY <1>1, Zenon DEF TypeOK
<1>3. \A u \in Task : task'[u] = IF u = t THEN r ELSE task[u]
  BY <1>1, Zenon DEF TypeOK
<1>4. SingleFlight'
  <2> SUFFICES ASSUME NEW u \in Task, NEW x \in Key
               PROVE  inflight'[x] = u <=> task'[u].pc # "idle" /\ task'[u].key = x
    BY <1>2, Zenon DEF SingleFlight
  <2>1. inflight[x] = u <=> task[u].pc # "idle" /\ task[u].key = x
    BY <1>1 DEF SingleFlight
  <2>2. QED
    BY <1>3, <2>1, Zenon
<1>5. Links'
  <2>1. \A u \in Task : task'[u].key = task[u].key /\ (task'[u].pc # "idle" => task[u].pc # "idle")
    BY <1>3, Zenon
  <2>2. \A c \in Caller : Capturing(c)' => task'[caller'[c].rx].pc = "starting"
    BY <1>1, <1>3 DEF Links
  <2>3. QED
    BY <1>1, <2>1, <2>2 DEF Links
<1>6. \A u \in Task : VoidInv(u)'
  <2> SUFFICES ASSUME NEW u \in Task, u # t PROVE VoidInv(u)'
    BY Zenon
  <2>1. VoidInv(u)
    BY Zenon DEF Inv
  <2>2. QED
    BY <1>3, <2>1, Zenon DEF VoidInv
<1>7. QED
  BY <1>4, <1>5, <1>6, Zenon DEF Inv

\* The two reads of generation() and the spawn.
LEMMA CaptureInv ==
    ASSUME Inv, NEW c \in Caller, CaptureGlobal(c) \/ CaptureKey(c)
    PROVE  Inv'
<1>1. TypeOK /\ Links /\ SingleFlight
  BY Zenon DEF Inv, SingleFlight
<1>2. caller[c] \in CallerState
  BY <1>1, Zenon DEF TypeOK
<1>0. Capturing(c) /\ caller[c].rx \in Task
  BY <1>1, Zenon DEF CaptureGlobal, CaptureKey, Capturing, Links
<1> PICK t \in Task : t = caller[c].rx
  BY <1>0, Zenon
<1>3. Capturing(c) /\ task[t].pc = "starting" /\ task[t].key = caller[c].key /\ caller[c].key \in Key
  BY <1>0, <1>1, Zenon DEF Capturing, Links
<1>4. task[t] \in TaskState /\ VoidInv(t) /\ task[t].generation \in Nat \X Nat
  BY <1>1, <1>3, Zenon DEF Inv, TypeOK, TaskState
<1>5. /\ entries' = entries /\ older' = older /\ global_generation' = global_generation
      /\ key_generation' = key_generation /\ worker' = worker /\ inflight' = inflight
  BY Zenon DEF CaptureGlobal, CaptureKey
<1>6. global_generation \in Nat /\ key_generation[task[t].key] \in Nat
  BY <1>1, <1>3, Zenon DEF TypeOK
<1>7. EntriesInv' /\ VoidedIsDiscarded' /\ DOMAIN entries' \subseteq Key /\ \A x \in DOMAIN entries' : entries'[x] \in Entry
  BY <1>1, <1>5, Zenon DEF Inv, EntriesInv, VoidedIsDiscarded, TypeOK
<1>8. CASE CaptureGlobal(c)
  <2> DEFINE r == [task[t] EXCEPT !.generation = <<global_generation, 0>>]
             q == [caller[c] EXCEPT !.pc = "capture_key"]
  <2>1. /\ r \in TaskState /\ r.pc = "starting" /\ r.key = task[t].key
        /\ r.generation = <<global_generation, 0>> /\ r.void = task[t].void
    BY <1>3, <1>4, <1>6, Zenon DEF TaskState
  <2>2. q \in CallerState /\ q.pc = "capture_key" /\ q.key = caller[c].key /\ q.rx = t
    BY <1>2, Zenon DEF CallerState
  <2>3. task' = [task EXCEPT ![t] = r] /\ caller' = [caller EXCEPT ![c] = q]
    BY <1>1, <1>8, Zenon DEF TypeOK, CaptureGlobal
  <2> HIDE DEF r, q
  <2>4. /\ caller' \in [Caller -> CallerState]
        /\ \A d \in Caller : caller'[d] = IF d = c THEN q ELSE caller[d]
    BY <1>1, <2>2, <2>3, Zenon DEF TypeOK
  <2>5. task'[t] = r /\ Stamped' = Stamped
    BY <1>1, <1>3, <2>1, <2>3, Zenon DEF TypeOK, Stamped
  <2>6. VoidInv(t)'
    BY <1>3, <1>4, <1>5, <1>6, <2>1, <2>5 DEF VoidInv
  <2>7. older' \subseteq Items' \X Items'
    BY <1>1, <1>5, <2>5, Zenon DEF TypeOK, Items
  <2>8. \A d \in Caller : Capturing(d)' => Capturing(d) /\ caller'[d].rx = caller[d].rx
                                                        /\ caller'[d].key = caller[d].key
    BY <1>3, <2>2, <2>4, Zenon DEF Capturing
  <2>9. \A d \in Caller : /\ caller'[d].pc # "idle" => caller'[d].key \in Key
                          /\ caller'[d].pc = "waiting" => caller'[d].rx \in Task
    BY <1>1, <1>3, <2>2, <2>4, Zenon DEF Links
  <2>10. task[t].pc # "idle" /\ r.pc # "idle"
    BY <1>3, <2>1, Zenon
  <2>11. QED
    BY <1>5, <1>7, <2>1, <2>10, <2>3, <2>4, <2>6, <2>7, <2>8, <2>9, TaskOnlyInv, Zenon
<1>9. CASE CaptureKey(c)
  <2> DEFINE r == [task[t] EXCEPT !.pc = "fetching",
                                  !.generation = <<@[1], key_generation[caller[c].key]>>]
             q == IF caller[c].hit THEN Idle ELSE [caller[c] EXCEPT !.pc = "waiting", !.rx = t]
  <2>1. /\ r \in TaskState /\ r.pc = "fetching" /\ r.key = task[t].key /\ r.void = task[t].void
        /\ r.generation[1] = task[t].generation[1] /\ r.generation[2] = key_generation[task[t].key]
    BY <1>3, <1>4, <1>6, Zenon DEF TaskState
  <2>2. q \in CallerState /\ q.pc \in {"idle", "waiting"} /\ (q.pc = "waiting" => q.key = caller[c].key /\ q.rx = t)
    BY <1>2, <1>3, Zenon DEF CallerState, Idle
  <2>3. task' = [task EXCEPT ![t] = r] /\ caller' = [caller EXCEPT ![c] = q]
    BY <1>1, <1>9, Zenon DEF TypeOK, CaptureKey, Subscribe
  <2> HIDE DEF r, q
  <2>4. /\ caller' \in [Caller -> CallerState]
        /\ \A d \in Caller : caller'[d] = IF d = c THEN q ELSE caller[d]
    BY <1>1, <2>2, <2>3, Zenon DEF TypeOK
  <2>5. task'[t] = r /\ Stamped' = Stamped
    BY <1>1, <1>3, <2>1, <2>3, Zenon DEF TypeOK, Stamped
  <2>6. VoidInv(t)'
    BY <1>3, <1>4, <1>5, <1>6, <2>1, <2>5 DEF VoidInv
  <2>7. older' \subseteq Items' \X Items'
    BY <1>1, <1>5, <2>5, Zenon DEF TypeOK, Items
  <2>8. \A d \in Caller : Capturing(d)' => d # c /\ Capturing(d) /\ caller'[d].rx = caller[d].rx
                                                 /\ caller'[d].key = caller[d].key
    BY <1>3, <2>2, <2>4, Zenon DEF Capturing
  <2>9. \A d \in Caller : /\ caller'[d].pc # "idle" => caller'[d].key \in Key
                          /\ caller'[d].pc = "waiting" => caller'[d].rx \in Task
    BY <1>1, <1>3, <2>2, <2>4, Zenon DEF Links
  <2>10. \A d \in Caller : Capturing(d)' => caller'[d].rx # t
    BY <1>1, <1>3, <2>8, Zenon DEF Links
  <2>11. QED
    BY <1>3, <1>5, <1>7, <2>1, <2>3, <2>4, <2>6, <2>7, <2>8, <2>9, <2>10, TaskOnlyInv, Zenon
<1>10. QED
  BY <1>8, <1>9, Zenon

\* A step of a running task: no caller is about to start it.
LEMMA RunStepInv ==
    ASSUME Inv, NEW t \in Task, NEW r \in TaskState, task' = [task EXCEPT ![t] = r],
           task[t].pc \notin {"idle", "starting"}, r.pc # "idle", r.key = task[t].key,
           DOMAIN entries' \subseteq Key, \A x \in DOMAIN entries' : entries'[x] \in Entry,
           older' \subseteq Items' \X Items', EntriesInv', VoidedIsDiscarded', VoidInv(t)',
           UNCHANGED <<inflight, global_generation, key_generation, worker, caller>>
    PROVE  Inv'
<1>1. TypeOK /\ Links
  BY Zenon DEF Inv, SingleFlight
<1>2. \A c \in Caller : Capturing(c)' => Capturing(c) /\ caller'[c].rx = caller[c].rx
                                                      /\ caller'[c].key = caller[c].key
  BY Zenon DEF Capturing
<1>3. \A c \in Caller : Capturing(c)' => caller'[c].rx # t
  BY <1>1, <1>2, Zenon DEF Links
<1>4. \A c \in Caller : /\ caller'[c].pc # "idle" => caller'[c].key \in Key
                        /\ caller'[c].pc = "waiting" => caller'[c].rx \in Task
  BY <1>1, Zenon DEF Links
<1>5. caller' \in [Caller -> CallerState]
  BY <1>1, Zenon DEF TypeOK
<1>6. QED
  BY <1>2, <1>3, <1>4, <1>5, TaskOnlyInv, Zenon

\* A step of a running task that leaves the entries alone and reads no clock.
LEMMA QuietStepInv ==
    ASSUME Inv, NEW t \in Task, NEW r \in TaskState, task' = [task EXCEPT ![t] = r],
           task[t].pc \notin {"idle", "starting", "store"}, r.pc \notin {"idle", "store"},
           r.key = task[t].key, VoidInv(t)',
           UNCHANGED <<entries, older, inflight, global_generation, key_generation, worker, caller>>
    PROVE  Inv'
<1>1. TypeOK
  BY Zenon DEF Inv, SingleFlight
<1>2. Stamped' = Stamped
  BY <1>1, Zenon DEF TypeOK, Stamped
<1>3. older' \subseteq Items' \X Items'
  BY <1>1, <1>2, Zenon DEF TypeOK, Items
<1>4. /\ EntriesInv' /\ VoidedIsDiscarded'
      /\ DOMAIN entries' \subseteq Key /\ \A x \in DOMAIN entries' : entries'[x] \in Entry
  BY <1>1, Zenon DEF Inv, EntriesInv, VoidedIsDiscarded, TypeOK
<1>5. QED
  BY <1>3, <1>4, RunStepInv, Zenon

\* The fetch and the comparison of generations.
LEMMA FetchInv ==
    ASSUME Inv, NEW t \in Task, Fetch(t) \/ FetchPanics(t) \/ LoadGlobal(t) \/ Compare(t)
    PROVE  Inv'
<1>1. TypeOK /\ VoidInv(t)
  BY Zenon DEF Inv, SingleFlight
<1>2. task[t] \in TaskState /\ task[t].generation \in Nat \X Nat /\ global_generation \in Nat
  BY <1>1, Zenon DEF TypeOK, TaskState
<1>3. UNCHANGED <<entries, older, inflight, global_generation, key_generation, worker, caller>>
  BY Zenon DEF Fetch, FetchPanics, LoadGlobal, Compare
<1>4. \A r : task' = [task EXCEPT ![t] = r] => task'[t] = r
  BY <1>1, Zenon DEF TypeOK
<1>5. CASE Fetch(t)
  <2>1. PICK result \in Fetched : task' = [task EXCEPT ![t].pc = "load_global", ![t].result = result]
    BY <1>5, Zenon DEF Fetch
  <2> DEFINE r == [task[t] EXCEPT !.pc = "load_global", !.result = result]
  <2>2. /\ r \in TaskState /\ r.pc = "load_global" /\ r.key = task[t].key
        /\ r.generation = task[t].generation /\ r.void = task[t].void
    BY <1>2, Zenon DEF TaskState
  <2>3. task[t].pc = "fetching" /\ task' = [task EXCEPT ![t] = r] /\ task'[t] = r
    BY <1>1, <1>4, <1>5, <2>1, Zenon DEF Fetch, TypeOK
  <2> HIDE DEF r
  <2>4. VoidInv(t)'
    BY <1>1, <1>3, <2>2, <2>3, Zenon DEF VoidInv
  <2>5. QED
    BY <1>3, <2>2, <2>3, <2>4, QuietStepInv, Zenon
<1>6. CASE FetchPanics(t)
  <2> DEFINE r == [task[t] EXCEPT !.pc = "guard", !.sent = "closed"]
  <2>1. /\ r \in TaskState /\ r.pc = "guard" /\ r.key = task[t].key
        /\ r.generation = task[t].generation /\ r.void = task[t].void
    BY <1>2, Zenon DEF TaskState
  <2>2. task[t].pc = "fetching" /\ task' = [task EXCEPT ![t] = r] /\ task'[t] = r
    BY <1>1, <1>4, <1>6, Zenon DEF FetchPanics, TypeOK
  <2> HIDE DEF r
  <2>3. VoidInv(t)'
    BY <1>1, <1>3, <2>1, <2>2, Zenon DEF VoidInv
  <2>4. QED
    BY <1>3, <2>1, <2>2, <2>3, QuietStepInv, Zenon
<1>7. CASE LoadGlobal(t)
  <2> DEFINE r == [task[t] EXCEPT !.pc = "load_key", !.seen = global_generation]
  <2>1. /\ r \in TaskState /\ r.pc = "load_key" /\ r.key = task[t].key
        /\ r.generation = task[t].generation /\ r.void = task[t].void /\ r.seen = global_generation
    BY <1>2, Zenon DEF TaskState
  <2>2. task[t].pc = "load_global" /\ task' = [task EXCEPT ![t] = r] /\ task'[t] = r
    BY <1>1, <1>4, <1>7, Zenon DEF LoadGlobal, TypeOK
  <2> HIDE DEF r
  <2>3. VoidInv(t)'
    BY <1>1, <1>3, <2>1, <2>2, Zenon DEF VoidInv
  <2>4. QED
    BY <1>3, <2>1, <2>2, <2>3, QuietStepInv, Zenon
<1>8. CASE Compare(t)
  <2> DEFINE same == <<task[t].seen, key_generation[task[t].key]>> = task[t].generation
             r == IF same THEN [task[t] EXCEPT !.pc = "apply"]
                  ELSE [task[t] EXCEPT !.pc = "guard", !.sent = "invalidated"]
  <2>1. /\ r \in TaskState /\ r.pc = (IF same THEN "apply" ELSE "guard") /\ r.key = task[t].key
        /\ r.generation = task[t].generation /\ r.void = task[t].void
    BY <1>2, Zenon DEF TaskState
  <2>2. task[t].pc = "load_key" /\ task' = [task EXCEPT ![t] = r] /\ task'[t] = r
    BY <1>1, <1>4, <1>8, Zenon DEF Compare, TypeOK
  <2>3. same => task[t].void \notin {"key", "all"}
    <3>1. task[t].key \in Key /\ key_generation[task[t].key] \in Nat
      BY <1>1, <2>2, Zenon DEF Inv, Links, TypeOK
    <3>2. task[t].seen \in Nat
      BY <1>2, Zenon DEF TaskState
    <3>3. QED
      BY <1>1, <1>2, <2>2, <3>1, <3>2 DEF VoidInv
  <2> HIDE DEF r, same
  <2>4. VoidInv(t)'
    BY <1>1, <1>3, <2>1, <2>2, <2>3, Zenon DEF VoidInv
  <2>5. r.pc \notin {"idle", "store"}
    BY <2>1, Zenon
  <2>6. QED
    BY <1>3, <2>1, <2>2, <2>4, <2>5, QuietStepInv, Zenon
<1>9. QED
  BY <1>5, <1>6, <1>7, <1>8, Zenon

\* The clock is read for the entry, or the error is noted.
LEMMA ApplyInv ==
    ASSUME Inv, NEW t \in Task, Apply(t)
    PROVE  Inv'
<1>1. TypeOK /\ VoidInv(t)
  BY Zenon DEF Inv, SingleFlight
<1>2. task[t] \in TaskState /\ task[t].pc = "apply"
  BY <1>1, Zenon DEF TypeOK, Apply
<1>3. UNCHANGED <<entries, inflight, global_generation, key_generation, worker, caller>>
  BY Zenon DEF Apply, mark_error
<1>4. /\ EntriesInv' /\ VoidedIsDiscarded'
      /\ DOMAIN entries' \subseteq Key /\ \A x \in DOMAIN entries' : entries'[x] \in Entry
  BY <1>1, <1>3, Zenon DEF Inv, EntriesInv, VoidedIsDiscarded, TypeOK
<1>5. CASE task[t].result.kind = "error"
  <2> DEFINE r == [task[t] EXCEPT !.pc = "guard", !.sent = "error"]
  <2>1. /\ r \in TaskState /\ r.pc = "guard" /\ r.key = task[t].key
        /\ r.generation = task[t].generation /\ r.void = task[t].void
    BY <1>2, Zenon DEF TaskState
  <2>2. task' = [task EXCEPT ![t] = r] /\ task'[t] = r /\ Lookup(task[t].key)
    BY <1>1, <1>5, Zenon DEF Apply, mark_error, TypeOK
  <2> HIDE DEF r
  <2>3. VoidInv(t)'
    BY <1>1, <1>3, <2>1, <2>2, Zenon DEF VoidInv
  <2>4. Items' = Items
    BY <1>1, <1>2, <1>3, <2>1, <2>2, Zenon DEF Items, Stamped, TypeOK
  <2>5. older' \subseteq Items' \X Items'
    BY <1>1, <2>2, <2>4, LookupOrder, Zenon
  <2>6. QED
    BY <1>2, <1>3, <1>4, <2>1, <2>2, <2>3, <2>5, RunStepInv, Zenon
<1>6. CASE task[t].result.kind # "error"
  <2> DEFINE r == [task[t] EXCEPT !.pc = "store"]
  <2>1. /\ r \in TaskState /\ r.pc = "store" /\ r.key = task[t].key
        /\ r.generation = task[t].generation /\ r.void = task[t].void
    BY <1>2, Zenon DEF TaskState
  <2>2. task' = [task EXCEPT ![t] = r] /\ task'[t] = r /\ older' = Touch(t)
    BY <1>1, <1>6, Zenon DEF Apply, TypeOK
  <2> HIDE DEF r
  <2>3. VoidInv(t)'
    BY <1>1, <1>2, <1>3, <2>1, <2>2, Zenon DEF VoidInv
  <2>4. Items' = Items \cup {t}
    BY <1>1, <1>3, <2>1, <2>2, Zenon DEF Items, Stamped, TypeOK
  <2>5. older' \subseteq Items' \X Items'
    <3>1. older \subseteq Items \X Items
      BY <1>1, Zenon DEF TypeOK
    <3>2. QED
      BY <2>2, <2>4, <3>1 DEF Touch, Without
  <2>6. QED
    BY <1>2, <1>3, <1>4, <2>1, <2>2, <2>3, <2>5, RunStepInv, Zenon
<1>7. QED
  BY <1>5, <1>6, Zenon

\* The store under the lock, which may refuse a rollback or a conflict.
LEMMA StoreInv ==
    ASSUME Inv, NEW t \in Task, Store(t)
    PROVE  Inv'
<1>1. TypeOK /\ VoidInv(t) /\ EntriesInv /\ VoidedIsDiscarded
  BY Zenon DEF Inv, SingleFlight
<1>2. task[t] \in TaskState /\ task[t].pc = "store" /\ task[t].result \in Fetched /\ task[t].void \in Void
  BY <1>1, Zenon DEF TypeOK, TaskState, Store
<1>3. task[t].key \in Key /\ task[t].void \notin {"key", "all"}
  BY <1>1, <1>2, Zenon DEF Inv, Links, VoidInv
<1>4. UNCHANGED <<inflight, global_generation, key_generation, worker, caller>>
  BY Zenon DEF Store
<1> DEFINE r == [task[t] EXCEPT !.pc = "guard", !.sent = "ok"]
<1>5. /\ r \in TaskState /\ r.pc = "guard" /\ r.key = task[t].key
      /\ r.generation = task[t].generation /\ r.void = task[t].void
  BY <1>2, Zenon DEF TaskState
<1>6. task' = [task EXCEPT ![t] = r] /\ task'[t] = r
  BY <1>1, Zenon DEF Store, TypeOK
<1> HIDE DEF r
<1>7. VoidInv(t)'
  BY <1>1, <1>4, <1>5, <1>6, Zenon DEF VoidInv
<1>8. Stamped' = Stamped \ {t} /\ t \in Stamped
  BY <1>1, <1>2, <1>5, <1>6, Zenon DEF Stamped, TypeOK
<1>9. Items \ {t} \subseteq DOMAIN entries \cup Stamped' /\ older \subseteq Items \X Items
  BY <1>1, <1>8, Zenon DEF Items, TypeOK
<1> PICK k \in Key : k = task[t].key
  BY <1>3, Zenon
<1> DEFINE Good == /\ DOMAIN entries' \subseteq Key /\ \A x \in DOMAIN entries' : entries'[x] \in Entry
                   /\ older' \subseteq Items' \X Items'
                   /\ EntriesInv' /\ VoidedIsDiscarded'
<1>10. ASSUME NEW entry \in Entry, entry.version # Unversioned => entry.value # None,
              entry.void = task[t].void, Insert(t, k, entry)
       PROVE  Good
  BY <1>1, <1>3, <1>8, <1>10, InsertInv, Zenon
<1>11. ASSUME entries' = entries, older' \subseteq (DOMAIN entries \cup Stamped') \X (DOMAIN entries \cup Stamped')
       PROVE  Good
  BY <1>1, <1>11, Zenon DEF Items, TypeOK, EntriesInv, VoidedIsDiscarded
<1>12. Good
  <2>1. CASE task[t].result.kind = "found"
    <3> DEFINE f == task[t].result
               e == [value |-> f.value, version |-> f.version, void |-> task[t].void]
    <3>1. f.value \in Value /\ f.version \in Version \cup {Unversioned} /\ f.value # None
      BY <1>2, <2>1, NoneAssumption, Zenon DEF Fetched
    <3>2. e \in Entry /\ e.value # None /\ e.void = task[t].void
      BY <1>2, <3>1, Zenon DEF Entry
    <3>3. store(t, k, f, task[t].void)
      BY <2>1, Zenon DEF Store
    <3>4. CASE Insert(t, k, e)
      BY <1>10, <3>2, <3>4, Zenon
    <3>5. CASE older' = Without(older, t) /\ entries' = entries
      <4>1. older' \subseteq (Items \ {t}) \X (Items \ {t})
        BY <1>9, <3>5, Zenon DEF Without
      <4>2. QED
        BY <1>9, <1>11, <3>5, <4>1, Zenon
    <3>6. CASE older' = TouchAs(t, k) /\ entries' = entries /\ k \in DOMAIN entries
      <4>1. older' \subseteq ((Items \ {t}) \cup {k}) \X ((Items \ {t}) \cup {k})
        BY <1>9, <3>6 DEF Without, TouchAs
      <4>2. QED
        BY <1>9, <1>11, <3>6, <4>1, Zenon
    <3>7. QED
      BY <3>3, <3>4, <3>5, <3>6, Zenon DEF store
  <2>2. CASE task[t].result.kind = "missing"
    <3> DEFINE e == [value |-> None, version |-> Unversioned, void |-> task[t].void]
    <3>1. e \in Entry /\ e.version = Unversioned /\ e.void = task[t].void
      BY <1>2, Zenon DEF Entry
    <3>2. Insert(t, k, e)
      BY <2>2, Zenon DEF Store, store_missing
    <3>3. QED
      BY <1>10, <3>1, <3>2, Zenon
  <2>3. QED
    BY <2>1, <2>2, Zenon DEF Store
<1>13. QED
  BY <1>2, <1>4, <1>5, <1>6, <1>7, <1>12, RunStepInv, Zenon

\* The scope guard frees the key of the task that held it.
LEMMA GuardInv ==
    ASSUME Inv, NEW t \in Task, Guard(t)
    PROVE  Inv'
<1>1. TypeOK /\ Links /\ SingleFlight
  BY Zenon DEF Inv, SingleFlight
<1>2. task[t] \in TaskState /\ task[t].pc = "guard" /\ task[t].key \in Key
  BY <1>1, Zenon DEF TypeOK, Links, Guard
<1>3. UNCHANGED <<entries, older, global_generation, key_generation, worker, caller>>
  BY Zenon DEF Guard
<1> DEFINE r == [Ended EXCEPT !.sent = task[t].sent]
<1>4. r \in TaskState /\ r.pc = "idle" /\ r.void = "no" /\ r.generation = <<0, 0>>
  BY <1>2, Zenon DEF Ended, TaskState, NoResult, Fetched, Void
<1>5. task' = [task EXCEPT ![t] = r] /\ inflight' = [inflight EXCEPT ![task[t].key] = None]
  BY Zenon DEF Guard
<1> HIDE DEF r
<1>6. /\ \A u \in Task : task'[u] = IF u = t THEN r ELSE task[u]
      /\ \A x \in Key : inflight'[x] = IF x = task[t].key THEN None ELSE inflight[x]
  BY <1>1, <1>5, Zenon DEF TypeOK
<1>7. Stamped' = Stamped
  BY <1>2, <1>4, <1>6, Zenon DEF Stamped
<1>8. TypeOK'
  <2>1. task' \in [Task -> TaskState] /\ inflight' \in [Key -> Task \cup {None}]
    BY <1>1, <1>4, <1>5, Zenon DEF TypeOK
  <2>2. QED
    BY <1>1, <1>3, <1>7, <2>1, Zenon DEF TypeOK, Items
<1>9. SingleFlight'
  <2> SUFFICES ASSUME NEW u \in Task, NEW x \in Key
               PROVE  inflight'[x] = u <=> task'[u].pc # "idle" /\ task'[u].key = x
    BY <1>8, Zenon DEF SingleFlight
  <2>1. /\ inflight[x] = u <=> task[u].pc # "idle" /\ task[u].key = x
        /\ inflight[x] = t <=> task[t].pc # "idle" /\ task[t].key = x
    BY <1>1, Zenon DEF SingleFlight
  <2>2. u # None
    BY NoneAssumption, Zenon
  <2>3. QED
    BY <1>2, <1>4, <1>6, <2>1, <2>2, Zenon
<1>10. Links'
  <2>1. \A c \in Caller : Capturing(c)' <=> Capturing(c)
    BY <1>3, Zenon DEF Capturing
  <2>2. \A c \in Caller : Capturing(c) => caller[c].rx # t
    BY <1>1, <1>2, Zenon DEF Links
  <2>3. QED
    BY <1>1, <1>3, <1>4, <1>6, <2>1, <2>2, Zenon DEF Links
<1>11. \A u \in Task : VoidInv(u)'
  <2> SUFFICES ASSUME NEW u \in Task PROVE VoidInv(u)'
    BY Zenon
  <2>1. VoidInv(u) /\ 0 <= global_generation
    BY <1>1 DEF Inv, TypeOK
  <2>2. QED
    BY <1>3, <1>4, <1>6, <2>1 DEF VoidInv
<1>12. QED
  BY <1>3, <1>9, <1>10, <1>11, Zenon DEF Inv, EntriesInv, VoidedIsDiscarded

\* The parts of a task's record that invalidation does not touch.
SameTask(u) ==
    /\ task'[u] \in TaskState
    /\ task'[u].pc = task[u].pc /\ task'[u].key = task[u].key
    /\ task'[u].generation = task[u].generation /\ task'[u].seen = task[u].seen

\* A step of an invalidation that voids tasks.
LEMMA VoidStepInv ==
    ASSUME Inv, \A u \in Task : SameTask(u), task' = [u \in Task |-> task'[u]],
           global_generation' \in Nat, key_generation' \in [Key -> Nat], worker' \in [Worker -> WorkerState],
           \A u \in Task : VoidInv(u)', UNCHANGED <<entries, older, inflight, caller>>
    PROVE  Inv'
<1>1. TypeOK /\ Links /\ SingleFlight
  BY Zenon DEF Inv, SingleFlight
<1>2. task' \in [Task -> TaskState] /\ Stamped' = Stamped
  BY Zenon DEF SameTask, Stamped
<1>3. TypeOK'
  BY <1>1, <1>2, Zenon DEF TypeOK, Items
<1>4. SingleFlight'
  BY <1>1, <1>3 DEF SingleFlight, SameTask
<1>5. \A c \in Caller : Capturing(c)' <=> Capturing(c)
  BY Zenon DEF Capturing
<1>6. Links'
  BY <1>1, <1>5, Zenon DEF Links, SameTask
<1>7. QED
  BY <1>4, <1>6, Zenon DEF Inv, EntriesInv, VoidedIsDiscarded

\* Both invalidations begin: the generation is bumped and the tasks are voided.
LEMMA InvalidateInv ==
    ASSUME Inv, NEW w \in Worker, (\E k \in Key : invalidate(w, k)) \/ invalidate_all(w)
    PROVE  Inv'
<1>1. TypeOK
  BY Zenon DEF Inv, SingleFlight
<1>2. \A u \in Task : task[u] \in TaskState /\ task[u].generation \in Nat \X Nat /\ VoidInv(u)
                      /\ (task[u].pc # "idle" => task[u].key \in Key) /\ task[u].void \in Void
  BY <1>1, Zenon DEF Inv, Links, TypeOK, TaskState
<1>3. UNCHANGED <<entries, older, inflight, caller>>
  BY Zenon DEF invalidate, invalidate_all
<1>4. ASSUME NEW k \in Key, invalidate(w, k)
      PROVE  Inv'
  <2>1. /\ key_generation' = [key_generation EXCEPT ![k] = @ + 1]
        /\ global_generation' = global_generation /\ task' = [u \in Task |-> Voided(u, {k}, "key")]
        /\ worker' = [worker EXCEPT ![w] = [pc |-> "remove", key |-> k]]
    BY <1>4, Zenon DEF invalidate
  <2>2. \A x \in Key : key_generation'[x] = IF x = k THEN key_generation[x] + 1 ELSE key_generation[x]
    BY <1>1, <2>1, Zenon DEF TypeOK
  <2>3. key_generation \in [Key -> Nat] /\ key_generation' \in [Key -> Nat] /\ global_generation' \in Nat
    BY <1>1, <2>1, <2>2 DEF TypeOK
  <2>4. worker' \in [Worker -> WorkerState]
    BY <1>1, <2>1, Zenon DEF TypeOK, WorkerState
  <2>5. task' = [u \in Task |-> task'[u]]
    BY <2>1, Zenon
  <2>6. ASSUME NEW u \in Task
        PROVE  SameTask(u) /\ VoidInv(u)'
    <3> DEFINE early == task[u].pc \in {"fetching", "load_global"}
               begun == task[u].key = k /\ (early \/ task[u].pc \in {"load_key", "apply", "store"})
    <3>1. CASE ~begun
      <4>1. task'[u] = task[u]
        BY <2>1, <3>1, Zenon DEF Voided
      <4>2. task[u].pc # "idle" => key_generation[task[u].key] <= key_generation'[task[u].key]
                                   /\ key_generation[task[u].key] \in Nat
        BY <1>2, <2>2, <2>3
      <4>3. QED
        BY <1>2, <2>1, <2>3, <4>1, <4>2 DEF SameTask, VoidInv
    <3>2. CASE begun
      <4>1. PICK v : /\ task'[u] = [task[u] EXCEPT !.void = v]
                     /\ v = CASE task[u].void \in {"no", "reset"} /\ ~early -> "late"
                              [] task[u].void = "reset" /\ early -> "mixed"
                              [] task[u].void = "no" /\ early -> "key"
                              [] task[u].void = "all" -> "mixed"
                              [] task[u].void \in {"key", "mixed", "late"} -> task[u].void
        BY <1>2, <2>1, <3>2, Zenon DEF Voided, Void
      <4>2. v \in Void /\ v # "all" /\ (v = "key" => early \/ task[u].void = "key") /\ (v = "no" => FALSE)
        BY <1>2, <4>1, Zenon DEF Void
      <4>3. SameTask(u) /\ task'[u].void = v
        BY <1>2, <4>1, <4>2, Zenon DEF SameTask, TaskState
      <4>4. key_generation'[task[u].key] = key_generation[task[u].key] + 1 /\ key_generation[task[u].key] \in Nat
        BY <2>2, <2>3, <3>2, Zenon
      <4>5. v = "key" => task[u].void \in {"no", "key"}
        BY <1>2, <4>1, Zenon DEF Void
      <4>6. VoidInv(u)'
        BY <1>2, <2>1, <3>2, <4>2, <4>3, <4>4, <4>5 DEF SameTask, VoidInv
      <4>7. QED
        BY <4>3, <4>6, Zenon
    <3>3. QED
      BY <3>1, <3>2, Zenon
  <2>7. QED
    BY <1>3, <2>3, <2>4, <2>5, <2>6, VoidStepInv, Zenon
<1>5. ASSUME invalidate_all(w)
      PROVE  Inv'
  <2>1. /\ key_generation' = key_generation /\ global_generation' = global_generation + 1
        /\ task' = [u \in Task |-> Voided(u, Key, "all")] /\ worker' = [worker EXCEPT ![w] = [pc |-> "clear", key |-> None]]
    BY <1>5, Zenon DEF invalidate_all
  <2>2. /\ key_generation' \in [Key -> Nat] /\ global_generation \in Nat /\ global_generation' \in Nat
        /\ worker' \in [Worker -> WorkerState]
    BY <1>1, <2>1 DEF TypeOK, WorkerState
  <2>3. task' = [u \in Task |-> task'[u]]
    BY <2>1, Zenon
  <2>4. ASSUME NEW u \in Task
        PROVE  SameTask(u) /\ VoidInv(u)'
    <3> DEFINE early == task[u].pc \in {"fetching", "load_global"}
               begun == task[u].key \in Key /\ (early \/ task[u].pc \in {"load_key", "apply", "store"})
    <3>1. CASE ~begun
      <4>1. task'[u] = task[u]
        BY <2>1, <3>1, Zenon DEF Voided
      <4>2. QED
        BY <1>2, <2>1, <2>2, <4>1 DEF SameTask, VoidInv
    <3>2. CASE begun
      <4>1. PICK v : /\ task'[u] = [task[u] EXCEPT !.void = v]
                     /\ v = CASE task[u].void \in {"no", "reset"} /\ ~early -> "late"
                              [] task[u].void \in {"no", "reset"} /\ early -> "all"
                              [] task[u].void = "key" -> "mixed"
                              [] task[u].void \in {"all", "mixed", "late"} -> task[u].void
        BY <1>2, <2>1, <3>2, Zenon DEF Voided, Void
      <4>2. v \in Void /\ v # "key" /\ (v = "all" => early \/ task[u].void = "all") /\ (v = "no" => FALSE)
        BY <1>2, <4>1, Zenon DEF Void
      <4>3. SameTask(u) /\ task'[u].void = v
        BY <1>2, <4>1, <4>2, Zenon DEF SameTask, TaskState
      <4>4. VoidInv(u)'
        BY <1>2, <2>1, <2>2, <3>2, <4>2, <4>3 DEF SameTask, VoidInv
      <4>5. QED
        BY <4>3, <4>4, Zenon
    <3>3. QED
      BY <3>1, <3>2, Zenon
  <2>5. QED
    BY <1>3, <2>2, <2>3, <2>4, VoidStepInv, Zenon
<1>6. QED
  BY <1>4, <1>5, Zenon

\* The later sections of an invalidation: entries go, key_generation is reset.
LEMMA ClearInv ==
    ASSUME Inv, NEW w \in Worker, RemoveEntry(w) \/ ClearEntries(w) \/ ClearKeyGenerations(w)
    PROVE  Inv'
<1>1. TypeOK /\ Links /\ SingleFlight /\ EntriesInv /\ VoidedIsDiscarded
  BY Zenon DEF Inv, SingleFlight
<1>2. worker[w] \in WorkerState
  BY <1>1, Zenon DEF TypeOK
<1>3. ASSUME NEW S, S \subseteq Key \cup {None}, entries' = [x \in DOMAIN entries \ S |-> entries[x]],
             older' \subseteq older, \A p \in older' : p[1] \notin S /\ p[2] \notin S,
             worker' \in [Worker -> WorkerState],
             UNCHANGED <<inflight, global_generation, key_generation, task, caller>>
      PROVE  Inv'
  <2>1. /\ DOMAIN entries' \subseteq Key /\ \A x \in DOMAIN entries' : entries'[x] \in Entry
        /\ EntriesInv' /\ VoidedIsDiscarded'
    BY <1>1, <1>3, RemoveInv, Zenon
  <2>2. Items \ S \subseteq Items'
    BY <1>3, Zenon DEF Items, Stamped
  <2>3. older' \subseteq Items' \X Items'
    <3>1. older' \subseteq (Items \ S) \X (Items \ S)
      BY <1>1, <1>3, Zenon DEF TypeOK
    <3>2. QED
      BY <2>2, <3>1, Zenon
  <2>4. TypeOK'
    BY <1>1, <1>3, <2>1, <2>3, Zenon DEF TypeOK
  <2>5. QED
    BY <1>3, <2>1, <2>4, Zenon DEF Inv, SingleFlight, Links, Capturing, VoidInv
<1>4. CASE RemoveEntry(w)
  <2> DEFINE S == {worker[w].key}
  <2>1. S \subseteq Key \cup {None}
    BY <1>2, Zenon DEF WorkerState
  <2>2. worker' \in [Worker -> WorkerState]
    BY <1>1, <1>4, Zenon DEF TypeOK, RemoveEntry, WorkerState
  <2>3. older' \subseteq older /\ \A p \in older' : p[1] \notin S /\ p[2] \notin S
    BY <1>4, Zenon DEF RemoveEntry, Without
  <2>4. /\ entries' = [x \in DOMAIN entries \ S |-> entries[x]]
        /\ UNCHANGED <<inflight, global_generation, key_generation, task, caller>>
    BY <1>4, Zenon DEF RemoveEntry
  <2> HIDE DEF S
  <2>5. QED
    BY <1>3, <2>1, <2>2, <2>3, <2>4, Zenon
<1>5. CASE ClearEntries(w)
  <2>1. worker' \in [Worker -> WorkerState]
    BY <1>1, <1>2, <1>5, Zenon DEF TypeOK, ClearEntries, WorkerState
  <2>2. older' \subseteq older /\ \A p \in older' : p[1] \in Stamped /\ p[2] \in Stamped
    BY <1>5, Zenon DEF ClearEntries, Among
  <2>3. \A p \in older' : p[1] \notin Key /\ p[2] \notin Key
    BY <2>2, NoneAssumption, Zenon DEF Stamped
  <2>4. DOMAIN entries \ Key = {}
    BY <1>1, Zenon DEF TypeOK
  <2>5. entries' = [x \in DOMAIN entries \ Key |-> entries[x]]
    BY <1>5, <2>4 DEF ClearEntries
  <2>6. UNCHANGED <<inflight, global_generation, key_generation, task, caller>>
    BY <1>5, Zenon DEF ClearEntries
  <2>7. QED
    BY <1>3, <2>1, <2>2, <2>3, <2>5, <2>6, Zenon
<1>6. CASE ClearKeyGenerations(w)
  <2>1. /\ task' = [u \in Task |-> Reset(u)] /\ key_generation' = [k \in Key |-> 0]
        /\ UNCHANGED <<entries, older, inflight, global_generation, caller>>
    BY <1>6, Zenon DEF ClearKeyGenerations
  <2>2. /\ worker' \in [Worker -> WorkerState] /\ key_generation' \in [Key -> Nat] /\ global_generation' \in Nat
    BY <1>1, <1>2, <1>6, <2>1 DEF TypeOK, ClearKeyGenerations, WorkerState
  <2>3. task' = [u \in Task |-> task'[u]]
    BY <2>1, Zenon
  <2>4. ASSUME NEW u \in Task
        PROVE  SameTask(u) /\ VoidInv(u)'
    <3>1. task[u] \in TaskState /\ VoidInv(u) /\ task[u].void \in Void
      BY <1>1, Zenon DEF Inv, TypeOK, TaskState
    <3>2. CASE task[u].pc \in {"fetching", "load_global", "load_key"}
      <4>1. PICK v : /\ task'[u] = [task[u] EXCEPT !.void = v]
                     /\ v = IF task[u].void = "no" THEN "reset"
                            ELSE IF task[u].void = "key" THEN "mixed" ELSE task[u].void
        BY <2>1, <3>2, Zenon DEF Reset
      <4>2. v \in Void \ {"no", "key"} /\ (v = "all" => task[u].void = "all")
        BY <3>1, <4>1, Zenon DEF Void
      <4>3. SameTask(u) /\ task'[u].void = v
        BY <3>1, <4>1, <4>2, Zenon DEF SameTask, TaskState
      <4>4. VoidInv(u)'
        BY <2>1, <3>1, <3>2, <4>2, <4>3, Zenon DEF SameTask, VoidInv
      <4>5. QED
        BY <4>3, <4>4, Zenon
    <3>3. CASE task[u].pc \notin {"fetching", "load_global", "load_key"}
      BY <2>1, <3>1, <3>3, Zenon DEF Reset, SameTask, VoidInv
    <3>4. QED
      BY <3>2, <3>3, Zenon
  <2>5. QED
    BY <2>1, <2>2, <2>3, <2>4, VoidStepInv, Zenon
<1>7. QED
  BY <1>4, <1>5, <1>6, Zenon

LEMMA NextInv == Inv /\ [Next]_vars => Inv'
<1> SUFFICES ASSUME Inv, [Next]_vars PROVE Inv'
  BY Zenon
<1>1. ASSUME NEW c \in Caller, NEW k \in Key, Peek(c, k) \/ Get(c, k) \/ Refresh(c, k)
      PROVE  Inv'
  BY <1>1, LookInv, Zenon
<1>2. ASSUME NEW c \in Caller, CallerStep(c)
      PROVE  Inv'
  <2>1. Wake(c) => caller[c].key \in Key
    BY Zenon DEF Wake, Inv, Links
  <2>2. QED
    BY <1>2, <2>1, LookInv, EnsureInv, CaptureInv, Zenon DEF CallerStep
<1>3. ASSUME NEW t \in Task, TaskStep(t)
      PROVE  Inv'
  BY <1>3, FetchInv, ApplyInv, StoreInv, GuardInv, Zenon DEF TaskStep
<1>4. ASSUME NEW w \in Worker, (\E k \in Key : invalidate(w, k)) \/ invalidate_all(w) \/ WorkerStep(w)
      PROVE  Inv'
  BY <1>4, InvalidateInv, ClearInv, Zenon DEF WorkerStep
<1>5. CASE UNCHANGED vars
  <2>1. /\ UNCHANGED <<entries, older, inflight, global_generation>>
        /\ UNCHANGED <<key_generation, task, caller, worker>>
    BY <1>5, Zenon DEF vars
  <2>2. TypeOK'
    BY <2>1, ZenonT(60) DEF Inv, SingleFlight, TypeOK, Items, Stamped
  <2>3. QED
    BY <2>1, <2>2, Zenon DEF Inv, SingleFlight, Links, Capturing, EntriesInv, VoidedIsDiscarded, VoidInv
<1>6. QED
  BY <1>1, <1>2, <1>3, <1>4, <1>5, Zenon DEF Next

-----------------------------------------------------------------------------
(* Theorems                                                                *)

\* The inductive invariant holds in every reachable state of the cache.
THEOREM InvHolds == Spec => []Inv
  BY InitInv, NextInv, PTL DEF Spec

(***************************************************************************)
(* At most one refresh runs for a key, and while it runs inflight lists    *)
(* it: a second get joins it instead of starting another one.              *)
(***************************************************************************)
THEOREM OneRefreshPerKey == Spec => []SingleFlight
<1>1. Inv => SingleFlight
  BY Zenon DEF Inv
<1>2. QED
  BY <1>1, InvHolds, PTL

(***************************************************************************)
(* What was voided while it was fetched is not in the cache, however many  *)
(* invalidations of one kind there were and whichever order their sections *)
(* and the refresh's took.                                                 *)
(***************************************************************************)
THEOREM VoidedNeverStored == Spec => []VoidedIsDiscarded
<1>1. Inv => VoidedIsDiscarded
  BY Zenon DEF Inv
<1>2. QED
  BY <1>1, InvHolds, PTL

\* The steps that change the entries.
LEMMA EntriesChange ==
    ASSUME [Next]_vars
    PROVE  \/ \E t \in Task : Store(t)
           \/ \E S : entries' = [x \in DOMAIN entries \ S |-> entries[x]]
           \/ entries' = entries
<1>1. ASSUME NEW c \in Caller, NEW k \in Key, Peek(c, k) \/ Get(c, k) \/ Refresh(c, k)
      PROVE  entries' = entries
  BY <1>1, Zenon DEF Peek, Get, Refresh
<1>2. ASSUME NEW c \in Caller, CallerStep(c)
      PROVE  entries' = entries
  BY <1>2, Zenon DEF CallerStep, ensure_refresh, CaptureGlobal, CaptureKey, Wake
<1>3. ASSUME NEW t \in Task, TaskStep(t), ~Store(t)
      PROVE  entries' = entries
  BY <1>3, Zenon DEF TaskStep, Fetch, FetchPanics, LoadGlobal, Compare, Apply, mark_error, Guard
<1>4. ASSUME NEW w \in Worker, (\E k \in Key : invalidate(w, k)) \/ invalidate_all(w) \/ ClearKeyGenerations(w)
      PROVE  entries' = entries
  BY <1>4, Zenon DEF invalidate, invalidate_all, ClearKeyGenerations
<1>5. ASSUME NEW w \in Worker, RemoveEntry(w)
      PROVE  \E S : entries' = [x \in DOMAIN entries \ S |-> entries[x]]
  BY <1>5, Zenon DEF RemoveEntry
<1>6. ASSUME NEW w \in Worker, ClearEntries(w)
      PROVE  \E S : entries' = [x \in DOMAIN entries \ S |-> entries[x]]
  <2>1. entries' = [x \in DOMAIN entries \ DOMAIN entries |-> entries[x]]
    BY <1>6 DEF ClearEntries
  <2>2. QED
    BY <2>1, Zenon
<1>7. CASE UNCHANGED vars
  BY <1>7, Zenon DEF vars
<1>8. QED
  BY <1>1, <1>2, <1>3, <1>4, <1>5, <1>6, <1>7, Zenon DEF Next, WorkerStep

(***************************************************************************)
(* A versioned entry is only ever followed by a newer version or by its    *)
(* own content: what store refuses is exactly what would go back.          *)
(***************************************************************************)
THEOREM VersionsOnlyGrow == Spec => VersionsNeverRollBack
<1> DEFINE Kept(k) ==
        entries[k].version # Unversioned /\ entries'[k].version # Unversioned =>
            \/ entries'[k].version > entries[k].version
            \/ entries'[k].version = entries[k].version /\ entries'[k].value = entries[k].value
<1>1. ASSUME Inv, [Next]_vars, NEW k \in DOMAIN entries \cap DOMAIN entries'
      PROVE  Kept(k)
  <2>1. CASE entries'[k] = entries[k]
    BY <2>1, Zenon
  <2>2. CASE \E t \in Task : Store(t)
    <3>1. PICK t \in Task : Store(t)
      BY <2>2, Zenon
    <3>2. TypeOK /\ EntriesInv /\ task[t].result \in Fetched /\ entries[k] \in Entry
      BY <1>1, Zenon DEF Inv, SingleFlight, TypeOK, TaskState
    <3>3. ASSUME NEW entry, Insert(t, task[t].key, entry)
          PROVE  entries'[k] = IF k = task[t].key THEN entry ELSE entries[k]
      <4>1. Inserted(t, task[t].key, entry)
        BY <3>3, InsertEffect, Zenon
      <4>2. QED
        BY <1>1, <4>1, Zenon DEF Inserted
    <3>4. CASE task[t].result.kind = "found" /\ store(t, task[t].key, task[t].result, task[t].void)
      <4> DEFINE f == task[t].result
                 e == [value |-> f.value, version |-> f.version, void |-> task[t].void]
      <4>1. CASE entries' = entries
        BY <2>1, <4>1, Zenon
      <4>2. CASE k = task[t].key /\ Insert(t, k, e) /\ f.version # Unversioned /\ entries[k].version # Unversioned
        <5>1. entries'[k] = e /\ e.version = f.version /\ e.value = f.value
          BY <3>3, <4>2, Zenon
        <5>2. f.version \in Int /\ entries[k].version \in Int
          <6>1. f.version \in Version \cup {Unversioned}
            BY <3>2, <3>4, Zenon DEF Fetched
          <6>2. entries[k].version \in Version \cup {Unversioned}
            BY <3>2, Zenon DEF Entry
          <6>3. Version \subseteq Int /\ Unversioned \in Int
            BY CacheAssumption DEF Unversioned
          <6> HIDE DEF f
          <6>4. QED
            BY <6>1, <6>2, <6>3, Zenon
        <5>3. ~ f.version < entries[k].version
              /\ (f.version = entries[k].version => entries[k].value \in {None, f.value})
          <6>1. CASE entries' = entries
            BY <5>1, <5>2, <6>1
          <6>2. CASE entries' # entries
            BY <1>1, <3>4, <4>2, <6>2, Zenon DEF store
          <6>3. QED
            BY <6>1, <6>2, Zenon
        <5>4. entries[k].value # None
          BY <1>1, <3>2, <4>2, Zenon DEF EntriesInv
        <5>5. QED
          BY <5>1, <5>3, <5>4, <5>2
      <4>3. CASE k # task[t].key /\ Insert(t, task[t].key, e)
        BY <2>1, <3>3, <4>3, Zenon
      <4>4. CASE k = task[t].key /\ Insert(t, k, e) /\ f.version = Unversioned
        <5>1. entries'[k].version = Unversioned
          BY <3>3, <4>4
        <5>2. QED
          BY <5>1, Zenon
      <4>5. Insert(t, task[t].key, e) \/ entries' = entries
        BY <3>4, Zenon DEF store
      <4>6. QED
        BY <4>1, <4>2, <4>3, <4>4, <4>5, Zenon
    <3>5. CASE store_missing(t, task[t].key, task[t].void)
      <4> DEFINE e == [value |-> None, version |-> Unversioned, void |-> task[t].void]
      <4>1. Insert(t, task[t].key, e) /\ e.version = Unversioned
        BY <3>5, Zenon DEF store_missing
      <4>2. QED
        BY <2>1, <3>3, <4>1, Zenon
    <3>6. QED
      BY <3>1, <3>4, <3>5, Zenon DEF Store
  <2>3. CASE \E S : entries' = [x \in DOMAIN entries \ S |-> entries[x]]
    BY <1>1, <2>1, <2>3, Zenon
  <2>4. QED
    BY <1>1, <2>1, <2>2, <2>3, EntriesChange, Zenon
<1>2. Inv /\ [Next]_vars =>
         [\A k \in DOMAIN entries \cap DOMAIN entries' :
             entries[k].version # Unversioned /\ entries'[k].version # Unversioned =>
                 \/ entries'[k].version > entries[k].version
                 \/ entries'[k].version = entries[k].version /\ entries'[k].value = entries[k].value]_vars
  BY <1>1, Zenon
<1>3. QED
  BY <1>2, InvHolds, PTL DEF Spec, VersionsNeverRollBack

-----------------------------------------------------------------------------
(* Eviction                                                                *)

F == INSTANCE FiniteSetTheorems

\* The library's facts on the size of a subset.
LEMMA SubsetSize ==
    ASSUME NEW S, IsFiniteSet(S), NEW T \in SUBSET S
    PROVE  /\ IsFiniteSet(T) /\ Cardinality(T) \in Nat /\ Cardinality(S) \in Nat
           /\ Cardinality(T) <= Cardinality(S)
           /\ Cardinality(T) = Cardinality(S) => T = S
<1>1. F!IsFiniteSet(S) /\ F!Cardinality(S) = Cardinality(S) /\ F!Cardinality(T) = Cardinality(T)
  BY Zenon DEF F!Cardinality, Cardinality, F!IsFiniteSet, IsFiniteSet
<1>2. /\ F!IsFiniteSet(T) /\ F!Cardinality(T) \in Nat /\ F!Cardinality(S) \in Nat
      /\ F!Cardinality(T) <= F!Cardinality(S)
      /\ F!Cardinality(T) = F!Cardinality(S) => T = S
  BY <1>1, F!FS_Subset, F!FS_CardinalityType, Zenon
<1>3. IsFiniteSet(T)
  BY <1>2, Zenon DEF F!IsFiniteSet, IsFiniteSet
<1>4. QED
  BY <1>1, <1>2, <1>3, Zenon

\* And on small sets.
LEMMA SmallSets ==
    /\ IsFiniteSet({}) /\ Cardinality({}) = 0
    /\ \A x : Cardinality({x}) = 1
    /\ \A S, x : IsFiniteSet(S) => IsFiniteSet(S \cup {x})
<1>1. /\ F!IsFiniteSet({}) /\ F!Cardinality({}) = 0
      /\ \A x : F!Cardinality({x}) = 1
      /\ \A S, x : F!IsFiniteSet(S) => F!IsFiniteSet(S \cup {x})
  BY F!FS_EmptySet, F!FS_Singleton, F!FS_AddElement, Zenon
<1>2. QED
  BY <1>1, Zenon DEF F!Cardinality, Cardinality, F!IsFiniteSet, IsFiniteSet

\* The entries are within the limits, or there is only one.
Limits ==
    /\ IsFiniteSet(DOMAIN entries)
    /\ Fits(entries, DOMAIN entries) \/ Cardinality(DOMAIN entries) = 1

LEMMA InitLimits == Init => Limits
<1> SUFFICES ASSUME Init PROVE Limits
  BY Zenon
<1>1. DOMAIN entries = {}
  BY DEF Init
<1>2. {k \in {} : entries[k].value # None} = {}
  BY Zenon
<1>3. QED
  BY <1>1, <1>2, SmallSets, CacheAssumption DEF Limits, Fits

\* A subset of entries that are within the limits is within them.
LEMMA RemoveLimits ==
    ASSUME Limits, NEW S, entries' = [x \in DOMAIN entries \ S |-> entries[x]]
    PROVE  Limits'
<1> DEFINE D == DOMAIN entries
           E == DOMAIN entries'
           B == {k \in D : entries[k].value # None}
           C == {k \in E : entries'[k].value # None}
<1>1. /\ E \in SUBSET D /\ C \in SUBSET E /\ C \in SUBSET B /\ B \in SUBSET D
      /\ E = D => C = B
  BY Zenon
<1>2. Fits(entries', E) <=> Cardinality(E) <= MaxEntries /\ Cardinality(C) <= MaxBytes
  BY Zenon DEF Fits
<1>3. /\ IsFiniteSet(D)
      /\ Cardinality(D) = 1 \/ (Cardinality(D) <= MaxEntries /\ Cardinality(B) <= MaxBytes)
  BY Zenon DEF Limits, Fits
<1> HIDE DEF B, C, D, E
<1>4. /\ IsFiniteSet(E) /\ Cardinality(E) \in Nat /\ Cardinality(D) \in Nat
      /\ Cardinality(E) <= Cardinality(D) /\ (Cardinality(E) = Cardinality(D) => E = D)
  BY <1>1, <1>3, SubsetSize, Zenon
<1>5. IsFiniteSet(B) /\ Cardinality(B) \in Nat
  BY <1>1, <1>3, SubsetSize, Zenon
<1>6. Cardinality(C) \in Nat /\ Cardinality(C) <= Cardinality(B) /\ Cardinality(C) <= Cardinality(E)
  BY <1>1, <1>4, <1>5, SubsetSize, Zenon
<1>7. MaxEntries \in Nat \ {0} /\ MaxBytes \in Nat \ {0}
  BY CacheAssumption, Zenon
<1>8. Cardinality(E) = 1 \/ (Cardinality(E) <= MaxEntries /\ Cardinality(C) <= MaxBytes)
  BY <1>3, <1>4, <1>5, <1>6, <1>7
<1>9. QED
  BY <1>2, <1>4, <1>8, Zenon DEF Limits, E

LEMMA NextLimits == Limits /\ [Next]_vars => Limits'
<1> SUFFICES ASSUME Limits, [Next]_vars PROVE Limits'
  BY Zenon
<1>1. CASE entries' = entries
  BY <1>1, Zenon DEF Limits, Fits
<1>2. CASE \E S : entries' = [x \in DOMAIN entries \ S |-> entries[x]]
  BY <1>2, RemoveLimits, Zenon
<1>3. ASSUME NEW t \in Task, Store(t)
      PROVE  Limits'
  <2>1. ASSUME NEW entry, Insert(t, task[t].key, entry)
        PROVE  Limits'
    <3>1. Inserted(t, task[t].key, entry)
      BY <2>1, InsertEffect, Zenon
    <3>2. PICK kept \in SUBSET (DOMAIN entries \cup {task[t].key}) :
              /\ DOMAIN entries' = kept
              /\ Fits(entries', kept) \/ Cardinality(kept) = 1
      BY <3>1, Zenon DEF Inserted
    <3>3. IsFiniteSet(DOMAIN entries \cup {task[t].key})
      BY SmallSets, Zenon DEF Limits
    <3>4. IsFiniteSet(kept)
      BY <3>3, SubsetSize, Zenon
    <3>5. QED
      BY <3>2, <3>4, Zenon DEF Limits
  <2>2. entries' = entries \/ \E entry : Insert(t, task[t].key, entry)
    BY <1>3, Zenon DEF Store, store, store_missing
  <2>3. QED
    BY <1>1, <2>1, <2>2, Zenon
<1>4. QED
  BY <1>1, <1>2, <1>3, EntriesChange, Zenon

(***************************************************************************)
(* The cache stays within its limits, and the entry a refresh has stored   *)
(* survives the eviction of its own store unless another was accessed      *)
(* since the refresh read the clock.                                       *)
(***************************************************************************)
THEOREM NewestSurvivesEviction == Spec => EvictionKeepsTheNewest
<1>1. ASSUME Inv, NEW t \in Task, Store(t), \A x \in Items : <<t, x>> \notin older
      PROVE  task[t].key \in DOMAIN entries'
  <2>1. TypeOK /\ older \subseteq Items \X Items
    BY <1>1, Zenon DEF Inv, SingleFlight, TypeOK
  <2>2. PICK k : k = task[t].key
    BY Zenon
  <2>3. ASSUME NEW entry, Insert(t, k, entry)
        PROVE  k \in DOMAIN entries'
    <3> DEFINE e == [x \in DOMAIN entries \cup {k} |-> IF x = k THEN entry ELSE entries[x]]
    <3>1. PICK kept \in SUBSET DOMAIN e : evict(e, TouchAs(t, k), kept) /\ entries' = [x \in kept |-> e[x]]
      BY <2>3, Zenon DEF Insert
    <3>2. \A y : <<k, y>> \in TouchAs(t, k) => y = k
      BY <1>1, <2>1 DEF TouchAs, Without
    <3>3. Cardinality({k}) = 1
      BY SmallSets, Zenon
    <3>4. {k} \in SUBSET DOMAIN e
      BY Zenon
    <3> HIDE DEF e
    <3>5. {k} \subseteq kept
      BY <3>1, <3>2, <3>3, <3>4, Zenon DEF evict
    <3>6. QED
      BY <3>1, <3>5, Zenon
  <2>4. CASE store(t, k, task[t].result, task[t].void)
    <3> DEFINE f == task[t].result
               e == [value |-> f.value, version |-> f.version, void |-> task[t].void]
    <3>1. Insert(t, k, e) \/ (k \in DOMAIN entries /\ entries' = entries)
      BY <2>4, Zenon DEF store
    <3> HIDE DEF e
    <3>2. QED
      BY <2>2, <2>3, <3>1, Zenon
  <2>5. CASE store_missing(t, k, task[t].void)
    <3> DEFINE e == [value |-> None, version |-> Unversioned, void |-> task[t].void]
    <3>1. Insert(t, k, e)
      BY <2>5, Zenon DEF store_missing
    <3> HIDE DEF e
    <3>2. QED
      BY <2>2, <2>3, <3>1, Zenon
  <2>6. QED
    BY <1>1, <2>2, <2>4, <2>5, Zenon DEF Store
<1>2. Spec => []Limits
  BY InitLimits, NextLimits, PTL DEF Spec
<1>3. Inv /\ Limits' /\ [Next]_vars =>
         [/\ Fits(entries', DOMAIN entries') \/ Cardinality(DOMAIN entries') = 1
          /\ \A t \in Task : Store(t) /\ (\A x \in Items : <<t, x>> \notin older) =>
                                 task[t].key \in DOMAIN entries']_vars
  BY <1>1, Zenon DEF Limits
<1>4. QED
  BY <1>2, <1>3, InvHolds, PTL DEF Spec, EvictionKeepsTheNewest
=============================================================================
