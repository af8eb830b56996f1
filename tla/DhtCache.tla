------------------------------ MODULE DhtCache ------------------------------
(***************************************************************************)
(* The read-through cache of src/src/dht_cache.rs, shared by threads.      *)
(*                                                                         *)
(* The code holds one of its locks at a time, so a step below is one       *)
(* critical section (or one atomic access to global_generation): callers   *)
(* of get, refresh and peek, refresh tasks, and the two ways to invalidate *)
(* interleave between them.  last_error is left out: nothing reads it.     *)
(***************************************************************************)
EXTENDS Integers, FiniteSets

CONSTANTS
    Key,
    Caller,           \* tasks that read through the cache
    Task,             \* bound: refresh tasks whose channel is still held
    Worker,           \* tasks that call invalidate or invalidate_all
    Value,
    Version,          \* version numbers a fetched value may carry
    MaxEntries,       \* max_entries
    MaxBytes,         \* max_bytes; a cached value is one unit, a missing one none
    MaxInvalidations  \* bound: calls of invalidate and invalidate_all

ASSUME CacheAssumption == /\ Version \subseteq Nat
                          /\ {MaxEntries, MaxBytes} \subseteq Nat \ {0}
                          /\ MaxInvalidations \in Nat

None == "none"   \* no value, no task, no key, nothing sent
Unversioned == -1
ASSUME NoneAssumption == None \notin Value \cup Task \cup Key /\ Key \cap Task = {}

VARIABLES
    entries,            \* the cached entries: a function on a subset of Key
    older,              \* the pairs of which the first has the earlier last_access
    inflight,           \* the refresh whose receiver each key holds
    global_generation,
    key_generation,
    task,               \* the refresh tasks with their channels
    caller,
    worker,
    invalidations       \* how often invalidate or invalidate_all was called

vars == <<entries, older, inflight, global_generation, key_generation,
          task, caller, worker, invalidations>>

Void == {"no", "reset", "key", "all", "mixed", "late"}
Entry == [value : Value \cup {None}, version : Version \cup {Unversioned}, void : Void]
Fetched == [kind : {"found"}, value : Value, version : Version \cup {Unversioned}]
           \cup [kind : {"missing", "error"}, value : {None}, version : {Unversioned}]
NoResult == [kind |-> "missing", value |-> None, version |-> Unversioned]

(***************************************************************************)
(* void is a history variable: how the key was invalidated while the task  *)
(* was in flight.  "key", "all" or "mixed": by calls of invalidate, of     *)
(* invalidate_all or of both, the first of them before the task began to   *)
(* compare generations; "late": only after that.  "reset": not at all, but *)
(* an invalidate_all that had begun before the task reset key_generation.  *)
(***************************************************************************)
TaskState ==
    [pc : {"idle", "starting", "fetching", "load_global", "load_key", "apply", "store", "guard"},
     key : Key \cup {None}, generation : Nat \X Nat, seen : Nat, result : Fetched,
     sent : {None, "ok", "error", "invalidated", "closed"}, void : Void]

CallerState ==
    [pc : {"idle", "ensure", "capture_global", "capture_key", "waiting"},
     key : Key \cup {None}, hit : BOOLEAN, rx : Task \cup {None}]

Idle == [pc |-> "idle", key |-> None, hit |-> FALSE, rx |-> None]

WorkerState == [pc : {"idle", "remove", "clear", "clear_keys"}, key : Key \cup {None}]

\* A task that has ended keeps nothing but its channel.
Ended == [pc |-> "idle", key |-> None, generation |-> <<0, 0>>, seen |-> 0,
          result |-> NoResult, sent |-> None, void |-> "no"]

-----------------------------------------------------------------------------
(* Entries                                                                 *)

\* What has a last_access: the entries, and the tasks that have read the clock
\* for theirs and now want the lock.
Stamped == {t \in Task : task[t].pc = "store"}
Items == DOMAIN entries \cup Stamped

Without(order, x) == {p \in order : x \notin {p[1], p[2]}}
Among(order, S) == {p \in order : p[1] \in S /\ p[2] \in S}

\* x is accessed now.
Touch(x) == Without(older, x) \cup {<<y, x>> : y \in Items \ {x}}

\* k is accessed when the task t read the clock.
TouchAs(t, k) ==
    LET as(x) == IF x = t THEN k ELSE x
    IN  {<<as(p[1]), as(p[2])>> : p \in Without(older, k)}

\* entry(): a lookup counts as an access.
Lookup(k) == older' = IF k \in DOMAIN entries THEN Touch(k) ELSE older

Fits(e, S) == /\ Cardinality(S) <= MaxEntries
              /\ Cardinality({k \in S : e[k].value # None}) <= MaxBytes

\* The mutant takes the most recent entry for its victim.
EvictNewest(e, order, kept) ==
    LET rest(S) == \A x \in S, y \in DOMAIN e : <<y, x>> \in order => y \in S
        stop(S) == Fits(e, S) \/ Cardinality(S) = 1
    IN  /\ rest(kept) /\ stop(kept)
        /\ \A S \in SUBSET DOMAIN e : rest(S) /\ stop(S) => S \subseteq kept

\* evict: the least recent entries go until the rest fits or is a single one;
\* kept is what is left then.
evict(e, order, kept) ==
    LET rest(S) == \A x \in S, y \in DOMAIN e : <<x, y>> \in order => y \in S
        stop(S) == Fits(e, S) \/ Cardinality(S) = 1
    IN  /\ rest(kept) /\ stop(kept)
        /\ \A S \in SUBSET DOMAIN e : rest(S) /\ stop(S) => S \subseteq kept

Insert(t, k, entry) ==
    LET e == [x \in DOMAIN entries \cup {k} |-> IF x = k THEN entry ELSE entries[x]]
    IN  \E kept \in SUBSET DOMAIN e :
            /\ evict(e, TouchAs(t, k), kept)
            /\ entries' = [x \in kept |-> e[x]]
            /\ older' = Among(TouchAs(t, k), kept \cup (Stamped \ {t}))

\* The mutant stores whatever was fetched last.
StoreBlindly(t, k, fetched, void) ==
    Insert(t, k, [value |-> fetched.value, version |-> fetched.version, void |-> void])

\* A versioned value never replaces a newer one, nor another of its version.
store(t, k, fetched, void) ==
    LET versioned == /\ k \in DOMAIN entries
                     /\ entries[k].version # Unversioned /\ fetched.version # Unversioned
        rollback == versioned /\ fetched.version < entries[k].version
        conflict == /\ versioned /\ fetched.version = entries[k].version
                    /\ entries[k].value \notin {None, fetched.value}
    IN  \/ rollback /\ older' = Without(older, t) /\ UNCHANGED entries
        \/ conflict /\ older' = TouchAs(t, k) /\ UNCHANGED entries
        \/ /\ ~rollback /\ ~conflict
           /\ Insert(t, k, [value |-> fetched.value, version |-> fetched.version, void |-> void])

store_missing(t, k, void) == Insert(t, k, [value |-> None, version |-> Unversioned, void |-> void])

mark_error(k) == Lookup(k) /\ UNCHANGED entries

-----------------------------------------------------------------------------
(* Callers                                                                 *)

Peek(c, k) ==
    /\ caller[c].pc = "idle"
    /\ Lookup(k)
    /\ UNCHANGED <<entries, inflight, global_generation, key_generation,
                   task, caller, worker, invalidations>>

\* get, up to its lookup.
Get(c, k) ==
    /\ caller[c].pc = "idle"
    /\ Lookup(k)
    /\ caller' = [caller EXCEPT ![c] = [pc |-> "ensure", key |-> k, rx |-> None,
                                        hit |-> k \in DOMAIN entries]]
    /\ UNCHANGED <<entries, inflight, global_generation, key_generation,
                   task, worker, invalidations>>

\* refresh: like get, but nobody waits for the result.
Refresh(c, k) ==
    /\ caller[c].pc = "idle"
    /\ caller' = [caller EXCEPT ![c] = [pc |-> "ensure", key |-> k, rx |-> None, hit |-> TRUE]]
    /\ UNCHANGED <<entries, older, inflight, global_generation, key_generation,
                   task, worker, invalidations>>

\* A task record may be used again when it ended and nobody holds its channel.
Reusable(t) == task[t].pc = "idle" /\ \A c \in Caller : caller[c].rx # t

\* What the caller does with the receiver: drop it on a hit, else wait.
Subscribe(c, t) ==
    caller' = [caller EXCEPT ![c] = IF caller[c].hit THEN Idle
                                    ELSE [caller[c] EXCEPT !.pc = "waiting", !.rx = t]]

\* ensure_refresh, up to where the inflight lock is dropped.
ensure_refresh(c) ==
    LET k == caller[c].key
    IN  /\ caller[c].pc = "ensure"
        /\ \/ /\ inflight[k] # None
              /\ Subscribe(c, inflight[k])
              /\ UNCHANGED <<inflight, task>>
           \/ /\ inflight[k] = None
              /\ \E t \in Task :
                    /\ Reusable(t)
                    /\ inflight' = [inflight EXCEPT ![k] = t]
                    /\ task' = [task EXCEPT ![t] = [Ended EXCEPT !.pc = "starting", !.key = k]]
                    /\ caller' = [caller EXCEPT ![c].pc = "capture_global", ![c].rx = t]
        /\ UNCHANGED <<entries, older, global_generation, key_generation, worker, invalidations>>

\* generation(), its two reads, and the spawn of the task.
CaptureGlobal(c) ==
    /\ caller[c].pc = "capture_global"
    /\ task' = [task EXCEPT ![caller[c].rx].generation = <<global_generation, 0>>]
    /\ caller' = [caller EXCEPT ![c].pc = "capture_key"]
    /\ UNCHANGED <<entries, older, inflight, global_generation, key_generation, worker, invalidations>>

CaptureKey(c) ==
    /\ caller[c].pc = "capture_key"
    /\ task' = [task EXCEPT ![caller[c].rx].pc = "fetching",
                            ![caller[c].rx].generation = <<@[1], key_generation[caller[c].key]>>]
    /\ Subscribe(c, caller[c].rx)
    /\ UNCHANGED <<entries, older, inflight, global_generation, key_generation, worker, invalidations>>

\* The mutant only waits for a value and not for the sender's end.
WakeOnValue(c) ==
    /\ caller[c].pc = "waiting" /\ task[caller[c].rx].sent \notin {None, "closed"}
    /\ Lookup(caller[c].key)
    /\ caller' = [caller EXCEPT ![c] = Idle]
    /\ UNCHANGED <<entries, inflight, global_generation, key_generation,
                   task, worker, invalidations>>

\* wait_for returns; after Ok the entry is looked up once more.
Wake(c) ==
    /\ caller[c].pc = "waiting"
    /\ task[caller[c].rx].sent # None
    /\ IF task[caller[c].rx].sent = "ok" THEN Lookup(caller[c].key) ELSE UNCHANGED older
    /\ caller' = [caller EXCEPT ![c] = Idle]
    /\ UNCHANGED <<entries, inflight, global_generation, key_generation,
                   task, worker, invalidations>>

-----------------------------------------------------------------------------
(* run_refresh                                                             *)

\* The fetcher answers.
Fetch(t) ==
    /\ task[t].pc = "fetching"
    /\ \E result \in Fetched :
           task' = [task EXCEPT ![t].pc = "load_global", ![t].result = result]
    /\ UNCHANGED <<entries, older, inflight, global_generation, key_generation,
                   caller, worker, invalidations>>

\* The fetcher panics: the sender is dropped, the guard still runs.
FetchPanics(t) ==
    /\ task[t].pc = "fetching"
    /\ task' = [task EXCEPT ![t].pc = "guard", ![t].sent = "closed"]
    /\ UNCHANGED <<entries, older, inflight, global_generation, key_generation,
                   caller, worker, invalidations>>

\* generation() once more: again two reads.
LoadGlobal(t) ==
    /\ task[t].pc = "load_global"
    /\ task' = [task EXCEPT ![t].pc = "load_key", ![t].seen = global_generation]
    /\ UNCHANGED <<entries, older, inflight, global_generation, key_generation,
                   caller, worker, invalidations>>

\* The mutant compares the generation of the key only.
CompareKeyOnly(t) ==
    /\ task[t].pc = "load_key"
    /\ task' = IF key_generation[task[t].key] = task[t].generation[2]
               THEN [task EXCEPT ![t].pc = "apply"]
               ELSE [task EXCEPT ![t].pc = "guard", ![t].sent = "invalidated"]
    /\ UNCHANGED <<entries, older, inflight, global_generation, key_generation,
                   caller, worker, invalidations>>

Compare(t) ==
    /\ task[t].pc = "load_key"
    /\ task' = IF <<task[t].seen, key_generation[task[t].key]>> = task[t].generation
               THEN [task EXCEPT ![t].pc = "apply"]
               ELSE [task EXCEPT ![t].pc = "guard", ![t].sent = "invalidated"]
    /\ UNCHANGED <<entries, older, inflight, global_generation, key_generation,
                   caller, worker, invalidations>>

\* mark_error takes the lock first; store and store_missing read the clock.
Apply(t) ==
    /\ task[t].pc = "apply"
    /\ \/ /\ task[t].result.kind = "error"
          /\ mark_error(task[t].key)
          /\ task' = [task EXCEPT ![t].pc = "guard", ![t].sent = "error"]
       \/ /\ task[t].result.kind # "error"
          /\ older' = Touch(t) /\ UNCHANGED entries
          /\ task' = [task EXCEPT ![t].pc = "store"]
    /\ UNCHANGED <<inflight, global_generation, key_generation, caller, worker, invalidations>>

\* The rest of store or store_missing, under the lock.
Store(t) ==
    /\ task[t].pc = "store"
    /\ \/ task[t].result.kind = "found"   /\ store(t, task[t].key, task[t].result, task[t].void)
       \/ task[t].result.kind = "missing" /\ store_missing(t, task[t].key, task[t].void)
    /\ task' = [task EXCEPT ![t].pc = "guard", ![t].sent = "ok"]
    /\ UNCHANGED <<inflight, global_generation, key_generation, caller, worker, invalidations>>

\* The mutant is a trailing statement instead of a scope guard: it does not
\* run when the task unwinds.
TrailingRemove(t) ==
    /\ task[t].pc = "guard"
    /\ inflight' = IF task[t].sent = "closed" THEN inflight
                   ELSE [inflight EXCEPT ![task[t].key] = None]
    /\ task' = [task EXCEPT ![t] = [Ended EXCEPT !.sent = task[t].sent]]
    /\ UNCHANGED <<entries, older, global_generation, key_generation,
                   caller, worker, invalidations>>

Guard(t) ==
    /\ task[t].pc = "guard"
    /\ inflight' = [inflight EXCEPT ![task[t].key] = None]
    /\ task' = [task EXCEPT ![t] = [Ended EXCEPT !.sent = task[t].sent]]
    /\ UNCHANGED <<entries, older, global_generation, key_generation,
                   caller, worker, invalidations>>

-----------------------------------------------------------------------------
(* invalidate and invalidate_all                                           *)

\* The task t when an invalidation of the keys K begins.
Voided(t, K, kind) ==
    LET early == task[t].pc \in {"fetching", "load_global"}
        begun == task[t].key \in K /\ (early \/ task[t].pc \in {"load_key", "apply", "store"})
        void == CASE task[t].void \in {"no", "reset"} /\ ~early -> "late"
                  [] task[t].void = "reset" /\ kind = "key" /\ early -> "mixed"
                  [] task[t].void = "reset" /\ kind = "all" /\ early -> kind
                  [] task[t].void = "no" /\ early -> kind
                  [] task[t].void \in {"key", "all"} \ {kind} -> "mixed"
                  [] task[t].void \in {kind, "mixed", "late"} -> task[t].void
    IN  IF begun THEN [task[t] EXCEPT !.void = void] ELSE task[t]

\* The task t when invalidate_all resets key_generation.
Reset(t) ==
    LET void == IF task[t].void = "no" THEN "reset"
                ELSE IF task[t].void = "key" THEN "mixed" ELSE task[t].void
    IN  IF task[t].pc \in {"fetching", "load_global", "load_key"}
        THEN [task[t] EXCEPT !.void = void] ELSE task[t]

invalidate(w, k) ==
    /\ worker[w].pc = "idle"
    /\ invalidations < MaxInvalidations
    /\ invalidations' = invalidations + 1
    /\ key_generation' = [key_generation EXCEPT ![k] = @ + 1]
    /\ task' = [t \in Task |-> Voided(t, {k}, "key")]
    /\ worker' = [worker EXCEPT ![w] = [pc |-> "remove", key |-> k]]
    /\ UNCHANGED <<entries, older, inflight, global_generation, caller>>

RemoveEntry(w) ==
    /\ worker[w].pc = "remove"
    /\ entries' = [k \in DOMAIN entries \ {worker[w].key} |-> entries[k]]
    /\ older' = Without(older, worker[w].key)
    /\ worker' = [worker EXCEPT ![w] = [pc |-> "idle", key |-> None]]
    /\ UNCHANGED <<inflight, global_generation, key_generation, task, caller, invalidations>>

invalidate_all(w) ==
    /\ worker[w].pc = "idle"
    /\ invalidations < MaxInvalidations
    /\ invalidations' = invalidations + 1
    /\ global_generation' = global_generation + 1
    /\ task' = [t \in Task |-> Voided(t, Key, "all")]
    /\ worker' = [worker EXCEPT ![w] = [pc |-> "clear", key |-> None]]
    /\ UNCHANGED <<entries, older, inflight, key_generation, caller>>

ClearEntries(w) ==
    /\ worker[w].pc = "clear"
    /\ entries' = <<>>
    /\ older' = Among(older, Stamped)
    /\ worker' = [worker EXCEPT ![w].pc = "clear_keys"]
    /\ UNCHANGED <<inflight, global_generation, key_generation, task, caller, invalidations>>

ClearKeyGenerations(w) ==
    /\ worker[w].pc = "clear_keys"
    /\ key_generation' = [k \in Key |-> 0]
    /\ task' = [t \in Task |-> Reset(t)]
    /\ worker' = [worker EXCEPT ![w].pc = "idle"]
    /\ UNCHANGED <<entries, older, inflight, global_generation, caller, invalidations>>

-----------------------------------------------------------------------------

Init ==
    /\ entries = <<>> /\ older = {}
    /\ inflight = [k \in Key |-> None]
    /\ global_generation = 0
    /\ key_generation = [k \in Key |-> 0]
    /\ task = [t \in Task |-> Ended]
    /\ caller = [c \in Caller |-> Idle]
    /\ worker = [w \in Worker |-> [pc |-> "idle", key |-> None]]
    /\ invalidations = 0

CallerStep(c) == ensure_refresh(c) \/ CaptureGlobal(c) \/ CaptureKey(c) \/ Wake(c)

TaskStep(t) == Fetch(t) \/ FetchPanics(t) \/ LoadGlobal(t) \/ Compare(t) \/ Apply(t) \/ Store(t) \/ Guard(t)

WorkerStep(w) == RemoveEntry(w) \/ ClearEntries(w) \/ ClearKeyGenerations(w)

Next ==
    \/ \E c \in Caller : \/ \E k \in Key : Peek(c, k) \/ Get(c, k) \/ Refresh(c, k)
                         \/ CallerStep(c)
    \/ \E t \in Task : TaskStep(t)
    \/ \E w \in Worker : \/ \E k \in Key : invalidate(w, k)
                         \/ invalidate_all(w)
                         \/ WorkerStep(w)

Spec == Init /\ [][Next]_vars

(***************************************************************************)
(* The runtime polls every task that can run, and a fetch ends because the *)
(* Kademlia query behind it has a timeout.  Nobody has to call the cache.  *)
(***************************************************************************)
Fairness ==
    /\ \A c \in Caller : WF_vars(CallerStep(c))
    /\ \A t \in Task : WF_vars(TaskStep(t))

FairSpec == Spec /\ Fairness

-----------------------------------------------------------------------------
(* Properties                                                              *)

\* The state of the maps, tasks and callers is well formed.
TypeOK ==
    /\ DOMAIN entries \subseteq Key /\ older \subseteq Items \X Items
    /\ \A k \in DOMAIN entries : entries[k] \in Entry
    /\ inflight \in [Key -> Task \cup {None}]
    /\ global_generation \in Nat /\ key_generation \in [Key -> Nat]
    /\ task \in [Task -> TaskState]
    /\ caller \in [Caller -> CallerState]
    /\ worker \in [Worker -> WorkerState]

(***************************************************************************)
(* "At most one refresh" per key: the receiver a key holds in inflight is  *)
(* that of the one task which runs for it, from ensure_refresh to the      *)
(* scope guard, whether the fetch succeeds, fails, panics or is voided.    *)
(* (State well typed.)                                                     *)
(***************************************************************************)
SingleFlight ==
    /\ TypeOK
    /\ \A t \in Task, k \in Key :
          inflight[k] = t <=> task[t].pc # "idle" /\ task[t].key = k

(***************************************************************************)
(* A refresh whose key was invalidated while it was in flight, before it   *)
(* compares generations, leaves nothing in the cache, as long as only one  *)
(* of the two ways to invalidate met it.  Two cases are told apart and not *)
(* claimed, for there the data comes back: "late", invalidated between the *)
(* comparison and the store; and "mixed", where invalidate_all has reset   *)
(* key_generation to what the task began with, or generation(), which      *)
(* reads the pair in two steps, finds the old global and the reset key.    *)
(***************************************************************************)
VoidedIsDiscarded == \A k \in DOMAIN entries : entries[k].void \notin {"key", "all"}

(***************************************************************************)
(* A step that replaces a versioned entry by a versioned entry never goes  *)
(* back to an older version nor swaps the content of a version.            *)
(***************************************************************************)
VersionsNeverRollBack ==
    [][\A k \in DOMAIN entries \cap DOMAIN entries' :
          entries[k].version # Unversioned /\ entries'[k].version # Unversioned =>
              \/ entries'[k].version > entries[k].version
              \/ entries'[k].version = entries[k].version /\ entries'[k].value = entries[k].value]_vars

(***************************************************************************)
(* Eviction keeps the cache within its limits (a single entry may exceed   *)
(* max_bytes), and it does not drop the entry that a refresh has just      *)
(* stored, which the waiting get is about to read, unless another one was  *)
(* accessed between the refresh's look at the clock and its store.         *)
(***************************************************************************)
EvictionKeepsTheNewest ==
    [][/\ Fits(entries', DOMAIN entries') \/ Cardinality(DOMAIN entries') = 1
       /\ \A t \in Task : Store(t) /\ (\A x \in Items : <<t, x>> \notin older) =>
                              task[t].key \in DOMAIN entries']_vars

\* A get that waits for a refresh returns, whatever becomes of the refresh.
GetsReturn == \A c \in Caller : caller[c].pc = "waiting" ~> caller[c].pc = "idle"
=============================================================================
