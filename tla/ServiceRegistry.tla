-------------------------- MODULE ServiceRegistry --------------------------
(***************************************************************************)
(* The service registry actor of src/src/controller/service_registry.rs.   *)
(*                                                                         *)
(* RegistryState is the record reg; handle, replace_backend_ready, apply   *)
(* and plan are operators from states to states, as in the code.  The      *)
(* actor runs one of them to completion per turn of its select loop and    *)
(* then always pumps, so every action below ends in Pump.                  *)
(*                                                                         *)
(* The DHT jobs the actor spawns run concurrently with it.  A job is       *)
(* queued until the Swarm actor takes its command, then running until      *)
(* Kademlia answers, then finished until the registry joins it; reload     *)
(* (Reset) aborts the unfinished ones, which still occupy a slot until     *)
(* they are joined.                                                        *)
(*                                                                         *)
(* Service names are integers: the only thing the code does with a name    *)
(* is to compare and to sort.  An Instant is only ever compared with now,  *)
(* so an Option<Instant> is a Timer: unset, later or due.                  *)
(***************************************************************************)
EXTENDS Integers, FiniteSets

CONSTANTS
    Service,        \* the configured local services with a valid name
    TypeName,       \* every service name that may occur in the types record
    MaxInflight,    \* registry_max_inflight_dht clamped to 1..16
    MaxTypes,       \* MAX_TYPES
    EncodeCap,      \* how many names fit in compat.max_record_bytes
    MaxRelays,      \* bound: relays that are active at the same time
    MaxGeneration   \* bound: reloads of one behaviour

ASSUME ServiceAssumption == /\ Service \subseteq TypeName
                            /\ TypeName \subseteq Nat \ {0}
                            /\ IsFiniteSet(TypeName)
ASSUME BoundAssumption   == /\ MaxInflight \in 1..16
                            /\ {MaxTypes, EncodeCap, MaxRelays, MaxGeneration} \subseteq Nat

VARIABLES
    reg,        \* the actor's RegistryState
    jobs,       \* the JoinSet: the number of tasks of each job in it
    provided,   \* local provider records in the Swarm's Kademlia store
    reset_due   \* the Swarm was rebuilt and Reset has not been handled yet

vars == <<reg, jobs, provided, reset_due>>

Timer == {"unset", "later", "due"}
Reconcile == {"Idle", "Reading", "ReadyToWrite", "Writing"}
Kind == {"Announce", "Withdraw", "ReadTypes", "WriteTypes"}
Phase == {"queued", "running", "ok", "err", "cancelled"}
NoService == 0

(***************************************************************************)
(* JobSpec and JobResult in one record: types is the value a WriteTypes    *)
(* job writes or a finished ReadTypes job has read.                        *)
(***************************************************************************)
Job == [kind : Kind, generation : Nat, service : Service \cup {NoService},
        types : SUBSET TypeName, phase : Phase]

(***************************************************************************)
(* An optional value is the set of the values it holds: at most one.       *)
(* announce_failures is left out: it only selects how far away a retry is. *)
(***************************************************************************)
RegistryState ==
    [bootstrapped : BOOLEAN, need_relay : BOOLEAN, active_relays : Nat,
     backend_ready : SUBSET Service, announced : SUBSET Service,
     withdraw_deadline : [Service -> Timer], relay_withdraw : SUBSET Service,
     relay_withdraw_retry_at : [Service -> Timer],
     announce_inflight : SUBSET Service, withdraw_inflight : SUBSET Service,
     announce_retry_at : [Service -> Timer], known_types : SUBSET TypeName,
     reconcile : Reconcile, reconcile_dirty : BOOLEAN, next_types_sync : Timer,
     pending_types_write : SUBSET SUBSET TypeName, generation : Nat]

AllUnset == [s \in Service |-> "unset"]

\* RegistryState::new, then the initial readiness that run() installs.
NewState(ready) ==
    [bootstrapped |-> FALSE, need_relay |-> FALSE, active_relays |-> 0,
     backend_ready |-> ready, announced |-> {},
     withdraw_deadline |-> AllUnset, relay_withdraw |-> {},
     relay_withdraw_retry_at |-> AllUnset,
     announce_inflight |-> {}, withdraw_inflight |-> {},
     announce_retry_at |-> AllUnset, known_types |-> {},
     reconcile |-> "Idle", reconcile_dirty |-> FALSE, next_types_sync |-> "unset",
     pending_types_write |-> {}, generation |-> 0]

-----------------------------------------------------------------------------
(* Helpers                                                                 *)

\* The timers of f with those of S set to t.
Arm(f, S, t) == [s \in Service |-> IF s \in S THEN t ELSE f[s]]

\* The first n elements of S in sorted order.
First(S, n) == {s \in S : Cardinality({t \in S : t < s}) < n}

relay_ready(r) == ~r.need_relay \/ r.active_relays > 0

mark_types_dirty(r) ==
    [r EXCEPT !.reconcile_dirty = TRUE,
              !.next_types_sync = IF r.reconcile = "Idle" THEN "due" ELSE @]

\* Mutant of MergedTypes: the MAX_TYPES test is missing.
MergedTypesUncapped(known, incoming) == {known \cup incoming}

\* The sets merge_type_set can leave: the order of incoming is not determined,
\* so any of its names may be the ones for which there is no room.
MergedTypes(known, incoming) ==
    LET new  == incoming \ known
        room == IF Cardinality(known) < MaxTypes THEN MaxTypes - Cardinality(known) ELSE 0
    IN  {known \cup X : X \in {Y \in SUBSET new :
            Cardinality(Y) = IF Cardinality(new) <= room THEN Cardinality(new) ELSE room}}

\* The names encode_types_limited keeps; a list of strings always encodes.
EncodedTypes(known) == First(known, EncodeCap)

-----------------------------------------------------------------------------
(* handle and replace_backend_ready                                        *)

HandleBootstrapCompleted(r) ==
    mark_types_dirty([r EXCEPT !.bootstrapped = TRUE, !.announced = {},
                               !.announce_retry_at = AllUnset])

HandleReannounce(r) ==
    mark_types_dirty([r EXCEPT !.announced = {}, !.announce_retry_at = AllUnset])

HandleRefreshTypes(r) == mark_types_dirty(r)

\* Mutant: the transitions between ready and not ready are not handled.
RelayStateStoredOnly(r, need, active) ==
    [r EXCEPT !.need_relay = need, !.active_relays = active]

HandleRelayStateChanged(r, need, active) ==
    LET q == [r EXCEPT !.need_relay = need, !.active_relays = active]
    IN  CASE relay_ready(r) = relay_ready(q) -> q
          [] ~relay_ready(r) /\ relay_ready(q) ->
               [q EXCEPT !.announced = {}, !.announce_retry_at = AllUnset,
                         !.relay_withdraw = {}, !.relay_withdraw_retry_at = AllUnset]
          [] relay_ready(r) /\ ~relay_ready(q) ->
               [q EXCEPT !.relay_withdraw = @ \cup r.announced \cup r.announce_inflight,
                         !.announce_retry_at = AllUnset]

\* Mutants of HandleReset: one field of the old state is kept, or not carried over.
ResetKeepsRetries(r) ==
    [NewState(r.backend_ready) EXCEPT !.generation = r.generation + 1,
                                      !.known_types = r.known_types,
                                      !.announce_retry_at = r.announce_retry_at]

ResetKeepsMarkers(r) ==
    [NewState(r.backend_ready) EXCEPT !.generation = r.generation + 1,
                                      !.known_types = r.known_types,
                                      !.announce_inflight = r.announce_inflight]

ResetForgetsTypes(r) ==
    [NewState(r.backend_ready) EXCEPT !.generation = r.generation + 1]

HandleReset(r) ==
    [NewState(r.backend_ready) EXCEPT !.generation = r.generation + 1,
                                      !.need_relay = r.need_relay,
                                      !.known_types = r.known_types]

\* Mutant: a lost backend starts no grace period.
BackendLossNoDeadline(r, ready) ==
    [r EXCEPT !.backend_ready = ready,
              !.withdraw_deadline = Arm(@, ready \ r.backend_ready, "unset")]

replace_backend_ready(r, ready) ==
    LET up   == ready \ r.backend_ready
        down == r.backend_ready \ ready
        grace == {s \in down \cap r.announced : r.withdraw_deadline[s] = "unset"}
    IN  [r EXCEPT !.backend_ready = ready,
                  !.announce_retry_at = Arm(@, up \cup down, "unset"),
                  !.withdraw_deadline = Arm(Arm(@, up, "unset"), grace, "later")]

-----------------------------------------------------------------------------
(* plan: withdrawals, announcement retries, new announcements and the      *)
(* reconcile chain, in this order, each with the slots that are left.      *)

inflight(r) == r.announce_inflight \cup r.withdraw_inflight

NewJob(r, kind, s, types) ==
    [kind |-> kind, generation |-> r.generation, service |-> s,
     types |-> types, phase |-> "queued"]

\* Withdrawals whose deadline has passed, or that a lost relay forces.
DueWithdrawals(r) ==
    {s \in Service : r.withdraw_deadline[s] = "due" /\ s \notin r.backend_ready}
    \cup {s \in r.relay_withdraw : r.relay_withdraw_retry_at[s] # "later"}

\* Announcements whose retry is due; bootstrapped is not asked for here.
DueRetries(r) ==
    {s \in r.backend_ready \ (r.announced \cup r.relay_withdraw) :
        relay_ready(r) /\ r.announce_retry_at[s] = "due"}

\* Local services that are ready and not announced yet.  The code goes through
\* them as they are configured, which is taken to be the order of their names.
NewAnnouncements(r) ==
    {s \in r.backend_ready \ r.announced :
        r.bootstrapped /\ relay_ready(r) /\ r.announce_retry_at[s] # "later"}

\* The reconcile chain takes its next step if there is a slot for it.
PlanReconcile(r, slots) ==
    CASE slots > 0 /\ r.reconcile = "Idle" /\ (r.reconcile_dirty \/ r.next_types_sync = "due") ->
           [state |-> [r EXCEPT !.next_types_sync = "unset", !.reconcile = "Reading",
                                !.reconcile_dirty = FALSE],
            jobs  |-> {NewJob(r, "ReadTypes", NoService, {})}]
      [] slots > 0 /\ r.reconcile = "ReadyToWrite" ->
           [state |-> [r EXCEPT !.pending_types_write = {},
                                !.reconcile = IF r.pending_types_write = {} THEN "Idle" ELSE "Writing"],
            jobs  |-> {NewJob(r, "WriteTypes", NoService, value) : value \in r.pending_types_write}]
      [] OTHER -> [state |-> r, jobs |-> {}]

plan(r, slots) ==
    LET W == First(DueWithdrawals(r) \ inflight(r), slots)
        R == First(DueRetries(r) \ (inflight(r) \cup W), slots - Cardinality(W))
        A == First(NewAnnouncements(r) \ (inflight(r) \cup W \cup R),
                   slots - Cardinality(W) - Cardinality(R))
        T == PlanReconcile(r, slots - Cardinality(W) - Cardinality(R) - Cardinality(A))
    IN  [state |-> [T.state EXCEPT !.withdraw_deadline = Arm(@, W, "unset"),
                                   !.relay_withdraw_retry_at = Arm(@, W, "unset"),
                                   !.withdraw_inflight = @ \cup W,
                                   !.announce_retry_at = Arm(@, R \cup A, "unset"),
                                   !.announce_inflight = @ \cup R \cup A],
         jobs  |-> {NewJob(r, "Withdraw", s, {}) : s \in W}
                   \cup {NewJob(r, "Announce", s, {}) : s \in R \cup A}
                   \cup T.jobs]

-----------------------------------------------------------------------------
(* apply                                                                   *)

\* Mutant: a failed announcement is dropped with its marker still set.
FailedAnnounceKeepsMarker(r, j) ==
    IF j.phase = "err" THEN r
    ELSE mark_types_dirty([r EXCEPT !.announce_inflight = @ \ {j.service},
                                    !.announced = @ \cup {j.service}])

ApplyAnnounced(r, j) ==
    LET s == j.service
        q == [r EXCEPT !.announce_inflight = @ \ {s}]
        serving == s \in r.backend_ready /\ r.bootstrapped
        done == mark_types_dirty([q EXCEPT !.announce_retry_at = Arm(@, {s}, "unset"),
                                           !.announced = @ \cup {s}])
    IN  CASE j.generation # r.generation -> q
          [] j.generation = r.generation /\ j.phase = "ok" /\ ~relay_ready(r) ->
               [done EXCEPT !.relay_withdraw = @ \cup {s}]
          [] j.generation = r.generation /\ j.phase = "ok" /\ relay_ready(r) ->
               [done EXCEPT !.withdraw_deadline = IF serving THEN @ ELSE Arm(@, {s}, "due")]
          [] j.generation = r.generation /\ j.phase = "err" ->
               [q EXCEPT !.announce_retry_at = IF serving THEN Arm(@, {s}, "later") ELSE @]

ApplyWithdrawn(r, j) ==
    LET s == j.service
        q == [r EXCEPT !.withdraw_inflight = @ \ {s}]
    IN  CASE j.generation # r.generation -> q
          [] j.generation = r.generation /\ j.phase = "ok" ->
               [q EXCEPT !.announced = @ \ {s}, !.relay_withdraw = @ \ {s},
                         !.relay_withdraw_retry_at = Arm(@, {s}, "unset"),
                         !.announce_retry_at = IF s \in r.backend_ready /\ relay_ready(r)
                                               THEN Arm(@, {s}, "due") ELSE @]
          [] j.generation = r.generation /\ j.phase = "err" /\ s \in r.relay_withdraw ->
               [q EXCEPT !.relay_withdraw_retry_at = Arm(@, {s}, "later")]
          [] j.generation = r.generation /\ j.phase = "err" /\ s \notin r.relay_withdraw ->
               IF s \in r.backend_ready
               THEN [q EXCEPT !.announce_retry_at = Arm(@, {s}, "due")]
               ELSE [q EXCEPT !.withdraw_deadline = Arm(@, {s}, "later")]

\* Mutant: the next run is only scheduled when the chain is dirty.
ReconcileIdleUnscheduled(r) ==
    [r EXCEPT !.reconcile = "Idle", !.pending_types_write = {}, !.reconcile_dirty = FALSE,
              !.next_types_sync = IF r.reconcile_dirty THEN "due" ELSE "unset"]

\* The end of a reconcile chain: wait, or rerun at once if dirty.
ReconcileIdle(r) ==
    [r EXCEPT !.reconcile = "Idle", !.pending_types_write = {}, !.reconcile_dirty = FALSE,
              !.next_types_sync = IF r.reconcile_dirty THEN "due" ELSE "later"]

\* known is what the two merges of the network's and the announced names leave.
ApplyTypesRead(r, j, known) ==
    CASE j.generation # r.generation \/ r.reconcile # "Reading" -> r
      [] j.generation = r.generation /\ r.reconcile = "Reading" /\ j.phase = "ok" ->
           IF known = {} \/ known = j.types
           THEN ReconcileIdle([r EXCEPT !.known_types = known])
           ELSE [r EXCEPT !.known_types = known, !.reconcile = "ReadyToWrite",
                          !.pending_types_write = {EncodedTypes(known)},
                          !.reconcile_dirty = FALSE]
      [] j.generation = r.generation /\ r.reconcile = "Reading" /\ j.phase = "err" ->
           ReconcileIdle(r)

ApplyTypesWritten(r, j) ==
    IF j.generation # r.generation \/ r.reconcile # "Writing" THEN r ELSE ReconcileIdle(r)

\* The states apply can leave; a cancelled job has no result to apply.
apply(r, j) ==
    CASE j.phase = "cancelled" -> {r}
      [] j.phase # "cancelled" /\ j.kind = "Announce"   -> {ApplyAnnounced(r, j)}
      [] j.phase # "cancelled" /\ j.kind = "Withdraw"   -> {ApplyWithdrawn(r, j)}
      [] j.phase # "cancelled" /\ j.kind = "WriteTypes" -> {ApplyTypesWritten(r, j)}
      [] j.phase # "cancelled" /\ j.kind = "ReadTypes"  ->
           {ApplyTypesRead(r, j, known) :
               known \in UNION {MergedTypes(k, r.announced) : k \in MergedTypes(r.known_types, j.types)}}

-----------------------------------------------------------------------------
(* The actor: one action per arm of the select loop in run()               *)

\* How many tasks of job j the JoinSet b holds.
Copies(j, b) == IF j \in DOMAIN b THEN b[j] ELSE 0

\* The JoinSet: empty, with a new task for each job of S, without one task of j.
NoJobs == [j \in {} |-> 0]

With(b, S) == [j \in DOMAIN b \cup S |-> Copies(j, b) + IF j \in S THEN 1 ELSE 0]

Without(b, j) ==
    [k \in {i \in DOMAIN b : i # j \/ b[i] > 1} |-> IF k = j THEN b[k] - 1 ELSE b[k]]

\* The tasks in the JoinSet b: the copies of a job are told apart by a number.
Tasks(b) == UNION {{j} \X (1..b[j]) : j \in DOMAIN b}

\* The jobs that pump may still spawn.
Slots(b) == IF Cardinality(Tasks(b)) < MaxInflight THEN MaxInflight - Cardinality(Tasks(b)) ELSE 0

\* pump, after a handler that leaves one of the given states and the JoinSet b.
Pump(states, b) ==
    \E r \in states : \E p \in {plan(r, Slots(b))} :
        /\ reg' = p.state
        /\ jobs' = With(b, p.jobs)

BootstrapCompleted ==
    /\ Pump({HandleBootstrapCompleted(reg)}, jobs)
    /\ UNCHANGED <<provided, reset_due>>

Tick ==
    /\ Pump({reg}, jobs)
    /\ UNCHANGED <<provided, reset_due>>

Reannounce ==
    /\ Pump({HandleReannounce(reg)}, jobs)
    /\ UNCHANGED <<provided, reset_due>>

RefreshTypes ==
    /\ Pump({HandleRefreshTypes(reg)}, jobs)
    /\ UNCHANGED <<provided, reset_due>>

RelayStateChanged(need, active) ==
    /\ Pump({HandleRelayStateChanged(reg, need, active)}, jobs)
    /\ UNCHANGED <<provided, reset_due>>

\* The JoinSet b with every job that is in phase from moved to phase to.
Rephase(b, from, to) ==
    [j \in {IF k.phase = from THEN [k EXCEPT !.phase = to] ELSE k : k \in DOMAIN b} |->
        Copies(j, b) + IF j.phase = to THEN Copies([j EXCEPT !.phase = from], b) ELSE 0]

\* JoinSet::abort_all: what has not finished is cancelled and still joined.
AbortAll(b) == Rephase(Rephase(b, "queued", "cancelled"), "running", "cancelled")

\* abort_all does not take back a command that a queued job has already sent,
\* and the Swarm actor takes it before those of later jobs: each such provider
\* record may still come or go.
Unrevoked(kind) == {j.service : j \in {k \in DOMAIN jobs : k.phase = "queued" /\ k.kind = kind}}

\* The controller sends Reset once the Swarm has been rebuilt.
Reset ==
    /\ reset_due
    /\ Pump({HandleReset(reg)}, AbortAll(jobs))
    /\ reset_due' = FALSE
    /\ \E up \in SUBSET Unrevoked("Announce"), down \in SUBSET Unrevoked("Withdraw") :
          provided' = (provided \cup up) \ down

ReadinessChanged(ready) ==
    /\ ready # reg.backend_ready
    /\ Pump({replace_backend_ready(reg, ready)}, jobs)
    /\ UNCHANGED <<provided, reset_due>>

\* join_next: a cancelled job leaves no result.
Join(j) ==
    /\ j.phase \in {"ok", "err", "cancelled"}
    /\ Pump(apply(reg, j), Without(jobs, j))
    /\ UNCHANGED <<provided, reset_due>>

-----------------------------------------------------------------------------
(* The Swarm actor, as far as the registry's jobs see it, and time         *)

Advance(j, k) == jobs' = With(Without(jobs, j), {k})

\* The Swarm actor takes the job's command.  start_providing puts the provider
\* record into the local store at once; stop_providing is answered at once.
Execute(j) ==
    /\ j.phase = "queued"
    /\ Advance(j, [j EXCEPT !.phase = IF j.kind = "Withdraw" THEN "ok" ELSE "running"])
    /\ provided' = CASE j.kind = "Announce" -> provided \cup {j.service}
                     [] j.kind = "Withdraw" -> provided \ {j.service}
                     [] OTHER -> provided
    /\ UNCHANGED <<reg, reset_due>>

\* The command is refused (Kademlia disabled, store full, actor gone).
Refuse(j) ==
    /\ j.phase = "queued"
    /\ Advance(j, [j EXCEPT !.phase = "err"])
    /\ UNCHANGED <<reg, provided, reset_due>>

\* parse_types: at most MAX_TYPES names of a record are taken.
ReadableTypes == {T \in SUBSET TypeName : Cardinality(T) <= MaxTypes}

\* The query ends.  What a read returns is any set of names the network holds.
Succeed(j) ==
    /\ j.phase = "running"
    /\ \E types \in IF j.kind = "ReadTypes" THEN ReadableTypes ELSE {j.types} :
           Advance(j, [j EXCEPT !.phase = "ok", !.types = types])
    /\ UNCHANGED <<reg, provided, reset_due>>

Fail(j) ==
    /\ j.phase = "running"
    /\ Advance(j, [j EXCEPT !.phase = "err"])
    /\ UNCHANGED <<reg, provided, reset_due>>

\* SwarmActor::reload: a new Swarm with an empty store; running queries fail.
SwarmReload ==
    /\ ~reset_due
    /\ reg.generation < MaxGeneration
    /\ jobs' = Rephase(jobs, "running", "err")
    /\ provided' = {}
    /\ reset_due' = TRUE
    /\ UNCHANGED reg

\* Time passes: a deadline that lay ahead is reached.
TimerField == {"withdraw_deadline", "relay_withdraw_retry_at", "announce_retry_at"}

Elapse(f, s) ==
    /\ reg[f][s] = "later"
    /\ reg' = [reg EXCEPT ![f][s] = "due"]
    /\ UNCHANGED <<jobs, provided, reset_due>>

ElapseSync ==
    /\ reg.next_types_sync = "later"
    /\ reg' = [reg EXCEPT !.next_types_sync = "due"]
    /\ UNCHANGED <<jobs, provided, reset_due>>

-----------------------------------------------------------------------------

Init ==
    /\ \E ready \in SUBSET Service : reg = NewState(ready)
    /\ jobs = NoJobs
    /\ provided = {}
    /\ reset_due = FALSE

Command ==
    \/ BootstrapCompleted
    \/ Tick
    \/ Reannounce
    \/ RefreshTypes
    \/ \E need \in BOOLEAN, active \in 0..MaxRelays : RelayStateChanged(need, active)
    \/ Reset

JobStep(j) == Execute(j) \/ Refuse(j) \/ Succeed(j) \/ Fail(j) \/ Join(j)

Next ==
    \/ Command
    \/ \E ready \in SUBSET Service : ReadinessChanged(ready)
    \/ \E j \in DOMAIN jobs : JobStep(j)
    \/ SwarmReload
    \/ \E f \in TimerField, s \in Service : Elapse(f, s)
    \/ ElapseSync

Spec == Init /\ [][Next]_vars

(***************************************************************************)
(* What the runtime guarantees: the controller's Tick and Reset arrive,    *)
(* time passes, and every spawned job is taken by the Swarm actor, ends    *)
(* (Kademlia queries time out) and is joined.  What the network is assumed *)
(* to do: an operation that is retried for ever succeeds some time.        *)
(***************************************************************************)
JobsFor(kind, s) == {j \in DOMAIN jobs : j.kind = kind /\ j.service = s}

JobFairness(kind, s) ==
    /\ WF_vars(\E j \in JobsFor(kind, s) : JobStep(j))
    /\ SF_vars(\E j \in JobsFor(kind, s) : Execute(j))
    /\ SF_vars(\E j \in JobsFor(kind, s) : Succeed(j))

Fairness ==
    /\ WF_vars(Tick)
    /\ WF_vars(Reset)
    /\ WF_vars(ElapseSync)
    /\ \A f \in TimerField, s \in Service : WF_vars(Elapse(f, s))
    /\ \A kind \in {"Announce", "Withdraw"}, s \in Service : JobFairness(kind, s)
    /\ \A kind \in {"ReadTypes", "WriteTypes"} : JobFairness(kind, NoService)

FairSpec == Spec /\ Fairness

-----------------------------------------------------------------------------
(* Properties                                                              *)

\* The jobs of the current generation of the given kinds that will still
\* deliver a result.
LiveJobs(kinds) ==
    {j \in DOMAIN jobs : /\ j.kind \in kinds
                         /\ j.generation = reg.generation
                         /\ j.phase # "cancelled"}

HasJob(kind, s) == \E j \in LiveJobs({kind}) : j.service = s

(***************************************************************************)
(* Every field keeps its type, the JoinSet holds jobs of this or an        *)
(* earlier generation, and merge_type_set keeps known_types within         *)
(* MAX_TYPES.                                                              *)
(***************************************************************************)
StateOK(r) == r \in RegistryState /\ Cardinality(r.known_types) <= MaxTypes

JobsOK(b, generation) ==
    \A j \in DOMAIN b :
        /\ j \in Job
        /\ j.generation <= generation
        /\ j.kind \in {"Announce", "Withdraw"} <=> j.service # NoService
        /\ b[j] \in Nat \ {0}

TypeOK ==
    /\ StateOK(reg)
    /\ JobsOK(jobs, reg.generation)
    /\ provided \subseteq Service
    /\ reset_due \in BOOLEAN

(***************************************************************************)
(* Before the DHT is bootstrapped (at start, and again after every reload) *)
(* the registry has no announcement, no marker, no timer and no live       *)
(* provider job left over: whatever arrives late from an earlier           *)
(* generation puts nothing back.  The retry stage of plan() relies on it,  *)
(* for it does not test bootstrapped.                                      *)
(***************************************************************************)
NothingBeforeBootstrap ==
    ~reg.bootstrapped =>
        /\ reg.announced = {} /\ reg.relay_withdraw = {}
        /\ reg.announce_inflight = {} /\ reg.withdraw_inflight = {}
        /\ reg.withdraw_deadline = AllUnset
        /\ reg.announce_retry_at = AllUnset
        /\ LiveJobs({"Announce", "Withdraw"}) = {}

(***************************************************************************)
(* RelayStateChanged: while no relay is active every announced service is  *)
(* in the forced-withdrawal set, however late its announcement succeeded;  *)
(* while one is active the set is empty, so the announcing stage, which    *)
(* does not look at the set, never races a forced withdrawal that is still *)
(* pending.                                                                *)
(***************************************************************************)
RelayGate ==
    IF relay_ready(reg)
    THEN reg.relay_withdraw = {}
    ELSE reg.announced \subseteq reg.relay_withdraw

\* The two gates of plan(), bootstrap and relay, leave nothing behind them.
Gates == NothingBeforeBootstrap /\ RelayGate

(***************************************************************************)
(* A service recorded as announced whose backend is down always has its    *)
(* withdrawal under way: a deadline, the forced set or a live Withdraw     *)
(* job.  Late announcements, failed withdrawals and flapping backends must *)
(* not lose it.                                                            *)
(***************************************************************************)
WithdrawalScheduled ==
    \A s \in reg.announced \ reg.backend_ready :
        \/ reg.withdraw_deadline[s] # "unset"
        \/ s \in reg.relay_withdraw
        \/ HasJob("Withdraw", s)

(***************************************************************************)
(* An in-flight marker keeps plan() from touching the service, so a marker *)
(* without a job that will still report would block it for ever.           *)
(***************************************************************************)
MarkersHaveJobs ==
    /\ \A s \in reg.announce_inflight : HasJob("Announce", s)
    /\ \A s \in reg.withdraw_inflight : HasJob("Withdraw", s)

(***************************************************************************)
(* The reconcile chain is single-flight: the state of reconcile says       *)
(* exactly which types job of this generation is live, and there is never  *)
(* a second one, even when a reload abandons a chain half way.             *)
(***************************************************************************)
ReconcileSingleFlight ==
    LET Live(kind) == LiveJobs({kind})
    IN  /\ reg.reconcile = "Reading" <=> Live("ReadTypes") # {}
        /\ reg.reconcile = "Writing" <=> Live("WriteTypes") # {}
        /\ reg.reconcile = "ReadyToWrite" <=> reg.pending_types_write # {}
        /\ Cardinality(LiveJobs({"ReadTypes", "WriteTypes"})) <= 1
        /\ \A j \in LiveJobs({"ReadTypes", "WriteTypes"}) : jobs[j] = 1

(***************************************************************************)
(* Once bootstrapped an idle reconcile chain always has its next run       *)
(* scheduled: no way through read, write, failure and dirty reruns loses   *)
(* the timer.                                                              *)
(***************************************************************************)
SyncScheduled ==
    reg.bootstrapped /\ reg.reconcile = "Idle" =>
        reg.reconcile_dirty \/ reg.next_types_sync # "unset"

\* No retry, deadline or timer that the registry relies on is ever lost:
\* neither that of a withdrawal nor that of the next reconcile run.
WorkIsScheduled == WithdrawalScheduled /\ SyncScheduled

\* The JoinSet never holds more than max_inflight_dht jobs, the aborted ones
\* that pump() still has to count included.
InflightBound == Cardinality(Tasks(jobs)) <= MaxInflight

\* The markers and the reconcile state tell the jobs that run, within the bound.
JobsMatchMarkers == MarkersHaveJobs /\ ReconcileSingleFlight /\ InflightBound

Spawned(kind) == {j \in DOMAIN jobs' : j.kind = kind /\ j.phase = "queued"
                                      /\ Copies(j, jobs') > Copies(j, jobs)}

(***************************************************************************)
(* pump() spawns an announcement only for a service whose backend is ready *)
(* and that is not announced, on a bootstrapped DHT and with a relay where *)
(* one is needed - through either of the two announcing stages of plan().  *)
(***************************************************************************)
AnnounceOnlyWhenServing ==
    [][\A j \in Spawned("Announce") :
          /\ j.service \in reg'.backend_ready \ reg'.announced
          /\ reg'.bootstrapped
          /\ relay_ready(reg')]_vars

\* known_types is a monotone union: no result, command or reload removes a name.
KnownTypesGrow == [][reg.known_types \subseteq reg'.known_types]_vars

(***************************************************************************)
(* A service whose backend stays ready while the DHT is bootstrapped and   *)
(* reachable keeps being announced: failed announcements, withdrawals that *)
(* were under way and re-announcements do not leave it behind.             *)
(***************************************************************************)
ServingIsAnnounced ==
    \A s \in Service :
        <>[](s \in reg.backend_ready /\ reg.bootstrapped /\ relay_ready(reg))
            => []<>(s \in reg.announced)

(***************************************************************************)
(* A service whose backend stays down, or that stays without a relay, is   *)
(* in the end no longer recorded as announced.                             *)
(***************************************************************************)
DownIsWithdrawn ==
    \A s \in Service :
        <>[](s \notin reg.backend_ready \/ ~relay_ready(reg)) => <>[](s \notin reg.announced)

\* What is announced follows what is served, in both directions.
AnnouncementsConverge == ServingIsAnnounced /\ DownIsWithdrawn

(***************************************************************************)
(* A service that stays announced gets into known_types (where there is    *)
(* room): an announcement that lands in the middle of a reconcile chain is *)
(* picked up by this chain or by the rerun reconcile_dirty asks for.       *)
(***************************************************************************)
AnnouncedIsIndexed ==
    \A s \in Service :
        <>[](s \in reg.announced) => <>(s \in reg.known_types)

-----------------------------------------------------------------------------
(* Statements of the documents that the code does not keep                 *)

(***************************************************************************)
(* docs/service-registry.md: a reload's new generation invalidates the     *)
(* results of old jobs.  Joining one should do what joining a cancelled    *)
(* job does.  apply() removes the in-flight marker before it compares the  *)
(* generations, and the marker may be that of a new job.                   *)
(***************************************************************************)
StaleResultsAreInert ==
    [][\A j \in DOMAIN jobs :
          Join(j) /\ j.generation # reg.generation => Pump({reg}, Without(jobs, j))]_vars

(***************************************************************************)
(* README.md: a service whose backend stays disconnected past the grace    *)
(* period is withdrawn with stop_providing.  Reannounce and                *)
(* BootstrapCompleted drop the entry of announced; when the announcement   *)
(* that follows fails, the loss of the backend finds nothing to withdraw   *)
(* and the service stays provided.                                         *)
(***************************************************************************)
BackendLossStopsProviding ==
    \A s \in Service : <>[](s \notin reg.backend_ready) => <>[](s \notin provided)

=============================================================================
