# NexusNet: TLA+ models, checks and proofs

This directory holds a verification project for the NexusNet node (`src/`): TLA+
modules translated from the Rust source, TLC configurations that check them on
small instances, and TLAPS proofs of theorems that hold for every instance.
`PROJECT.json` is the machine-readable index: components, runs, mutants, the map
from definitions to source lines, findings, hazards and theorems.

## 1. The system

A node joins a libp2p overlay, announces the local services it serves in a
Kademlia DHT, answers requests of remote peers by handing them to local backend
processes over TCP, and lets those backends use the network through control
commands. Everything runs in one process as a set of tokio tasks:

| Part | Source | Runs as | Module |
|---|---|---|---|
| Swarm actor and `NetworkHandle` | `network/actor.rs` | one task that owns the swarm | `SwarmActor` |
| Node controller | `controller/node_controller.rs` | one task, one `select!` loop | `InboundPipeline` (requests), `RelayManager` (network events), `ControlCommands` (commands) |
| Control commands | `controller/command.rs` | the controller's task and up to 16 DHT workers | `ControlCommands` |
| Relay manager, bootstrap discovery | `controller/relay_manager.rs`, `bootstrap.rs` | called by the controller | `RelayManager` |
| Service registry | `controller/service_registry.rs` | one task plus up to 16 DHT jobs | `ServiceRegistry` |
| Authorisation gate | `controller/auth_gate.rs`, `auth.rs` | four worker tasks | `AuthGate`, the workers in `InboundPipeline` |
| DHT cache | `dht_cache.rs` | shared by threads, one task per refresh | `DhtCache` |
| Service dispatcher | `service_dispatcher.rs` | a router, a task per backend, a task per command | `ServiceDispatcher` |
| Start, configuration, keys, addresses | `main.rs`, `config.rs`, `network/identity.rs`, `addr.rs` | once, at start; `config.rs` also saves later | `NodeStart`, `NodeIdentity` |
| Log | `log.rs` | every thread, and one that rotates | `LogRotation` |
| Peer tracker | `controller/peer_tracker.rs` | called by the controller | a choice among candidates in `ControlCommands` |
| DHT fetchers | `controller/dht_fetchers.rs` | stateless adapters | - |
| Swarm construction | `network/builder.rs`, `behaviour.rs` | at start and in a reload | the fresh swarm of `SwarmActor` |
| PQ envelopes, COSE | `network/pq.rs`, `cose.rs` | pure computation | a choice: works or fails |
| Wire formats | `service_protocol.rs`, `sidecar_protocol.rs` | codecs | message kinds only |
| Paths, limits | `paths.rs`, `limits.rs` | - | - |
| Interface addresses | `vendor/get_if_addrs` | OS binding | - |

How they interact:

```
 peers <-> swarm --events--> controller --commands--> service registry --DHT jobs--> swarm
            ^                 |   |  ^                      ^
            |        relay ---+   |  | control commands     | readiness
            |        bootstrap    v  |                      |
            +--responses-- auth workers --requests--> dispatcher <--TCP--> backends
                              |
                           DHT caches --fetches--> swarm
```

The reload is the hardest operation: the swarm actor replaces the swarm, and the
controller then resets the relay manager, the bootstrap state, the registry, the
gate and the caches, one after the other, while events and job results of the
old swarm are still under way. The models of the swarm actor, the relays, the
registry and the gate each contain it.

## 2. Modules

Names follow the source wherever TLA+ allows it; the map in `PROJECT.json` gives
the lines of every definition. In each module a step is what one task does from
one point where it can be interrupted to the next, and an action is the whole
handler. Definitions whose comment begins with "The mutant" are deliberate bugs;
nothing uses them in the specification.

### ServiceRegistry
State: `reg` is `RegistryState` field by field; `jobs` the `JoinSet`, as the
number of tasks of each DHT job, with the generation it was spawned in; `provided` the provider
records in the swarm's store; `reset_due` the interval between the swarm's
rebuild and the registry's `Reset`. `Handle...`, `replace_backend_ready`,
`Apply...` and the `Plan...` stages are functions from states to states like the
methods they translate; every action ends in `Pump`, as every turn of `run()`
does. Jobs are queued, running, finished or aborted. An `Instant` is unset, later
or due; time moves by `Elapse` and `ElapseSync`.
Left out: the failure counter and the length of a retry (a timer just gets due),
the status snapshot, panics of a job, invalid service names. `encode_types_limited` is a
bound on how many names fit; its error (lines 586-596) is left out, for a list of
strings always encodes. New announcements are taken in the order of names, where
the code has the order of the configuration: the model assumes that the two agree.
`Reset` aborts the jobs, but not the commands they have already sent to the swarm
actor (`Unrevoked`): their provider records may still come or go.

### DhtCache
One step per critical section or atomic access: `get`, `refresh` and `peek` of
callers, the refresh task from spawn to its scope guard, `invalidate` and
`invalidate_all` in their separate halves. `older` is the order of
`last_access`. `void` is a history variable that records how a refresh was
overtaken by invalidations. Left out: `last_error`, which nothing reads; ties of
`last_access`; reorderings of the relaxed counter beyond the interleaving.

### ServiceDispatcher
The four bounded queues, the router, the backend tasks (connecting,
handshaking, announcing, serving, backing off) and the tasks spawned for control
commands. `job` and `command` say where a request or a command is. A full queue,
a closed channel, a disconnect with requests in flight and the shutdown order of
`main.rs` are all taken. When the controller returns (`ControllerExit`), so does
`main`: the other tasks may or may not take another step, and nothing forces them.
A write to a backend is one step, taken once there is room in the socket. Left out:
payloads, identifiers, error texts, the length of the backoff.

### AuthGate
`authorize()` for several workers at once, each with a program counter at every
point where it waits; the two caches reduced to what `DhtCache` promises; the
version floors; the clock; `select_index` as a function on sequences of records;
`invalidate_all` in two halves; a reload. Signatures are abstracted to whether a
document verifies; a document the authority never signed is `Invalid`. The check of
length and hash in `verify_whitelist` is in the choice of the list that
`RefreshWhitelist` may store: the one that the index of the key names, or none. The
configuration of a running node never changes, so the resolved state is chosen
once.

### RelayManager
The manager's sets, the bootstrap list and `is_bootstrap_provider`, what the
registry was told, the listeners of the current swarm by stage, and the queue of
events, each with the swarm (`epoch`) it came from - which the code cannot see.
Handlers of `node_controller.rs` and the reload of `command.rs` are actions.
A listener may close at each stage; before it has an address `ListenerClosed` names
no relay. `stale` and `silent` are history variables: relays put into `active` by an
event of a replaced swarm, and relays whose only circuit ended between the granted
reservation and its first address. Lengths of time are left out: a reservation may
become overdue, a backoff may end, at any moment.

### SwarmActor
The command queue, the callers that wait for a oneshot, the tables
`pending_kad`, `pending_outbound`, `pending_outbound_pq`, `pending_pq_identity`
and `pending_inbound`, the swarm with the work it really does and its numbering,
what is known of a peer, and inbound requests with the application behind them.
One peer with several connections and one record key stand for all. A caller that
gives up waiting is not modelled (its oneshot is ignored). That Identify is
reported only for a connected peer is an assumption about libp2p. Failures of
sealing, of the local store, and requests that are too large are choices.

### ControlCommands
`dispatch_command` and everything behind it. A command is queued, then either
gets a permit and runs as a DHT worker, or is refused, or takes the controller's
task for its whole length (`InlineKinds`). Each `await` is a place where others may
go on. The three caches (records, authorisation documents, providers) are reduced
to the entry, the refresh in flight and the queries they come from; `seen` of a
result is the set of commands whose change it reflects, `slipped` marks a result
that got past an invalidation inside the cache (section 3). `request_service` is
there with both attempts and both sends of each. Left out: the texts of answers,
listings, and commands that only read counters.

### InboundPipeline and InboundService
`InboundPipeline` extends `ServiceDispatcher` with the controller's `enqueue_auth`
(round robin over bounded queues), the auth workers and their wait for room in
the dispatcher, so a request is followed from its arrival to its answer.
`InboundService` is the abstract specification: per request one of `new`,
`accepted`, `authorized`, `delivered`, `ok`, `error`, which steps are allowed
between them, and that an answer comes unless the node is closing. The refinement
mapping (`Stage`) reads the stage of a request off the place of its job; `closing` is
`shutdown`.

### NodeStart and NodeIdentity
`main.rs` from the load of the configuration to the running node, one step per
file operation that can fail or be interrupted: completion of a partial
`config.toml`, backup of one that does not parse, the default written in place (and
possibly half), the keypair, the PQ keys, the public addresses, the save. The
operator may edit the file at any time, the host may get or lose an address at any
time, and the process may die at any step. A file is absent, not UTF-8, unparsable,
rejected by `validate`, incomplete or complete (`Form`); an edit stands for the values
it gives to the keys the node knows, so that the comments and unknown keys that
`save_to_default` drops are not told apart.
A later save of `bootstrap.rs` is an action too. `owed` and `raced` are history
variables. `NodeIdentity` says what the node promises about its keypair.

### LogRotation
Threads that emit, the throttled check with `ROLLING`, the rotation with the
repair of a leftover `log.tmp`, failures of every file operation, crashes. Files
are sets of entries. Whether `fs::rename` replaces an existing target depends on
the platform and is an initial choice. `written` and `dropped` are history
variables. Left out: levels, formatting, the names of archives, and a panic of
`thread::spawn` (`log.rs:328`), which would leave `ROLLING` set.

## 3. Runs

Passing runs (each takes between half a minute and three minutes on two cores):

| Run | Instance | What it shows |
|---|---|---|
| `registry` | one service, a foreign type name, two slots, one reload | The bookkeeping: jobs and markers match, the bootstrap and relay gates hold, no withdrawal and no write of the types record is forgotten, announcements start only where they should, types are never forgotten. |
| `registry_liveness` | one service, one slot | What should be announced, withdrawn or indexed in the end is. |
| `cache_invalidate` | one key, one caller, two refresh tasks, two tasks that invalidate, two invalidations | One refresh per key; a voided result is not kept; every get returns. |
| `reads` | cache: two keys, one caller, two refresh tasks, room for one entry; commands: two commands of any kinds, one or two permits | The cache never goes back to an older version and spares the entry just stored. After a change was acknowledged no cache serves what was read before it, a retry uses a fresh provider list, nobody waits for something that does not come. |
| `request_path` | gate: one service, two workers, three documents of which two conflict, up to three records in an answer; dispatcher: two backends, one request, one command, queues of length one | No rollback of a document, the list the index names decides, expired documents are refused, `select_index` returns the newest. Readiness follows the connections; each request is in exactly one place. |
| `inbound` | one backend, two auth workers, three requests, one command, all queues of length one | The pipeline implements `InboundService`: up to the shutdown every request is answered; commands settle; readiness converges. |
| `relay` | three relays, a target of two, one reload, one loss, one time-out | The registry never counts more relays than there are; confirmed relays are live; the target is reached; the bootstrap gate is right in the end. |
| `swarm_actor` | two calls, one inbound request, two connections, four configurations, two reloads, shutdown | No waiter is left behind, no request gets two responses, no failed value stays, a PQ identity goes with the peer, PQ where required. |
| `node_files` | log: two threads, three entries, two faults; start: two edits, two address families, two keys, one fault | No entry and no edit is lost but where the properties say so; the node runs as its files say, under one identity; neither the rotation nor the start stays blocked, unless `config.toml` is no text or fails validation. |

`reads`, `request_path` and `node_files` each explore two modules that share no
variable: a variable `focus` chooses which of the two moves, and the other stays in
its initial state, so the cost is the sum and not the product.

Runs that refute a statement of the repository:

| Run | Statement | What happens |
|---|---|---|
| `registry_stale_result` | `docs/service-registry.md:108`: the generation invalidates results of old jobs | An old result removes the marker of a new job. |
| `registry_backend_loss` | `README.md:259`: a lost backend is withdrawn with `stop_providing` | After a failed re-announcement the service stays provided. |
| `relay_stale_event` | `relay_manager.rs:36`: active relays are "confirmed usable" | An event of the replaced swarm is taken for a confirmation. |

Disagreements and peculiarities met while modelling that have no run:

- `command.rs:515` and the log line at `main.rs:158` speak of reloading
  `config.toml`; the running configuration is never re-read (`replace_config` has
  no caller).
- `dht_cache.rs:157` says `invalidate` voids any refresh in flight. One that has
  compared generations (line 222) and not yet stored (line 229) brings the value
  back; so can one that met both `invalidate` and `invalidate_all`, because the
  reset of the key counters lets the pair read by `generation()` repeat.
  `VoidedIsDiscarded` and `AckedChangesAreSeen` therefore exclude these cases by
  name.
- A `get` right after `invalidate` joins the voided refresh and fails with "cache
  invalidated" instead of starting another one.
- `remove_key` with both parts withdraws the provider record first; if the removal
  of the record then fails, no cache is invalidated. `add_key` with a provider
  record invalidates the provider cache before `start_providing`, or not at all
  without a value.
- One service request may be sent four times: two attempts, each with a second
  send after the peer's addresses were resolved. The limit of
  `command_timeout` does not cover that worst case.
- `bootstrap.rs:124` saves the configuration in memory over `config.toml`, edits
  made since the start included; `EditsKept` excepts those (`raced`).
- `config.rs:203` says that `from_toml_file` always returns a valid configuration, and
  the source's `README.md:171` that a damaged file is replaced by the default. A file
  that `validate` rejects, or that is not UTF-8 (the default text cut inside a
  character by a crash of `fs::write` is one), ends every start (`config.rs:219-260`)
  until the operator repairs it. `FilesRecover` excepts these two.
- A listener that closes between `ReservationReqAccepted` and `NewListenAddr` leaves
  its relay in `active`: `on_listener_closed` (`relay_manager.rs:141`) goes by the
  addresses of the event, and there are none. `ConfirmedIsLive` and `TargetIsReached`
  except such a relay (`silent`); `relay_manager.rs:36` does not.
- `save_to_default` writes the configuration from memory, without the comments and
  unknown keys that `complete_missing_fields` takes care to keep (`config.rs:293`).
- `log.rs:387` speaks of recovering a leftover `log.tmp`; where `rename` replaces
  its target (Unix) the repair is never reached and the leftover is overwritten.
  `OnlyALeftoverIsLost` says that this is the only loss.
- `load_pq_keys` takes any read error for an absent file, so new PQ keys may
  replace saved ones.
- `actor.rs:125` calls `BootstrapCompleted` the first success in a swarm's lifetime;
  it repeats, at most every 30 s, which is why the bootstrap gate heals after a
  stale event.
- `docs/auth.md:136` says the versions are cleared by a reload; `auth_gate.rs:262`
  keeps them.
- The README says control commands are answered; `service_dispatcher.rs:305`
  drops a rejection when the backend's queue is full (the model's "dropped").
- `actor.rs:778` says a PQ identity is requested once; a second Identify before
  the answer requests it again.

**Bounds.** Sets have the least size at which the interesting case exists: two
keys for one cache slot, two tasks to race, two connections so that one may be
the last, one reload so that two generations or swarms overlap, queues of length
one so that they fill. Timers and data have no bound: they are abstracted.
`MaxGeneration`, `MaxReloads`, `MaxLosses`, `MaxOverdue`, `MaxQueue`,
`MaxFetches`, `MaxInvalidations`, `MaxRecords`, `MaxTime`, `MaxCommands`,
`MaxFaults` and `MaxBreaks` are the names of all bounds on what may happen; each is
a guard of the action it limits. `MaxQueue` delays events of the swarm while two
wait; the code's queue has no limit. `Load` of `MCInboundPipeline` lets a second
request in only where there is no command, and a third one only when the queue
whose turn it is is full, the case it is there for. `OneTopic` of `MCRelayManager`
lets the second relay be discovered only where no bootstrap query has been reported,
and the third one while the others are in use, with no reload after; it restricts no
action that fairness forces. `Load` of `MCSwarmActor` lets the
second call in only where there is no inbound request: the two meet in a reload, in
the shutdown and in the connections, which one call and one request show. In
`request_path` the commands are service requests, to another backend or to the
backend's own service; the kinds `hello` and `other`, which make no request, are in
`inbound`, which has all four. Symmetry is used only where no
liveness is checked and the permuted values occur in no order. Deadlock is checked
except where the system may end: the inbound pipeline and the swarm actor, which
end with the shutdown, and the files, where there may be nothing left to log.

**Fairness.** Weak fairness of a task means that tokio polls it. The registry's
`Tick` and `Reset` come from the controller's loop; time passes; a job ends
because Kademlia queries time out, and an operation retried for ever succeeds
some time (strong fairness of `Execute` and `Succeed`: an assumption about the
network, without which nothing can be announced). In the dispatcher `select!`
picks among ready branches at random and tokio's channels serve waiting senders
in order, so a branch or a send possible again and again happens (strong
fairness); backends that hold requests answer or hang up, and read what is written
to them. All of this is assumed only as long as the controller runs: `main` returns
with it and the other tasks are dropped, so `InboundServed` and `CommandsSettle` say
nothing of what is open at a shutdown. In `RelayManager` the
controller handles events and ticks, and relays grant and renew what they do not
refuse; `BootstrapGateHeals` has its own condition, that the swarm goes on
bootstrapping. In `InboundPipeline` the auth workers go on, since the reads of the
gate end (`GetsReturn`). For the files, a thread goes on with what it has begun and
a node that is down is started again. Losses, faults, edits, reloads, commands and
shutdowns are never forced. `ControlCommands` has no fairness: `NobodyWaitsInVain`
is the safety part of "every command ends", and the rest is that the swarm answers
its callers.

**Mutants.** For each property of each passing run `PROJECT.json` names a mutated
definition (a dropped guard, a missing reset, a swapped check) with which TLC
finds the property violated.

## 4. Proofs

Eight modules hold proofs, each for every value of the constants; they use no
assumption but those the models state of their constants. The inductive
invariants of the registry's jobs, the gate, the cache, the relays, the swarm actor, the dispatcher and
the commands also hold of every state that TLC finds on the instances of their runs.
`GateAndFilesProofs` holds three developments that share no variable.

**Registry** (`ServiceRegistryProofs`; the last two in `ServiceRegistryJobsProofs`),
for all sets of services and type names, all limits and any number of reloads:

- `TypeCorrect`: `Spec => []TypeOK`, including that `known_types` keeps within
  `MAX_TYPES` and that no job has a generation still to come;
- `KnownTypesMonotone`: `Spec => KnownTypesGrow`;
- `GatesHold`: `Spec => []Gates`, from `BootstrapSafe` (before the DHT is
  bootstrapped nothing is announced or under way) and `RelaySafe` (without a relay
  everything announced is due for withdrawal);
- `SpawnSafe`: `Spec => AnnounceOnlyWhenServing`;
- `WorkSafe`: `Spec => []WorkIsScheduled`;
- `JobsSafe`: `Spec => []JobsMatchMarkers`.

They assume `ServiceAssumption` and `BoundAssumption`: names are a finite set of
positive numbers, at most 16 slots. Lemmas follow the code's structure: one per
handler, per `apply` case and per `plan` stage; a turn combines a handler with the
`Pump` that ends it. The inductive invariant for `GatesHold` is `GateInv` on top
of `TypeOK`: `Quiet` (before bootstrap no announcement, no marker, no armed retry
and no live provider job) and `Gate` (the relation between active relays and forced
withdrawals). `Quiet` must mention the retries because the retry stage of `plan()`
does not test `bootstrapped`: a single retry left armed by a reload would announce
on a DHT that is not bootstrapped. `Quiet` must also mention jobs, for a late success
would fill `announced` again; it holds because results of other generations are
ignored there. `SpawnSafe` is an action property that follows from the same
invariant.

`WorkSafe` and `JobsSafe` rest on `WorkInv`, again on top of `TypeOK`. It has five
parts, for a state and a `JoinSet`: every marker has a job that is alive, of this
generation and not aborted (`Markers`); an announced service without a backend has a
deadline, a forced withdrawal or a job (`Withdrawals`); an idle chain has its next run
(`Sync`); the state of the chain tells the one types job that is alive (`Chain`); the
tasks fit into `max_inflight_dht` (`Fits`). `plan()` clears a deadline as it
spawns the withdrawal, so that from then on only the job keeps the promise, until its
result ends the announcement or sets a deadline again. `Chain` says more than the run
checks, that one value and not two waits to be written; otherwise the write could take
more slots than `pump()` has. For `Fits` the tasks are counted as a set
(`Tasks`, the copies of a job told apart by a number): the lemmas `PlanBound`,
`TasksAdd`, `TasksRemove` and `TasksRephase` bound what `plan()` spawns and what
spawning, joining and aborting do to the count.

**Log** (`GateAndFilesProofs`), for any threads, entries, sizes, failures and
crashes: `LogKept` (`LogSpec => []EntriesKept`) and `LeftoverOnly`
(`LogSpec => []OnlyALeftoverIsLost`). The inductive invariant `LogInv` adds who may
be rotating: `ROLLING` is held by at most one check or rotation (`OneRotation`), an
append writes to the file that is the log (`OpenIsLog`), what a rotation is about to
remove is in its buffer or archived (`CopySafe`), and a `log.tmp` without a rotation
at work on it means that something has failed before (`NoLeftover`).

**Start** (`GateAndFilesProofs`), for any edits, keys, addresses, failures and
crashes: `ConfigKept` (`StartSpec => []EditsKept`), `RunningIsSaved`
(`StartSpec => []RunsAsSaved`) and the refinement `StartImplementsIdentity`
(`StartSpec => IdentityKept`, that is `NodeIdentity!Spec`). The inductive invariant
`StartInv` says, for each phase of the start, what of the file, the memory and the
keys already agree: an edit is backed up before the default replaces it, the key in
memory is the one on disk from the phase after it was saved. The refinement maps
the file `keypair.bin` to `saved` and the keypair of a running process to `running`;
each step of a start makes the key, begins or ends a run, or stutters.

**Gate** (`GateAndFilesProofs`), for any workers, services, documents and records per
answer, under `AuthAssumption` (documents and lists have the types of `auth.rs`):

- `RollbackRejected` (`NoRollback`), `IndexedListDecides`
  (`AllowedByTheIndexedList`) and `ExpiryHolds` (`ExpiredIsRejected`) follow from
  `GateInv`, which says per worker what is settled at each place where it waits
  (`WayInv`) and how its document stands to the floors (`FloorInv`). The floor of a
  request may only be compared with the shared floor, never with the cache, for the
  caches forget: `used <= versions.index` is the link, and it holds because
  `check_index` raises the floor before a request can finish. The cached lists need
  `KeysName`: a key of the whitelist cache names the content stored under it.
- `NewestIsSelected` (`SelectsTheNewest`): what `select_index` returns for a sequence
  of any length, by induction over the records.

**Cache** (`DhtCacheProofs`), for any keys, callers, tasks, limits and
invalidations, under `CacheAssumption` and `NoneAssumption`:

- `OneRefreshPerKey` (`SingleFlight`) and `VoidedNeverStored`
  (`VoidedIsDiscarded`). `Inv` adds `Links`, that a caller between the two reads of
  `generation()` owns the task it has listed, and `VoidInv`: a task overtaken by an
  invalidation captured a generation that lies behind the one of now, and keeps that
  distance until it compares, the half-read pair included. It fails exactly where
  `void` is "late" or "mixed", which the property names.
- `VersionsOnlyGrow` (`VersionsNeverRollBack`) and `NewestSurvivesEviction`
  (`EvictionKeepsTheNewest`) are action properties. The second is an induction over
  the loop of `evict`: each turn removes the entry with the oldest access, so the one
  just stored goes last.

**Relays** (`RelayManagerProofs`), for any relays, target, losses, time-outs and
reloads and a queue of any length, under `RelayAssumption`:

- `ConfirmedRelaysLive` (`ConfirmedIsLive`) and `ProviderFlagTrue`
  (`ProviderIsCurrent`). `Inv` adds to them what the queue may hold (`QueueOK`) and
  `News`: for each confirmation still queued the circuit is up or its end is queued
  behind it. Without that an event overtaken by the loss of its relay would make it
  active for good. `silent` is part of `News` (`Held`): it names the one end of a
  circuit that no event tells of.
- `GateFollows` (`GateNeverAhead`): every handler that takes a relay away also
  notifies the registry.

**Swarm actor** (`SwarmActorProofs`), for any callers, inbound requests,
connections and configurations, any number of commands queued and of reloads, under
`ActorAssumption`: `WaitersTracked` (`WaitersAreTracked`), `InboundAnswered`
(`InboundAccounted`), `RecordPublished` (`NoUnpublishedRecord`) and `PqKept`
(`PqIsKept`). `Inv` is the conjunction of

- `Shape`: types, and that every entry has work of this swarm behind it, numbered
  below the next number;
- `Queued`: a caller whose command is queued has sent that one and no other, so
  that a command never resolves a caller that waits for something else;
- `Calls`: entries and waiting callers correspond one to one (`Owners`, `Woken`), a
  result is there when the call is done, and the local record is that of a put under
  way, one that succeeded or one whose caller went with the actor (`Record`);
- `InboundOK`: a pending request has its connection and its answer or a promise of
  one, none was sent before, and it came encrypted where that is required;
- `Connected`, `NoPlaintext`: what is known or awaited of the peer goes with its last
  connection; where PQ is required no plaintext work runs.

A reload and the shutdown are the steps that touch all of them; the others begin or
end one entry (`BeginInv`, `EndInv`) or leave the tables alone (`SilentInv`).

**Dispatcher** (`ServiceDispatcherProofs`), for any backends, requests, commands,
kinds and capacities, under the assumptions of `ServiceDispatcher`:
`DispatcherStatus` (`Spec => []StatusInSync`) and `DispatcherRequests`
(`Spec => []RequestsAccounted`). `RequestsAccounted` counts places in queues; the
inductive invariant `Inv` says it without counting. A request is in a queue exactly
if its `job` says so (`Jobs`), and every queue holds an element at most once
(`Once`). What must be added:

- `Commands`: a command that has not been routed yet has made no request, so the
  request it makes later is new; a queued reply belongs to the command that waits
  for it;
- `InEvents` and `InTasks`: the command that an event, a backend task or the router
  holds is at that place, and nobody else holds it. Otherwise a command could be
  routed twice and its request queued twice;
- `Sync`, per service: `StatusInSync` itself. It is inductive because a task reports
  a connection before it serves and its end before it connects again, and the queue
  of events keeps the order.

The lemmas about queues (`PushedFacts`, `PoppedFacts`, `ClearedFacts`, `EventQueued`,
`EventTaken`) say what a push, a pop or a drain does to membership; each action then
moves one request, one command or one event (`JobsFrame`, `CommandsFrame`,
`EventsFrame`, `TasksFrame` and `SyncFrame` cover the rest).

**Commands** (`ControlCommandsProofs`), for any number of commands, any kinds and
any `max_inflight_dht`, under `CommandsAssumption`: `ChangesSeen`
(`AckedChangesAreSeen`), `RetryFresh` (`RetryIsFresh`) and `NobodyWaits`
(`NobodyWaitsInVain`), from one inductive invariant `CommandsInv`:

- `Covered`: for a command whose change is made and acknowledged (or whose last call
  is under way), and for a second attempt, each cache it invalidated is `Fresh`: the
  entry was queried for after the change, and so was what the refresh in flight will
  bring, or that refresh is voided. The properties speak of entries only; without the
  refresh in flight they would not survive its end. A new refresh sees every marked
  command, an invalidation makes a slot fresh for all, and no step makes it less so
  (`SlotsKept`);
- `Fitting`: what a command is doing fits its kind, a second attempt is marked, its
  list is fresh, and its sends are within what the place allows;
- `Awaited`, `Permits`, `Turns`: a waiting get has a refresh that has yet to report,
  permits are the limit less the workers that run, a queued command is in the queue,
  and the controller's task belongs to the one inline command at work.

`OneStep` is the frame for a command that goes from one wait to the next; the
queue, the permits and the steps of the caches have their own lemmas.

What the recursive functions of the models compute is proved without the library's
induction theorems, which take an operator as parameter: `LeastNatural` gives the
least counterexample from the well-foundedness of `<` on the naturals
(`WFMin`, `NatLessThanWellFounded`), and a lemma per function turns that into an
induction.

Only model-checked: the liveness properties, with the refinement of `InboundService`,
whose promise includes one. The prover has no support for reasoning about fairness and
ENABLED.

## 5. Not modelled

- Cryptography, codecs, message framing, console logging, path lookup, the rules of
  `validate` and the vendored interface library: computations without state a
  property could be about. Where they can fail, the models choose.
- libp2p is external: the models take any order of events it may report.
- `identified_peers` and the routing table, `DisconnectPeer` and the answer to a
  peer's identity request in `actor.rs`; the ping counter of `peer_tracker.rs`. They
  only influence which peer is tried, which the models leave open.
- Lengths of time: timers, backoffs and time limits may end at any moment. So
  nothing is said about `retry_delay`, `relay_backoff_secs` or `command_timeout`.
- The handshake with a backend has no time limit in the code
  (`service_dispatcher.rs:637`). The fairness assumes that a connected backend says
  something or hangs up.
- The registry, the relay manager and the swarm actor are not composed in one
  model: they have 250,000, 100,000 and 300,000 states on their small instances,
  and the product of two of them is too large for TLC.
  `RelayManager` has the registry's gate and the swarm's bootstrap state in it, which
  is what they share.

The hazards without a property are listed, with the reason, under `hazards` in
`PROJECT.json`. Next would be the liveness of the swarm actor's callers.
