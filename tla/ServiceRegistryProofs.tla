----------------------- MODULE ServiceRegistryProofs -----------------------
(***************************************************************************)
(* Proofs about ServiceRegistry, for every set of services and every bound *)
(* on jobs, types, relays and reloads: the lemmas about its operators,     *)
(* type correctness, what known_types keeps, and when the registry may     *)
(* announce.                                                               *)
(***************************************************************************)
EXTENDS ServiceRegistry, FiniteSetTheorems, TLAPS

-----------------------------------------------------------------------------
(* Lemmas about the helpers                                                *)

\* Arming timers yields timers.
LEMMA ArmType ==
  ASSUME NEW f \in [Service -> Timer], NEW S, NEW t \in Timer
  PROVE  Arm(f, S, t) \in [Service -> Timer]
BY Zenon DEF Arm

\* The first elements of a set are elements of it.
LEMMA FirstSubset ==
  ASSUME NEW S, NEW n
  PROVE  First(S, n) \subseteq S
BY Zenon DEF First

LEMMA AllUnsetType == AllUnset \in [Service -> Timer]
BY Zenon DEF AllUnset, Timer

-----------------------------------------------------------------------------
(* The operations on RegistryState keep its type                           *)

LEMMA NewStateType ==
  ASSUME NEW ready \in SUBSET Service
  PROVE  NewState(ready) \in RegistryState
BY AllUnsetType, Zenon DEF NewState, RegistryState, Reconcile, Timer

\* Two updates that several operations are made of.
Reconciled(r, state, dirty, sync, write) ==
    [r EXCEPT !.reconcile = state, !.reconcile_dirty = dirty, !.next_types_sync = sync,
              !.pending_types_write = write]

LEMMA ReconcileUpdate ==
  ASSUME NEW r \in RegistryState, NEW state \in Reconcile, NEW dirty \in BOOLEAN, NEW sync \in Timer,
         NEW write \in SUBSET SUBSET TypeName
  PROVE  Reconciled(r, state, dirty, sync, write) \in RegistryState
BY Zenon DEF Reconciled, RegistryState

LEMMA ResetUpdate ==
  ASSUME NEW r \in RegistryState, NEW g \in Nat, NEW need \in BOOLEAN, NEW known \in SUBSET TypeName
  PROVE  [r EXCEPT !.generation = g, !.need_relay = need, !.known_types = known] \in RegistryState
BY Zenon DEF RegistryState

LEMMA DirtyType ==
  ASSUME NEW r \in RegistryState
  PROVE  mark_types_dirty(r) \in RegistryState
BY Zenon DEF mark_types_dirty, RegistryState, Timer

LEMMA HandleType ==
  ASSUME NEW r \in RegistryState
  PROVE  /\ HandleBootstrapCompleted(r) \in RegistryState
         /\ HandleReannounce(r) \in RegistryState
         /\ HandleRefreshTypes(r) \in RegistryState
         /\ HandleReset(r) \in RegistryState
         /\ \A need \in BOOLEAN, active \in Nat :
               HandleRelayStateChanged(r, need, active) \in RegistryState
         /\ \A ready \in SUBSET Service : replace_backend_ready(r, ready) \in RegistryState
<1>1. HandleBootstrapCompleted(r) \in RegistryState
  <2>1. [r EXCEPT !.bootstrapped = TRUE, !.announced = {},
                  !.announce_retry_at = AllUnset] \in RegistryState
    BY AllUnsetType, Zenon DEF RegistryState
  <2> QED BY <2>1, DirtyType, Zenon DEF HandleBootstrapCompleted
<1>2. HandleReannounce(r) \in RegistryState
  <2>1. [r EXCEPT !.announced = {}, !.announce_retry_at = AllUnset] \in RegistryState
    BY AllUnsetType, Zenon DEF RegistryState
  <2> QED BY <2>1, DirtyType, Zenon DEF HandleReannounce
<1>3. HandleRefreshTypes(r) \in RegistryState
  BY DirtyType, Zenon DEF HandleRefreshTypes
<1>4. HandleReset(r) \in RegistryState
  <2>1. r.backend_ready \in SUBSET Service
    BY Zenon DEF RegistryState
  <2>2. NewState(r.backend_ready) \in RegistryState
    BY <2>1, NewStateType, Zenon
  <2>3. /\ r.generation + 1 \in Nat
        /\ r.need_relay \in BOOLEAN
        /\ r.known_types \in SUBSET TypeName
    BY DEF RegistryState
  <2> QED BY <2>2, <2>3, ResetUpdate, Zenon DEF HandleReset
<1>5. ASSUME NEW need \in BOOLEAN, NEW active \in Nat
      PROVE  HandleRelayStateChanged(r, need, active) \in RegistryState
  BY AllUnsetType, ZenonT(60) DEF HandleRelayStateChanged, RegistryState, relay_ready
<1>6. ASSUME NEW ready \in SUBSET Service
      PROVE  replace_backend_ready(r, ready) \in RegistryState
  BY ArmType, Zenon DEF replace_backend_ready, RegistryState, Timer
<1> QED BY <1>1, <1>2, <1>3, <1>4, <1>5, <1>6, Zenon

-----------------------------------------------------------------------------
(* What plan() does, as far as any proof below needs it                    *)

\* Only these fields does plan() change.
PlanKeeps(r, q) ==
    /\ q.bootstrapped = r.bootstrapped /\ q.need_relay = r.need_relay
    /\ q.active_relays = r.active_relays /\ q.backend_ready = r.backend_ready
    /\ q.announced = r.announced /\ q.relay_withdraw = r.relay_withdraw
    /\ q.known_types = r.known_types /\ q.generation = r.generation

LEMMA PlanReconcileFacts ==
  ASSUME NEW r \in RegistryState, NEW n
  PROVE  /\ PlanReconcile(r, n).state \in RegistryState
         /\ PlanKeeps(r, PlanReconcile(r, n).state)
         /\ \A f \in {"withdraw_deadline", "relay_withdraw_retry_at", "announce_retry_at",
                       "announce_inflight", "withdraw_inflight"} :
               PlanReconcile(r, n).state[f] = r[f]
         /\ \A j \in PlanReconcile(r, n).jobs :
               \E kind \in {"ReadTypes", "WriteTypes"}, types \in SUBSET TypeName :
                   j = NewJob(r, kind, NoService, types)
<1> DEFINE p == PlanReconcile(r, n)
<1>1. CASE n > 0 /\ r.reconcile = "Idle" /\ (r.reconcile_dirty \/ r.next_types_sync = "due")
  <2>1. /\ p.state = [r EXCEPT !.next_types_sync = "unset", !.reconcile = "Reading",
                               !.reconcile_dirty = FALSE]
        /\ p.jobs = {NewJob(r, "ReadTypes", NoService, {})}
    BY <1>1, Zenon DEF PlanReconcile
  <2>2. p.state \in RegistryState
    <3>1. "Reading" \in Reconcile /\ "unset" \in Timer /\ r.pending_types_write \in SUBSET SUBSET TypeName
      BY Zenon DEF Reconcile, Timer, RegistryState
    <3>2. p.state = Reconciled(r, "Reading", FALSE, "unset", r.pending_types_write)
      BY <2>1, Zenon DEF Reconciled, RegistryState
    <3> HIDE DEF p
    <3> QED BY <3>1, <3>2, ReconcileUpdate, Zenon
  <2>3. PlanKeeps(r, p.state)
    BY <2>1, Zenon DEF RegistryState, PlanKeeps
  <2>4. \A f \in {"withdraw_deadline", "relay_withdraw_retry_at", "announce_retry_at",
                  "announce_inflight", "withdraw_inflight"} : p.state[f] = r[f]
    BY <2>1, Zenon DEF RegistryState
  <2> QED BY <2>1, <2>2, <2>3, <2>4, Zenon
<1>2. CASE n > 0 /\ r.reconcile = "ReadyToWrite"
  <2>1. /\ p.state = [r EXCEPT !.pending_types_write = {},
                               !.reconcile = IF r.pending_types_write = {} THEN "Idle" ELSE "Writing"]
        /\ p.jobs = {NewJob(r, "WriteTypes", NoService, value) : value \in r.pending_types_write}
    BY <1>2, Zenon DEF PlanReconcile
  <2>2. r.pending_types_write \subseteq SUBSET TypeName
    BY Zenon DEF RegistryState
  <2>3. p.state \in RegistryState
    <3> DEFINE next == IF r.pending_types_write = {} THEN "Idle" ELSE "Writing"
    <3>1. next \in Reconcile /\ r.reconcile_dirty \in BOOLEAN /\ r.next_types_sync \in Timer
      BY Zenon DEF Reconcile, RegistryState
    <3>2. p.state = Reconciled(r, next, r.reconcile_dirty, r.next_types_sync, {})
      BY <2>1, Zenon DEF Reconciled, RegistryState
    <3> HIDE DEF p, next
    <3> QED BY <3>1, <3>2, ReconcileUpdate, Zenon
  <2>4. PlanKeeps(r, p.state)
    BY <2>1, Zenon DEF RegistryState, PlanKeeps
  <2>5. \A f \in {"withdraw_deadline", "relay_withdraw_retry_at", "announce_retry_at",
                  "announce_inflight", "withdraw_inflight"} : p.state[f] = r[f]
    BY <2>1, Zenon DEF RegistryState
  <2> QED BY <2>1, <2>2, <2>3, <2>4, <2>5, ZenonT(60)
<1>3. CASE /\ ~(n > 0 /\ r.reconcile = "Idle" /\ (r.reconcile_dirty \/ r.next_types_sync = "due"))
           /\ ~(n > 0 /\ r.reconcile = "ReadyToWrite")
  <2>1. p = [state |-> r, jobs |-> {}]
    BY <1>3, Zenon DEF PlanReconcile
  <2> QED BY <2>1 DEF PlanKeeps
<1> QED BY <1>1, <1>2, <1>3, Zenon

(***************************************************************************)
(* The effect of plan(): W is the set of services it withdraws, A the set  *)
(* it announces.                                                           *)
(***************************************************************************)
PlanEffect(r, p, W, A) ==
    /\ W \subseteq DueWithdrawals(r) \ inflight(r)
    /\ A \subseteq (DueRetries(r) \cup NewAnnouncements(r)) \ (inflight(r) \cup W)
    /\ p.state \in RegistryState
    /\ PlanKeeps(r, p.state)
    /\ p.state.withdraw_deadline = Arm(r.withdraw_deadline, W, "unset")
    /\ p.state.announce_retry_at = Arm(r.announce_retry_at, A, "unset")
    /\ p.state.withdraw_inflight = r.withdraw_inflight \cup W
    /\ p.state.announce_inflight = r.announce_inflight \cup A
    /\ \A s \in W : NewJob(r, "Withdraw", s, {}) \in p.jobs
    /\ \A s \in A : NewJob(r, "Announce", s, {}) \in p.jobs
    /\ \A j \in p.jobs : \/ \E s \in W : j = NewJob(r, "Withdraw", s, {})
                         \/ \E s \in A : j = NewJob(r, "Announce", s, {})
                         \/ \E kind \in {"ReadTypes", "WriteTypes"}, types \in SUBSET TypeName :
                               j = NewJob(r, kind, NoService, types)

LEMMA PlanFacts ==
  ASSUME NEW r \in RegistryState, NEW n
  PROVE  \E W, A \in SUBSET Service : PlanEffect(r, plan(r, n), W, A)
<1> DEFINE W == First(DueWithdrawals(r) \ inflight(r), n)
           R == First(DueRetries(r) \ (inflight(r) \cup W), n - Cardinality(W))
           A == First(NewAnnouncements(r) \ (inflight(r) \cup W \cup R),
                      n - Cardinality(W) - Cardinality(R))
           m == n - Cardinality(W) - Cardinality(R) - Cardinality(A)
           T == PlanReconcile(r, m)
           p == plan(r, n)
<1>1. /\ p.state = [T.state EXCEPT !.withdraw_deadline = Arm(@, W, "unset"),
                                   !.relay_withdraw_retry_at = Arm(@, W, "unset"),
                                   !.withdraw_inflight = @ \cup W,
                                   !.announce_retry_at = Arm(@, R \cup A, "unset"),
                                   !.announce_inflight = @ \cup R \cup A]
      /\ p.jobs = {NewJob(r, "Withdraw", s, {}) : s \in W}
                  \cup {NewJob(r, "Announce", s, {}) : s \in R \cup A} \cup T.jobs
  BY Zenon DEF plan
<1>2. /\ W \subseteq DueWithdrawals(r) \ inflight(r)
      /\ R \subseteq DueRetries(r) \ (inflight(r) \cup W)
      /\ A \subseteq NewAnnouncements(r) \ (inflight(r) \cup W \cup R)
  BY FirstSubset, Zenon
<1>3. DueWithdrawals(r) \cup DueRetries(r) \cup NewAnnouncements(r) \subseteq Service
  BY Zenon DEF DueWithdrawals, DueRetries, NewAnnouncements, RegistryState
<1> HIDE DEF W, R, A, m
<1>4. /\ T.state \in RegistryState
      /\ PlanKeeps(r, T.state)
      /\ T.state.withdraw_deadline = r.withdraw_deadline
      /\ T.state.relay_withdraw_retry_at = r.relay_withdraw_retry_at
      /\ T.state.announce_retry_at = r.announce_retry_at
      /\ T.state.announce_inflight = r.announce_inflight
      /\ T.state.withdraw_inflight = r.withdraw_inflight
  BY PlanReconcileFacts, Zenon
<1>5. \A j \in T.jobs : \E kind \in {"ReadTypes", "WriteTypes"}, types \in SUBSET TypeName :
          j = NewJob(r, kind, NoService, types)
  BY PlanReconcileFacts, Zenon
<1> HIDE DEF T, p
<1>6. p.state \in RegistryState
  <2>1. /\ Arm(T.state.withdraw_deadline, W, "unset") \in [Service -> Timer]
        /\ Arm(T.state.relay_withdraw_retry_at, W, "unset") \in [Service -> Timer]
        /\ Arm(T.state.announce_retry_at, R \cup A, "unset") \in [Service -> Timer]
    BY <1>4, ArmType, Zenon DEF RegistryState, Timer
  <2>2. /\ T.state.withdraw_inflight \cup W \in SUBSET Service
        /\ T.state.announce_inflight \cup R \cup A \in SUBSET Service
    BY <1>2, <1>3, <1>4, Zenon DEF RegistryState
  <2>3. \A q \in RegistryState, f, g, h \in [Service -> Timer] :
           [q EXCEPT !.withdraw_deadline = f, !.relay_withdraw_retry_at = g,
                     !.announce_retry_at = h] \in RegistryState
    BY ZenonT(60) DEF RegistryState
  <2> DEFINE t == [T.state EXCEPT
                      !.withdraw_deadline = Arm(T.state.withdraw_deadline, W, "unset"),
                      !.relay_withdraw_retry_at = Arm(T.state.relay_withdraw_retry_at, W, "unset"),
                      !.announce_retry_at = Arm(T.state.announce_retry_at, R \cup A, "unset")]
  <2>4. p.state = [t EXCEPT !.withdraw_inflight = T.state.withdraw_inflight \cup W,
                            !.announce_inflight = T.state.announce_inflight \cup R \cup A]
    BY <1>1, <1>4, Zenon DEF RegistryState
  <2>5. t \in RegistryState
    BY <1>4, <2>1, <2>3, Zenon
  <2> HIDE DEF t
  <2>6. ASSUME NEW I \in SUBSET Service, NEW J \in SUBSET Service
        PROVE  [t EXCEPT !.withdraw_inflight = I, !.announce_inflight = J] \in RegistryState
    BY <2>5, Zenon DEF RegistryState
  <2> QED BY <2>2, <2>4, <2>6, Zenon
<1>7. /\ PlanKeeps(r, p.state)
      /\ p.state.withdraw_deadline = Arm(r.withdraw_deadline, W, "unset")
      /\ p.state.announce_retry_at = Arm(r.announce_retry_at, R \cup A, "unset")
      /\ p.state.withdraw_inflight = r.withdraw_inflight \cup W
      /\ p.state.announce_inflight = r.announce_inflight \cup (R \cup A)
  BY <1>1, <1>4 DEF PlanKeeps, RegistryState
<1>8. PlanEffect(r, p, W, R \cup A)
  BY <1>1, <1>2, <1>5, <1>6, <1>7, Zenon DEF PlanEffect
<1> QED BY <1>2, <1>3, <1>8, Zenon DEF p

-----------------------------------------------------------------------------
(* apply keeps the type of the state                                       *)

LEMMA ApplyAnnouncedType ==
  ASSUME NEW r \in RegistryState, NEW j \in Job, j.service \in Service,
         j.phase \in {"ok", "err"}
  PROVE  ApplyAnnounced(r, j) \in RegistryState
<1> DEFINE s == j.service
           q == [r EXCEPT !.announce_inflight = @ \ {s}]
           u == [q EXCEPT !.announce_retry_at = Arm(@, {s}, "unset"), !.announced = @ \cup {s}]
           done == mark_types_dirty(u)
           serving == s \in r.backend_ready /\ r.bootstrapped
<1>1. q \in RegistryState
  BY Zenon DEF RegistryState
<1> HIDE DEF q
<1>2. /\ Arm(q.announce_retry_at, {s}, "unset") \in [Service -> Timer]
      /\ Arm(q.announce_retry_at, {s}, "later") \in [Service -> Timer]
  BY <1>1, ArmType, Zenon DEF RegistryState, Timer
<1>3. u \in RegistryState
  BY <1>1, <1>2, Zenon DEF RegistryState
<1> HIDE DEF u
<1>4. done \in RegistryState
  BY <1>3, DirtyType, Zenon
<1> HIDE DEF done
<1>5. Arm(done.withdraw_deadline, {s}, "due") \in [Service -> Timer]
  BY <1>4, ArmType, Zenon DEF RegistryState, Timer
<1>6. [done EXCEPT !.relay_withdraw = @ \cup {s}] \in RegistryState
  BY <1>4, Zenon DEF RegistryState
<1>7. [done EXCEPT !.withdraw_deadline = IF serving THEN @ ELSE Arm(@, {s}, "due")] \in RegistryState
  BY <1>4, <1>5, Zenon DEF RegistryState
<1>8. [q EXCEPT !.announce_retry_at = IF serving THEN Arm(@, {s}, "later") ELSE @] \in RegistryState
  BY <1>1, <1>2, Zenon DEF RegistryState
<1>9. \/ ApplyAnnounced(r, j) = q
      \/ ApplyAnnounced(r, j) = [done EXCEPT !.relay_withdraw = @ \cup {s}]
      \/ ApplyAnnounced(r, j) = [done EXCEPT !.withdraw_deadline = IF serving THEN @ ELSE Arm(@, {s}, "due")]
      \/ ApplyAnnounced(r, j) = [q EXCEPT !.announce_retry_at = IF serving THEN Arm(@, {s}, "later") ELSE @]
  BY Zenon DEF ApplyAnnounced, q, u, done
<1> QED BY <1>1, <1>6, <1>7, <1>8, <1>9, Zenon

LEMMA ApplyWithdrawnType ==
  ASSUME NEW r \in RegistryState, NEW j \in Job, j.service \in Service,
         j.phase \in {"ok", "err"}
  PROVE  ApplyWithdrawn(r, j) \in RegistryState
<1> DEFINE s == j.service
           q == [r EXCEPT !.withdraw_inflight = @ \ {s}]
           ok == [q EXCEPT !.announced = @ \ {s}, !.relay_withdraw = @ \ {s},
                           !.relay_withdraw_retry_at = Arm(@, {s}, "unset"),
                           !.announce_retry_at = IF s \in r.backend_ready /\ relay_ready(r)
                                                 THEN Arm(@, {s}, "due") ELSE @]
           v == [q EXCEPT !.announced = @ \ {s}, !.relay_withdraw = @ \ {s}]
<1>1. q \in RegistryState
  BY Zenon DEF RegistryState
<1> HIDE DEF q
<1>2. \A t \in Timer : /\ Arm(q.announce_retry_at, {s}, t) \in [Service -> Timer]
                       /\ Arm(q.relay_withdraw_retry_at, {s}, t) \in [Service -> Timer]
                       /\ Arm(q.withdraw_deadline, {s}, t) \in [Service -> Timer]
  BY <1>1, ArmType, Zenon DEF RegistryState
<1>3. v \in RegistryState
  BY <1>1, Zenon DEF RegistryState
<1>4. ok = [v EXCEPT !.relay_withdraw_retry_at = Arm(q.relay_withdraw_retry_at, {s}, "unset"),
                     !.announce_retry_at = IF s \in r.backend_ready /\ relay_ready(r)
                                           THEN Arm(q.announce_retry_at, {s}, "due")
                                           ELSE q.announce_retry_at]
  BY <1>1, Zenon DEF RegistryState
<1> HIDE DEF v, ok
<1>5. q.announce_retry_at \in [Service -> Timer]
  BY <1>1, Zenon DEF RegistryState
<1>6. ok \in RegistryState
  <2>1. ASSUME NEW f \in [Service -> Timer], NEW g \in [Service -> Timer]
        PROVE  [v EXCEPT !.relay_withdraw_retry_at = f, !.announce_retry_at = g] \in RegistryState
    BY <1>3, Zenon DEF RegistryState
  <2> QED BY <1>2, <1>4, <1>5, <2>1, Zenon DEF Timer
<1>7. [q EXCEPT !.relay_withdraw_retry_at = Arm(@, {s}, "later")] \in RegistryState
  BY <1>1, <1>2, Zenon DEF RegistryState, Timer
<1>8. [q EXCEPT !.announce_retry_at = Arm(@, {s}, "due")] \in RegistryState
  BY <1>1, <1>2, Zenon DEF RegistryState, Timer
<1>9. [q EXCEPT !.withdraw_deadline = Arm(@, {s}, "later")] \in RegistryState
  BY <1>1, <1>2, Zenon DEF RegistryState, Timer
<1>10. ApplyWithdrawn(r, j) \in
         {q, ok, [q EXCEPT !.relay_withdraw_retry_at = Arm(@, {s}, "later")],
          [q EXCEPT !.announce_retry_at = Arm(@, {s}, "due")],
          [q EXCEPT !.withdraw_deadline = Arm(@, {s}, "later")]}
  BY Zenon DEF ApplyWithdrawn, q, ok
<1> QED BY <1>1, <1>6, <1>7, <1>8, <1>9, <1>10, Zenon

LEMMA ReconcileIdleType ==
  ASSUME NEW r \in RegistryState
  PROVE  ReconcileIdle(r) \in RegistryState
<1> DEFINE sync == IF r.reconcile_dirty THEN "due" ELSE "later"
<1>1. sync \in Timer /\ "Idle" \in Reconcile
  BY Zenon DEF Timer, Reconcile
<1>2. ReconcileIdle(r) = Reconciled(r, "Idle", FALSE, sync, {})
  BY ZenonT(60) DEF ReconcileIdle, Reconciled, RegistryState
<1> HIDE DEF sync
<1> QED BY <1>1, <1>2, ReconcileUpdate, Zenon

LEMMA ApplyTypesReadType ==
  ASSUME NEW r \in RegistryState, NEW j \in Job, NEW known \in SUBSET TypeName,
         j.phase \in {"ok", "err"}
  PROVE  ApplyTypesRead(r, j, known) \in RegistryState
<1> DEFINE q == [r EXCEPT !.known_types = known]
           w == [q EXCEPT !.reconcile = "ReadyToWrite",
                          !.pending_types_write = {EncodedTypes(known)},
                          !.reconcile_dirty = FALSE]
<1>1. q \in RegistryState
  BY Zenon DEF RegistryState
<1>2. EncodedTypes(known) \in SUBSET TypeName
  BY FirstSubset, Zenon DEF EncodedTypes
<1>3. [r EXCEPT !.known_types = known, !.reconcile = "ReadyToWrite",
                !.pending_types_write = {EncodedTypes(known)}, !.reconcile_dirty = FALSE] = w
  BY Zenon DEF RegistryState
<1> HIDE DEF q
<1>4. w \in RegistryState
  BY <1>1, <1>2, ZenonT(60) DEF RegistryState, Reconcile
<1> HIDE DEF w
<1>5. ApplyTypesRead(r, j, known) \in {r, ReconcileIdle(q), w, ReconcileIdle(r)}
  BY <1>3, Zenon DEF ApplyTypesRead, q
<1> QED BY <1>1, <1>4, <1>5, ReconcileIdleType, Zenon

LEMMA ApplyTypesWrittenType ==
  ASSUME NEW r \in RegistryState, NEW j \in Job
  PROVE  ApplyTypesWritten(r, j) \in RegistryState
BY ReconcileIdleType, Zenon DEF ApplyTypesWritten

-----------------------------------------------------------------------------
(* merge_type_set and MAX_TYPES                                            *)

\* A merge only adds names, and leaves at most MAX_TYPES.
LEMMA MergedTypesFacts ==
  ASSUME NEW known \in SUBSET TypeName, Cardinality(known) <= MaxTypes,
         NEW incoming \in SUBSET TypeName, NEW m \in MergedTypes(known, incoming)
  PROVE  /\ m \in SUBSET TypeName
         /\ known \subseteq m
         /\ Cardinality(m) <= MaxTypes
<1> DEFINE new  == incoming \ known
           room == IF Cardinality(known) < MaxTypes THEN MaxTypes - Cardinality(known) ELSE 0
<1>1. PICK Y \in SUBSET new :
          /\ m = known \cup Y
          /\ Cardinality(Y) = IF Cardinality(new) <= room THEN Cardinality(new) ELSE room
  BY Zenon DEF MergedTypes
<1>2. IsFiniteSet(known) /\ IsFiniteSet(Y) /\ IsFiniteSet(new)
  BY <1>1, FS_Subset, ServiceAssumption, Zenon
<1>3. Cardinality(known) \in Nat /\ Cardinality(Y) \in Nat /\ Cardinality(new) \in Nat
  BY <1>2, FS_CardinalityType, Zenon
<1>4. Cardinality(m) = Cardinality(known) + Cardinality(Y) - Cardinality(known \cap Y)
  BY <1>1, <1>2, FS_Union, Zenon
<1>5. known \cap Y = {}
  BY <1>1, Zenon
<1>6. Cardinality(known \cap Y) = 0
  BY <1>5, FS_EmptySet, Zenon
<1>7. MaxTypes \in Nat
  BY BoundAssumption, Zenon
<1>8. Cardinality(Y) <= room
  BY <1>1, <1>3, <1>7
<1> QED BY <1>1, <1>3, <1>4, <1>6, <1>7, <1>8

-----------------------------------------------------------------------------
(* The JoinSet                                                             *)

\* Adding a set of jobs to the bag.
LEMMA AddFacts ==
  ASSUME NEW b, NEW S, \A k \in DOMAIN b : b[k] \in Nat \ {0}
  PROVE  /\ DOMAIN With(b, S) = DOMAIN b \cup S
         /\ \A j \in DOMAIN With(b, S) : With(b, S)[j] \in Nat \ {0}
         /\ \A j \in DOMAIN b \ S : With(b, S)[j] = b[j]
BY DEF With, Copies

\* Removing one copy of a job.
LEMMA RemoveFacts ==
  ASSUME NEW b, NEW j, \A k \in DOMAIN b : b[k] \in Nat \ {0}
  PROVE  /\ DOMAIN Without(b, j) \subseteq DOMAIN b
         /\ DOMAIN b \ {j} \subseteq DOMAIN Without(b, j)
         /\ \A k \in DOMAIN Without(b, j) :
               /\ Without(b, j)[k] \in Nat \ {0}
               /\ Without(b, j)[k] <= b[k]
BY DEF Without

\* Only jobs in the phase to can become more.
LEMMA RephaseKeeps ==
  ASSUME NEW b, NEW g \in Nat, JobsOK(b, g), NEW from \in Phase, NEW to \in Phase, from # to,
         NEW j \in DOMAIN Rephase(b, from, to), j.phase # to
  PROVE  j \in DOMAIN b /\ Rephase(b, from, to)[j] = b[j]
<1>1. PICK k \in DOMAIN b : j = IF k.phase = from THEN [k EXCEPT !.phase = to] ELSE k
  BY Zenon DEF Rephase
<1>2. k \in Job /\ b[k] \in Nat
  BY Zenon DEF JobsOK
<1>3. j = k
  BY <1>1, <1>2, Zenon DEF Job
<1>4. Rephase(b, from, to)[j] = Copies(j, b) + 0
  BY Zenon DEF Rephase
<1> QED BY <1>2, <1>3, <1>4 DEF Copies

LEMMA RephaseFacts ==
  ASSUME NEW b, NEW from, NEW to, NEW g \in Nat, JobsOK(b, g),
         from \in Phase, to \in Phase, from # to
  PROVE  /\ JobsOK(Rephase(b, from, to), g)
         /\ DOMAIN Rephase(b, from, to) =
               {IF k.phase = from THEN [k EXCEPT !.phase = to] ELSE k : k \in DOMAIN b}
<1> DEFINE c == Rephase(b, from, to)
<1>1. DOMAIN c = {IF k.phase = from THEN [k EXCEPT !.phase = to] ELSE k : k \in DOMAIN b}
  BY Zenon DEF Rephase
<1>2. \A k \in DOMAIN b : k.phase = from =>
          /\ [k EXCEPT !.phase = to] \in Job
          /\ [k EXCEPT !.phase = to].phase = to
          /\ [k EXCEPT !.phase = to].kind = k.kind
          /\ [k EXCEPT !.phase = to].service = k.service
          /\ [k EXCEPT !.phase = to].generation = k.generation
          /\ [[k EXCEPT !.phase = to] EXCEPT !.phase = from] = k
  BY Zenon DEF JobsOK, Job
<1>3. ASSUME NEW j \in DOMAIN c, j.phase # to
      PROVE  j \in DOMAIN b /\ c[j] = b[j]
  BY <1>3, RephaseKeeps, Zenon
<1>4. ASSUME NEW j \in DOMAIN c
      PROVE  /\ j \in Job /\ j.generation <= g
             /\ j.kind \in {"Announce", "Withdraw"} <=> j.service # NoService
  <2>1. PICK k \in DOMAIN b : j = IF k.phase = from THEN [k EXCEPT !.phase = to] ELSE k
    BY <1>1, Zenon
  <2> QED BY <1>2, <2>1, Zenon DEF JobsOK
<1>5. ASSUME NEW j \in DOMAIN c
      PROVE  c[j] \in Nat \ {0}
  <2>1. CASE j.phase # to
    BY <1>3, <2>1, Zenon DEF JobsOK
  <2>2. CASE j.phase = to
    <3>1. PICK k \in DOMAIN b : j = IF k.phase = from THEN [k EXCEPT !.phase = to] ELSE k
      BY <1>1, Zenon
    <3>2. c[j] = Copies(j, b) + Copies([j EXCEPT !.phase = from], b)
      BY <2>2, Zenon DEF Rephase
    <3>3. Copies(j, b) \in Nat /\ Copies([j EXCEPT !.phase = from], b) \in Nat
      BY Zenon DEF Copies, JobsOK
    <3>4. j \in DOMAIN b \/ [j EXCEPT !.phase = from] \in DOMAIN b
      BY <1>2, <3>1, Zenon
    <3>5. Copies(j, b) # 0 \/ Copies([j EXCEPT !.phase = from], b) # 0
      BY <3>4, Zenon DEF Copies, JobsOK
    <3> QED BY <3>2, <3>3, <3>5
  <2> QED BY <2>1, <2>2, Zenon
<1>6. JobsOK(c, g)
  BY <1>4, <1>5, Zenon DEF JobsOK
<1> QED BY <1>1, <1>6, Zenon

\* The jobs of a generation are jobs of the next one, or of an earlier one.
LEMMA JobsOfTheNext ==
  ASSUME NEW b, NEW g \in Nat, JobsOK(b, g)
  PROVE  JobsOK(b, g + 1)
<1>1. \A j \in DOMAIN b : j.generation \in Nat
  BY Zenon DEF JobsOK, Job
<1>2. \A j \in DOMAIN b : j.generation <= g + 1
  BY <1>1 DEF JobsOK
<1> QED BY <1>2, Zenon DEF JobsOK

-----------------------------------------------------------------------------
(* Counting                                                                *)

\* A set that a function maps a finite set onto is no larger.
LEMMA Covered ==
  ASSUME NEW S, IsFiniteSet(S), NEW T, NEW f, \A y \in T : \E x \in S : y = f[x]
  PROVE  /\ IsFiniteSet(T)
         /\ Cardinality(T) \in Nat /\ Cardinality(S) \in Nat
         /\ Cardinality(T) <= Cardinality(S)
<1> DEFINE U == {f[x] : x \in S}
           g == [x \in S |-> f[x]]
<1>1. g \in Surjection(S, U)
  BY DEF Surjection
<1>2. IsFiniteSet(U) /\ Cardinality(U) <= Cardinality(S)
  BY <1>1, FS_Surjection, Zenon
<1>3. T \in SUBSET U
  BY Zenon
<1> HIDE DEF U
<1>4. IsFiniteSet(T) /\ Cardinality(T) <= Cardinality(U)
  BY <1>2, <1>3, FS_Subset, Zenon
<1>5. Cardinality(T) \in Nat /\ Cardinality(U) \in Nat /\ Cardinality(S) \in Nat
  BY <1>2, <1>4, FS_CardinalityType, Zenon
<1> QED BY <1>2, <1>4, <1>5

\* The union of two finite sets.
LEMMA UnionBound ==
  ASSUME NEW S, IsFiniteSet(S), NEW T, IsFiniteSet(T)
  PROVE  /\ IsFiniteSet(S \cup T)
         /\ Cardinality(S) \in Nat /\ Cardinality(T) \in Nat /\ Cardinality(S \cup T) \in Nat
         /\ Cardinality(S \cup T) <= Cardinality(S) + Cardinality(T)
<1>1. /\ IsFiniteSet(S \cup T)
      /\ Cardinality(S \cup T) = Cardinality(S) + Cardinality(T) - Cardinality(S \cap T)
  BY FS_Union, Zenon
<1>2. IsFiniteSet(S \cap T)
  BY FS_Intersection, Zenon
<1>3. /\ Cardinality(S) \in Nat /\ Cardinality(T) \in Nat /\ Cardinality(S \cap T) \in Nat
      /\ Cardinality(S \cup T) \in Nat
  BY <1>1, <1>2, FS_CardinalityType, Zenon
<1> QED BY <1>1, <1>3

\* First takes at most n elements: their ranks in the order are distinct.
LEMMA FirstBound ==
  ASSUME NEW S \in SUBSET Nat, IsFiniteSet(S), NEW n \in Nat
  PROVE  /\ IsFiniteSet(First(S, n))
         /\ Cardinality(First(S, n)) \in Nat /\ Cardinality(First(S, n)) <= n
<1> DEFINE below(s) == {t \in S : t < s}
           F == First(S, n)
           rank == [s \in F |-> Cardinality(below(s))]
<1>1. F \subseteq S /\ IsFiniteSet(F)
  BY FS_Subset, Zenon DEF First
<1>2. \A s : IsFiniteSet(below(s)) /\ Cardinality(below(s)) \in Nat
  BY FS_Subset, FS_CardinalityType, Zenon
<1>3. \A s \in F : Cardinality(below(s)) < n
  BY Zenon DEF First
<1> HIDE DEF F
<1>4. ASSUME NEW s \in F, NEW t \in F, s < t
      PROVE  Cardinality(below(s)) < Cardinality(below(t))
  <2>1. s \in S /\ t \in S /\ s \in Nat /\ t \in Nat
    BY <1>1, Zenon
  <2>2. below(s) \cup {s} \in SUBSET below(t) /\ s \notin below(s)
    <3>1. ASSUME NEW u \in below(s) PROVE u \in S /\ u < t
      BY <1>4, <2>1
    <3>2. s \notin below(s) /\ s \in below(t)
      BY <1>4, <2>1
    <3> QED BY <3>1, <3>2, Zenon
  <2>3. Cardinality(below(s) \cup {s}) = Cardinality(below(s)) + 1
    BY <1>2, <2>2, FS_AddElement
  <2>4. Cardinality(below(s) \cup {s}) <= Cardinality(below(t))
    BY <1>2, <2>2, FS_Subset, Zenon
  <2> HIDE DEF below
  <2> QED BY <1>2, <2>3, <2>4
<1> HIDE DEF below
<1>5. rank \in Injection(F, 0..(n - 1))
  <2>1. rank \in [F -> 0..(n - 1)]
    BY <1>2, <1>3
  <2>2. ASSUME NEW s \in F, NEW t \in F, rank[s] = rank[t]
        PROVE  s = t
    <3>1. s \in Nat /\ t \in Nat
      BY <1>1, Zenon
    <3>2. ~(s < t) /\ ~(t < s)
      BY <1>2, <1>4, <2>2
    <3> QED BY <3>1, <3>2
  <2> HIDE DEF rank
  <2> QED BY <2>1, <2>2, Zenon DEF Injection, IsInjective
<1>6. IsFiniteSet(0..(n - 1)) /\ Cardinality(0..(n - 1)) = n
  BY FS_Interval
<1>7. Cardinality(F) <= n
  <2>1. Cardinality(F) <= Cardinality(0..(n - 1))
    BY <1>5, <1>6, FS_Injection
  <2> QED BY <1>6, <2>1
<1> QED BY <1>1, <1>7, FS_CardinalityType, Zenon DEF F

\* A plan asks for no more jobs than there are slots.
LEMMA PlanBound ==
  ASSUME NEW r \in RegistryState, NEW n \in Nat,
         \A v, w \in r.pending_types_write : v = w
  PROVE  /\ IsFiniteSet(plan(r, n).jobs)
         /\ Cardinality(plan(r, n).jobs) \in Nat /\ Cardinality(plan(r, n).jobs) <= n
<1> DEFINE W == First(DueWithdrawals(r) \ inflight(r), n)
           n1 == n - Cardinality(W)
           R == First(DueRetries(r) \ (inflight(r) \cup W), n1)
           n2 == n1 - Cardinality(R)
           A == First(NewAnnouncements(r) \ (inflight(r) \cup W \cup R), n2)
           m == n2 - Cardinality(A)
           T == PlanReconcile(r, m).jobs
           JW == {NewJob(r, "Withdraw", s, {}) : s \in W}
           JA == {NewJob(r, "Announce", s, {}) : s \in R \cup A}
<1>1. plan(r, n).jobs = (JW \cup JA) \cup T
  BY Zenon DEF plan
<1>2. \A S \in SUBSET Service : S \in SUBSET Nat /\ IsFiniteSet(S)
  <2>1. TypeName \subseteq Nat /\ Service \subseteq TypeName /\ IsFiniteSet(TypeName)
    BY ServiceAssumption, Zenon
  <2> QED BY <2>1, FS_Subset, Zenon
<1>3. DueWithdrawals(r) \cup DueRetries(r) \cup NewAnnouncements(r) \subseteq Service
  BY Zenon DEF DueWithdrawals, DueRetries, NewAnnouncements, RegistryState
<1>4. IsFiniteSet(W) /\ Cardinality(W) \in Nat /\ Cardinality(W) <= n
  BY <1>2, <1>3, FirstBound, Zenon
<1> HIDE DEF W
<1>5. n1 \in Nat
  BY <1>4
<1> HIDE DEF n1
<1>6. IsFiniteSet(R) /\ Cardinality(R) \in Nat /\ Cardinality(R) <= n1
  BY <1>2, <1>3, <1>5, FirstBound, Zenon
<1> HIDE DEF R
<1>7. n2 \in Nat
  BY <1>5, <1>6
<1> HIDE DEF n2
<1>8. IsFiniteSet(A) /\ Cardinality(A) \in Nat /\ Cardinality(A) <= n2
  BY <1>2, <1>3, <1>7, FirstBound, Zenon
<1> HIDE DEF A
<1>9. m \in Nat
  BY <1>7, <1>8
<1> HIDE DEF m
<1>10. IsFiniteSet(T) /\ Cardinality(T) \in Nat /\ Cardinality(T) <= m
  <2>1. CASE m = 0
    <3>1. T = {}
      BY <2>1 DEF PlanReconcile
    <3> HIDE DEF T
    <3> QED BY <2>1, <3>1, FS_EmptySet
  <2>2. CASE m # 0
    <3>1. \E x : T \subseteq {x}
      <4>1. CASE r.reconcile = "Idle" /\ (r.reconcile_dirty \/ r.next_types_sync = "due")
        BY <1>9, <2>2, <4>1 DEF PlanReconcile
      <4>2. CASE r.reconcile = "ReadyToWrite"
        <5>1. T = {NewJob(r, "WriteTypes", NoService, value) : value \in r.pending_types_write}
          BY <1>9, <2>2, <4>2 DEF PlanReconcile
        <5> HIDE DEF T
        <5>2. CASE r.pending_types_write = {}
          BY <5>1, <5>2
        <5>3. ASSUME NEW v \in r.pending_types_write
              PROVE  T \subseteq {NewJob(r, "WriteTypes", NoService, v)}
          BY <5>1, Zenon
        <5> QED BY <5>2, <5>3, Zenon
      <4>3. CASE ~(r.reconcile = "Idle" /\ (r.reconcile_dirty \/ r.next_types_sync = "due"))
                 /\ r.reconcile # "ReadyToWrite"
        <5>1. T = {}
          BY <4>3, Zenon DEF PlanReconcile
        <5> QED BY <5>1, Zenon
      <4> QED BY <4>1, <4>2, <4>3, Zenon
    <3>2. PICK x : T \in SUBSET {x}
      BY <3>1, Zenon
    <3> HIDE DEF T
    <3>3. IsFiniteSet(T) /\ Cardinality(T) <= Cardinality({x})
      BY <3>2, FS_Singleton, FS_Subset, Zenon
    <3>4. Cardinality({x}) = 1 /\ Cardinality(T) \in Nat
      BY <3>3, FS_Singleton, FS_CardinalityType, Zenon
    <3> QED BY <1>9, <2>2, <3>3, <3>4
  <2> QED BY <2>1, <2>2, Zenon
<1>11. IsFiniteSet(JW) /\ Cardinality(JW) \in Nat /\ Cardinality(JW) <= Cardinality(W)
  <2> DEFINE f == [s \in W |-> NewJob(r, "Withdraw", s, {})]
  <2>1. \A y \in JW : \E s \in W : y = f[s]
    BY Zenon
  <2> HIDE DEF f, JW
  <2> QED BY <1>4, <2>1, Covered, Zenon
<1>12. /\ IsFiniteSet(JA) /\ Cardinality(JA) \in Nat
       /\ Cardinality(JA) <= Cardinality(R) + Cardinality(A)
  <2> DEFINE f == [s \in R \cup A |-> NewJob(r, "Announce", s, {})]
  <2>1. \A y \in JA : \E s \in R \cup A : y = f[s]
    BY Zenon
  <2>2. /\ IsFiniteSet(R \cup A) /\ Cardinality(R \cup A) \in Nat
        /\ Cardinality(R \cup A) <= Cardinality(R) + Cardinality(A)
    BY <1>6, <1>8, UnionBound, Zenon
  <2> HIDE DEF f, JA
  <2>3. IsFiniteSet(JA) /\ Cardinality(JA) \in Nat /\ Cardinality(JA) <= Cardinality(R \cup A)
    BY <2>1, <2>2, Covered, Zenon
  <2> QED BY <1>6, <1>8, <2>2, <2>3
<1> HIDE DEF JW, JA, T
<1>13. /\ IsFiniteSet(JW \cup JA) /\ Cardinality(JW \cup JA) \in Nat
       /\ Cardinality(JW \cup JA) <= Cardinality(JW) + Cardinality(JA)
  BY <1>11, <1>12, UnionBound, Zenon
<1>14. /\ IsFiniteSet((JW \cup JA) \cup T) /\ Cardinality((JW \cup JA) \cup T) \in Nat
       /\ Cardinality((JW \cup JA) \cup T) <= Cardinality(JW \cup JA) + Cardinality(T)
  BY <1>10, <1>13, UnionBound, Zenon
<1>15. Cardinality((JW \cup JA) \cup T) <= n
  BY <1>4, <1>5, <1>6, <1>7, <1>8, <1>9, <1>10, <1>11, <1>12, <1>13, <1>14 DEF n1, n2, m
<1> QED BY <1>1, <1>14, <1>15, Zenon

-----------------------------------------------------------------------------
(* The number of jobs in the JoinSet                                       *)

Counted(b) == \A j \in DOMAIN b : b[j] \in Nat \ {0}

LEMMA TasksAre ==
  ASSUME NEW b
  PROVE  \A x : x \in Tasks(b) <=> \E j \in DOMAIN b : \E i \in 1..b[j] : x = <<j, i>>
<1> SUFFICES ASSUME NEW x
             PROVE  x \in Tasks(b) <=> \E j \in DOMAIN b : \E i \in 1..b[j] : x = <<j, i>>
  BY Zenon
<1>1. x \in Tasks(b) <=> \E j \in DOMAIN b : x \in {j} \X (1..b[j])
  BY Zenon DEF Tasks
<1>2. \A j : x \in {j} \X (1..b[j]) <=> \E i \in 1..b[j] : x = <<j, i>>
  OBVIOUS
<1> QED BY <1>1, <1>2, Zenon

LEMMA TaskIs ==
  ASSUME NEW b, NEW x \in Tasks(b)
  PROVE  \E j \in DOMAIN b : \E i \in 1..b[j] : x = <<j, i>>
BY TasksAre

LEMMA TasksAdd ==
  ASSUME NEW b, Counted(b), IsFiniteSet(Tasks(b)), NEW S, IsFiniteSet(S)
  PROVE  /\ IsFiniteSet(Tasks(With(b, S)))
         /\ Cardinality(Tasks(b)) \in Nat /\ Cardinality(Tasks(With(b, S))) \in Nat
         /\ Cardinality(S) \in Nat
         /\ Cardinality(Tasks(With(b, S))) <= Cardinality(Tasks(b)) + Cardinality(S)
<1> DEFINE c == With(b, S)
           f == [j \in S |-> <<j, Copies(j, b) + 1>>]
           N == {f[j] : j \in S}
<1>1. /\ DOMAIN c = DOMAIN b \cup S
      /\ \A j \in DOMAIN c : c[j] = Copies(j, b) + IF j \in S THEN 1 ELSE 0
  BY DEF With, Copies
<1>2. \A j : Copies(j, b) \in Nat
  BY DEF Copies, Counted
<1> HIDE DEF c
<1>3. ASSUME NEW x \in Tasks(c)
      PROVE  x \in Tasks(b) \cup N
  <2>0. PICK j \in DOMAIN c : \E i \in 1..c[j] : x = <<j, i>>
    BY TaskIs, Zenon
  <2>1. PICK i \in 1..c[j] : x = <<j, i>>
    BY <2>0, Zenon
  <2>2. CASE i <= Copies(j, b)
    <3>1. j \in DOMAIN b /\ i \in 1..b[j]
      BY <1>2, <2>2 DEF Copies
    <3> QED BY <2>1, <3>1, TasksAre, Zenon
  <2>3. CASE ~(i <= Copies(j, b))
    <3>1. j \in S /\ i = Copies(j, b) + 1
      BY <1>1, <1>2, <2>3
    <3> QED BY <2>1, <3>1, Zenon
  <2> QED BY <2>2, <2>3, Zenon
<1>4. IsFiniteSet(N) /\ Cardinality(N) \in Nat /\ Cardinality(S) \in Nat /\ Cardinality(N) <= Cardinality(S)
  <2>1. \A y \in N : \E j \in S : y = f[j]
    BY Zenon
  <2> HIDE DEF N, f
  <2> QED BY <2>1, Covered, Zenon
<1> HIDE DEF N
<1>5. /\ IsFiniteSet(Tasks(b) \cup N) /\ Cardinality(Tasks(b)) \in Nat
      /\ Cardinality(Tasks(b) \cup N) \in Nat
      /\ Cardinality(Tasks(b) \cup N) <= Cardinality(Tasks(b)) + Cardinality(N)
  BY <1>4, UnionBound, Zenon
<1>6. Tasks(c) \in SUBSET (Tasks(b) \cup N)
  BY <1>3, Zenon
<1>7. IsFiniteSet(Tasks(c)) /\ Cardinality(Tasks(c)) <= Cardinality(Tasks(b) \cup N)
  BY <1>5, <1>6, FS_Subset, Zenon
<1>8. Cardinality(Tasks(c)) \in Nat
  BY <1>7, FS_CardinalityType, Zenon
<1>9. Cardinality(Tasks(c)) <= Cardinality(Tasks(b)) + Cardinality(S)
  BY <1>4, <1>5, <1>7, <1>8
<1> QED BY <1>4, <1>5, <1>7, <1>8, <1>9, Zenon DEF c

LEMMA TasksRemove ==
  ASSUME NEW b, Counted(b), IsFiniteSet(Tasks(b)), NEW j \in DOMAIN b
  PROVE  /\ IsFiniteSet(Tasks(Without(b, j)))
         /\ Cardinality(Tasks(b)) \in Nat /\ Cardinality(Tasks(Without(b, j))) \in Nat
         /\ Cardinality(Tasks(Without(b, j))) <= Cardinality(Tasks(b)) - 1
<1> DEFINE c == Without(b, j)
           last == <<j, b[j]>>
<1>1. /\ \A k \in DOMAIN c : k \in DOMAIN b /\ c[k] = IF k = j THEN b[k] - 1 ELSE b[k]
  BY DEF Without
<1> HIDE DEF c
<1>2. last \in Tasks(b)
  <2>1. b[j] \in 1..b[j]
    BY DEF Counted
  <2> QED BY <2>1, TasksAre, Zenon
<1>3. ASSUME NEW x \in Tasks(c)
      PROVE  x \in Tasks(b) /\ x # last
  <2>0. PICK k \in DOMAIN c : \E i \in 1..c[k] : x = <<k, i>>
    BY TaskIs, Zenon
  <2>1. PICK i \in 1..c[k] : x = <<k, i>>
    BY <2>0, Zenon
  <2>2. k \in DOMAIN b /\ i \in 1..b[k] /\ (k = j => i # b[j])
    BY <1>1 DEF Counted
  <2>3. x \in Tasks(b)
    BY <2>1, <2>2, TasksAre, Zenon
  <2>4. x # last
    BY <2>1, <2>2
  <2> QED BY <2>3, <2>4, Zenon
<1> HIDE DEF last
<1>4. Tasks(c) \in SUBSET (Tasks(b) \ {last})
  BY <1>3, Zenon
<1>5. /\ IsFiniteSet(Tasks(b) \ {last})
      /\ Cardinality(Tasks(b) \ {last}) = Cardinality(Tasks(b)) - 1
  BY <1>2, FS_RemoveElement
<1>6. IsFiniteSet(Tasks(c)) /\ Cardinality(Tasks(c)) <= Cardinality(Tasks(b) \ {last})
  BY <1>4, <1>5, FS_Subset
<1>7. Cardinality(Tasks(c)) \in Nat /\ Cardinality(Tasks(b)) \in Nat
  BY <1>6, FS_CardinalityType, Zenon
<1> QED BY <1>5, <1>6, <1>7 DEF c

LEMMA TasksRephase ==
  ASSUME NEW b, NEW g \in Nat, JobsOK(b, g), IsFiniteSet(Tasks(b)),
         NEW from \in Phase, NEW to \in Phase, from # to
  PROVE  /\ IsFiniteSet(Tasks(Rephase(b, from, to)))
         /\ Cardinality(Tasks(Rephase(b, from, to))) \in Nat /\ Cardinality(Tasks(b)) \in Nat
         /\ Cardinality(Tasks(Rephase(b, from, to))) <= Cardinality(Tasks(b))
<1> DEFINE c == Rephase(b, from, to)
           moved(k) == [k EXCEPT !.phase = to]
           f == [x \in Tasks(b) |-> IF x[1].phase = from
                                    THEN <<moved(x[1]), Copies(moved(x[1]), b) + x[2]>> ELSE x]
<1>1. DOMAIN c = {IF k.phase = from THEN moved(k) ELSE k : k \in DOMAIN b}
  BY Zenon DEF Rephase
<1>2. \A k \in DOMAIN b : k \in Job /\ b[k] \in Nat \ {0}
  BY Zenon DEF JobsOK
<1>3. \A j : Copies(j, b) \in Nat
  BY <1>2 DEF Copies
<1>4. ASSUME NEW y \in Tasks(c)
      PROVE  \E x \in Tasks(b) : y = f[x]
  <2>0. PICK j \in DOMAIN c : \E i \in 1..c[j] : y = <<j, i>>
    BY TaskIs, Zenon
  <2>1. PICK i \in 1..c[j] : y = <<j, i>>
    BY <2>0, Zenon
  <2>2. PICK k \in DOMAIN b : j = IF k.phase = from THEN moved(k) ELSE k
    BY <1>1, Zenon
  <2>3. j \in Job /\ j.phase # from
    BY <1>2, <2>2, Zenon DEF Job
  <2>4. ASSUME j \in DOMAIN b, i \in 1..b[j]
        PROVE  \E x \in Tasks(b) : y = f[x]
    <3>1. y \in Tasks(b)
      BY <2>1, <2>4, TasksAre, Zenon
    <3>2. y[1] = j
      BY <2>1
    <3>3. f[y] = y
      BY <2>3, <3>1, <3>2, Zenon
    <3> QED BY <3>1, <3>3, Zenon
  <2>5. CASE j.phase # to
    <3>1. j \in DOMAIN b /\ c[j] = b[j]
      BY <2>5, RephaseKeeps, Zenon
    <3> QED BY <2>4, <3>1, Zenon
  <2>6. CASE j.phase = to
    <3> DEFINE h == [j EXCEPT !.phase = from]
    <3>1. c[j] = Copies(j, b) + Copies(h, b)
      BY <2>6, Zenon DEF Rephase
    <3>2. moved(h) = j /\ h.phase = from
      BY <2>3, <2>6, Zenon DEF Job
    <3> HIDE DEF h, c, moved
    <3>3. CASE i <= Copies(j, b)
      <4>1. j \in DOMAIN b /\ i \in 1..b[j]
        BY <1>3, <3>3 DEF Copies
      <4> QED BY <2>4, <4>1, Zenon
    <3>4. CASE ~(i <= Copies(j, b))
      <4> DEFINE d == i - Copies(j, b)
      <4>1. d \in 1..Copies(h, b) /\ Copies(j, b) + d = i
        BY <1>3, <3>1, <3>4
      <4> HIDE DEF d
      <4>2. h \in DOMAIN b /\ d \in 1..b[h]
        BY <4>1 DEF Copies
      <4>3. <<h, d>> \in Tasks(b)
        BY <4>2, TasksAre, Zenon
      <4>4. f[<<h, d>>] = <<moved(h), Copies(moved(h), b) + d>>
        BY <3>2, <4>3
      <4>5. f[<<h, d>>] = y
        BY <2>1, <3>2, <4>1, <4>4, Zenon
      <4> QED BY <4>3, <4>5, Zenon
    <3> QED BY <3>3, <3>4, Zenon
  <2> QED BY <2>5, <2>6, Zenon
<1> HIDE DEF f, c
<1>5. /\ IsFiniteSet(Tasks(c)) /\ Cardinality(Tasks(c)) \in Nat /\ Cardinality(Tasks(b)) \in Nat
      /\ Cardinality(Tasks(c)) <= Cardinality(Tasks(b))
  BY <1>4, Covered, Zenon
<1> QED BY <1>5, Zenon DEF c

\* The JoinSet holds at most max_inflight_dht tasks.
Fits(b) == IsFiniteSet(Tasks(b)) /\ Cardinality(Tasks(b)) <= MaxInflight

\* pump fills the free slots and no more: one pending types write is one job.
LEMMA PumpFits ==
  ASSUME NEW r, StateOK(r), NEW b, JobsOK(b, r.generation), Pump({r}, b), Fits(b),
         \A v, w \in r.pending_types_write : v = w
  PROVE  Fits(jobs')
<1> DEFINE J == plan(r, Slots(b)).jobs
<1>1. jobs' = With(b, J)
  BY Zenon DEF Pump
<1>2. Counted(b) /\ IsFiniteSet(Tasks(b)) /\ r \in RegistryState
  BY Zenon DEF JobsOK, Counted, Fits, StateOK
<1>3. Cardinality(Tasks(b)) \in Nat
  BY <1>2, FS_CardinalityType, Zenon
<1>4. Slots(b) \in Nat /\ Slots(b) = MaxInflight - Cardinality(Tasks(b))
  BY <1>3, BoundAssumption DEF Slots, Fits
<1>5. IsFiniteSet(J) /\ Cardinality(J) \in Nat /\ Cardinality(J) <= Slots(b)
  BY <1>2, <1>4, PlanBound, Zenon
<1> HIDE DEF J
<1>6. /\ IsFiniteSet(Tasks(jobs')) /\ Cardinality(Tasks(jobs')) \in Nat
      /\ Cardinality(Tasks(jobs')) <= Cardinality(Tasks(b)) + Cardinality(J)
  BY <1>1, <1>2, <1>5, TasksAdd, Zenon
<1>7. Cardinality(Tasks(jobs')) <= MaxInflight
  BY <1>3, <1>4, <1>5, <1>6, BoundAssumption
<1> QED BY <1>6, <1>7, Zenon DEF Fits

\* A task that is joined leaves its slot.
LEMMA RemoveFits ==
  ASSUME NEW b, NEW g, JobsOK(b, g), Fits(b), NEW j \in DOMAIN b
  PROVE  /\ Fits(Without(b, j)) /\ Cardinality(Tasks(Without(b, j))) \in Nat
         /\ Cardinality(Tasks(Without(b, j))) + 1 <= MaxInflight
<1> DEFINE c == Without(b, j)
<1>1. Counted(b) /\ IsFiniteSet(Tasks(b)) /\ Cardinality(Tasks(b)) <= MaxInflight
  BY Zenon DEF JobsOK, Counted, Fits
<1>2. /\ IsFiniteSet(Tasks(c)) /\ Cardinality(Tasks(b)) \in Nat /\ Cardinality(Tasks(c)) \in Nat
      /\ Cardinality(Tasks(c)) <= Cardinality(Tasks(b)) - 1
  BY <1>1, TasksRemove, Zenon
<1> HIDE DEF c
<1>3. Cardinality(Tasks(c)) + 1 <= MaxInflight /\ Cardinality(Tasks(c)) <= MaxInflight
  BY <1>1, <1>2, BoundAssumption
<1> QED BY <1>2, <1>3, Zenon DEF Fits, c

\* A task that moves on keeps its slot.
LEMMA AdvanceFits ==
  ASSUME NEW g, JobsOK(jobs, g), Fits(jobs), NEW j \in DOMAIN jobs, NEW k, Advance(j, k)
  PROVE  Fits(jobs')
<1> DEFINE c == Without(jobs, j)
<1>1. /\ Fits(c) /\ Cardinality(Tasks(c)) \in Nat /\ Cardinality(Tasks(c)) + 1 <= MaxInflight
  BY RemoveFits, Zenon
<1>2. \A i \in DOMAIN jobs : jobs[i] \in Nat \ {0}
  BY Zenon DEF JobsOK
<1>3. Counted(c)
  BY <1>2, RemoveFacts, Zenon DEF Counted
<1>4. jobs' = With(c, {k})
  BY Zenon DEF Advance
<1> HIDE DEF c
<1>5. IsFiniteSet({k}) /\ Cardinality({k}) = 1
  BY FS_Singleton, Zenon
<1>6. /\ IsFiniteSet(Tasks(jobs')) /\ Cardinality(Tasks(jobs')) \in Nat
      /\ Cardinality(Tasks(jobs')) <= Cardinality(Tasks(c)) + Cardinality({k})
  BY <1>1, <1>3, <1>4, <1>5, TasksAdd, Zenon DEF Fits
<1>7. Cardinality(Tasks(jobs')) <= MaxInflight
  BY <1>1, <1>5, <1>6, BoundAssumption
<1> QED BY <1>6, <1>7, Zenon DEF Fits

\* A task that fails or is cancelled stays until it is joined.
LEMMA RephaseFits ==
  ASSUME NEW b, NEW g \in Nat, JobsOK(b, g), Fits(b),
         NEW from \in Phase, NEW to \in Phase, from # to
  PROVE  Fits(Rephase(b, from, to))
<1> DEFINE c == Rephase(b, from, to)
<1>1. /\ IsFiniteSet(Tasks(c)) /\ Cardinality(Tasks(c)) \in Nat /\ Cardinality(Tasks(b)) \in Nat
      /\ Cardinality(Tasks(c)) <= Cardinality(Tasks(b))
  BY TasksRephase, Zenon DEF Fits
<1>2. Cardinality(Tasks(b)) <= MaxInflight
  BY Zenon DEF Fits
<1> HIDE DEF c
<1>3. Cardinality(Tasks(c)) <= MaxInflight
  BY <1>1, <1>2, BoundAssumption
<1> QED BY <1>1, <1>3, Zenon DEF Fits, c

LEMMA AbortFits ==
  ASSUME NEW b, NEW g \in Nat, JobsOK(b, g), Fits(b)
  PROVE  Fits(AbortAll(b))
<1> DEFINE c == Rephase(b, "queued", "cancelled")
<1>1. "queued" \in Phase /\ "running" \in Phase /\ "cancelled" \in Phase
  BY Zenon DEF Phase
<1>2. JobsOK(c, g)
  BY <1>1, RephaseFacts, Zenon
<1>3. Fits(c)
  BY <1>1, RephaseFits, Zenon
<1> HIDE DEF c
<1>4. Fits(Rephase(c, "running", "cancelled"))
  BY <1>1, <1>2, <1>3, RephaseFits, Zenon
<1> QED BY <1>4, Zenon DEF AbortAll, c

-----------------------------------------------------------------------------
(* Type correctness                                                        *)

\* A handler keeps the state well formed; it never drops a known type.
Handled(r, q, generation) ==
    StateOK(q) /\ q.generation = generation /\ r.known_types \subseteq q.known_types

LEMMA HandleOK ==
  ASSUME NEW r, StateOK(r)
  PROVE  /\ Handled(r, HandleBootstrapCompleted(r), r.generation)
         /\ Handled(r, HandleReannounce(r), r.generation)
         /\ Handled(r, HandleRefreshTypes(r), r.generation)
         /\ Handled(r, HandleReset(r), r.generation + 1)
         /\ \A need \in BOOLEAN, active \in Nat :
               Handled(r, HandleRelayStateChanged(r, need, active), r.generation)
         /\ \A ready \in SUBSET Service :
               Handled(r, replace_backend_ready(r, ready), r.generation)
<1> USE DEF StateOK
<1>1. HandleBootstrapCompleted(r).known_types = r.known_types /\ HandleBootstrapCompleted(r).generation = r.generation
  BY Zenon DEF HandleBootstrapCompleted, mark_types_dirty, RegistryState
<1>2. HandleReannounce(r).known_types = r.known_types /\ HandleReannounce(r).generation = r.generation
  BY Zenon DEF HandleReannounce, mark_types_dirty, RegistryState
<1>3. HandleRefreshTypes(r).known_types = r.known_types /\ HandleRefreshTypes(r).generation = r.generation
  BY Zenon DEF HandleRefreshTypes, mark_types_dirty, RegistryState
<1>4. HandleReset(r).known_types = r.known_types /\ HandleReset(r).generation = r.generation + 1
  BY Zenon DEF HandleReset, NewState
<1>5. ASSUME NEW need \in BOOLEAN, NEW active \in Nat
      PROVE  /\ HandleRelayStateChanged(r, need, active).known_types = r.known_types
             /\ HandleRelayStateChanged(r, need, active).generation = r.generation
  BY Zenon DEF HandleRelayStateChanged, RegistryState, relay_ready
<1>6. ASSUME NEW ready \in SUBSET Service
      PROVE  /\ replace_backend_ready(r, ready).known_types = r.known_types
             /\ replace_backend_ready(r, ready).generation = r.generation
  BY Zenon DEF replace_backend_ready, RegistryState
<1> QED BY <1>1, <1>2, <1>3, <1>4, <1>5, <1>6, HandleType, ZenonT(60) DEF Handled

\* The jobs that join_next hands to apply.
Finished(j, generation) ==
    /\ j \in Job
    /\ j.generation <= generation
    /\ j.kind \in {"Announce", "Withdraw"} <=> j.service # NoService
    /\ j.phase \in {"ok", "err", "cancelled"}

LEMMA ApplyOK ==
  ASSUME NEW r, StateOK(r), NEW j, Finished(j, r.generation), NEW q \in apply(r, j)
  PROVE  Handled(r, q, r.generation)
<1> USE DEF StateOK, Finished, Handled
<1>1. CASE j.phase = "cancelled"
  BY <1>1, Zenon DEF apply
<1>2. CASE j.phase # "cancelled" /\ j.kind = "Announce"
  <2>1. q = ApplyAnnounced(r, j) /\ j.service \in Service /\ j.phase \in {"ok", "err"}
    BY <1>2, Zenon DEF apply, Job
  <2>2. ApplyAnnounced(r, j).known_types = r.known_types /\ ApplyAnnounced(r, j).generation = r.generation
    BY <2>1, Zenon DEF ApplyAnnounced, mark_types_dirty, RegistryState
  <2> QED BY <2>1, <2>2, ApplyAnnouncedType, Zenon
<1>3. CASE j.phase # "cancelled" /\ j.kind = "Withdraw"
  <2>1. q = ApplyWithdrawn(r, j) /\ j.service \in Service /\ j.phase \in {"ok", "err"}
    BY <1>3, Zenon DEF apply, Job
  <2>2. ApplyWithdrawn(r, j).known_types = r.known_types /\ ApplyWithdrawn(r, j).generation = r.generation
    BY <2>1, Zenon DEF ApplyWithdrawn, RegistryState
  <2> QED BY <2>1, <2>2, ApplyWithdrawnType, Zenon
<1>4. CASE j.phase # "cancelled" /\ j.kind = "WriteTypes"
  <2>1. q = ApplyTypesWritten(r, j)
    BY <1>4, Zenon DEF apply
  <2>2. ApplyTypesWritten(r, j).known_types = r.known_types /\ ApplyTypesWritten(r, j).generation = r.generation
    BY Zenon DEF ApplyTypesWritten, ReconcileIdle, RegistryState
  <2> QED BY <2>1, <2>2, ApplyTypesWrittenType, Zenon
<1>5. CASE j.phase # "cancelled" /\ j.kind = "ReadTypes"
  <2>0. PICK k \in MergedTypes(r.known_types, j.types) :
            \E x \in MergedTypes(k, r.announced) : q = ApplyTypesRead(r, j, x)
    BY <1>5, Zenon DEF apply
  <2>1. PICK known \in MergedTypes(k, r.announced) : q = ApplyTypesRead(r, j, known)
    BY <2>0, Zenon
  <2>2. /\ r.known_types \in SUBSET TypeName /\ r.announced \in SUBSET TypeName
        /\ j.types \in SUBSET TypeName
    BY ServiceAssumption, Zenon DEF RegistryState, Job
  <2>3. k \in SUBSET TypeName /\ r.known_types \subseteq k /\ Cardinality(k) <= MaxTypes
    BY <2>2, MergedTypesFacts
  <2>4. known \in SUBSET TypeName /\ k \subseteq known /\ Cardinality(known) <= MaxTypes
    BY <2>2, <2>3, MergedTypesFacts
  <2>5. /\ ApplyTypesRead(r, j, known).known_types \in {r.known_types, known}
        /\ ApplyTypesRead(r, j, known).generation = r.generation
    BY <1>5, <2>4, Zenon DEF ApplyTypesRead, ReconcileIdle, RegistryState, Job, Phase
  <2>6. ApplyTypesRead(r, j, known) \in RegistryState
    BY <1>5, <2>4, ApplyTypesReadType, Zenon DEF Job
  <2> QED BY <2>1, <2>3, <2>4, <2>5, <2>6, Zenon
<1> QED BY <1>1, <1>2, <1>3, <1>4, <1>5, Zenon DEF Job, Kind

\* The jobs a plan asks for are well formed.
LEMMA PlannedJobs ==
  ASSUME NEW r \in RegistryState, NEW p, NEW W \in SUBSET Service, NEW A \in SUBSET Service,
         PlanEffect(r, p, W, A)
  PROVE  \A j \in p.jobs : /\ j \in Job /\ j.generation = r.generation /\ j.phase = "queued"
                           /\ j.kind \in {"Announce", "Withdraw"} <=> j.service # NoService
<1> SUFFICES ASSUME NEW j \in p.jobs
             PROVE  /\ j \in Job /\ j.generation = r.generation /\ j.phase = "queued"
                    /\ j.kind \in {"Announce", "Withdraw"} <=> j.service # NoService
  BY Zenon
<1>1. PICK kind \in Kind, s \in Service \cup {NoService}, types \in SUBSET TypeName :
          /\ j = NewJob(r, kind, s, types)
          /\ kind \in {"Announce", "Withdraw"} <=> s # NoService
  BY ServiceAssumption DEF PlanEffect, Kind, NoService
<1>2. r.generation \in Nat
  BY Zenon DEF RegistryState
<1> QED BY <1>1, <1>2, Zenon DEF NewJob, Job, Phase

LEMMA PumpOK ==
  ASSUME NEW r, StateOK(r), NEW b, JobsOK(b, r.generation), Pump({r}, b)
  PROVE  StateOK(reg') /\ JobsOK(jobs', reg'.generation) /\ reg'.known_types = r.known_types
<1>1. PICK p : p = plan(r, Slots(b)) /\ reg' = p.state /\ jobs' = With(b, p.jobs)
  BY Zenon DEF Pump
<1>2. PICK W, A \in SUBSET Service : PlanEffect(r, p, W, A)
  BY <1>1, PlanFacts, Zenon DEF StateOK
<1>3. StateOK(reg') /\ reg'.generation = r.generation /\ reg'.known_types = r.known_types
  BY <1>1, <1>2, Zenon DEF PlanEffect, PlanKeeps, StateOK
<1>4. r \in RegistryState /\ r.generation \in Nat
  BY Zenon DEF StateOK, RegistryState
<1>5. \A j \in p.jobs : /\ j \in Job /\ j.generation = r.generation /\ j.phase = "queued"
                        /\ j.kind \in {"Announce", "Withdraw"} <=> j.service # NoService
  BY <1>2, <1>4, PlannedJobs, Zenon
<1>6. \A j \in DOMAIN b : b[j] \in Nat \ {0}
  BY Zenon DEF JobsOK
<1>7. DOMAIN jobs' = DOMAIN b \cup p.jobs /\ \A j \in DOMAIN jobs' : jobs'[j] \in Nat \ {0}
  BY <1>1, <1>6, AddFacts, Zenon
<1>8. ASSUME NEW j \in DOMAIN jobs'
      PROVE  /\ j \in Job /\ j.generation <= r.generation
             /\ j.kind \in {"Announce", "Withdraw"} <=> j.service # NoService
  <2>1. CASE j \in DOMAIN b
    BY <2>1, Zenon DEF JobsOK
  <2>2. CASE j \in p.jobs
    BY <1>4, <1>5, <2>2
  <2> QED BY <1>7, <2>1, <2>2, Zenon
<1> QED BY <1>3, <1>7, <1>8, Zenon DEF JobsOK

\* Moving a job to another phase.
LEMMA AdvanceOK ==
  ASSUME NEW g \in Nat, JobsOK(jobs, g), NEW j \in DOMAIN jobs, NEW phase \in Phase,
         NEW types \in SUBSET TypeName,
         Advance(j, [j EXCEPT !.phase = phase, !.types = types])
  PROVE  JobsOK(jobs', g)
<1> DEFINE k == [j EXCEPT !.phase = phase, !.types = types]
           c == Without(jobs, j)
<1>1. /\ k \in Job /\ k.generation <= g
      /\ k.kind \in {"Announce", "Withdraw"} <=> k.service # NoService
  BY Zenon DEF JobsOK, Job
<1>2. jobs' = With(c, {k})
  BY Zenon DEF Advance
<1>3. DOMAIN c \subseteq DOMAIN jobs /\ \A i \in DOMAIN c : c[i] \in Nat \ {0}
  BY RemoveFacts, Zenon DEF JobsOK
<1> HIDE DEF k, c
<1>4. DOMAIN jobs' = DOMAIN c \cup {k} /\ \A i \in DOMAIN jobs' : jobs'[i] \in Nat \ {0}
  BY <1>2, <1>3, AddFacts, Zenon
<1> QED BY <1>1, <1>3, <1>4, Zenon DEF JobsOK

(***************************************************************************)
(* Every command, result and reload keeps the registry, its jobs and the   *)
(* network well typed: no job is of a generation that the registry has not *)
(* reached, and known_types stays within its limit.                        *)
(***************************************************************************)
THEOREM TypeCorrect == Spec => []TypeOK
<1>1. Init => TypeOK
  <2> SUFFICES ASSUME Init PROVE TypeOK
    BY Zenon
  <2>1. PICK ready \in SUBSET Service : reg = NewState(ready)
    BY Zenon DEF Init
  <2>2. reg \in RegistryState /\ reg.known_types = {}
    BY <2>1, NewStateType, Zenon DEF NewState
  <2>3. Cardinality(reg.known_types) <= MaxTypes
    BY <2>2, FS_EmptySet, BoundAssumption
  <2>4. DOMAIN jobs = {}
    BY Zenon DEF Init, NoJobs
  <2> QED BY <2>2, <2>3, <2>4, Zenon DEF Init, TypeOK, StateOK, JobsOK
<1>2. TypeOK /\ [Next]_vars => TypeOK'
  <2> SUFFICES ASSUME TypeOK, [Next]_vars PROVE TypeOK'
    BY Zenon
  <2>0. StateOK(reg) /\ JobsOK(jobs, reg.generation) /\ reg.generation \in Nat
    BY Zenon DEF TypeOK, StateOK, RegistryState
  <2>1. CASE BootstrapCompleted
    BY <2>0, <2>1, HandleOK, PumpOK, Zenon DEF Handled, BootstrapCompleted, TypeOK
  <2>2. CASE Tick
    BY <2>0, <2>2, PumpOK, Zenon DEF Tick, TypeOK
  <2>3. CASE Reannounce
    BY <2>0, <2>3, HandleOK, PumpOK, Zenon DEF Handled, Reannounce, TypeOK
  <2>4. CASE RefreshTypes
    BY <2>0, <2>4, HandleOK, PumpOK, Zenon DEF Handled, RefreshTypes, TypeOK
  <2>5. ASSUME NEW need \in BOOLEAN, NEW active \in 0..MaxRelays, RelayStateChanged(need, active)
        PROVE  TypeOK'
    <3>1. active \in Nat
      BY BoundAssumption
    <3> DEFINE q == HandleRelayStateChanged(reg, need, active)
    <3>2. StateOK(q) /\ q.generation = reg.generation /\ reg.known_types \subseteq q.known_types
      BY <2>0, <3>1, HandleOK, Zenon DEF Handled
    <3>3. Pump({q}, jobs) /\ UNCHANGED <<provided, reset_due>>
      BY <2>5, Zenon DEF RelayStateChanged
    <3> HIDE DEF q
    <3> QED BY <2>0, <3>2, <3>3, PumpOK, Zenon DEF TypeOK
  <2>6. CASE Reset
    <3>1. JobsOK(Rephase(jobs, "queued", "cancelled"), reg.generation)
      BY <2>0, RephaseFacts, Zenon DEF Phase
    <3>2. JobsOK(AbortAll(jobs), reg.generation)
      BY <2>0, <3>1, RephaseFacts, Zenon DEF Phase, AbortAll
    <3>3. JobsOK(AbortAll(jobs), reg.generation + 1)
      BY <2>0, <3>2 DEF JobsOK, Job
    <3>4. \A j \in DOMAIN jobs : j.kind = "Announce" => j.service \in Service
      BY <2>0, Zenon DEF JobsOK, Job
    <3>5. provided' \subseteq Service
      BY <2>6, <3>4, Zenon DEF Reset, Unrevoked, TypeOK
    <3> QED BY <2>0, <2>6, <3>3, <3>5, HandleOK, PumpOK, Zenon DEF Handled, Reset, TypeOK
  <2>7. ASSUME NEW ready \in SUBSET Service, ReadinessChanged(ready)
        PROVE  TypeOK'
    BY <2>0, <2>7, HandleOK, PumpOK, Zenon DEF Handled, ReadinessChanged, TypeOK
  <2>8. ASSUME NEW j \in DOMAIN jobs, JobStep(j)
        PROVE  TypeOK'
    <3>0. /\ j \in Job /\ j.generation <= reg.generation
          /\ j.kind \in {"Announce", "Withdraw"} <=> j.service # NoService
      BY <2>0, Zenon DEF JobsOK
    <3>1. CASE Execute(j)
      <4>1. \E phase \in Phase : Advance(j, [j EXCEPT !.phase = phase, !.types = j.types])
        BY <3>0, <3>1, Zenon DEF Execute, Phase, Job
      <4>2. JobsOK(jobs', reg.generation)
        BY <2>0, <3>0, <4>1, AdvanceOK, Zenon DEF Job
      <4>3. provided' \subseteq Service
        BY <3>0, <3>1, Zenon DEF Execute, TypeOK, Job
      <4> QED BY <3>1, <4>2, <4>3, Zenon DEF Execute, TypeOK
    <3>2. CASE Refuse(j)
      <4>1. Advance(j, [j EXCEPT !.phase = "err", !.types = j.types])
        BY <3>0, <3>2, Zenon DEF Refuse, Job
      <4>2. JobsOK(jobs', reg.generation)
        BY <2>0, <3>0, <4>1, AdvanceOK, Zenon DEF Job, Phase
      <4> QED BY <3>2, <4>2, Zenon DEF Refuse, TypeOK
    <3>3. CASE Succeed(j)
      <4>1. PICK types \in SUBSET TypeName : Advance(j, [j EXCEPT !.phase = "ok", !.types = types])
        BY <3>0, <3>3, Zenon DEF Succeed, ReadableTypes, Job
      <4>2. JobsOK(jobs', reg.generation)
        BY <2>0, <3>0, <4>1, AdvanceOK, Zenon DEF Phase
      <4> QED BY <3>3, <4>2, Zenon DEF Succeed, TypeOK
    <3>4. CASE Fail(j)
      <4>1. Advance(j, [j EXCEPT !.phase = "err", !.types = j.types])
        BY <3>0, <3>4, Zenon DEF Fail, Job
      <4>2. JobsOK(jobs', reg.generation)
        BY <2>0, <3>0, <4>1, AdvanceOK, Zenon DEF Job, Phase
      <4> QED BY <3>4, <4>2, Zenon DEF Fail, TypeOK
    <3>5. CASE Join(j)
      <4>1. PICK q \in apply(reg, j) : Pump({q}, Without(jobs, j))
        BY <3>5, Zenon DEF Join, Pump
      <4>2. Finished(j, reg.generation)
        BY <3>0, <3>5, Zenon DEF Join, Finished
      <4>3. StateOK(q) /\ q.generation = reg.generation
        BY <2>0, <4>2, ApplyOK, Zenon DEF Handled
      <4>4. JobsOK(Without(jobs, j), q.generation)
        BY <2>0, <4>3, RemoveFacts, Zenon DEF JobsOK
      <4> QED BY <3>5, <4>1, <4>3, <4>4, PumpOK, Zenon DEF Join, TypeOK
    <3> QED BY <2>8, <3>1, <3>2, <3>3, <3>4, <3>5, Zenon DEF JobStep
  <2>9. CASE SwarmReload
    BY <2>0, <2>9, RephaseFacts, Zenon DEF SwarmReload, TypeOK, Phase
  <2>10. ASSUME NEW f \in TimerField, NEW s \in Service, Elapse(f, s)
         PROVE  TypeOK'
    BY <2>0, <2>10, ZenonT(60) DEF Elapse, TimerField, TypeOK, StateOK, RegistryState, Timer
  <2>11. CASE ElapseSync
    BY <2>0, <2>11, Zenon DEF ElapseSync, TypeOK, StateOK, RegistryState, Timer
  <2>12. CASE UNCHANGED vars
    BY <2>12, Zenon DEF vars, TypeOK, StateOK, JobsOK
  <2> QED BY <2>1, <2>2, <2>3, <2>4, <2>5, <2>6, <2>7, <2>8, <2>9, <2>10, <2>11, <2>12, Zenon
          DEF Next, Command
<1> QED BY <1>1, <1>2, PTL DEF Spec

(***************************************************************************)
(* known_types is a monotone union: merges only add names, and Reset       *)
(* carries the names over.                                                 *)
(***************************************************************************)
THEOREM KnownTypesMonotone == Spec => KnownTypesGrow
<1>1. TypeOK /\ [Next]_vars => [reg.known_types \subseteq reg'.known_types]_vars
  <2> SUFFICES ASSUME TypeOK, [Next]_vars PROVE reg.known_types \subseteq reg'.known_types
    BY Zenon
  <2>0. StateOK(reg) /\ JobsOK(jobs, reg.generation) /\ reg.generation \in Nat
    BY Zenon DEF TypeOK, StateOK, RegistryState
  <2>1. CASE BootstrapCompleted
    BY <2>0, <2>1, HandleOK, PumpOK, Zenon DEF Handled, BootstrapCompleted
  <2>2. CASE Tick
    BY <2>0, <2>2, PumpOK, Zenon DEF Tick
  <2>3. CASE Reannounce
    BY <2>0, <2>3, HandleOK, PumpOK, Zenon DEF Handled, Reannounce
  <2>4. CASE RefreshTypes
    BY <2>0, <2>4, HandleOK, PumpOK, ZenonT(60) DEF Handled, RefreshTypes
  <2>5. ASSUME NEW need \in BOOLEAN, NEW active \in 0..MaxRelays, RelayStateChanged(need, active)
        PROVE  reg.known_types \subseteq reg'.known_types
    <3>1. active \in Nat
      BY BoundAssumption
    <3> DEFINE q == HandleRelayStateChanged(reg, need, active)
    <3>2. StateOK(q) /\ q.generation = reg.generation /\ reg.known_types \subseteq q.known_types
      BY <2>0, <3>1, HandleOK, Zenon DEF Handled
    <3>3. Pump({q}, jobs) /\ UNCHANGED <<provided, reset_due>>
      BY <2>5, Zenon DEF RelayStateChanged
    <3> HIDE DEF q
    <3> QED BY <2>0, <3>2, <3>3, PumpOK, ZenonT(60)
  <2>6. CASE Reset
    <3>1. JobsOK(AbortAll(jobs), reg.generation)
      BY <2>0, RephaseFacts, Zenon DEF Phase, AbortAll
    <3>2. JobsOK(AbortAll(jobs), reg.generation + 1)
      BY <2>0, <3>1, JobsOfTheNext, Zenon
    <3> QED BY <2>0, <2>6, <3>2, HandleOK, PumpOK, Zenon DEF Handled, Reset
  <2>7. ASSUME NEW ready \in SUBSET Service, ReadinessChanged(ready)
        PROVE  reg.known_types \subseteq reg'.known_types
    BY <2>0, <2>7, HandleOK, PumpOK, ZenonT(60) DEF Handled, ReadinessChanged
  <2>8. ASSUME NEW j \in DOMAIN jobs, Join(j)
        PROVE  reg.known_types \subseteq reg'.known_types
    <3>1. PICK q \in apply(reg, j) : Pump({q}, Without(jobs, j))
      BY <2>8, Zenon DEF Join, Pump
    <3>2. Finished(j, reg.generation)
      BY <2>0, <2>8, Zenon DEF Join, Finished, JobsOK
    <3>3. Handled(reg, q, reg.generation)
      BY <2>0, <3>2, ApplyOK, Zenon
    <3>4. JobsOK(Without(jobs, j), q.generation)
      BY <2>0, <3>3, RemoveFacts, Zenon DEF JobsOK, Handled
    <3> QED BY <3>1, <3>3, <3>4, PumpOK, Zenon DEF Handled
  <2>9. ASSUME NEW f \in TimerField, NEW s \in Service, Elapse(f, s)
        PROVE  reg.known_types \subseteq reg'.known_types
    BY <2>0, <2>9, Zenon DEF Elapse, TimerField, StateOK, RegistryState
  <2>10. CASE ElapseSync
    BY <2>0, <2>10, Zenon DEF ElapseSync, StateOK, RegistryState
  <2>11. CASE UNCHANGED reg
    BY <2>11, Zenon
  <2> QED BY <2>1, <2>2, <2>3, <2>4, <2>5, <2>6, <2>7, <2>8, <2>9, <2>10, <2>11, ZenonT(60)
          DEF Next, Command, JobStep, Execute, Refuse, Succeed, Fail, SwarmReload, vars
<1> QED BY <1>1, TypeCorrect, PTL DEF Spec, KnownTypesGrow

-----------------------------------------------------------------------------
(* When the registry announces                                             *)

(***************************************************************************)
(* Nothing is announced on a DHT that is not bootstrapped, without a       *)
(* relay where one is needed, or for a backend that is not ready.          *)
(*                                                                         *)
(* The inductive invariant is Quiet /\ Gate, on top of TypeOK.  Quiet is   *)
(* needed because the retry stage of plan() does not test bootstrapped:    *)
(* only the absence of armed retries keeps it from announcing after a      *)
(* reload.  Both are stated for a state r and a JoinSet b, so that they    *)
(* can be followed from a handler through the pump() that ends its turn.   *)
(***************************************************************************)

ProviderKinds == {"Announce", "Withdraw"}

Quiet(r, b) ==
    ~r.bootstrapped =>
        /\ r.announced = {} /\ r.relay_withdraw = {}
        /\ r.announce_inflight = {} /\ r.withdraw_inflight = {}
        /\ r.withdraw_deadline = AllUnset
        /\ r.announce_retry_at = AllUnset
        /\ \A j \in DOMAIN b : j.kind \in ProviderKinds /\ j.generation = r.generation
                                   => j.phase = "cancelled"

Gate(r) ==
    IF relay_ready(r) THEN r.relay_withdraw = {} ELSE r.announced \subseteq r.relay_withdraw

LEMMA QuietIsNothingBeforeBootstrap == Quiet(reg, jobs) <=> NothingBeforeBootstrap
BY Zenon DEF Quiet, NothingBeforeBootstrap, LiveJobs, ProviderKinds

LEMMA GateIsRelayGate == Gate(reg) <=> RelayGate
BY Zenon DEF Gate, RelayGate

-----------------------------------------------------------------------------
(* The handlers                                                            *)

LEMMA HandleQuiet ==
  ASSUME NEW r \in RegistryState, NEW b, Quiet(r, b)
  PROVE  /\ Quiet(HandleBootstrapCompleted(r), b)
         /\ Quiet(HandleReannounce(r), b)
         /\ Quiet(HandleRefreshTypes(r), b)
         /\ \A need \in BOOLEAN, active \in Nat : Quiet(HandleRelayStateChanged(r, need, active), b)
         /\ \A ready \in SUBSET Service : Quiet(replace_backend_ready(r, ready), b)
<1>1. HandleBootstrapCompleted(r).bootstrapped
  BY Zenon DEF HandleBootstrapCompleted, mark_types_dirty, RegistryState
<1>2. Quiet(HandleReannounce(r), b)
  BY Zenon DEF HandleReannounce, mark_types_dirty, RegistryState, Quiet
<1>3. Quiet(HandleRefreshTypes(r), b)
  BY Zenon DEF HandleRefreshTypes, mark_types_dirty, RegistryState, Quiet
<1>4. ASSUME NEW need \in BOOLEAN, NEW active \in Nat
      PROVE  Quiet(HandleRelayStateChanged(r, need, active), b)
  BY ZenonT(60) DEF HandleRelayStateChanged, relay_ready, RegistryState, Quiet
<1>5. ASSUME NEW ready \in SUBSET Service
      PROVE  Quiet(replace_backend_ready(r, ready), b)
  BY Zenon DEF replace_backend_ready, RegistryState, Quiet, Arm, AllUnset
<1> QED BY <1>1, <1>2, <1>3, <1>4, <1>5, Zenon DEF Quiet

LEMMA HandleGate ==
  ASSUME NEW r \in RegistryState, Gate(r)
  PROVE  /\ Gate(HandleBootstrapCompleted(r))
         /\ Gate(HandleReannounce(r))
         /\ Gate(HandleRefreshTypes(r))
         /\ Gate(HandleReset(r))
         /\ \A need \in BOOLEAN, active \in Nat : Gate(HandleRelayStateChanged(r, need, active))
         /\ \A ready \in SUBSET Service : Gate(replace_backend_ready(r, ready))
<1> USE DEF Gate, relay_ready
<1>1. Gate(HandleBootstrapCompleted(r))
  BY Zenon DEF HandleBootstrapCompleted, mark_types_dirty, RegistryState
<1>2. Gate(HandleReannounce(r))
  BY Zenon DEF HandleReannounce, mark_types_dirty, RegistryState
<1>3. Gate(HandleRefreshTypes(r))
  BY Zenon DEF HandleRefreshTypes, mark_types_dirty, RegistryState
<1>4. Gate(HandleReset(r))
  BY Zenon DEF HandleReset, NewState
<1>5. ASSUME NEW need \in BOOLEAN, NEW active \in Nat
      PROVE  Gate(HandleRelayStateChanged(r, need, active))
  BY Zenon DEF HandleRelayStateChanged, RegistryState
<1>6. ASSUME NEW ready \in SUBSET Service
      PROVE  Gate(replace_backend_ready(r, ready))
  BY Zenon DEF replace_backend_ready, RegistryState
<1> QED BY <1>1, <1>2, <1>3, <1>4, <1>5, <1>6, Zenon

\* Reset: whatever is left in the JoinSet is of an earlier generation.
LEMMA ResetQuiet ==
  ASSUME NEW r \in RegistryState, NEW b, JobsOK(b, r.generation)
  PROVE  Quiet(HandleReset(r), b)
<1>1. /\ HandleReset(r).announced = {} /\ HandleReset(r).relay_withdraw = {}
      /\ HandleReset(r).announce_inflight = {} /\ HandleReset(r).withdraw_inflight = {}
      /\ HandleReset(r).withdraw_deadline = AllUnset
      /\ HandleReset(r).announce_retry_at = AllUnset
      /\ HandleReset(r).generation = r.generation + 1
  BY Zenon DEF HandleReset, NewState
<1>2. r.generation \in Nat
  BY Zenon DEF RegistryState
<1>3. \A j \in DOMAIN b : j.generation \in Nat /\ j.generation <= r.generation
  BY Zenon DEF JobsOK, Job
<1> QED BY <1>1, <1>2, <1>3 DEF Quiet

-----------------------------------------------------------------------------
(* apply and plan                                                          *)

LEMMA ApplyGate ==
  ASSUME NEW r, StateOK(r), NEW j, Finished(j, r.generation), NEW q \in apply(r, j),
         NEW b, j \in DOMAIN b, Quiet(r, b), Gate(r)
  PROVE  Quiet(q, b) /\ Gate(q)
<1> USE DEF StateOK, Finished
<1>1. CASE j.phase = "cancelled"
  BY <1>1, Zenon DEF apply
<1>2. CASE j.phase # "cancelled" /\ j.kind = "Announce"
  <2>1. q = ApplyAnnounced(r, j) /\ j.service \in Service /\ j.phase \in {"ok", "err"}
    BY <1>2, Zenon DEF apply, Job
  <2>2. q.bootstrapped = r.bootstrapped
    BY <2>1, Zenon DEF ApplyAnnounced, mark_types_dirty, RegistryState
  <2>3. CASE ~r.bootstrapped
    <3>1. j.generation # r.generation
      BY <1>2, <2>3, Zenon DEF Quiet, ProviderKinds
    <3>2. q = [r EXCEPT !.announce_inflight = @ \ {j.service}]
      BY <2>1, <3>1, Zenon DEF ApplyAnnounced
    <3> QED BY <2>3, <3>2, Zenon DEF Quiet, Gate, relay_ready, RegistryState
  <2>4. Gate(q)
    BY <2>1, ZenonT(60) DEF ApplyAnnounced, mark_types_dirty, RegistryState, Gate, relay_ready
  <2> QED BY <2>2, <2>3, <2>4, Zenon DEF Quiet
<1>3. CASE j.phase # "cancelled" /\ j.kind = "Withdraw"
  <2>1. q = ApplyWithdrawn(r, j) /\ j.service \in Service /\ j.phase \in {"ok", "err"}
    BY <1>3, Zenon DEF apply, Job
  <2>2. q.bootstrapped = r.bootstrapped
    BY <2>1, Zenon DEF ApplyWithdrawn, RegistryState
  <2>3. CASE ~r.bootstrapped
    <3>1. j.generation # r.generation
      BY <1>3, <2>3, Zenon DEF Quiet, ProviderKinds
    <3>2. q = [r EXCEPT !.withdraw_inflight = @ \ {j.service}]
      BY <2>1, <3>1, Zenon DEF ApplyWithdrawn
    <3> QED BY <2>3, <3>2, Zenon DEF Quiet, Gate, relay_ready, RegistryState
  <2>4. Gate(q)
    BY <2>1, Zenon DEF ApplyWithdrawn, RegistryState, Gate, relay_ready
  <2> QED BY <2>2, <2>3, <2>4, Zenon DEF Quiet
<1>4. CASE j.phase # "cancelled" /\ j.kind \in {"ReadTypes", "WriteTypes"}
  <2> DEFINE Keeps(x) ==
               /\ x.bootstrapped = r.bootstrapped /\ x.need_relay = r.need_relay
               /\ x.active_relays = r.active_relays /\ x.announced = r.announced
               /\ x.relay_withdraw = r.relay_withdraw /\ x.generation = r.generation
               /\ x.announce_inflight = r.announce_inflight
               /\ x.withdraw_inflight = r.withdraw_inflight
               /\ x.withdraw_deadline = r.withdraw_deadline
               /\ x.announce_retry_at = r.announce_retry_at
  <2>1. Keeps(ReconcileIdle(r))
    BY Zenon DEF ReconcileIdle, RegistryState
  <2>2. ASSUME q = ApplyTypesWritten(r, j)
        PROVE  Keeps(q)
    BY <2>1, <2>2, Zenon DEF ApplyTypesWritten
  <2>3. ASSUME NEW known, q = ApplyTypesRead(r, j, known)
        PROVE  Keeps(q)
    <3> DEFINE x == [r EXCEPT !.known_types = known]
               y == [r EXCEPT !.known_types = known, !.reconcile = "ReadyToWrite",
                              !.pending_types_write = {EncodedTypes(known)},
                              !.reconcile_dirty = FALSE]
    <3>1. Keeps(y)
      BY Zenon DEF RegistryState
    <3>2. Keeps(ReconcileIdle(x))
      BY Zenon DEF ReconcileIdle, RegistryState
    <3> HIDE DEF Keeps
    <3>3. Keeps(r)
      BY Zenon DEF Keeps
    <3> HIDE DEF x, y
    <3>4. q \in {r, ReconcileIdle(x), ReconcileIdle(r), y}
      BY <1>4, <2>3, Zenon DEF ApplyTypesRead, x, y
    <3> QED BY <2>1, <3>1, <3>2, <3>3, <3>4, Zenon
  <2>4. q = ApplyTypesWritten(r, j) \/ \E known : q = ApplyTypesRead(r, j, known)
    BY <1>4, Zenon DEF apply
  <2>5. Keeps(q)
    BY <2>2, <2>3, <2>4, Zenon
  <2> QED BY <2>5, Zenon DEF Quiet, Gate, relay_ready
<1> QED BY <1>1, <1>2, <1>3, <1>4, Zenon DEF Job, Kind

LEMMA PumpGate ==
  ASSUME NEW r, StateOK(r), NEW b, JobsOK(b, r.generation), Pump({r}, b),
         Quiet(r, b), Gate(r)
  PROVE  Quiet(reg', jobs') /\ Gate(reg')
<1>1. PICK p : p = plan(r, Slots(b)) /\ reg' = p.state /\ jobs' = With(b, p.jobs)
  BY Zenon DEF Pump
<1>2. PICK W, A \in SUBSET Service : PlanEffect(r, p, W, A)
  BY <1>1, PlanFacts, Zenon DEF StateOK
<1>3. Gate(reg')
  BY <1>1, <1>2, Zenon DEF PlanEffect, PlanKeeps, Gate, relay_ready
<1>4. CASE r.bootstrapped
  BY <1>1, <1>2, <1>3, <1>4, Zenon DEF PlanEffect, PlanKeeps, Quiet
<1>5. CASE ~r.bootstrapped
  <2>1. W = {}
    BY <1>2, <1>5, Zenon DEF PlanEffect, DueWithdrawals, Quiet, AllUnset
  <2>2. A = {}
    BY <1>2, <1>5, Zenon DEF PlanEffect, DueRetries, NewAnnouncements, Quiet, AllUnset, StateOK, RegistryState
  <2>3. \A j \in p.jobs : j.kind \notin ProviderKinds
    BY <1>2, <2>1, <2>2 DEF PlanEffect, NewJob, ProviderKinds
  <2>4. DOMAIN jobs' = DOMAIN b \cup p.jobs
    BY <1>1, AddFacts, Zenon DEF JobsOK
  <2>5. /\ reg'.announced = {} /\ reg'.relay_withdraw = {}
        /\ reg'.announce_inflight = {} /\ reg'.withdraw_inflight = {}
        /\ reg'.generation = r.generation
    BY <1>1, <1>2, <1>5, <2>1, <2>2, Zenon DEF PlanEffect, PlanKeeps, Quiet
  <2>6. /\ reg'.withdraw_deadline = AllUnset
        /\ reg'.announce_retry_at = AllUnset
    BY <1>1, <1>2, <1>5, <2>1, <2>2 DEF PlanEffect, Arm, AllUnset, Quiet
  <2> QED BY <1>3, <1>5, <2>3, <2>4, <2>5, <2>6, ZenonT(60) DEF Quiet
<1> QED BY <1>4, <1>5, Zenon

-----------------------------------------------------------------------------
(* The steps of the jobs                                                   *)

\* A provider job of this generation that is not cancelled proves that the
\* DHT is bootstrapped, so a job may take a step under Quiet.
LEMMA AdvanceQuiet ==
  ASSUME TypeOK, Quiet(reg, jobs), NEW j \in DOMAIN jobs, j.phase # "cancelled",
         NEW k, k.kind = j.kind, k.generation = j.generation, Advance(j, k)
  PROVE  Quiet(reg, jobs')
<1> DEFINE c == Without(jobs, j)
<1>1. DOMAIN c \subseteq DOMAIN jobs /\ \A i \in DOMAIN c : c[i] \in Nat \ {0}
  BY RemoveFacts, Zenon DEF TypeOK, JobsOK
<1>2. jobs' = With(c, {k})
  BY Zenon DEF Advance
<1> HIDE DEF c
<1>3. DOMAIN jobs' = DOMAIN c \cup {k}
  BY <1>1, <1>2, AddFacts, Zenon
<1> QED BY <1>1, <1>3, Zenon DEF Quiet

LEMMA RephaseQuiet ==
  ASSUME TypeOK, Quiet(reg, jobs)
  PROVE  Quiet(reg, Rephase(jobs, "running", "err"))
<1>1. \A k \in DOMAIN jobs : k \in Job
  BY Zenon DEF TypeOK, JobsOK
<1>2. DOMAIN Rephase(jobs, "running", "err") =
        {IF k.phase = "running" THEN [k EXCEPT !.phase = "err"] ELSE k : k \in DOMAIN jobs}
  BY Zenon DEF Rephase
<1>3. ASSUME NEW j \in DOMAIN Rephase(jobs, "running", "err"), ~reg.bootstrapped,
             j.kind \in ProviderKinds, j.generation = reg.generation
      PROVE  j.phase = "cancelled"
  <2>1. PICK k \in DOMAIN jobs :
            j = IF k.phase = "running" THEN [k EXCEPT !.phase = "err"] ELSE k
    BY <1>2, Zenon
  <2>2. k.kind = j.kind /\ k.generation = j.generation
    BY <1>1, <2>1, Zenon DEF Job
  <2>3. k.phase = "cancelled"
    BY <1>3, <2>2, Zenon DEF Quiet
  <2> QED BY <2>1, <2>3, Zenon
<1> QED BY <1>3, Zenon DEF Quiet

LEMMA ElapseKeeps ==
  ASSUME StateOK(reg), NEW f \in TimerField, NEW s \in Service, Elapse(f, s),
         Quiet(reg, jobs), Gate(reg)
  PROVE  Quiet(reg', jobs') /\ Gate(reg')
<1>1. /\ reg'.bootstrapped = reg.bootstrapped /\ reg'.need_relay = reg.need_relay
      /\ reg'.active_relays = reg.active_relays /\ reg'.announced = reg.announced
      /\ reg'.relay_withdraw = reg.relay_withdraw /\ reg'.generation = reg.generation
      /\ reg'.announce_inflight = reg.announce_inflight
      /\ reg'.withdraw_inflight = reg.withdraw_inflight
      /\ jobs' = jobs
  BY Zenon DEF Elapse, TimerField, StateOK, RegistryState
<1>2. CASE ~reg.bootstrapped
  <2>1. f = "relay_withdraw_retry_at"
    BY <1>2, Zenon DEF Elapse, TimerField, Quiet, AllUnset
  <2>2. /\ reg'.withdraw_deadline = reg.withdraw_deadline
        /\ reg'.announce_retry_at = reg.announce_retry_at
    BY <2>1, Zenon DEF Elapse, StateOK, RegistryState
  <2> QED BY <1>1, <2>2, Zenon DEF Quiet, Gate, relay_ready
<1> QED BY <1>1, <1>2, Zenon DEF Quiet, Gate, relay_ready

-----------------------------------------------------------------------------
(* The theorems                                                            *)

GateInv == Quiet(reg, jobs) /\ Gate(reg)

LEMMA GateStep == TypeOK /\ GateInv /\ [Next]_vars => GateInv'
<1> SUFFICES ASSUME TypeOK, GateInv, [Next]_vars PROVE Quiet(reg', jobs') /\ Gate(reg')
  BY Zenon DEF GateInv
<1>0. /\ StateOK(reg) /\ JobsOK(jobs, reg.generation) /\ reg.generation \in Nat
      /\ Quiet(reg, jobs) /\ Gate(reg) /\ reg \in RegistryState
  BY Zenon DEF TypeOK, GateInv, StateOK, RegistryState
<1>1. CASE BootstrapCompleted
  BY <1>0, <1>1, HandleOK, HandleQuiet, HandleGate, PumpGate, ZenonT(60) DEF Handled, BootstrapCompleted
<1>2. CASE Tick
  BY <1>0, <1>2, PumpGate, Zenon DEF Tick
<1>3. CASE Reannounce
  BY <1>0, <1>3, HandleOK, HandleQuiet, HandleGate, PumpGate, ZenonT(60) DEF Handled, Reannounce
<1>4. CASE RefreshTypes
  BY <1>0, <1>4, HandleOK, HandleQuiet, HandleGate, PumpGate, ZenonT(60) DEF Handled, RefreshTypes
<1>5. ASSUME NEW need \in BOOLEAN, NEW active \in 0..MaxRelays, RelayStateChanged(need, active)
      PROVE  Quiet(reg', jobs') /\ Gate(reg')
  <2>1. active \in Nat
    BY BoundAssumption
  <2> QED BY <1>0, <1>5, <2>1, HandleOK, HandleQuiet, HandleGate, PumpGate, ZenonT(60) DEF Handled, RelayStateChanged
<1>6. CASE Reset
  <2>1. JobsOK(AbortAll(jobs), reg.generation)
    BY <1>0, RephaseFacts, Zenon DEF Phase, AbortAll
  <2>2. JobsOK(AbortAll(jobs), reg.generation + 1)
    BY <1>0, <2>1 DEF JobsOK, Job
  <2>3. Quiet(HandleReset(reg), AbortAll(jobs))
    BY <1>0, <2>1, ResetQuiet, Zenon
  <2> QED BY <1>0, <1>6, <2>2, <2>3, HandleOK, HandleGate, PumpGate, ZenonT(60) DEF Handled, Reset
<1>7. ASSUME NEW ready \in SUBSET Service, ReadinessChanged(ready)
      PROVE  Quiet(reg', jobs') /\ Gate(reg')
  BY <1>0, <1>7, HandleOK, HandleQuiet, HandleGate, PumpGate, Zenon DEF Handled, ReadinessChanged
<1>8. ASSUME NEW j \in DOMAIN jobs, JobStep(j)
      PROVE  Quiet(reg', jobs') /\ Gate(reg')
  <2>0. j \in Job
    BY <1>0, Zenon DEF JobsOK
  <2>1. ASSUME j.phase # "cancelled", reg' = reg,
               \E phase \in Phase, types \in SUBSET TypeName :
                   Advance(j, [j EXCEPT !.phase = phase, !.types = types])
        PROVE  Quiet(reg', jobs') /\ Gate(reg')
    <3>1. PICK phase \in Phase, types \in SUBSET TypeName :
              Advance(j, [j EXCEPT !.phase = phase, !.types = types])
      BY <2>1, Zenon
    <3>2. /\ [j EXCEPT !.phase = phase, !.types = types].kind = j.kind
          /\ [j EXCEPT !.phase = phase, !.types = types].generation = j.generation
      BY <2>0, Zenon DEF Job
    <3> QED BY <1>0, <2>1, <3>1, <3>2, AdvanceQuiet, Zenon
  <2>2. CASE Execute(j)
    <3>1. \E phase \in Phase : Advance(j, [j EXCEPT !.phase = phase, !.types = j.types])
      BY <2>0, <2>2, Zenon DEF Execute, Phase, Job
    <3> QED BY <2>0, <2>1, <2>2, <3>1, Zenon DEF Execute, Job
  <2>3. CASE Refuse(j) \/ Fail(j)
    <3>1. Advance(j, [j EXCEPT !.phase = "err", !.types = j.types])
      BY <2>0, <2>3, Zenon DEF Refuse, Fail, Job
    <3> QED BY <2>0, <2>1, <2>3, <3>1, ZenonT(60) DEF Refuse, Fail, Job, Phase
  <2>4. CASE Succeed(j)
    <3>1. PICK types \in SUBSET TypeName : Advance(j, [j EXCEPT !.phase = "ok", !.types = types])
      BY <2>0, <2>4, Zenon DEF Succeed, ReadableTypes, Job
    <3> QED BY <2>1, <2>4, <3>1, Zenon DEF Succeed, Phase
  <2>5. CASE Join(j)
    <3>1. PICK q \in apply(reg, j) : Pump({q}, Without(jobs, j))
      BY <2>5, Zenon DEF Join, Pump
    <3>2. Finished(j, reg.generation)
      BY <1>0, <2>5, Zenon DEF Join, Finished, JobsOK
    <3>3. StateOK(q) /\ q.generation = reg.generation
      BY <1>0, <3>2, ApplyOK, Zenon DEF Handled
    <3>4. Quiet(q, jobs) /\ Gate(q)
      BY <1>0, <3>2, ApplyGate, Zenon
    <3>5. /\ JobsOK(Without(jobs, j), q.generation)
          /\ DOMAIN Without(jobs, j) \subseteq DOMAIN jobs
      BY <1>0, <3>3, RemoveFacts, Zenon DEF JobsOK
    <3>6. Quiet(q, Without(jobs, j))
      BY <3>4, <3>5, Zenon DEF Quiet
    <3> QED BY <3>1, <3>3, <3>4, <3>5, <3>6, PumpGate, ZenonT(60)
  <2> QED BY <1>8, <2>2, <2>3, <2>4, <2>5, ZenonT(60) DEF JobStep
<1>9. CASE SwarmReload
  BY <1>0, <1>9, RephaseQuiet, Zenon DEF SwarmReload
<1>10. ASSUME NEW f \in TimerField, NEW s \in Service, Elapse(f, s)
       PROVE  Quiet(reg', jobs') /\ Gate(reg')
  BY <1>0, <1>10, ElapseKeeps, Zenon
<1>11. CASE ElapseSync
  BY <1>0, <1>11, Zenon DEF ElapseSync, Quiet, Gate, relay_ready, RegistryState
<1>12. CASE UNCHANGED vars
  BY <1>0, <1>12, Zenon DEF vars
<1> QED BY <1>1, <1>2, <1>3, <1>4, <1>5, <1>6, <1>7, <1>8, <1>9, <1>10, <1>11, <1>12, ZenonT(60)
        DEF Next, Command

(***************************************************************************)
(* Whatever the interleaving of commands, results and reloads, an          *)
(* unbootstrapped registry holds no announcement and nothing that would    *)
(* cause one.                                                              *)
(***************************************************************************)
THEOREM BootstrapSafe == Spec => []NothingBeforeBootstrap
<1>1. Init => GateInv
  BY DEF Init, NewState, NoJobs, GateInv, Quiet, Gate, relay_ready
<1>2. GateInv => NothingBeforeBootstrap
  BY QuietIsNothingBeforeBootstrap, Zenon DEF GateInv
<1> QED BY <1>1, <1>2, GateStep, TypeCorrect, PTL DEF Spec

(***************************************************************************)
(* Whatever the interleaving, no service stays announced without a relay   *)
(* unless its forced withdrawal is recorded, and no forced withdrawal is   *)
(* left once a relay is active.                                            *)
(***************************************************************************)
THEOREM RelaySafe == Spec => []RelayGate
<1>1. Init => GateInv
  BY DEF Init, NewState, NoJobs, GateInv, Quiet, Gate, relay_ready
<1>2. GateInv => RelayGate
  BY GateIsRelayGate, Zenon DEF GateInv
<1> QED BY <1>1, <1>2, GateStep, TypeCorrect, PTL DEF Spec

\* Both gates of plan() together, for any number of services and jobs.
THEOREM GatesHold == Spec => []Gates
BY BootstrapSafe, RelaySafe, PTL DEF Gates

-----------------------------------------------------------------------------
(* What pump() spawns                                                      *)

\* b holds no queued job more often than the JoinSet does now.
NoneQueuedAnew(b) ==
    \A j \in DOMAIN b : j.phase = "queued" => j \in DOMAIN jobs /\ ~(b[j] > jobs[j])

Served(j) ==
    /\ j.service \in reg'.backend_ready \ reg'.announced
    /\ reg'.bootstrapped
    /\ relay_ready(reg')

\* A queued announcement that pump() adds comes from one of the two
\* announcing stages of plan(); the retry stage needs Quiet.
LEMMA PumpSpawns ==
  ASSUME NEW r, StateOK(r), NEW b, JobsOK(b, r.generation), Pump({r}, b),
         Quiet(r, b), NoneQueuedAnew(b)
  PROVE  \A j \in Spawned("Announce") : Served(j)
<1> SUFFICES ASSUME NEW j \in Spawned("Announce") PROVE Served(j)
  BY Zenon
<1>1. PICK p : p = plan(r, Slots(b)) /\ reg' = p.state /\ jobs' = With(b, p.jobs)
  BY Zenon DEF Pump
<1>2. PICK W, A \in SUBSET Service : PlanEffect(r, p, W, A)
  BY <1>1, PlanFacts, Zenon DEF StateOK
<1>3. j \in DOMAIN jobs' /\ j.kind = "Announce" /\ j.phase = "queued"
  BY Zenon DEF Spawned
<1>4. j \in p.jobs
  <2> SUFFICES ASSUME j \notin p.jobs PROVE FALSE
    BY Zenon
  <2>1. \A k \in DOMAIN b : b[k] \in Nat \ {0}
    BY Zenon DEF JobsOK
  <2> DEFINE c == With(b, p.jobs)
  <2>2. DOMAIN c = DOMAIN b \cup p.jobs /\ \A i \in DOMAIN b \ p.jobs : c[i] = b[i]
    BY <2>1, AddFacts, Zenon
  <2> HIDE DEF c
  <2>3. j \in DOMAIN b /\ jobs'[j] = b[j]
    BY <1>1, <1>3, <2>2, ZenonT(60) DEF c
  <2>4. j \in DOMAIN jobs /\ ~(b[j] > jobs[j])
    BY <1>3, <2>3, Zenon DEF NoneQueuedAnew
  <2>5. jobs'[j] > jobs[j]
    BY <1>3, <2>4, Zenon DEF Spawned, Copies
  <2> QED BY <2>3, <2>4, <2>5, ZenonT(60)
<1>j. \/ \E s \in W : j = NewJob(r, "Withdraw", s, {})
      \/ \E s \in A : j = NewJob(r, "Announce", s, {})
      \/ \E kind \in {"ReadTypes", "WriteTypes"}, types \in SUBSET TypeName :
            j = NewJob(r, kind, NoService, types)
  BY <1>2, <1>4, Zenon DEF PlanEffect
<1>k. \A kind, s, types : NewJob(r, kind, s, types).kind = kind
  BY Zenon DEF NewJob
<1>5. PICK s \in A : j = NewJob(r, "Announce", s, {})
  BY <1>3, <1>j, <1>k
<1>6. j.service = s
  BY <1>5, Zenon DEF NewJob
<1>7. s \in DueRetries(r) \cup NewAnnouncements(r)
  BY <1>2, <1>5, Zenon DEF PlanEffect
<1>8. s \in r.backend_ready \ r.announced /\ relay_ready(r)
  BY <1>7, Zenon DEF DueRetries, NewAnnouncements
<1>9. r.bootstrapped
  BY <1>7, <1>8, <1>2, Zenon DEF DueRetries, NewAnnouncements, Quiet, AllUnset
<1> QED BY <1>1, <1>2, <1>6, <1>8, <1>9, ZenonT(60) DEF PlanEffect, PlanKeeps, Served, relay_ready

LEMMA AdvanceSpawns ==
  ASSUME TypeOK, NEW j \in DOMAIN jobs, NEW k, k.phase # "queued", Advance(j, k)
  PROVE  Spawned("Announce") = {}
<1> DEFINE c == Without(jobs, j)
<1>1. /\ DOMAIN c \subseteq DOMAIN jobs
      /\ \A i \in DOMAIN c : c[i] \in Nat \ {0} /\ c[i] <= jobs[i] /\ jobs[i] \in Nat
  BY RemoveFacts, Zenon DEF TypeOK, JobsOK
<1>2. jobs' = With(c, {k})
  BY Zenon DEF Advance
<1> HIDE DEF c
<1>3. DOMAIN jobs' = DOMAIN c \cup {k} /\ \A i \in DOMAIN c \ {k} : jobs'[i] = c[i]
  BY <1>1, <1>2, AddFacts, ZenonT(60)
<1> SUFFICES ASSUME NEW i \in Spawned("Announce") PROVE FALSE
  BY Zenon
<1>4. i \in DOMAIN c /\ jobs'[i] = c[i] /\ jobs'[i] > jobs[i]
  BY <1>1, <1>3, Zenon DEF Spawned, Copies
<1> QED BY <1>1, <1>4

LEMMA SpawnStep == TypeOK /\ GateInv /\ [Next]_vars => \A j \in Spawned("Announce") : Served(j)
<1> SUFFICES ASSUME TypeOK, GateInv, [Next]_vars
             PROVE  \A j \in Spawned("Announce") : Served(j)
  BY Zenon
<1>0. /\ StateOK(reg) /\ JobsOK(jobs, reg.generation) /\ reg.generation \in Nat
      /\ Quiet(reg, jobs) /\ Gate(reg) /\ reg \in RegistryState
      /\ \A j \in DOMAIN jobs : jobs[j] \in Nat
  BY Zenon DEF TypeOK, GateInv, StateOK, RegistryState, JobsOK
<1>n. NoneQueuedAnew(jobs)
  BY <1>0 DEF NoneQueuedAnew
<1>1. CASE BootstrapCompleted
  BY <1>0, <1>n, <1>1, HandleOK, HandleQuiet, PumpSpawns, ZenonT(60) DEF Handled, BootstrapCompleted
<1>2. CASE Tick
  BY <1>0, <1>n, <1>2, PumpSpawns, ZenonT(60) DEF Tick
<1>3. CASE Reannounce
  BY <1>0, <1>n, <1>3, HandleOK, HandleQuiet, PumpSpawns, ZenonT(60) DEF Handled, Reannounce
<1>4. CASE RefreshTypes
  BY <1>0, <1>n, <1>4, HandleOK, HandleQuiet, PumpSpawns, ZenonT(60) DEF Handled, RefreshTypes
<1>5. ASSUME NEW need \in BOOLEAN, NEW active \in 0..MaxRelays, RelayStateChanged(need, active)
      PROVE  \A j \in Spawned("Announce") : Served(j)
  <2>1. active \in Nat
    BY BoundAssumption
  <2> QED BY <1>0, <1>n, <1>5, <2>1, HandleOK, HandleQuiet, PumpSpawns, ZenonT(60) DEF Handled, RelayStateChanged
<1>6. CASE Reset
  <2>0. {"queued", "running", "cancelled"} \subseteq Phase
    BY Zenon DEF Phase
  <2> DEFINE c == Rephase(jobs, "queued", "cancelled")
             d == Rephase(c, "running", "cancelled")
  <2>1. /\ JobsOK(c, reg.generation)
        /\ \A j \in DOMAIN c : j.phase # "cancelled" => j \in DOMAIN jobs /\ c[j] = jobs[j]
    BY <1>0, <2>0, RephaseFacts, RephaseKeeps, ZenonT(60)
  <2> HIDE DEF c
  <2>2. /\ JobsOK(d, reg.generation)
        /\ \A j \in DOMAIN d : j.phase # "cancelled" => j \in DOMAIN c /\ d[j] = c[j]
    BY <1>0, <2>0, <2>1, RephaseFacts, RephaseKeeps, ZenonT(60)
  <2> HIDE DEF d
  <2>3. AbortAll(jobs) = d
    BY Zenon DEF AbortAll, c, d
  <2>4. NoneQueuedAnew(AbortAll(jobs))
    BY <1>0, <2>1, <2>2, <2>3 DEF NoneQueuedAnew
  <2>5. JobsOK(AbortAll(jobs), reg.generation + 1)
    BY <1>0, <2>2, <2>3, JobsOfTheNext, ZenonT(60)
  <2>6. Quiet(HandleReset(reg), AbortAll(jobs))
    BY <1>0, <2>2, <2>3, ResetQuiet, ZenonT(60)
  <2> QED BY <1>0, <1>6, <2>4, <2>5, <2>6, HandleOK, PumpSpawns, ZenonT(60) DEF Handled, Reset
<1>7. ASSUME NEW ready \in SUBSET Service, ReadinessChanged(ready)
      PROVE  \A j \in Spawned("Announce") : Served(j)
  BY <1>0, <1>n, <1>7, HandleOK, HandleQuiet, PumpSpawns, ZenonT(60) DEF Handled, ReadinessChanged
<1>8. ASSUME NEW j \in DOMAIN jobs, JobStep(j)
      PROVE  \A i \in Spawned("Announce") : Served(i)
  <2>0. j \in Job
    BY <1>0, Zenon DEF JobsOK
  <2>1. CASE Execute(j)
    BY <2>0, <2>1, AdvanceSpawns, Zenon DEF Execute, Job
  <2>2. CASE Refuse(j) \/ Fail(j)
    BY <2>0, <2>2, AdvanceSpawns, ZenonT(60) DEF Refuse, Fail, Job
  <2>3. CASE Succeed(j)
    <3>1. PICK types : Advance(j, [j EXCEPT !.phase = "ok", !.types = types])
      BY <2>3, Zenon DEF Succeed
    <3>2. [j EXCEPT !.phase = "ok", !.types = types].phase # "queued"
      BY <2>0, Zenon DEF Job
    <3> QED BY <3>1, <3>2, AdvanceSpawns, ZenonT(60)
  <2>4. CASE Join(j)
    <3>1. PICK q \in apply(reg, j) : Pump({q}, Without(jobs, j))
      BY <2>4, Zenon DEF Join, Pump
    <3>2. Finished(j, reg.generation)
      BY <1>0, <2>4, Zenon DEF Join, Finished, JobsOK
    <3>3. StateOK(q) /\ q.generation = reg.generation
      BY <1>0, <3>2, ApplyOK, ZenonT(60) DEF Handled
    <3>4. Quiet(q, jobs)
      BY <1>0, <3>2, ApplyGate, ZenonT(60)
    <3>5. /\ JobsOK(Without(jobs, j), q.generation)
          /\ DOMAIN Without(jobs, j) \subseteq DOMAIN jobs
          /\ \A k \in DOMAIN Without(jobs, j) :
                /\ Without(jobs, j)[k] \in Nat
                /\ Without(jobs, j)[k] <= jobs[k]
      BY <1>0, <3>3, RemoveFacts, ZenonT(60) DEF JobsOK
    <3>n. NoneQueuedAnew(Without(jobs, j))
      <4> DEFINE c == Without(jobs, j)
      <4>1. \A k \in DOMAIN c : k \in DOMAIN jobs /\ c[k] \in Nat /\ c[k] <= jobs[k]
        BY <3>5, Zenon
      <4>2. \A k \in DOMAIN jobs : jobs[k] \in Nat
        BY <1>0, Zenon DEF JobsOK
      <4> HIDE DEF c
      <4>3. NoneQueuedAnew(c)
        BY <4>1, <4>2 DEF NoneQueuedAnew
      <4> QED BY <4>3, Zenon DEF c
    <3>6. Quiet(q, Without(jobs, j))
      BY <3>4, <3>5, Zenon DEF Quiet
    <3> QED BY <3>1, <3>3, <3>5, <3>n, <3>6, PumpSpawns, ZenonT(60)
  <2> QED BY <1>8, <2>1, <2>2, <2>3, <2>4, ZenonT(60) DEF JobStep
<1>9. CASE SwarmReload
  <2>1. \A j \in DOMAIN jobs' : j.phase # "err" => j \in DOMAIN jobs /\ jobs'[j] = jobs[j]
    <3>1. {"running", "err"} \subseteq Phase
      BY Zenon DEF Phase
    <3> QED BY <1>0, <1>9, <3>1, RephaseKeeps, ZenonT(60) DEF SwarmReload
  <2>2. Spawned("Announce") = {}
    BY <1>0, <2>1 DEF Spawned, Copies
  <2> QED BY <2>2, Zenon
<1>10. CASE UNCHANGED jobs
  <2>1. Spawned("Announce") = {}
    BY <1>0, <1>10 DEF Spawned, Copies
  <2> QED BY <2>1, Zenon
<1> QED BY <1>1, <1>2, <1>3, <1>4, <1>5, <1>6, <1>7, <1>8, <1>9, <1>10, ZenonT(60)
        DEF Next, Command, Elapse, ElapseSync, vars

(***************************************************************************)
(* pump() never spawns an announcement for a service that may not be       *)
(* announced, whichever stage of plan() it comes from.                     *)
(***************************************************************************)
THEOREM SpawnSafe == Spec => AnnounceOnlyWhenServing
<1>1. Init => GateInv
  BY DEF Init, NewState, NoJobs, GateInv, Quiet, Gate, relay_ready
<1>2. TypeOK /\ GateInv /\ [Next]_vars =>
        [\A j \in Spawned("Announce") : /\ j.service \in reg'.backend_ready \ reg'.announced
                                        /\ reg'.bootstrapped
                                        /\ relay_ready(reg')]_vars
  BY SpawnStep, Zenon DEF Served
<1> QED BY <1>1, <1>2, GateStep, TypeCorrect, PTL DEF Spec, AnnounceOnlyWhenServing
=============================================================================
