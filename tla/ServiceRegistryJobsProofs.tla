--------------------- MODULE ServiceRegistryJobsProofs ---------------------
(***************************************************************************)
(* The jobs in flight are those the registry's state tells of, they stay   *)
(* within max_inflight_dht, and no work is forgotten.                      *)
(*                                                                         *)
(* The inductive invariant is Work /\ Fits, on top of TypeOK, for a state  *)
(* r and a JoinSet b, so that it can be followed from a handler through    *)
(* the pump() that ends its turn: plan() clears a deadline as it spawns    *)
(* the withdrawal, and from then on only the job keeps the promise.  Chain *)
(* says more than the runs check, that one value, not two, waits to be     *)
(* written: without it the write could take more slots than pump() has.    *)
(***************************************************************************)
EXTENDS ServiceRegistryProofs

-----------------------------------------------------------------------------
(* No work is lost                                                         *)

TypesKinds == {"ReadTypes", "WriteTypes"}

\* A job of this generation that will still deliver a result.
Alive(r, j) == j.generation = r.generation /\ j.phase # "cancelled"

Has(r, b, kind, s) == \E j \in DOMAIN b : Alive(r, j) /\ j.kind = kind /\ j.service = s

Markers(r, b) ==
    /\ \A s \in r.announce_inflight : Has(r, b, "Announce", s)
    /\ \A s \in r.withdraw_inflight : Has(r, b, "Withdraw", s)

Withdrawals(r, b) ==
    \A s \in r.announced \ r.backend_ready :
        \/ r.withdraw_deadline[s] # "unset"
        \/ s \in r.relay_withdraw
        \/ Has(r, b, "Withdraw", s)

Sync(r) ==
    r.bootstrapped /\ r.reconcile = "Idle" => r.reconcile_dirty \/ r.next_types_sync # "unset"

TypesJobs(r, b) == {j \in DOMAIN b : Alive(r, j) /\ j.kind \in TypesKinds}

OneJob(r, b, kind) == \E j \in DOMAIN b : TypesJobs(r, b) = {j} /\ j.kind = kind /\ b[j] = 1

(***************************************************************************)
(* The reconcile chain: its state tells the one types job that is alive,   *)
(* and a value waits to be written exactly in ReadyToWrite.  That it is    *)
(* one value is needed for the write to be one job.                        *)
(***************************************************************************)
Chain(r, b) ==
    /\ r.reconcile \in {"Idle", "ReadyToWrite"} => TypesJobs(r, b) = {}
    /\ r.reconcile = "Reading" => OneJob(r, b, "ReadTypes")
    /\ r.reconcile = "Writing" => OneJob(r, b, "WriteTypes")
    /\ IF r.reconcile = "ReadyToWrite"
       THEN \E v \in r.pending_types_write : r.pending_types_write = {v}
       ELSE r.pending_types_write = {}

Work(r, b) == Markers(r, b) /\ Withdrawals(r, b) /\ Sync(r) /\ Chain(r, b)

\* The part of the invariant that the registry's runs check.
LEMMA WorkIsScheduledAndMatched ==
  ASSUME TypeOK, Work(reg, jobs)
  PROVE  WorkIsScheduled /\ MarkersHaveJobs /\ ReconcileSingleFlight
<1>1. \A kind, s : HasJob(kind, s) <=> Has(reg, jobs, kind, s)
  BY Zenon DEF HasJob, LiveJobs, Has, Alive
<1>2. WorkIsScheduled /\ MarkersHaveJobs
  BY <1>1, Zenon DEF WorkIsScheduled, WithdrawalScheduled, SyncScheduled, MarkersHaveJobs,
                     Work, Markers, Withdrawals, Sync
<1>3. /\ LiveJobs({"ReadTypes"}) = {j \in TypesJobs(reg, jobs) : j.kind = "ReadTypes"}
      /\ LiveJobs({"WriteTypes"}) = {j \in TypesJobs(reg, jobs) : j.kind = "WriteTypes"}
      /\ LiveJobs({"ReadTypes", "WriteTypes"}) = TypesJobs(reg, jobs)
  BY Zenon DEF LiveJobs, TypesJobs, TypesKinds, Alive
<1>4. reg.reconcile \in {"Idle", "Reading", "ReadyToWrite", "Writing"}
  BY Zenon DEF TypeOK, StateOK, RegistryState, Reconcile
<1>5. \/ TypesJobs(reg, jobs) = {} /\ reg.reconcile \in {"Idle", "ReadyToWrite"}
      \/ OneJob(reg, jobs, "ReadTypes") /\ reg.reconcile = "Reading"
      \/ OneJob(reg, jobs, "WriteTypes") /\ reg.reconcile = "Writing"
  BY <1>4, Zenon DEF Work, Chain
<1>6. /\ reg.reconcile = "Reading" <=> LiveJobs({"ReadTypes"}) # {}
      /\ reg.reconcile = "Writing" <=> LiveJobs({"WriteTypes"}) # {}
  <2>1. CASE TypesJobs(reg, jobs) = {} /\ reg.reconcile \in {"Idle", "ReadyToWrite"}
    BY <1>3, <2>1
  <2>2. CASE OneJob(reg, jobs, "ReadTypes") /\ reg.reconcile = "Reading"
    BY <1>3, <2>2 DEF OneJob
  <2>3. CASE OneJob(reg, jobs, "WriteTypes") /\ reg.reconcile = "Writing"
    BY <1>3, <2>3 DEF OneJob
  <2> QED BY <1>5, <2>1, <2>2, <2>3, Zenon
<1>7. reg.reconcile = "ReadyToWrite" <=> reg.pending_types_write # {}
  BY Zenon DEF Work, Chain
<1>8. /\ Cardinality(TypesJobs(reg, jobs)) <= 1
      /\ \A j \in TypesJobs(reg, jobs) : jobs[j] = 1
  <2>1. CASE TypesJobs(reg, jobs) = {}
    BY <2>1, FS_EmptySet
  <2>2. CASE \E j : TypesJobs(reg, jobs) = {j} /\ jobs[j] = 1
    BY <2>2, FS_Singleton
  <2> QED BY <1>5, <2>1, <2>2, Zenon DEF OneJob
<1> QED BY <1>2, <1>3, <1>6, <1>7, <1>8, Zenon DEF ReconcileSingleFlight

-----------------------------------------------------------------------------
(* The handlers                                                            *)

\* What handle and replace_backend_ready leave alone.
SameWork(r, q) ==
    /\ q.generation = r.generation
    /\ q.announce_inflight = r.announce_inflight /\ q.withdraw_inflight = r.withdraw_inflight
    /\ q.reconcile = r.reconcile /\ q.pending_types_write = r.pending_types_write

LEMMA SameWorkKeeps ==
  ASSUME NEW r, NEW q, NEW b, SameWork(r, q), Markers(r, b), Chain(r, b)
  PROVE  /\ Markers(q, b) /\ Chain(q, b)
         /\ \A s : Has(r, b, "Withdraw", s) => Has(q, b, "Withdraw", s)
<1>1. \A kind, s : Has(q, b, kind, s) <=> Has(r, b, kind, s)
  BY Zenon DEF SameWork, Has, Alive
<1>2. TypesJobs(q, b) = TypesJobs(r, b)
  BY Zenon DEF SameWork, TypesJobs, Alive
<1>3. Markers(q, b)
  BY <1>1, Zenon DEF SameWork, Markers
<1>4. Chain(q, b)
  BY <1>2, Zenon DEF SameWork, Chain, OneJob
<1> QED BY <1>1, <1>3, <1>4, Zenon

LEMMA DirtyWork ==
  ASSUME NEW r \in RegistryState
  PROVE  /\ SameWork(r, mark_types_dirty(r)) /\ Sync(mark_types_dirty(r))
         /\ mark_types_dirty(r).announced = r.announced
         /\ mark_types_dirty(r).backend_ready = r.backend_ready
         /\ mark_types_dirty(r).withdraw_deadline = r.withdraw_deadline
         /\ mark_types_dirty(r).relay_withdraw = r.relay_withdraw
BY Zenon DEF SameWork, mark_types_dirty, RegistryState, Sync

LEMMA HandleWork ==
  ASSUME NEW r \in RegistryState, NEW b, Work(r, b)
  PROVE  /\ Work(HandleBootstrapCompleted(r), b)
         /\ Work(HandleReannounce(r), b)
         /\ Work(HandleRefreshTypes(r), b)
         /\ \A need \in BOOLEAN, active \in Nat : Work(HandleRelayStateChanged(r, need, active), b)
         /\ \A ready \in SUBSET Service : Work(replace_backend_ready(r, ready), b)
<1>1. Work(HandleBootstrapCompleted(r), b)
  <2> DEFINE q == HandleBootstrapCompleted(r)
  <2>1. SameWork(r, q) /\ Sync(q) /\ q.announced = {}
    BY Zenon DEF HandleBootstrapCompleted, mark_types_dirty, RegistryState, SameWork, Sync
  <2> HIDE DEF q
  <2>2. Work(q, b)
    BY <2>1, SameWorkKeeps, Zenon DEF Work, Withdrawals
  <2> QED BY <2>2, Zenon DEF q
<1>2. Work(HandleReannounce(r), b)
  <2> DEFINE q == HandleReannounce(r)
  <2>1. SameWork(r, q) /\ Sync(q) /\ q.announced = {}
    BY Zenon DEF HandleReannounce, mark_types_dirty, RegistryState, SameWork, Sync
  <2> HIDE DEF q
  <2>2. Work(q, b)
    BY <2>1, SameWorkKeeps, Zenon DEF Work, Withdrawals
  <2> QED BY <2>2, Zenon DEF q
<1>3. Work(HandleRefreshTypes(r), b)
  <2> DEFINE q == HandleRefreshTypes(r)
  <2>1. /\ SameWork(r, q) /\ Sync(q) /\ q.announced = r.announced
        /\ q.backend_ready = r.backend_ready
        /\ q.withdraw_deadline = r.withdraw_deadline /\ q.relay_withdraw = r.relay_withdraw
    BY DirtyWork, Zenon DEF HandleRefreshTypes
  <2> HIDE DEF q
  <2>2. Withdrawals(q, b)
    BY <2>1, SameWorkKeeps, Zenon DEF Work, Withdrawals
  <2>3. Work(q, b)
    BY <2>1, <2>2, SameWorkKeeps, Zenon DEF Work
  <2> QED BY <2>3, Zenon DEF q
<1>4. ASSUME NEW need \in BOOLEAN, NEW active \in Nat
      PROVE  Work(HandleRelayStateChanged(r, need, active), b)
  <2> DEFINE q == HandleRelayStateChanged(r, need, active)
  <2>1. /\ SameWork(r, q)
        /\ q.bootstrapped = r.bootstrapped /\ q.reconcile_dirty = r.reconcile_dirty
        /\ q.next_types_sync = r.next_types_sync
        /\ q.backend_ready = r.backend_ready /\ q.withdraw_deadline = r.withdraw_deadline
        /\ \/ q.announced = {}
           \/ q.announced = r.announced /\ r.relay_withdraw \subseteq q.relay_withdraw
    BY ZenonT(60) DEF HandleRelayStateChanged, relay_ready, RegistryState, SameWork
  <2> HIDE DEF q
  <2>2. Withdrawals(q, b)
    BY <2>1, SameWorkKeeps, Zenon DEF Work, Withdrawals
  <2>3. Sync(q)
    BY <2>1, Zenon DEF Work, Sync, SameWork
  <2>4. Work(q, b)
    BY <2>1, <2>2, <2>3, SameWorkKeeps, Zenon DEF Work
  <2> QED BY <2>4, Zenon DEF q
<1>5. ASSUME NEW ready \in SUBSET Service
      PROVE  Work(replace_backend_ready(r, ready), b)
  <2> DEFINE q == replace_backend_ready(r, ready)
             up == ready \ r.backend_ready
             grace == {s \in (r.backend_ready \ ready) \cap r.announced : r.withdraw_deadline[s] = "unset"}
  <2>1. /\ SameWork(r, q)
        /\ q.bootstrapped = r.bootstrapped /\ q.reconcile_dirty = r.reconcile_dirty
        /\ q.next_types_sync = r.next_types_sync
        /\ q.backend_ready = ready /\ q.announced = r.announced
        /\ q.relay_withdraw = r.relay_withdraw
        /\ q.withdraw_deadline = Arm(Arm(r.withdraw_deadline, up, "unset"), grace, "later")
    BY Zenon DEF replace_backend_ready, RegistryState, SameWork
  <2>2. r.announced \subseteq Service
    BY Zenon DEF RegistryState
  <2> HIDE DEF q
  <2>3. \A s \in r.announced \ ready :
           q.withdraw_deadline[s] = IF s \in grace THEN "later" ELSE r.withdraw_deadline[s]
    BY <2>1, <2>2, Zenon DEF Arm
  <2>4. Withdrawals(q, b)
    <3> SUFFICES ASSUME NEW s \in r.announced \ ready
                 PROVE  \/ q.withdraw_deadline[s] # "unset"
                        \/ s \in r.relay_withdraw
                        \/ Has(q, b, "Withdraw", s)
      BY <2>1, Zenon DEF Withdrawals
    <3>1. CASE s \in r.backend_ready
      BY <2>3, <3>1, Zenon
    <3>2. CASE s \notin r.backend_ready
      BY <2>1, <2>3, <3>2, SameWorkKeeps, Zenon DEF Work, Withdrawals
    <3> QED BY <3>1, <3>2, Zenon
  <2>5. Sync(q)
    BY <2>1, Zenon DEF Work, Sync, SameWork
  <2>6. Work(q, b)
    BY <2>1, <2>4, <2>5, SameWorkKeeps, Zenon DEF Work
  <2> QED BY <2>6, Zenon DEF q
<1> QED BY <1>1, <1>2, <1>3, <1>4, <1>5, Zenon

\* Reset: the jobs that are left are of an earlier generation.
LEMMA ResetWork ==
  ASSUME NEW r \in RegistryState, NEW b, JobsOK(b, r.generation)
  PROVE  Work(HandleReset(r), b)
<1> DEFINE q == HandleReset(r)
<1>1. /\ q.announced = {} /\ q.announce_inflight = {} /\ q.withdraw_inflight = {}
      /\ q.bootstrapped = FALSE /\ q.reconcile = "Idle" /\ q.pending_types_write = {}
      /\ q.generation = r.generation + 1
  BY Zenon DEF HandleReset, NewState
<1>2. r.generation \in Nat
  BY Zenon DEF RegistryState
<1>3. \A j \in DOMAIN b : j.generation \in Nat /\ j.generation <= r.generation
  BY Zenon DEF JobsOK, Job
<1> HIDE DEF q
<1>4. \A j \in DOMAIN b : ~Alive(q, j)
  BY <1>1, <1>2, <1>3 DEF Alive
<1>5. TypesJobs(q, b) = {}
  BY <1>4, Zenon DEF TypesJobs
<1> QED BY <1>1, <1>5, Zenon DEF Work, Markers, Withdrawals, Sync, Chain, q

-----------------------------------------------------------------------------
(* plan                                                                    *)

\* What plan() does to the reconcile chain: it starts a read, starts the
\* write, or leaves the chain alone.
ChainStep(r, p) ==
    LET new == {j \in p.jobs : j.kind \in TypesKinds}
    IN  \/ /\ r.reconcile = "Idle" /\ p.state.reconcile = "Reading"
           /\ p.state.pending_types_write = r.pending_types_write
           /\ new = {NewJob(r, "ReadTypes", NoService, {})}
        \/ /\ r.reconcile = "ReadyToWrite"
           /\ p.state.reconcile = IF r.pending_types_write = {} THEN "Idle" ELSE "Writing"
           /\ p.state.pending_types_write = {}
           /\ new = {NewJob(r, "WriteTypes", NoService, value) : value \in r.pending_types_write}
        \/ /\ p.state.reconcile = r.reconcile
           /\ p.state.reconcile_dirty = r.reconcile_dirty
           /\ p.state.next_types_sync = r.next_types_sync
           /\ p.state.pending_types_write = r.pending_types_write
           /\ new = {}

LEMMA PlanChain ==
  ASSUME NEW r \in RegistryState, NEW n
  PROVE  ChainStep(r, plan(r, n))
<1> DEFINE W == First(DueWithdrawals(r) \ inflight(r), n)
           R == First(DueRetries(r) \ (inflight(r) \cup W), n - Cardinality(W))
           A == First(NewAnnouncements(r) \ (inflight(r) \cup W \cup R),
                      n - Cardinality(W) - Cardinality(R))
           m == n - Cardinality(W) - Cardinality(R) - Cardinality(A)
           T == PlanReconcile(r, m)
           p == plan(r, n)
<1>1. /\ p.state = [T.state EXCEPT !.withdraw_deadline = Arm(@, W, "unset"),
                                   !.relay_withdraw_retry_at = Arm(@, W, "unset"),
                                   !.withdraw_inflight = @ \cup W,
                                   !.announce_retry_at = Arm(@, R \cup A, "unset"),
                                   !.announce_inflight = @ \cup R \cup A]
      /\ p.jobs = {NewJob(r, "Withdraw", s, {}) : s \in W}
                  \cup {NewJob(r, "Announce", s, {}) : s \in R \cup A} \cup T.jobs
  BY Zenon DEF plan
<1> HIDE DEF W, R, A, m
<1>2. /\ T.state \in RegistryState
      /\ \A j \in T.jobs : \E kind \in TypesKinds : \E types : j = NewJob(r, kind, NoService, types)
  BY PlanReconcileFacts, Zenon DEF TypesKinds
<1>3. \A kind, s, types : NewJob(r, kind, s, types).kind = kind
  BY Zenon DEF NewJob
<1> HIDE DEF T, p
<1>4. /\ p.state.reconcile = T.state.reconcile
      /\ p.state.reconcile_dirty = T.state.reconcile_dirty
      /\ p.state.next_types_sync = T.state.next_types_sync
      /\ p.state.pending_types_write = T.state.pending_types_write
  BY <1>1, <1>2, Zenon DEF RegistryState
<1>5. {j \in p.jobs : j.kind \in TypesKinds} = T.jobs
  <2>1. \A j \in T.jobs : j \in p.jobs /\ j.kind \in TypesKinds
    <3> SUFFICES ASSUME NEW j \in T.jobs PROVE j \in p.jobs /\ j.kind \in TypesKinds
      BY Zenon
    <3>1. PICK kind \in TypesKinds : \E types : j = NewJob(r, kind, NoService, types)
      BY <1>2, Zenon
    <3>2. j.kind = kind
      BY <1>3, <3>1, Zenon
    <3>3. j \in p.jobs
      BY <1>1, Zenon
    <3> QED BY <3>2, <3>3, Zenon
  <2>2. ASSUME NEW j \in p.jobs, j.kind \in TypesKinds
        PROVE  j \in T.jobs
    BY <1>1, <1>3, <2>2 DEF TypesKinds
  <2> QED BY <2>1, <2>2, Zenon
<1>6. \/ /\ r.reconcile = "Idle" /\ T.state.reconcile = "Reading"
         /\ T.state.pending_types_write = r.pending_types_write
         /\ T.jobs = {NewJob(r, "ReadTypes", NoService, {})}
      \/ /\ r.reconcile = "ReadyToWrite"
         /\ T.state.reconcile = IF r.pending_types_write = {} THEN "Idle" ELSE "Writing"
         /\ T.state.pending_types_write = {}
         /\ T.jobs = {NewJob(r, "WriteTypes", NoService, value) : value \in r.pending_types_write}
      \/ /\ T.state = r
         /\ T.jobs = {}
  <2>1. CASE m > 0 /\ r.reconcile = "Idle" /\ (r.reconcile_dirty \/ r.next_types_sync = "due")
    BY <2>1, Zenon DEF T, PlanReconcile, RegistryState
  <2>2. CASE m > 0 /\ r.reconcile = "ReadyToWrite"
    BY <2>2, Zenon DEF T, PlanReconcile, RegistryState
  <2>3. CASE /\ ~(m > 0 /\ r.reconcile = "Idle" /\ (r.reconcile_dirty \/ r.next_types_sync = "due"))
             /\ ~(m > 0 /\ r.reconcile = "ReadyToWrite")
    BY <2>3, Zenon DEF T, PlanReconcile
  <2> QED BY <2>1, <2>2, <2>3, Zenon
<1>7. ChainStep(r, p)
  BY <1>4, <1>5, <1>6, Zenon DEF ChainStep
<1> QED BY <1>7, Zenon DEF p

\* A job that the bag did not hold is added once.
LEMMA AddNew ==
  ASSUME NEW b, NEW S
  PROVE  \A j \in S \ DOMAIN b : With(b, S)[j] = 1
BY DEF With, Copies

LEMMA PumpWork ==
  ASSUME NEW r, StateOK(r), NEW b, JobsOK(b, r.generation), Pump({r}, b), Work(r, b)
  PROVE  Work(reg', jobs')
<1>1. PICK p : p = plan(r, Slots(b)) /\ reg' = p.state /\ jobs' = With(b, p.jobs)
  BY Zenon DEF Pump
<1>2. PICK W, A \in SUBSET Service : PlanEffect(r, p, W, A)
  BY <1>1, PlanFacts, Zenon DEF StateOK
<1>3. ChainStep(r, p)
  BY <1>1, PlanChain, Zenon DEF StateOK
<1>4. \A j \in DOMAIN b : b[j] \in Nat \ {0}
  BY Zenon DEF JobsOK
<1>5. /\ DOMAIN jobs' = DOMAIN b \cup p.jobs
      /\ \A j \in DOMAIN b \ p.jobs : jobs'[j] = b[j]
      /\ \A j \in p.jobs \ DOMAIN b : jobs'[j] = 1
  <2>1. /\ DOMAIN jobs' = DOMAIN b \cup p.jobs
        /\ \A j \in DOMAIN b \ p.jobs : jobs'[j] = b[j]
    BY <1>1, <1>4, AddFacts, Zenon
  <2>2. \A j \in p.jobs \ DOMAIN b : jobs'[j] = 1
    <3>1. jobs' = With(b, p.jobs)
      BY <1>1, Zenon
    <3>2. \A j \in p.jobs \ DOMAIN b : With(b, p.jobs)[j] = 1
      BY AddNew, Zenon
    <3> QED BY <3>1, <3>2, Zenon
  <2> QED BY <2>1, <2>2, Zenon
<1>6. reg'.generation = r.generation
  BY <1>1, <1>2, Zenon DEF PlanEffect, PlanKeeps
<1>7. \A j : Alive(reg', j) <=> Alive(r, j)
  BY <1>6, Zenon DEF Alive
<1>8. \A j \in p.jobs : Alive(r, j)
  BY <1>2, PlannedJobs DEF Alive, StateOK
<1>9. \A kind, s : Has(r, b, kind, s) => Has(reg', jobs', kind, s)
  BY <1>5, <1>7, Zenon DEF Has
<1>10. /\ \A s \in W : Has(reg', jobs', "Withdraw", s)
       /\ \A s \in A : Has(reg', jobs', "Announce", s)
  <2>1. \A kind, s : /\ NewJob(r, kind, s, {}).kind = kind
                     /\ NewJob(r, kind, s, {}).service = s
    BY Zenon DEF NewJob
  <2>2. /\ \A s \in W : NewJob(r, "Withdraw", s, {}) \in p.jobs
        /\ \A s \in A : NewJob(r, "Announce", s, {}) \in p.jobs
    BY <1>2, Zenon DEF PlanEffect
  <2>3. \A kind, s : NewJob(r, kind, s, {}) \in p.jobs => Has(reg', jobs', kind, s)
    <3> SUFFICES ASSUME NEW kind, NEW s, NewJob(r, kind, s, {}) \in p.jobs
                 PROVE  Has(reg', jobs', kind, s)
      BY Zenon
    <3> DEFINE j == NewJob(r, kind, s, {})
    <3>1. j \in DOMAIN jobs' /\ Alive(reg', j)
      BY <1>5, <1>7, <1>8, Zenon
    <3>2. j.kind = kind /\ j.service = s
      BY <2>1, Zenon
    <3> HIDE DEF j
    <3> QED BY <3>1, <3>2, Zenon DEF Has
  <2> QED BY <2>2, <2>3, Zenon
<1>11. Markers(reg', jobs')
  <2>1. /\ reg'.withdraw_inflight = r.withdraw_inflight \cup W
        /\ reg'.announce_inflight = r.announce_inflight \cup A
    BY <1>1, <1>2, Zenon DEF PlanEffect
  <2> QED BY <1>9, <1>10, <2>1, Zenon DEF Work, Markers
<1>12. Withdrawals(reg', jobs')
  <2>1. /\ reg'.withdraw_deadline = Arm(r.withdraw_deadline, W, "unset")
        /\ reg'.announced = r.announced /\ reg'.backend_ready = r.backend_ready
        /\ reg'.relay_withdraw = r.relay_withdraw
    BY <1>1, <1>2, Zenon DEF PlanEffect, PlanKeeps
  <2>2. r.announced \subseteq Service
    BY Zenon DEF StateOK, RegistryState
  <2>3. \A s \in r.announced : s \notin W => reg'.withdraw_deadline[s] = r.withdraw_deadline[s]
    BY <2>1, <2>2, Zenon DEF Arm
  <2> QED BY <1>9, <1>10, <2>1, <2>3, Zenon DEF Work, Withdrawals
<1>13. TypesJobs(reg', jobs') = TypesJobs(r, b) \cup {j \in p.jobs : j.kind \in TypesKinds}
  BY <1>5, <1>7, <1>8, Zenon DEF TypesJobs
<1>14. Sync(reg') /\ Chain(reg', jobs')
  <2> DEFINE new == {j \in p.jobs : j.kind \in TypesKinds}
  <2>0. reg' = p.state /\ reg'.bootstrapped = r.bootstrapped /\ Chain(r, b) /\ Sync(r)
    BY <1>1, <1>2, Zenon DEF PlanEffect, PlanKeeps, Work
  <2>1. ASSUME NEW j, new = {j}, TypesJobs(r, b) = {}
        PROVE  OneJob(reg', jobs', j.kind)
    <3>1. j \in p.jobs /\ j.kind \in TypesKinds
      BY <2>1, Zenon
    <3>2. j \notin DOMAIN b
      BY <1>8, <2>1, <3>1, Zenon DEF TypesJobs
    <3>3. TypesJobs(reg', jobs') = {j}
      BY <1>13, <2>1
    <3> QED BY <1>5, <3>1, <3>2, <3>3, Zenon DEF OneJob
  <2>2. CASE /\ r.reconcile = "Idle" /\ p.state.reconcile = "Reading"
             /\ p.state.pending_types_write = r.pending_types_write
             /\ new = {NewJob(r, "ReadTypes", NoService, {})}
    <3>1. NewJob(r, "ReadTypes", NoService, {}).kind = "ReadTypes"
      BY Zenon DEF NewJob
    <3>2. TypesJobs(r, b) = {} /\ r.pending_types_write = {}
      BY <2>0, <2>2, Zenon DEF Chain
    <3>3. OneJob(reg', jobs', "ReadTypes")
      BY <2>1, <2>2, <3>1, <3>2, Zenon
    <3> QED BY <2>0, <2>2, <3>2, <3>3, Zenon DEF Sync, Chain
  <2>3. CASE /\ r.reconcile = "ReadyToWrite"
             /\ p.state.reconcile = IF r.pending_types_write = {} THEN "Idle" ELSE "Writing"
             /\ p.state.pending_types_write = {}
             /\ new = {NewJob(r, "WriteTypes", NoService, value) : value \in r.pending_types_write}
    <3>1. PICK v : r.pending_types_write = {v}
      BY <2>0, <2>3, Zenon DEF Chain
    <3>2. new = {NewJob(r, "WriteTypes", NoService, v)} /\ p.state.reconcile = "Writing"
      BY <2>3, <3>1
    <3>3. NewJob(r, "WriteTypes", NoService, v).kind = "WriteTypes"
      BY Zenon DEF NewJob
    <3>4. TypesJobs(r, b) = {}
      BY <2>0, <2>3, Zenon DEF Chain
    <3>5. OneJob(reg', jobs', "WriteTypes")
      BY <2>1, <3>2, <3>3, <3>4, Zenon
    <3> QED BY <2>0, <2>3, <3>2, <3>5, Zenon DEF Sync, Chain
  <2>4. CASE /\ p.state.reconcile = r.reconcile
             /\ p.state.reconcile_dirty = r.reconcile_dirty
             /\ p.state.next_types_sync = r.next_types_sync
             /\ p.state.pending_types_write = r.pending_types_write
             /\ new = {}
    <3>1. TypesJobs(reg', jobs') = TypesJobs(r, b)
      BY <1>13, <2>4
    <3>2. \A j \in TypesJobs(r, b) : j \in DOMAIN jobs' /\ jobs'[j] = b[j]
      BY <1>5, <2>4, Zenon DEF TypesJobs
    <3>3. \A kind : OneJob(r, b, kind) => OneJob(reg', jobs', kind)
      BY <3>1, <3>2, Zenon DEF OneJob
    <3>4. Chain(reg', jobs')
      BY <2>0, <2>4, <3>1, <3>3, Zenon DEF Chain
    <3> QED BY <2>0, <2>4, <3>4, Zenon DEF Sync
  <2> QED BY <1>3, <2>2, <2>3, <2>4, Zenon DEF ChainStep
<1> QED BY <1>11, <1>12, <1>14, Zenon DEF Work

-----------------------------------------------------------------------------
(* apply                                                                   *)

\* Removing one copy of a job touches no other job.
LEMMA RemoveOne ==
  ASSUME NEW b, NEW j, \A k \in DOMAIN b : b[k] \in Nat \ {0}
  PROVE  /\ \A k \in DOMAIN b \ {j} : Without(b, j)[k] = b[k]
         /\ b[j] = 1 => j \notin DOMAIN Without(b, j)
BY DEF Without

\* The joined job is gone; every other job still counts.
Joined(r, b, j, q, c) ==
    /\ \A kind, s : /\ Has(r, b, kind, s)
                    /\ ~(Alive(r, j) /\ j.kind = kind /\ j.service = s)
                    => Has(q, c, kind, s)
    /\ ~Alive(r, j) \/ j.kind \notin TypesKinds =>
          /\ TypesJobs(q, c) = TypesJobs(r, b)
          /\ \A kind : OneJob(r, b, kind) => OneJob(q, c, kind)
    /\ TypesJobs(r, b) = {j} /\ b[j] = 1 => TypesJobs(q, c) = {}

LEMMA JoinedKeeps ==
  ASSUME NEW r, NEW q, q.generation = r.generation, NEW b, NEW j \in DOMAIN b,
         \A k \in DOMAIN b : b[k] \in Nat \ {0}
  PROVE  Joined(r, b, j, q, Without(b, j))
<1> DEFINE c == Without(b, j)
<1>1. \A k : Alive(q, k) <=> Alive(r, k)
  BY Zenon DEF Alive
<1>2. DOMAIN c \subseteq DOMAIN b /\ DOMAIN b \ {j} \subseteq DOMAIN c
  BY RemoveFacts, Zenon
<1>3. /\ \A k \in DOMAIN b \ {j} : c[k] = b[k]
      /\ b[j] = 1 => j \notin DOMAIN c
  BY RemoveOne, Zenon
<1> HIDE DEF c
<1>4. ASSUME NEW kind, NEW s, Has(r, b, kind, s),
             ~(Alive(r, j) /\ j.kind = kind /\ j.service = s)
      PROVE  Has(q, c, kind, s)
  <2>1. PICK k \in DOMAIN b : Alive(r, k) /\ k.kind = kind /\ k.service = s
    BY <1>4, Zenon DEF Has
  <2>2. k \in DOMAIN c
    BY <1>2, <1>4, <2>1, Zenon
  <2> QED BY <1>1, <2>1, <2>2, Zenon DEF Has
<1>5. ASSUME ~Alive(r, j) \/ j.kind \notin TypesKinds
      PROVE  /\ TypesJobs(q, c) = TypesJobs(r, b)
             /\ \A kind : OneJob(r, b, kind) => OneJob(q, c, kind)
  <2>1. TypesJobs(q, c) = TypesJobs(r, b)
    BY <1>1, <1>2, <1>5, Zenon DEF TypesJobs
  <2>2. j \notin TypesJobs(r, b)
    BY <1>5, Zenon DEF TypesJobs
  <2>3. \A k \in TypesJobs(r, b) : k \in DOMAIN c /\ c[k] = b[k]
    BY <1>2, <1>3, <2>2, Zenon DEF TypesJobs
  <2> QED BY <2>1, <2>3, Zenon DEF OneJob
<1>6. ASSUME TypesJobs(r, b) = {j}, b[j] = 1
      PROVE  TypesJobs(q, c) = {}
  <2>1. \A k \in TypesJobs(q, c) : k \in TypesJobs(r, b)
    BY <1>1, <1>2, Zenon DEF TypesJobs
  <2>2. j \notin TypesJobs(q, c)
    BY <1>3, <1>6, Zenon DEF TypesJobs
  <2> QED BY <1>6, <2>1, <2>2, Zenon
<1>7. Joined(r, b, j, q, c)
  BY <1>4, <1>5, <1>6, Zenon DEF Joined
<1> QED BY <1>7, Zenon DEF c

\* The effect of a joined announcement of s.
AfterAnnounce(r, q, s) ==
    /\ q.announce_inflight = r.announce_inflight \ {s}
    /\ q.withdraw_inflight = r.withdraw_inflight
    /\ q.reconcile = r.reconcile /\ q.pending_types_write = r.pending_types_write
    /\ q.backend_ready = r.backend_ready /\ q.bootstrapped = r.bootstrapped
    /\ Sync(r) => Sync(q)
    /\ r.relay_withdraw \subseteq q.relay_withdraw
    /\ \A x \in Service : q.withdraw_deadline[x] \in {r.withdraw_deadline[x], "due"}
    /\ \A x \in q.announced : \/ x \in r.announced \cup r.backend_ready
                              \/ x \in q.relay_withdraw
                              \/ q.withdraw_deadline[x] = "due"

LEMMA AnnouncedWork ==
  ASSUME NEW r \in RegistryState, NEW j \in Job, j.service \in Service, j.phase \in {"ok", "err"}
  PROVE  AfterAnnounce(r, ApplyAnnounced(r, j), j.service)
<1> DEFINE q == ApplyAnnounced(r, j)
<1> SUFFICES AfterAnnounce(r, q, j.service)
  BY Zenon
<1> USE DEF AfterAnnounce
<1> DEFINE s == j.service
           n == [r EXCEPT !.announce_inflight = @ \ {s}]
           d == mark_types_dirty([n EXCEPT !.announce_retry_at = Arm(@, {s}, "unset"),
                                           !.announced = @ \cup {s}])
<1>1. /\ d.announce_inflight = r.announce_inflight \ {s}
      /\ d.withdraw_inflight = r.withdraw_inflight
      /\ d.reconcile = r.reconcile /\ d.pending_types_write = r.pending_types_write
      /\ d.backend_ready = r.backend_ready /\ d.bootstrapped = r.bootstrapped
      /\ d.reconcile_dirty = TRUE
      /\ d.relay_withdraw = r.relay_withdraw /\ d.withdraw_deadline = r.withdraw_deadline
      /\ d.announced = r.announced \cup {s}
      /\ DOMAIN d = DOMAIN r
  BY Zenon DEF mark_types_dirty, RegistryState
<1>2. CASE j.generation # r.generation
  <2>1. q = n
    BY <1>2, Zenon DEF ApplyAnnounced
  <2> QED BY <2>1, Zenon DEF RegistryState, Sync
<1>3. CASE j.generation = r.generation /\ j.phase = "ok" /\ ~relay_ready(r)
  <2>1. q = [d EXCEPT !.relay_withdraw = @ \cup {s}]
    BY <1>3, Zenon DEF ApplyAnnounced
  <2> HIDE DEF d
  <2> QED BY <1>1, <2>1 DEF RegistryState, Sync
<1>4. CASE j.generation = r.generation /\ j.phase = "ok" /\ relay_ready(r)
  <2> DEFINE serving == s \in r.backend_ready /\ r.bootstrapped
  <2>1. q = [d EXCEPT !.withdraw_deadline = IF serving THEN @ ELSE Arm(@, {s}, "due")]
    BY <1>4, Zenon DEF ApplyAnnounced
  <2> HIDE DEF d
  <2>2. q.withdraw_deadline = IF serving THEN r.withdraw_deadline ELSE Arm(r.withdraw_deadline, {s}, "due")
    BY <1>1, <2>1 DEF RegistryState
  <2>3. /\ \A x \in Service : q.withdraw_deadline[x] \in {r.withdraw_deadline[x], "due"}
        /\ ~serving => q.withdraw_deadline[s] = "due"
    BY <2>2, Zenon DEF Arm
  <2>4. /\ q.announce_inflight = r.announce_inflight \ {s}
        /\ q.withdraw_inflight = r.withdraw_inflight
        /\ q.reconcile = r.reconcile /\ q.pending_types_write = r.pending_types_write
        /\ q.backend_ready = r.backend_ready /\ q.bootstrapped = r.bootstrapped
        /\ q.reconcile_dirty = TRUE
        /\ q.relay_withdraw = r.relay_withdraw
        /\ q.announced = r.announced \cup {s}
    BY <1>1, <2>1 DEF RegistryState
  <2> QED BY <2>3, <2>4, Zenon DEF Sync
<1>5. CASE j.generation = r.generation /\ j.phase = "err"
  <2>1. q = [n EXCEPT !.announce_retry_at = IF s \in r.backend_ready /\ r.bootstrapped
                                            THEN Arm(@, {s}, "later") ELSE @]
    BY <1>5, Zenon DEF ApplyAnnounced
  <2> QED BY <2>1, Zenon DEF RegistryState, Sync
<1> QED BY <1>2, <1>3, <1>4, <1>5, Zenon

\* The effect of the joined withdrawal j of s.
AfterWithdraw(r, q, j, s) ==
    /\ q.withdraw_inflight = r.withdraw_inflight \ {s}
    /\ q.announce_inflight = r.announce_inflight
    /\ q.reconcile = r.reconcile /\ q.pending_types_write = r.pending_types_write
    /\ q.backend_ready = r.backend_ready
    /\ Sync(r) => Sync(q)
    /\ q.announced \subseteq r.announced
    /\ \A x \in Service \ {s} :
          /\ q.withdraw_deadline[x] = r.withdraw_deadline[x]
          /\ x \in r.relay_withdraw => x \in q.relay_withdraw
    /\ j.generation # r.generation =>
          q.withdraw_deadline = r.withdraw_deadline /\ q.relay_withdraw = r.relay_withdraw
    /\ j.generation = r.generation /\ s \in q.announced =>
          \/ s \in q.backend_ready \/ s \in q.relay_withdraw
          \/ q.withdraw_deadline[s] = "later"

LEMMA WithdrawnWork ==
  ASSUME NEW r \in RegistryState, NEW j \in Job, j.service \in Service, j.phase \in {"ok", "err"}
  PROVE  AfterWithdraw(r, ApplyWithdrawn(r, j), j, j.service)
<1> DEFINE q == ApplyWithdrawn(r, j)
<1> SUFFICES AfterWithdraw(r, q, j, j.service)
  BY Zenon
<1> USE DEF AfterWithdraw
<1> DEFINE s == j.service
           n == [r EXCEPT !.withdraw_inflight = @ \ {s}]
<1>1. CASE j.generation # r.generation
  <2>1. q = n
    BY <1>1, Zenon DEF ApplyWithdrawn
  <2> QED BY <1>1, <2>1, Zenon DEF RegistryState, Sync
<1>2. CASE j.generation = r.generation /\ j.phase = "ok"
  <2>1. q = [n EXCEPT !.announced = @ \ {s}, !.relay_withdraw = @ \ {s},
                      !.relay_withdraw_retry_at = Arm(@, {s}, "unset"),
                      !.announce_retry_at = IF s \in r.backend_ready /\ relay_ready(r)
                                            THEN Arm(@, {s}, "due") ELSE @]
    BY <1>2, Zenon DEF ApplyWithdrawn
  <2>2. /\ q.withdraw_inflight = r.withdraw_inflight \ {s}
        /\ q.announce_inflight = r.announce_inflight
        /\ q.reconcile = r.reconcile /\ q.pending_types_write = r.pending_types_write
        /\ q.backend_ready = r.backend_ready /\ q.bootstrapped = r.bootstrapped
        /\ q.reconcile_dirty = r.reconcile_dirty /\ q.next_types_sync = r.next_types_sync
        /\ q.announced = r.announced \ {s} /\ q.relay_withdraw = r.relay_withdraw \ {s}
        /\ q.withdraw_deadline = r.withdraw_deadline
    BY <2>1 DEF RegistryState
  <2>3. Sync(r) => Sync(q)
    BY <2>2, Zenon DEF Sync
  <2> QED BY <1>2, <2>2, <2>3
<1>3. CASE j.generation = r.generation /\ j.phase = "err" /\ s \in r.relay_withdraw
  <2>1. q = [n EXCEPT !.relay_withdraw_retry_at = Arm(@, {s}, "later")]
    BY <1>3, Zenon DEF ApplyWithdrawn
  <2> QED BY <1>3, <2>1, Zenon DEF RegistryState, Sync
<1>4. CASE j.generation = r.generation /\ j.phase = "err" /\ s \notin r.relay_withdraw
           /\ s \in r.backend_ready
  <2>1. q = [n EXCEPT !.announce_retry_at = Arm(@, {s}, "due")]
    BY <1>4, Zenon DEF ApplyWithdrawn
  <2> QED BY <1>4, <2>1, Zenon DEF RegistryState, Sync
<1>5. CASE j.generation = r.generation /\ j.phase = "err" /\ s \notin r.relay_withdraw
           /\ s \notin r.backend_ready
  <2>1. q = [n EXCEPT !.withdraw_deadline = Arm(@, {s}, "later")]
    BY <1>5, Zenon DEF ApplyWithdrawn
  <2>2. /\ q.withdraw_inflight = r.withdraw_inflight \ {s}
        /\ q.announce_inflight = r.announce_inflight
        /\ q.reconcile = r.reconcile /\ q.pending_types_write = r.pending_types_write
        /\ q.backend_ready = r.backend_ready /\ q.bootstrapped = r.bootstrapped
        /\ q.reconcile_dirty = r.reconcile_dirty /\ q.next_types_sync = r.next_types_sync
        /\ q.announced = r.announced /\ q.relay_withdraw = r.relay_withdraw
        /\ q.withdraw_deadline = Arm(r.withdraw_deadline, {s}, "later")
    BY <2>1 DEF RegistryState
  <2>3. Sync(r) => Sync(q)
    BY <2>2, Zenon DEF Sync
  <2>4. /\ q.withdraw_deadline[s] = "later"
        /\ \A x \in Service \ {s} : q.withdraw_deadline[x] = r.withdraw_deadline[x]
    BY <2>2, Zenon DEF Arm
  <2> QED BY <1>5, <2>2, <2>3, <2>4
<1> QED BY <1>1, <1>2, <1>3, <1>4, <1>5, Zenon

\* The effect of a joined types job: the chain ends or is ready to write.
AfterTypes(r, q) ==
    /\ \/ q.reconcile = "Idle" /\ q.pending_types_write = {} /\ q.next_types_sync # "unset"
       \/ q.reconcile = "ReadyToWrite" /\ \E v : q.pending_types_write = {v}
    /\ q.announce_inflight = r.announce_inflight /\ q.withdraw_inflight = r.withdraw_inflight
    /\ q.backend_ready = r.backend_ready /\ q.announced = r.announced
    /\ q.withdraw_deadline = r.withdraw_deadline /\ q.relay_withdraw = r.relay_withdraw

\* The result of the job is one of this generation.
Reported(r, j) == j.phase \in {"ok", "err"} /\ j.generation = r.generation

LEMMA TypesWork ==
  ASSUME NEW r \in RegistryState, NEW j, Reported(r, j)
  PROVE  /\ r.reconcile = "Writing" => AfterTypes(r, ApplyTypesWritten(r, j))
         /\ r.reconcile = "Reading" => \A known : AfterTypes(r, ApplyTypesRead(r, j, known))
<1>1. AfterTypes(r, ReconcileIdle(r))
  BY Zenon DEF AfterTypes, ReconcileIdle, RegistryState
<1>2. ASSUME NEW known
      PROVE  AfterTypes(r, ReconcileIdle([r EXCEPT !.known_types = known]))
  BY Zenon DEF AfterTypes, ReconcileIdle, RegistryState
<1>3. ASSUME NEW known
      PROVE  AfterTypes(r, [r EXCEPT !.known_types = known, !.reconcile = "ReadyToWrite",
                                     !.pending_types_write = {EncodedTypes(known)},
                                     !.reconcile_dirty = FALSE])
  BY Zenon DEF AfterTypes, RegistryState
<1>4. ASSUME r.reconcile = "Writing"
      PROVE  AfterTypes(r, ApplyTypesWritten(r, j))
  <2>1. ApplyTypesWritten(r, j) = ReconcileIdle(r)
    BY <1>4, Zenon DEF ApplyTypesWritten, Reported
  <2> QED BY <1>1, <2>1, Zenon
<1>5. ASSUME r.reconcile = "Reading", NEW known
      PROVE  AfterTypes(r, ApplyTypesRead(r, j, known))
  <2>1. ApplyTypesRead(r, j, known) \in
            {ReconcileIdle(r), ReconcileIdle([r EXCEPT !.known_types = known]),
             [r EXCEPT !.known_types = known, !.reconcile = "ReadyToWrite",
                       !.pending_types_write = {EncodedTypes(known)}, !.reconcile_dirty = FALSE]}
    BY <1>5, Zenon DEF ApplyTypesRead, Reported
  <2> QED BY <1>1, <1>2, <1>3, <2>1, Zenon
<1> QED BY <1>4, <1>5, Zenon

\* A types job that is alive is the one the state of the chain tells of.
LEMMA ChainJob ==
  ASSUME NEW r \in RegistryState, NEW b, Chain(r, b), NEW j \in TypesJobs(r, b)
  PROVE  /\ TypesJobs(r, b) = {j} /\ b[j] = 1
         /\ r.reconcile = IF j.kind = "ReadTypes" THEN "Reading" ELSE "Writing"
<1>1. r.reconcile \in {"Reading", "Writing"}
  BY Zenon DEF RegistryState, Reconcile, Chain
<1>2. PICK k : /\ TypesJobs(r, b) = {k} /\ b[k] = 1
               /\ k.kind = IF r.reconcile = "Reading" THEN "ReadTypes" ELSE "WriteTypes"
  <2>1. CASE r.reconcile = "Reading"
    BY <2>1, Zenon DEF Chain, OneJob
  <2>2. CASE r.reconcile = "Writing"
    BY <2>2 DEF Chain, OneJob
  <2> QED BY <1>1, <2>1, <2>2, Zenon
<1>3. j = k
  BY <1>2, Zenon
<1> QED BY <1>1, <1>2, <1>3

LEMMA ApplyWork ==
  ASSUME NEW r, StateOK(r), NEW b, JobsOK(b, r.generation), NEW j \in DOMAIN b,
         Finished(j, r.generation), NEW q \in apply(r, j), Work(r, b)
  PROVE  Work(q, Without(b, j))
<1> DEFINE c == Without(b, j)
<1>1. q.generation = r.generation /\ r \in RegistryState /\ j \in Job
  BY ApplyOK, Zenon DEF Handled, StateOK, Finished
<1>2. Joined(r, b, j, q, c)
  BY <1>1, JoinedKeeps, Zenon DEF JobsOK
<1> HIDE DEF c
<1> SUFFICES Work(q, c)
  BY Zenon DEF c
<1>3. r.announced \subseteq Service /\ Markers(r, b) /\ Withdrawals(r, b) /\ Sync(r) /\ Chain(r, b)
  BY <1>1, Zenon DEF Work, RegistryState
<1>4. ASSUME ~Alive(r, j) \/ j.kind \notin TypesKinds, q.reconcile = r.reconcile,
             q.pending_types_write = r.pending_types_write
      PROVE  Chain(q, c)
  BY <1>2, <1>3, <1>4, Zenon DEF Chain, Joined
<1>5. ASSUME ~Alive(r, j), q = r
      PROVE  Work(q, c)
  <2>1. \A kind, s : Has(r, b, kind, s) => Has(r, c, kind, s)
    BY <1>2, <1>5, Zenon DEF Joined
  <2>2. Markers(r, c) /\ Withdrawals(r, c)
    BY <1>3, <2>1, Zenon DEF Markers, Withdrawals
  <2> QED BY <1>3, <1>4, <1>5, <2>2, Zenon DEF Work
<1>6. CASE j.phase # "cancelled" /\ j.kind = "Announce"
  <2>1. j.service \in Service /\ j.phase \in {"ok", "err"} /\ q = ApplyAnnounced(r, j)
    BY <1>6, Zenon DEF apply, Job, Finished
  <2>2. AfterAnnounce(r, q, j.service)
    BY <1>1, <2>1, AnnouncedWork, Zenon
  <2>3. /\ \A s : Has(r, b, "Withdraw", s) => Has(q, c, "Withdraw", s)
        /\ \A s : s # j.service /\ Has(r, b, "Announce", s) => Has(q, c, "Announce", s)
    BY <1>2, <1>6 DEF Joined
  <2>4. Markers(q, c)
    BY <1>3, <2>2, <2>3, Zenon DEF Markers, AfterAnnounce
  <2>5. Withdrawals(q, c)
    <3> SUFFICES ASSUME NEW s \in q.announced \ q.backend_ready
                 PROVE  \/ q.withdraw_deadline[s] # "unset"
                        \/ s \in q.relay_withdraw
                        \/ Has(q, c, "Withdraw", s)
      BY Zenon DEF Withdrawals
    <3>1. CASE s \in r.announced
      <4>1. \/ r.withdraw_deadline[s] # "unset"
            \/ s \in r.relay_withdraw
            \/ Has(r, b, "Withdraw", s)
        BY <1>3, <2>2, <3>1, Zenon DEF Withdrawals, AfterAnnounce
      <4>2. q.withdraw_deadline[s] \in {r.withdraw_deadline[s], "due"}
        BY <1>3, <2>2, <3>1, Zenon DEF AfterAnnounce
      <4>3. s \in r.relay_withdraw => s \in q.relay_withdraw
        BY <2>2, Zenon DEF AfterAnnounce
      <4> QED BY <2>3, <4>1, <4>2, <4>3, Zenon
    <3>2. CASE s \notin r.announced
      BY <2>2, <3>2, Zenon DEF AfterAnnounce
    <3> QED BY <3>1, <3>2, Zenon
  <2>6. Sync(q) /\ Chain(q, c)
    BY <1>3, <1>4, <1>6, <2>2, Zenon DEF TypesKinds, AfterAnnounce
  <2> QED BY <2>4, <2>5, <2>6, Zenon DEF Work
<1>7. CASE j.phase # "cancelled" /\ j.kind = "Withdraw"
  <2>1. j.service \in Service /\ j.phase \in {"ok", "err"} /\ q = ApplyWithdrawn(r, j)
    BY <1>7, Zenon DEF apply, Job, Finished
  <2>2. AfterWithdraw(r, q, j, j.service)
    BY <1>1, <2>1, WithdrawnWork, Zenon
  <2>3. /\ \A s : Has(r, b, "Announce", s) => Has(q, c, "Announce", s)
        /\ \A s : s # j.service \/ j.generation # r.generation =>
              (Has(r, b, "Withdraw", s) => Has(q, c, "Withdraw", s))
    BY <1>2, <1>7 DEF Joined, Alive
  <2>4. Markers(q, c)
    BY <1>3, <2>2, <2>3, Zenon DEF Markers, AfterWithdraw
  <2>5. Withdrawals(q, c)
    <3> SUFFICES ASSUME NEW s \in q.announced \ q.backend_ready
                 PROVE  \/ q.withdraw_deadline[s] # "unset"
                        \/ s \in q.relay_withdraw
                        \/ Has(q, c, "Withdraw", s)
      BY Zenon DEF Withdrawals
    <3>1. s \in r.announced \ r.backend_ready /\ s \in Service
      BY <1>3, <2>2, Zenon DEF AfterWithdraw
    <3>2. \/ r.withdraw_deadline[s] # "unset"
          \/ s \in r.relay_withdraw
          \/ Has(r, b, "Withdraw", s)
      BY <1>3, <3>1, Zenon DEF Withdrawals
    <3>3. CASE s = j.service /\ j.generation = r.generation
      <4>1. s \in q.relay_withdraw \/ q.withdraw_deadline[s] = "later"
        BY <2>2, <3>3, Zenon DEF AfterWithdraw
      <4> QED BY <4>1
    <3>4. CASE s # j.service \/ j.generation # r.generation
      <4>1. /\ q.withdraw_deadline[s] = r.withdraw_deadline[s]
            /\ s \in r.relay_withdraw => s \in q.relay_withdraw
        BY <2>2, <3>1, <3>4, Zenon DEF AfterWithdraw
      <4> QED BY <2>3, <3>2, <3>4, <4>1, Zenon
    <3> QED BY <3>3, <3>4, Zenon
  <2>6. Sync(q) /\ Chain(q, c)
    BY <1>3, <1>4, <1>7, <2>2, Zenon DEF TypesKinds, AfterWithdraw
  <2> QED BY <2>4, <2>5, <2>6, Zenon DEF Work
<1>8. CASE j.phase # "cancelled" /\ j.kind \in TypesKinds
  <2>1. /\ j.phase \in {"ok", "err"}
        /\ j.kind = "WriteTypes" => q = ApplyTypesWritten(r, j)
        /\ j.kind = "ReadTypes" => \E known : q = ApplyTypesRead(r, j, known)
    BY <1>8, Zenon DEF apply, Finished
  <2>2. CASE j.generation # r.generation
    <3>1. q = r
      BY <1>8, <2>1, <2>2, Zenon DEF ApplyTypesWritten, ApplyTypesRead, TypesKinds
    <3> QED BY <1>5, <2>2, <3>1, Zenon DEF Alive
  <2>3. CASE j.generation = r.generation
    <3>1. j \in TypesJobs(r, b)
      BY <1>8, <2>3, Zenon DEF TypesJobs, Alive
    <3>2. /\ TypesJobs(r, b) = {j} /\ b[j] = 1
          /\ r.reconcile = IF j.kind = "ReadTypes" THEN "Reading" ELSE "Writing"
      BY <1>1, <1>3, <3>1, ChainJob, Zenon
    <3>3. AfterTypes(r, q)
      <4>0. Reported(r, j) /\ r \in RegistryState
        BY <1>1, <2>1, <2>3, Zenon DEF Reported
      <4>1. CASE j.kind = "WriteTypes"
        <5>1. r.reconcile = "Writing"
          BY <3>2, <4>1
        <5>2. AfterTypes(r, ApplyTypesWritten(r, j))
          BY <4>0, <5>1, TypesWork, Zenon
        <5> QED BY <2>1, <4>1, <5>2, Zenon
      <4>2. CASE j.kind = "ReadTypes"
        <5>1. r.reconcile = "Reading"
          BY <3>2, <4>2, Zenon
        <5>2. \A known : AfterTypes(r, ApplyTypesRead(r, j, known))
          BY <4>0, <5>1, TypesWork, Zenon
        <5> QED BY <2>1, <4>2, <5>2, Zenon
      <4> QED BY <1>8, <4>1, <4>2, Zenon DEF TypesKinds
    <3>4. TypesJobs(q, c) = {}
      BY <1>2, <3>2, Zenon DEF Joined
    <3>5. Sync(q) /\ Chain(q, c)
      BY <3>3, <3>4, Zenon DEF AfterTypes, Sync, Chain
    <3>6. \A s : /\ Has(r, b, "Announce", s) => Has(q, c, "Announce", s)
                 /\ Has(r, b, "Withdraw", s) => Has(q, c, "Withdraw", s)
      BY <1>2, <1>8 DEF Joined, TypesKinds
    <3>7. Markers(q, c) /\ Withdrawals(q, c)
      BY <1>3, <3>3, <3>6, Zenon DEF Markers, Withdrawals, AfterTypes
    <3> QED BY <3>5, <3>7, Zenon DEF Work
  <2> QED BY <2>2, <2>3, Zenon
<1>9. CASE j.phase = "cancelled"
  <2>1. q = r /\ ~Alive(r, j)
    BY <1>9, Zenon DEF apply, Alive
  <2> QED BY <1>5, <2>1, Zenon
<1> QED BY <1>1, <1>6, <1>7, <1>8, <1>9, Zenon DEF Job, Kind, TypesKinds

-----------------------------------------------------------------------------
(* The steps of the jobs and of time                                       *)

\* A job that takes a step stays the job its marker or the chain tells of.
LEMMA AdvanceWork ==
  ASSUME StateOK(reg), JobsOK(jobs, reg.generation), Work(reg, jobs), NEW j \in DOMAIN jobs,
         j.phase # "cancelled", NEW k, k.kind = j.kind, k.generation = j.generation,
         k.service = j.service, k.phase # "cancelled", Advance(j, k)
  PROVE  Work(reg, jobs')
<1> DEFINE c == Without(jobs, j)
<1>1. \A i \in DOMAIN jobs : jobs[i] \in Nat \ {0}
  BY Zenon DEF JobsOK
<1>2. Joined(reg, jobs, j, reg, c)
  BY <1>1, JoinedKeeps, Zenon
<1>3. \A i \in DOMAIN c : c[i] \in Nat \ {0}
  BY <1>1, RemoveFacts, Zenon
<1>4. jobs' = With(c, {k})
  BY Zenon DEF Advance
<1> HIDE DEF c
<1>5. DOMAIN jobs' = DOMAIN c \cup {k} /\ \A i \in DOMAIN c \ {k} : jobs'[i] = c[i]
  BY <1>3, <1>4, AddFacts, Zenon
<1>6. k \notin DOMAIN c => jobs'[k] = 1
  <2>1. \A i \in {k} \ DOMAIN c : With(c, {k})[i] = 1
    BY AddNew, Zenon
  <2> QED BY <1>4, <2>1, Zenon
<1>7. Alive(reg, k) <=> Alive(reg, j)
  BY Zenon DEF Alive
<1>8. \A kind, s : Has(reg, jobs, kind, s) => Has(reg, jobs', kind, s)
  <2> SUFFICES ASSUME NEW kind, NEW s, Has(reg, jobs, kind, s) PROVE Has(reg, jobs', kind, s)
    BY Zenon
  <2>1. CASE Alive(reg, j) /\ j.kind = kind /\ j.service = s
    BY <1>5, <1>7, <2>1, Zenon DEF Has
  <2>2. CASE ~(Alive(reg, j) /\ j.kind = kind /\ j.service = s)
    <3>1. Has(reg, c, kind, s)
      BY <1>2, <2>2, Zenon DEF Joined
    <3> QED BY <1>5, <3>1, Zenon DEF Has
  <2> QED BY <2>1, <2>2, Zenon
<1>9. Markers(reg, jobs') /\ Withdrawals(reg, jobs') /\ Sync(reg)
  BY <1>8, Zenon DEF Work, Markers, Withdrawals
<1>10. CASE j \in TypesJobs(reg, jobs)
  <2>1. /\ TypesJobs(reg, jobs) = {j} /\ jobs[j] = 1
        /\ reg.reconcile = IF j.kind = "ReadTypes" THEN "Reading" ELSE "Writing"
    BY <1>10, ChainJob, Zenon DEF StateOK, Work
  <2>2. TypesJobs(reg, c) = {}
    BY <1>2, <2>1, Zenon DEF Joined
  <2>3. Alive(reg, k) /\ k.kind \in TypesKinds
    BY <1>7, <1>10, Zenon DEF TypesJobs
  <2>4. k \notin DOMAIN c
    BY <2>2, <2>3, Zenon DEF TypesJobs
  <2>5. TypesJobs(reg, jobs') = {k}
    BY <1>5, <2>2, <2>3, Zenon DEF TypesJobs
  <2>6. OneJob(reg, jobs', j.kind)
    BY <1>5, <1>6, <2>4, <2>5, Zenon DEF OneJob
  <2>7. reg.pending_types_write = {}
    BY <2>1 DEF Work, Chain
  <2>8. Chain(reg, jobs')
    BY <2>1, <2>3, <2>6, <2>7 DEF Chain, TypesKinds
  <2> QED BY <1>9, <2>8, Zenon DEF Work
<1>11. CASE j \notin TypesJobs(reg, jobs)
  <2>1. ~Alive(reg, j) \/ j.kind \notin TypesKinds
    BY <1>11, Zenon DEF TypesJobs
  <2>2. /\ TypesJobs(reg, c) = TypesJobs(reg, jobs)
        /\ \A kind : OneJob(reg, jobs, kind) => OneJob(reg, c, kind)
    BY <1>2, <2>1, Zenon DEF Joined
  <2>3. ~(Alive(reg, k) /\ k.kind \in TypesKinds)
    BY <1>7, <2>1, Zenon
  <2>4. TypesJobs(reg, jobs') = TypesJobs(reg, c)
    BY <1>5, <2>3, Zenon DEF TypesJobs
  <2>5. \A i \in TypesJobs(reg, c) : i \in DOMAIN jobs' /\ jobs'[i] = c[i]
    BY <1>5, <2>3, Zenon DEF TypesJobs
  <2>6. \A kind : OneJob(reg, jobs, kind) => OneJob(reg, jobs', kind)
    <3>1. \A kind : OneJob(reg, c, kind) => OneJob(reg, jobs', kind)
      BY <2>4, <2>5, Zenon DEF OneJob
    <3> QED BY <2>2, <3>1, Zenon
  <2>7. Chain(reg, jobs')
    BY <2>2, <2>4, <2>6, Zenon DEF Work, Chain
  <2> QED BY <1>9, <2>7, Zenon DEF Work
<1> QED BY <1>10, <1>11, Zenon

\* A reload fails the running jobs: they are still to be joined.
LEMMA RephaseWork ==
  ASSUME StateOK(reg), JobsOK(jobs, reg.generation), Work(reg, jobs)
  PROVE  Work(reg, Rephase(jobs, "running", "err"))
<1> DEFINE c == Rephase(jobs, "running", "err")
           M(k) == IF k.phase = "running" THEN [k EXCEPT !.phase = "err"] ELSE k
<1>0. reg.generation \in Nat /\ "running" \in Phase /\ "err" \in Phase
  BY Zenon DEF StateOK, RegistryState, Phase
<1>1. DOMAIN c = {M(k) : k \in DOMAIN jobs}
  BY Zenon DEF Rephase
<1>2. \A k \in DOMAIN jobs : /\ k \in Job /\ M(k).kind = k.kind /\ M(k).service = k.service
                             /\ Alive(reg, M(k)) <=> Alive(reg, k)
  BY Zenon DEF JobsOK, Job, Alive
<1>3. \A i \in DOMAIN c : i.phase # "err" => i \in DOMAIN jobs /\ c[i] = jobs[i]
  BY <1>0, RephaseKeeps, Zenon
<1>4. \A i \in DOMAIN c : i.phase = "err" => c[i] = Copies(i, jobs) + Copies([i EXCEPT !.phase = "running"], jobs)
  BY Zenon DEF Rephase
<1> HIDE DEF c
<1>5. \A kind, s : Has(reg, jobs, kind, s) => Has(reg, c, kind, s)
  BY <1>1, <1>2, Zenon DEF Has
<1>6. Markers(reg, c) /\ Withdrawals(reg, c) /\ Sync(reg)
  BY <1>5, Zenon DEF Work, Markers, Withdrawals
<1>7. TypesJobs(reg, c) = {M(k) : k \in TypesJobs(reg, jobs)}
  <2> HIDE DEF M
  <2>1. ASSUME NEW i \in TypesJobs(reg, c)
        PROVE  \E k \in TypesJobs(reg, jobs) : i = M(k)
    <3>1. PICK k \in DOMAIN jobs : i = M(k)
      BY <1>1, Zenon DEF TypesJobs
    <3> QED BY <1>2, <3>1, Zenon DEF TypesJobs
  <2>2. ASSUME NEW k \in TypesJobs(reg, jobs)
        PROVE  M(k) \in TypesJobs(reg, c)
    BY <1>1, <1>2, Zenon DEF TypesJobs
  <2> QED BY <2>1, <2>2, Zenon
<1>8. ASSUME NEW kind, OneJob(reg, jobs, kind)
      PROVE  OneJob(reg, c, kind)
  <2>1. PICK k \in DOMAIN jobs : TypesJobs(reg, jobs) = {k} /\ k.kind = kind /\ jobs[k] = 1
    BY <1>8, Zenon DEF OneJob
  <2>2. \A i \in DOMAIN jobs : Alive(reg, i) /\ i.kind \in TypesKinds => i = k
    BY <2>1, Zenon DEF TypesJobs
  <2>3. Alive(reg, k) /\ k.kind \in TypesKinds /\ k \in Job
    BY <1>2, <2>1, Zenon DEF TypesJobs
  <2>4. TypesJobs(reg, c) = {M(k)}
    BY <1>7, <2>1, Zenon
  <2>5. M(k) \in DOMAIN c /\ M(k).kind = kind
    BY <1>1, <1>2, <2>1, Zenon
  <2>6. c[M(k)] = 1
    <3>1. CASE k.phase = "running"
      <4> DEFINE i == [k EXCEPT !.phase = "err"]
      <4>1. /\ i.phase = "err" /\ Alive(reg, i) /\ i.kind = k.kind
            /\ [i EXCEPT !.phase = "running"] = k
        BY <2>3, <3>1, Zenon DEF Job, Alive
      <4>2. M(k) = i
        BY <3>1, Zenon
      <4> HIDE DEF i, M
      <4>3. i \notin DOMAIN jobs
        BY <2>2, <2>3, <3>1, <4>1
      <4>4. c[i] = Copies(i, jobs) + Copies(k, jobs)
        BY <1>4, <2>5, <4>1, <4>2, Zenon
      <4>5. Copies(i, jobs) = 0 /\ Copies(k, jobs) = 1
        BY <2>1, <4>3, Zenon DEF Copies
      <4> QED BY <4>2, <4>4, <4>5
    <3>2. CASE k.phase = "err"
      <4> DEFINE i == [k EXCEPT !.phase = "running"]
      <4>1. i.phase = "running" /\ Alive(reg, i) /\ i.kind = k.kind
        BY <2>3, <3>2, Zenon DEF Job, Alive
      <4>2. M(k) = k
        BY <3>2
      <4>3. c[k] = Copies(k, jobs) + Copies(i, jobs)
        BY <1>4, <2>5, <3>2, <4>2
      <4> HIDE DEF i, M
      <4>4. i \notin DOMAIN jobs
        BY <2>2, <2>3, <3>2, <4>1
      <4>5. Copies(i, jobs) = 0 /\ Copies(k, jobs) = 1
        BY <2>1, <4>4, Zenon DEF Copies
      <4> QED BY <4>2, <4>3, <4>5
    <3>3. CASE k.phase \notin {"running", "err"}
      BY <1>3, <2>1, <2>5, <3>3
    <3> QED BY <3>1, <3>2, <3>3, Zenon
  <2> HIDE DEF M
  <2> QED BY <2>4, <2>5, <2>6, Zenon DEF OneJob
<1>9. Chain(reg, c)
  <2>1. TypesJobs(reg, jobs) = {} => TypesJobs(reg, c) = {}
    BY <1>7
  <2> QED BY <1>8, <2>1, Zenon DEF Work, Chain
<1> QED BY <1>6, <1>9, Zenon DEF Work, c

\* A timer that runs out is still set.
LEMMA ElapseWork ==
  ASSUME StateOK(reg), Work(reg, jobs), NEW f \in TimerField, NEW s \in Service, Elapse(f, s)
  PROVE  Work(reg', jobs')
<1>1. /\ SameWork(reg, reg') /\ jobs' = jobs
      /\ reg'.bootstrapped = reg.bootstrapped /\ reg'.reconcile_dirty = reg.reconcile_dirty
      /\ reg'.next_types_sync = reg.next_types_sync
      /\ reg'.backend_ready = reg.backend_ready /\ reg'.announced = reg.announced
      /\ reg'.relay_withdraw = reg.relay_withdraw
  BY Zenon DEF Elapse, TimerField, StateOK, RegistryState, SameWork
<1>2. \A x \in Service : reg'.withdraw_deadline[x] \in {reg.withdraw_deadline[x], "due"}
  BY Zenon DEF Elapse, TimerField, StateOK, RegistryState
<1>3. Markers(reg', jobs) /\ Chain(reg', jobs)
      /\ \A x : Has(reg, jobs, "Withdraw", x) => Has(reg', jobs, "Withdraw", x)
  BY <1>1, SameWorkKeeps, Zenon DEF Work
<1>4. reg.announced \subseteq Service
  BY Zenon DEF StateOK, RegistryState
<1>5. \A x \in reg.announced : reg.withdraw_deadline[x] # "unset" => reg'.withdraw_deadline[x] # "unset"
  BY <1>2, <1>4, Zenon
<1>6. Withdrawals(reg', jobs)
  BY <1>1, <1>3, <1>5, Zenon DEF Work, Withdrawals
<1>7. Sync(reg')
  BY <1>1, Zenon DEF Work, Sync, SameWork
<1> QED BY <1>1, <1>3, <1>6, <1>7, Zenon DEF Work

LEMMA ElapseSyncWork ==
  ASSUME StateOK(reg), Work(reg, jobs), ElapseSync
  PROVE  Work(reg', jobs')
<1>1. /\ SameWork(reg, reg') /\ jobs' = jobs
      /\ reg'.next_types_sync = "due"
      /\ reg'.backend_ready = reg.backend_ready /\ reg'.announced = reg.announced
      /\ reg'.relay_withdraw = reg.relay_withdraw
      /\ reg'.withdraw_deadline = reg.withdraw_deadline
  BY Zenon DEF ElapseSync, StateOK, RegistryState, SameWork
<1>2. Markers(reg', jobs) /\ Chain(reg', jobs)
      /\ \A x : Has(reg, jobs, "Withdraw", x) => Has(reg', jobs, "Withdraw", x)
  BY <1>1, SameWorkKeeps, Zenon DEF Work
<1>3. Withdrawals(reg', jobs)
  BY <1>1, <1>2, Zenon DEF Work, Withdrawals
<1>4. Sync(reg')
  BY <1>1, Zenon DEF Sync
<1> QED BY <1>1, <1>2, <1>3, <1>4, Zenon DEF Work

-----------------------------------------------------------------------------
(* The theorems                                                            *)

\* What a turn of the actor starts from and leaves.
AllWork(r, b) == Work(r, b) /\ Fits(b)

LEMMA PumpAllWork ==
  ASSUME NEW r, StateOK(r), NEW b, JobsOK(b, r.generation), Pump({r}, b), AllWork(r, b)
  PROVE  AllWork(reg', jobs')
<1>1. \A v, w \in r.pending_types_write : v = w
  BY DEF AllWork, Work, Chain
<1>2. Work(r, b) /\ Fits(b)
  BY Zenon DEF AllWork
<1> QED BY <1>1, <1>2, PumpWork, PumpFits, Zenon DEF AllWork

WorkInv == AllWork(reg, jobs)

LEMMA WorkStep == TypeOK /\ WorkInv /\ [Next]_vars => WorkInv'
<1> SUFFICES ASSUME TypeOK, WorkInv, [Next]_vars PROVE AllWork(reg', jobs')
  BY Zenon DEF WorkInv
<1>0. /\ StateOK(reg) /\ JobsOK(jobs, reg.generation) /\ reg.generation \in Nat
      /\ Work(reg, jobs) /\ Fits(jobs) /\ reg \in RegistryState
  BY Zenon DEF TypeOK, WorkInv, AllWork, StateOK, RegistryState
<1>1. ASSUME NEW q, StateOK(q), q.generation = reg.generation, Work(q, jobs), Pump({q}, jobs)
      PROVE  AllWork(reg', jobs')
  BY <1>0, <1>1, PumpAllWork, Zenon DEF AllWork
<1>2. CASE BootstrapCompleted
  BY <1>0, <1>1, <1>2, HandleOK, HandleWork, Zenon DEF Handled, BootstrapCompleted
<1>3. CASE Tick
  BY <1>0, <1>1, <1>3, Zenon DEF Tick
<1>4. CASE Reannounce
  BY <1>0, <1>1, <1>4, HandleOK, HandleWork, Zenon DEF Handled, Reannounce
<1>5. CASE RefreshTypes
  BY <1>0, <1>1, <1>5, HandleOK, HandleWork, Zenon DEF Handled, RefreshTypes
<1>6. ASSUME NEW need \in BOOLEAN, NEW active \in 0..MaxRelays, RelayStateChanged(need, active)
      PROVE  AllWork(reg', jobs')
  <2>1. active \in Nat
    BY BoundAssumption
  <2> QED BY <1>0, <1>1, <1>6, <2>1, HandleOK, HandleWork, Zenon DEF Handled, RelayStateChanged
<1>7. CASE Reset
  <2>1. JobsOK(AbortAll(jobs), reg.generation)
    BY <1>0, RephaseFacts, Zenon DEF Phase, AbortAll
  <2>2. JobsOK(AbortAll(jobs), reg.generation + 1)
    BY <1>0, <2>1, JobsOfTheNext, Zenon
  <2>3. Work(HandleReset(reg), AbortAll(jobs))
    BY <1>0, <2>1, ResetWork, Zenon
  <2>6. Fits(AbortAll(jobs))
    BY <1>0, AbortFits, Zenon
  <2>4. StateOK(HandleReset(reg)) /\ HandleReset(reg).generation = reg.generation + 1
    BY <1>0, HandleOK, Zenon DEF Handled
  <2>5. Pump({HandleReset(reg)}, AbortAll(jobs))
    BY <1>7, Zenon DEF Reset
  <2> QED BY <2>2, <2>3, <2>4, <2>5, <2>6, PumpAllWork, Zenon DEF AllWork
<1>8. ASSUME NEW ready \in SUBSET Service, ReadinessChanged(ready)
      PROVE  AllWork(reg', jobs')
  BY <1>0, <1>1, <1>8, HandleOK, HandleWork, Zenon DEF Handled, ReadinessChanged
<1>9. ASSUME NEW j \in DOMAIN jobs, JobStep(j)
      PROVE  AllWork(reg', jobs')
  <2>0. j \in Job
    BY <1>0, Zenon DEF JobsOK
  <2>1. ASSUME j.phase # "cancelled", reg' = reg,
               NEW phase \in {"running", "ok", "err"}, NEW types \in SUBSET TypeName,
               Advance(j, [j EXCEPT !.phase = phase, !.types = types])
        PROVE  AllWork(reg', jobs')
    <3> DEFINE k == [j EXCEPT !.phase = phase, !.types = types]
    <3>1. /\ k.kind = j.kind /\ k.generation = j.generation /\ k.service = j.service
          /\ k.phase = phase
      BY <2>0, Zenon DEF Job
    <3>2. k.phase # "cancelled" /\ Advance(j, k)
      BY <2>1, <3>1
    <3> HIDE DEF k
    <3>3. Work(reg, jobs')
      BY <1>0, <2>1, <3>1, <3>2, AdvanceWork, Zenon
    <3>4. Fits(jobs')
      BY <1>0, <3>2, AdvanceFits, Zenon
    <3> QED BY <2>1, <3>3, <3>4, Zenon DEF AllWork
  <2>2. CASE Execute(j)
    <3>1. \E phase \in {"running", "ok", "err"} : Advance(j, [j EXCEPT !.phase = phase, !.types = j.types])
      BY <2>0, <2>2, Zenon DEF Execute, Job
    <3> QED BY <2>0, <2>1, <2>2, <3>1, Zenon DEF Execute, Job
  <2>3. CASE Refuse(j) \/ Fail(j)
    <3>1. Advance(j, [j EXCEPT !.phase = "err", !.types = j.types])
      BY <2>0, <2>3, Zenon DEF Refuse, Fail, Job
    <3>2. j.phase # "cancelled" /\ reg' = reg /\ j.types \in SUBSET TypeName
      BY <2>0, <2>3, Zenon DEF Refuse, Fail, Job
    <3> QED BY <2>1, <3>1, <3>2, Zenon
  <2>4. CASE Succeed(j)
    <3>1. PICK types \in SUBSET TypeName : Advance(j, [j EXCEPT !.phase = "ok", !.types = types])
      BY <2>0, <2>4, Zenon DEF Succeed, ReadableTypes, Job
    <3>2. j.phase # "cancelled" /\ reg' = reg
      BY <2>4, Zenon DEF Succeed
    <3> QED BY <2>1, <3>1, <3>2, Zenon
  <2>5. CASE Join(j)
    <3>1. PICK q \in apply(reg, j) : Pump({q}, Without(jobs, j))
      BY <2>5, Zenon DEF Join, Pump
    <3>2. Finished(j, reg.generation)
      BY <1>0, <2>5, Zenon DEF Join, Finished, JobsOK
    <3>3. StateOK(q) /\ q.generation = reg.generation
      BY <1>0, <3>2, ApplyOK, Zenon DEF Handled
    <3>4. Work(q, Without(jobs, j))
      BY <1>0, <3>2, ApplyWork, Zenon
    <3>5. JobsOK(Without(jobs, j), q.generation)
      BY <1>0, <3>3, RemoveFacts, Zenon DEF JobsOK
    <3>6. Fits(Without(jobs, j))
      BY <1>0, RemoveFits, Zenon
    <3> QED BY <3>1, <3>3, <3>4, <3>5, <3>6, PumpAllWork, Zenon DEF AllWork
  <2> QED BY <1>9, <2>2, <2>3, <2>4, <2>5, Zenon DEF JobStep
<1>10. CASE SwarmReload
  <2>1. Fits(Rephase(jobs, "running", "err"))
    BY <1>0, RephaseFits, Zenon DEF Phase
  <2>2. Work(reg, Rephase(jobs, "running", "err"))
    BY <1>0, RephaseWork, Zenon
  <2> QED BY <1>10, <2>1, <2>2, Zenon DEF SwarmReload, AllWork
<1>11. ASSUME NEW f \in TimerField, NEW s \in Service, Elapse(f, s)
       PROVE  AllWork(reg', jobs')
  BY <1>0, <1>11, ElapseWork, Zenon DEF Elapse, AllWork
<1>12. CASE ElapseSync
  BY <1>0, <1>12, ElapseSyncWork, Zenon DEF ElapseSync, AllWork
<1>13. CASE UNCHANGED vars
  BY <1>0, <1>13, Zenon DEF vars, AllWork
<1> QED BY <1>2, <1>3, <1>4, <1>5, <1>6, <1>7, <1>8, <1>9, <1>10, <1>11, <1>12, <1>13, ZenonT(60)
        DEF Next, Command

LEMMA WorkInvHolds == Spec => [](TypeOK /\ WorkInv)
<1>1. Init => WorkInv
  <2> SUFFICES ASSUME Init PROVE Work(reg, jobs) /\ Fits(jobs)
    BY Zenon DEF WorkInv, AllWork
  <2>1. PICK ready : reg = NewState(ready)
    BY Zenon DEF Init
  <2>2. /\ reg.announced = {} /\ reg.announce_inflight = {} /\ reg.withdraw_inflight = {}
        /\ reg.bootstrapped = FALSE /\ reg.reconcile = "Idle" /\ reg.pending_types_write = {}
    BY <2>1, Zenon DEF NewState
  <2>3. TypesJobs(reg, jobs) = {}
    BY Zenon DEF Init, NoJobs, TypesJobs
  <2>4. Tasks(jobs) = {}
    BY Zenon DEF Init, NoJobs, Tasks
  <2>5. Fits(jobs)
    BY <2>4, FS_EmptySet, BoundAssumption DEF Fits
  <2> QED BY <2>2, <2>3, <2>5, Zenon DEF Work, Markers, Withdrawals, Sync, Chain
<1> QED BY <1>1, WorkStep, TypeCorrect, PTL DEF Spec

(***************************************************************************)
(* However commands, late results, failures, flapping backends and reloads *)
(* interleave, an announced service whose backend is down has its          *)
(* withdrawal under way, and an idle reconcile chain its next run.         *)
(***************************************************************************)
THEOREM WorkSafe == Spec => []WorkIsScheduled
<1>1. TypeOK /\ WorkInv => WorkIsScheduled
  BY WorkIsScheduledAndMatched, Zenon DEF WorkInv, AllWork
<1> QED BY <1>1, WorkInvHolds, PTL

(***************************************************************************)
(* No in-flight marker of apply() and plan() is ever without a job that    *)
(* will still report, so no service is blocked for ever; the reconcile     *)
(* chain is single-flight: a reload, a late result or a dirty rerun never  *)
(* starts a second types job or forgets the first; and pump() never has    *)
(* more than max_inflight_dht tasks in the JoinSet, aborted ones included. *)
(***************************************************************************)
THEOREM JobsSafe == Spec => []JobsMatchMarkers
<1>1. TypeOK /\ WorkInv => MarkersHaveJobs /\ ReconcileSingleFlight
  BY WorkIsScheduledAndMatched, Zenon DEF WorkInv, AllWork
<1>2. WorkInv => InflightBound
  BY Zenon DEF WorkInv, AllWork, Fits, InflightBound
<1>3. TypeOK /\ WorkInv => JobsMatchMarkers
  BY <1>1, <1>2, Zenon DEF JobsMatchMarkers
<1> QED BY <1>3, WorkInvHolds, PTL
=============================================================================
