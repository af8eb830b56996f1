-------------------------- MODULE InboundPipeline --------------------------
(***************************************************************************)
(* The way of an inbound service request through the node: enqueue_auth of *)
(* the controller, the auth workers of node_controller.rs with their       *)
(* queues, then the dispatcher and its backends (ServiceDispatcher).  What *)
(* the gate decides is open (AuthGate).                                    *)
(***************************************************************************)
EXTENDS ServiceDispatcher

CONSTANTS
    AuthWorkers,        \* AUTH_WORKERS
    AuthQueueCapacity   \* AUTH_QUEUE_CAPACITY

ASSUME PipelineAssumption == {AuthWorkers, AuthQueueCapacity} \subseteq Nat \ {0}

Worker == 0..(AuthWorkers - 1)

VARIABLES
    auth_next,     \* index of the worker whose turn it is
    auth_queue,    \* the queue of each worker
    auth_worker,   \* what each worker is doing
    progress       \* the requests, up to the dispatcher and after their answer

authVars == <<auth_next, auth_queue, auth_worker, progress>>
pipelineVars == <<vars, authVars>>

\* A worker is "idle", "authorizing" or "forwarding".
IdleWorker == [pc |-> "idle", request |-> None]

-----------------------------------------------------------------------------

\* The next worker in turn gets the request, or nobody if its queue is full.
enqueue_auth(r) ==
    /\ controller /\ progress[r] = "new"
    /\ auth_next' = (auth_next + 1) % AuthWorkers
    /\ IF Len(auth_queue[auth_next]) < AuthQueueCapacity
       THEN /\ auth_queue' = [auth_queue EXCEPT ![auth_next] = Append(@, r)]
            /\ progress' = [progress EXCEPT ![r] = "queued"]
       ELSE /\ progress' = [progress EXCEPT ![r] = "error"]
            /\ UNCHANGED auth_queue
    /\ UNCHANGED <<vars, auth_worker>>

\* A worker takes what is in its queue, also after the controller has dropped
\* the other end, if the process is still there.
TakeJob(w) ==
    /\ auth_worker[w].pc = "idle" /\ auth_queue[w] # <<>>
    /\ auth_worker' = [auth_worker EXCEPT ![w] = [pc |-> "authorizing", request |-> Head(auth_queue[w])]]
    /\ auth_queue' = [auth_queue EXCEPT ![w] = Tail(@)]
    /\ UNCHANGED <<vars, auth_next, progress>>

\* AuthGate::authorize returns Allow or AllowUnprotected, or Deny.
Authorized(w) ==
    /\ auth_worker[w].pc = "authorizing"
    /\ \/ /\ auth_worker' = [auth_worker EXCEPT ![w].pc = "forwarding"]
          /\ progress' = [progress EXCEPT ![auth_worker[w].request] = "authorized"]
       \/ /\ auth_worker' = [auth_worker EXCEPT ![w] = IdleWorker]
          /\ progress' = [progress EXCEPT ![auth_worker[w].request] = "error"]
    /\ UNCHANGED <<vars, auth_next, auth_queue>>

\* A request that the last step answered succeeded if a backend replied.
Observe(by_reply) ==
    progress' = [r \in Request |-> IF job[r].place # "answered" /\ job'[r].place = "answered"
                                   THEN IF by_reply THEN "ok" ELSE "error"
                                   ELSE progress[r]]

\* The send to the dispatcher waits for room, and fails once it is gone.
forward_auth_job(w, s) ==
    /\ auth_worker[w].pc = "forwarding"
    /\ Submit(auth_worker[w].request, s)
    /\ Observe(FALSE)
    /\ auth_worker' = [auth_worker EXCEPT ![w] = IdleWorker]
    /\ UNCHANGED <<auth_next, auth_queue>>

-----------------------------------------------------------------------------

PipelineInit ==
    /\ Init
    /\ auth_next = 0
    /\ auth_queue = [w \in Worker |-> <<>>]
    /\ auth_worker = [w \in Worker |-> IdleWorker]
    /\ progress = [r \in Request |-> "new"]

DispatcherStep ==
    \/ RouterStep \/ ControllerStep \/ Shutdown
    \/ \E c \in Command : TaskStep(c)
    \/ \E s \in Service :
          \/ BackendStep(s)
          \/ Disconnect(s)
          \/ \E c \in Command, kind \in Kinds, t \in Service : ReadControl(s, c, kind, t)

PipelineNext ==
    \/ \E r \in Request : enqueue_auth(r)
    \/ \E w \in Worker : TakeJob(w) \/ Authorized(w) \/ \E s \in Service \cup {None} : forward_auth_job(w, s)
    \/ DispatcherStep /\ Observe(FALSE) /\ UNCHANGED <<auth_next, auth_queue, auth_worker>>
    \/ /\ \E s \in Service, j \in Job : ReadReply(s, j)
       /\ Observe(TRUE) /\ UNCHANGED <<auth_next, auth_queue, auth_worker>>

\* The gate always decides, since the reads of its cache end (DhtCache); a
\* worker whose send to the dispatcher stays possible makes it.
PipelineFairness ==
    /\ Fairness
    /\ \A w \in Worker :
          /\ WF_pipelineVars(controller /\ (TakeJob(w) \/ Authorized(w)))
          /\ WF_pipelineVars(controller /\ \E s \in Service \cup {None} : forward_auth_job(w, s))

PipelineSpec == PipelineInit /\ [][PipelineNext]_pipelineVars /\ PipelineFairness

-----------------------------------------------------------------------------

\* What InboundService knows of a request.
Stage(r) ==
    CASE progress[r] = "queued" -> "accepted"
      [] progress[r] = "authorized" /\ job[r].place = "pending" -> "delivered"
      [] OTHER -> progress[r]

Promise == INSTANCE InboundService WITH request <- [r \in Request |-> Stage(r)], closing <- shutdown

(***************************************************************************)
(* The controller, the auth workers, the router and the backend tasks      *)
(* together keep the promise of InboundService: a request is delivered to  *)
(* a backend at most once and never unauthorized, it succeeds only by the  *)
(* reply of the backend, and it is always answered, with full queues and   *)
(* lost connections on its way, unless the node shuts down before.         *)
(***************************************************************************)
InboundServed == Promise!Spec

=============================================================================
