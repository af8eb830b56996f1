------------------------- MODULE ServiceDispatcher -------------------------
(***************************************************************************)
(* The router and the backend tasks of src/src/service_dispatcher.rs.      *)
(*                                                                         *)
(* One router task moves inbound requests and backend events; one task per *)
(* local service owns the TCP connection to its backend; a short task is   *)
(* spawned for every control command that waits for an answer.  They share *)
(* bounded channels only, and a step below is what one of them does from   *)
(* one await to the next.  Payloads, ids and error texts are left out, and *)
(* so is the length of the backoff.                                        *)
(***************************************************************************)
EXTENDS Naturals, Sequences, FiniteSets

CONSTANTS
    Service,             \* local_services with a valid name
    Request,             \* bound: inbound requests, each made once
    Command,             \* bound: frames the backends send, replies apart
    Kinds,               \* the kinds of these frames, see CommandState
    InboundCapacity,     \* to_dispatcher
    BackendCapacity,     \* BACKEND_QUEUE_CAPACITY
    EventCapacity,       \* EVENT_QUEUE_CAPACITY
    ControllerCapacity   \* to_controller

None == "none"

ASSUME DispatcherAssumption ==
    /\ Request \cap Command = {} /\ None \notin Service \cup Command
    /\ Kinds \subseteq {"service_request", "service_request_to_self", "other", "hello"}
    /\ {InboundCapacity, BackendCapacity, EventCapacity, ControllerCapacity} \subseteq Nat \ {0}

VARIABLES
    inbound,         \* queue of requests to the router
    events,          \* queue of backend events to the router
    to_controller,   \* queue of commands to the controller
    queue,           \* queue of each backend task
    router,
    backend,         \* the backend tasks
    job,             \* the requests: inbound ones, and those made for a local command
    command,
    backend_ready,
    controller,      \* FALSE once the controller has returned
    shutdown

vars == <<inbound, events, to_controller, queue, router, backend, job, command,
          backend_ready, controller, shutdown>>

Job == Request \cup Command

\* Where a request is, with the service that it names: None has no backend.
JobState == [place : {"new", "inbound", "queued", "pending", "answered"}, service : Service \cup {None}]

(***************************************************************************)
(* Where a command is: with the backend task ("reading"), in the event     *)
(* queue, with the router that waits for the controller ("relaying"), with *)
(* the controller, with the spawned task ("local" before, "awaiting" after *)
(* the request to the local backend, "replying" while its reply waits for  *)
(* room), in the origin's queue ("reply_queued"), or settled.              *)
(***************************************************************************)
Settled == {"answered", "lost", "dropped", "ignored"}
CommandState ==
    [place : {"new", "reading", "event", "relaying", "controller", "local", "awaiting",
              "replying", "reply_queued"} \cup Settled,
     kind : Kinds \cup {None}, origin : Service \cup {None}, target : Service \cup {None}]

BackendCmd == [kind : {"request"}, id : Job] \cup [kind : {"reply"}, id : Command]
BackendEvent == [kind : {"up", "down", "control"}, service : Service, command : Command \cup {None}]

Connected == {"serving", "sending_control", "announcing_down"}
BackendState ==
    [pc : {"connecting", "handshaking", "announcing_up", "backoff", "exited"} \cup Connected,
     command : Command \cup {None}]

At(pc) == [pc |-> pc, command |-> None]

-----------------------------------------------------------------------------
(* Channels and answers                                                    *)

\* try_send to a backend task fails when its queue is full or closed.
Accepts(s) == backend[s].pc # "exited" /\ Len(queue[s]) < BackendCapacity

\* send on the event channel waits for room; it fails once the router is gone.
EventSent(event) ==
    \/ /\ router.pc # "exited" /\ Len(events) < EventCapacity
       /\ events' = Append(events, event)
    \/ router.pc = "exited" /\ UNCHANGED events

\* The oneshot of these requests is used, or dropped, which its waiter sees.
Answered(J) == [j \in Job |-> IF j \in J THEN [job[j] EXCEPT !.place = "answered"] ELSE job[j]]

Pending(s) == {j \in Job : job[j].place = "pending" /\ job[j].service = s}
Queued(s, kind) == {queue[s][i].id : i \in {n \in DOMAIN queue[s] : queue[s][n].kind = kind}}

Moved(C, place) ==
    [c \in Command |-> IF c \in C THEN [command[c] EXCEPT !.place = place] ELSE command[c]]

\* A WriteReply by try_send: lost without a trace when there is no room.
TryReply(c) ==
    LET s == command[c].origin
    IN  IF Accepts(s)
        THEN /\ queue' = [queue EXCEPT ![s] = Append(@, [kind |-> "reply", id |-> c])]
             /\ command' = Moved({c}, "reply_queued")
        ELSE /\ command' = Moved({c}, IF backend[s].pc = "exited" THEN "lost" ELSE "dropped")
             /\ UNCHANGED queue

-----------------------------------------------------------------------------
(* The router                                                              *)

\* forward_auth_job: an auth worker hands over a request once there is room.
Submit(r, s) ==
    /\ job[r].place = "new"
    /\ \/ /\ router.pc # "exited" /\ Len(inbound) < InboundCapacity
          /\ inbound' = Append(inbound, r)
          /\ job' = [job EXCEPT ![r] = [place |-> "inbound", service |-> s]]
       \/ /\ router.pc = "exited"
          /\ job' = [job EXCEPT ![r] = [place |-> "answered", service |-> s]]
          /\ UNCHANGED inbound
    /\ UNCHANGED <<events, to_controller, queue, router, backend, command, backend_ready,
                   controller, shutdown>>

RouteInbound ==
    /\ router.pc = "select" /\ inbound # <<>>
    /\ LET r == Head(inbound)
           s == job[r].service
       IN  IF s # None /\ Accepts(s)
           THEN /\ queue' = [queue EXCEPT ![s] = Append(@, [kind |-> "request", id |-> r])]
                /\ job' = [job EXCEPT ![r].place = "queued"]
           ELSE job' = Answered({r}) /\ UNCHANGED queue
    /\ inbound' = Tail(inbound)
    /\ UNCHANGED <<events, to_controller, router, backend, command, backend_ready,
                   controller, shutdown>>

\* The watch channel always holds backend_ready.
RouteStatus ==
    /\ router.pc = "select" /\ events # <<>> /\ Head(events).kind # "control"
    /\ backend_ready' = IF Head(events).kind = "up" THEN backend_ready \cup {Head(events).service}
                        ELSE backend_ready \ {Head(events).service}
    /\ events' = Tail(events)
    /\ UNCHANGED <<inbound, to_controller, queue, router, backend, job, command, controller, shutdown>>

\* forward_control, up to where it waits for the controller.
RouteControl ==
    /\ router.pc = "select" /\ events # <<>> /\ Head(events).kind = "control"
    /\ \E c \in {Head(events).command} :
          LET ready == command[c].target \in backend_ready
              kind == command[c].kind
          IN  \/ /\ kind = "hello"
                 /\ command' = Moved({c}, "ignored")
                 /\ UNCHANGED <<queue, router>>
              \/ /\ kind \in {"service_request", "service_request_to_self"} /\ ready
                 /\ command' = Moved({c}, "local")
                 /\ UNCHANGED <<queue, router>>
              \/ /\ kind = "service_request_to_self" /\ ~ready
                 /\ TryReply(c)
                 /\ UNCHANGED router
              \/ /\ kind = "other" \/ (kind = "service_request" /\ ~ready)
                 /\ router' = [pc |-> "relaying", command |-> c]
                 /\ command' = Moved({c}, "relaying")
                 /\ UNCHANGED queue
    /\ events' = Tail(events)
    /\ UNCHANGED <<inbound, to_controller, backend, job, backend_ready, controller, shutdown>>

\* The send to the controller ends; a spawned task waits for the answer.
Relay ==
    /\ router.pc = "relaying"
    /\ \/ /\ controller /\ Len(to_controller) < ControllerCapacity
          /\ to_controller' = Append(to_controller, router.command)
          /\ command' = Moved({router.command}, "controller")
          /\ UNCHANGED queue
       \/ /\ ~controller
          /\ TryReply(router.command)
          /\ UNCHANGED to_controller
    /\ router' = At("select")
    /\ UNCHANGED <<inbound, events, backend, job, backend_ready, controller, shutdown>>

\* run returns: both receivers are dropped with what they hold.
RouterExit ==
    /\ router.pc = "select" /\ shutdown
    /\ router' = At("exited")
    /\ inbound' = <<>>
    /\ job' = Answered({inbound[i] : i \in DOMAIN inbound})
    /\ events' = <<>>
    /\ command' = Moved({events[i].command : i \in DOMAIN events} \ {None}, "lost")
    /\ UNCHANGED <<to_controller, queue, backend, backend_ready, controller, shutdown>>

-----------------------------------------------------------------------------
(* The tasks spawned for a command, and the controller                     *)

\* forward_local: the request to the local backend.
ForwardLocal(c) ==
    /\ command[c].place = "local"
    /\ LET t == command[c].target
       IN  IF Accepts(t)
           THEN /\ queue' = [queue EXCEPT ![t] = Append(@, [kind |-> "request", id |-> c])]
                /\ job' = [job EXCEPT ![c] = [place |-> "queued", service |-> t]]
                /\ command' = Moved({c}, "awaiting")
           ELSE command' = Moved({c}, "replying") /\ UNCHANGED <<queue, job>>
    /\ UNCHANGED <<inbound, events, to_controller, router, backend, backend_ready,
                   controller, shutdown>>

\* The local answer arrives, or REQUEST_TIMEOUT elapses first.
LocalOutcome(c) ==
    /\ command[c].place = "awaiting"
    /\ command' = Moved({c}, "replying")
    /\ UNCHANGED <<inbound, events, to_controller, queue, router, backend, job, backend_ready,
                   controller, shutdown>>

\* The controller answers or drops the command, or command_timeout elapses.
RemoteOutcome(c) ==
    /\ command[c].place = "controller"
    /\ command' = Moved({c}, "replying")
    /\ UNCHANGED <<inbound, events, to_controller, queue, router, backend, job, backend_ready,
                   controller, shutdown>>

\* The spawned task sends its reply once the origin's queue has room.
SendReply(c) ==
    LET s == command[c].origin
    IN  /\ command[c].place = "replying"
        /\ \/ /\ Accepts(s)
              /\ queue' = [queue EXCEPT ![s] = Append(@, [kind |-> "reply", id |-> c])]
              /\ command' = Moved({c}, "reply_queued")
           \/ /\ backend[s].pc = "exited"
              /\ command' = Moved({c}, "lost")
              /\ UNCHANGED queue
        /\ UNCHANGED <<inbound, events, to_controller, router, backend, job, backend_ready,
                       controller, shutdown>>

\* NodeController::run takes a command from its queue, even one timed out.
ControllerReceive ==
    /\ controller /\ to_controller # <<>>
    /\ to_controller' = Tail(to_controller)
    /\ UNCHANGED <<inbound, events, queue, router, backend, job, command, backend_ready,
                   controller, shutdown>>

\* NodeController::run returns, and main with it: the process ends and takes
\* the other tasks along, which may or may not get to another step before.
ControllerExit ==
    /\ controller /\ shutdown
    /\ controller' = FALSE
    /\ to_controller' = <<>>
    /\ UNCHANGED <<inbound, events, queue, router, backend, job, command, backend_ready, shutdown>>

Shutdown ==
    /\ ~shutdown
    /\ shutdown' = TRUE
    /\ UNCHANGED <<inbound, events, to_controller, queue, router, backend, job, command,
                   backend_ready, controller>>

-----------------------------------------------------------------------------
(* backend_task                                                            *)

Connect(s) ==
    /\ backend[s].pc = "connecting"
    /\ \E pc \in {"handshaking", "backoff"} : backend' = [backend EXCEPT ![s] = At(pc)]
    /\ UNCHANGED <<inbound, events, to_controller, queue, router, job, command, backend_ready,
                   controller, shutdown>>

\* handshake: the peer's hello arrives, or something else, or the stream ends.
Handshake(s) ==
    /\ backend[s].pc = "handshaking"
    /\ \E pc \in {"announcing_up", "backoff"} : backend' = [backend EXCEPT ![s] = At(pc)]
    /\ UNCHANGED <<inbound, events, to_controller, queue, router, job, command, backend_ready,
                   controller, shutdown>>

\* The mutant serves without telling the router.
ServeQuietly(s) ==
    /\ backend[s].pc = "announcing_up"
    /\ backend' = [backend EXCEPT ![s] = At("serving")]
    /\ UNCHANGED <<inbound, events, to_controller, queue, router, job, command, backend_ready,
                   controller, shutdown>>

AnnounceUp(s) ==
    /\ backend[s].pc = "announcing_up"
    /\ EventSent([kind |-> "up", service |-> s, command |-> None])
    /\ backend' = [backend EXCEPT ![s] = At("serving")]
    /\ UNCHANGED <<inbound, to_controller, queue, router, job, command, backend_ready,
                   controller, shutdown>>

\* A reply frame whose id is pending.
ReadReply(s, j) ==
    /\ backend[s].pc = "serving" /\ j \in Pending(s)
    /\ job' = Answered({j})
    /\ UNCHANGED <<inbound, events, to_controller, queue, router, backend, command, backend_ready,
                   controller, shutdown>>

\* Any other frame is sent on to the router, and the task waits for room.
ReadControl(s, c, kind, t) ==
    /\ backend[s].pc = "serving" /\ command[c].place = "new"
    /\ command' = [command EXCEPT ![c] = [place |-> "reading", kind |-> kind, origin |-> s, target |-> t]]
    /\ backend' = [backend EXCEPT ![s] = [pc |-> "sending_control", command |-> c]]
    /\ UNCHANGED <<inbound, events, to_controller, queue, router, job, backend_ready,
                   controller, shutdown>>

SendControl(s) ==
    /\ backend[s].pc = "sending_control"
    /\ EventSent([kind |-> "control", service |-> s, command |-> backend[s].command])
    /\ command' = Moved({backend[s].command}, IF router.pc = "exited" THEN "lost" ELSE "event")
    /\ backend' = [backend EXCEPT ![s] = At("serving")]
    /\ UNCHANGED <<inbound, to_controller, queue, router, job, backend_ready, controller, shutdown>>

\* A request or a reply is written to the connection, once there is room.
Write(s) ==
    /\ backend[s].pc = "serving" /\ queue[s] # <<>>
    /\ IF Head(queue[s]).kind = "request"
       THEN job' = [job EXCEPT ![Head(queue[s]).id].place = "pending"] /\ UNCHANGED command
       ELSE command' = Moved({Head(queue[s]).id}, "answered") /\ UNCHANGED job
    /\ queue' = [queue EXCEPT ![s] = Tail(@)]
    /\ UNCHANGED <<inbound, events, to_controller, router, backend, backend_ready,
                   controller, shutdown>>

\* The write fails: the loop ends and what is pending fails.
WriteFails(s) ==
    /\ backend[s].pc = "serving" /\ queue[s] # <<>>
    /\ IF Head(queue[s]).kind = "request"
       THEN job' = Answered(Pending(s) \cup {Head(queue[s]).id}) /\ UNCHANGED command
       ELSE command' = Moved({Head(queue[s]).id}, "lost") /\ job' = Answered(Pending(s))
    /\ queue' = [queue EXCEPT ![s] = Tail(@)]
    /\ backend' = [backend EXCEPT ![s] = At("announcing_down")]
    /\ UNCHANGED <<inbound, events, to_controller, router, backend_ready, controller, shutdown>>

\* The mutant leaves the pending requests to the next connection.
DisconnectKeepsPending(s) ==
    /\ backend[s].pc = "serving"
    /\ backend' = [backend EXCEPT ![s] = At("announcing_down")]
    /\ UNCHANGED <<inbound, events, to_controller, queue, router, job, command, backend_ready,
                   controller, shutdown>>

\* The connection ends or a frame cannot be read.
Disconnect(s) ==
    /\ backend[s].pc = "serving"
    /\ job' = Answered(Pending(s))
    /\ backend' = [backend EXCEPT ![s] = At("announcing_down")]
    /\ UNCHANGED <<inbound, events, to_controller, queue, router, command, backend_ready,
                   controller, shutdown>>

\* The mutant gives up on the event when there is no room for it.
AnnounceDownIfRoom(s) ==
    /\ backend[s].pc = "announcing_down"
    /\ events' = IF router.pc # "exited" /\ Len(events) < EventCapacity
                 THEN Append(events, [kind |-> "down", service |-> s, command |-> None])
                 ELSE events
    /\ backend' = [backend EXCEPT ![s] = At("backoff")]
    /\ UNCHANGED <<inbound, to_controller, queue, router, job, command, backend_ready,
                   controller, shutdown>>

AnnounceDown(s) ==
    /\ backend[s].pc = "announcing_down"
    /\ EventSent([kind |-> "down", service |-> s, command |-> None])
    /\ backend' = [backend EXCEPT ![s] = At("backoff")]
    /\ UNCHANGED <<inbound, to_controller, queue, router, job, command, backend_ready,
                   controller, shutdown>>

\* The mutant sleeps without looking at the queue.
RejectNothing(s) ==
    /\ backend[s].pc = "backoff" /\ queue[s] # <<>>
    /\ UNCHANGED vars

\* wait_backoff: requests are refused and replies discarded meanwhile.
Reject(s) ==
    /\ backend[s].pc = "backoff" /\ queue[s] # <<>>
    /\ IF Head(queue[s]).kind = "request"
       THEN job' = Answered({Head(queue[s]).id}) /\ UNCHANGED command
       ELSE command' = Moved({Head(queue[s]).id}, "lost") /\ UNCHANGED job
    /\ queue' = [queue EXCEPT ![s] = Tail(@)]
    /\ UNCHANGED <<inbound, events, to_controller, router, backend, backend_ready,
                   controller, shutdown>>

BackoffElapsed(s) ==
    /\ backend[s].pc = "backoff"
    /\ backend' = [backend EXCEPT ![s] = At("connecting")]
    /\ UNCHANGED <<inbound, events, to_controller, queue, router, job, command, backend_ready,
                   controller, shutdown>>

\* The task sees the shutdown, or that every sender is gone, which only a
\* shutdown brings about: pending requests fail, the queue is dropped.
BackendExit(s) ==
    /\ backend[s].pc \in {"serving", "backoff"}
    /\ shutdown
    /\ backend' = [backend EXCEPT ![s] = At("exited")]
    /\ job' = Answered(Pending(s) \cup Queued(s, "request"))
    /\ command' = Moved(Queued(s, "reply"), "lost")
    /\ queue' = [queue EXCEPT ![s] = <<>>]
    /\ UNCHANGED <<inbound, events, to_controller, router, backend_ready, controller, shutdown>>

-----------------------------------------------------------------------------

Init ==
    /\ inbound = <<>> /\ events = <<>> /\ to_controller = <<>>
    /\ queue = [s \in Service |-> <<>>]
    /\ router = At("select")
    /\ backend = [s \in Service |-> At("connecting")]
    /\ job = [j \in Job |-> [place |-> "new", service |-> None]]
    /\ command = [c \in Command |-> [place |-> "new", kind |-> None, origin |-> None, target |-> None]]
    /\ backend_ready = {}
    /\ controller = TRUE /\ shutdown = FALSE

RouterStep == RouteInbound \/ RouteStatus \/ RouteControl \/ Relay \/ RouterExit
TaskStep(c) == ForwardLocal(c) \/ LocalOutcome(c) \/ RemoteOutcome(c) \/ SendReply(c)
ControllerStep == ControllerReceive \/ ControllerExit
Announce(s) == AnnounceUp(s) \/ SendControl(s) \/ AnnounceDown(s)
TakeCmd(s) == Write(s) \/ WriteFails(s) \/ Reject(s)
BackendStep(s) == Connect(s) \/ Handshake(s) \/ Announce(s) \/ TakeCmd(s) \/ BackoffElapsed(s) \/ BackendExit(s)

Next ==
    \/ \E r \in Request, s \in Service \cup {None} : Submit(r, s)
    \/ RouterStep \/ ControllerStep \/ Shutdown
    \/ \E c \in Command : TaskStep(c)
    \/ \E s \in Service :
          \/ BackendStep(s)
          \/ Disconnect(s)
          \/ \E j \in Job : ReadReply(s, j)
          \/ \E c \in Command, kind \in Kinds, t \in Service : ReadControl(s, c, kind, t)

Spec == Init /\ [][Next]_vars

(***************************************************************************)
(* As long as the controller runs, every task that can run is polled.      *)
(* select! takes a ready branch at random, and a channel serves those who  *)
(* wait for room in their order: a branch or a send that is possible again *)
(* and again happens.  A backend reads what is written to it, and answers  *)
(* the requests it holds or hangs up.  Nothing forces requests, commands   *)
(* or a shutdown, nor the router to end after one.                         *)
(***************************************************************************)
Fairness ==
    /\ WF_vars(controller /\ RouteInbound)
    /\ WF_vars(controller /\ (RouteStatus \/ RouteControl))
    /\ WF_vars(controller /\ Relay)
    /\ WF_vars(ControllerStep)
    /\ \A c \in Command : SF_vars(controller /\ TaskStep(c))
    /\ \A s \in Service :
          /\ WF_vars(controller /\ BackendStep(s))
          /\ SF_vars(controller /\ Announce(s))
          /\ SF_vars(controller /\ TakeCmd(s))
          /\ \A j \in Job : SF_vars(controller /\ (ReadReply(s, j) \/ (j \in Pending(s) /\ Disconnect(s))))

-----------------------------------------------------------------------------
(* Properties                                                              *)

\* The channels hold what belongs into them and never more than they can.
TypeOK ==
    /\ inbound \in Seq(Request) /\ Len(inbound) <= InboundCapacity
    /\ events \in Seq(BackendEvent) /\ Len(events) <= EventCapacity
    /\ to_controller \in Seq(Command) /\ Len(to_controller) <= ControllerCapacity
    /\ \A s \in Service : queue[s] \in Seq(BackendCmd) /\ Len(queue[s]) <= BackendCapacity
    /\ router \in [pc : {"select", "relaying", "exited"}, command : Command \cup {None}]
    /\ backend \in [Service -> BackendState]
    /\ job \in [Job -> JobState]
    /\ command \in [Command -> CommandState]
    /\ backend_ready \subseteq Service
    /\ {controller, shutdown} \subseteq BOOLEAN

IsStatus(event, s) == event.kind # "control" /\ event.service = s

(***************************************************************************)
(* README: the dispatcher holds the one backend_ready.  It lags behind the *)
(* connections by the events in the queue and by nothing else: the last    *)
(* status queued for a service, or backend_ready when there is none, says  *)
(* whether the service has a connection that has shaken hands.             *)
(***************************************************************************)
StatusInSync ==
    router.pc # "exited" =>
        \A s \in Service :
            backend[s].pc # "exited" =>
                /\ \A i \in DOMAIN events :
                      IsStatus(events[i], s) /\ (\A n \in DOMAIN events : n > i => ~IsStatus(events[n], s)) =>
                          (events[i].kind = "up" <=> backend[s].pc \in Connected)
                /\ (\A i \in DOMAIN events : ~IsStatus(events[i], s)) =>
                      (s \in backend_ready <=> backend[s].pc \in Connected)

(***************************************************************************)
(* No request is forgotten: one that has no answer yet is in exactly one   *)
(* place that will give it one, the inbound queue, the queue of a backend  *)
(* task that runs, or the reply table of a connection that is up.  (State  *)
(* well typed, queues within their capacity.)                              *)
(***************************************************************************)
RequestsAccounted ==
    /\ TypeOK
    /\ \A j \in Job :
        LET Places == {<<"inbound", i>> : i \in {n \in DOMAIN inbound : inbound[n] = j}} \cup
                      UNION {{<<s, i>> : i \in {n \in DOMAIN queue[s] :
                                queue[s][n] = [kind |-> "request", id |-> j]}} : s \in Service}
            s0 == job[j].service
        IN  CASE job[j].place = "inbound" ->
                    \E i \in DOMAIN inbound : Places = {<<"inbound", i>>}
              [] job[j].place = "queued" ->
                    backend[s0].pc # "exited" /\ \E i \in DOMAIN queue[s0] : Places = {<<s0, i>>}
              [] job[j].place = "pending" ->
                    backend[s0].pc \in {"serving", "sending_control"} /\ Places = {}
              [] OTHER -> Places = {}

\* A command a backend issued is answered or known to be lost: none lingers,
\* until the node shuts down.
CommandsSettle == \A c \in Command : command[c].place # "new" ~> command[c].place \in Settled \/ shutdown

\* A backend that stays up is listed as ready in the end, one that stays down is not.
ReadinessConverges ==
    \A s \in Service :
        /\ <>[](backend[s].pc = "serving" /\ ~shutdown) => <>[](s \in backend_ready)
        /\ <>[](backend[s].pc \in {"backoff", "connecting"} /\ ~shutdown) => <>[](s \notin backend_ready)
=============================================================================
