---------------------- MODULE ServiceDispatcherProofs ----------------------
(***************************************************************************)
(* Proofs about the router and the backend tasks, for any services,        *)
(* requests, commands and queue capacities: every request that has no      *)
(* answer is in one place that gives it one, and readiness lags behind the *)
(* connections by the queued events only.                                  *)
(***************************************************************************)
EXTENDS ServiceDispatcher, TLAPS

-----------------------------------------------------------------------------
(* Queues, by what they hold                                               *)

In(x, q) == \E n \in DOMAIN q : q[n] = x
Once(q) == \A m, n \in DOMAIN q : q[m] = q[n] => m = n

LEMMA EmptyFacts ==
    ASSUME NEW S
    PROVE  <<>> \in Seq(S) /\ Len(<<>>) = 0 /\ DOMAIN <<>> = {} /\ Once(<<>>) /\ \A y : ~In(y, <<>>)
  BY DEF In, Once

LEMMA AppendFacts ==
    ASSUME NEW S, NEW q \in Seq(S), NEW x \in S
    PROVE  /\ Append(q, x) \in Seq(S) /\ Len(Append(q, x)) = Len(q) + 1
           /\ \A y : In(y, Append(q, x)) <=> In(y, q) \/ y = x
           /\ Once(q) /\ ~In(x, q) => Once(Append(q, x))
<1>1. /\ Append(q, x) \in Seq(S) /\ Len(q) \in Nat /\ Len(Append(q, x)) = Len(q) + 1
      /\ DOMAIN q = 1..Len(q) /\ DOMAIN Append(q, x) = 1..(Len(q) + 1)
      /\ \A n \in 1..Len(q) : Append(q, x)[n] = q[n]
      /\ Append(q, x)[Len(q) + 1] = x
  OBVIOUS
<1>2. DOMAIN Append(q, x) = DOMAIN q \cup {Len(q) + 1} /\ Len(q) + 1 \notin DOMAIN q
  BY <1>1
<1>3. \A y : In(y, Append(q, x)) <=> In(y, q) \/ y = x
  BY <1>1, <1>2, Zenon DEF In
<1>4. ASSUME Once(q), ~In(x, q)
      PROVE  Once(Append(q, x))
  BY <1>1, <1>2, <1>4, Zenon DEF In, Once
<1>5. QED
  BY <1>1, <1>3, <1>4, Zenon

LEMMA TailFacts ==
    ASSUME NEW S, NEW q \in Seq(S), q # <<>>
    PROVE  /\ Tail(q) \in Seq(S) /\ Len(Tail(q)) < Len(q)
           /\ Head(q) \in S /\ In(Head(q), q)
           /\ Once(q) => Once(Tail(q)) /\ \A y : In(y, Tail(q)) <=> In(y, q) /\ y # Head(q)
<1>1. /\ Tail(q) \in Seq(S) /\ Len(q) \in Nat \ {0} /\ Len(Tail(q)) = Len(q) - 1 /\ Head(q) \in S /\ Head(q) = q[1]
      /\ DOMAIN q = 1..Len(q) /\ DOMAIN Tail(q) = 1..(Len(q) - 1)
      /\ \A n \in 1..(Len(q) - 1) : Tail(q)[n] = q[n + 1]
  OBVIOUS
<1>2. In(Head(q), q) /\ Len(Tail(q)) < Len(q)
  BY <1>1 DEF In
<1>3. ASSUME Once(q)
      PROVE  Once(Tail(q))
  <2> SUFFICES ASSUME NEW m \in DOMAIN Tail(q), NEW n \in DOMAIN Tail(q), Tail(q)[m] = Tail(q)[n]
               PROVE  m = n
    BY DEF Once
  <2>1. m + 1 \in DOMAIN q /\ n + 1 \in DOMAIN q /\ q[m + 1] = q[n + 1] /\ m \in Nat /\ n \in Nat
    BY <1>1
  <2>2. m + 1 = n + 1
    BY <1>3, <2>1, Zenon DEF Once
  <2>3. QED
    BY <2>1, <2>2
<1>4. ASSUME Once(q), NEW y, In(y, Tail(q))
      PROVE  In(y, q) /\ y # Head(q)
  <2>1. PICK n \in DOMAIN Tail(q) : Tail(q)[n] = y
    BY <1>4, Zenon DEF In
  <2>2. n + 1 \in DOMAIN q /\ q[n + 1] = y /\ n + 1 # 1 /\ 1 \in DOMAIN q
    BY <1>1, <2>1
  <2>3. y # q[1]
    BY <1>4, <2>2, Zenon DEF Once
  <2>4. QED
    BY <1>1, <2>2, <2>3, Zenon DEF In
<1>5. ASSUME NEW y, In(y, q), y # Head(q)
      PROVE  In(y, Tail(q))
  <2>1. PICK n \in DOMAIN q : q[n] = y
    BY <1>5, Zenon DEF In
  <2>2. n # 1
    BY <1>1, <1>5, <2>1, Zenon
  <2>3. n - 1 \in DOMAIN Tail(q) /\ Tail(q)[n - 1] = y
    BY <1>1, <2>1, <2>2
  <2>4. QED
    BY <2>3, Zenon DEF In
<1>6. QED
  BY <1>1, <1>2, <1>3, <1>4, <1>5, Zenon

-----------------------------------------------------------------------------
(* The inductive invariant                                                 *)

Ask(j) == [kind |-> "request", id |-> j]
Answer(c) == [kind |-> "reply", id |-> c]

InboundShape == inbound \in Seq(Request) /\ Len(inbound) <= InboundCapacity /\ Once(inbound)
QueueShape ==
    /\ queue \in [Service -> Seq(BackendCmd)]
    /\ \A s \in Service : Len(queue[s]) <= BackendCapacity /\ Once(queue[s])

\* Where a request is said to be, there it is, once.
Jobs ==
    /\ \A j \in Job : job[j].place = "inbound" <=> In(j, inbound)
    /\ \A j \in Job, s \in Service : In(Ask(j), queue[s]) <=> job[j].place = "queued" /\ job[j].service = s
    /\ \A j \in Job : job[j].place = "queued" => job[j].service \in Service
    /\ \A j \in Job : job[j].place = "pending" =>
          job[j].service \in Service /\ backend[job[j].service].pc \in {"serving", "sending_control"}
    /\ \A s \in Service : backend[s].pc = "exited" => queue[s] = <<>>

Fresh == {"new", "reading", "event", "local"}

\* A command makes its request once, and a queued reply has no other place.
Commands ==
    /\ \A c \in Command, s \in Service : In(Answer(c), queue[s]) =>
          command[c].place = "reply_queued" /\ command[c].origin = s
    /\ \A c \in Command : command[c].place # "new" =>
          command[c].kind \in Kinds /\ command[c].origin \in Service /\ command[c].target \in Service
    /\ \A c \in Command : command[c].place \in Fresh => job[c].place = "new"

\* The command that a task or an event holds has that place, and no other
\* holds it.
InEvents ==
    /\ events \in Seq(BackendEvent) /\ Len(events) <= EventCapacity
    /\ \A i \in DOMAIN events :
          IF events[i].kind = "control"
          THEN /\ events[i].command \in Command /\ command[events[i].command].place = "event"
               /\ \A n \in DOMAIN events : events[n].command = events[i].command => n = i
          ELSE events[i].command = None

InTasks ==
    /\ \A s \in Service :
          IF backend[s].pc = "sending_control"
          THEN /\ backend[s].command \in Command /\ command[backend[s].command].place = "reading"
               /\ \A t \in Service : backend[t].command = backend[s].command => t = s
          ELSE backend[s].command = None
    /\ router.pc = "relaying" => router.command \in Command /\ command[router.command].place = "relaying"

\* What StatusInSync says of one service.
Sync(s) ==
    /\ \A i \in DOMAIN events :
          IsStatus(events[i], s) /\ (\A n \in DOMAIN events : n > i => ~IsStatus(events[n], s)) =>
              (events[i].kind = "up" <=> backend[s].pc \in Connected)
    /\ (\A i \in DOMAIN events : ~IsStatus(events[i], s)) =>
          (s \in backend_ready <=> backend[s].pc \in Connected)

Rest ==
    /\ to_controller \in Seq(Command) /\ Len(to_controller) <= ControllerCapacity
    /\ router \in [pc : {"select", "relaying", "exited"}, command : Command \cup {None}]
    /\ backend \in [Service -> BackendState]
    /\ job \in [Job -> JobState]
    /\ command \in [Command -> CommandState]
    /\ backend_ready \subseteq Service
    /\ controller \in BOOLEAN /\ shutdown \in BOOLEAN

Inv == InboundShape /\ QueueShape /\ Rest /\ Jobs /\ Commands /\ InEvents /\ InTasks /\ StatusInSync

-----------------------------------------------------------------------------
(* What the steps do to requests, commands and queues                      *)

LEMMA MessageFacts ==
    /\ \A j \in Job : Ask(j) \in BackendCmd /\ Ask(j).kind = "request" /\ Ask(j).id = j
    /\ \A c \in Command : Answer(c) \in BackendCmd /\ Answer(c).kind = "reply" /\ Answer(c).id = c
    /\ \A i, j : Ask(i) = Ask(j) => i = j
    /\ \A i, j : Answer(i) = Answer(j) => i = j
    /\ \A i, j : Ask(i) # Answer(j)
    /\ \A m \in BackendCmd : m.kind = "request" => m.id \in Job /\ m = Ask(m.id)
    /\ \A m \in BackendCmd : m.kind # "request" => m.kind = "reply" /\ m.id \in Command /\ m = Answer(m.id)
  BY DEF Ask, Answer, BackendCmd

LEMMA AnsweredFacts ==
    ASSUME Rest, NEW J, job' = Answered(J)
    PROVE  /\ job' \in [Job -> JobState]
           /\ \A j \in Job : /\ j \in J => job'[j].place = "answered"
                             /\ j \notin J => job'[j] = job[j]
                             /\ job'[j].service = job[j].service
<1>1. \A j \in Job : job[j] \in JobState
  BY Zenon DEF Rest
<1>2. \A j \in Job : LET a == [job[j] EXCEPT !.place = "answered"]
                    IN  a \in JobState /\ a.place = "answered" /\ a.service = job[j].service
  BY <1>1 DEF JobState
<1>3. QED
  BY <1>1, <1>2, Zenon DEF Answered

LEMMA PlacedFacts ==
    ASSUME Rest, NEW j \in Job, NEW p \in {"queued", "pending"}, job' = [job EXCEPT ![j].place = p]
    PROVE  /\ job' \in [Job -> JobState]
           /\ job'[j].place = p /\ job'[j].service = job[j].service
           /\ \A i \in Job : i # j => job'[i] = job[i]
<1>1. job[j] \in JobState
  BY Zenon DEF Rest
<1>2. LET a == [job[j] EXCEPT !.place = p]
      IN  a \in JobState /\ a.place = p /\ a.service = job[j].service
  BY <1>1 DEF JobState
<1>3. QED
  BY <1>1, <1>2, Zenon DEF Rest

LEMMA StartedFacts ==
    ASSUME Rest, NEW j \in Job, NEW p \in {"inbound", "queued", "answered"}, NEW s \in Service \cup {None},
           job' = [job EXCEPT ![j] = [place |-> p, service |-> s]]
    PROVE  /\ job' \in [Job -> JobState]
           /\ job'[j].place = p /\ job'[j].service = s
           /\ \A i \in Job : i # j => job'[i] = job[i]
<1>1. LET a == [place |-> p, service |-> s]
      IN  a \in JobState /\ a.place = p /\ a.service = s
  BY DEF JobState
<1>2. QED
  BY <1>1, Zenon DEF Rest

\* The places that steps move a command to.
Later == {"event", "relaying", "controller", "local", "awaiting", "replying", "reply_queued"} \cup Settled

LEMMA MovedFacts ==
    ASSUME Rest, NEW C,
           NEW p \in Later, command' = Moved(C, p)
    PROVE  /\ command' \in [Command -> CommandState]
           /\ \A c \in Command : /\ c \in C => command'[c].place = p
                                 /\ c \notin C => command'[c] = command[c]
                                 /\ command'[c].kind = command[c].kind
                                 /\ command'[c].origin = command[c].origin
                                 /\ command'[c].target = command[c].target
<1>1. \A c \in Command : command[c] \in CommandState
  BY Zenon DEF Rest
<1>2. \A c \in Command : LET a == [command[c] EXCEPT !.place = p]
                        IN  /\ a \in CommandState /\ a.place = p /\ a.kind = command[c].kind
                            /\ a.origin = command[c].origin /\ a.target = command[c].target
  BY <1>1 DEF CommandState, Later
<1>3. QED
  BY <1>1, <1>2, Zenon DEF Moved

LEMMA OneMoved ==
    ASSUME Rest, NEW c \in Command, NEW p \in Later, command' = Moved({c}, p)
    PROVE  /\ command' \in [Command -> CommandState]
           /\ command'[c].place = p
           /\ \A d \in Command : d # c => command'[d] = command[d]
           /\ \A d \in Command : /\ command'[d].kind = command[d].kind
                                 /\ command'[d].origin = command[d].origin
                                 /\ command'[d].target = command[d].target
<1>1. /\ command' \in [Command -> CommandState]
      /\ \A d \in Command : /\ d \in {c} => command'[d].place = p
                            /\ d \notin {c} => command'[d] = command[d]
                            /\ command'[d].kind = command[d].kind
                            /\ command'[d].origin = command[d].origin
                            /\ command'[d].target = command[d].target
  BY MovedFacts, Zenon
<1>2. QED
  BY <1>1, Zenon

\* A message is put into the queue of s, one is taken from it, it is cleared.
Pushed(s, m) == queue' = [queue EXCEPT ![s] = Append(@, m)]
Popped(s) == queue[s] # <<>> /\ queue' = [queue EXCEPT ![s] = Tail(@)]
Cleared(s) == queue' = [queue EXCEPT ![s] = <<>>]

LEMMA PushedFacts ==
    ASSUME QueueShape, NEW s \in Service, NEW m \in BackendCmd, Accepts(s), ~In(m, queue[s]), Pushed(s, m)
    PROVE  /\ QueueShape'
           /\ \A t \in Service : \A x : In(x, queue'[t]) <=> In(x, queue[t]) \/ (t = s /\ x = m)
           /\ \A t \in Service : t # s => queue'[t] = queue[t]
<1>1. queue[s] \in Seq(BackendCmd) /\ Once(queue[s]) /\ Len(queue[s]) < BackendCapacity
  BY Zenon DEF QueueShape, Accepts
<1>2. LET q == Append(queue[s], m)
      IN  q \in Seq(BackendCmd) /\ Len(q) = Len(queue[s]) + 1 /\ Once(q) /\ \A x : In(x, q) <=> In(x, queue[s]) \/ x = m
  BY <1>1, AppendFacts, Zenon
<1>3. Len(Append(queue[s], m)) <= BackendCapacity
  BY <1>1, <1>2, DispatcherAssumption
<1>4. queue'[s] = Append(queue[s], m) /\ queue' \in [Service -> Seq(BackendCmd)]
      /\ \A t \in Service : t # s => queue'[t] = queue[t]
  BY <1>2, Zenon DEF QueueShape, Pushed
<1>5. QED
  BY <1>2, <1>3, <1>4, Zenon DEF QueueShape

LEMMA PoppedFacts ==
    ASSUME QueueShape, NEW s \in Service, Popped(s)
    PROVE  /\ QueueShape'
           /\ Head(queue[s]) \in BackendCmd /\ In(Head(queue[s]), queue[s])
           /\ \A t \in Service : \A x : In(x, queue'[t]) <=> In(x, queue[t]) /\ ~(t = s /\ x = Head(queue[s]))
           /\ \A t \in Service : t # s => queue'[t] = queue[t]
<1>1. queue[s] \in Seq(BackendCmd) /\ Once(queue[s]) /\ Len(queue[s]) <= BackendCapacity /\ queue[s] # <<>>
  BY Zenon DEF QueueShape, Popped
<1>2. LET q == Tail(queue[s])
      IN  /\ q \in Seq(BackendCmd) /\ Len(q) < Len(queue[s]) /\ Once(q)
          /\ Head(queue[s]) \in BackendCmd /\ In(Head(queue[s]), queue[s])
          /\ \A x : In(x, q) <=> In(x, queue[s]) /\ x # Head(queue[s])
  BY <1>1, TailFacts, Zenon
<1>3. Len(Tail(queue[s])) <= BackendCapacity
  BY <1>1, <1>2, DispatcherAssumption
<1>4. queue'[s] = Tail(queue[s]) /\ queue' \in [Service -> Seq(BackendCmd)]
      /\ \A t \in Service : t # s => queue'[t] = queue[t]
  BY <1>2, Zenon DEF QueueShape, Popped
<1>5. QED
  BY <1>2, <1>3, <1>4, Zenon DEF QueueShape

LEMMA ClearedFacts ==
    ASSUME QueueShape, NEW s \in Service, Cleared(s)
    PROVE  /\ QueueShape' /\ queue'[s] = <<>>
           /\ \A t \in Service : \A x : In(x, queue'[t]) <=> In(x, queue[t]) /\ t # s
           /\ \A t \in Service : t # s => queue'[t] = queue[t]
<1>1. /\ <<>> \in Seq(BackendCmd) /\ Len(<<>>) <= BackendCapacity /\ Once(<<>>)
      /\ \A x : ~In(x, <<>>)
  BY EmptyFacts, DispatcherAssumption
<1>2. queue'[s] = <<>> /\ queue' \in [Service -> Seq(BackendCmd)]
      /\ \A t \in Service : t # s => queue'[t] = queue[t]
  BY <1>1, Zenon DEF QueueShape, Cleared
<1>3. QED
  BY <1>1, <1>2, Zenon DEF QueueShape

\* What a queue holds, by kind.
LEMMA QueuedFacts ==
    ASSUME QueueShape, NEW s \in Service
    PROVE  /\ \A j \in Job : j \in Queued(s, "request") <=> In(Ask(j), queue[s])
           /\ \A c \in Command : c \in Queued(s, "reply") <=> In(Answer(c), queue[s])
<1>1. \A n \in DOMAIN queue[s] : queue[s][n] \in BackendCmd
  BY DEF QueueShape
<1>2. \A j \in Job : j \in Queued(s, "request") <=> In(Ask(j), queue[s])
  <2>1. ASSUME NEW j \in Job, j \in Queued(s, "request")
        PROVE  In(Ask(j), queue[s])
    <3>1. PICK n \in DOMAIN queue[s] : queue[s][n].kind = "request" /\ queue[s][n].id = j
      BY <2>1, Zenon DEF Queued
    <3>2. queue[s][n] = Ask(j)
      BY <1>1, <3>1, MessageFacts, Zenon
    <3>3. QED
      BY <3>2, Zenon DEF In
  <2>2. ASSUME NEW j \in Job, In(Ask(j), queue[s])
        PROVE  j \in Queued(s, "request")
    <3>1. PICK n \in DOMAIN queue[s] : queue[s][n] = Ask(j)
      BY <2>2, Zenon DEF In
    <3>2. queue[s][n].kind = "request" /\ queue[s][n].id = j
      BY <3>1 DEF Ask
    <3>3. QED
      BY <3>1, <3>2 DEF Queued
  <2>3. QED
    BY <2>1, <2>2, Zenon
<1>3. \A c \in Command : c \in Queued(s, "reply") <=> In(Answer(c), queue[s])
  <2>1. ASSUME NEW c \in Command, c \in Queued(s, "reply")
        PROVE  In(Answer(c), queue[s])
    <3>1. PICK n \in DOMAIN queue[s] : queue[s][n].kind = "reply" /\ queue[s][n].id = c
      BY <2>1, Zenon DEF Queued
    <3>2. queue[s][n].kind # "request"
      BY <3>1
    <3>3. queue[s][n] = Answer(c)
      BY <1>1, <3>1, <3>2, MessageFacts, Zenon
    <3>4. QED
      BY <3>3, Zenon DEF In
  <2>2. ASSUME NEW c \in Command, In(Answer(c), queue[s])
        PROVE  c \in Queued(s, "reply")
    <3>1. PICK n \in DOMAIN queue[s] : queue[s][n] = Answer(c)
      BY <2>2, Zenon DEF In
    <3>2. queue[s][n].kind = "reply" /\ queue[s][n].id = c
      BY <3>1 DEF Answer
    <3>3. QED
      BY <3>1, <3>2 DEF Queued
  <2>3. QED
    BY <2>1, <2>2, Zenon
<1>4. QED
  BY <1>2, <1>3, Zenon

-----------------------------------------------------------------------------
(* What leaves a part of the invariant alone                               *)

LEMMA JobsFrame ==
    ASSUME Jobs, UNCHANGED <<inbound, queue, job>>,
           \A s \in Service :
              /\ backend[s].pc \in {"serving", "sending_control"} => backend'[s].pc \in {"serving", "sending_control"}
              /\ backend'[s].pc = "exited" => backend[s].pc = "exited"
    PROVE  Jobs'
  BY Zenon DEF Jobs

\* A command goes on: it keeps what it is about, and a reply in a queue stays.
Onward(c) ==
    /\ command'[c].kind = command[c].kind
    /\ command'[c].origin = command[c].origin
    /\ command'[c].target = command[c].target
    /\ command[c].place = "reply_queued" => command'[c].place = "reply_queued"
    /\ command'[c].place \in Fresh => command[c].place \in Fresh
    /\ command'[c].place # "new" => command[c].place # "new"

LEMMA CommandsFrame ==
    ASSUME Commands, UNCHANGED <<queue, job>>, \A c \in Command : Onward(c)
    PROVE  Commands'
  BY Zenon DEF Commands, Onward

LEMMA SameIsOnward ==
    ASSUME NEW c \in Command, command'[c] = command[c]
    PROVE  Onward(c)
  BY Zenon DEF Onward

LEMMA EventsFrame ==
    ASSUME InEvents, UNCHANGED events,
           \A c \in Command : command[c].place = "event" => command'[c].place = "event"
    PROVE  InEvents'
  BY Zenon DEF InEvents

LEMMA TasksFrame ==
    ASSUME InTasks, UNCHANGED <<backend, router>>,
           \A c \in Command : command[c].place \in {"reading", "relaying"} => command'[c].place = command[c].place
    PROVE  InTasks'
  BY Zenon DEF InTasks

\* The task of s goes on and holds no command.
LEMMA BackendMoves ==
    ASSUME Rest, NEW s \in Service,
           NEW pc \in {"connecting", "handshaking", "announcing_up", "backoff", "exited", "serving", "announcing_down"},
           backend' = [backend EXCEPT ![s] = At(pc)]
    PROVE  /\ backend' \in [Service -> BackendState]
           /\ backend'[s].pc = pc /\ backend'[s].command = None
           /\ \A t \in Service : t # s => backend'[t] = backend[t]
<1>1. At(pc) \in BackendState /\ At(pc).pc = pc /\ At(pc).command = None
  BY DEF At, BackendState, Connected
<1>2. QED
  BY <1>1, Zenon DEF Rest

LEMMA TasksMove ==
    ASSUME Rest, InTasks, NEW s \in Service,
           NEW pc \in {"connecting", "handshaking", "announcing_up", "backoff", "exited", "serving", "announcing_down"},
           backend' = [backend EXCEPT ![s] = At(pc)], UNCHANGED router,
           \A c \in Command : command[c].place = "relaying" => command'[c].place = "relaying",
           \A c \in Command : command[c].place = "reading" /\ c # backend[s].command => command'[c].place = "reading"
    PROVE  InTasks'
<1>1. /\ backend'[s].pc = pc /\ backend'[s].command = None
      /\ \A t \in Service : t # s => backend'[t] = backend[t]
  BY BackendMoves, Zenon
<1>2. pc # "sending_control" /\ None \notin Command
  BY DispatcherAssumption
<1>3. ASSUME NEW t \in Service, backend'[t].pc = "sending_control"
      PROVE  /\ backend'[t].command \in Command /\ command'[backend'[t].command].place = "reading"
             /\ \A u \in Service : backend'[u].command = backend'[t].command => u = t
  <2>1. t # s /\ backend'[t] = backend[t]
    BY <1>1, <1>2, <1>3, Zenon
  <2>2. /\ backend[t].command \in Command /\ command[backend[t].command].place = "reading"
        /\ \A u \in Service : backend[u].command = backend[t].command => u = t
    BY <1>3, <2>1, Zenon DEF InTasks
  <2>3. backend[t].command # backend[s].command
    BY <2>1, <2>2, Zenon
  <2>4. QED
    BY <1>1, <1>2, <2>1, <2>2, <2>3, Zenon
<1>4. ASSUME NEW t \in Service, backend'[t].pc # "sending_control"
      PROVE  backend'[t].command = None
  BY <1>1, <1>4, Zenon DEF InTasks
<1>5. QED
  BY <1>3, <1>4, Zenon DEF InTasks

LEMMA SyncFrame ==
    ASSUME StatusInSync, UNCHANGED <<events, backend_ready>>,
           router'.pc # "exited" => router.pc # "exited",
           \A s \in Service : backend'[s].pc # "exited" =>
              backend[s].pc # "exited" /\ (backend'[s].pc \in Connected <=> backend[s].pc \in Connected)
    PROVE  StatusInSync'
  BY Zenon DEF StatusInSync, IsStatus

\* Requests get their answer where they are, and leave no trace there.
LEMMA AnsweredJobs ==
    ASSUME Rest, Jobs, NEW J, job' = Answered(J),
           \A j \in Job : j \in J => ~In(j, inbound') /\ \A s \in Service : ~In(Ask(j), queue'[s]),
           \A j \in Job : j \notin J =>
              /\ In(j, inbound') <=> In(j, inbound)
              /\ \A s \in Service : In(Ask(j), queue'[s]) <=> In(Ask(j), queue[s])
              /\ job[j].place = "pending" => backend'[job[j].service].pc \in {"serving", "sending_control"},
           \A s \in Service : backend'[s].pc = "exited" => queue'[s] = <<>>
    PROVE  Jobs'
<1>1. \A j \in Job : /\ j \in J => job'[j].place = "answered"
                     /\ j \notin J => job'[j] = job[j]
  BY AnsweredFacts, Zenon
<1>2. \A j \in Job : job'[j].place = "answered" => job'[j].place \notin {"inbound", "queued", "pending"}
  OBVIOUS
<1>3. (\A j \in Job : job[j].place = "inbound" <=> In(j, inbound))'
  BY <1>1 DEF Jobs
<1>4. (\A j \in Job, s \in Service : In(Ask(j), queue[s]) <=> job[j].place = "queued" /\ job[j].service = s)'
  <2>1. ASSUME NEW j \in Job, NEW s \in Service, j \in J
        PROVE  (In(Ask(j), queue[s]) <=> job[j].place = "queued" /\ job[j].service = s)'
    BY <1>1, <1>2, <2>1, Zenon
  <2>2. ASSUME NEW j \in Job, NEW s \in Service, j \notin J
        PROVE  (In(Ask(j), queue[s]) <=> job[j].place = "queued" /\ job[j].service = s)'
    BY <1>1, <2>2 DEF Jobs
  <2>3. QED
    BY <2>1, <2>2, Zenon
<1>5. (\A j \in Job : job[j].place = "queued" => job[j].service \in Service)'
  BY <1>1, <1>2, Zenon DEF Jobs
<1>6. (\A j \in Job : job[j].place = "pending" =>
          job[j].service \in Service /\ backend[job[j].service].pc \in {"serving", "sending_control"})'
  <2>1. \A j \in Job : job[j].place = "pending" => job[j].service \in Service
    BY Zenon DEF Jobs
  <2>2. QED
    BY <1>1, <1>2, <2>1, Zenon
<1>7. QED
  BY <1>3, <1>4, <1>5, <1>6, Zenon DEF Jobs

-----------------------------------------------------------------------------
(* The event queue                                                         *)

LEMMA LongerFacts ==
    ASSUME events \in Seq(BackendEvent), Len(events) <= EventCapacity, NEW e \in BackendEvent,
           Len(events) < EventCapacity, events' = Append(events, e)
    PROVE  /\ events' \in Seq(BackendEvent) /\ Len(events') <= EventCapacity
           /\ Len(events) \in Nat /\ DOMAIN events = 1..Len(events) /\ DOMAIN events' = 1..(Len(events) + 1)
           /\ DOMAIN events' = DOMAIN events \cup {Len(events) + 1} /\ Len(events) + 1 \notin DOMAIN events
           /\ \A i \in DOMAIN events : events'[i] = events[i]
           /\ events'[Len(events) + 1] = e
  BY DispatcherAssumption

LEMMA ShorterFacts ==
    ASSUME events \in Seq(BackendEvent), Len(events) <= EventCapacity,
           events # <<>>, events' = Tail(events)
    PROVE  /\ events' \in Seq(BackendEvent) /\ Len(events') <= EventCapacity
           /\ Len(events) \in Nat \ {0} /\ DOMAIN events = 1..Len(events) /\ DOMAIN events' = 1..(Len(events) - 1)
           /\ \A i \in DOMAIN events' : i + 1 \in DOMAIN events /\ i + 1 # 1 /\ events'[i] = events[i + 1]
           /\ 1 \in DOMAIN events /\ events[1] = Head(events) /\ Head(events) \in BackendEvent
  BY DispatcherAssumption

LEMMA EventQueued ==
    ASSUME InEvents, NEW e \in BackendEvent, Len(events) < EventCapacity, events' = Append(events, e),
           \A c \in Command : command[c].place = "event" => command'[c].place = "event",
           IF e.kind = "control"
           THEN e.command \in Command /\ command[e.command].place # "event" /\ command'[e.command].place = "event"
           ELSE e.command = None
    PROVE  InEvents'
<1>1. /\ events' \in Seq(BackendEvent) /\ Len(events') <= EventCapacity
      /\ DOMAIN events' = DOMAIN events \cup {Len(events) + 1} /\ Len(events) + 1 \notin DOMAIN events
      /\ \A i \in DOMAIN events : events'[i] = events[i]
      /\ events'[Len(events) + 1] = e
  BY LongerFacts, Zenon DEF InEvents
<1>2. None \notin Command
  BY DispatcherAssumption
<1>3. ASSUME NEW i \in DOMAIN events, events[i].kind = "control"
      PROVE  /\ events'[i].command \in Command /\ command'[events'[i].command].place = "event"
             /\ \A n \in DOMAIN events' : events'[n].command = events'[i].command => n = i
  <2>1. /\ events[i].command \in Command /\ command[events[i].command].place = "event"
        /\ \A n \in DOMAIN events : events[n].command = events[i].command => n = i
    BY <1>3, Zenon DEF InEvents
  <2>2. e.command # events[i].command
    BY <1>2, <2>1, Zenon
  <2>3. QED
    BY <1>1, <2>1, <2>2, Zenon
<1>4. ASSUME e.kind = "control"
      PROVE  \A n \in DOMAIN events : events[n].command # e.command
  <2>1. ASSUME NEW n \in DOMAIN events, events[n].kind = "control"
        PROVE  events[n].command # e.command
    BY <1>4, <2>1, Zenon DEF InEvents
  <2>2. ASSUME NEW n \in DOMAIN events, events[n].kind # "control"
        PROVE  events[n].command # e.command
    BY <1>2, <1>4, <2>2, Zenon DEF InEvents
  <2>3. QED
    BY <2>1, <2>2, Zenon
<1>5. ASSUME NEW i \in DOMAIN events'
      PROVE  IF events'[i].kind = "control"
             THEN /\ events'[i].command \in Command /\ command'[events'[i].command].place = "event"
                  /\ \A n \in DOMAIN events' : events'[n].command = events'[i].command => n = i
             ELSE events'[i].command = None
  <2>1. CASE i \in DOMAIN events
    BY <1>1, <1>3, <2>1, Zenon DEF InEvents
  <2>2. CASE i = Len(events) + 1
    BY <1>1, <1>4, <2>2, Zenon
  <2>3. QED
    BY <1>1, <2>1, <2>2, Zenon
<1>6. QED
  BY <1>1, <1>5, Zenon DEF InEvents

LEMMA EventTaken ==
    ASSUME InEvents, events # <<>>, events' = Tail(events),
           \A c \in Command : command[c].place = "event" /\ c # Head(events).command => command'[c].place = "event"
    PROVE  InEvents'
<1>1. /\ events' \in Seq(BackendEvent) /\ Len(events') <= EventCapacity
      /\ DOMAIN events' = 1..(Len(events) - 1) /\ Len(events) \in Nat
      /\ \A i \in DOMAIN events' : i + 1 \in DOMAIN events /\ i + 1 # 1 /\ events'[i] = events[i + 1]
      /\ 1 \in DOMAIN events /\ events[1] = Head(events)
  BY ShorterFacts, Zenon DEF InEvents
<1>2. ASSUME NEW i \in DOMAIN events', NEW n \in DOMAIN events', n + 1 = i + 1
      PROVE  n = i
  BY <1>1, <1>2
<1>3. ASSUME NEW i \in DOMAIN events', events'[i].kind = "control"
      PROVE  /\ events'[i].command \in Command /\ command'[events'[i].command].place = "event"
             /\ \A n \in DOMAIN events' : events'[n].command = events'[i].command => n = i
  <2>1. i + 1 \in DOMAIN events /\ i + 1 # 1 /\ events'[i] = events[i + 1] /\ events[i + 1].kind = "control"
    BY <1>1, <1>3, Zenon
  <2>2. /\ events[i + 1].command \in Command /\ command[events[i + 1].command].place = "event"
        /\ \A n \in DOMAIN events : events[n].command = events[i + 1].command => n = i + 1
    BY <2>1, Zenon DEF InEvents
  <2>3. Head(events).command # events[i + 1].command
    BY <1>1, <2>1, <2>2, Zenon
  <2>4. \A n \in DOMAIN events' : events'[n].command = events'[i].command => n = i
    BY <1>1, <1>2, <2>1, <2>2, Zenon
  <2>5. QED
    BY <2>1, <2>2, <2>3, <2>4, Zenon
<1>4. ASSUME NEW i \in DOMAIN events', events'[i].kind # "control"
      PROVE  events'[i].command = None
  BY <1>1, <1>4, Zenon DEF InEvents
<1>5. QED
  BY <1>1, <1>3, <1>4, Zenon DEF InEvents

LEMMA NoEvents ==
    ASSUME events' = <<>>
    PROVE  InEvents'
<1>1. /\ <<>> \in Seq(BackendEvent) /\ Len(<<>>) <= EventCapacity /\ DOMAIN <<>> = {}
  BY EmptyFacts, DispatcherAssumption
<1>2. QED
  BY <1>1, Zenon DEF InEvents

-----------------------------------------------------------------------------
(* Readiness, service by service                                           *)

LEMMA SyncOther ==
    ASSUME InEvents, NEW s \in Service, Sync(s), NEW e \in BackendEvent, Len(events) < EventCapacity,
           events' = Append(events, e), ~IsStatus(e, s), UNCHANGED backend_ready,
           backend'[s].pc \in Connected <=> backend[s].pc \in Connected
    PROVE  Sync(s)'
<1>1. /\ Len(events) \in Nat /\ DOMAIN events = 1..Len(events) /\ DOMAIN events' = 1..(Len(events) + 1)
      /\ \A i \in DOMAIN events : events'[i] = events[i]
      /\ events'[Len(events) + 1] = e
      /\ DOMAIN events' = DOMAIN events \cup {Len(events) + 1}
  BY LongerFacts, Zenon DEF InEvents
<1>2. \A i \in DOMAIN events' : IsStatus(events'[i], s) => i \in DOMAIN events
  BY <1>1, Zenon
<1>3. ASSUME NEW i \in DOMAIN events', IsStatus(events'[i], s),
             \A n \in DOMAIN events' : n > i => ~IsStatus(events'[n], s)
      PROVE  events'[i].kind = "up" <=> backend'[s].pc \in Connected
  <2>1. i \in DOMAIN events /\ IsStatus(events[i], s) /\ \A n \in DOMAIN events : n > i => ~IsStatus(events[n], s)
    BY <1>1, <1>2, <1>3, Zenon
  <2>2. events[i].kind = "up" <=> backend[s].pc \in Connected
    BY <2>1, Zenon DEF Sync
  <2>3. QED
    BY <1>1, <2>1, <2>2, Zenon
<1>4. ASSUME \A i \in DOMAIN events' : ~IsStatus(events'[i], s)
      PROVE  s \in backend_ready' <=> backend'[s].pc \in Connected
  <2>1. \A i \in DOMAIN events : ~IsStatus(events[i], s)
    BY <1>1, <1>4, Zenon
  <2>2. QED
    BY <2>1, Zenon DEF Sync
<1>5. QED
  BY <1>3, <1>4, Zenon DEF Sync, IsStatus

LEMMA SyncOwn ==
    ASSUME InEvents, NEW s \in Service, NEW e \in BackendEvent, Len(events) < EventCapacity,
           events' = Append(events, e), IsStatus(e, s),
           backend'[s].pc \in Connected <=> e.kind = "up"
    PROVE  Sync(s)'
<1>1. /\ Len(events) \in Nat /\ DOMAIN events = 1..Len(events) /\ DOMAIN events' = 1..(Len(events) + 1)
      /\ events'[Len(events) + 1] = e
      /\ DOMAIN events' = DOMAIN events \cup {Len(events) + 1}
  BY LongerFacts, Zenon DEF InEvents
<1>2. \A i \in DOMAIN events' : i # Len(events) + 1 => Len(events) + 1 > i
  BY <1>1
<1>3. ASSUME NEW i \in DOMAIN events', \A n \in DOMAIN events' : n > i => ~IsStatus(events'[n], s)
      PROVE  events'[i].kind = "up" <=> backend'[s].pc \in Connected
  <2>1. i = Len(events) + 1
    BY <1>1, <1>2, <1>3, Zenon
  <2>2. QED
    BY <1>1, <2>1, Zenon
<1>4. ~\A i \in DOMAIN events' : ~IsStatus(events'[i], s)
  BY <1>1, Zenon
<1>5. QED
  BY <1>3, <1>4, Zenon DEF Sync, IsStatus

LEMMA SyncTaken ==
    ASSUME InEvents, NEW s \in Service, Sync(s), events # <<>>, events' = Tail(events), UNCHANGED backend,
           IsStatus(Head(events), s) => (s \in backend_ready' <=> Head(events).kind = "up"),
           ~IsStatus(Head(events), s) => (s \in backend_ready' <=> s \in backend_ready)
    PROVE  Sync(s)'
<1>1. /\ DOMAIN events' = 1..(Len(events) - 1) /\ Len(events) \in Nat \ {0} /\ DOMAIN events = 1..Len(events)
      /\ \A i \in DOMAIN events' : i + 1 \in DOMAIN events /\ events'[i] = events[i + 1]
      /\ 1 \in DOMAIN events /\ events[1] = Head(events)
  BY ShorterFacts, Zenon DEF InEvents
<1>2. \A n \in DOMAIN events : n # 1 => n - 1 \in DOMAIN events' /\ events'[n - 1] = events[n]
  BY <1>1
<1>3. ASSUME NEW i \in DOMAIN events', IsStatus(events'[i], s),
             \A n \in DOMAIN events' : n > i => ~IsStatus(events'[n], s)
      PROVE  events'[i].kind = "up" <=> backend'[s].pc \in Connected
  <2>1. \A n \in DOMAIN events : n > i + 1 => n # 1 /\ n - 1 > i
    BY <1>1
  <2>2. i + 1 \in DOMAIN events /\ IsStatus(events[i + 1], s)
        /\ \A n \in DOMAIN events : n > i + 1 => ~IsStatus(events[n], s)
    BY <1>1, <1>2, <1>3, <2>1, Zenon
  <2>3. events[i + 1].kind = "up" <=> backend[s].pc \in Connected
    BY <2>2, Zenon DEF Sync
  <2>4. QED
    BY <1>1, <2>3, Zenon
<1>4. ASSUME \A i \in DOMAIN events' : ~IsStatus(events'[i], s)
      PROVE  s \in backend_ready' <=> backend'[s].pc \in Connected
  <2>1. \A n \in DOMAIN events : n > 1 => n # 1
    BY <1>1
  <2>2. \A n \in DOMAIN events : n # 1 => ~IsStatus(events[n], s)
    BY <1>2, <1>4, Zenon
  <2>3. CASE IsStatus(Head(events), s)
    <3>1. events[1].kind = "up" <=> backend[s].pc \in Connected
      BY <1>1, <2>1, <2>2, <2>3, Zenon DEF Sync
    <3>2. QED
      BY <1>1, <2>3, <3>1, Zenon
  <2>4. CASE ~IsStatus(Head(events), s)
    <3>1. \A n \in DOMAIN events : ~IsStatus(events[n], s)
      BY <1>1, <2>2, <2>4, Zenon
    <3>2. QED
      BY <2>4, <3>1, Zenon DEF Sync
  <2>5. QED
    BY <2>3, <2>4, Zenon
<1>5. QED
  BY <1>3, <1>4, Zenon DEF Sync, IsStatus

-----------------------------------------------------------------------------
(* The steps, one by one                                                   *)

LEMMA InitInv == Init => Inv
<1> SUFFICES ASSUME Init PROVE Inv
  OBVIOUS
<1>0. /\ inbound = <<>> /\ events = <<>> /\ to_controller = <<>>
      /\ \A s \in Service : queue[s] = <<>> /\ backend[s] = At("connecting")
      /\ \A j \in Job : job[j] = [place |-> "new", service |-> None]
      /\ \A c \in Command : command[c] = [place |-> "new", kind |-> None, origin |-> None, target |-> None]
  BY Zenon DEF Init
<1>1. /\ \A S : <<>> \in Seq(S) /\ Len(<<>>) = 0 /\ DOMAIN <<>> = {}
      /\ Once(<<>>) /\ \A y : ~In(y, <<>>)
      /\ {InboundCapacity, BackendCapacity, EventCapacity, ControllerCapacity} \subseteq Nat
  BY EmptyFacts, DispatcherAssumption
<1>2. InboundShape
  BY <1>0, <1>1 DEF InboundShape
<1>3. QueueShape
  BY <1>1 DEF QueueShape, Init
<1>4. Rest
  <2>1. At("select") \in [pc : {"select", "relaying", "exited"}, command : Command \cup {None}]
        /\ At("connecting") \in BackendState
    BY DEF At, BackendState
  <2>2. [place |-> "new", service |-> None] \in JobState
        /\ [place |-> "new", kind |-> None, origin |-> None, target |-> None] \in CommandState
    BY DEF JobState, CommandState
  <2>3. to_controller \in Seq(Command) /\ Len(to_controller) <= ControllerCapacity
    BY <1>0, <1>1
  <2>4. QED
    BY <2>1, <2>2, <2>3, Zenon DEF Rest, Init
<1>5. /\ \A s \in Service : backend[s].pc = "connecting" /\ backend[s].command = None
      /\ \A j \in Job : job[j].place = "new"
      /\ \A c \in Command : command[c].place = "new"
      /\ router.pc = "select" /\ backend_ready = {}
  BY <1>0 DEF At, Init
<1>6. Jobs
  BY <1>0, <1>1, <1>5 DEF Jobs
<1>7. Commands
  <2>1. \A c \in Command : c \in Job
    BY DEF Job
  <2>2. QED
    BY <1>0, <1>1, <1>5, <2>1, Zenon DEF Commands
<1>8. InEvents
  BY <1>0, <1>1 DEF InEvents
<1>9. InTasks
  BY <1>5 DEF InTasks
<1>10. StatusInSync
  BY <1>0, <1>1, <1>5 DEF StatusInSync, Connected
<1>11. QED
  BY <1>2, <1>3, <1>4, <1>6, <1>7, <1>8, <1>9, <1>10, Zenon DEF Inv

\* The controller and the shutdown touch nothing that the router holds.
LEMMA ControllerInv ==
    ASSUME Inv, UNCHANGED <<inbound, events, queue, router, backend, job, command, backend_ready>>,
           to_controller' \in Seq(Command), Len(to_controller') <= ControllerCapacity,
           controller' \in BOOLEAN, shutdown' \in BOOLEAN
    PROVE  Inv'
<1>1. InboundShape' /\ QueueShape' /\ Rest' /\ StatusInSync'
  BY Zenon DEF Inv, InboundShape, QueueShape, Rest, StatusInSync, IsStatus
<1>2. Jobs' /\ Commands' /\ InEvents' /\ InTasks'
  BY JobsFrame, SameIsOnward, CommandsFrame, EventsFrame, TasksFrame, Zenon DEF Inv
<1>3. QED
  BY <1>1, <1>2, Zenon DEF Inv

LEMMA ControllerStepInv ==
    ASSUME Inv, ControllerStep \/ Shutdown \/ UNCHANGED vars
    PROVE  Inv'
<1>1. to_controller \in Seq(Command) /\ Len(to_controller) <= ControllerCapacity /\ controller \in BOOLEAN /\ shutdown \in BOOLEAN
  BY Zenon DEF Inv, Rest
<1>2. CASE ControllerReceive
  <2>1. Tail(to_controller) \in Seq(Command) /\ Len(Tail(to_controller)) <= ControllerCapacity
    BY <1>1, <1>2, DispatcherAssumption DEF ControllerReceive
  <2>2. QED
    BY <1>1, <1>2, <2>1, ControllerInv, Zenon DEF ControllerReceive
<1>3. CASE ControllerExit
  <2>1. <<>> \in Seq(Command) /\ Len(<<>>) <= ControllerCapacity
    BY DispatcherAssumption
  <2>2. QED
    BY <1>1, <1>3, <2>1, ControllerInv, Zenon DEF ControllerExit
<1>4. CASE Shutdown
  BY <1>1, <1>4, ControllerInv, Zenon DEF Shutdown
<1>5. CASE UNCHANGED vars
  BY <1>1, <1>5, ControllerInv, Zenon DEF vars
<1>6. QED
  BY <1>2, <1>3, <1>4, <1>5, Zenon DEF ControllerStep

LEMMA OutcomeInv ==
    ASSUME Inv, NEW c \in Command, LocalOutcome(c) \/ RemoteOutcome(c)
    PROVE  Inv'
<1>1. /\ command[c].place \in {"awaiting", "controller"} /\ command' = Moved({c}, "replying")
      /\ UNCHANGED <<inbound, events, to_controller, queue, router, backend, job, backend_ready, controller, shutdown>>
  BY DEF LocalOutcome, RemoteOutcome
<1>2. /\ command' \in [Command -> CommandState]
      /\ command'[c].place = "replying"
      /\ \A d \in Command : d # c => command'[d] = command[d]
      /\ \A d \in Command : /\ command'[d].kind = command[d].kind
                            /\ command'[d].origin = command[d].origin
                            /\ command'[d].target = command[d].target
  <2>1. "replying" \in Later
    BY DEF Later
  <2>2. QED
    BY <1>1, <2>1, OneMoved, Zenon DEF Inv
<1>3. InboundShape' /\ QueueShape' /\ Rest' /\ StatusInSync' /\ Jobs'
  <2>1. InboundShape' /\ QueueShape' /\ Rest'
    BY <1>1, <1>2, Zenon DEF Inv, InboundShape, QueueShape, Rest
  <2>2. StatusInSync' /\ Jobs'
    BY <1>1, SyncFrame, JobsFrame, Zenon DEF Inv
  <2>3. QED
    BY <2>1, <2>2, Zenon
<1>4. Commands'
  <2>1. Onward(c)
    BY <1>1, <1>2, Zenon DEF Onward, Fresh
  <2>2. QED
    BY <1>1, <1>2, <2>1, SameIsOnward, CommandsFrame, Zenon DEF Inv
<1>5. InEvents' /\ InTasks'
  <2>1. command[c].place # "event" /\ command[c].place \notin {"reading", "relaying"}
    BY <1>1
  <2>2. QED
    BY <1>1, <1>2, <2>1, EventsFrame, TasksFrame, Zenon DEF Inv
<1>6. QED
  BY <1>3, <1>4, <1>5, Zenon DEF Inv

\* Connecting, shaking hands and waiting hold no request.
LEMMA ConnectingInv ==
    ASSUME Inv, NEW s \in Service, Connect(s) \/ Handshake(s) \/ BackoffElapsed(s)
    PROVE  Inv'
<1>1. PICK pc \in {"connecting", "handshaking", "announcing_up", "backoff"} :
        /\ backend[s].pc \in {"connecting", "handshaking", "backoff"} /\ backend' = [backend EXCEPT ![s] = At(pc)]
        /\ UNCHANGED <<inbound, events, to_controller, queue, router, job, command, backend_ready, controller, shutdown>>
  <2>1. CASE Connect(s)
    BY <2>1, Zenon DEF Connect
  <2>2. CASE Handshake(s)
    BY <2>2, Zenon DEF Handshake
  <2>3. CASE BackoffElapsed(s)
    BY <2>3 DEF BackoffElapsed
  <2>4. QED
    BY <2>1, <2>2, <2>3, Zenon
<1>2. pc \in {"connecting", "handshaking", "announcing_up", "backoff", "exited", "serving", "announcing_down"}
  OBVIOUS
<1>3. /\ backend' \in [Service -> BackendState] /\ backend'[s].pc = pc
      /\ \A t \in Service : t # s => backend'[t] = backend[t]
  BY <1>1, <1>2, BackendMoves, Zenon DEF Inv
<1>4. InboundShape' /\ QueueShape' /\ Rest'
  BY <1>1, <1>3, Zenon DEF Inv, InboundShape, QueueShape, Rest
<1>5. Jobs' /\ Commands' /\ InEvents'
  <2>1. backend[s].pc \notin {"serving", "sending_control"} /\ pc # "exited"
    BY <1>1
  <2>2. \A t \in Service :
              /\ backend[t].pc \in {"serving", "sending_control"} => backend'[t].pc \in {"serving", "sending_control"}
              /\ backend'[t].pc = "exited" => backend[t].pc = "exited"
    BY <1>3, <2>1, Zenon
  <2>3. QED
    BY <1>1, <2>2, JobsFrame, SameIsOnward, CommandsFrame, EventsFrame, Zenon DEF Inv
<1>6. InTasks'
  BY <1>1, <1>2, TasksMove, Zenon DEF Inv
<1>7. StatusInSync'
  <2>1. backend[s].pc \notin Connected /\ pc \notin Connected /\ backend[s].pc # "exited"
    BY <1>1 DEF Connected
  <2>2. \A t \in Service : backend'[t].pc # "exited" =>
              backend[t].pc # "exited" /\ (backend'[t].pc \in Connected <=> backend[t].pc \in Connected)
    BY <1>3, <2>1, Zenon
  <2>3. QED
    BY <1>1, <2>2, SyncFrame, Zenon DEF Inv
<1>8. QED
  BY <1>4, <1>5, <1>6, <1>7, Zenon DEF Inv

\* A status goes into the event queue, and the task goes on.
LEMMA AnnounceInv ==
    ASSUME Inv, NEW s \in Service, AnnounceUp(s) \/ AnnounceDown(s)
    PROVE  Inv'
<1>1. PICK kind \in {"up", "down"}, pc \in {"serving", "backoff"} :
        /\ backend[s].pc \in {"announcing_up", "announcing_down"} /\ (kind = "up" <=> pc = "serving")
        /\ EventSent([kind |-> kind, service |-> s, command |-> None])
        /\ backend' = [backend EXCEPT ![s] = At(pc)]
        /\ UNCHANGED <<inbound, to_controller, queue, router, job, command, backend_ready, controller, shutdown>>
  <2>1. CASE AnnounceUp(s)
    BY <2>1 DEF AnnounceUp
  <2>2. CASE AnnounceDown(s)
    BY <2>2 DEF AnnounceDown
  <2>3. QED
    BY <2>1, <2>2, Zenon
<1> DEFINE e == [kind |-> kind, service |-> s, command |-> None]
<1>2. /\ pc \in {"connecting", "handshaking", "announcing_up", "backoff", "exited", "serving", "announcing_down"}
      /\ pc # "exited" /\ (pc \in Connected <=> kind = "up")
      /\ backend[s].pc \notin {"serving", "sending_control", "exited"}
  BY <1>1 DEF Connected
<1>3. e \in BackendEvent /\ e.kind = kind /\ e.kind # "control" /\ e.service = s /\ e.command = None
  BY DEF BackendEvent
<1>4. /\ backend' \in [Service -> BackendState] /\ backend'[s].pc = pc
      /\ \A t \in Service : t # s => backend'[t] = backend[t]
  BY <1>1, <1>2, BackendMoves, Zenon DEF Inv
<1>5. InboundShape' /\ QueueShape' /\ Rest'
  BY <1>1, <1>4, Zenon DEF Inv, InboundShape, QueueShape, Rest
<1>6. Jobs' /\ Commands'
  <2>1. \A t \in Service :
              /\ backend[t].pc \in {"serving", "sending_control"} => backend'[t].pc \in {"serving", "sending_control"}
              /\ backend'[t].pc = "exited" => backend[t].pc = "exited"
    BY <1>2, <1>4, Zenon
  <2>2. QED
    BY <1>1, <2>1, JobsFrame, SameIsOnward, CommandsFrame, Zenon DEF Inv
<1>7. InTasks'
  BY <1>1, <1>2, TasksMove, Zenon DEF Inv
<1>8. CASE router.pc = "exited" /\ UNCHANGED events
  <2>1. InEvents'
    BY <1>1, <1>8, EventsFrame, Zenon DEF Inv
  <2>2. StatusInSync'
    BY <1>1, <1>8, Zenon DEF StatusInSync
  <2>3. QED
    BY <1>5, <1>6, <1>7, <2>1, <2>2, Zenon DEF Inv
<1>9. CASE router.pc # "exited" /\ Len(events) < EventCapacity /\ events' = Append(events, e)
  <2> HIDE DEF e
  <2>1. InEvents'
    BY <1>1, <1>3, <1>9, EventQueued, Zenon DEF Inv
  <2>2. ASSUME NEW t \in Service, backend'[t].pc # "exited"
        PROVE  Sync(t)'
    <3>1. CASE t = s
      <4>1. IsStatus(e, s)
        BY <1>3, Zenon DEF IsStatus
      <4>2. QED
        BY <1>2, <1>3, <1>4, <1>9, <3>1, <4>1, SyncOwn, Zenon DEF Inv
    <3>2. CASE t # s
      <4>1. ~IsStatus(e, t) /\ backend'[t] = backend[t]
        BY <1>3, <1>4, <3>2, Zenon DEF IsStatus
      <4>2. Sync(t)
        BY <1>9, <2>2, <4>1, Zenon DEF Inv, StatusInSync, Sync
      <4>3. QED
        BY <1>1, <1>3, <1>9, <4>1, <4>2, SyncOther, Zenon DEF Inv
    <3>3. QED
      BY <3>1, <3>2, Zenon
  <2>3. StatusInSync'
    BY <2>2, Zenon DEF StatusInSync, Sync, IsStatus
  <2>4. QED
    BY <1>5, <1>6, <1>7, <2>1, <2>3, Zenon DEF Inv
<1>10. QED
  BY <1>1, <1>8, <1>9, Zenon DEF EventSent

LEMMA SendControlInv ==
    ASSUME Inv, NEW s \in Service, SendControl(s)
    PROVE  Inv'
<1> DEFINE c == backend[s].command
           e == [kind |-> "control", service |-> s, command |-> c]
           p == IF router.pc = "exited" THEN "lost" ELSE "event"
<1>1. /\ backend[s].pc = "sending_control" /\ c \in Command /\ command[c].place = "reading"
      /\ backend' = [backend EXCEPT ![s] = At("serving")] /\ command' = Moved({c}, p) /\ EventSent(e)
      /\ UNCHANGED <<inbound, to_controller, queue, router, job, backend_ready, controller, shutdown>>
  BY Zenon DEF SendControl, Inv, InTasks
<1>2. /\ "serving" \in {"connecting", "handshaking", "announcing_up", "backoff", "exited", "serving", "announcing_down"}
      /\ "serving" # "exited" /\ "serving" \in Connected /\ "sending_control" \in Connected
      /\ "serving" \in {"serving", "sending_control"} /\ p \in Later
  BY DEF Connected, Later, Settled
<1>3. e \in BackendEvent /\ e.kind = "control" /\ e.command = c
  BY <1>1 DEF BackendEvent
<1> HIDE DEF c, e, p
<1>4. /\ backend' \in [Service -> BackendState] /\ backend'[s].pc = "serving"
      /\ \A t \in Service : t # s => backend'[t] = backend[t]
  BY <1>1, <1>2, BackendMoves, Zenon DEF Inv
<1>5. /\ command' \in [Command -> CommandState]
      /\ command'[c].place = p
      /\ \A d \in Command : d # c => command'[d] = command[d]
      /\ \A d \in Command : /\ command'[d].kind = command[d].kind
                            /\ command'[d].origin = command[d].origin
                            /\ command'[d].target = command[d].target
  BY <1>1, <1>2, OneMoved, Zenon DEF Inv
<1>6. InboundShape' /\ QueueShape' /\ Rest'
  BY <1>1, <1>4, <1>5, Zenon DEF Inv, InboundShape, QueueShape, Rest
<1>7. Jobs' /\ Commands'
  <2>1. \A t \in Service :
              /\ backend[t].pc \in {"serving", "sending_control"} => backend'[t].pc \in {"serving", "sending_control"}
              /\ backend'[t].pc = "exited" => backend[t].pc = "exited"
    BY <1>2, <1>4, Zenon
  <2>2. Onward(c)
    BY <1>1, <1>5, Zenon DEF Onward, Fresh, p
  <2>3. QED
    BY <1>1, <1>5, <2>1, <2>2, JobsFrame, SameIsOnward, CommandsFrame, Zenon DEF Inv
<1>8. InTasks'
  <2>1. command[c].place # "relaying" /\ c = backend[s].command
    BY <1>1 DEF c
  <2>2. \A d \in Command : command[d].place = "relaying" => command'[d].place = "relaying"
    BY <1>5, <2>1, Zenon
  <2>3. \A d \in Command : command[d].place = "reading" /\ d # backend[s].command => command'[d].place = "reading"
    BY <1>5, <2>1, Zenon
  <2>4. QED
    BY <1>1, <1>2, <2>2, <2>3, TasksMove, Zenon DEF Inv
<1>9. command[c].place # "event" /\ \A d \in Command : command[d].place = "event" => command'[d].place = "event"
  <2>1. command[c].place # "event"
    BY <1>1
  <2>2. QED
    BY <1>5, <2>1, Zenon
<1>10. CASE router.pc = "exited" /\ UNCHANGED events
  <2>1. InEvents'
    BY <1>9, <1>10, EventsFrame, Zenon DEF Inv
  <2>2. StatusInSync'
    BY <1>1, <1>10, Zenon DEF StatusInSync
  <2>3. QED
    BY <1>6, <1>7, <1>8, <2>1, <2>2, Zenon DEF Inv
<1>11. CASE router.pc # "exited" /\ Len(events) < EventCapacity /\ events' = Append(events, e)
  <2>1. p = "event"
    BY <1>11 DEF p
  <2>2. InEvents'
    BY <1>1, <1>3, <1>5, <1>9, <1>11, <2>1, EventQueued, Zenon DEF Inv
  <2>3. ASSUME NEW t \in Service, backend'[t].pc # "exited"
        PROVE  Sync(t)'
    <3>1. ~IsStatus(e, t)
      BY <1>3, Zenon DEF IsStatus
    <3>2. backend[t].pc # "exited" /\ (backend'[t].pc \in Connected <=> backend[t].pc \in Connected)
      <4>1. "sending_control" # "exited"
        OBVIOUS
      <4>2. QED
        BY <1>1, <1>2, <1>4, <2>3, <4>1, Zenon
    <3>3. Sync(t)
      BY <1>11, <3>2, Zenon DEF Inv, StatusInSync, Sync
    <3>4. QED
      BY <1>1, <1>3, <1>11, <3>1, <3>2, <3>3, SyncOther, Zenon DEF Inv
  <2>4. StatusInSync'
    BY <2>3, Zenon DEF StatusInSync, Sync, IsStatus
  <2>5. QED
    BY <1>6, <1>7, <1>8, <2>2, <2>4, Zenon DEF Inv
<1>12. QED
  BY <1>1, <1>10, <1>11, Zenon DEF EventSent

LEMMA ReadControlInv ==
    ASSUME Inv, NEW s \in Service, NEW c \in Command, NEW kind \in Kinds, NEW t \in Service,
           ReadControl(s, c, kind, t)
    PROVE  Inv'
<1> DEFINE r == [place |-> "reading", kind |-> kind, origin |-> s, target |-> t]
           b == [pc |-> "sending_control", command |-> c]
<1>1. /\ backend[s].pc = "serving" /\ command[c].place = "new"
      /\ command' = [command EXCEPT ![c] = r] /\ backend' = [backend EXCEPT ![s] = b]
      /\ UNCHANGED <<inbound, events, to_controller, queue, router, job, backend_ready, controller, shutdown>>
  BY Zenon DEF ReadControl
<1>2. /\ r \in CommandState /\ r.place = "reading" /\ r.kind = kind /\ r.origin = s /\ r.target = t
      /\ b \in BackendState /\ b.pc = "sending_control" /\ b.command = c
  BY DEF CommandState, BackendState, Connected
<1> HIDE DEF r, b
<1>3. /\ command' \in [Command -> CommandState] /\ command'[c] = r
      /\ \A d \in Command : d # c => command'[d] = command[d]
      /\ backend' \in [Service -> BackendState] /\ backend'[s] = b
      /\ \A u \in Service : u # s => backend'[u] = backend[u]
  BY <1>1, <1>2, Zenon DEF Inv, Rest
<1>4. InboundShape' /\ QueueShape' /\ Rest'
  BY <1>1, <1>3, Zenon DEF Inv, InboundShape, QueueShape, Rest
<1>5. Jobs'
  <2>1. "serving" \in {"serving", "sending_control"} /\ "sending_control" \in {"serving", "sending_control"}
        /\ "sending_control" # "exited"
    OBVIOUS
  <2>2. \A u \in Service :
              /\ backend[u].pc \in {"serving", "sending_control"} => backend'[u].pc \in {"serving", "sending_control"}
              /\ backend'[u].pc = "exited" => backend[u].pc = "exited"
    BY <1>1, <1>2, <1>3, <2>1, Zenon
  <2>3. QED
    BY <1>1, <2>2, JobsFrame, Zenon DEF Inv
<1>6. Commands'
  <2>1. "new" # "reply_queued" /\ "new" \in Fresh
    BY DEF Fresh
  <2>2. (\A d \in Command, u \in Service : In(Answer(d), queue[u]) =>
            command[d].place = "reply_queued" /\ command[d].origin = u)'
    BY <1>1, <1>3, <2>1 DEF Inv, Commands
  <2>3. (\A d \in Command : command[d].place # "new" =>
          command[d].kind \in Kinds /\ command[d].origin \in Service /\ command[d].target \in Service)'
    BY <1>1, <1>2, <1>3, Zenon DEF Inv, Commands
  <2>4. (\A d \in Command : command[d].place \in Fresh => job[d].place = "new")'
    BY <1>1, <1>3, <2>1 DEF Inv, Commands
  <2>5. QED
    BY <2>2, <2>3, <2>4, Zenon DEF Commands
<1>7. InEvents'
  <2>1. "new" # "event"
    OBVIOUS
  <2>2. QED
    BY <1>1, <1>3, <2>1, EventsFrame, Zenon DEF Inv
<1>8. InTasks'
  <2>1. "new" # "reading" /\ "new" # "relaying" /\ "serving" # "sending_control" /\ None \notin Command
    BY DispatcherAssumption
  <2>2. \A u \in Service : backend[u].command # c
    BY <1>1, <2>1, Zenon DEF Inv, InTasks
  <2>3. ASSUME NEW u \in Service, backend'[u].pc = "sending_control"
        PROVE  /\ backend'[u].command \in Command /\ command'[backend'[u].command].place = "reading"
               /\ \A v \in Service : backend'[v].command = backend'[u].command => v = u
    <3>1. CASE u = s
      BY <1>2, <1>3, <2>2, <3>1, Zenon
    <3>2. CASE u # s
      <4>1. backend'[u] = backend[u]
        BY <1>3, <3>2, Zenon
      <4>2. /\ backend[u].command \in Command /\ command[backend[u].command].place = "reading"
            /\ \A v \in Service : backend[v].command = backend[u].command => v = u
        BY <2>3, <4>1, Zenon DEF Inv, InTasks
      <4>3. backend[u].command # c
        BY <2>2, Zenon
      <4>4. QED
        BY <1>2, <1>3, <4>1, <4>2, <4>3
    <3>3. QED
      BY <3>1, <3>2, Zenon
  <2>4. ASSUME NEW u \in Service, backend'[u].pc # "sending_control"
        PROVE  backend'[u].command = None
    BY <1>2, <1>3, <2>4, Zenon DEF Inv, InTasks
  <2>5. router'.pc = "relaying" => router'.command \in Command /\ command'[router'.command].place = "relaying"
    BY <1>1, <1>3, <2>1, Zenon DEF Inv, InTasks
  <2>6. QED
    BY <2>3, <2>4, <2>5, Zenon DEF InTasks
<1>9. StatusInSync'
  <2>1. "serving" # "exited" /\ "serving" \in Connected /\ "sending_control" \in Connected
    BY DEF Connected
  <2>2. \A u \in Service : backend'[u].pc # "exited" =>
              backend[u].pc # "exited" /\ (backend'[u].pc \in Connected <=> backend[u].pc \in Connected)
    BY <1>1, <1>2, <1>3, <2>1, Zenon
  <2>3. QED
    BY <1>1, <2>2, SyncFrame, Zenon DEF Inv
<1>10. QED
  BY <1>4, <1>5, <1>6, <1>7, <1>8, <1>9, Zenon DEF Inv

LEMMA RouteStatusInv ==
    ASSUME Inv, RouteStatus
    PROVE  Inv'
<1> DEFINE e == Head(events)
<1>1. /\ events # <<>> /\ e.kind # "control" /\ events' = Tail(events) /\ e \in BackendEvent
      /\ UNCHANGED <<inbound, to_controller, queue, router, backend, job, command, controller, shutdown>>
      /\ backend_ready' = IF e.kind = "up" THEN backend_ready \cup {e.service} ELSE backend_ready \ {e.service}
  BY ShorterFacts, Zenon DEF RouteStatus, Inv, InEvents
<1> HIDE DEF e
<1>2. backend_ready' \subseteq Service
  BY <1>1 DEF Inv, Rest, BackendEvent
<1>3. InboundShape' /\ QueueShape' /\ Rest'
  BY <1>1, <1>2, Zenon DEF Inv, InboundShape, QueueShape, Rest
<1>4. Jobs' /\ Commands' /\ InTasks'
  BY <1>1, JobsFrame, SameIsOnward, CommandsFrame, TasksFrame, Zenon DEF Inv
<1>5. InEvents'
  BY <1>1, EventTaken, Zenon DEF Inv
<1>6. ASSUME NEW s \in Service, router'.pc # "exited", backend'[s].pc # "exited"
      PROVE  Sync(s)'
  <2>1. Sync(s)
    BY <1>1, <1>6, Zenon DEF Inv, StatusInSync, Sync
  <2>2. IsStatus(e, s) => (s \in backend_ready' <=> e.kind = "up")
    BY <1>1 DEF IsStatus
  <2>3. ~IsStatus(e, s) => (s \in backend_ready' <=> s \in backend_ready)
    BY <1>1 DEF IsStatus
  <2>4. QED
    BY <1>1, <2>1, <2>2, <2>3, SyncTaken, Zenon DEF Inv, e
<1>7. StatusInSync'
  BY <1>6, Zenon DEF StatusInSync, Sync, IsStatus
<1>8. QED
  BY <1>3, <1>4, <1>5, <1>7, Zenon DEF Inv

LEMMA SubmitInv ==
    ASSUME Inv, NEW r \in Request, NEW s \in Service \cup {None}, Submit(r, s)
    PROVE  Inv'
<1>0. /\ r \in Job /\ r \notin Command /\ job[r].place = "new"
      /\ UNCHANGED <<events, to_controller, queue, router, backend, command, backend_ready, controller, shutdown>>
  BY DispatcherAssumption DEF Submit, Job
<1>1. PICK p \in {"inbound", "answered"} :
        /\ job' = [job EXCEPT ![r] = [place |-> p, service |-> s]]
        /\ \/ p = "inbound" /\ Len(inbound) < InboundCapacity /\ inbound' = Append(inbound, r)
           \/ p = "answered" /\ UNCHANGED inbound
  BY DEF Submit
<1>2. /\ job' \in [Job -> JobState] /\ job'[r].place = p
      /\ \A i \in Job : i # r => job'[i] = job[i]
  <2>1. p \in {"inbound", "queued", "answered"}
    OBVIOUS
  <2>2. QED
    BY <1>0, <1>1, <2>1, StartedFacts, Zenon DEF Inv
<1>3. "new" # "inbound" /\ "new" # "queued" /\ "new" # "pending" /\ p # "queued" /\ p # "pending" /\ "inbound" # "answered"
  OBVIOUS
<1>4. ~In(r, inbound) /\ \A t \in Service : ~In(Ask(r), queue[t])
  BY <1>0, <1>3 DEF Inv, Jobs
<1>5. InboundShape' /\ \A j \in Request : In(j, inbound') <=> In(j, inbound) \/ (j = r /\ p = "inbound")
  <2>1. inbound \in Seq(Request) /\ Once(inbound) /\ Len(inbound) <= InboundCapacity
    BY Zenon DEF Inv, InboundShape
  <2>2. CASE p = "inbound" /\ Len(inbound) < InboundCapacity /\ inbound' = Append(inbound, r)
    <3>1. /\ inbound' \in Seq(Request) /\ Len(inbound') = Len(inbound) + 1 /\ Once(inbound')
          /\ \A y : In(y, inbound') <=> In(y, inbound) \/ y = r
      BY <1>4, <2>1, <2>2, AppendFacts, Zenon
    <3>2. Len(inbound') <= InboundCapacity
      BY <2>1, <2>2, <3>1, DispatcherAssumption
    <3>3. QED
      BY <2>2, <3>1, <3>2, Zenon DEF InboundShape
  <2>3. CASE p = "answered" /\ UNCHANGED inbound
    BY <1>3, <2>1, <2>3, Zenon DEF InboundShape
  <2>4. QED
    BY <1>1, <2>2, <2>3, Zenon
<1>6. \A j \in Job : In(j, inbound') <=> In(j, inbound) \/ (j = r /\ p = "inbound")
  <2>1. inbound \in Seq(Request) /\ inbound' \in Seq(Request)
    BY <1>5, Zenon DEF Inv, InboundShape
  <2>2. \A j : In(j, inbound) \/ In(j, inbound') => j \in Request
    BY <2>1 DEF In
  <2>3. QED
    BY <1>5, <2>2, Zenon
<1>7. QueueShape' /\ Rest'
  BY <1>0, <1>2, Zenon DEF Inv, QueueShape, Rest
<1>8. Jobs'
  <2>1. (\A j \in Job : job[j].place = "inbound" <=> In(j, inbound))'
    BY <1>0, <1>2, <1>3, <1>4, <1>6 DEF Inv, Jobs
  <2>2. (\A j \in Job, t \in Service : In(Ask(j), queue[t]) <=> job[j].place = "queued" /\ job[j].service = t)'
    BY <1>0, <1>2, <1>3, <1>4 DEF Inv, Jobs
  <2>3. (\A j \in Job : job[j].place = "queued" => job[j].service \in Service)'
    BY <1>2, <1>3 DEF Inv, Jobs
  <2>4. (\A j \in Job : job[j].place = "pending" =>
          job[j].service \in Service /\ backend[job[j].service].pc \in {"serving", "sending_control"})'
    BY <1>0, <1>2, <1>3 DEF Inv, Jobs
  <2>5. QED
    BY <1>0, <2>1, <2>2, <2>3, <2>4, Zenon DEF Inv, Jobs
<1>9. Commands'
  <2>1. \A c \in Command : job'[c] = job[c]
    BY <1>0, <1>2 DEF Job
  <2>2. QED
    BY <1>0, <2>1, Zenon DEF Inv, Commands
<1>10. InEvents' /\ InTasks' /\ StatusInSync'
  BY <1>0, EventsFrame, TasksFrame, SyncFrame, Zenon DEF Inv
<1>11. QED
  BY <1>5, <1>7, <1>8, <1>9, <1>10, Zenon DEF Inv

\* A reply goes into a queue.
LEMMA ReplyPushed ==
    ASSUME Inv, NEW c \in Command, command[c].place \notin {"new", "reply_queued"}, Accepts(command[c].origin),
           Pushed(command[c].origin, Answer(c)), command' = Moved({c}, "reply_queued"),
           UNCHANGED <<inbound, backend, job>>
    PROVE  QueueShape' /\ Jobs' /\ Commands'
<1> DEFINE s == command[c].origin
<1>1. s \in Service /\ ~In(Answer(c), queue[s]) /\ Answer(c) \in BackendCmd
  BY MessageFacts DEF Inv, Commands
<1>2. /\ QueueShape'
      /\ \A t \in Service : \A x : In(x, queue'[t]) <=> In(x, queue[t]) \/ (t = s /\ x = Answer(c))
      /\ \A t \in Service : t # s => queue'[t] = queue[t]
  BY <1>1, PushedFacts, Zenon DEF Inv
<1>3. /\ command'[c].place = "reply_queued"
      /\ \A d \in Command : d # c => command'[d] = command[d]
      /\ \A d \in Command : /\ command'[d].kind = command[d].kind
                            /\ command'[d].origin = command[d].origin
                            /\ command'[d].target = command[d].target
  <2>1. "reply_queued" \in Later
    BY DEF Later
  <2>2. QED
    BY <2>1, OneMoved, Zenon DEF Inv
<1>4. Jobs'
  <2>1. \A j \in Job, t \in Service : In(Ask(j), queue'[t]) <=> In(Ask(j), queue[t])
    <3>1. \A j \in Job : Ask(j) # Answer(c)
      BY MessageFacts, Zenon
    <3>2. QED
      BY <1>2, <3>1, Zenon
  <2>2. \A t \in Service : backend[t].pc = "exited" => queue'[t] = <<>>
    BY <1>2 DEF Accepts, Inv, Jobs
  <2>3. QED
    BY <2>1, <2>2, Zenon DEF Inv, Jobs
<1>5. Commands'
  <2>1. (\A d \in Command, t \in Service : In(Answer(d), queue[t]) =>
            command[d].place = "reply_queued" /\ command[d].origin = t)'
    <3>1. ASSUME NEW d \in Command, NEW t \in Service, In(Answer(d), queue'[t])
          PROVE  command'[d].place = "reply_queued" /\ command'[d].origin = t
      <4>1. CASE d = c
        <5>1. In(Answer(d), queue[t]) => command[d].place = "reply_queued"
          BY Zenon DEF Inv, Commands
        <5>2. t = s
          BY <1>2, <3>1, <4>1, <5>1
        <5>3. QED
          BY <1>3, <4>1, <5>2, Zenon
      <4>2. CASE d # c
        <5>1. In(Answer(d), queue[t])
          <6>1. Answer(d) # Answer(c)
            BY <4>2, MessageFacts, Zenon
          <6>2. QED
            BY <1>2, <3>1, <6>1, Zenon
        <5>2. command[d].place = "reply_queued" /\ command[d].origin = t
          BY <5>1, Zenon DEF Inv, Commands
        <5>3. command'[d] = command[d]
          BY <1>3, <4>2, Zenon
        <5>4. QED
          BY <5>2, <5>3, Zenon
      <4>3. QED
        BY <4>1, <4>2, Zenon
    <3>2. QED
      BY <3>1, Zenon
  <2>2. (\A d \in Command : command[d].place # "new" =>
          command[d].kind \in Kinds /\ command[d].origin \in Service /\ command[d].target \in Service)'
    BY <1>3, Zenon DEF Inv, Commands
  <2>3. (\A d \in Command : command[d].place \in Fresh => job[d].place = "new")'
    <3>1. "reply_queued" \notin Fresh
      BY DEF Fresh
    <3>2. QED
      BY <1>3, <3>1, Zenon DEF Inv, Commands
  <2>4. QED
    BY <2>1, <2>2, <2>3, Zenon DEF Commands
<1>6. QED
  BY <1>2, <1>4, <1>5, Zenon

\* A reply is sent or given up.
LEMMA TryReplyFacts ==
    ASSUME Inv, NEW c \in Command, command[c].place \notin {"new", "reply_queued"}, TryReply(c),
           UNCHANGED <<inbound, backend, job>>
    PROVE  /\ QueueShape' /\ Jobs' /\ Commands'
           /\ command' \in [Command -> CommandState]
           /\ \A d \in Command : d # c => command'[d] = command[d]
<1>1. {"reply_queued", "lost", "dropped"} \subseteq Later /\ {"lost", "dropped"} \cap (Fresh \cup {"new"}) = {}
  BY DEF Later, Settled, Fresh
<1>2. PICK p \in {"reply_queued", "lost", "dropped"} : command' = Moved({c}, p)
  BY Zenon DEF TryReply
<1>3. /\ command' \in [Command -> CommandState] /\ command'[c].place = p
      /\ \A d \in Command : d # c => command'[d] = command[d]
      /\ \A d \in Command : /\ command'[d].kind = command[d].kind
                            /\ command'[d].origin = command[d].origin
                            /\ command'[d].target = command[d].target
  <2>1. p \in Later
    BY <1>1, Zenon
  <2>2. QED
    BY <1>2, <2>1, OneMoved, Zenon DEF Inv
<1>4. CASE Accepts(command[c].origin)
  BY <1>3, <1>4, ReplyPushed, Zenon DEF TryReply, Pushed, Answer
<1>5. CASE ~Accepts(command[c].origin)
  <2>1. UNCHANGED queue /\ command'[c].place \in {"lost", "dropped"}
    <3>1. UNCHANGED queue /\ command' = Moved({c}, IF backend[command[c].origin].pc = "exited" THEN "lost" ELSE "dropped")
      BY <1>5, Zenon DEF TryReply
    <3>2. PICK q \in {"lost", "dropped"} : command' = Moved({c}, q)
      BY <3>1, Zenon
    <3>3. q \in Later
      BY <1>1, Zenon
    <3>4. command'[c].place = q
      BY <3>2, <3>3, OneMoved, Zenon DEF Inv
    <3>5. QED
      BY <3>1, <3>4, Zenon
  <2>2. QueueShape' /\ Jobs'
    BY <2>1, JobsFrame, Zenon DEF Inv, QueueShape
  <2>3. Onward(c)
    BY <1>1, <1>3, <2>1 DEF Onward
  <2>4. QED
    BY <1>3, <2>1, <2>2, <2>3, SameIsOnward, CommandsFrame, Zenon DEF Inv
<1>6. QED
  BY <1>4, <1>5, Zenon

LEMMA SendReplyInv ==
    ASSUME Inv, NEW c \in Command, SendReply(c)
    PROVE  Inv'
<1>1. /\ command[c].place = "replying"
      /\ UNCHANGED <<inbound, events, to_controller, router, backend, job, backend_ready, controller, shutdown>>
  BY Zenon DEF SendReply
<1>2. command[c].place \notin {"new", "reply_queued", "event", "reading", "relaying"}
  BY <1>1
<1>3. TryReply(c)
  BY Zenon DEF SendReply, TryReply, Accepts
<1>4. /\ QueueShape' /\ Jobs' /\ Commands'
      /\ command' \in [Command -> CommandState]
      /\ \A d \in Command : d # c => command'[d] = command[d]
  BY <1>1, <1>2, <1>3, TryReplyFacts, Zenon
<1>5. InboundShape' /\ Rest' /\ StatusInSync'
  BY <1>1, <1>4, SyncFrame, Zenon DEF Inv, InboundShape, Rest
<1>6. InEvents' /\ InTasks'
  <2>1. \A d \in Command : command[d].place = "event" => command'[d].place = "event"
    BY <1>2, <1>4, Zenon
  <2>2. \A d \in Command : command[d].place \in {"reading", "relaying"} => command'[d].place = command[d].place
    BY <1>2, <1>4, Zenon
  <2>3. QED
    BY <1>1, <2>1, <2>2, EventsFrame, TasksFrame, Zenon DEF Inv
<1>7. QED
  BY <1>4, <1>5, <1>6, Zenon DEF Inv

LEMMA RouterFacts ==
    ASSUME NEW pc \in {"select", "exited"}
    PROVE  /\ At(pc) \in [pc : {"select", "relaying", "exited"}, command : Command \cup {None}]
           /\ At(pc).pc = pc
  BY DEF At

\* The router is done with its command and turns to what is next.
LEMMA RouterDone ==
    ASSUME InTasks, router'.pc # "relaying", UNCHANGED backend,
           \A c \in Command : command[c].place = "reading" => command'[c].place = "reading"
    PROVE  InTasks'
  BY Zenon DEF InTasks

LEMMA RelayInv ==
    ASSUME Inv, Relay
    PROVE  Inv'
<1> DEFINE c == router.command
<1>1. /\ router.pc = "relaying" /\ c \in Command /\ command[c].place = "relaying" /\ router' = At("select")
      /\ UNCHANGED <<inbound, events, backend, job, backend_ready, controller, shutdown>>
  BY Zenon DEF Relay, Inv, InTasks
<1>2. command[c].place \notin {"new", "reply_queued", "event", "reading"}
  BY <1>1
<1>3. /\ At("select") \in [pc : {"select", "relaying", "exited"}, command : Command \cup {None}]
      /\ At("select").pc = "select" /\ "select" # "relaying" /\ "relaying" # "exited"
  BY DEF At
<1>4. /\ QueueShape' /\ Jobs' /\ Commands'
      /\ command' \in [Command -> CommandState]
      /\ \A d \in Command : d # c => command'[d] = command[d]
      /\ to_controller' \in Seq(Command) /\ Len(to_controller') <= ControllerCapacity
  <2>0. to_controller \in Seq(Command) /\ Len(to_controller) <= ControllerCapacity
    BY Zenon DEF Inv, Rest
  <2>1. CASE TryReply(c) /\ UNCHANGED to_controller
    BY <1>1, <1>2, <2>0, <2>1, TryReplyFacts, Zenon
  <2>2. CASE /\ Len(to_controller) < ControllerCapacity
             /\ to_controller' = Append(to_controller, c)
             /\ command' = Moved({c}, "controller")
             /\ UNCHANGED queue
    <3>1. to_controller' \in Seq(Command) /\ Len(to_controller') <= ControllerCapacity
      BY <1>1, <2>0, <2>2, DispatcherAssumption
    <3>2. "controller" \in Later /\ "controller" \notin Fresh /\ "controller" # "new"
      BY DEF Later, Fresh
    <3>3. /\ command' \in [Command -> CommandState] /\ command'[c].place = "controller"
          /\ \A d \in Command : d # c => command'[d] = command[d]
          /\ \A d \in Command : /\ command'[d].kind = command[d].kind
                                /\ command'[d].origin = command[d].origin
                                /\ command'[d].target = command[d].target
      BY <1>1, <2>2, <3>2, OneMoved, Zenon DEF Inv
    <3>4. QueueShape' /\ Jobs'
      BY <1>1, <2>2, JobsFrame, Zenon DEF Inv, QueueShape
    <3>5. Onward(c)
      <4>1. command[c].place # "new" /\ command[c].place # "reply_queued"
        BY <1>1
      <4>2. QED
        BY <1>1, <3>2, <3>3, <4>1, Zenon DEF Onward
    <3>6. Commands'
      BY <1>1, <2>2, <3>3, <3>5, SameIsOnward, CommandsFrame, Zenon DEF Inv
    <3>7. QED
      BY <3>1, <3>3, <3>4, <3>6, Zenon
  <2>3. QED
    BY <2>1, <2>2, Zenon DEF Relay
<1> HIDE DEF c
<1>5. InboundShape' /\ Rest' /\ StatusInSync'
  BY <1>1, <1>3, <1>4, SyncFrame, Zenon DEF Inv, InboundShape, Rest
<1>6. InEvents' /\ InTasks'
  <2>1. \A d \in Command : command[d].place = "event" => command'[d].place = "event"
    BY <1>2, <1>4, Zenon
  <2>2. \A d \in Command : command[d].place = "reading" => command'[d].place = "reading"
    BY <1>2, <1>4, Zenon
  <2>3. QED
    BY <1>1, <1>3, <2>1, <2>2, EventsFrame, RouterDone, Zenon DEF Inv
<1>7. QED
  BY <1>4, <1>5, <1>6, Zenon DEF Inv

LEMMA RouteControlInv ==
    ASSUME Inv, RouteControl
    PROVE  Inv'
<1> DEFINE c == Head(events).command
<1>1. /\ router.pc = "select" /\ events # <<>> /\ Head(events).kind = "control" /\ events' = Tail(events)
      /\ UNCHANGED <<inbound, to_controller, backend, job, backend_ready, controller, shutdown>>
  BY Zenon DEF RouteControl
<1>2. c \in Command /\ command[c].place = "event" /\ command[c].kind \in Kinds
  <2>1. 1 \in DOMAIN events /\ events[1] = Head(events)
    BY <1>1, ShorterFacts, Zenon DEF Inv, InEvents
  <2>2. c \in Command /\ command[c].place = "event"
    BY <1>1, <2>1, Zenon DEF Inv, InEvents
  <2>3. command[c].place # "new"
    BY <2>2
  <2>4. QED
    BY <2>2, <2>3, Zenon DEF Inv, Commands
<1>3. command[c].place \notin {"new", "reply_queued", "reading", "relaying"} /\ command[c].place \in Fresh
  BY <1>2 DEF Fresh
<1>4. \/ TryReply(c) /\ UNCHANGED router
      \/ \E p \in {"ignored", "local"} : command' = Moved({c}, p) /\ UNCHANGED <<queue, router>>
      \/ /\ router' = [pc |-> "relaying", command |-> c]
         /\ command' = Moved({c}, "relaying") /\ UNCHANGED queue
  BY Zenon DEF RouteControl
<1> HIDE DEF c
<1>5. ASSUME NEW p \in {"ignored", "local", "relaying"}, command' = Moved({c}, p), UNCHANGED queue
      PROVE  /\ QueueShape' /\ Jobs' /\ Commands'
             /\ command' \in [Command -> CommandState] /\ command'[c].place = p
             /\ \A d \in Command : d # c => command'[d] = command[d]
  <2>1. p \in Later /\ p # "new"
    BY DEF Later, Settled
  <2>2. /\ command' \in [Command -> CommandState] /\ command'[c].place = p
        /\ \A d \in Command : d # c => command'[d] = command[d]
        /\ \A d \in Command : /\ command'[d].kind = command[d].kind
                              /\ command'[d].origin = command[d].origin
                              /\ command'[d].target = command[d].target
    BY <1>2, <1>5, <2>1, OneMoved, Zenon DEF Inv
  <2>3. QueueShape' /\ Jobs'
    BY <1>1, <1>5, JobsFrame, Zenon DEF Inv, QueueShape
  <2>4. Onward(c)
    BY <1>2, <1>3, <2>1, <2>2 DEF Onward
  <2>5. QED
    BY <1>1, <1>5, <2>2, <2>3, <2>4, SameIsOnward, CommandsFrame, Zenon DEF Inv
<1>6. /\ QueueShape' /\ Jobs' /\ Commands'
      /\ command' \in [Command -> CommandState]
      /\ \A d \in Command : d # c => command'[d] = command[d]
      /\ \/ UNCHANGED router
         \/ router' = [pc |-> "relaying", command |-> c] /\ command'[c].place = "relaying"
  <2>1. CASE TryReply(c) /\ UNCHANGED router
    BY <1>1, <1>2, <1>3, <2>1, TryReplyFacts, Zenon
  <2>2. CASE \E p \in {"ignored", "local"} : command' = Moved({c}, p) /\ UNCHANGED <<queue, router>>
    BY <1>5, <2>2, Zenon
  <2>3. CASE router' = [pc |-> "relaying", command |-> c] /\ command' = Moved({c}, "relaying") /\ UNCHANGED queue
    BY <1>5, <2>3, Zenon
  <2>4. QED
    BY <1>4, <2>1, <2>2, <2>3, Zenon
<1>7. /\ router' \in [pc : {"select", "relaying", "exited"}, command : Command \cup {None}]
      /\ router'.pc # "exited"
      /\ router'.pc = "relaying" => router'.command = c /\ command'[c].place = "relaying"
  BY <1>1, <1>2, <1>6 DEF Inv, Rest
<1>8. InboundShape' /\ Rest'
  BY <1>1, <1>6, <1>7, Zenon DEF Inv, InboundShape, Rest
<1>9. InEvents'
  BY <1>1, <1>6, EventTaken, Zenon DEF Inv, c
<1>10. InTasks'
  <2>1. \A d \in Command : command[d].place = "reading" => command'[d].place = "reading"
    BY <1>3, <1>6, Zenon
  <2>2. QED
    BY <1>1, <1>2, <1>7, <2>1, Zenon DEF Inv, InTasks
<1>11. ASSUME NEW s \in Service, backend'[s].pc # "exited"
       PROVE  Sync(s)'
  <2>1. Sync(s)
    <3>1. router.pc # "exited"
      BY <1>1
    <3>2. QED
      BY <1>1, <1>11, <3>1, Zenon DEF Inv, StatusInSync, Sync
  <2>2. ~IsStatus(Head(events), s)
    BY <1>1, Zenon DEF IsStatus
  <2>3. QED
    BY <1>1, <2>1, <2>2, SyncTaken, Zenon DEF Inv
<1>12. StatusInSync'
  BY <1>11, Zenon DEF StatusInSync, Sync, IsStatus
<1>13. QED
  BY <1>6, <1>8, <1>9, <1>10, <1>12, Zenon DEF Inv

\* Replies only leave the queues, and requests that are new stay so.
LEMMA CommandsShrink ==
    ASSUME Commands,
           \A d \in Command, t \in Service : In(Answer(d), queue'[t]) =>
              In(Answer(d), queue[t]) /\ command'[d].place = command[d].place,
           \A d \in Command : /\ command'[d].kind = command[d].kind
                              /\ command'[d].origin = command[d].origin
                              /\ command'[d].target = command[d].target
                              /\ command'[d].place \in Fresh => command[d].place \in Fresh
                              /\ command'[d].place # "new" => command[d].place # "new"
                              /\ command'[d].place \in Fresh /\ job[d].place = "new" => job'[d].place = "new"
    PROVE  Commands'
<1>1. (\A d \in Command, t \in Service : In(Answer(d), queue[t]) =>
            command[d].place = "reply_queued" /\ command[d].origin = t)'
  BY DEF Commands
<1>2. (\A d \in Command : command[d].place # "new" =>
          command[d].kind \in Kinds /\ command[d].origin \in Service /\ command[d].target \in Service)'
  BY Zenon DEF Commands
<1>3. (\A d \in Command : command[d].place \in Fresh => job[d].place = "new")'
  BY Zenon DEF Commands
<1>4. QED
  BY <1>1, <1>2, <1>3, Zenon DEF Commands

\* A request goes into the queue of s.
LEMMA RequestPushed ==
    ASSUME Inv, NEW j \in Job, NEW s \in Service, Accepts(s), Pushed(s, Ask(j)), UNCHANGED backend,
           job[j].place \notin {"queued", "pending"}, job'[j].place = "queued", job'[j].service = s,
           \A i \in Job : i # j => job'[i] = job[i],
           ~In(j, inbound'), \A i \in Job : i # j => (In(i, inbound') <=> In(i, inbound))
    PROVE  /\ QueueShape' /\ Jobs'
           /\ \A d \in Command, t \in Service : In(Answer(d), queue'[t]) => In(Answer(d), queue[t])
<1>1. ~In(Ask(j), queue[s]) /\ Ask(j) \in BackendCmd
  BY MessageFacts DEF Inv, Jobs
<1>2. /\ QueueShape'
      /\ \A t \in Service : \A x : In(x, queue'[t]) <=> In(x, queue[t]) \/ (t = s /\ x = Ask(j))
      /\ \A t \in Service : t # s => queue'[t] = queue[t]
  BY <1>1, PushedFacts, Zenon DEF Inv
<1>3. \A d \in Command, t \in Service : In(Answer(d), queue'[t]) => In(Answer(d), queue[t])
  <2>1. \A d \in Command : Answer(d) # Ask(j)
    BY MessageFacts, Zenon
  <2>2. QED
    BY <1>2, <2>1, Zenon
<1>4. "queued" # "inbound" /\ "queued" # "pending"
  OBVIOUS
<1>5. (\A i \in Job : job[i].place = "inbound" <=> In(i, inbound))'
  BY <1>4 DEF Inv, Jobs
<1>6. (\A i \in Job, t \in Service : In(Ask(i), queue[t]) <=> job[i].place = "queued" /\ job[i].service = t)'
  <2>1. ASSUME NEW i \in Job, NEW t \in Service, i # j
        PROVE  In(Ask(i), queue'[t]) <=> job'[i].place = "queued" /\ job'[i].service = t
    <3>1. Ask(i) # Ask(j)
      BY <2>1 DEF Ask
    <3>2. In(Ask(i), queue'[t]) <=> In(Ask(i), queue[t])
      BY <1>2, <3>1, Zenon
    <3>3. In(Ask(i), queue[t]) <=> job[i].place = "queued" /\ job[i].service = t
      BY Zenon DEF Inv, Jobs
    <3>4. QED
      BY <2>1, <3>2, <3>3
  <2>2. ASSUME NEW t \in Service
        PROVE  In(Ask(j), queue'[t]) <=> job'[j].place = "queued" /\ job'[j].service = t
    <3>1. ~In(Ask(j), queue[t])
      BY DEF Inv, Jobs
    <3>2. QED
      BY <1>2, <3>1
  <2>3. QED
    BY <2>1, <2>2, Zenon
<1>7. (\A i \in Job : job[i].place = "queued" => job[i].service \in Service)'
  BY Zenon DEF Inv, Jobs
<1>8. (\A i \in Job : job[i].place = "pending" =>
          job[i].service \in Service /\ backend[job[i].service].pc \in {"serving", "sending_control"})'
  BY <1>4, Zenon DEF Inv, Jobs
<1>9. (\A t \in Service : backend[t].pc = "exited" => queue[t] = <<>>)'
  BY <1>2 DEF Inv, Jobs, Accepts
<1>10. QED
  BY <1>2, <1>3, <1>5, <1>6, <1>7, <1>8, <1>9, Zenon DEF Jobs

LEMMA ForwardLocalInv ==
    ASSUME Inv, NEW c \in Command, ForwardLocal(c)
    PROVE  Inv'
<1> DEFINE t == command[c].target
<1>1. /\ command[c].place = "local"
      /\ UNCHANGED <<inbound, events, to_controller, router, backend, backend_ready, controller, shutdown>>
  BY Zenon DEF ForwardLocal
<1>2. command[c].place \notin {"new", "reply_queued", "event", "reading", "relaying"} /\ command[c].place \in Fresh
  BY <1>1 DEF Fresh
<1>3. t \in Service /\ job[c].place = "new" /\ c \in Job
  BY <1>2 DEF Inv, Commands, Job
<1>4. {"awaiting", "replying"} \subseteq Later /\ {"awaiting", "replying"} \cap (Fresh \cup {"new"}) = {}
  BY DEF Later, Fresh
<1>5. PICK p \in {"awaiting", "replying"} :
        /\ command' = Moved({c}, p)
        /\ \/ Accepts(t) /\ Pushed(t, Ask(c)) /\ job' = [job EXCEPT ![c] = [place |-> "queued", service |-> t]]
           \/ UNCHANGED <<queue, job>>
  BY Zenon DEF ForwardLocal, Pushed, Ask
<1> HIDE DEF t
<1>6. p \in Later /\ p \notin Fresh /\ p # "new"
  BY <1>4
<1>7. /\ command' \in [Command -> CommandState] /\ command'[c].place = p
      /\ \A d \in Command : d # c => command'[d] = command[d]
      /\ \A d \in Command : /\ command'[d].kind = command[d].kind
                            /\ command'[d].origin = command[d].origin
                            /\ command'[d].target = command[d].target
  BY <1>5, <1>6, OneMoved, Zenon DEF Inv
<1>8. InEvents' /\ InTasks' /\ StatusInSync' /\ InboundShape'
  <2>1. \A d \in Command : command[d].place = "event" => command'[d].place = "event"
    BY <1>2, <1>7, Zenon
  <2>2. \A d \in Command : command[d].place \in {"reading", "relaying"} => command'[d].place = command[d].place
    BY <1>2, <1>7, Zenon
  <2>3. QED
    BY <1>1, <2>1, <2>2, EventsFrame, TasksFrame, SyncFrame, Zenon DEF Inv, InboundShape
<1>9. Onward(c)
  BY <1>2, <1>6, <1>7 DEF Onward
<1>10. CASE UNCHANGED <<queue, job>>
  <2>1. QueueShape' /\ Jobs' /\ Rest'
    BY <1>1, <1>7, <1>10, JobsFrame, Zenon DEF Inv, QueueShape, Rest
  <2>2. Commands'
    BY <1>7, <1>9, <1>10, SameIsOnward, CommandsFrame, Zenon DEF Inv
  <2>3. QED
    BY <1>8, <2>1, <2>2, Zenon DEF Inv
<1>11. CASE Accepts(t) /\ Pushed(t, Ask(c)) /\ job' = [job EXCEPT ![c] = [place |-> "queued", service |-> t]]
  <2>1. /\ job' \in [Job -> JobState] /\ job'[c].place = "queued" /\ job'[c].service = t
        /\ \A i \in Job : i # c => job'[i] = job[i]
    <3>1. "queued" \in {"inbound", "queued", "answered"} /\ t \in Service \cup {None}
      BY <1>3
    <3>2. QED
      BY <1>3, <1>11, <3>1, StartedFacts, Zenon DEF Inv
  <2>2. job[c].place \notin {"queued", "pending"} /\ job[c].place # "inbound"
    BY <1>3
  <2>3. ~In(c, inbound)
    BY <1>3, <2>2, Zenon DEF Inv, Jobs
  <2>4. /\ QueueShape' /\ Jobs'
        /\ \A d \in Command, u \in Service : In(Answer(d), queue'[u]) => In(Answer(d), queue[u])
    BY <1>1, <1>3, <1>11, <2>1, <2>2, <2>3, RequestPushed, Zenon
  <2>5. Commands'
    <3>1. \A d \in Command : d \in Job
      BY DEF Job
    <3>2. \A d \in Command, u \in Service : In(Answer(d), queue'[u]) =>
              In(Answer(d), queue[u]) /\ command'[d].place = command[d].place
      <4>1. \A u \in Service : ~In(Answer(c), queue[u])
        BY <1>2 DEF Inv, Commands
      <4>2. QED
        BY <1>7, <2>4, <4>1, Zenon
    <3>3. \A d \in Command : d # c => command'[d].place = command[d].place /\ job'[d].place = job[d].place
      BY <1>7, <2>1, <3>1, Zenon
    <3>4. \A d \in Command : /\ command'[d].place \in Fresh => command[d].place \in Fresh
                             /\ command'[d].place # "new" => command[d].place # "new"
                             /\ command'[d].place \in Fresh /\ job[d].place = "new" => job'[d].place = "new"
      BY <1>2, <1>6, <1>7, <3>3, Zenon
    <3>5. QED
      BY <1>7, <3>2, <3>4, CommandsShrink, Zenon DEF Inv
  <2>6. Rest'
    BY <1>1, <1>7, <2>1, Zenon DEF Inv, Rest
  <2>7. QED
    BY <1>8, <2>4, <2>5, <2>6, Zenon DEF Inv
<1>12. QED
  BY <1>5, <1>10, <1>11, Zenon

LEMMA RouteInboundInv ==
    ASSUME Inv, RouteInbound
    PROVE  Inv'
<1> DEFINE r == Head(inbound)
           s == job[r].service
<1>1. /\ inbound # <<>> /\ inbound' = Tail(inbound)
      /\ UNCHANGED <<events, to_controller, router, backend, command, backend_ready, controller, shutdown>>
      /\ \/ s # None /\ Accepts(s) /\ Pushed(s, Ask(r)) /\ job' = [job EXCEPT ![r].place = "queued"]
         \/ job' = Answered({r}) /\ UNCHANGED queue
  BY Zenon DEF RouteInbound, Pushed, Ask
<1>2. /\ InboundShape' /\ r \in Request /\ In(r, inbound)
      /\ \A y : In(y, inbound') <=> In(y, inbound) /\ y # r
  <2>1. inbound \in Seq(Request) /\ Once(inbound) /\ Len(inbound) <= InboundCapacity
    BY Zenon DEF Inv, InboundShape
  <2>2. /\ inbound' \in Seq(Request) /\ Len(inbound') < Len(inbound) /\ r \in Request /\ In(r, inbound)
        /\ Once(inbound') /\ \A y : In(y, inbound') <=> In(y, inbound) /\ y # r
    BY <1>1, <2>1, TailFacts, Zenon
  <2>3. Len(inbound') <= InboundCapacity
    BY <2>1, <2>2, DispatcherAssumption
  <2>4. QED
    BY <2>2, <2>3, Zenon DEF InboundShape
<1>3. r \in Job /\ r \notin Command /\ \A d \in Command : d \in Job /\ d # r
  BY <1>2, DispatcherAssumption DEF Job
<1>4. job[r].place = "inbound" /\ s \in Service \cup {None}
  <2>1. job[r].place = "inbound"
    BY <1>2, <1>3, Zenon DEF Inv, Jobs
  <2>2. job[r] \in JobState
    BY <1>3, Zenon DEF Inv, Rest
  <2>3. QED
    BY <2>1, <2>2 DEF JobState
<1> HIDE DEF r, s
<1>5. InEvents' /\ InTasks' /\ StatusInSync'
  BY <1>1, EventsFrame, TasksFrame, SyncFrame, Zenon DEF Inv
<1>6. ASSUME QueueShape', Jobs', job' \in [Job -> JobState],
             \A i \in Job : i # r => job'[i] = job[i],
             \A d \in Command, t \in Service : In(Answer(d), queue'[t]) => In(Answer(d), queue[t])
      PROVE  Inv'
  <2>1. Rest'
    BY <1>1, <1>6, Zenon DEF Inv, Rest
  <2>2. Commands'
    BY <1>1, <1>3, <1>6, CommandsShrink, Zenon DEF Inv
  <2>3. QED
    BY <1>2, <1>5, <1>6, <2>1, <2>2, Zenon DEF Inv
<1>7. CASE s # None /\ Accepts(s) /\ Pushed(s, Ask(r)) /\ job' = [job EXCEPT ![r].place = "queued"]
  <2>1. "queued" \in {"queued", "pending"} /\ s \in Service /\ job[r].place \notin {"queued", "pending"}
    BY <1>4, <1>7
  <2>2. /\ job' \in [Job -> JobState] /\ job'[r].place = "queued" /\ job'[r].service = s
        /\ \A i \in Job : i # r => job'[i] = job[i]
    BY <1>3, <1>7, <2>1, PlacedFacts, Zenon DEF Inv, s
  <2>3. /\ QueueShape' /\ Jobs'
        /\ \A d \in Command, t \in Service : In(Answer(d), queue'[t]) => In(Answer(d), queue[t])
    BY <1>1, <1>2, <1>3, <1>7, <2>1, <2>2, RequestPushed, Zenon
  <2>4. QED
    BY <1>6, <2>2, <2>3, Zenon
<1>8. CASE job' = Answered({r}) /\ UNCHANGED queue
  <2>1. job' \in [Job -> JobState] /\ \A i \in Job : i # r => job'[i] = job[i]
    <3>1. \A i \in Job : i # r => i \notin {r}
      OBVIOUS
    <3>2. QED
      BY <1>8, <3>1, AnsweredFacts, Zenon DEF Inv
  <2>2. \A t \in Service : ~In(Ask(r), queue[t])
    BY <1>3, <1>4 DEF Inv, Jobs
  <2>3. \A j \in Job : j \in {r} => ~In(j, inbound') /\ \A t \in Service : ~In(Ask(j), queue'[t])
    BY <1>2, <1>8, <2>2
  <2>4. \A j \in Job : j \notin {r} =>
              /\ In(j, inbound') <=> In(j, inbound)
              /\ \A t \in Service : In(Ask(j), queue'[t]) <=> In(Ask(j), queue[t])
              /\ job[j].place = "pending" => backend'[job[j].service].pc \in {"serving", "sending_control"}
    BY <1>1, <1>2, <1>8 DEF Inv, Jobs
  <2>5. \A t \in Service : backend'[t].pc = "exited" => queue'[t] = <<>>
    BY <1>1, <1>8, Zenon DEF Inv, Jobs
  <2>6. Jobs'
    BY <1>8, <2>3, <2>4, <2>5, AnsweredJobs, Zenon DEF Inv
  <2>7. QED
    BY <1>6, <1>8, <2>1, <2>6, Zenon DEF Inv, QueueShape
<1>9. QED
  BY <1>1, <1>7, <1>8, Zenon

LEMMA RouterExitInv ==
    ASSUME Inv, RouterExit
    PROVE  Inv'
<1> DEFINE J == {inbound[i] : i \in DOMAIN inbound}
           C == {events[i].command : i \in DOMAIN events} \ {None}
<1>1. /\ router' = At("exited") /\ inbound' = <<>> /\ job' = Answered(J) /\ events' = <<>> /\ command' = Moved(C, "lost")
      /\ UNCHANGED <<to_controller, queue, backend, backend_ready, controller, shutdown>>
  BY Zenon DEF RouterExit
<1>2. \A j : j \in J <=> In(j, inbound)
  BY DEF In
<1>3. \A j \in J : j \in Request
  BY DEF Inv, InboundShape
<1>4. \A c \in Command : c \in C => command[c].place = "event"
  BY DEF Inv, InEvents
<1> HIDE DEF J, C
<1>5. InboundShape'
  BY <1>1, EmptyFacts, DispatcherAssumption DEF InboundShape
<1>6. /\ job' \in [Job -> JobState]
      /\ \A j \in Job : j \notin J => job'[j] = job[j]
  BY <1>1, AnsweredFacts, Zenon DEF Inv
<1>7. /\ command' \in [Command -> CommandState]
      /\ \A d \in Command : /\ d \in C => command'[d].place = "lost"
                            /\ d \notin C => command'[d] = command[d]
                            /\ command'[d].kind = command[d].kind
                            /\ command'[d].origin = command[d].origin
                            /\ command'[d].target = command[d].target
  <2>1. "lost" \in Later
    BY DEF Later, Settled
  <2>2. QED
    BY <1>1, <2>1, MovedFacts, Zenon DEF Inv
<1>8. QueueShape' /\ Rest'
  <2>1. "exited" \in {"select", "exited"}
    OBVIOUS
  <2>2. At("exited") \in [pc : {"select", "relaying", "exited"}, command : Command \cup {None}]
    BY <2>1, RouterFacts, Zenon
  <2>3. QED
    BY <1>1, <1>6, <1>7, <2>2, Zenon DEF Inv, QueueShape, Rest
<1>9. Jobs'
  <2>1. \A y : ~In(y, inbound')
    BY <1>1, EmptyFacts, Zenon
  <2>2. \A j \in Job : j \in J => ~In(j, inbound') /\ \A t \in Service : ~In(Ask(j), queue'[t])
    <3>1. "inbound" # "queued"
      OBVIOUS
    <3>2. QED
      BY <1>1, <1>2, <2>1, <3>1 DEF Inv, Jobs
  <2>3. \A j \in Job : j \notin J =>
              /\ In(j, inbound') <=> In(j, inbound)
              /\ \A t \in Service : In(Ask(j), queue'[t]) <=> In(Ask(j), queue[t])
              /\ job[j].place = "pending" => backend'[job[j].service].pc \in {"serving", "sending_control"}
    BY <1>1, <1>2, <2>1, Zenon DEF Inv, Jobs
  <2>4. \A t \in Service : backend'[t].pc = "exited" => queue'[t] = <<>>
    BY <1>1, Zenon DEF Inv, Jobs
  <2>5. QED
    BY <1>1, <2>2, <2>3, <2>4, AnsweredJobs, Zenon DEF Inv
<1>10. Commands'
  <2>1. "lost" \notin Fresh /\ "lost" # "new" /\ "event" # "reply_queued" /\ "event" # "new"
    BY DEF Fresh
  <2>2. \A d \in Command, t \in Service : In(Answer(d), queue'[t]) =>
              In(Answer(d), queue[t]) /\ command'[d].place = command[d].place
    BY <1>1, <1>4, <1>7, <2>1, Zenon DEF Inv, Commands
  <2>3. \A d \in Command : d \in Job /\ d \notin J
    BY <1>3, DispatcherAssumption DEF Job
  <2>4. \A d \in Command : /\ command'[d].place \in Fresh => command[d].place \in Fresh
                           /\ command'[d].place # "new" => command[d].place # "new"
                           /\ command'[d].place \in Fresh /\ job[d].place = "new" => job'[d].place = "new"
    BY <1>4, <1>6, <1>7, <2>1, <2>3, Zenon
  <2>5. QED
    BY <1>7, <2>2, <2>4, CommandsShrink, Zenon DEF Inv
<1>11. InEvents'
  BY <1>1, NoEvents, Zenon
<1>12. InTasks' /\ StatusInSync'
  <2>1. router'.pc = "exited" /\ router'.pc # "relaying" /\ "event" # "reading"
    BY <1>1 DEF At
  <2>2. \A d \in Command : command[d].place = "reading" => command'[d].place = "reading"
    BY <1>4, <1>7, <2>1, Zenon
  <2>3. InTasks'
    BY <1>1, <2>1, <2>2, RouterDone, Zenon DEF Inv
  <2>4. StatusInSync'
    BY <2>1, Zenon DEF StatusInSync
  <2>5. QED
    BY <2>3, <2>4, Zenon
<1>13. QED
  BY <1>5, <1>8, <1>9, <1>10, <1>11, <1>12, Zenon DEF Inv

\* A request is at the head of the queue, a reply is.
LEMMA HeadIsRequest ==
    ASSUME Inv, NEW s \in Service, Popped(s), Head(queue[s]).kind = "request", NEW j, j = Head(queue[s]).id
    PROVE  /\ QueueShape' /\ j \in Job /\ job[j].place = "queued" /\ job[j].service = s
           /\ \A i \in Job, t \in Service : In(Ask(i), queue'[t]) <=> In(Ask(i), queue[t]) /\ i # j
           /\ \A d \in Command, t \in Service : In(Answer(d), queue'[t]) <=> In(Answer(d), queue[t])
           /\ \A t \in Service : queue[t] = <<>> => queue'[t] = <<>>
<1>1. /\ QueueShape' /\ Head(queue[s]) \in BackendCmd /\ In(Head(queue[s]), queue[s])
      /\ \A t \in Service : \A x : In(x, queue'[t]) <=> In(x, queue[t]) /\ ~(t = s /\ x = Head(queue[s]))
      /\ \A t \in Service : t # s => queue'[t] = queue[t]
  BY PoppedFacts, Zenon DEF Inv
<1>2. j \in Job /\ Head(queue[s]) = Ask(j)
  BY <1>1, MessageFacts, Zenon
<1>3. job[j].place = "queued" /\ job[j].service = s
  <2>1. In(Ask(j), queue[s])
    BY <1>1, <1>2, Zenon
  <2>2. QED
    BY <1>2, <2>1 DEF Inv, Jobs
<1>4. ASSUME NEW i \in Job, NEW t \in Service
      PROVE  In(Ask(i), queue'[t]) <=> In(Ask(i), queue[t]) /\ i # j
  <2>1. CASE i = j
    <3>1. In(Ask(j), queue[t]) => t = s
      BY <1>2, <1>3, Zenon DEF Inv, Jobs
    <3>2. QED
      BY <1>1, <1>2, <2>1, <3>1, Zenon
  <2>2. CASE i # j
    <3>1. Ask(i) # Ask(j)
      BY <2>2 DEF Ask
    <3>2. QED
      BY <1>1, <1>2, <2>2, <3>1, Zenon
  <2>3. QED
    BY <2>1, <2>2, Zenon
<1>5. \A d \in Command, t \in Service : In(Answer(d), queue'[t]) <=> In(Answer(d), queue[t])
  <2>1. \A d \in Command : Answer(d) # Ask(j)
    BY MessageFacts, Zenon
  <2>2. QED
    BY <1>1, <1>2, <2>1, Zenon
<1>6. \A t \in Service : queue[t] = <<>> => queue'[t] = <<>>
  BY <1>1, Zenon DEF Popped
<1>7. QED
  BY <1>1, <1>2, <1>3, <1>4, <1>5, <1>6, Zenon

LEMMA HeadIsReply ==
    ASSUME Inv, NEW s \in Service, Popped(s), Head(queue[s]).kind # "request", NEW c, c = Head(queue[s]).id
    PROVE  /\ QueueShape' /\ c \in Command /\ command[c].place = "reply_queued"
           /\ \A i \in Job, t \in Service : In(Ask(i), queue'[t]) <=> In(Ask(i), queue[t])
           /\ \A d \in Command, t \in Service : In(Answer(d), queue'[t]) => In(Answer(d), queue[t]) /\ d # c
           /\ \A t \in Service : queue[t] = <<>> => queue'[t] = <<>>
<1>1. /\ QueueShape' /\ Head(queue[s]) \in BackendCmd /\ In(Head(queue[s]), queue[s])
      /\ \A t \in Service : \A x : In(x, queue'[t]) <=> In(x, queue[t]) /\ ~(t = s /\ x = Head(queue[s]))
      /\ \A t \in Service : t # s => queue'[t] = queue[t]
  BY PoppedFacts, Zenon DEF Inv
<1>2. c \in Command /\ Head(queue[s]) = Answer(c)
  BY <1>1, MessageFacts, Zenon
<1>3. command[c].place = "reply_queued" /\ command[c].origin = s
  <2>1. In(Answer(c), queue[s])
    BY <1>1, <1>2, Zenon
  <2>2. QED
    BY <1>2, <2>1 DEF Inv, Commands
<1>4. ASSUME NEW d \in Command, NEW t \in Service, In(Answer(d), queue'[t])
      PROVE  In(Answer(d), queue[t]) /\ d # c
  <2>1. In(Answer(d), queue[t])
    BY <1>1, <1>4, Zenon
  <2>2. ASSUME d = c
        PROVE  FALSE
    <3>1. t = s
      BY <1>2, <1>3, <2>1, <2>2, Zenon DEF Inv, Commands
    <3>2. QED
      BY <1>1, <1>2, <1>4, <2>2, <3>1, Zenon
  <2>3. QED
    BY <2>1, <2>2, Zenon
<1>5. \A i \in Job, t \in Service : In(Ask(i), queue'[t]) <=> In(Ask(i), queue[t])
  <2>1. \A i \in Job : Ask(i) # Answer(c)
    BY DEF Ask, Answer
  <2>2. QED
    BY <1>1, <1>2, <2>1, Zenon
<1>6. \A t \in Service : queue[t] = <<>> => queue'[t] = <<>>
  BY <1>1, Zenon DEF Popped
<1>7. QED
  BY <1>1, <1>2, <1>3, <1>4, <1>5, <1>6, Zenon

\* Requests fail or are answered, replies leave their queues, and the rest of
\* the node does not notice.
LEMMA SettleCommands ==
    ASSUME Inv, NEW C, NEW p \in {"answered", "lost"}, command' = Moved(C, p),
           \A c \in Command : c \in C => command[c].place = "reply_queued",
           \A d \in Command, t \in Service : In(Answer(d), queue'[t]) => In(Answer(d), queue[t]) /\ d \notin C,
           \A j \in Job : job[j].place = "new" => job'[j].place = "new"
    PROVE  /\ Commands' /\ command' \in [Command -> CommandState]
           /\ \A c \in Command : command[c].place \in {"event", "reading", "relaying"} => command'[c].place = command[c].place
<1>1. /\ p \in Later /\ p \notin Fresh /\ p # "new"
      /\ "reply_queued" # "new" /\ "reply_queued" \notin {"event", "reading", "relaying"}
      /\ \A c \in Command : c \in Job
  BY DEF Later, Settled, Fresh, Job
<1>2. /\ command' \in [Command -> CommandState]
      /\ \A d \in Command : /\ d \in C => command'[d].place = p
                            /\ d \notin C => command'[d] = command[d]
                            /\ command'[d].kind = command[d].kind
                            /\ command'[d].origin = command[d].origin
                            /\ command'[d].target = command[d].target
  BY <1>1, MovedFacts, Zenon DEF Inv
<1>3. \A d \in Command, t \in Service : In(Answer(d), queue'[t]) =>
              In(Answer(d), queue[t]) /\ command'[d].place = command[d].place
  BY <1>2, Zenon
<1>4. \A d \in Command : /\ command'[d].place \in Fresh => command[d].place \in Fresh
                         /\ command'[d].place # "new" => command[d].place # "new"
                         /\ command'[d].place \in Fresh /\ job[d].place = "new" => job'[d].place = "new"
  BY <1>1, <1>2, Zenon
<1>5. Commands'
  BY <1>2, <1>3, <1>4, CommandsShrink, Zenon DEF Inv
<1>6. QED
  BY <1>1, <1>2, <1>5, Zenon

\* The same when the commands stay as they are.
LEMMA KeepCommands ==
    ASSUME Inv, UNCHANGED command,
           \A d \in Command, t \in Service : In(Answer(d), queue'[t]) => In(Answer(d), queue[t]),
           \A j \in Job : job[j].place = "new" => job'[j].place = "new"
    PROVE  /\ Commands' /\ command' \in [Command -> CommandState]
           /\ \A c \in Command : command[c].place \in {"event", "reading", "relaying"} => command'[c].place = command[c].place
<1>1. \A c \in Command : c \in Job
  BY DEF Job
<1>2. Commands'
  BY <1>1, CommandsShrink, Zenon DEF Inv
<1>3. QED
  BY <1>2, Zenon DEF Inv, Rest

\* A step of a backend task that changes requests, replies and its queue only,
\* and one that also ends the connection.
LEMMA TaskGoesOn ==
    ASSUME Inv, QueueShape', Jobs', Commands', job' \in [Job -> JobState], command' \in [Command -> CommandState],
           \A c \in Command : command[c].place \in {"event", "reading", "relaying"} => command'[c].place = command[c].place,
           UNCHANGED <<inbound, events, to_controller, router, backend, backend_ready, controller, shutdown>>
    PROVE  Inv'
<1>1. InboundShape' /\ Rest'
  BY Zenon DEF Inv, InboundShape, Rest
<1>2. \A c \in Command : /\ command[c].place = "event" => command'[c].place = "event"
                         /\ command[c].place \in {"reading", "relaying"} => command'[c].place = command[c].place
  <2>1. "event" \in {"event", "reading", "relaying"} /\ \A p \in {"reading", "relaying"} : p \in {"event", "reading", "relaying"}
    OBVIOUS
  <2>2. QED
    BY <2>1, Zenon
<1>3. InEvents'
  BY <1>2, EventsFrame, Zenon DEF Inv
<1>4. InTasks'
  BY <1>2, TasksFrame, Zenon DEF Inv
<1>5. StatusInSync'
  BY SyncFrame, Zenon DEF Inv
<1>6. QED
  BY <1>1, <1>3, <1>4, <1>5, Zenon DEF Inv

LEMMA ConnectionEnds ==
    ASSUME Inv, QueueShape', Jobs', Commands', job' \in [Job -> JobState], command' \in [Command -> CommandState],
           \A c \in Command : command[c].place \in {"event", "reading", "relaying"} => command'[c].place = command[c].place,
           NEW s \in Service, NEW pc \in {"announcing_down", "exited"},
           backend' = [backend EXCEPT ![s] = At(pc)],
           pc # "exited" => backend[s].pc = "serving",
           UNCHANGED <<inbound, events, to_controller, router, backend_ready, controller, shutdown>>
    PROVE  Inv'
<1>1. pc \in {"connecting", "handshaking", "announcing_up", "backoff", "exited", "serving", "announcing_down"}
  OBVIOUS
<1>2. /\ backend' \in [Service -> BackendState]
      /\ backend'[s].pc = pc
      /\ \A t \in Service : t # s => backend'[t] = backend[t]
  BY <1>1, BackendMoves, Zenon DEF Inv
<1>3. InboundShape' /\ Rest'
  BY <1>2, Zenon DEF Inv, InboundShape, Rest
<1>4. \A c \in Command : /\ command[c].place = "event" => command'[c].place = "event"
                         /\ command[c].place = "reading" => command'[c].place = "reading"
                         /\ command[c].place = "relaying" => command'[c].place = "relaying"
  <2>1. "event" \in {"event", "reading", "relaying"} /\ "reading" \in {"event", "reading", "relaying"}
        /\ "relaying" \in {"event", "reading", "relaying"}
    OBVIOUS
  <2>2. QED
    BY <2>1, Zenon
<1>5. InEvents'
  BY <1>4, EventsFrame, Zenon DEF Inv
<1>6. InTasks'
  BY <1>1, <1>4, TasksMove, Zenon DEF Inv
<1>7. \A t \in Service : backend'[t].pc # "exited" =>
          backend[t].pc # "exited" /\ (backend'[t].pc \in Connected <=> backend[t].pc \in Connected)
  <2>1. "serving" # "exited" /\ "serving" \in Connected /\ (pc # "exited" => pc \in Connected)
    BY DEF Connected
  <2>2. QED
    BY <1>2, <2>1, Zenon
<1>8. StatusInSync'
  BY <1>7, SyncFrame, Zenon DEF Inv
<1>9. QED
  BY <1>3, <1>5, <1>6, <1>8, Zenon DEF Inv

\* The requests of J, which are pending at s or the one at the head of its
\* queue, are answered.
LEMMA FailedJobs ==
    ASSUME Inv, NEW s \in Service, NEW J, job' = Answered(J), UNCHANGED inbound,
           \A j \in Job : j \in J => job[j].place \in {"pending", "queued"} /\ \A t \in Service : ~In(Ask(j), queue'[t]),
           \A j \in Job : j \notin J => \A t \in Service : In(Ask(j), queue'[t]) <=> In(Ask(j), queue[t]),
           \A t \in Service : queue[t] = <<>> => queue'[t] = <<>>,
           \A t \in Service : t # s => backend'[t] = backend[t],
           backend'[s].pc = "exited" => queue'[s] = <<>>,
           backend'[s].pc \in {"serving", "sending_control"} \/ \A j \in Job : j \in Pending(s) => j \in J
    PROVE  /\ Jobs' /\ job' \in [Job -> JobState]
           /\ \A j \in Job : job[j].place = "new" => job'[j].place = "new"
<1>1. /\ job' \in [Job -> JobState]
      /\ \A j \in Job : j \notin J => job'[j] = job[j]
  BY AnsweredFacts, Zenon DEF Inv
<1>2. "new" \notin {"pending", "queued"} /\ "inbound" \notin {"pending", "queued"}
  OBVIOUS
<1>3. \A j \in Job : job[j].place = "new" => job'[j].place = "new"
  BY <1>1, <1>2, Zenon
<1>4. \A j \in Job : j \in J => ~In(j, inbound') /\ \A t \in Service : ~In(Ask(j), queue'[t])
  <2>1. \A j \in Job : job[j].place = "inbound" <=> In(j, inbound)
    BY Zenon DEF Inv, Jobs
  <2>2. ASSUME NEW j \in Job, j \in J
        PROVE  ~In(j, inbound)
    BY <1>2, <2>1, <2>2
  <2>3. QED
    BY <2>2, Zenon
<1>5. ASSUME NEW j \in Job, j \notin J, job[j].place = "pending"
      PROVE  backend'[job[j].service].pc \in {"serving", "sending_control"}
  <2>1. job[j].service \in Service /\ backend[job[j].service].pc \in {"serving", "sending_control"}
    BY <1>5, Zenon DEF Inv, Jobs
  <2>2. CASE job[j].service = s
    <3>1. j \in Pending(s)
      BY <1>5, <2>2, Zenon DEF Pending
    <3>2. QED
      BY <1>5, <2>2, <3>1, Zenon
  <2>3. CASE job[j].service # s
    BY <2>1, <2>3, Zenon
  <2>4. QED
    BY <2>2, <2>3, Zenon
<1>6. \A j \in Job : j \notin J =>
              /\ In(j, inbound') <=> In(j, inbound)
              /\ \A t \in Service : In(Ask(j), queue'[t]) <=> In(Ask(j), queue[t])
              /\ job[j].place = "pending" => backend'[job[j].service].pc \in {"serving", "sending_control"}
  BY <1>5, Zenon
<1>7. \A t \in Service : backend'[t].pc = "exited" => queue'[t] = <<>>
  BY Zenon DEF Inv, Jobs
<1>8. Jobs'
  BY <1>4, <1>6, <1>7, AnsweredJobs, Zenon DEF Inv
<1>9. QED
  BY <1>1, <1>3, <1>8, Zenon

\* A reply is taken from a queue: the requests stay where they are.
LEMMA SameJobs ==
    ASSUME Inv, UNCHANGED <<job, inbound, backend>>,
           \A j \in Job, t \in Service : In(Ask(j), queue'[t]) <=> In(Ask(j), queue[t]),
           \A t \in Service : queue[t] = <<>> => queue'[t] = <<>>
    PROVE  /\ Jobs' /\ job' \in [Job -> JobState]
           /\ \A j \in Job : job[j].place = "new" => job'[j].place = "new"
<1>1. (\A j \in Job, s \in Service : In(Ask(j), queue[s]) <=> job[j].place = "queued" /\ job[j].service = s)'
  BY DEF Inv, Jobs
<1>2. Jobs'
  BY <1>1, Zenon DEF Inv, Jobs
<1>3. QED
  BY <1>2, Zenon DEF Inv, Rest

\* A queued request becomes pending.
LEMMA WrittenJobs ==
    ASSUME Inv, NEW s \in Service, NEW j \in Job, backend[s].pc = "serving",
           job[j].place = "queued", job[j].service = s, job' = [job EXCEPT ![j].place = "pending"],
           UNCHANGED <<inbound, backend>>,
           \A i \in Job, t \in Service : In(Ask(i), queue'[t]) <=> In(Ask(i), queue[t]) /\ i # j,
           \A t \in Service : queue[t] = <<>> => queue'[t] = <<>>
    PROVE  /\ Jobs' /\ job' \in [Job -> JobState]
           /\ \A i \in Job : job[i].place = "new" => job'[i].place = "new"
<1>1. "pending" \in {"queued", "pending"} /\ "serving" \in {"serving", "sending_control"}
      /\ "pending" # "queued" /\ "pending" # "inbound" /\ "queued" # "inbound" /\ "queued" # "new"
  OBVIOUS
<1>2. /\ job' \in [Job -> JobState]
      /\ job'[j].place = "pending" /\ job'[j].service = s
      /\ \A i \in Job : i # j => job'[i] = job[i]
  BY <1>1, PlacedFacts, Zenon DEF Inv
<1>3. \A i \in Job : job[i].place = "new" => job'[i].place = "new"
  BY <1>1, <1>2, Zenon
<1>4. (\A i \in Job : job[i].place = "inbound" <=> In(i, inbound))'
  BY <1>1, <1>2 DEF Inv, Jobs
<1>5. (\A i \in Job, t \in Service : In(Ask(i), queue[t]) <=> job[i].place = "queued" /\ job[i].service = t)'
  <2>1. ASSUME NEW t \in Service
        PROVE  (In(Ask(j), queue[t]) <=> job[j].place = "queued" /\ job[j].service = t)'
    BY <1>1, <1>2, Zenon
  <2>2. ASSUME NEW i \in Job, i # j, NEW t \in Service
        PROVE  (In(Ask(i), queue[t]) <=> job[i].place = "queued" /\ job[i].service = t)'
    BY <1>2, <2>2 DEF Inv, Jobs
  <2>3. QED
    BY <2>1, <2>2, Zenon
<1>6. (\A i \in Job : job[i].place = "queued" => job[i].service \in Service)'
  <2>1. \A i \in Job : job[i].place = "queued" => job[i].service \in Service
    BY Zenon DEF Inv, Jobs
  <2>2. QED
    BY <1>1, <1>2, <2>1, Zenon
<1>7. (\A i \in Job : job[i].place = "pending" =>
          job[i].service \in Service /\ backend[job[i].service].pc \in {"serving", "sending_control"})'
  <2>1. job'[j].service \in Service /\ backend'[job'[j].service].pc \in {"serving", "sending_control"}
    BY <1>1, <1>2, Zenon
  <2>2. ASSUME NEW i \in Job, i # j, job'[i].place = "pending"
        PROVE  job'[i].service \in Service /\ backend'[job'[i].service].pc \in {"serving", "sending_control"}
    <3>1. job'[i] = job[i] /\ backend' = backend
      BY <1>2, <2>2, Zenon
    <3>2. job[i].service \in Service /\ backend[job[i].service].pc \in {"serving", "sending_control"}
      BY <2>2, <3>1, Zenon DEF Inv, Jobs
    <3>3. QED
      BY <3>1, <3>2, Zenon
  <2>3. QED
    BY <2>1, <2>2, Zenon
<1>8. (\A t \in Service : backend[t].pc = "exited" => queue[t] = <<>>)'
  BY Zenon DEF Inv, Jobs
<1>9. Jobs'
  BY <1>4, <1>5, <1>6, <1>7, <1>8, Zenon DEF Jobs
<1>10. QED
  BY <1>2, <1>3, <1>9, Zenon

LEMMA WriteInv ==
    ASSUME Inv, NEW s \in Service, Write(s)
    PROVE  Inv'
<1>1. /\ backend[s].pc = "serving" /\ Popped(s)
      /\ UNCHANGED <<inbound, events, to_controller, router, backend, backend_ready, controller, shutdown>>
  BY Zenon DEF Write, Popped
<1>2. CASE Head(queue[s]).kind = "request"
  <2> DEFINE j == Head(queue[s]).id
  <2>1. job' = [job EXCEPT ![j].place = "pending"] /\ UNCHANGED command
    BY <1>2, Zenon DEF Write
  <2>2. /\ QueueShape' /\ j \in Job /\ job[j].place = "queued" /\ job[j].service = s
        /\ \A i \in Job, t \in Service : In(Ask(i), queue'[t]) <=> In(Ask(i), queue[t]) /\ i # j
        /\ \A d \in Command, t \in Service : In(Answer(d), queue'[t]) <=> In(Answer(d), queue[t])
        /\ \A t \in Service : queue[t] = <<>> => queue'[t] = <<>>
    BY <1>1, <1>2, HeadIsRequest, Zenon
  <2> HIDE DEF j
  <2>3. /\ Jobs' /\ job' \in [Job -> JobState]
        /\ \A i \in Job : job[i].place = "new" => job'[i].place = "new"
    BY <1>1, <2>1, <2>2, WrittenJobs, Zenon
  <2>4. QED
    BY <1>1, <2>1, <2>2, <2>3, KeepCommands, TaskGoesOn
<1>3. CASE Head(queue[s]).kind # "request"
  <2> DEFINE c == Head(queue[s]).id
  <2>1. command' = Moved({c}, "answered") /\ UNCHANGED job
    BY <1>3, Zenon DEF Write
  <2>2. /\ QueueShape' /\ c \in Command /\ command[c].place = "reply_queued"
        /\ \A i \in Job, t \in Service : In(Ask(i), queue'[t]) <=> In(Ask(i), queue[t])
        /\ \A d \in Command, t \in Service : In(Answer(d), queue'[t]) => In(Answer(d), queue[t]) /\ d # c
        /\ \A t \in Service : queue[t] = <<>> => queue'[t] = <<>>
    BY <1>1, <1>3, HeadIsReply
  <2> HIDE DEF c
  <2>3. /\ Jobs' /\ job' \in [Job -> JobState]
        /\ \A i \in Job : job[i].place = "new" => job'[i].place = "new"
    BY <1>1, <2>1, <2>2, SameJobs
  <2>4. /\ Commands' /\ command' \in [Command -> CommandState]
        /\ \A d \in Command : command[d].place \in {"event", "reading", "relaying"} => command'[d].place = command[d].place
    <3>1. /\ "answered" \in {"answered", "lost"}
          /\ \A d \in Command : d \in {c} => command[d].place = "reply_queued"
          /\ \A d \in Command, t \in Service : In(Answer(d), queue'[t]) => In(Answer(d), queue[t]) /\ d \notin {c}
      BY <2>2
    <3>2. QED
      BY <2>1, <2>3, <3>1, SettleCommands, Zenon
  <2>5. QED
    BY <1>1, <2>2, <2>3, <2>4, TaskGoesOn
<1>4. QED
  BY <1>2, <1>3, Zenon

LEMMA RejectInv ==
    ASSUME Inv, NEW s \in Service, Reject(s)
    PROVE  Inv'
<1>1. /\ backend[s].pc = "backoff" /\ Popped(s)
      /\ UNCHANGED <<inbound, events, to_controller, router, backend, backend_ready, controller, shutdown>>
  BY Zenon DEF Reject, Popped
<1>2. CASE Head(queue[s]).kind = "request"
  <2> DEFINE j == Head(queue[s]).id
  <2>1. job' = Answered({j}) /\ UNCHANGED command
    BY <1>2, Zenon DEF Reject
  <2>2. /\ QueueShape' /\ j \in Job /\ job[j].place = "queued" /\ job[j].service = s
        /\ \A i \in Job, t \in Service : In(Ask(i), queue'[t]) <=> In(Ask(i), queue[t]) /\ i # j
        /\ \A d \in Command, t \in Service : In(Answer(d), queue'[t]) <=> In(Answer(d), queue[t])
        /\ \A t \in Service : queue[t] = <<>> => queue'[t] = <<>>
    BY <1>1, <1>2, HeadIsRequest, Zenon
  <2> HIDE DEF j
  <2>3. /\ Jobs' /\ job' \in [Job -> JobState]
        /\ \A i \in Job : job[i].place = "new" => job'[i].place = "new"
    <3>1. /\ \A i \in Job : i \in {j} => job[i].place \in {"pending", "queued"} /\ \A t \in Service : ~In(Ask(i), queue'[t])
          /\ \A i \in Job : i \notin {j} => \A t \in Service : In(Ask(i), queue'[t]) <=> In(Ask(i), queue[t])
      BY <2>2
    <3>2. "backoff" # "exited" /\ "backoff" \notin {"serving", "sending_control"}
      OBVIOUS
    <3>3. \A i \in Job : i \notin Pending(s)
      BY <1>1, <3>2, Zenon DEF Inv, Jobs, Pending
    <3>4. QED
      BY <1>1, <2>1, <2>2, <3>1, <3>2, <3>3, FailedJobs, Zenon
  <2>4. QED
    BY <1>1, <2>1, <2>2, <2>3, KeepCommands, TaskGoesOn, Zenon
<1>3. CASE Head(queue[s]).kind # "request"
  <2> DEFINE c == Head(queue[s]).id
  <2>1. command' = Moved({c}, "lost") /\ UNCHANGED job
    BY <1>3, Zenon DEF Reject
  <2>2. /\ QueueShape' /\ c \in Command /\ command[c].place = "reply_queued"
        /\ \A i \in Job, t \in Service : In(Ask(i), queue'[t]) <=> In(Ask(i), queue[t])
        /\ \A d \in Command, t \in Service : In(Answer(d), queue'[t]) => In(Answer(d), queue[t]) /\ d # c
        /\ \A t \in Service : queue[t] = <<>> => queue'[t] = <<>>
    BY <1>1, <1>3, HeadIsReply, Zenon
  <2> HIDE DEF c
  <2>3. /\ Jobs' /\ job' \in [Job -> JobState]
        /\ \A i \in Job : job[i].place = "new" => job'[i].place = "new"
    BY <1>1, <2>1, <2>2, SameJobs, Zenon
  <2>4. /\ Commands' /\ command' \in [Command -> CommandState]
        /\ \A d \in Command : command[d].place \in {"event", "reading", "relaying"} => command'[d].place = command[d].place
    <3>1. /\ "lost" \in {"answered", "lost"}
          /\ \A d \in Command : d \in {c} => command[d].place = "reply_queued"
          /\ \A d \in Command, t \in Service : In(Answer(d), queue'[t]) => In(Answer(d), queue[t]) /\ d \notin {c}
      BY <2>2
    <3>2. QED
      BY <2>1, <2>3, <3>1, SettleCommands, Zenon
  <2>5. QED
    BY <1>1, <2>2, <2>3, <2>4, TaskGoesOn, Zenon
<1>4. QED
  BY <1>2, <1>3, Zenon

LEMMA WriteFailsInv ==
    ASSUME Inv, NEW s \in Service, WriteFails(s)
    PROVE  Inv'
<1>1. /\ backend[s].pc = "serving" /\ Popped(s) /\ backend' = [backend EXCEPT ![s] = At("announcing_down")]
      /\ UNCHANGED <<inbound, events, to_controller, router, backend_ready, controller, shutdown>>
  BY Zenon DEF WriteFails, Popped
<1>2. "announcing_down" \in {"announcing_down", "exited"} /\ "announcing_down" # "exited"
      /\ "announcing_down" \in {"connecting", "handshaking", "announcing_up", "backoff", "exited", "serving", "announcing_down"}
  OBVIOUS
<1>3. backend'[s].pc = "announcing_down" /\ \A t \in Service : t # s => backend'[t] = backend[t]
  BY <1>1, <1>2, BackendMoves, Zenon DEF Inv
<1>4. \A i \in Job : i \in Pending(s) => job[i].place = "pending" /\ \A t \in Service : ~In(Ask(i), queue[t])
  <2>1. "pending" # "queued"
    OBVIOUS
  <2>2. QED
    BY <2>1 DEF Inv, Jobs, Pending
<1>5. CASE Head(queue[s]).kind = "request"
  <2> DEFINE j == Head(queue[s]).id
             J == Pending(s) \cup {j}
  <2>1. job' = Answered(J) /\ UNCHANGED command
    BY <1>5, Zenon DEF WriteFails
  <2>2. /\ QueueShape' /\ j \in Job /\ job[j].place = "queued" /\ job[j].service = s
        /\ \A i \in Job, t \in Service : In(Ask(i), queue'[t]) <=> In(Ask(i), queue[t]) /\ i # j
        /\ \A d \in Command, t \in Service : In(Answer(d), queue'[t]) <=> In(Answer(d), queue[t])
        /\ \A t \in Service : queue[t] = <<>> => queue'[t] = <<>>
    BY <1>1, <1>5, HeadIsRequest, Zenon
  <2> HIDE DEF j
  <2>3. /\ \A i \in Job : i \in J => job[i].place \in {"pending", "queued"} /\ \A t \in Service : ~In(Ask(i), queue'[t])
        /\ \A i \in Job : i \notin J => \A t \in Service : In(Ask(i), queue'[t]) <=> In(Ask(i), queue[t])
        /\ \A i \in Job : i \in Pending(s) => i \in J
    BY <1>4, <2>2
  <2> HIDE DEF J
  <2>4. /\ Jobs' /\ job' \in [Job -> JobState]
        /\ \A i \in Job : job[i].place = "new" => job'[i].place = "new"
    BY <1>1, <1>2, <1>3, <2>1, <2>2, <2>3, FailedJobs
  <2>5. QED
    BY <1>1, <1>2, <2>1, <2>2, <2>4, KeepCommands, ConnectionEnds, Zenon
<1>6. CASE Head(queue[s]).kind # "request"
  <2> DEFINE c == Head(queue[s]).id
  <2>1. command' = Moved({c}, "lost") /\ job' = Answered(Pending(s))
    BY <1>6, Zenon DEF WriteFails
  <2>2. /\ QueueShape' /\ c \in Command /\ command[c].place = "reply_queued"
        /\ \A i \in Job, t \in Service : In(Ask(i), queue'[t]) <=> In(Ask(i), queue[t])
        /\ \A d \in Command, t \in Service : In(Answer(d), queue'[t]) => In(Answer(d), queue[t]) /\ d # c
        /\ \A t \in Service : queue[t] = <<>> => queue'[t] = <<>>
    BY <1>1, <1>6, HeadIsReply
  <2> HIDE DEF c
  <2>3. /\ Jobs' /\ job' \in [Job -> JobState]
        /\ \A i \in Job : job[i].place = "new" => job'[i].place = "new"
    <3>1. \A i \in Job : i \in Pending(s) =>
              job[i].place \in {"pending", "queued"} /\ \A t \in Service : ~In(Ask(i), queue'[t])
      <4>1. "pending" \in {"pending", "queued"}
        OBVIOUS
      <4>2. QED
        BY <1>4, <2>2, <4>1, Zenon
    <3>2. QED
      BY <1>1, <1>2, <1>3, <2>1, <2>2, <3>1, FailedJobs, Zenon
  <2>4. /\ Commands' /\ command' \in [Command -> CommandState]
        /\ \A d \in Command : command[d].place \in {"event", "reading", "relaying"} => command'[d].place = command[d].place
    <3>1. /\ "lost" \in {"answered", "lost"}
          /\ \A d \in Command : d \in {c} => command[d].place = "reply_queued"
          /\ \A d \in Command, t \in Service : In(Answer(d), queue'[t]) => In(Answer(d), queue[t]) /\ d \notin {c}
      BY <2>2
    <3>2. QED
      BY <2>1, <2>3, <3>1, SettleCommands, Zenon
  <2>5. QED
    BY <1>1, <1>2, <2>2, <2>3, <2>4, ConnectionEnds, Zenon
<1>7. QED
  BY <1>5, <1>6, Zenon

LEMMA DisconnectInv ==
    ASSUME Inv, NEW s \in Service, Disconnect(s)
    PROVE  Inv'
<1>1. /\ backend[s].pc = "serving" /\ job' = Answered(Pending(s)) /\ backend' = [backend EXCEPT ![s] = At("announcing_down")]
      /\ UNCHANGED <<inbound, events, to_controller, queue, router, command, backend_ready, controller, shutdown>>
  BY Zenon DEF Disconnect
<1>2. "announcing_down" \in {"announcing_down", "exited"} /\ "announcing_down" # "exited"
      /\ "announcing_down" \in {"connecting", "handshaking", "announcing_up", "backoff", "exited", "serving", "announcing_down"}
  OBVIOUS
<1>3. backend'[s].pc = "announcing_down" /\ \A t \in Service : t # s => backend'[t] = backend[t]
  BY <1>1, <1>2, BackendMoves, Zenon DEF Inv
<1>4. \A i \in Job : i \in Pending(s) =>
          job[i].place \in {"pending", "queued"} /\ \A t \in Service : ~In(Ask(i), queue'[t])
  <2>1. "pending" # "queued"
    OBVIOUS
  <2>2. QED
    BY <1>1, <2>1, Zenon DEF Inv, Jobs, Pending
<1>5. /\ Jobs' /\ job' \in [Job -> JobState]
      /\ \A i \in Job : job[i].place = "new" => job'[i].place = "new"
  BY <1>1, <1>2, <1>3, <1>4, FailedJobs
<1>6. QueueShape'
  BY <1>1, Zenon DEF Inv, QueueShape
<1>7. QED
  BY <1>1, <1>2, <1>5, <1>6, KeepCommands, ConnectionEnds, Zenon

LEMMA ReadReplyInv ==
    ASSUME Inv, NEW s \in Service, NEW j \in Job, ReadReply(s, j)
    PROVE  Inv'
<1>1. /\ backend[s].pc = "serving" /\ j \in Pending(s) /\ job' = Answered({j})
      /\ UNCHANGED <<inbound, events, to_controller, queue, router, backend, command, backend_ready, controller, shutdown>>
  BY Zenon DEF ReadReply
<1>2. \A i \in Job : i \in {j} =>
          job[i].place \in {"pending", "queued"} /\ \A t \in Service : ~In(Ask(i), queue'[t])
  <2>1. "pending" # "queued"
    OBVIOUS
  <2>2. QED
    BY <1>1, <2>1 DEF Inv, Jobs, Pending
<1>3. "serving" \in {"serving", "sending_control"} /\ "serving" # "exited"
  OBVIOUS
<1>4. /\ Jobs' /\ job' \in [Job -> JobState]
      /\ \A i \in Job : job[i].place = "new" => job'[i].place = "new"
  BY <1>1, <1>2, <1>3, FailedJobs, Zenon
<1>5. QueueShape'
  BY <1>1, Zenon DEF Inv, QueueShape
<1>6. QED
  BY <1>1, <1>4, <1>5, KeepCommands, TaskGoesOn, Zenon

LEMMA BackendExitInv ==
    ASSUME Inv, NEW s \in Service, BackendExit(s)
    PROVE  Inv'
<1> DEFINE J == Pending(s) \cup Queued(s, "request")
           C == Queued(s, "reply")
<1>1. /\ job' = Answered(J) /\ command' = Moved(C, "lost") /\ Cleared(s)
      /\ backend' = [backend EXCEPT ![s] = At("exited")]
      /\ UNCHANGED <<inbound, events, to_controller, router, backend_ready, controller, shutdown>>
  BY Zenon DEF BackendExit, Cleared
<1>2. "exited" \in {"announcing_down", "exited"}
      /\ "exited" \in {"connecting", "handshaking", "announcing_up", "backoff", "exited", "serving", "announcing_down"}
  OBVIOUS
<1>3. backend'[s].pc = "exited" /\ \A t \in Service : t # s => backend'[t] = backend[t]
  BY <1>1, <1>2, BackendMoves, Zenon DEF Inv
<1>4. /\ QueueShape' /\ queue'[s] = <<>>
      /\ \A t \in Service : \A x : In(x, queue'[t]) <=> In(x, queue[t]) /\ t # s
      /\ \A t \in Service : t # s => queue'[t] = queue[t]
  BY <1>1, ClearedFacts, Zenon DEF Inv
<1>5. /\ \A j \in Job : j \in Queued(s, "request") <=> In(Ask(j), queue[s])
      /\ \A c \in Command : c \in C <=> In(Answer(c), queue[s])
  BY QueuedFacts, Zenon DEF Inv
<1>6. /\ \A j \in Job : j \in J => job[j].place \in {"pending", "queued"} /\ job[j].service = s
      /\ \A j \in Job : j \in Pending(s) => j \in J
      /\ \A j \in Job : In(Ask(j), queue[s]) => j \in J
  BY <1>5 DEF Inv, Jobs, Pending
<1> HIDE DEF J, C
<1>7. /\ Jobs' /\ job' \in [Job -> JobState]
      /\ \A i \in Job : job[i].place = "new" => job'[i].place = "new"
  <2>1. ASSUME NEW j \in Job, j \in J
        PROVE  job[j].place \in {"pending", "queued"} /\ \A t \in Service : ~In(Ask(j), queue'[t])
    <3>1. ASSUME NEW t \in Service, In(Ask(j), queue'[t])
          PROVE  FALSE
      <4>1. In(Ask(j), queue[t]) /\ t # s
        BY <1>4, <3>1, Zenon
      <4>2. job[j].service = t
        BY <4>1 DEF Inv, Jobs
      <4>3. QED
        BY <1>6, <2>1, <4>1, <4>2, Zenon
    <3>2. QED
      BY <1>6, <2>1, <3>1, Zenon
  <2>2. ASSUME NEW j \in Job, j \notin J, NEW t \in Service
        PROVE  In(Ask(j), queue'[t]) <=> In(Ask(j), queue[t])
    BY <1>4, <1>6, <2>2, Zenon
  <2>3. \A t \in Service : queue[t] = <<>> => queue'[t] = <<>>
    BY <1>4, Zenon
  <2>4. QED
    BY <1>1, <1>3, <1>4, <1>6, <2>1, <2>2, <2>3, FailedJobs, Zenon
<1>8. /\ Commands' /\ command' \in [Command -> CommandState]
      /\ \A d \in Command : command[d].place \in {"event", "reading", "relaying"} => command'[d].place = command[d].place
  <2>1. \A c \in Command : c \in C => command[c].place = "reply_queued" /\ command[c].origin = s
    BY <1>5 DEF Inv, Commands
  <2>2. ASSUME NEW d \in Command, NEW t \in Service, In(Answer(d), queue'[t])
        PROVE  In(Answer(d), queue[t]) /\ d \notin C
    <3>1. In(Answer(d), queue[t]) /\ t # s
      BY <1>4, <2>2, Zenon
    <3>2. command[d].origin = t
      BY <3>1 DEF Inv, Commands
    <3>3. QED
      BY <2>1, <3>1, <3>2, Zenon
  <2>3. "lost" \in {"answered", "lost"}
    OBVIOUS
  <2>4. QED
    BY <1>1, <1>7, <2>1, <2>2, <2>3, SettleCommands
<1>9. QED
  BY <1>1, <1>2, <1>4, <1>7, <1>8, ConnectionEnds, Zenon

-----------------------------------------------------------------------------
(* Theorems                                                                *)

LEMMA NextInv ==
    ASSUME Inv, [Next]_vars
    PROVE  Inv'
<1>1. ASSUME \E r \in Request, s \in Service \cup {None} : Submit(r, s)
      PROVE  Inv'
  BY <1>1, SubmitInv, Zenon
<1>2. ASSUME RouterStep
      PROVE  Inv'
  BY <1>2, RouteInboundInv, RouteStatusInv, RouteControlInv, RelayInv, RouterExitInv, Zenon DEF RouterStep
<1>3. ASSUME ControllerStep \/ Shutdown \/ UNCHANGED vars
      PROVE  Inv'
  BY <1>3, ControllerStepInv, Zenon
<1>4. ASSUME NEW c \in Command, TaskStep(c)
      PROVE  Inv'
  BY <1>4, ForwardLocalInv, OutcomeInv, SendReplyInv, Zenon DEF TaskStep
<1>5. ASSUME NEW s \in Service, BackendStep(s)
      PROVE  Inv'
  BY <1>5, ConnectingInv, AnnounceInv, SendControlInv, WriteInv, WriteFailsInv, RejectInv, BackendExitInv, Zenon
     DEF BackendStep, Announce, TakeCmd
<1>6. ASSUME NEW s \in Service, Disconnect(s) \/ \E j \in Job : ReadReply(s, j)
      PROVE  Inv'
  BY <1>6, DisconnectInv, ReadReplyInv, Zenon
<1>7. ASSUME NEW s \in Service, \E c \in Command, kind \in Kinds, t \in Service : ReadControl(s, c, kind, t)
      PROVE  Inv'
  BY <1>7, ReadControlInv, Zenon
<1>8. QED
  BY <1>1, <1>2, <1>3, <1>4, <1>5, <1>6, <1>7, Zenon DEF Next

\* Being in the right queue once is being in exactly one place.
LEMMA InvAccounts ==
    ASSUME Inv
    PROVE  RequestsAccounted
<1>1. TypeOK
  <2>1. {controller, shutdown} \subseteq BOOLEAN
    BY DEF Inv, Rest
  <2>2. QED
    BY <2>1, Zenon DEF Inv, InboundShape, QueueShape, InEvents, Rest, TypeOK
<1>2. ASSUME NEW j \in Job
      PROVE  LET Places == {<<"inbound", i>> : i \in {n \in DOMAIN inbound : inbound[n] = j}} \cup
                           UNION {{<<s, i>> : i \in {n \in DOMAIN queue[s] :
                                     queue[s][n] = [kind |-> "request", id |-> j]}} : s \in Service}
                 s0 == job[j].service
             IN  CASE job[j].place = "inbound" ->
                         \E i \in DOMAIN inbound : Places = {<<"inbound", i>>}
                   [] job[j].place = "queued" ->
                         backend[s0].pc # "exited" /\ \E i \in DOMAIN queue[s0] : Places = {<<s0, i>>}
                   [] job[j].place = "pending" ->
                         backend[s0].pc \in {"serving", "sending_control"} /\ Places = {}
                   [] OTHER -> Places = {}
  <2> DEFINE Inside == {n \in DOMAIN inbound : inbound[n] = j}
             Held(s) == {n \in DOMAIN queue[s] : queue[s][n] = Ask(j)}
             Places == {<<"inbound", i>> : i \in Inside} \cup UNION {{<<s, i>> : i \in Held(s)} : s \in Service}
             s0 == job[j].service
  <2>1. job[j].place # "inbound" => Inside = {}
    BY DEF Inv, Jobs, In
  <2>2. \A s \in Service : ~(job[j].place = "queued" /\ s0 = s) => Held(s) = {}
    BY DEF Inv, Jobs, In
  <2>3. job[j].place = "inbound" => \E i \in DOMAIN inbound : Inside = {i}
    BY DEF Inv, Jobs, In, InboundShape, Once
  <2>4. job[j].place = "queued" => s0 \in Service /\ \E i \in DOMAIN queue[s0] : Held(s0) = {i}
    BY DEF Inv, Jobs, In, QueueShape, Once
  <2>5. \A x : x \in Places <=> \/ \E i \in Inside : x = <<"inbound", i>>
                              \/ \E s \in Service : \E i \in Held(s) : x = <<s, i>>
    OBVIOUS
  <2> HIDE DEF Inside, Held, Places
  <2>6. ASSUME job[j].place # "inbound", job[j].place # "queued"
        PROVE  Places = {}
    <3>1. \A x : x \notin Places
      BY <2>1, <2>2, <2>5, <2>6
    <3>2. QED
      BY <3>1
  <2>7. ASSUME job[j].place = "inbound"
        PROVE  \E i \in DOMAIN inbound : Places = {<<"inbound", i>>}
    <3>1. PICK i \in DOMAIN inbound : Inside = {i}
      BY <2>3, <2>7, Zenon
    <3>2. \A s \in Service : Held(s) = {}
      BY <2>2, <2>7
    <3>3. \A x : x \in Places <=> x = <<"inbound", i>>
      BY <2>5, <3>1, <3>2
    <3>4. Places = {<<"inbound", i>>}
      BY <3>3
    <3>5. QED
      BY <3>4, Zenon
  <2>8. ASSUME job[j].place = "queued"
        PROVE  backend[s0].pc # "exited" /\ \E i \in DOMAIN queue[s0] : Places = {<<s0, i>>}
    <3>1. PICK i \in DOMAIN queue[s0] : s0 \in Service /\ Held(s0) = {i}
      BY <2>4, <2>8, Zenon
    <3>2. Inside = {} /\ \A s \in Service : s # s0 => Held(s) = {}
      BY <2>1, <2>2, <2>8
    <3>3. \A x : x \in Places <=> x = <<s0, i>>
      BY <2>5, <3>1, <3>2
    <3>4. Places = {<<s0, i>>}
      BY <3>3
    <3>5. queue[s0] # <<>>
      BY <3>1
    <3>6. backend[s0].pc # "exited"
      BY <3>1, <3>5, Zenon DEF Inv, Jobs
    <3>7. QED
      BY <3>4, <3>6, Zenon
  <2>9. job[j].place = "pending" => backend[s0].pc \in {"serving", "sending_control"}
    BY Zenon DEF Inv, Jobs
  <2>10. CASE job[j].place = "inbound"
    BY <2>7, <2>10 DEF Places, Inside, Held, Ask
  <2>11. CASE job[j].place = "queued"
    BY <2>8, <2>11 DEF Places, Inside, Held, Ask
  <2>12. CASE job[j].place = "pending"
    BY <2>6, <2>9, <2>12 DEF Places, Inside, Held, Ask
  <2>13. CASE job[j].place \notin {"inbound", "queued", "pending"}
    BY <2>6, <2>13 DEF Places, Inside, Held, Ask
  <2>14. QED
    BY <2>10, <2>11, <2>12, <2>13, Zenon
<1>3. QED
  BY <1>1, <1>2, Zenon DEF RequestsAccounted

\* Channels, requests, commands and tasks agree on where everything is.
THEOREM DispatcherInvariant == Spec => []Inv
<1>1. Inv /\ [Next]_vars => Inv'
  BY NextInv, Zenon
<1>2. QED
  BY InitInv, <1>1, PTL DEF Spec

(***************************************************************************)
(* Whatever the order in which the router, the backend tasks and the tasks *)
(* of the commands run, and whatever the capacities: backend_ready,        *)
(* corrected by the last status queued for a service, says whether the     *)
(* service has a connection that has shaken hands.                         *)
(***************************************************************************)
THEOREM DispatcherStatus == Spec => []StatusInSync
<1>1. Inv => StatusInSync
  BY Zenon DEF Inv
<1>2. QED
  BY DispatcherInvariant, <1>1, PTL

(***************************************************************************)
(* No request is forgotten, whatever the services, requests, commands and  *)
(* capacities: one without an answer is in exactly one place, once, and    *)
(* the task that owns the place is there to answer it.                     *)
(***************************************************************************)
THEOREM DispatcherRequests == Spec => []RequestsAccounted
<1>1. Inv => RequestsAccounted
  BY InvAccounts, Zenon
<1>2. QED
  BY DispatcherInvariant, <1>1, PTL
=============================================================================
