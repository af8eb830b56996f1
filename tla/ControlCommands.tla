-------------------------- MODULE ControlCommands --------------------------
(***************************************************************************)
(* The control commands of src/src/controller/command.rs: dispatch_command *)
(* on the controller's task, the workers that it spawns for DHT commands,  *)
(* and the read caches of node_controller.rs that all of them share.       *)
(*                                                                         *)
(* A step is what a task does from one await to the next.  Every command   *)
(* names the same key.  A cache is reduced to its slot for that key, with  *)
(* its lock, generation and eviction steps (DhtCache) in one; what it      *)
(* holds is reduced to when it was queried.  The answers of the swarm are  *)
(* open, except that it gives one (SwarmActor).                            *)
(***************************************************************************)
EXTENDS Naturals, Sequences, FiniteSets

CONSTANTS
    MaxCommands,   \* bound: the commands that the backends send
    Kinds,         \* the kinds of these commands, for a key in each namespace
    Limits         \* values of services.dispatcher.max_inflight_dht

\* add_key is providing=false, provide_key is providing=true; "local" stands
\* for the commands that answer without an await.
WorkerKinds == {"query_key", "discover_providers", "service_request", "service_request_to", "add_key"}
InlineKinds == {"provide_key", "remove_key", "refresh_cache", "reload_config",
                "reconnect_bootstrap", "local"}

ASSUME CommandsAssumption ==
    /\ {MaxCommands} \cup Limits \subseteq Nat \ {0}
    /\ Kinds \in [{"service", "auth"} -> SUBSET (WorkerKinds \cup InlineKinds)]
    /\ Kinds["auth"] \cap {"discover_providers", "service_request"} = {}

NoCommand == 0
Command == 1..MaxCommands   \* in the order in which they arrive
Cache == {"record", "provider", "auth"}

VARIABLES
    queue,        \* to_controller
    cmd,
    controller,   \* the command that the controller's task runs, or NoCommand
    permits,      \* dht_permits
    slot,         \* what each cache has for the key: at most one entry and one refresh
    marked,       \* history: commands whose change is made, or whose first attempt failed
    namespace,    \* of the key: /oahd/service/ or /oahd/auth/
    limit         \* max_inflight_dht

config == <<namespace, limit>>
commandVars == <<queue, cmd, controller, permits, slot, marked, config>>

(***************************************************************************)
(* seen is a history variable: the commands marked when the query began    *)
(* that a result comes from.  slipped says that the result was stored      *)
(* though the slot was invalidated meanwhile: after the task compared      *)
(* generations, or by both kinds of invalidation.                          *)
(***************************************************************************)
Read == [seen : SUBSET Command, slipped : BOOLEAN]
Older == [seen |-> {}, slipped |-> FALSE]
SlotTask == [pc : {"fetching", "apply", "sent"}, void : {"no", "key", "all", "mixed"},
             seen : SUBSET Command, slipped : BOOLEAN, ok : BOOLEAN]

Waits == {"await", "send", "resolve", "resend", "put", "provide", "unprovide", "remove",
          "clear", "reload", "dial"}
CommandState ==
    [kind : WorkerKinds \cup InlineKinds \cup {"none"},
     at : Waits \cup {"new", "queued", "get", "woken", "changed", "reply", "replied", "done"},
     cache : {"record", "provider"}, outcome : BOOLEAN, value : BOOLEAN, list : Read,
     attempt : 0..1, sends : 0..4, result : {"none", "ok", "error", "busy"}]

NewCommand == [kind |-> "none", at |-> "new", cache |-> "record", outcome |-> FALSE, value |-> FALSE,
               list |-> Older, attempt |-> 0, sends |-> 0, result |-> "none"]

Holding == {c \in Command : cmd[c].kind \in WorkerKinds /\ cmd[c].at \notin {"new", "queued", "done"}}

-----------------------------------------------------------------------------
(* The caches                                                              *)

\* ensure_refresh: one refresh at a time.
Begun == [pc |-> "fetching", void |-> "no", seen |-> marked, slipped |-> FALSE, ok |-> FALSE]
Sent(ok) == [pc |-> "sent", void |-> "no", seen |-> {}, slipped |-> FALSE, ok |-> ok]

Refreshing(s) ==
    IF s.task = {} THEN [s EXCEPT !.task = {Begun}] ELSE s

\* A slot after invalidate ("key") or invalidate_all ("all").
SlotVoided(s, how) ==
    LET void(t) == IF t.void \in {"no", how} THEN how ELSE "mixed"
    IN  [entry |-> {},
         task |-> {CASE t.pc = "fetching" -> [t EXCEPT !.void = void(t)]
                     [] t.pc = "apply" -> [t EXCEPT !.slipped = TRUE]
                     [] t.pc = "sent" -> t : t \in s.task}]

\* The mutant drops the entry and forgets the refresh in flight.
DropsEntryOnly(C, how) ==
    [x \in Cache |-> IF x \in C THEN [slot[x] EXCEPT !.entry = {}] ELSE slot[x]]

\* A command can only ask AuthGate for invalidate_all.
Invalidated(C, how) ==
    [x \in Cache |-> IF x \notin C THEN slot[x] ELSE SlotVoided(slot[x], IF x = "auth" THEN "all" ELSE how)]

\* invalidate_record_key, on the controller's task.
RecordKeyCaches == {"record"} \cup (IF namespace = "auth" THEN {"auth"} ELSE {"provider"})

\* The same for a worker's add_key, which leaves the providers alone.
WorkerKeyCaches == {"record"} \cup (IF namespace = "auth" THEN {"auth"} ELSE {})

\* AuthGate reads its records for an inbound request.
AuthReads ==
    /\ namespace = "auth"
    /\ slot["auth"].task = {}
    /\ slot' = [slot EXCEPT !["auth"] = Refreshing(@)]
    /\ UNCHANGED <<queue, cmd, controller, permits, marked, config>>

\* AuthGate drops a document that is older than one it has used.
AuthRejects ==
    /\ namespace = "auth"
    /\ slot["auth"].entry # {}
    /\ slot' = [slot EXCEPT !["auth"] = SlotVoided(@, "key")]
    /\ UNCHANGED <<queue, cmd, controller, permits, marked, config>>

\* The mutant only tells the waiters of a value.
WokenByValue(x, ok) ==
    [c \in Command |-> IF ok /\ cmd[c].at = "await" /\ cmd[c].cache = x
                       THEN [cmd[c] EXCEPT !.at = "woken", !.outcome = ok] ELSE cmd[c]]

Woken(x, ok) ==
    [c \in Command |-> IF cmd[c].at = "await" /\ cmd[c].cache = x
                       THEN [cmd[c] EXCEPT !.at = "woken", !.outcome = ok] ELSE cmd[c]]

\* run_refresh: the query has answered, the generations are compared.
SlotCompare(x) ==
    \E t \in slot[x].task :
        /\ t.pc = "fetching"
        /\ \/ /\ t.void \in {"no", "mixed"}
              /\ slot' = [slot EXCEPT ![x].task = {[t EXCEPT !.pc = "apply", !.void = "no", !.slipped = t.void # "no"]}]
              /\ UNCHANGED cmd
           \/ /\ t.void # "no"
              /\ slot' = [slot EXCEPT ![x].task = {Sent(FALSE)}]
              /\ cmd' = Woken(x, FALSE)
        /\ UNCHANGED <<queue, controller, permits, marked, config>>

\* The result is stored, or the error kept; the waiters are told.
SlotApply(x) ==
    \E t \in slot[x].task, ok \in BOOLEAN :
        /\ t.pc = "apply"
        /\ slot' = [slot EXCEPT ![x] =
                       [task |-> {Sent(ok)},
                        entry |-> IF ok THEN {[seen |-> t.seen, slipped |-> t.slipped]}
                                  ELSE slot[x].entry]]
        /\ cmd' = Woken(x, ok)
        /\ UNCHANGED <<queue, controller, permits, marked, config>>

\* The scope guard takes the refresh out of inflight.
SlotGuard(x) ==
    /\ \E t \in slot[x].task : t.pc = "sent"
    /\ slot' = [slot EXCEPT ![x].task = {}]
    /\ UNCHANGED <<queue, cmd, controller, permits, marked, config>>

-----------------------------------------------------------------------------
(* dispatch_command                                                        *)

\* A backend's command reaches the controller's queue.
Enqueue(c, kind) ==
    /\ cmd[c].at = "new" /\ \A b \in 1..(c - 1) : cmd[b].at # "new"
    /\ kind \in Kinds[namespace]
    /\ cmd' = [cmd EXCEPT ![c].kind = kind, ![c].at = "queued"]
    /\ queue' = Append(queue, c)
    /\ UNCHANGED <<controller, permits, slot, marked, config>>

\* Of a command that has ended only its result is kept.
Done(c, result) == [NewCommand EXCEPT !.kind = cmd[c].kind, !.at = "done", !.result = result]

\* Where a command first waits; a malformed one is answered at once.
FirstStep(kind) ==
    CASE kind \in {"discover_providers", "service_request"} -> {"get"}
      [] kind = "query_key" -> {"get", "reply"}
      [] kind = "service_request_to" -> {"send", "reply"}
      [] kind = "add_key" -> {"put", "reply"}
      [] kind = "provide_key" -> {"put", "provide", "reply"}
      [] kind = "remove_key" -> {"unprovide", "remove", "reply"}
      [] kind = "refresh_cache" -> {"clear"}
      [] kind = "reload_config" -> {"reload"}
      [] kind = "reconnect_bootstrap" -> {"dial"}
      [] kind = "local" -> {"reply"}

Start(c) ==
    \E at \in FirstStep(cmd[c].kind) :
    \E result \in IF at # "reply" THEN {"none"} ELSE IF cmd[c].kind = "local" THEN {"ok", "error"} ELSE {"error"} :
        cmd' = [cmd EXCEPT ![c].at = at, ![c].result = result, ![c].sends = IF at = "send" THEN 1 ELSE 0,
                           ![c].cache = IF cmd[c].kind = "query_key" THEN "record" ELSE "provider"]

\* The controller's task takes a command: a DHT command needs a permit and
\* gets a worker, any other runs on this task.
dispatch_command ==
    /\ controller = NoCommand /\ queue # <<>>
    /\ queue' = Tail(queue)
    /\ LET c == Head(queue)
       IN  \/ /\ cmd[c].kind \in WorkerKinds /\ permits = 0
              /\ cmd' = [cmd EXCEPT ![c] = Done(c, "busy")]
              /\ UNCHANGED <<controller, permits, slot>>
           \/ /\ cmd[c].kind \in WorkerKinds /\ permits > 0
              /\ permits' = permits - 1
              /\ Start(c)
              /\ UNCHANGED <<controller, slot>>
           \/ /\ cmd[c].kind \in InlineKinds
              /\ controller' = c
              /\ Start(c)
              /\ slot' = IF cmd[c].kind = "refresh_cache" THEN Invalidated(Cache, "all") ELSE slot
              /\ UNCHANGED permits
    /\ UNCHANGED <<marked, config>>

-----------------------------------------------------------------------------
(* Commands, on a worker or on the controller's task                       *)

To(c, at) == [cmd EXCEPT ![c].at = at]
Finished(c, result) ==
    [cmd EXCEPT ![c] = [NewCommand EXCEPT !.kind = cmd[c].kind, !.at = "reply", !.result = result]]

\* The mutant tries again with the list that it has.
RetryKeepsList(c) ==
    IF cmd[c].attempt = 0
    THEN cmd' = [cmd EXCEPT ![c].at = "get", ![c].attempt = 1] /\ marked' = marked \cup {c} /\ UNCHANGED slot
    ELSE cmd' = Finished(c, "error") /\ UNCHANGED <<marked, slot>>

\* One attempt of request_service has failed: the first time the provider
\* list is dropped and the loop goes on.
AttemptFailed(c) ==
    IF cmd[c].attempt = 0
    THEN /\ cmd' = [cmd EXCEPT ![c].at = "get", ![c].attempt = 1]
         /\ marked' = marked \cup {c}
         /\ slot' = Invalidated({"provider"}, "key")
    ELSE cmd' = Finished(c, "error") /\ UNCHANGED <<marked, slot>>

\* fetch_record or fetch_providers has returned: something is found or not.
Got(c, read) ==
    \E found \in BOOLEAN :
        \/ /\ cmd[c].kind = "query_key" /\ cmd[c].cache = "record"
           /\ cmd' = [cmd EXCEPT ![c].at = "get", ![c].cache = "provider", ![c].value = found,
                                 ![c].outcome = FALSE]
        \/ /\ cmd[c].kind = "query_key" /\ cmd[c].cache = "provider"
           /\ cmd' = Finished(c, IF cmd[c].value \/ found THEN "ok" ELSE "error")
        \/ /\ cmd[c].kind = "discover_providers"
           /\ cmd' = Finished(c, "ok")
        \/ /\ cmd[c].kind = "service_request"
           /\ cmd' = IF found THEN [cmd EXCEPT ![c].at = "send", ![c].sends = @ + 1, ![c].list = read]
                     ELSE Finished(c, "error")

\* It has returned an error.  The second attempt of request_service drops
\* the list too.
GotError(c) ==
    \/ /\ cmd[c].kind = "query_key" /\ cmd[c].cache = "provider"
       /\ cmd' = Finished(c, IF cmd[c].value THEN "ok" ELSE "error")
       /\ UNCHANGED <<marked, slot>>
    \/ /\ cmd[c].kind = "discover_providers" \/ (cmd[c].kind = "query_key" /\ cmd[c].cache = "record")
       /\ cmd' = Finished(c, "error")
       /\ UNCHANGED <<marked, slot>>
    \/ /\ cmd[c].kind = "service_request" /\ cmd[c].attempt = 0
       /\ AttemptFailed(c)
    \/ /\ cmd[c].kind = "service_request" /\ cmd[c].attempt = 1
       /\ cmd' = Finished(c, "error")
       /\ slot' = Invalidated({"provider"}, "key")
       /\ UNCHANGED marked

\* DhtCache::get: a cached value, with a refresh behind it, or the outcome
\* of the refresh, an earlier one if it is still listed.
get(c) ==
    LET x == cmd[c].cache
    IN  /\ cmd[c].at = "get"
        /\ \/ \E read \in slot[x].entry : Got(c, read) /\ slot' = [slot EXCEPT ![x] = Refreshing(@)]
           \/ /\ slot[x].entry = {}
              /\ \E t \in slot[x].task :
                    t.pc = "sent" /\ cmd' = [cmd EXCEPT ![c].at = "woken", ![c].outcome = t.ok]
              /\ UNCHANGED slot
           \/ /\ slot[x].entry = {} /\ \A t \in slot[x].task : t.pc # "sent"
              /\ cmd' = To(c, "await")
              /\ slot' = [slot EXCEPT ![x] = Refreshing(@)]
        /\ UNCHANGED <<queue, controller, permits, marked, config>>

\* get goes on; a value that has been dropped since is an error.
WakeReader(c) ==
    /\ cmd[c].at = "woken"
    /\ \/ /\ cmd[c].outcome
          /\ \E read \in slot[cmd[c].cache].entry : Got(c, read)
          /\ UNCHANGED <<marked, slot>>
       \/ /\ ~cmd[c].outcome \/ slot[cmd[c].cache].entry = {}
          /\ GotError(c)
    /\ UNCHANGED <<queue, controller, permits, config>>

\* send_request_resolved: a request is answered, by a success or a failure.
Response(c) ==
    /\ cmd[c].at \in {"send", "resend"}
    /\ \E result \in {"ok", "error"} :
          cmd' = Finished(c, result)
    /\ UNCHANGED <<queue, controller, permits, slot, marked, config>>

\* The direct request fails: the peer's addresses are looked up.
SendFails(c) ==
    /\ cmd[c].at = "send"
    /\ cmd' = To(c, "resolve")
    /\ UNCHANGED <<queue, controller, permits, slot, marked, config>>

Resolved(c) ==
    /\ cmd[c].at = "resolve"
    /\ cmd' = [cmd EXCEPT ![c].at = "resend", ![c].sends = @ + 1]
    /\ UNCHANGED <<queue, controller, permits, slot, marked, config>>

\* No address is found, or the request fails there too.
RequestFails(c) ==
    /\ cmd[c].at \in {"resolve", "resend"}
    /\ IF cmd[c].kind = "service_request" THEN AttemptFailed(c)
       ELSE cmd' = Finished(c, "error") /\ UNCHANGED <<marked, slot>>
    /\ UNCHANGED <<queue, controller, permits, config>>

\* The swarm carries out a change: put_record, stop_providing, remove_record
\* or reload.  remove_key may ask for the first, the second or both.
Changes(c) ==
    /\ cmd[c].at \in {"put", "unprovide", "remove", "reload"}
    /\ \/ cmd' = To(c, "changed") /\ marked' = marked \cup {c}
       \/ cmd[c].at = "unprovide" /\ cmd' = To(c, "remove") /\ UNCHANGED marked
    /\ UNCHANGED <<queue, controller, permits, slot, config>>

\* What is cached is dropped once the change is made.
AfterChange(c) ==
    /\ cmd[c].at = "changed"
    /\ slot' = CASE cmd[c].kind = "add_key" -> Invalidated(WorkerKeyCaches, "key")
                 [] cmd[c].kind \in {"provide_key", "remove_key"} -> Invalidated(RecordKeyCaches, "key")
                 [] cmd[c].kind = "reload_config" -> Invalidated(Cache, "all")
    /\ cmd' = IF cmd[c].kind = "provide_key" THEN To(c, "provide") ELSE Finished(c, "ok")
    /\ UNCHANGED <<queue, controller, permits, marked, config>>

\* The last call to the swarm succeeds; dial reports what it could do.
LastCall(c) ==
    /\ cmd[c].at \in {"provide", "clear", "dial"}
    /\ cmd' = Finished(c, "ok")
    /\ UNCHANGED <<queue, controller, permits, slot, marked, config>>

\* The swarm reports an error: nothing more is done, nothing is dropped.
CallFails(c) ==
    /\ cmd[c].at \in {"put", "unprovide", "remove", "reload", "provide", "clear"}
    /\ cmd' = Finished(c, "error")
    /\ UNCHANGED <<queue, controller, permits, slot, marked, config>>

\* The result is sent.  A worker still has its permit.
Reply(c) ==
    /\ cmd[c].at = "reply"
    /\ cmd' = IF cmd[c].kind \in WorkerKinds THEN To(c, "replied")
              ELSE [cmd EXCEPT ![c] = Done(c, cmd[c].result)]
    /\ controller' = IF controller = c THEN NoCommand ELSE controller
    /\ UNCHANGED <<queue, permits, slot, marked, config>>

DropPermit(c) ==
    /\ cmd[c].at = "replied"
    /\ cmd' = [cmd EXCEPT ![c] = Done(c, cmd[c].result)]
    /\ permits' = permits + 1
    /\ UNCHANGED <<queue, controller, slot, marked, config>>

-----------------------------------------------------------------------------

\* Earlier commands may have left something in the caches.
CommandsInit ==
    /\ queue = <<>>
    /\ cmd = [c \in Command |-> NewCommand]
    /\ controller = NoCommand
    /\ limit \in Limits /\ permits = limit
    /\ marked = {}
    /\ namespace \in {"service", "auth"}
    /\ \E warm \in BOOLEAN :
          slot = [x \in Cache |-> [entry |-> IF warm THEN {Older} ELSE {}, task |-> {}]]

CommandStep(c) ==
    \/ get(c) \/ WakeReader(c)
    \/ Response(c) \/ SendFails(c) \/ Resolved(c) \/ RequestFails(c)
    \/ Changes(c) \/ AfterChange(c) \/ LastCall(c) \/ CallFails(c)
    \/ Reply(c) \/ DropPermit(c)

RefreshStep(x) == SlotCompare(x) \/ SlotApply(x) \/ SlotGuard(x)

CommandsNext ==
    \/ \E c \in Command, kind \in WorkerKinds \cup InlineKinds : Enqueue(c, kind)
    \/ dispatch_command \/ AuthReads \/ AuthRejects
    \/ \E c \in Command : CommandStep(c)
    \/ \E x \in Cache : RefreshStep(x)

CommandsSpec == CommandsInit /\ [][CommandsNext]_commandVars

CommandsTypeOK ==
    /\ queue \in Seq(Command) /\ controller \in Command \cup {NoCommand}
    /\ cmd \in [Command -> CommandState]
    /\ permits \in 0..limit
    /\ DOMAIN slot = Cache /\ marked \subseteq Command
    /\ \A x \in Cache : /\ slot[x].entry \subseteq Read /\ Cardinality(slot[x].entry) <= 1
                        /\ slot[x].task \subseteq SlotTask /\ Cardinality(slot[x].task) <= 1

-----------------------------------------------------------------------------

(***************************************************************************)
(* Once add_key, remove_key or reload_config has succeeded, no cache       *)
(* serves what a query begun before the change found, however the change,  *)
(* the refreshes in flight and the other commands interleave.  Excepted    *)
(* are the results that slip past an invalidation inside the cache.        *)
(* (The invalidations of command.rs, after the awaits.)                    *)
(***************************************************************************)
ChangedBy(kind) ==
    {"record"} \cup (IF namespace = "auth" THEN {"auth"} ELSE {})
               \cup (IF kind = "remove_key" /\ namespace = "service" THEN {"provider"} ELSE {})
               \cup (IF kind = "reload_config" THEN Cache ELSE {})

AckedChangesAreSeen ==
    \A c \in marked :
        cmd[c].kind \in {"add_key", "provide_key", "remove_key", "reload_config"} /\ cmd[c].result = "ok"
            => \A x \in ChangedBy(cmd[c].kind) : \A e \in slot[x].entry : c \in e.seen \/ e.slipped

(***************************************************************************)
(* A second attempt of service_request only uses a provider list that was  *)
(* queried for after the first one failed, whoever began that query, and   *)
(* one command makes at most two requests for each attempt.  (State well   *)
(* typed; request_service and its provider_cache.invalidate.)              *)
(***************************************************************************)
RetryIsFresh ==
    /\ CommandsTypeOK
    /\ \A c \in Command :
        /\ cmd[c].sends <= 2 * (cmd[c].attempt + 1)
        /\ cmd[c].kind = "service_request" /\ cmd[c].attempt = 1 /\ cmd[c].at \in {"send", "resolve", "resend"}
               => c \in cmd[c].list.seen \/ cmd[c].list.slipped

(***************************************************************************)
(* No command waits for something that does not come.  A waiting get has a *)
(* refresh that has yet to report, also when others failed, were voided or *)
(* joined it; every permit is free or with a worker that has not ended; a  *)
(* queued command is in the queue once, and the controller's task is only  *)
(* taken by a command that still runs on it.                               *)
(* (dispatch_command, its workers with drop(permit), DhtCache::get.)       *)
(***************************************************************************)
NobodyWaitsInVain ==
    /\ permits = limit - Cardinality(Holding)
    /\ controller # NoCommand =>
           cmd[controller].kind \in InlineKinds /\ cmd[controller].at \notin {"new", "queued", "done"}
    /\ \A c \in Command :
           /\ cmd[c].at = "await" => \E t \in slot[cmd[c].cache].task : t.pc # "sent"
           /\ Cardinality({i \in DOMAIN queue : queue[i] = c}) = (IF cmd[c].at = "queued" THEN 1 ELSE 0)
           /\ cmd[c].kind \in InlineKinds /\ cmd[c].at \notin {"new", "queued", "done"} => controller = c

=============================================================================
