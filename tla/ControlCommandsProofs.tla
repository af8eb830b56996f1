----------------------- MODULE ControlCommandsProofs -----------------------
(***************************************************************************)
(* Proofs about ControlCommands, for any number of commands, any kinds of  *)
(* them and any max_inflight_dht: one inductive invariant, and from it     *)
(* AckedChangesAreSeen, RetryIsFresh and NobodyWaitsInVain.                *)
(***************************************************************************)
EXTENDS ControlCommands, FiniteSetTheorems, TLAPS

-----------------------------------------------------------------------------
(* The inductive invariant                                                 *)

In(x, q) == \E n \in DOMAIN q : q[n] = x
Once(q) == \A m, n \in DOMAIN q : q[m] = q[n] => m = n

Reading == {"get", "await", "woken"}
Sending == {"send", "resolve", "resend"}
Changing == {"add_key", "provide_key", "remove_key", "reload_config"}
Idle == {"new", "queued", "done"}

\* What a command is at fits its kind, a second attempt is marked, and its
\* list was queried for after the mark.  r is the state of the command c.
Fits(c, r, M) ==
    /\ r.at \in Reading => r.kind \in {"query_key", "discover_providers", "service_request"}
    /\ r.at \in Sending => r.kind \in {"service_request", "service_request_to"}
    /\ r.at \in {"put", "unprovide", "remove", "reload", "changed", "provide"} => r.kind \in Changing
    /\ r.at = "provide" => r.kind = "provide_key"
    /\ r.at \in {"clear", "dial"} => r.kind \in {"refresh_cache", "reconnect_bootstrap"}
    /\ r.at = "replied" => r.kind \in WorkerKinds
    /\ r.at \notin {"reply", "replied", "done"} => r.result = "none"
    /\ r.attempt = 1 => c \in M /\ r.kind = "service_request"
    /\ r.at \in {"new", "queued"} => c \notin M
    /\ r.at \in Reading \cup Sending /\ r.kind = "service_request" => r.cache = "provider"
    /\ r.at \in Sending /\ r.attempt = 1 => c \in r.list.seen \/ r.list.slipped
    /\ r.sends <= 2 * r.attempt + (CASE r.at \in {"send", "resolve"} -> 1 [] r.at = "resend" -> 2 [] OTHER -> 0)

\* What the slot s has, or will have from its refresh, was queried for after
\* c was marked, or has slipped past the invalidation.
Fresh(c, s) ==
    /\ \A e \in s.entry : c \in e.seen \/ e.slipped
    /\ \A t \in s.task : /\ t.pc = "fetching" => c \in t.seen \/ t.void # "no"
                         /\ t.pc = "apply" => c \in t.seen \/ t.slipped

\* The slots that must be so for a command c in the state r.
Owed(c, r, M, x) ==
    /\ c \in M
    /\ \/ r.kind \in Changing /\ (r.result = "ok" \/ r.at = "provide") /\ x \in ChangedBy(r.kind)
       \/ r.attempt = 1 /\ x = "provider"

Slot == [entry : SUBSET Read, task : SUBSET SlotTask]
Single(s) == (\A a, b \in s.entry : a = b) /\ (\A a, b \in s.task : a = b)
Live(s) == \E t \in s.task : t.pc # "sent"

CommandsTypes ==
    /\ queue \in Seq(Command) /\ Once(queue)
    /\ controller \in Command \cup {NoCommand}
    /\ cmd \in [Command -> CommandState]
    /\ marked \subseteq Command /\ permits \in Nat /\ limit \in Nat

Slots == slot \in [Cache -> Slot] /\ \A x \in Cache : Single(slot[x])
Covered == \A c \in Command, x \in Cache : Owed(c, cmd[c], marked, x) => Fresh(c, slot[x])
Awaited == \A c \in Command : cmd[c].at = "await" => Live(slot[cmd[c].cache])
Fitting == \A c \in Command : Fits(c, cmd[c], marked)
Permits == permits = limit - Cardinality(Holding)
Turns ==
    /\ controller # NoCommand => cmd[controller].kind \in InlineKinds /\ cmd[controller].at \notin Idle
    /\ \A c \in Command : cmd[c].kind \in InlineKinds /\ cmd[c].at \notin Idle => controller = c
    /\ \A c \in Command : cmd[c].at = "queued" <=> In(c, queue)

CommandsInv == CommandsTypes /\ Slots /\ Covered /\ Awaited /\ Fitting /\ Permits /\ Turns

-----------------------------------------------------------------------------
(* Slots                                                                   *)

LEMMA CommandFacts == NoCommand \notin Command /\ IsFiniteSet(Command) /\ WorkerKinds \cap InlineKinds = {}
  BY FS_Interval, CommandsAssumption DEF Command, NoCommand, WorkerKinds, InlineKinds

\* The slots stay well formed, keep a refresh that has yet to report, and
\* nothing older gets into one.
SlotsKept ==
    /\ Slots'
    /\ \A x \in Cache : /\ \A d \in marked : Fresh(d, slot[x]) => Fresh(d, slot'[x])
                        /\ Live(slot[x]) => Live(slot'[x])

LEMMA SameSlots ==
    ASSUME Slots, UNCHANGED slot
    PROVE  SlotsKept
  BY Zenon DEF Slots, SlotsKept

LEMMA RefreshingFacts ==
    ASSUME marked \subseteq Command, NEW s \in Slot, Single(s)
    PROVE  LET r == Refreshing(s)
           IN  /\ r \in Slot /\ Single(r) /\ r.entry = s.entry
               /\ \A d \in marked : Fresh(d, s) => Fresh(d, r)
               /\ Live(s) => Live(r)
               /\ (\A t \in s.task : t.pc # "sent") => Live(r)
<1>1. Begun \in SlotTask /\ Begun.pc = "fetching" /\ Begun.seen = marked
  BY DEF Begun, SlotTask
<1>2. CASE s.task = {}
  <2>1. Refreshing(s) = [s EXCEPT !.task = {Begun}]
    BY <1>2, Zenon DEF Refreshing
  <2>2. Refreshing(s).task = {Begun} /\ Refreshing(s).entry = s.entry /\ Refreshing(s) \in Slot
    BY <1>1, <2>1 DEF Slot
  <2>3. QED
    BY <1>1, <1>2, <2>2 DEF Single, Fresh, Live
<1>3. CASE s.task # {}
  <2>1. Refreshing(s) = s
    BY <1>3, Zenon DEF Refreshing
  <2>2. QED
    BY <1>3, <2>1 DEF Live
<1>4. QED
  BY <1>2, <1>3, Zenon

LEMMA RefreshedSlots ==
    ASSUME CommandsTypes, Slots, NEW x \in Cache, slot' = [slot EXCEPT ![x] = Refreshing(@)]
    PROVE  /\ SlotsKept
           /\ (\A t \in slot[x].task : t.pc # "sent") => Live(slot'[x])
<1>1. slot[x] \in Slot /\ Single(slot[x]) /\ marked \subseteq Command
  BY Zenon DEF Slots, CommandsTypes
<1>2. /\ Refreshing(slot[x]) \in Slot /\ Single(Refreshing(slot[x]))
      /\ \A d \in marked : Fresh(d, slot[x]) => Fresh(d, Refreshing(slot[x]))
      /\ Live(slot[x]) => Live(Refreshing(slot[x]))
      /\ (\A t \in slot[x].task : t.pc # "sent") => Live(Refreshing(slot[x]))
  BY <1>1, RefreshingFacts, Zenon
<1>3. slot'[x] = Refreshing(slot[x]) /\ slot' \in [Cache -> Slot] /\ \A y \in Cache : y # x => slot'[y] = slot[y]
  BY <1>2, Zenon DEF Slots
<1>4. QED
  BY <1>2, <1>3, Zenon DEF Slots, SlotsKept

LEMMA VoidedFacts ==
    ASSUME NEW s \in Slot, Single(s), NEW how \in {"key", "all"}
    PROVE  LET r == SlotVoided(s, how)
           IN  /\ r \in Slot /\ Single(r) /\ r.entry = {}
               /\ \A d \in Command : Fresh(d, r)
               /\ Live(s) => Live(r)
<1> DEFINE void(t) == IF t.void \in {"no", how} THEN how ELSE "mixed"
           V(t) == CASE t.pc = "fetching" -> [t EXCEPT !.void = void(t)]
                     [] t.pc = "apply" -> [t EXCEPT !.slipped = TRUE]
                     [] t.pc = "sent" -> t
           r == SlotVoided(s, how)
<1>1. r.entry = {} /\ r.task = {V(t) : t \in s.task} /\ r = [entry |-> {}, task |-> {V(t) : t \in s.task}]
  BY Zenon DEF SlotVoided
<1>2. ASSUME NEW t \in SlotTask
      PROVE  /\ V(t) \in SlotTask /\ V(t).pc = t.pc
             /\ t.pc = "fetching" => V(t).void # "no"
             /\ t.pc = "apply" => V(t).slipped
  <2>1. CASE t.pc = "fetching"
    BY <2>1 DEF SlotTask
  <2>2. CASE t.pc = "apply"
    BY <2>2, Zenon DEF SlotTask
  <2>3. CASE t.pc = "sent"
    BY <2>3 DEF SlotTask
  <2>4. QED
    BY <2>1, <2>2, <2>3 DEF SlotTask
<1> HIDE DEF V
<1>3. \A t \in s.task : t \in SlotTask
  BY DEF Slot
<1>4. r \in Slot
  BY <1>1, <1>2, <1>3 DEF Slot
<1>5. Single(r)
  BY <1>1 DEF Single
<1>6. ASSUME NEW d \in Command
      PROVE  Fresh(d, r)
  BY <1>1, <1>2, <1>3 DEF Fresh
<1>7. Live(s) => Live(r)
  BY <1>1, <1>2, <1>3 DEF Live
<1> HIDE DEF r
<1>8. QED
  BY <1>1, <1>4, <1>5, <1>6, <1>7 DEF r

LEMMA InvalidatedSlots ==
    ASSUME CommandsTypes, Slots, NEW C, C \subseteq Cache, NEW how \in {"key", "all"}, slot' = Invalidated(C, how)
    PROVE  /\ SlotsKept
           /\ \A d \in Command, x \in Cache : x \in C => Fresh(d, slot'[x])
<1>1. ASSUME NEW x \in Cache, x \in C
      PROVE  /\ slot'[x] \in Slot /\ Single(slot'[x])
             /\ Live(slot[x]) => Live(slot'[x])
             /\ \A d \in Command : Fresh(d, slot'[x])
  <2> DEFINE h == IF x = "auth" THEN "all" ELSE how
  <2>1. h \in {"key", "all"}
    OBVIOUS
  <2>2. slot'[x] = SlotVoided(slot[x], h)
    BY <1>1 DEF Invalidated
  <2>3. slot[x] \in Slot /\ Single(slot[x])
    BY Zenon DEF Slots
  <2> HIDE DEF h
  <2>4. LET r == SlotVoided(slot[x], h)
        IN  /\ r \in Slot /\ Single(r) /\ r.entry = {}
            /\ \A d \in Command : Fresh(d, r)
            /\ Live(slot[x]) => Live(r)
    BY <2>1, <2>3, VoidedFacts, Zenon
  <2>5. QED
    BY <2>2, <2>4, Zenon
<1>2. \A x \in Cache : x \notin C => slot'[x] = slot[x]
  BY DEF Invalidated
<1>3. slot' \in [Cache -> Slot]
  <2>1. \A x \in Cache : slot'[x] \in Slot
    BY <1>1, <1>2, Zenon DEF Slots
  <2>2. slot' = [x \in Cache |-> slot'[x]]
    BY DEF Invalidated
  <2>3. QED
    BY <2>1, <2>2
<1>4. \A x \in Cache : Single(slot'[x])
  BY <1>1, <1>2, Zenon DEF Slots
<1>5. \A x \in Cache : /\ \A d \in marked : Fresh(d, slot[x]) => Fresh(d, slot'[x])
                       /\ Live(slot[x]) => Live(slot'[x])
  BY <1>1, <1>2, Zenon DEF CommandsTypes
<1>6. QED
  BY <1>1, <1>3, <1>4, <1>5, Zenon DEF Slots, SlotsKept

-----------------------------------------------------------------------------
(* A step of one command                                                   *)

\* Fits and Owed of a command that stays as it is.
LEMMA OthersKept ==
    ASSUME CommandsInv, SlotsKept, NEW c \in Command, marked' \in {marked, marked \cup {c}}, UNCHANGED namespace,
           NEW d \in Command, d # c, cmd'[d] = cmd[d]
    PROVE  /\ Fits(d, cmd'[d], marked')
           /\ cmd'[d].at = "await" => Live(slot'[cmd'[d].cache])
           /\ \A x \in Cache : Owed(d, cmd[d], marked, x)' => Fresh(d, slot'[x])
<1>1. d \in marked' <=> d \in marked
  OBVIOUS
<1>2. Fits(d, cmd'[d], marked')
  <2>1. Fits(d, cmd[d], marked)
    BY Zenon DEF CommandsInv, Fitting
  <2>2. QED
    BY <1>1, <2>1, Zenon DEF Fits
<1>3. cmd'[d].at = "await" => Live(slot'[cmd'[d].cache])
  <2>1. cmd[d].cache \in Cache
    BY DEF CommandsInv, CommandsTypes, CommandState, Cache
  <2>2. QED
    BY <2>1, Zenon DEF CommandsInv, Awaited, SlotsKept
<1>4. ASSUME NEW x \in Cache, Owed(d, cmd[d], marked, x)'
      PROVE  Fresh(d, slot'[x])
  <2>1. \A kind : ChangedBy(kind)' = ChangedBy(kind)
    BY Zenon DEF ChangedBy
  <2>2. Owed(d, cmd[d], marked, x)
    BY <1>1, <1>4, <2>1, Zenon DEF Owed
  <2>3. QED
    BY <1>1, <1>4, <2>2, Zenon DEF CommandsInv, Covered, SlotsKept, Owed
<1>5. QED
  BY <1>2, <1>3, <1>4, Zenon

\* The command c goes on to the state r: what has to be shown of r.
LEMMA StepCore ==
    ASSUME CommandsInv, SlotsKept, NEW c \in Command, NEW r \in CommandState, cmd' = [cmd EXCEPT ![c] = r],
           marked' \in {marked, marked \cup {c}}, UNCHANGED config,
           Fits(c, r, marked'),
           r.at = "await" => Live(slot'[r.cache]),
           \A x \in Cache : Owed(c, r, marked', x) => Fresh(c, slot'[x])
    PROVE  /\ cmd' \in [Command -> CommandState] /\ cmd'[c] = r /\ \A d \in Command : d # c => cmd'[d] = cmd[d]
           /\ UNCHANGED <<namespace, limit>> /\ marked' \subseteq Command
           /\ Slots' /\ Covered' /\ Awaited' /\ Fitting'
<1>1. /\ cmd' \in [Command -> CommandState] /\ cmd'[c] = r /\ \A d \in Command : d # c => cmd'[d] = cmd[d]
      /\ UNCHANGED <<namespace, limit>> /\ marked' \subseteq Command
  BY DEF CommandsInv, CommandsTypes, config
<1>2. \A d \in Command : d # c => /\ Fits(d, cmd'[d], marked')
                                  /\ cmd'[d].at = "await" => Live(slot'[cmd'[d].cache])
                                  /\ \A x \in Cache : Owed(d, cmd[d], marked, x)' => Fresh(d, slot'[x])
  BY <1>1, OthersKept, Zenon
<1>3. Slots'
  BY Zenon DEF SlotsKept
<1>4. Covered'
  <2>1. \A kind : ChangedBy(kind)' = ChangedBy(kind)
    BY <1>1, Zenon DEF ChangedBy
  <2>2. \A x \in Cache : Owed(c, cmd[c], marked, x)' => Owed(c, r, marked', x)
    BY <1>1, <2>1, Zenon DEF Owed
  <2>3. QED
    BY <1>2, <2>2, Zenon DEF Covered
<1>5. Awaited'
  BY <1>1, <1>2, Zenon DEF Awaited
<1>6. Fitting'
  BY <1>1, <1>2, Zenon DEF Fitting
<1>7. QED
  BY <1>1, <1>3, <1>4, <1>5, <1>6, Zenon

\* The same while it runs.
LEMMA OneStep ==
    ASSUME CommandsInv, SlotsKept, NEW c \in Command, NEW r \in CommandState, cmd' = [cmd EXCEPT ![c] = r],
           cmd[c].at \notin Idle, r.at \notin Idle, r.kind = cmd[c].kind,
           marked' \in {marked, marked \cup {c}}, UNCHANGED <<queue, controller, permits, config>>,
           Fits(c, r, marked'),
           r.at = "await" => Live(slot'[r.cache]),
           \A x \in Cache : Owed(c, r, marked', x) => Fresh(c, slot'[x])
    PROVE  CommandsInv'
<1>1. /\ cmd' \in [Command -> CommandState] /\ cmd'[c] = r /\ \A d \in Command : d # c => cmd'[d] = cmd[d]
      /\ UNCHANGED <<namespace, limit>> /\ marked' \subseteq Command
      /\ Slots' /\ Covered' /\ Awaited' /\ Fitting'
  BY StepCore, Zenon
<1>2. CommandsTypes'
  BY <1>1, Zenon DEF CommandsInv, CommandsTypes
<1>3. Permits'
  <2>1. \A d \in Command : d \in Holding' <=> d \in Holding
    BY <1>1, Zenon DEF Holding, Idle
  <2>2. Holding' = Holding
    BY <2>1 DEF Holding
  <2>3. QED
    BY <1>1, <2>2, Zenon DEF CommandsInv, Permits
<1>4. Turns'
  <2>1. "queued" \in Idle
    BY DEF Idle
  <2>2. cmd[c].at # "queued" /\ r.at # "queued"
    BY <2>1, Zenon
  <2>3. (controller # NoCommand => cmd[controller].kind \in InlineKinds /\ cmd[controller].at \notin Idle)'
    BY <1>1, Zenon DEF CommandsInv, CommandsTypes, Turns
  <2>4. (\A d \in Command : cmd[d].kind \in InlineKinds /\ cmd[d].at \notin Idle => controller = d)'
    BY <1>1, Zenon DEF CommandsInv, Turns
  <2>5. (\A d \in Command : cmd[d].at = "queued" <=> In(d, queue))'
    BY <1>1, <2>2 DEF CommandsInv, Turns
  <2>6. QED
    BY <2>3, <2>4, <2>5, Zenon DEF Turns
<1>5. QED
  BY <1>1, <1>2, <1>3, <1>4, Zenon DEF CommandsInv

LEMMA NewFacts == NewCommand \in CommandState
<1>1. Older \in Read
  BY DEF Older, Read
<1>2. QED
  BY <1>1 DEF NewCommand, CommandState

\* The command c ends with a result.
LEMMA FinishStep ==
    ASSUME CommandsInv, SlotsKept, NEW c \in Command, NEW result \in {"ok", "error"}, cmd' = Finished(c, result),
           cmd[c].at \notin Idle, UNCHANGED <<queue, controller, permits, marked, config>>,
           c \in marked /\ cmd[c].kind \in Changing /\ result = "ok" =>
               \A x \in Cache : x \in ChangedBy(cmd[c].kind) => Fresh(c, slot'[x])
    PROVE  CommandsInv'
<1> DEFINE r == [NewCommand EXCEPT !.kind = cmd[c].kind, !.at = "reply", !.result = result]
<1>1. cmd' = [cmd EXCEPT ![c] = r]
  BY Zenon DEF Finished
<1>2. cmd[c] \in CommandState
  BY Zenon DEF CommandsInv, CommandsTypes
<1>3. /\ r \in CommandState /\ r.kind = cmd[c].kind /\ r.at = "reply" /\ r.result = result
      /\ r.attempt = 0 /\ r.sends = 0
  <2>1. cmd[c].kind \in WorkerKinds \cup InlineKinds \cup {"none"}
    BY <1>2 DEF CommandState
  <2>2. r \in CommandState
    BY <2>1, NewFacts, Zenon DEF CommandState
  <2>3. r.kind = cmd[c].kind /\ r.at = "reply" /\ r.result = result /\ r.attempt = 0 /\ r.sends = 0
    BY DEF NewCommand
  <2>4. QED
    BY <2>2, <2>3, Zenon
<1> HIDE DEF r
<1>4. r.at \notin Idle
  BY <1>3 DEF Idle
<1>5. Fits(c, r, marked')
  BY <1>3 DEF Fits, Reading, Sending
<1>6. ASSUME NEW x \in Cache, Owed(c, r, marked', x)
      PROVE  Fresh(c, slot'[x])
  <2>1. c \in marked /\ r.kind \in Changing /\ r.result = "ok" /\ x \in ChangedBy(r.kind)
    BY <1>3, <1>6 DEF Owed
  <2>2. QED
    BY <1>3, <2>1, Zenon
<1>7. r.at # "await" /\ marked' \in {marked, marked \cup {c}}
  BY <1>3
<1>8. QED
  BY <1>1, <1>3, <1>4, <1>5, <1>6, <1>7, OneStep, Zenon

\* The command c goes on to another place and stays as it is otherwise.
LEMMA ToFacts ==
    ASSUME CommandsInv, NEW c \in Command, NEW at \in Waits \cup {"get", "changed", "reply", "replied"}, cmd' = To(c, at)
    PROVE  \E r \in CommandState :
              /\ cmd' = [cmd EXCEPT ![c] = r] /\ r.at = at /\ r.kind = cmd[c].kind /\ r.cache = cmd[c].cache
              /\ r.list = cmd[c].list /\ r.attempt = cmd[c].attempt /\ r.sends = cmd[c].sends
              /\ r.result = cmd[c].result
<1> DEFINE r == [cmd[c] EXCEPT !.at = at]
<1>1. cmd[c] \in CommandState /\ cmd' = [cmd EXCEPT ![c] = r]
  BY Zenon DEF CommandsInv, CommandsTypes, To
<1>2. /\ r \in CommandState /\ r.at = at /\ r.kind = cmd[c].kind /\ r.cache = cmd[c].cache
      /\ r.list = cmd[c].list /\ r.attempt = cmd[c].attempt /\ r.sends = cmd[c].sends
      /\ r.result = cmd[c].result
  BY <1>1 DEF CommandState
<1> HIDE DEF r
<1>3. QED
  BY <1>1, <1>2, Zenon

LEMMA ResponseInv ==
    ASSUME CommandsInv, NEW c \in Command, Response(c)
    PROVE  CommandsInv'
<1>1. PICK result \in {"ok", "error"} : cmd' = Finished(c, result)
  BY Zenon DEF Response
<1>2. cmd[c].at \in {"send", "resend"} /\ UNCHANGED <<queue, controller, permits, slot, marked, config>>
  BY Zenon DEF Response
<1>3. cmd[c].at \notin Idle /\ cmd[c].at \in Sending
  BY <1>2 DEF Idle, Sending
<1>4. cmd[c].kind \in {"service_request", "service_request_to"}
  BY <1>3, Zenon DEF CommandsInv, Fitting, Fits
<1>5. cmd[c].kind \notin Changing
  BY <1>4 DEF Changing
<1>6. SlotsKept
  BY <1>2, SameSlots, Zenon DEF CommandsInv
<1>7. QED
  BY <1>1, <1>2, <1>3, <1>5, <1>6, FinishStep, Zenon

LEMMA CallFailsInv ==
    ASSUME CommandsInv, NEW c \in Command, CallFails(c)
    PROVE  CommandsInv'
<1>1. /\ cmd' = Finished(c, "error") /\ UNCHANGED <<queue, controller, permits, slot, marked, config>>
      /\ cmd[c].at \in {"put", "unprovide", "remove", "reload", "provide", "clear"}
  BY Zenon DEF CallFails
<1>2. cmd[c].at \notin Idle /\ "error" \in {"ok", "error"} /\ "error" # "ok"
  BY <1>1 DEF Idle
<1>3. SlotsKept
  BY <1>1, SameSlots, Zenon DEF CommandsInv
<1>4. QED
  BY <1>1, <1>2, <1>3, FinishStep, Zenon

LEMMA LastCallInv ==
    ASSUME CommandsInv, NEW c \in Command, LastCall(c)
    PROVE  CommandsInv'
<1>1. /\ cmd' = Finished(c, "ok") /\ UNCHANGED <<queue, controller, permits, slot, marked, config>>
      /\ cmd[c].at \in {"provide", "clear", "dial"}
  BY Zenon DEF LastCall
<1>2. cmd[c].at \notin Idle /\ "ok" \in {"ok", "error"}
  BY <1>1 DEF Idle
<1>3. SlotsKept
  BY <1>1, SameSlots, Zenon DEF CommandsInv
<1>4. ASSUME c \in marked, cmd[c].kind \in Changing, NEW x \in Cache, x \in ChangedBy(cmd[c].kind)
      PROVE  Fresh(c, slot'[x])
  <2>1. CASE cmd[c].at = "provide"
    BY <1>1, <1>4, <2>1, Zenon DEF CommandsInv, Covered, Owed
  <2>2. CASE cmd[c].at \in {"clear", "dial"}
    <3>1. cmd[c].kind \in {"refresh_cache", "reconnect_bootstrap"}
      BY <2>2, Zenon DEF CommandsInv, Fitting, Fits
    <3>2. QED
      BY <1>4, <3>1 DEF Changing
  <2>3. QED
    BY <1>1, <2>1, <2>2
<1>5. QED
  BY <1>1, <1>2, <1>3, <1>4, FinishStep, Zenon

LEMMA SendFailsInv ==
    ASSUME CommandsInv, NEW c \in Command, SendFails(c)
    PROVE  CommandsInv'
<1>1. cmd' = To(c, "resolve") /\ cmd[c].at = "send" /\ UNCHANGED <<queue, controller, permits, slot, marked, config>>
  BY Zenon DEF SendFails
<1>2. "resolve" \in Waits \cup {"get", "changed", "reply", "replied"}
  BY DEF Waits
<1>3. PICK r \in CommandState :
              /\ cmd' = [cmd EXCEPT ![c] = r] /\ r.at = "resolve" /\ r.kind = cmd[c].kind /\ r.cache = cmd[c].cache
              /\ r.list = cmd[c].list /\ r.attempt = cmd[c].attempt /\ r.sends = cmd[c].sends
              /\ r.result = cmd[c].result
  BY <1>1, <1>2, ToFacts, Zenon
<1>4. SlotsKept
  BY <1>1, SameSlots, Zenon DEF CommandsInv
<1>5. cmd[c].at \notin Idle /\ r.at \notin Idle /\ r.at # "await" /\ marked' \in {marked, marked \cup {c}}
  BY <1>1, <1>3 DEF Idle
<1>6. Fits(c, r, marked')
  <2>1. Fits(c, cmd[c], marked)
    BY Zenon DEF CommandsInv, Fitting
  <2>2. QED
    BY <1>1, <1>3, <2>1 DEF Fits, Reading, Sending
<1>7. ASSUME NEW x \in Cache, Owed(c, r, marked', x)
      PROVE  Fresh(c, slot'[x])
  <2>1. Owed(c, cmd[c], marked, x)
    BY <1>1, <1>3, <1>7 DEF Owed
  <2>2. QED
    BY <1>1, <2>1, Zenon DEF CommandsInv, Covered
<1>8. QED
  BY <1>1, <1>3, <1>4, <1>5, <1>6, <1>7, OneStep, Zenon

LEMMA ResolvedInv ==
    ASSUME CommandsInv, NEW c \in Command, Resolved(c)
    PROVE  CommandsInv'
<1> DEFINE r == [cmd[c] EXCEPT !.at = "resend", !.sends = @ + 1]
<1>1. /\ cmd[c].at = "resolve" /\ UNCHANGED <<queue, controller, permits, slot, marked, config>>
      /\ cmd' = [cmd EXCEPT ![c].at = "resend", ![c].sends = @ + 1]
  BY Zenon DEF Resolved
<1>2. cmd[c] \in CommandState /\ Fits(c, cmd[c], marked) /\ cmd \in [Command -> CommandState]
  BY Zenon DEF CommandsInv, CommandsTypes, Fitting
<1>3. cmd[c].sends \in 0..4 /\ cmd[c].attempt \in 0..1 /\ cmd[c].sends <= 2 * cmd[c].attempt + 1
  BY <1>1, <1>2 DEF CommandState, Fits
<1>4. cmd' = [cmd EXCEPT ![c] = r]
  BY <1>1, <1>2, Zenon
<1>5. cmd[c].sends + 1 \in 0..4
  BY <1>3
<1>6. /\ r \in CommandState /\ r.at = "resend" /\ r.kind = cmd[c].kind /\ r.cache = cmd[c].cache
      /\ r.list = cmd[c].list /\ r.attempt = cmd[c].attempt /\ r.sends = cmd[c].sends + 1
      /\ r.result = cmd[c].result
  BY <1>2, <1>5, Zenon DEF CommandState, Waits
<1> HIDE DEF r
<1>7. SlotsKept
  BY <1>1, SameSlots, Zenon DEF CommandsInv
<1>8. cmd[c].at \notin Idle /\ r.at \notin Idle /\ r.at # "await" /\ marked' \in {marked, marked \cup {c}}
  BY <1>1, <1>6 DEF Idle
<1>9. Fits(c, r, marked')
  BY <1>1, <1>2, <1>3, <1>6 DEF Fits, Reading, Sending
<1>10. ASSUME NEW x \in Cache, Owed(c, r, marked', x)
      PROVE  Fresh(c, slot'[x])
  <2>1. Owed(c, cmd[c], marked, x)
    BY <1>1, <1>6, <1>10 DEF Owed
  <2>2. QED
    BY <1>1, <2>1, Zenon DEF CommandsInv, Covered
<1>11. QED
  BY <1>1, <1>4, <1>6, <1>7, <1>8, <1>9, <1>10, OneStep, Zenon

\* The swarm makes the change.
LEMMA ChangesInv ==
    ASSUME CommandsInv, NEW c \in Command, Changes(c)
    PROVE  CommandsInv'
<1>1. PICK at \in {"changed", "remove"} :
        /\ cmd' = To(c, at) /\ marked' \in {marked, marked \cup {c}}
        /\ UNCHANGED <<queue, controller, permits, slot, config>>
  BY DEF Changes
<1>2. cmd[c].at \in {"put", "unprovide", "remove", "reload"} /\ at \in Waits \cup {"get", "changed", "reply", "replied"}
  BY <1>1 DEF Changes, Waits
<1>3. PICK r \in CommandState :
              /\ cmd' = [cmd EXCEPT ![c] = r] /\ r.at = at /\ r.kind = cmd[c].kind /\ r.cache = cmd[c].cache
              /\ r.list = cmd[c].list /\ r.attempt = cmd[c].attempt /\ r.sends = cmd[c].sends
              /\ r.result = cmd[c].result
  BY <1>1, <1>2, ToFacts, Zenon
<1>4. SlotsKept
  BY <1>1, SameSlots, Zenon DEF CommandsInv
<1>5. cmd[c].at \notin Idle /\ r.at \notin Idle /\ r.at # "await"
  BY <1>1, <1>2, <1>3 DEF Idle
<1>6. Fits(c, cmd[c], marked)
  BY Zenon DEF CommandsInv, Fitting
<1>7. Fits(c, r, marked')
  BY <1>1, <1>2, <1>3, <1>6 DEF Fits, Reading, Sending
<1>8. ASSUME NEW x \in Cache
      PROVE  ~Owed(c, r, marked', x)
  <2>1. cmd[c].kind \in Changing /\ cmd[c].result = "none"
    BY <1>2, <1>6 DEF Fits
  <2>2. cmd[c].attempt # 1
    BY <1>6, <2>1 DEF Fits, Changing
  <2>3. QED
    BY <1>1, <1>3, <2>1, <2>2 DEF Owed
<1>9. QED
  BY <1>1, <1>3, <1>4, <1>5, <1>7, <1>8, OneStep, Zenon

LEMMA AfterChangeInv ==
    ASSUME CommandsInv, NEW c \in Command, AfterChange(c)
    PROVE  CommandsInv'
<1>1. /\ cmd[c].at = "changed" /\ UNCHANGED <<queue, controller, permits, marked, config>>
      /\ cmd' = IF cmd[c].kind = "provide_key" THEN To(c, "provide") ELSE Finished(c, "ok")
  BY Zenon DEF AfterChange
<1>2. Fits(c, cmd[c], marked)
  BY Zenon DEF CommandsInv, Fitting
<1>3. cmd[c].kind \in Changing
  BY <1>1, <1>2 DEF Fits
<1>4. PICK C \in SUBSET Cache, how \in {"key", "all"} :
        slot' = Invalidated(C, how) /\ ChangedBy(cmd[c].kind) \subseteq C
  <2>1. {WorkerKeyCaches, RecordKeyCaches, Cache} \subseteq SUBSET Cache /\ "key" \in {"key", "all"} /\ "all" \in {"key", "all"}
    BY DEF WorkerKeyCaches, RecordKeyCaches, Cache
  <2>2. CASE cmd[c].kind = "add_key"
    <3>1. slot' = Invalidated(WorkerKeyCaches, "key")
      BY <2>2 DEF AfterChange
    <3>2. ChangedBy(cmd[c].kind) \subseteq WorkerKeyCaches
      BY <2>2 DEF ChangedBy, WorkerKeyCaches
    <3>3. QED
      BY <2>1, <3>1, <3>2, Zenon
  <2>3. CASE cmd[c].kind \in {"provide_key", "remove_key"}
    <3>1. slot' = Invalidated(RecordKeyCaches, "key")
      BY <2>3 DEF AfterChange
    <3>2. namespace = "auth" => namespace # "service"
      OBVIOUS
    <3>3. ChangedBy(cmd[c].kind) \subseteq RecordKeyCaches
      BY <2>3, <3>2 DEF ChangedBy, RecordKeyCaches
    <3>4. QED
      BY <2>1, <3>1, <3>3, Zenon
  <2>4. CASE cmd[c].kind = "reload_config"
    <3>1. slot' = Invalidated(Cache, "all")
      BY <2>4 DEF AfterChange
    <3>2. ChangedBy(cmd[c].kind) \subseteq Cache
      BY <2>4 DEF ChangedBy, Cache
    <3>3. QED
      BY <2>1, <3>1, <3>2, Zenon
  <2>5. QED
    BY <1>3, <2>2, <2>3, <2>4 DEF Changing
<1>5. SlotsKept /\ \A d \in Command, x \in Cache : x \in C => Fresh(d, slot'[x])
  <2>1. C \subseteq Cache
    OBVIOUS
  <2>2. QED
    BY <1>4, <2>1, InvalidatedSlots, Zenon DEF CommandsInv
<1>6. cmd[c].at \notin Idle
  BY <1>1 DEF Idle
<1>7. CASE cmd[c].kind # "provide_key"
  <2>1. cmd' = Finished(c, "ok") /\ "ok" \in {"ok", "error"}
    BY <1>1, <1>7
  <2>2. \A x \in Cache : x \in ChangedBy(cmd[c].kind) => Fresh(c, slot'[x])
    BY <1>4, <1>5, Zenon
  <2>3. QED
    BY <1>1, <1>5, <1>6, <2>1, <2>2, FinishStep, Zenon
<1>8. CASE cmd[c].kind = "provide_key"
  <2>1. cmd' = To(c, "provide") /\ "provide" \in Waits \cup {"get", "changed", "reply", "replied"}
    BY <1>1, <1>8 DEF Waits
  <2>2. PICK r \in CommandState :
              /\ cmd' = [cmd EXCEPT ![c] = r] /\ r.at = "provide" /\ r.kind = cmd[c].kind /\ r.cache = cmd[c].cache
              /\ r.list = cmd[c].list /\ r.attempt = cmd[c].attempt /\ r.sends = cmd[c].sends
              /\ r.result = cmd[c].result
    BY <2>1, ToFacts, Zenon
  <2>3. r.at \notin Idle /\ r.at # "await" /\ marked' \in {marked, marked \cup {c}}
    BY <1>1, <2>2 DEF Idle
  <2>4. Fits(c, r, marked')
    BY <1>1, <1>2, <1>8, <2>2 DEF Fits, Reading, Sending, Changing
  <2>5. ASSUME NEW x \in Cache, Owed(c, r, marked', x)
        PROVE  Fresh(c, slot'[x])
    <3>1. cmd[c].attempt # 1
      BY <1>2, <1>8 DEF Fits
    <3>2. x \in ChangedBy(cmd[c].kind)
      BY <2>2, <2>5, <3>1 DEF Owed
    <3>3. QED
      BY <1>4, <1>5, <3>2, Zenon
  <2>6. QED
    BY <1>1, <1>5, <1>6, <2>2, <2>3, <2>4, <2>5, OneStep, Zenon
<1>9. QED
  BY <1>7, <1>8, Zenon

\* An attempt of request_service fails.
LEMMA AttemptFailedInv ==
    ASSUME CommandsInv, NEW c \in Command, cmd[c].kind = "service_request",
           cmd[c].at \in {"woken", "resolve", "resend"}, AttemptFailed(c),
           UNCHANGED <<queue, controller, permits, config>>
    PROVE  CommandsInv'
<1>1. cmd[c] \in CommandState /\ Fits(c, cmd[c], marked) /\ cmd \in [Command -> CommandState]
  BY Zenon DEF CommandsInv, CommandsTypes, Fitting
<1>2. cmd[c].at \notin Idle /\ cmd[c].kind \notin Changing
  BY DEF Idle, Changing
<1>3. CASE cmd[c].attempt = 0
  <2> DEFINE r == [cmd[c] EXCEPT !.at = "get", !.attempt = 1]
  <2>1. /\ cmd' = [cmd EXCEPT ![c].at = "get", ![c].attempt = 1]
        /\ marked' = marked \cup {c} /\ slot' = Invalidated({"provider"}, "key")
    BY <1>3, Zenon DEF AttemptFailed
  <2>2. cmd' = [cmd EXCEPT ![c] = r]
    BY <1>1, <2>1, Zenon
  <2>3. /\ r \in CommandState /\ r.at = "get" /\ r.kind = cmd[c].kind /\ r.cache = cmd[c].cache
        /\ r.list = cmd[c].list /\ r.attempt = 1 /\ r.sends = cmd[c].sends
        /\ r.result = cmd[c].result
    <3>1. cmd[c] \in CommandState /\ 1 \in 0..1
      BY <1>1
    <3>2. r \in CommandState
      BY <3>1, Zenon DEF CommandState
    <3>3. QED
      BY <3>1, <3>2 DEF CommandState
  <2> HIDE DEF r
  <2>4. {"provider"} \subseteq Cache /\ "key" \in {"key", "all"}
    BY DEF Cache
  <2>5. SlotsKept /\ Fresh(c, slot'["provider"])
    <3>1. SlotsKept /\ \A d \in Command, x \in Cache : x \in {"provider"} => Fresh(d, slot'[x])
      BY <2>1, <2>4, InvalidatedSlots, Zenon DEF CommandsInv
    <3>2. QED
      BY <2>4, <3>1
  <2>6. r.at \notin Idle /\ r.at # "await" /\ marked' \in {marked, marked \cup {c}} /\ c \in marked'
    BY <2>1, <2>3 DEF Idle
  <2>7. cmd[c].sends \in 0..4 /\ cmd[c].sends <= 2 /\ cmd[c].cache = "provider" /\ cmd[c].result = "none"
    BY <1>1, <1>3 DEF CommandState, Fits, Reading, Sending
  <2>8. Fits(c, r, marked')
    BY <2>3, <2>6, <2>7 DEF Fits, Reading, Sending
  <2>9. \A x \in Cache : Owed(c, r, marked', x) => Fresh(c, slot'[x])
    BY <1>2, <2>3, <2>5, Zenon DEF Owed
  <2>10. QED
    BY <1>2, <2>2, <2>3, <2>5, <2>6, <2>8, <2>9, OneStep, Zenon
<1>4. CASE cmd[c].attempt # 0
  <2>1. cmd' = Finished(c, "error") /\ UNCHANGED <<marked, slot>> /\ "error" \in {"ok", "error"}
    BY <1>4 DEF AttemptFailed
  <2>2. SlotsKept
    BY <2>1, SameSlots, Zenon DEF CommandsInv
  <2>3. QED
    BY <1>2, <2>1, <2>2, FinishStep, Zenon
<1>5. QED
  BY <1>3, <1>4, Zenon

LEMMA RequestFailsInv ==
    ASSUME CommandsInv, NEW c \in Command, RequestFails(c)
    PROVE  CommandsInv'
<1>1. cmd[c].at \in {"resolve", "resend"} /\ UNCHANGED <<queue, controller, permits, config>>
  BY Zenon DEF RequestFails
<1>2. cmd[c].at \in {"woken", "resolve", "resend"} /\ cmd[c].at \notin Idle /\ cmd[c].at \in Sending
      /\ "error" \in {"ok", "error"} /\ "error" # "ok"
  BY <1>1 DEF Idle, Sending
<1>3. CASE cmd[c].kind = "service_request"
  <2>1. AttemptFailed(c)
    BY <1>3, Zenon DEF RequestFails
  <2>2. QED
    BY <1>1, <1>2, <1>3, <2>1, AttemptFailedInv, Zenon
<1>4. CASE cmd[c].kind # "service_request"
  <2>1. cmd' = Finished(c, "error") /\ UNCHANGED <<marked, slot>>
    BY <1>4, Zenon DEF RequestFails
  <2>2. SlotsKept
    BY <2>1, SameSlots, Zenon DEF CommandsInv
  <2>3. QED
    BY <1>1, <1>2, <2>1, <2>2, FinishStep, Zenon
<1>5. QED
  BY <1>3, <1>4, Zenon

\* A read returns what a slot has, on which no second attempt can be stale.
LEMMA GotInv ==
    ASSUME CommandsInv, SlotsKept, NEW c \in Command, cmd[c].at \in {"get", "woken"},
           NEW read \in slot[cmd[c].cache].entry, Got(c, read),
           UNCHANGED <<queue, controller, permits, marked, config>>
    PROVE  CommandsInv'
<1>1. /\ cmd[c] \in CommandState /\ Fits(c, cmd[c], marked) /\ cmd \in [Command -> CommandState]
      /\ marked \subseteq Command /\ slot \in [Cache -> Slot]
  BY Zenon DEF CommandsInv, CommandsTypes, Slots, Fitting
<1>2. cmd[c].at \notin Idle /\ cmd[c].at \in Reading /\ marked' \in {marked, marked \cup {c}}
  BY DEF Idle, Reading
<1>3. /\ cmd[c].kind \notin Changing /\ cmd[c].result = "none" /\ cmd[c].cache \in Cache
      /\ cmd[c].sends \in 0..4 /\ cmd[c].attempt \in 0..1 /\ cmd[c].sends <= 2 * cmd[c].attempt
  <2>1. cmd[c].kind \in {"query_key", "discover_providers", "service_request"}
    BY <1>1, <1>2, Zenon DEF Fits
  <2>2. cmd[c].cache \in Cache /\ cmd[c].sends \in 0..4 /\ cmd[c].attempt \in 0..1
    BY <1>1 DEF CommandState, Cache
  <2>3. QED
    BY <1>1, <2>1, <2>2 DEF Changing, Fits
<1>4. ASSUME NEW result \in {"ok", "error"}, cmd' = Finished(c, result)
      PROVE  CommandsInv'
  BY <1>2, <1>3, <1>4, FinishStep, Zenon
<1>5. ASSUME NEW found \in BOOLEAN, cmd[c].kind = "query_key",
             cmd' = [cmd EXCEPT ![c].at = "get", ![c].cache = "provider", ![c].value = found, ![c].outcome = FALSE]
      PROVE  CommandsInv'
  <2> DEFINE r == [cmd[c] EXCEPT !.at = "get", !.cache = "provider", !.value = found, !.outcome = FALSE]
  <2>1. cmd' = [cmd EXCEPT ![c] = r]
    BY <1>1, <1>5, Zenon
  <2>2. r \in CommandState
    BY <1>1, Zenon DEF CommandState
  <2>3. /\ r.at = "get" /\ r.kind = cmd[c].kind /\ r.attempt = cmd[c].attempt /\ r.sends = cmd[c].sends
        /\ r.result = cmd[c].result
    BY <1>1 DEF CommandState
  <2> HIDE DEF r
  <2>4. r.at \notin Idle /\ r.at # "await"
    BY <2>3 DEF Idle
  <2>5. Fits(c, r, marked')
    BY <1>1, <1>3, <1>5, <2>3 DEF Fits, Reading, Sending
  <2>6. ASSUME NEW x \in Cache
        PROVE  ~Owed(c, r, marked', x)
    BY <1>1, <1>3, <1>5, <2>3 DEF Owed, Fits
  <2>7. QED
    BY <1>2, <2>1, <2>2, <2>3, <2>4, <2>5, <2>6, OneStep, Zenon
<1>6. ASSUME cmd[c].kind = "service_request",
             cmd' = [cmd EXCEPT ![c].at = "send", ![c].sends = @ + 1, ![c].list = read]
      PROVE  CommandsInv'
  <2> DEFINE r == [cmd[c] EXCEPT !.at = "send", !.sends = @ + 1, !.list = read]
  <2>1. cmd' = [cmd EXCEPT ![c] = r]
    BY <1>1, <1>6, Zenon
  <2>2. read \in Read /\ cmd[c].sends + 1 \in 0..4
    <3>1. slot[cmd[c].cache] \in Slot
      BY <1>1, <1>3, Zenon
    <3>2. QED
      BY <1>3, <3>1 DEF Slot
  <2>3. r \in CommandState
    BY <1>1, <2>2, Zenon DEF CommandState, Waits
  <2>4. /\ r.at = "send" /\ r.kind = cmd[c].kind /\ r.attempt = cmd[c].attempt /\ r.sends = cmd[c].sends + 1
        /\ r.result = cmd[c].result /\ r.list = read /\ r.cache = cmd[c].cache
    BY <1>1 DEF CommandState
  <2> HIDE DEF r
  <2>5. r.at \notin Idle /\ r.at # "await"
    BY <2>4 DEF Idle
  <2>6. cmd[c].cache = "provider"
    BY <1>1, <1>2, <1>6 DEF Fits
  <2>7. ASSUME cmd[c].attempt = 1
        PROVE  c \in marked /\ Fresh(c, slot["provider"])
    <3>1. c \in marked
      BY <1>1, <2>7, Zenon DEF Fits
    <3>2. QED
      BY <1>3, <2>6, <2>7, <3>1, Zenon DEF CommandsInv, Covered, Owed
  <2>8. Fits(c, r, marked')
    <3>1. cmd[c].attempt = 1 => c \in read.seen \/ read.slipped
      BY <2>6, <2>7, Zenon DEF Fresh
    <3>2. QED
      BY <1>1, <1>3, <1>6, <2>4, <2>6, <3>1 DEF Fits, Reading, Sending
  <2>9. ASSUME NEW x \in Cache, Owed(c, r, marked', x)
        PROVE  Fresh(c, slot'[x])
    <3>1. cmd[c].attempt = 1 /\ x = "provider"
      BY <1>3, <2>4, <2>9 DEF Owed
    <3>2. QED
      BY <2>7, <3>1, Zenon DEF SlotsKept
  <2>10. QED
    BY <1>2, <2>1, <2>3, <2>4, <2>5, <2>8, <2>9, OneStep, Zenon
<1>7. QED
  <2>1. PICK found \in BOOLEAN :
        \/ /\ cmd[c].kind = "query_key" /\ cmd[c].cache = "record"
           /\ cmd' = [cmd EXCEPT ![c].at = "get", ![c].cache = "provider", ![c].value = found,
                                 ![c].outcome = FALSE]
        \/ /\ cmd[c].kind = "query_key" /\ cmd[c].cache = "provider"
           /\ cmd' = Finished(c, IF cmd[c].value \/ found THEN "ok" ELSE "error")
        \/ /\ cmd[c].kind = "discover_providers"
           /\ cmd' = Finished(c, "ok")
        \/ /\ cmd[c].kind = "service_request"
           /\ cmd' = IF found THEN [cmd EXCEPT ![c].at = "send", ![c].sends = @ + 1, ![c].list = read]
                     ELSE Finished(c, "error")
    BY Zenon DEF Got
  <2>2. "ok" \in {"ok", "error"} /\ "error" \in {"ok", "error"}
    OBVIOUS
  <2>3. QED
    BY <1>4, <1>5, <1>6, <2>1, <2>2, Zenon

LEMMA GotErrorInv ==
    ASSUME CommandsInv, NEW c \in Command, cmd[c].at = "woken", GotError(c),
           UNCHANGED <<queue, controller, permits, config>>
    PROVE  CommandsInv'
<1>1. cmd[c].at \notin Idle /\ cmd[c].at \in {"woken", "resolve", "resend"}
      /\ "ok" \in {"ok", "error"} /\ "error" \in {"ok", "error"} /\ "error" # "ok"
  BY DEF Idle
<1>2. cmd[c].kind \notin Changing
  <2>1. "woken" \in Reading
    BY DEF Reading
  <2>2. cmd[c].kind \in {"query_key", "discover_providers", "service_request"}
    BY <2>1, Zenon DEF CommandsInv, Fitting, Fits
  <2>3. QED
    BY <2>2 DEF Changing
<1>3. ASSUME NEW result \in {"ok", "error"}, cmd' = Finished(c, result), SlotsKept, UNCHANGED marked
      PROVE  CommandsInv'
  BY <1>1, <1>2, <1>3, FinishStep, Zenon
<1>4. UNCHANGED slot => SlotsKept
  BY SameSlots, Zenon DEF CommandsInv
<1>5. slot' = Invalidated({"provider"}, "key") => SlotsKept
  <2>1. {"provider"} \subseteq Cache /\ "key" \in {"key", "all"}
    BY DEF Cache
  <2>2. QED
    BY <2>1, InvalidatedSlots, Zenon DEF CommandsInv
<1>6. CASE cmd[c].kind = "query_key" /\ cmd[c].cache = "provider"
           /\ cmd' = Finished(c, IF cmd[c].value THEN "ok" ELSE "error") /\ UNCHANGED <<marked, slot>>
  BY <1>1, <1>3, <1>4, <1>6, Zenon
<1>7. CASE cmd' = Finished(c, "error") /\ UNCHANGED <<marked, slot>>
  BY <1>1, <1>3, <1>4, <1>7, Zenon
<1>8. CASE cmd[c].kind = "service_request" /\ cmd[c].attempt = 0 /\ AttemptFailed(c)
  BY <1>1, <1>8, AttemptFailedInv, Zenon
<1>9. CASE cmd' = Finished(c, "error") /\ slot' = Invalidated({"provider"}, "key") /\ UNCHANGED marked
  BY <1>1, <1>3, <1>5, <1>9, Zenon
<1>10. QED
  BY <1>6, <1>7, <1>8, <1>9, Zenon DEF GotError

LEMMA WakeReaderInv ==
    ASSUME CommandsInv, NEW c \in Command, WakeReader(c)
    PROVE  CommandsInv'
<1>1. cmd[c].at = "woken" /\ UNCHANGED <<queue, controller, permits, config>> /\ cmd[c].at \in {"get", "woken"}
  BY DEF WakeReader
<1>2. CASE (\E read \in slot[cmd[c].cache].entry : Got(c, read)) /\ UNCHANGED <<marked, slot>>
  <2>1. SlotsKept
    BY <1>2, SameSlots, Zenon DEF CommandsInv
  <2>2. QED
    BY <1>1, <1>2, <2>1, GotInv, Zenon
<1>3. CASE GotError(c)
  BY <1>1, <1>3, GotErrorInv, Zenon
<1>4. QED
  BY <1>2, <1>3, Zenon DEF WakeReader

LEMMA GetInv ==
    ASSUME CommandsInv, NEW c \in Command, get(c)
    PROVE  CommandsInv'
<1> DEFINE x == cmd[c].cache
<1>1. /\ cmd[c].at = "get" /\ UNCHANGED <<queue, controller, permits, marked, config>> /\ cmd[c].at \in {"get", "woken"}
      /\ marked' \in {marked, marked \cup {c}}
  BY DEF get
<1>2. /\ cmd[c] \in CommandState /\ Fits(c, cmd[c], marked) /\ cmd \in [Command -> CommandState] /\ CommandsTypes /\ Slots
  BY Zenon DEF CommandsInv, CommandsTypes, Fitting
<1>3. x \in Cache /\ cmd[c].at \notin Idle /\ cmd[c].kind \notin Changing
  <2>1. x \in Cache /\ cmd[c].at \notin Idle /\ cmd[c].at \in Reading
    BY <1>1, <1>2 DEF CommandState, Cache, Idle, Reading
  <2>2. cmd[c].kind \in {"query_key", "discover_providers", "service_request"}
    BY <1>2, <2>1, Zenon DEF Fits
  <2>3. QED
    BY <2>1, <2>2 DEF Changing
<1>4. ASSUME NEW r \in CommandState, cmd' = [cmd EXCEPT ![c] = r], r.at \in {"await", "woken"}, r.kind = cmd[c].kind,
             r.cache = cmd[c].cache, r.list = cmd[c].list, r.attempt = cmd[c].attempt, r.sends = cmd[c].sends,
             r.result = cmd[c].result, SlotsKept, r.at = "await" => Live(slot'[r.cache])
      PROVE  CommandsInv'
  <2>1. r.at \notin Idle
    BY <1>4 DEF Idle
  <2>2. Fits(c, r, marked')
    BY <1>1, <1>2, <1>4 DEF Fits, Reading, Sending
  <2>3. ASSUME NEW y \in Cache, Owed(c, r, marked', y)
        PROVE  Fresh(c, slot'[y])
    <3>1. Owed(c, cmd[c], marked, y) /\ c \in marked
      BY <1>1, <1>3, <1>4, <2>3 DEF Owed
    <3>2. QED
      BY <1>4, <3>1, Zenon DEF CommandsInv, Covered, SlotsKept
  <2>4. QED
    BY <1>1, <1>3, <1>4, <2>1, <2>2, <2>3, OneStep, Zenon
<1>5. ASSUME NEW read \in slot[x].entry, Got(c, read), slot' = [slot EXCEPT ![x] = Refreshing(@)]
      PROVE  CommandsInv'
  <2>1. SlotsKept
    BY <1>2, <1>3, <1>5, RefreshedSlots, Zenon
  <2>2. QED
    BY <1>1, <1>5, <2>1, GotInv, Zenon
<1>6. ASSUME NEW t \in slot[x].task, cmd' = [cmd EXCEPT ![c].at = "woken", ![c].outcome = t.ok], UNCHANGED slot
      PROVE  CommandsInv'
  <2> DEFINE r == [cmd[c] EXCEPT !.at = "woken", !.outcome = t.ok]
  <2>1. cmd' = [cmd EXCEPT ![c] = r]
    BY <1>2, <1>6, Zenon
  <2>2. t.ok \in BOOLEAN
    <3>1. slot[x] \in Slot
      BY <1>2, <1>3, Zenon DEF Slots
    <3>2. t \in SlotTask
      BY <3>1 DEF Slot
    <3>3. QED
      BY <3>2 DEF SlotTask
  <2>3. r \in CommandState
    BY <1>2, <2>2, Zenon DEF CommandState
  <2>4. /\ r.at = "woken" /\ r.kind = cmd[c].kind /\ r.cache = cmd[c].cache /\ r.list = cmd[c].list
        /\ r.attempt = cmd[c].attempt /\ r.sends = cmd[c].sends /\ r.result = cmd[c].result
    BY <1>2 DEF CommandState
  <2> HIDE DEF r
  <2>5. r.at \in {"await", "woken"} /\ r.at # "await"
    BY <2>4
  <2>6. SlotsKept
    BY <1>2, <1>6, SameSlots, Zenon
  <2>7. QED
    BY <1>4, <2>1, <2>3, <2>4, <2>5, <2>6, Zenon
<1>7. ASSUME \A t \in slot[x].task : t.pc # "sent", cmd' = To(c, "await"), slot' = [slot EXCEPT ![x] = Refreshing(@)]
      PROVE  CommandsInv'
  <2>1. "await" \in Waits \cup {"get", "changed", "reply", "replied"} /\ "await" \in {"await", "woken"}
    BY DEF Waits
  <2>2. PICK r \in CommandState :
              /\ cmd' = [cmd EXCEPT ![c] = r] /\ r.at = "await" /\ r.kind = cmd[c].kind /\ r.cache = cmd[c].cache
              /\ r.list = cmd[c].list /\ r.attempt = cmd[c].attempt /\ r.sends = cmd[c].sends
              /\ r.result = cmd[c].result
    BY <1>7, <2>1, ToFacts, Zenon
  <2>3. SlotsKept /\ Live(slot'[x])
    BY <1>2, <1>3, <1>7, RefreshedSlots, Zenon
  <2>4. QED
    BY <1>4, <2>1, <2>2, <2>3, Zenon
<1>8. QED
  BY <1>5, <1>6, <1>7, Zenon DEF get

-----------------------------------------------------------------------------
(* Steps of the caches                                                     *)

\* A refresh has reported to those who wait for it.
LEMMA WokenStep ==
    ASSUME CommandsInv, Slots', NEW x \in Cache, NEW ok \in BOOLEAN, cmd' = Woken(x, ok),
           \A y \in Cache : \A d \in marked : Fresh(d, slot[y]) => Fresh(d, slot'[y]),
           \A y \in Cache : y # x => slot'[y] = slot[y],
           UNCHANGED <<queue, controller, permits, marked, config>>
    PROVE  CommandsInv'
<1> DEFINE Wakes(d) == cmd[d].at = "await" /\ cmd[d].cache = x
           r(d) == [cmd[d] EXCEPT !.at = "woken", !.outcome = ok]
<1>1. \A d \in Command : cmd[d] \in CommandState /\ Fits(d, cmd[d], marked)
  BY Zenon DEF CommandsInv, CommandsTypes, Fitting
<1>2. ASSUME NEW d \in Command
      PROVE  /\ r(d) \in CommandState /\ r(d).at = "woken" /\ r(d).kind = cmd[d].kind /\ r(d).cache = cmd[d].cache
             /\ r(d).list = cmd[d].list /\ r(d).attempt = cmd[d].attempt /\ r(d).sends = cmd[d].sends
             /\ r(d).result = cmd[d].result
  <2>1. cmd[d] \in CommandState
    BY <1>1, Zenon
  <2>2. r(d) \in CommandState
    BY <2>1, Zenon DEF CommandState
  <2>3. QED
    BY <2>1, <2>2 DEF CommandState
<1>3. cmd' = [d \in Command |-> IF Wakes(d) THEN r(d) ELSE cmd[d]]
  BY Zenon DEF Woken
<1> HIDE DEF r
<1>4. \A d \in Command : /\ cmd'[d] \in CommandState
                         /\ cmd'[d].kind = cmd[d].kind /\ cmd'[d].cache = cmd[d].cache /\ cmd'[d].list = cmd[d].list
                         /\ cmd'[d].attempt = cmd[d].attempt /\ cmd'[d].sends = cmd[d].sends
                         /\ cmd'[d].result = cmd[d].result
                         /\ Wakes(d) => cmd'[d].at = "woken"
                         /\ ~Wakes(d) => cmd'[d].at = cmd[d].at
  <2> SUFFICES ASSUME NEW d \in Command
               PROVE  /\ cmd'[d] \in CommandState
                      /\ cmd'[d].kind = cmd[d].kind /\ cmd'[d].cache = cmd[d].cache /\ cmd'[d].list = cmd[d].list
                      /\ cmd'[d].attempt = cmd[d].attempt /\ cmd'[d].sends = cmd[d].sends
                      /\ cmd'[d].result = cmd[d].result
                      /\ Wakes(d) => cmd'[d].at = "woken"
                      /\ ~Wakes(d) => cmd'[d].at = cmd[d].at
    BY Zenon
  <2>1. CASE Wakes(d)
    <3>1. cmd'[d] = r(d)
      BY <1>3, <2>1
    <3>2. QED
      BY <1>2, <2>1, <3>1, Zenon
  <2>2. CASE ~Wakes(d)
    <3>1. cmd'[d] = cmd[d]
      BY <1>3, <2>2
    <3>2. QED
      BY <1>1, <2>2, <3>1, Zenon
  <2>3. QED
    BY <2>1, <2>2, Zenon
<1>5. \A d \in Command : /\ cmd'[d].at \in Idle <=> cmd[d].at \in Idle
                         /\ cmd'[d].at = "queued" <=> cmd[d].at = "queued"
                         /\ cmd'[d].at = "provide" <=> cmd[d].at = "provide"
                         /\ cmd'[d].at = "await" => cmd[d].at = "await" /\ cmd[d].cache # x
  BY <1>4 DEF Idle
<1>6. CommandsTypes'
  <2>1. cmd' \in [Command -> CommandState]
    BY <1>3, <1>4, Zenon
  <2>2. UNCHANGED limit
    BY DEF config
  <2>3. QED
    BY <2>1, <2>2, Zenon DEF CommandsInv, CommandsTypes
<1>7. Covered'
  <2>1. \A kind : ChangedBy(kind)' = ChangedBy(kind)
    <3>1. UNCHANGED namespace
      BY DEF config
    <3>2. QED
      BY <3>1, Zenon DEF ChangedBy
  <2>2. \A d \in Command, y \in Cache : Owed(d, cmd[d], marked, y)' => Owed(d, cmd[d], marked, y) /\ d \in marked
    BY <1>4, <1>5, <2>1 DEF Owed
  <2>3. QED
    BY <2>2, Zenon DEF CommandsInv, Covered
<1>8. Awaited'
  <2>1. \A d \in Command : cmd[d].cache \in Cache
    BY <1>1 DEF CommandState, Cache
  <2>2. ASSUME NEW d \in Command, cmd'[d].at = "await"
        PROVE  Live(slot'[cmd'[d].cache])
    <3>1. cmd[d].at = "await" /\ cmd[d].cache # x /\ cmd'[d].cache = cmd[d].cache
      BY <1>4, <1>5, <2>2, Zenon
    <3>2. slot'[cmd[d].cache] = slot[cmd[d].cache]
      BY <2>1, <3>1, Zenon
    <3>3. Live(slot[cmd[d].cache])
      BY <3>1, Zenon DEF CommandsInv, Awaited
    <3>4. QED
      BY <3>1, <3>2, <3>3, Zenon
  <2>3. QED
    BY <2>2, Zenon DEF Awaited
<1>9. Fitting'
  <2>1. ASSUME NEW d \in Command
        PROVE  Fits(d, cmd'[d], marked')
    <3>1. Fits(d, cmd[d], marked)
      BY <1>1, Zenon
    <3>2. CASE Wakes(d)
      BY <1>4, <3>1, <3>2 DEF Fits, Reading, Sending
    <3>3. CASE ~Wakes(d)
      BY <1>4, <3>1, <3>3, Zenon DEF Fits
    <3>4. QED
      BY <3>2, <3>3, Zenon
  <2>2. QED
    BY <2>1, Zenon DEF Fitting
<1>10. Permits'
  <2>1. \A d \in Command : d \in Holding' <=> d \in Holding
    BY <1>4, <1>5 DEF Holding, Idle
  <2>2. Holding' = Holding
    BY <2>1 DEF Holding
  <2>3. UNCHANGED limit
    BY DEF config
  <2>4. QED
    BY <2>2, <2>3, Zenon DEF CommandsInv, Permits
<1>11. Turns'
  <2>1. (controller # NoCommand => cmd[controller].kind \in InlineKinds /\ cmd[controller].at \notin Idle)'
    BY <1>4, <1>5 DEF CommandsInv, CommandsTypes, Turns
  <2>2. (\A d \in Command : cmd[d].kind \in InlineKinds /\ cmd[d].at \notin Idle => controller = d)'
    BY <1>4, <1>5 DEF CommandsInv, Turns
  <2>3. (\A d \in Command : cmd[d].at = "queued" <=> In(d, queue))'
    BY <1>5 DEF CommandsInv, Turns
  <2>4. QED
    BY <2>1, <2>2, <2>3, Zenon DEF Turns
<1>12. QED
  BY <1>6, <1>7, <1>8, <1>9, <1>10, <1>11, Zenon DEF CommandsInv

\* A step of a cache that nobody is told of.
LEMMA SlotStep ==
    ASSUME CommandsInv, SlotsKept, UNCHANGED <<queue, cmd, controller, permits, marked, config>>
    PROVE  CommandsInv'
<1>1. UNCHANGED <<namespace, limit>>
  BY DEF config
<1>2. CommandsTypes' /\ Fitting' /\ Turns' /\ Slots'
  BY <1>1, Zenon DEF CommandsInv, CommandsTypes, Fitting, Turns, SlotsKept
<1>3. Permits'
  BY <1>1, Zenon DEF CommandsInv, Permits, Holding
<1>4. Covered'
  <2>1. \A d \in Command, y \in Cache : Owed(d, cmd[d], marked, y)' => Owed(d, cmd[d], marked, y) /\ d \in marked
    BY <1>1, Zenon DEF Owed, ChangedBy
  <2>2. QED
    BY <2>1, Zenon DEF CommandsInv, Covered, SlotsKept
<1>5. Awaited'
  <2>1. \A d \in Command : cmd[d].cache \in Cache
    BY DEF CommandsInv, CommandsTypes, CommandState, Cache
  <2>2. QED
    BY <2>1, Zenon DEF CommandsInv, Awaited, SlotsKept
<1>6. QED
  BY <1>2, <1>3, <1>4, <1>5, Zenon DEF CommandsInv

LEMMA AuthReadsInv ==
    ASSUME CommandsInv, AuthReads
    PROVE  CommandsInv'
<1>1. /\ slot' = [slot EXCEPT !["auth"] = Refreshing(@)]
      /\ UNCHANGED <<queue, cmd, controller, permits, marked, config>> /\ "auth" \in Cache
  BY DEF AuthReads, Cache
<1>2. SlotsKept
  BY <1>1, RefreshedSlots, Zenon DEF CommandsInv
<1>3. QED
  BY <1>1, <1>2, SlotStep, Zenon

LEMMA AuthRejectsInv ==
    ASSUME CommandsInv, AuthRejects
    PROVE  CommandsInv'
<1> DEFINE x == "auth"
           r == SlotVoided(slot[x], "key")
<1>1. /\ slot' = [slot EXCEPT ![x] = SlotVoided(@, "key")]
      /\ UNCHANGED <<queue, cmd, controller, permits, marked, config>> /\ x \in Cache /\ "key" \in {"key", "all"}
  BY DEF AuthRejects, Cache
<1> HIDE DEF x
<1>2. slot \in [Cache -> Slot] /\ slot[x] \in Slot /\ Single(slot[x]) /\ marked \subseteq Command
  BY <1>1, Zenon DEF CommandsInv, CommandsTypes, Slots
<1>3. /\ r \in Slot /\ Single(r)
      /\ \A d \in Command : Fresh(d, r)
      /\ Live(slot[x]) => Live(r)
  BY <1>1, <1>2, VoidedFacts, Zenon
<1>4. slot'[x] = r /\ \A y \in Cache : y # x => slot'[y] = slot[y]
  BY <1>1, <1>2, Zenon
<1>5. slot' \in [Cache -> Slot]
  BY <1>1, <1>2, <1>3, Zenon
<1>6. SlotsKept
  <2>1. \A d \in marked : d \in Command
    BY <1>2, Zenon
  <2> HIDE DEF r
  <2>2. QED
    BY <1>3, <1>4, <1>5, <2>1, Zenon DEF CommandsInv, Slots, SlotsKept
<1>7. QED
  BY <1>1, <1>6, SlotStep, Zenon

\* The slot x has s now: what has to be shown of s.
LEMMA SlotChanged ==
    ASSUME CommandsInv, NEW x \in Cache, NEW s \in Slot, Single(s), slot' = [slot EXCEPT ![x] = s],
           \A d \in Command : Fresh(d, slot[x]) => Fresh(d, s)
    PROVE  /\ Slots'
           /\ \A y \in Cache : \A d \in marked : Fresh(d, slot[y]) => Fresh(d, slot'[y])
           /\ \A y \in Cache : y # x => slot'[y] = slot[y]
           /\ (Live(slot[x]) => Live(s)) => SlotsKept
<1>1. slot' \in [Cache -> Slot] /\ slot'[x] = s /\ \A y \in Cache : y # x => slot'[y] = slot[y]
  BY Zenon DEF CommandsInv, Slots
<1>2. \A d \in marked : d \in Command
  BY Zenon DEF CommandsInv, CommandsTypes
<1>3. Slots'
  BY <1>1, Zenon DEF CommandsInv, Slots
<1>4. \A y \in Cache : \A d \in marked : Fresh(d, slot[y]) => Fresh(d, slot'[y])
  BY <1>1, <1>2, Zenon
<1>5. (Live(slot[x]) => Live(s)) => SlotsKept
  BY <1>1, <1>3, <1>4, Zenon DEF SlotsKept
<1>6. QED
  BY <1>1, <1>3, <1>4, <1>5, Zenon

LEMMA SlotGuardInv ==
    ASSUME CommandsInv, NEW x \in Cache, SlotGuard(x)
    PROVE  CommandsInv'
<1> DEFINE s == [slot[x] EXCEPT !.task = {}]
<1>1. slot[x] \in Slot /\ Single(slot[x]) /\ slot \in [Cache -> Slot]
  BY Zenon DEF CommandsInv, Slots
<1>2. slot' = [slot EXCEPT ![x] = s] /\ UNCHANGED <<queue, cmd, controller, permits, marked, config>>
  BY <1>1 DEF SlotGuard
<1>3. ~Live(slot[x])
  BY <1>1, Zenon DEF SlotGuard, Single, Live
<1>4. s \in Slot /\ s.entry = slot[x].entry /\ s.task = {}
  BY <1>1 DEF Slot
<1> HIDE DEF s
<1>5. Single(s)
  BY <1>1, <1>4 DEF Single
<1>6. \A d \in Command : Fresh(d, slot[x]) => Fresh(d, s)
  BY <1>4 DEF Fresh
<1>7. SlotsKept
  BY <1>2, <1>3, <1>4, <1>5, <1>6, SlotChanged, Zenon
<1>8. QED
  BY <1>2, <1>7, SlotStep, Zenon

LEMMA SentFacts ==
    ASSUME NEW ok \in BOOLEAN
    PROVE  Sent(ok) \in SlotTask /\ Sent(ok).pc = "sent"
  BY DEF Sent, SlotTask

LEMMA SlotCompareInv ==
    ASSUME CommandsInv, NEW x \in Cache, SlotCompare(x)
    PROVE  CommandsInv'
<1>1. slot[x] \in Slot /\ Single(slot[x]) /\ slot \in [Cache -> Slot]
  BY Zenon DEF CommandsInv, Slots
<1>2. PICK t \in slot[x].task :
        /\ t.pc = "fetching"
        /\ \/ /\ t.void \in {"no", "mixed"}
              /\ slot' = [slot EXCEPT ![x].task = {[t EXCEPT !.pc = "apply", !.void = "no", !.slipped = t.void # "no"]}]
              /\ UNCHANGED cmd
           \/ /\ slot' = [slot EXCEPT ![x].task = {Sent(FALSE)}]
              /\ cmd' = Woken(x, FALSE)
        /\ UNCHANGED <<queue, controller, permits, marked, config>>
  BY Zenon DEF SlotCompare
<1>3. t \in SlotTask
  BY <1>1 DEF Slot
<1>4. ASSUME slot' = [slot EXCEPT ![x].task = {[t EXCEPT !.pc = "apply", !.void = "no", !.slipped = t.void # "no"]}], UNCHANGED cmd
      PROVE  CommandsInv'
  <2> DEFINE u == [t EXCEPT !.pc = "apply", !.void = "no", !.slipped = t.void # "no"]
             s == [slot[x] EXCEPT !.task = {u}]
  <2>1. u \in SlotTask
    BY <1>3, Zenon DEF SlotTask
  <2>2. u.pc = "apply" /\ u.seen = t.seen /\ (u.slipped <=> t.void # "no")
    BY <1>3, Zenon DEF SlotTask
  <2> HIDE DEF u
  <2>3. slot' = [slot EXCEPT ![x] = s]
    BY <1>1, <1>4 DEF u
  <2>4. s \in Slot /\ s.entry = slot[x].entry /\ s.task = {u}
    BY <1>1, <2>1 DEF Slot
  <2> HIDE DEF s
  <2>5. Single(s) /\ Live(s)
    BY <1>1, <2>2, <2>4 DEF Single, Live
  <2>6. ASSUME NEW d \in Command, Fresh(d, slot[x])
        PROVE  Fresh(d, s)
    <3>1. d \in t.seen \/ t.void # "no"
      BY <1>2, <2>6, Zenon DEF Fresh
    <3>2. d \in u.seen \/ u.slipped
      BY <2>2, <3>1, Zenon
    <3>3. QED
      BY <2>2, <2>4, <2>6, <3>2 DEF Fresh
  <2>7. SlotsKept
    BY <2>3, <2>4, <2>5, <2>6, SlotChanged, Zenon
  <2>8. QED
    BY <1>2, <1>4, <2>7, SlotStep, Zenon
<1>5. ASSUME slot' = [slot EXCEPT ![x].task = {Sent(FALSE)}], cmd' = Woken(x, FALSE)
      PROVE  CommandsInv'
  <2> DEFINE s == [slot[x] EXCEPT !.task = {Sent(FALSE)}]
  <2>1. FALSE \in BOOLEAN /\ Sent(FALSE) \in SlotTask /\ Sent(FALSE).pc = "sent"
    BY SentFacts, Zenon
  <2>2. slot' = [slot EXCEPT ![x] = s]
    BY <1>1, <1>5
  <2>3. s \in Slot /\ s.entry = slot[x].entry /\ s.task = {Sent(FALSE)}
    BY <1>1, <2>1, Zenon DEF Slot
  <2> HIDE DEF s
  <2>4. Single(s)
    BY <1>1, <2>3 DEF Single
  <2>5. \A d \in Command : Fresh(d, slot[x]) => Fresh(d, s)
    BY <2>1, <2>3, Zenon DEF Fresh
  <2>6. /\ Slots'
        /\ \A y \in Cache : \A d \in marked : Fresh(d, slot[y]) => Fresh(d, slot'[y])
        /\ \A y \in Cache : y # x => slot'[y] = slot[y]
    BY <2>2, <2>3, <2>4, <2>5, SlotChanged, Zenon
  <2>7. QED
    BY <1>2, <1>5, <2>1, <2>6, WokenStep, Zenon
<1>6. QED
  BY <1>2, <1>4, <1>5, Zenon

LEMMA SlotApplyInv ==
    ASSUME CommandsInv, NEW x \in Cache, SlotApply(x)
    PROVE  CommandsInv'
<1>1. slot[x] \in Slot /\ Single(slot[x]) /\ slot \in [Cache -> Slot]
  BY Zenon DEF CommandsInv, Slots
<1>2. PICK t \in slot[x].task, ok \in BOOLEAN :
        /\ t.pc = "apply"
        /\ slot' = [slot EXCEPT ![x] =
                       [task |-> {Sent(ok)},
                        entry |-> IF ok THEN {[seen |-> t.seen, slipped |-> t.slipped]}
                                  ELSE slot[x].entry]]
        /\ cmd' = Woken(x, ok)
        /\ UNCHANGED <<queue, controller, permits, marked, config>>
  BY Zenon DEF SlotApply
<1> DEFINE e == [seen |-> t.seen, slipped |-> t.slipped]
           E == IF ok THEN {e} ELSE slot[x].entry
           s == [task |-> {Sent(ok)}, entry |-> E]
<1>3. t \in SlotTask
  BY <1>1 DEF Slot
<1>4. e \in Read /\ e.seen = t.seen /\ e.slipped = t.slipped
  BY <1>3 DEF SlotTask, Read
<1> HIDE DEF e
<1>5. Sent(ok) \in SlotTask /\ Sent(ok).pc = "sent"
  BY SentFacts, Zenon
<1>6. E \subseteq Read /\ \A a, b \in E : a = b
  BY <1>1, <1>4 DEF Slot, Single
<1>7. ASSUME NEW d \in Command, Fresh(d, slot[x])
      PROVE  \A a \in E : d \in a.seen \/ a.slipped
  <2>1. d \in t.seen \/ t.slipped
    BY <1>2, <1>7, Zenon DEF Fresh
  <2>2. d \in e.seen \/ e.slipped
    BY <1>4, <2>1, Zenon
  <2>3. \A a \in E : a = e \/ a \in slot[x].entry
    OBVIOUS
  <2>4. QED
    BY <1>7, <2>2, <2>3, Zenon DEF Fresh
<1>8. slot' = [slot EXCEPT ![x] = s]
  BY <1>2, Zenon DEF e
<1> HIDE DEF E
<1>9. s \in Slot /\ s.entry = E /\ s.task = {Sent(ok)}
  BY <1>5, <1>6 DEF Slot
<1> HIDE DEF s
<1>10. Single(s)
  BY <1>6, <1>9 DEF Single
<1>11. ASSUME NEW d \in Command, Fresh(d, slot[x])
       PROVE  Fresh(d, s)
  BY <1>5, <1>7, <1>9, <1>11 DEF Fresh
<1>12. /\ Slots'
       /\ \A y \in Cache : \A d \in marked : Fresh(d, slot[y]) => Fresh(d, slot'[y])
       /\ \A y \in Cache : y # x => slot'[y] = slot[y]
  BY <1>8, <1>9, <1>10, <1>11, SlotChanged, Zenon
<1>13. QED
  BY <1>2, <1>12, WokenStep, Zenon

-----------------------------------------------------------------------------
(* The beginning and the end of a command                                  *)

LEMMA DoneFacts ==
    ASSUME CommandsInv, NEW c \in Command, NEW result \in {"none", "ok", "error", "busy"}
    PROVE  \E r \in CommandState :
               /\ r = Done(c, result) /\ r.kind = cmd[c].kind /\ r.result = result
               /\ r.at \in Idle /\ r.at # "await" /\ r.at # "queued" /\ r.at # "provide"
               /\ r.attempt # 1 /\ \A M : Fits(c, r, M)
<1> DEFINE r == Done(c, result)
<1>1. cmd[c].kind \in WorkerKinds \cup InlineKinds \cup {"none"}
  BY DEF CommandsInv, CommandsTypes, CommandState
<1>2. r \in CommandState
  BY <1>1, NewFacts, Zenon DEF CommandState, Done
<1>3. r.kind = cmd[c].kind /\ r.at = "done" /\ r.result = result /\ r.attempt = 0 /\ r.sends = 0
  BY DEF NewCommand, Done
<1>4. r = Done(c, result)
  OBVIOUS
<1> HIDE DEF r
<1>5. \A M : Fits(c, r, M)
  BY <1>3 DEF Fits, Reading, Sending
<1>6. r.at \in Idle /\ r.at # "await" /\ r.at # "queued" /\ r.at # "provide" /\ r.attempt # 1
  BY <1>3 DEF Idle
<1>7. QED
  BY <1>2, <1>3, <1>4, <1>5, <1>6, Zenon

\* A command that has replied ends; its slots are as before.
LEMMA DoneCore ==
    ASSUME CommandsInv, NEW c \in Command, cmd[c].at \in {"reply", "replied"},
           cmd' = [cmd EXCEPT ![c] = Done(c, cmd[c].result)], UNCHANGED <<slot, marked, config>>
    PROVE  /\ cmd' \in [Command -> CommandState] /\ \A d \in Command : d # c => cmd'[d] = cmd[d]
           /\ cmd'[c].kind = cmd[c].kind /\ cmd'[c].at \in Idle /\ cmd'[c].at # "queued"
           /\ UNCHANGED <<namespace, limit>> /\ marked' \subseteq Command
           /\ Slots' /\ Covered' /\ Awaited' /\ Fitting'
<1>1. cmd[c].result \in {"none", "ok", "error", "busy"}
  BY DEF CommandsInv, CommandsTypes, CommandState
<1>2. PICK r \in CommandState :
            /\ r = Done(c, cmd[c].result) /\ r.kind = cmd[c].kind /\ r.result = cmd[c].result
            /\ r.at \in Idle /\ r.at # "await" /\ r.at # "queued" /\ r.at # "provide"
            /\ r.attempt # 1 /\ \A M : Fits(c, r, M)
  BY <1>1, DoneFacts, Zenon
<1>3. cmd' = [cmd EXCEPT ![c] = r] /\ marked' \in {marked, marked \cup {c}} /\ Fits(c, r, marked')
  BY <1>2
<1>4. SlotsKept
  BY SameSlots, Zenon DEF CommandsInv
<1>5. ASSUME NEW x \in Cache, Owed(c, r, marked', x)
      PROVE  Fresh(c, slot'[x])
  <2>1. Owed(c, cmd[c], marked, x)
    BY <1>2, <1>5, Zenon DEF Owed
  <2>2. QED
    BY <2>1, Zenon DEF CommandsInv, Covered
<1>6. /\ cmd' \in [Command -> CommandState] /\ cmd'[c] = r /\ \A d \in Command : d # c => cmd'[d] = cmd[d]
      /\ UNCHANGED <<namespace, limit>> /\ marked' \subseteq Command
      /\ Slots' /\ Covered' /\ Awaited' /\ Fitting'
  BY <1>2, <1>3, <1>4, <1>5, StepCore, Zenon
<1>7. QED
  BY <1>2, <1>6, Zenon

LEMMA ReplyInv ==
    ASSUME CommandsInv, NEW c \in Command, Reply(c)
    PROVE  CommandsInv'
<1>1. /\ cmd[c].at = "reply" /\ UNCHANGED <<queue, permits, slot, marked, config>>
      /\ controller' = IF controller = c THEN NoCommand ELSE controller
      /\ cmd' = IF cmd[c].kind \in WorkerKinds THEN To(c, "replied") ELSE [cmd EXCEPT ![c] = Done(c, cmd[c].result)]
  BY Zenon DEF Reply
<1>2. /\ cmd[c].at \notin Idle /\ cmd[c].at # "queued" /\ cmd[c].at \in {"reply", "replied"}
      /\ marked' \in {marked, marked \cup {c}}
  BY <1>1 DEF Idle
<1>3. CASE cmd[c].kind \in WorkerKinds
  <2>1. controller # c
    BY <1>3, CommandFacts DEF CommandsInv, Turns
  <2>2. cmd' = To(c, "replied") /\ UNCHANGED controller /\ "replied" \in Waits \cup {"get", "changed", "reply", "replied"}
    BY <1>1, <1>3, <2>1
  <2>3. PICK r \in CommandState :
              /\ cmd' = [cmd EXCEPT ![c] = r] /\ r.at = "replied" /\ r.kind = cmd[c].kind /\ r.cache = cmd[c].cache
              /\ r.list = cmd[c].list /\ r.attempt = cmd[c].attempt /\ r.sends = cmd[c].sends
              /\ r.result = cmd[c].result
    BY <2>2, ToFacts, Zenon
  <2>4. SlotsKept
    BY <1>1, SameSlots, Zenon DEF CommandsInv
  <2>5. r.at \notin Idle /\ r.at # "await" /\ r.at # "provide"
    BY <2>3 DEF Idle
  <2>6. Fits(c, r, marked')
    <3>1. Fits(c, cmd[c], marked)
      BY Zenon DEF CommandsInv, Fitting
    <3>2. QED
      BY <1>1, <1>3, <2>3, <3>1 DEF Fits, Reading, Sending
  <2>7. ASSUME NEW x \in Cache, Owed(c, r, marked', x)
        PROVE  Fresh(c, slot'[x])
    <3>1. Owed(c, cmd[c], marked, x)
      BY <1>1, <2>3, <2>5, <2>7, Zenon DEF Owed
    <3>2. QED
      BY <1>1, <3>1, Zenon DEF CommandsInv, Covered
  <2>8. QED
    BY <1>1, <1>2, <2>2, <2>3, <2>4, <2>5, <2>6, <2>7, OneStep, Zenon
<1>4. CASE cmd[c].kind \notin WorkerKinds
  <2>1. /\ cmd' \in [Command -> CommandState] /\ \A d \in Command : d # c => cmd'[d] = cmd[d]
        /\ cmd'[c].kind = cmd[c].kind /\ cmd'[c].at \in Idle /\ cmd'[c].at # "queued"
        /\ UNCHANGED <<namespace, limit>> /\ marked' \subseteq Command
        /\ Slots' /\ Covered' /\ Awaited' /\ Fitting'
    BY <1>1, <1>2, <1>4, DoneCore, Zenon
  <2>2. CommandsTypes'
    <3>1. controller' \in Command \cup {NoCommand}
      BY <1>1 DEF CommandsInv, CommandsTypes
    <3>2. QED
      BY <1>1, <2>1, <3>1, Zenon DEF CommandsInv, CommandsTypes
  <2>3. Permits'
    <3>1. \A d \in Command : d \in Holding' <=> d \in Holding
      BY <1>4, <2>1, Zenon DEF Holding
    <3>2. Holding' = Holding
      BY <3>1 DEF Holding
    <3>3. QED
      BY <1>1, <2>1, <3>2, Zenon DEF CommandsInv, Permits
  <2>4. Turns'
    <3>1. (controller # NoCommand => cmd[controller].kind \in InlineKinds /\ cmd[controller].at \notin Idle)'
      BY <1>1, <2>1 DEF CommandsInv, CommandsTypes, Turns
    <3>2. ASSUME NEW d \in Command, cmd'[d].kind \in InlineKinds, cmd'[d].at \notin Idle
          PROVE  controller' = d
      <4>1. d # c
        BY <2>1, <3>2, Zenon
      <4>2. controller = d
        BY <2>1, <3>2, <4>1, Zenon DEF CommandsInv, Turns
      <4>3. QED
        BY <1>1, <4>1, <4>2, Zenon
    <3>3. (\A d \in Command : cmd[d].at = "queued" <=> In(d, queue))'
      BY <1>1, <1>2, <2>1 DEF CommandsInv, Turns
    <3>4. QED
      BY <3>1, <3>2, <3>3, Zenon DEF Turns
  <2>5. QED
    BY <2>1, <2>2, <2>3, <2>4, Zenon DEF CommandsInv
<1>5. QED
  BY <1>3, <1>4, Zenon

LEMMA HoldingFacts == IsFiniteSet(Holding) /\ Cardinality(Holding) \in Nat
<1>1. Holding \subseteq Command
  BY DEF Holding
<1>2. QED
  BY <1>1, CommandFacts, FS_Subset, FS_CardinalityType, Zenon

LEMMA DropPermitInv ==
    ASSUME CommandsInv, NEW c \in Command, DropPermit(c)
    PROVE  CommandsInv'
<1>1. /\ cmd[c].at = "replied" /\ UNCHANGED <<queue, controller, slot, marked, config>>
      /\ permits' = permits + 1 /\ cmd' = [cmd EXCEPT ![c] = Done(c, cmd[c].result)]
  BY Zenon DEF DropPermit
<1>2. cmd[c].at \notin Idle /\ cmd[c].at # "queued" /\ cmd[c].at \in {"reply", "replied"}
  BY <1>1 DEF Idle
<1>3. cmd[c].kind \in WorkerKinds /\ cmd[c].kind \notin InlineKinds
  <2>1. cmd[c].kind \in WorkerKinds
    BY <1>1, Zenon DEF CommandsInv, Fitting, Fits
  <2>2. QED
    BY <2>1, CommandFacts
<1>4. /\ cmd' \in [Command -> CommandState] /\ \A d \in Command : d # c => cmd'[d] = cmd[d]
      /\ cmd'[c].kind = cmd[c].kind /\ cmd'[c].at \in Idle /\ cmd'[c].at # "queued"
      /\ UNCHANGED <<namespace, limit>> /\ marked' \subseteq Command
      /\ Slots' /\ Covered' /\ Awaited' /\ Fitting'
  BY <1>1, <1>2, DoneCore, Zenon
<1>5. CommandsTypes'
  BY <1>1, <1>4 DEF CommandsInv, CommandsTypes
<1>6. Permits'
  <2>1. c \in Holding /\ \A d \in Command : d \in Holding' <=> d \in Holding /\ d # c
    BY <1>2, <1>3, <1>4, Zenon DEF Holding, Idle
  <2>2. Holding' = Holding \ {c}
    BY <2>1 DEF Holding
  <2>3. Cardinality(Holding') = Cardinality(Holding) - 1
    BY <2>1, <2>2, HoldingFacts, FS_RemoveElement, Zenon
  <2>4. QED
    BY <1>1, <1>4, <2>3, HoldingFacts DEF CommandsInv, CommandsTypes, Permits
<1>7. Turns'
  <2>1. controller # c
    BY <1>3, CommandFacts DEF CommandsInv, Turns
  <2>2. (controller # NoCommand => cmd[controller].kind \in InlineKinds /\ cmd[controller].at \notin Idle)'
    BY <1>1, <1>4, <2>1 DEF CommandsInv, CommandsTypes, Turns
  <2>3. (\A d \in Command : cmd[d].kind \in InlineKinds /\ cmd[d].at \notin Idle => controller = d)'
    BY <1>1, <1>4 DEF CommandsInv, Turns
  <2>4. (\A d \in Command : cmd[d].at = "queued" <=> In(d, queue))'
    BY <1>1, <1>2, <1>4 DEF CommandsInv, Turns
  <2>5. QED
    BY <2>2, <2>3, <2>4, Zenon DEF Turns
<1>8. QED
  BY <1>4, <1>5, <1>6, <1>7, Zenon DEF CommandsInv

-----------------------------------------------------------------------------
(* The controller's queue                                                  *)

LEMMA AppendFacts ==
    ASSUME NEW S, NEW q \in Seq(S), NEW x \in S
    PROVE  /\ Append(q, x) \in Seq(S) /\ Len(Append(q, x)) = Len(q) + 1
           /\ \A y : In(y, Append(q, x)) <=> In(y, q) \/ y = x
           /\ Once(q) /\ ~In(x, q) => Once(Append(q, x))
<1>1. /\ Append(q, x) \in Seq(S) /\ Len(q) \in Nat /\ Len(Append(q, x)) = Len(q) + 1
      /\ DOMAIN q = 1..Len(q) /\ DOMAIN Append(q, x) = 1..(Len(q) + 1)
      /\ \A n \in 1..Len(q) : Append(q, x)[n] = q[n]
      /\ Append(q, x)[Len(q) + 1] = x
  OBVIOUS
<1>2. DOMAIN Append(q, x) = DOMAIN q \cup {Len(q) + 1} /\ Len(q) + 1 \notin DOMAIN q
  BY <1>1
<1>3. \A y : In(y, Append(q, x)) <=> In(y, q) \/ y = x
  BY <1>1, <1>2, Zenon DEF In
<1>4. ASSUME Once(q), ~In(x, q)
      PROVE  Once(Append(q, x))
  BY <1>1, <1>2, <1>4, Zenon DEF In, Once
<1>5. QED
  BY <1>1, <1>3, <1>4, Zenon

LEMMA TailFacts ==
    ASSUME NEW S, NEW q \in Seq(S), q # <<>>
    PROVE  /\ Tail(q) \in Seq(S) /\ Len(Tail(q)) < Len(q)
           /\ Head(q) \in S /\ In(Head(q), q)
           /\ Once(q) => Once(Tail(q)) /\ \A y : In(y, Tail(q)) <=> In(y, q) /\ y # Head(q)
<1>1. /\ Tail(q) \in Seq(S) /\ Len(q) \in Nat \ {0} /\ Len(Tail(q)) = Len(q) - 1 /\ Head(q) \in S /\ Head(q) = q[1]
      /\ DOMAIN q = 1..Len(q) /\ DOMAIN Tail(q) = 1..(Len(q) - 1)
      /\ \A n \in 1..(Len(q) - 1) : Tail(q)[n] = q[n + 1]
  OBVIOUS
<1>2. In(Head(q), q) /\ Len(Tail(q)) < Len(q)
  BY <1>1 DEF In
<1>3. ASSUME Once(q)
      PROVE  Once(Tail(q))
  <2> SUFFICES ASSUME NEW m \in DOMAIN Tail(q), NEW n \in DOMAIN Tail(q), Tail(q)[m] = Tail(q)[n]
               PROVE  m = n
    BY DEF Once
  <2>1. m + 1 \in DOMAIN q /\ n + 1 \in DOMAIN q /\ q[m + 1] = q[n + 1] /\ m \in Nat /\ n \in Nat
    BY <1>1
  <2>2. m + 1 = n + 1
    BY <1>3, <2>1, Zenon DEF Once
  <2>3. QED
    BY <2>1, <2>2
<1>4. ASSUME Once(q), NEW y, In(y, Tail(q))
      PROVE  In(y, q) /\ y # Head(q)
  <2>1. PICK n \in DOMAIN Tail(q) : Tail(q)[n] = y
    BY <1>4, Zenon DEF In
  <2>2. n + 1 \in DOMAIN q /\ q[n + 1] = y /\ n + 1 # 1 /\ 1 \in DOMAIN q
    BY <1>1, <2>1
  <2>3. y # q[1]
    BY <1>4, <2>2, Zenon DEF Once
  <2>4. QED
    BY <1>1, <2>2, <2>3, Zenon DEF In
<1>5. ASSUME NEW y, In(y, q), y # Head(q)
      PROVE  In(y, Tail(q))
  <2>1. PICK n \in DOMAIN q : q[n] = y
    BY <1>5, Zenon DEF In
  <2>2. n # 1
    BY <1>1, <1>5, <2>1, Zenon
  <2>3. n - 1 \in DOMAIN Tail(q) /\ Tail(q)[n - 1] = y
    BY <1>1, <2>1, <2>2
  <2>4. QED
    BY <2>3, Zenon DEF In
<1>6. QED
  BY <1>1, <1>2, <1>3, <1>4, <1>5, Zenon

LEMMA EnqueueInv ==
    ASSUME CommandsInv, NEW c \in Command, NEW kind \in WorkerKinds \cup InlineKinds, Enqueue(c, kind)
    PROVE  CommandsInv'
<1> DEFINE r == [cmd[c] EXCEPT !.kind = kind, !.at = "queued"]
<1>1. /\ cmd[c].at = "new" /\ queue' = Append(queue, c) /\ UNCHANGED <<controller, permits, slot, marked, config>>
      /\ cmd' = [cmd EXCEPT ![c].kind = kind, ![c].at = "queued"]
  BY Zenon DEF Enqueue
<1>2. cmd[c] \in CommandState /\ cmd \in [Command -> CommandState] /\ c \notin marked /\ Fits(c, cmd[c], marked)
  BY <1>1, Zenon DEF CommandsInv, CommandsTypes, Fitting, Fits
<1>3. /\ r \in CommandState /\ r.kind = kind /\ r.at = "queued" /\ r.result = cmd[c].result
      /\ r.attempt = cmd[c].attempt /\ r.sends = cmd[c].sends
  BY <1>2, Zenon DEF CommandState
<1>4. cmd' = [cmd EXCEPT ![c] = r]
  BY <1>1, <1>2, Zenon
<1> HIDE DEF r
<1>5. Fits(c, r, marked')
  BY <1>1, <1>2, <1>3 DEF Fits, Reading, Sending
<1>6. r.at # "await" /\ r.at \in Idle /\ cmd[c].at \in Idle /\ \A x \in Cache : ~Owed(c, r, marked', x)
  BY <1>1, <1>2, <1>3 DEF Owed, Idle
<1>7. SlotsKept
  BY <1>1, SameSlots, Zenon DEF CommandsInv
<1>8. /\ cmd' \in [Command -> CommandState] /\ cmd'[c] = r /\ \A d \in Command : d # c => cmd'[d] = cmd[d]
      /\ UNCHANGED <<namespace, limit>> /\ marked' \subseteq Command
      /\ Slots' /\ Covered' /\ Awaited' /\ Fitting'
  <2>1. marked' \in {marked, marked \cup {c}} /\ UNCHANGED config
    BY <1>1
  <2>2. (r.at = "await" => Live(slot'[r.cache])) /\ \A x \in Cache : Owed(c, r, marked', x) => Fresh(c, slot'[x])
    BY <1>6, Zenon
  <2>3. QED
    BY <1>3, <1>4, <1>5, <1>7, <2>1, <2>2, StepCore, Zenon
<1>9. /\ queue' \in Seq(Command) /\ Once(queue') /\ \A d \in Command : In(d, queue') <=> In(d, queue) \/ d = c
  <2>1. queue \in Seq(Command) /\ Once(queue) /\ ~In(c, queue)
    BY <1>1 DEF CommandsInv, CommandsTypes, Turns
  <2>2. QED
    BY <1>1, <2>1, AppendFacts, Zenon
<1>10. CommandsTypes'
  BY <1>1, <1>8, <1>9, Zenon DEF CommandsInv, CommandsTypes
<1>11. Permits'
  <2>1. \A d \in Command : d \in Holding' <=> d \in Holding
    BY <1>6, <1>8, Zenon DEF Holding, Idle
  <2>2. Holding' = Holding
    BY <2>1 DEF Holding
  <2>3. QED
    BY <1>1, <1>8, <2>2, Zenon DEF CommandsInv, Permits
<1>12. Turns'
  <2>1. (controller # NoCommand => cmd[controller].kind \in InlineKinds /\ cmd[controller].at \notin Idle)'
    BY <1>1, <1>6, <1>8 DEF CommandsInv, CommandsTypes, Turns
  <2>2. (\A d \in Command : cmd[d].kind \in InlineKinds /\ cmd[d].at \notin Idle => controller = d)'
    BY <1>1, <1>6, <1>8, Zenon DEF CommandsInv, Turns
  <2>3. (\A d \in Command : cmd[d].at = "queued" <=> In(d, queue))'
    BY <1>3, <1>8, <1>9 DEF CommandsInv, Turns
  <2>4. QED
    BY <2>1, <2>2, <2>3, Zenon DEF Turns
<1>13. QED
  BY <1>8, <1>10, <1>11, <1>12, Zenon DEF CommandsInv

\* Where a command of each kind goes first.
LEMMA FirstFacts ==
    ASSUME NEW kind \in WorkerKinds \cup InlineKinds, NEW at \in FirstStep(kind)
    PROVE  /\ at \in {"get", "send", "put", "provide", "unprovide", "remove", "clear", "reload", "dial", "reply"}
           /\ at = "get" => kind \in {"query_key", "discover_providers", "service_request"}
           /\ at = "send" => kind = "service_request_to"
           /\ at \in {"put", "unprovide", "remove", "reload", "provide"} => kind \in Changing
           /\ at = "provide" => kind = "provide_key"
           /\ at \in {"clear", "dial"} => kind \in {"refresh_cache", "reconnect_bootstrap"}
  BY DEF FirstStep, WorkerKinds, InlineKinds, Changing

LEMMA StartFacts ==
    ASSUME CommandsInv, NEW c \in Command, cmd[c].at = "queued",
           cmd[c].kind \in WorkerKinds \cup InlineKinds, Start(c)
    PROVE  \E r \in CommandState :
               /\ cmd' = [cmd EXCEPT ![c] = r] /\ r.kind = cmd[c].kind
               /\ r.at \notin Idle /\ r.at # "await" /\ Fits(c, r, marked) /\ c \notin marked
<1>1. cmd[c] \in CommandState /\ cmd \in [Command -> CommandState] /\ c \notin marked /\ Fits(c, cmd[c], marked)
  BY Zenon DEF CommandsInv, CommandsTypes, Fitting, Fits
<1>2. cmd[c].attempt = 0
  BY <1>1 DEF Fits, CommandState
<1>3. PICK at \in FirstStep(cmd[c].kind) :
      \E result \in IF at # "reply" THEN {"none"} ELSE IF cmd[c].kind = "local" THEN {"ok", "error"} ELSE {"error"} :
        cmd' = [cmd EXCEPT ![c].at = at, ![c].result = result, ![c].sends = IF at = "send" THEN 1 ELSE 0,
                           ![c].cache = IF cmd[c].kind = "query_key" THEN "record" ELSE "provider"]
  BY Zenon DEF Start
<1>4. PICK result \in IF at # "reply" THEN {"none"} ELSE IF cmd[c].kind = "local" THEN {"ok", "error"} ELSE {"error"} :
        cmd' = [cmd EXCEPT ![c].at = at, ![c].result = result, ![c].sends = IF at = "send" THEN 1 ELSE 0,
                           ![c].cache = IF cmd[c].kind = "query_key" THEN "record" ELSE "provider"]
  BY <1>3, Zenon
<1>5. result \in {"none", "ok", "error"} /\ (at # "reply" => result = "none")
  BY <1>4
<1>6. /\ at \in {"get", "send", "put", "provide", "unprovide", "remove", "clear", "reload", "dial", "reply"}
      /\ at = "get" => cmd[c].kind \in {"query_key", "discover_providers", "service_request"}
      /\ at = "send" => cmd[c].kind = "service_request_to"
      /\ at \in {"put", "unprovide", "remove", "reload", "provide"} => cmd[c].kind \in Changing
      /\ at = "provide" => cmd[c].kind = "provide_key"
      /\ at \in {"clear", "dial"} => cmd[c].kind \in {"refresh_cache", "reconnect_bootstrap"}
  BY <1>3, FirstFacts, Zenon
<1> DEFINE sends == IF at = "send" THEN 1 ELSE 0
           cache == IF cmd[c].kind = "query_key" THEN "record" ELSE "provider"
           r == [cmd[c] EXCEPT !.at = at, !.result = result, !.sends = sends, !.cache = cache]
<1>7. cmd' = [cmd EXCEPT ![c] = r]
  BY <1>1, <1>4, Zenon
<1>8. /\ sends \in 0..4 /\ (at # "send" => sends = 0) /\ (at = "send" => sends = 1)
      /\ cache \in {"record", "provider"} /\ (cmd[c].kind # "query_key" => cache = "provider")
  OBVIOUS
<1>9. at \in Waits \cup {"new", "queued", "get", "woken", "changed", "reply", "replied", "done"}
  BY <1>6 DEF Waits
<1> HIDE DEF sends, cache
<1>10. /\ r \in CommandState /\ r.kind = cmd[c].kind /\ r.at = at /\ r.result = result /\ r.cache = cache
       /\ r.attempt = 0 /\ r.sends = sends
  <2>1. result \in {"none", "ok", "error", "busy"}
    BY <1>5
  <2>2. r \in CommandState
    BY <1>1, <1>8, <1>9, <2>1, Zenon DEF CommandState
  <2>3. /\ r.kind = cmd[c].kind /\ r.at = at /\ r.result = result /\ r.cache = cache
        /\ r.attempt = cmd[c].attempt /\ r.sends = sends
    BY <1>1 DEF CommandState
  <2>4. QED
    BY <1>2, <2>2, <2>3
<1> HIDE DEF r
<1>11. r.at \notin Idle /\ r.at # "await"
  BY <1>6, <1>10 DEF Idle
<1>12. Fits(c, r, marked)
  BY <1>5, <1>6, <1>8, <1>10 DEF Fits, Reading, Sending
<1>13. QED
  BY <1>1, <1>7, <1>10, <1>11, <1>12, Zenon

\* What all of the outcomes of dispatch_command share: the head of the queue
\* gets a state in which no cache owes it anything.
LEMMA TakenCore ==
    ASSUME CommandsInv, SlotsKept, queue # <<>>, queue' = Tail(queue), UNCHANGED <<marked, config>>,
           NEW c, c = Head(queue), NEW r \in CommandState, cmd' = [cmd EXCEPT ![c] = r],
           r.kind = cmd[c].kind, r.at # "queued", r.at # "await", Fits(c, r, marked),
           controller' \in Command \cup {NoCommand}, permits' \in Nat
    PROVE  /\ cmd'[c] = r /\ \A d \in Command : d # c => cmd'[d] = cmd[d]
           /\ CommandsTypes' /\ Slots' /\ Covered' /\ Awaited' /\ Fitting'
           /\ (\A d \in Command : cmd[d].at = "queued" <=> In(d, queue))'
           /\ UNCHANGED limit
<1>1. queue \in Seq(Command) /\ Once(queue)
  BY Zenon DEF CommandsInv, CommandsTypes
<1>2. /\ queue' \in Seq(Command) /\ c \in Command /\ In(c, queue)
      /\ Once(queue') /\ \A d : In(d, queue') <=> In(d, queue) /\ d # c
  BY <1>1, TailFacts, Zenon
<1>3. cmd[c].at = "queued" /\ c \notin marked
  BY <1>2, Zenon DEF CommandsInv, Turns, Fitting, Fits
<1>4. /\ cmd' \in [Command -> CommandState] /\ cmd'[c] = r /\ \A d \in Command : d # c => cmd'[d] = cmd[d]
      /\ UNCHANGED <<namespace, limit>> /\ marked' \subseteq Command
      /\ Slots' /\ Covered' /\ Awaited' /\ Fitting'
  <2>1. marked' \in {marked, marked \cup {c}} /\ UNCHANGED config /\ marked' = marked
    OBVIOUS
  <2>2. (r.at = "await" => Live(slot'[r.cache])) /\ \A x \in Cache : Owed(c, r, marked', x) => Fresh(c, slot'[x])
    BY <1>3, <2>1, Zenon DEF Owed
  <2>3. Fits(c, r, marked')
    BY <2>1
  <2>4. QED
    BY <1>2, <2>1, <2>2, <2>3, StepCore, Zenon
<1>5. CommandsTypes'
  BY <1>2, <1>4, Zenon DEF CommandsInv, CommandsTypes
<1>6. (\A d \in Command : cmd[d].at = "queued" <=> In(d, queue))'
  BY <1>2, <1>4 DEF CommandsInv, Turns
<1>7. QED
  BY <1>4, <1>5, <1>6, Zenon

LEMMA BusyInv ==
    ASSUME CommandsInv, controller = NoCommand, queue # <<>>, queue' = Tail(queue), UNCHANGED <<marked, config>>,
           NEW c \in Command, c = Head(queue), cmd[c].at = "queued", cmd[c].kind \in WorkerKinds,
           cmd' = [cmd EXCEPT ![c] = Done(c, "busy")], UNCHANGED <<controller, permits, slot>>
    PROVE  CommandsInv'
<1>1. "busy" \in {"none", "ok", "error", "busy"}
  OBVIOUS
<1>2. PICK r \in CommandState :
            /\ r = Done(c, "busy") /\ r.kind = cmd[c].kind /\ r.at \in Idle /\ r.at # "await" /\ r.at # "queued"
            /\ \A M : Fits(c, r, M)
  BY <1>1, DoneFacts, Zenon
<1>3. SlotsKept
  BY SameSlots, Zenon DEF CommandsInv
<1>4. /\ cmd' = [cmd EXCEPT ![c] = r] /\ Fits(c, r, marked) /\ r.kind = cmd[c].kind
      /\ r.at # "await" /\ r.at # "queued" /\ controller' \in Command \cup {NoCommand} /\ permits' \in Nat
  BY <1>2 DEF CommandsInv, CommandsTypes
<1>5. /\ cmd'[c] = r /\ \A d \in Command : d # c => cmd'[d] = cmd[d]
      /\ CommandsTypes' /\ Slots' /\ Covered' /\ Awaited' /\ Fitting'
      /\ (\A d \in Command : cmd[d].at = "queued" <=> In(d, queue))'
      /\ UNCHANGED limit
  BY <1>3, <1>4, TakenCore, Zenon
<1>6. cmd[c].at \in Idle
  BY DEF Idle
<1>7. Permits'
  <2>1. \A d \in Command : d \in Holding' <=> d \in Holding
    BY <1>2, <1>5, <1>6, Zenon DEF Holding, Idle
  <2>2. Holding' = Holding
    BY <2>1 DEF Holding
  <2>3. QED
    BY <1>5, <2>2, Zenon DEF CommandsInv, Permits
<1>8. Turns'
  <2>1. (\A d \in Command : cmd[d].kind \in InlineKinds /\ cmd[d].at \notin Idle => controller = d)'
    BY <1>2, <1>5 DEF CommandsInv, Turns
  <2>2. QED
    BY <1>5, <2>1, Zenon DEF Turns
<1>9. QED
  BY <1>5, <1>7, <1>8, Zenon DEF CommandsInv

LEMMA WorkerInv ==
    ASSUME CommandsInv, controller = NoCommand, queue # <<>>, queue' = Tail(queue), UNCHANGED <<marked, config>>,
           NEW c \in Command, c = Head(queue), cmd[c].at = "queued", cmd[c].kind \in WorkerKinds,
           permits > 0, permits' = permits - 1, Start(c), UNCHANGED <<controller, slot>>
    PROVE  CommandsInv'
<1>1. PICK r \in CommandState :
            /\ cmd' = [cmd EXCEPT ![c] = r] /\ r.kind = cmd[c].kind
            /\ r.at \notin Idle /\ r.at # "await" /\ Fits(c, r, marked)
  <2>1. cmd[c].kind \in WorkerKinds \cup InlineKinds
    OBVIOUS
  <2>2. QED
    BY <2>1, StartFacts, Zenon
<1>2. SlotsKept
  BY SameSlots, Zenon DEF CommandsInv
<1>3. /\ r.at # "queued" /\ cmd[c].at \in Idle
      /\ controller' \in Command \cup {NoCommand} /\ permits' \in Nat
  BY <1>1 DEF CommandsInv, CommandsTypes, Idle
<1>4. /\ cmd'[c] = r /\ \A d \in Command : d # c => cmd'[d] = cmd[d]
      /\ CommandsTypes' /\ Slots' /\ Covered' /\ Awaited' /\ Fitting'
      /\ (\A d \in Command : cmd[d].at = "queued" <=> In(d, queue))'
      /\ UNCHANGED limit
  BY <1>1, <1>2, <1>3, TakenCore, Zenon
<1>5. Permits'
  <2>1. c \notin Holding /\ \A d \in Command : d \in Holding' <=> d \in Holding \/ d = c
    BY <1>1, <1>3, <1>4, Zenon DEF Holding, Idle
  <2>2. Holding' = Holding \cup {c}
    BY <2>1 DEF Holding
  <2>3. Cardinality(Holding') = Cardinality(Holding) + 1
    BY <2>1, <2>2, HoldingFacts, FS_AddElement, Zenon
  <2>4. QED
    BY <1>4, <2>3, HoldingFacts DEF CommandsInv, CommandsTypes, Permits
<1>6. Turns'
  <2>1. cmd'[c].kind \notin InlineKinds
    BY <1>1, <1>4, CommandFacts
  <2>2. (\A d \in Command : cmd[d].kind \in InlineKinds /\ cmd[d].at \notin Idle => controller = d)'
    BY <1>4, <2>1 DEF CommandsInv, Turns
  <2>3. QED
    BY <1>4, <2>2, Zenon DEF Turns
<1>7. QED
  BY <1>4, <1>5, <1>6, Zenon DEF CommandsInv

LEMMA InlineInv ==
    ASSUME CommandsInv, controller = NoCommand, queue # <<>>, queue' = Tail(queue), UNCHANGED <<marked, config>>,
           NEW c \in Command, c = Head(queue), cmd[c].at = "queued", cmd[c].kind \in InlineKinds,
           controller' = c, Start(c), UNCHANGED permits,
           slot' = IF cmd[c].kind = "refresh_cache" THEN Invalidated(Cache, "all") ELSE slot
    PROVE  CommandsInv'
<1>1. PICK r \in CommandState :
            /\ cmd' = [cmd EXCEPT ![c] = r] /\ r.kind = cmd[c].kind
            /\ r.at \notin Idle /\ r.at # "await" /\ Fits(c, r, marked)
  <2>1. cmd[c].kind \in WorkerKinds \cup InlineKinds
    OBVIOUS
  <2>2. QED
    BY <2>1, StartFacts, Zenon
<1>2. SlotsKept
  <2>1. "all" \in {"key", "all"} /\ Cache \subseteq Cache /\ CommandsTypes /\ Slots
    BY DEF CommandsInv
  <2>2. CASE cmd[c].kind = "refresh_cache"
    BY <2>1, <2>2, InvalidatedSlots, Zenon
  <2>3. CASE cmd[c].kind # "refresh_cache"
    BY <2>1, <2>3, SameSlots, Zenon
  <2>4. QED
    BY <2>2, <2>3, Zenon
<1>3. /\ r.at # "queued" /\ cmd[c].at \in Idle
      /\ controller' \in Command \cup {NoCommand} /\ permits' \in Nat
  BY <1>1 DEF CommandsInv, CommandsTypes, Idle
<1>4. /\ cmd'[c] = r /\ \A d \in Command : d # c => cmd'[d] = cmd[d]
      /\ CommandsTypes' /\ Slots' /\ Covered' /\ Awaited' /\ Fitting'
      /\ (\A d \in Command : cmd[d].at = "queued" <=> In(d, queue))'
      /\ UNCHANGED limit
  BY <1>1, <1>2, <1>3, TakenCore, Zenon
<1>5. Permits'
  <2>1. cmd[c].kind \notin WorkerKinds
    BY CommandFacts
  <2>2. \A d \in Command : d \in Holding' <=> d \in Holding
    BY <1>1, <1>4, <2>1, Zenon DEF Holding
  <2>3. Holding' = Holding
    BY <2>2 DEF Holding
  <2>4. QED
    BY <1>4, <2>3, Zenon DEF CommandsInv, Permits
<1>6. Turns'
  <2>1. \A d \in Command : ~(cmd[d].kind \in InlineKinds /\ cmd[d].at \notin Idle)
    BY CommandFacts, Zenon DEF CommandsInv, Turns
  <2>2. (\A d \in Command : cmd[d].kind \in InlineKinds /\ cmd[d].at \notin Idle => controller = d)'
    BY <1>4, <2>1, Zenon
  <2>3. (controller # NoCommand => cmd[controller].kind \in InlineKinds /\ cmd[controller].at \notin Idle)'
    BY <1>1, <1>4, Zenon
  <2>4. QED
    BY <1>4, <2>2, <2>3, Zenon DEF Turns
<1>7. QED
  BY <1>4, <1>5, <1>6, Zenon DEF CommandsInv

LEMMA DispatchInv ==
    ASSUME CommandsInv, dispatch_command
    PROVE  CommandsInv'
<1> DEFINE c == Head(queue)
<1>1. controller = NoCommand /\ queue # <<>> /\ queue' = Tail(queue) /\ UNCHANGED <<marked, config>>
  BY Zenon DEF dispatch_command
<1>2. c \in Command /\ cmd[c].at = "queued" /\ c = Head(queue)
  <2>1. queue \in Seq(Command)
    BY Zenon DEF CommandsInv, CommandsTypes
  <2>2. c \in Command /\ In(c, queue)
    BY <1>1, <2>1, TailFacts, Zenon
  <2>3. QED
    BY <2>2, Zenon DEF CommandsInv, Turns
<1>3. \/ /\ cmd[c].kind \in WorkerKinds /\ permits = 0
         /\ cmd' = [cmd EXCEPT ![c] = Done(c, "busy")] /\ UNCHANGED <<controller, permits, slot>>
      \/ /\ cmd[c].kind \in WorkerKinds /\ permits > 0
         /\ permits' = permits - 1 /\ Start(c) /\ UNCHANGED <<controller, slot>>
      \/ /\ cmd[c].kind \in InlineKinds /\ controller' = c /\ Start(c)
         /\ slot' = IF cmd[c].kind = "refresh_cache" THEN Invalidated(Cache, "all") ELSE slot
         /\ UNCHANGED permits
  BY Zenon DEF dispatch_command
<1> HIDE DEF c
<1>4. QED
  BY <1>1, <1>2, <1>3, BusyInv, WorkerInv, InlineInv, Zenon

-----------------------------------------------------------------------------
(* The specification                                                       *)

LEMMA CommandsInitInv ==
    ASSUME CommandsInit
    PROVE  CommandsInv
<1>1. /\ queue = <<>> /\ controller = NoCommand /\ limit \in Limits /\ permits = limit /\ marked = {}
      /\ cmd = [c \in Command |-> NewCommand]
  BY Zenon DEF CommandsInit
<1>2. PICK E \in SUBSET {Older} : slot = [x \in Cache |-> [entry |-> E, task |-> {}]]
  BY Zenon DEF CommandsInit
<1>3. /\ \A c \in Command : cmd[c] = NewCommand
      /\ NewCommand.at = "new" /\ NewCommand.result = "none" /\ NewCommand.attempt = 0 /\ NewCommand.sends = 0
      /\ NewCommand.kind = "none"
  BY <1>1 DEF NewCommand
<1>4. CommandsTypes
  <2>1. cmd \in [Command -> CommandState]
    BY <1>1, NewFacts, Zenon
  <2>2. queue \in Seq(Command) /\ Once(queue)
    BY <1>1 DEF Once
  <2>3. QED
    BY <1>1, <2>1, <2>2, CommandsAssumption DEF CommandsTypes
<1>5. Slots
  <2>1. Older \in Read
    BY DEF Older, Read
  <2>2. QED
    BY <1>2, <2>1 DEF Slots, Slot, Single
<1>6. Covered
  BY <1>1, Zenon DEF Covered, Owed
<1>7. Awaited
  BY <1>3 DEF Awaited
<1>8. Fitting
  BY <1>1, <1>3 DEF Fitting, Fits, Reading, Sending
<1>9. Permits
  <2>1. Holding = {}
    BY <1>3 DEF Holding
  <2>2. QED
    BY <1>1, <2>1, FS_EmptySet, CommandsAssumption DEF Permits
<1>10. Turns
  BY <1>1, <1>3 DEF Turns, In, Idle
<1>11. QED
  BY <1>4, <1>5, <1>6, <1>7, <1>8, <1>9, <1>10, Zenon DEF CommandsInv

LEMMA CommandsStutter ==
    ASSUME CommandsInv, UNCHANGED commandVars
    PROVE  CommandsInv'
<1>1. UNCHANGED <<queue, cmd, controller, permits, slot, marked, namespace, limit>>
  BY DEF commandVars, config
<1>2. Holding' = Holding /\ \A kind : ChangedBy(kind)' = ChangedBy(kind)
  BY <1>1 DEF Holding, ChangedBy
<1>3. \A c \in Command, x \in Cache : Owed(c, cmd[c], marked, x)' => Owed(c, cmd[c], marked, x)
  BY <1>1, <1>2 DEF Owed
<1>4. Covered'
  BY <1>1, <1>3 DEF CommandsInv, Covered
<1>5. QED
  BY <1>1, <1>2, <1>4, Zenon DEF CommandsInv, CommandsTypes, Slots, Awaited, Fitting, Permits, Turns

LEMMA CommandsNextInv ==
    ASSUME CommandsInv, [CommandsNext]_commandVars
    PROVE  CommandsInv'
<1>1. CASE \E c \in Command, kind \in WorkerKinds \cup InlineKinds : Enqueue(c, kind)
  BY <1>1, EnqueueInv, Zenon
<1>2. CASE dispatch_command
  BY <1>2, DispatchInv, Zenon
<1>3. CASE AuthReads
  BY <1>3, AuthReadsInv, Zenon
<1>4. CASE AuthRejects
  BY <1>4, AuthRejectsInv, Zenon
<1>5. ASSUME NEW c \in Command, CommandStep(c)
      PROVE  CommandsInv'
  <2>1. \/ get(c) \/ WakeReader(c) \/ Response(c) \/ SendFails(c) \/ Resolved(c) \/ RequestFails(c)
        \/ Changes(c) \/ AfterChange(c) \/ LastCall(c) \/ CallFails(c) \/ Reply(c) \/ DropPermit(c)
    BY <1>5, Zenon DEF CommandStep
  <2>2. QED
    BY <2>1, GetInv, WakeReaderInv, ResponseInv, SendFailsInv, ResolvedInv, RequestFailsInv,
       ChangesInv, AfterChangeInv, LastCallInv, CallFailsInv, ReplyInv, DropPermitInv, Zenon
<1>6. ASSUME NEW x \in Cache, RefreshStep(x)
      PROVE  CommandsInv'
  BY <1>6, SlotCompareInv, SlotApplyInv, SlotGuardInv, Zenon DEF RefreshStep
<1>7. CASE UNCHANGED commandVars
  BY <1>7, CommandsStutter, Zenon
<1>8. QED
  BY <1>1, <1>2, <1>3, <1>4, <1>5, <1>6, <1>7, Zenon DEF CommandsNext

(***************************************************************************)
(* The inductive invariant of the control commands: what a cache holds for *)
(* a change that is made, who holds a permit and who the controller's task,*)
(* and that each reader has a refresh to wait for (command.rs).            *)
(***************************************************************************)
THEOREM CommandsInvariant == CommandsSpec => []CommandsInv
<1>1. CommandsInit => CommandsInv
  BY CommandsInitInv, Zenon
<1>2. CommandsInv /\ [CommandsNext]_commandVars => CommandsInv'
  BY CommandsNextInv, Zenon
<1>3. QED
  BY <1>1, <1>2, PTL DEF CommandsSpec

LEMMA SingleCardinality ==
    ASSUME NEW S, \A a, b \in S : a = b
    PROVE  Cardinality(S) <= 1
<1>1. CASE S = {}
  BY <1>1, FS_EmptySet
<1>2. ASSUME NEW a \in S
      PROVE  Cardinality(S) <= 1
  <2>1. S = {a}
    BY <1>2, Zenon
  <2>2. QED
    BY <2>1, FS_Singleton
<1>3. QED
  BY <1>1, <1>2

(***************************************************************************)
(* For every number of commands and every limit: once add_key, remove_key  *)
(* or reload_config has succeeded, no cache serves what was queried for    *)
(* before the change, unless it slipped past an invalidation inside the    *)
(* cache (the invalidations of command.rs).                                *)
(***************************************************************************)
THEOREM ChangesSeen == CommandsSpec => []AckedChangesAreSeen
<1>1. ASSUME CommandsInv
      PROVE  AckedChangesAreSeen
  <2> SUFFICES ASSUME NEW c \in marked, cmd[c].kind \in Changing, cmd[c].result = "ok",
                      NEW x \in ChangedBy(cmd[c].kind), NEW e \in slot[x].entry
               PROVE  c \in e.seen \/ e.slipped
    BY Zenon DEF AckedChangesAreSeen, Changing
  <2>1. c \in Command /\ x \in Cache
    BY <1>1 DEF CommandsInv, CommandsTypes, ChangedBy, Cache
  <2>2. Owed(c, cmd[c], marked, x)
    BY Zenon DEF Owed
  <2>3. Fresh(c, slot[x])
    BY <1>1, <2>1, <2>2, Zenon DEF CommandsInv, Covered
  <2>4. QED
    BY <2>3, Zenon DEF Fresh
<1>2. QED
  BY <1>1, CommandsInvariant, PTL

(***************************************************************************)
(* The second attempt of a service request uses only a provider list that  *)
(* was queried for after the first one failed, and a command makes at most *)
(* two requests for each attempt (request_service).                        *)
(***************************************************************************)
THEOREM RetryFresh == CommandsSpec => []RetryIsFresh
<1>1. ASSUME CommandsInv
      PROVE  RetryIsFresh
  <2>1. CommandsTypeOK
    <3>1. permits \in 0..limit
      BY <1>1, HoldingFacts DEF CommandsInv, CommandsTypes, Permits
    <3>2. ASSUME NEW x \in Cache
          PROVE  /\ slot[x].entry \subseteq Read /\ Cardinality(slot[x].entry) <= 1
                 /\ slot[x].task \subseteq SlotTask /\ Cardinality(slot[x].task) <= 1
      <4>1. slot[x] \in Slot /\ Single(slot[x])
        BY <1>1, Zenon DEF CommandsInv, Slots
      <4>2. slot[x].entry \subseteq Read /\ slot[x].task \subseteq SlotTask
        BY <4>1 DEF Slot
      <4>3. Cardinality(slot[x].entry) <= 1 /\ Cardinality(slot[x].task) <= 1
        BY <4>1, SingleCardinality, Zenon DEF Single
      <4>4. QED
        BY <4>2, <4>3, Zenon
    <3>3. DOMAIN slot = Cache
      BY <1>1 DEF CommandsInv, Slots
    <3>4. QED
      BY <1>1, <3>1, <3>2, <3>3, Zenon DEF CommandsInv, CommandsTypes, CommandsTypeOK
  <2>2. ASSUME NEW c \in Command
        PROVE  /\ cmd[c].sends <= 2 * (cmd[c].attempt + 1)
               /\ cmd[c].kind = "service_request" /\ cmd[c].attempt = 1 /\ cmd[c].at \in {"send", "resolve", "resend"}
                      => c \in cmd[c].list.seen \/ cmd[c].list.slipped
    <3>1. Fits(c, cmd[c], marked) /\ cmd[c].sends \in 0..4 /\ cmd[c].attempt \in 0..1
      BY <1>1 DEF CommandsInv, Fitting, CommandsTypes, CommandState
    <3>2. cmd[c].sends <= 2 * (cmd[c].attempt + 1)
      BY <3>1 DEF Fits
    <3>3. QED
      BY <3>1, <3>2, Zenon DEF Fits, Sending
  <2>3. QED
    BY <2>1, <2>2, Zenon DEF RetryIsFresh
<1>2. QED
  BY <1>1, CommandsInvariant, PTL

(***************************************************************************)
(* No command waits for what does not come: each waiting get has a refresh *)
(* that has yet to report, each permit is free or with a worker, a queued  *)
(* command is in the queue once, and the controller's task is only taken   *)
(* by a command that still runs on it (dispatch_command, DhtCache::get).   *)
(***************************************************************************)
THEOREM NobodyWaits == CommandsSpec => []NobodyWaitsInVain
<1>1. ASSUME CommandsInv
      PROVE  NobodyWaitsInVain
  <2>1. ASSUME NEW c \in Command
        PROVE  Cardinality({i \in DOMAIN queue : queue[i] = c}) = (IF cmd[c].at = "queued" THEN 1 ELSE 0)
    <3> DEFINE S == {i \in DOMAIN queue : queue[i] = c}
    <3>1. Once(queue) /\ (cmd[c].at = "queued" <=> In(c, queue))
      BY <1>1 DEF CommandsInv, CommandsTypes, Turns
    <3>2. CASE cmd[c].at = "queued"
      <4>1. PICK n \in DOMAIN queue : queue[n] = c
        BY <3>1, <3>2, Zenon DEF In
      <4>2. S = {n}
        BY <3>1, <4>1 DEF Once
      <4>3. QED
        BY <3>2, <4>2, FS_Singleton, Zenon
    <3>3. CASE cmd[c].at # "queued"
      <4>1. S = {}
        BY <3>1, <3>3 DEF In
      <4>2. QED
        BY <3>3, <4>1, FS_EmptySet
    <3>4. QED
      BY <3>2, <3>3, Zenon
  <2>2. QED
    BY <1>1, <2>1, Zenon DEF CommandsInv, Permits, Turns, Awaited, Live, Idle, NobodyWaitsInVain
<1>2. QED
  BY <1>1, CommandsInvariant, PTL
=============================================================================
