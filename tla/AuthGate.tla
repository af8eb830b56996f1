------------------------------ MODULE AuthGate ------------------------------
(***************************************************************************)
(* authorize() of src/src/controller/auth_gate.rs, run by several auth     *)
(* workers at once, with the version floors of src/src/auth.rs.            *)
(*                                                                         *)
(* The two DHT caches are used through what DhtCache promises: a get       *)
(* returns the cached entry, or waits for one or for an error; a refresh   *)
(* may end at any time and never replaces a version by an older one.  The  *)
(* DHT may answer with any selection of the documents the authority signed *)
(* and of records that do not verify.  A running node never changes its    *)
(* configuration, so the state it resolves is fixed.                       *)
(***************************************************************************)
EXTENDS Integers, Sequences, Functions

CONSTANTS
    Worker,      \* AUTH_WORKERS
    Peer,
    ServiceName,
    Protected,   \* the services with require_auth
    Index,       \* the signed index documents
    Whitelist,   \* the signed whitelists: content hash -> [version, members]
    MaxRecords,  \* bound: records in one DHT answer
    MaxTime      \* bound of the clock

Nothing == "none"
Invalid == [version |-> -1, expires_at |-> -1, services |-> [s \in ServiceName |-> Nothing]]

ASSUME AuthAssumption ==
    /\ Protected \subseteq ServiceName
    /\ Index \subseteq [version : Nat, expires_at : Nat, services : [ServiceName -> DOMAIN Whitelist \cup {Nothing}]]
    /\ \A h \in DOMAIN Whitelist : Whitelist[h] \in [version : Nat, members : SUBSET Peer]
    /\ MaxRecords \in Nat /\ MaxTime \in Nat
    /\ {"missing", "absent", Nothing} \cap DOMAIN Whitelist = {}

VARIABLES
    state,       \* AuthState, resolved from the configuration
    index,       \* the index cache: at most the document, or that there is none
    whitelist,   \* the whitelist cache: content by key
    versions,    \* AuthVersions
    now,
    worker,
    clearing,    \* between the two halves of invalidate_all
    used         \* history: the newest index version a finished request used

gateVars == <<state, index, whitelist, versions, now, worker, clearing, used>>

Absent == [kind |-> "absent", doc |-> Invalid]
Missing == [kind |-> "missing", doc |-> Invalid]
Conflict == [kind |-> "error", doc |-> Invalid]
Found(doc) == [kind |-> "found", doc |-> doc]
NoVersions == [index |-> -1, whitelists |-> [s \in ServiceName |-> -1]]

IdleWorker == [pc |-> "idle", peer |-> Nothing, service |-> Nothing, doc |-> Invalid, list |-> Nothing,
               decision |-> Nothing, floor |-> -1, began |-> 0]

-----------------------------------------------------------------------------
(* Documents                                                               *)

\* verify_index: the record is signed, well formed and not expired.
verify_index(doc, time) == doc # Invalid /\ time <= doc.expires_at

\* The mutant takes the last valid record.
SelectLast(records, time) ==
    LET valid == SelectSeq(records, LAMBDA doc : verify_index(doc, time))
    IN  IF valid = <<>> THEN Missing ELSE Found(valid[Len(valid)])

\* select_index, its loop: what leads after one more record.  Two contents of
\* the version that leads when the second one is met are an error.
NextLeader(leader, doc, time) ==
    IF leader.kind = "error" \/ ~verify_index(doc, time) THEN leader
    ELSE IF leader.kind = "missing" \/ doc.version > leader.doc.version THEN Found(doc)
    ELSE IF doc.version = leader.doc.version /\ doc # leader.doc THEN Conflict
    ELSE leader

\* select_index: the newest valid document.
select_index(records, time) ==
    LET best[n \in 0..Len(records)] ==
            IF n = 0 THEN Missing ELSE NextLeader(best[n - 1], records[n], time)
    IN  best[Len(records)]

Records == UNION {[1..n -> Index \cup {Invalid}] : n \in 0..MaxRecords}

\* The answers of the DHT at a time: the documents in them that verify, and
\* what the fetcher makes of it.
Answers ==
    [time \in 0..MaxTime |->
        {[valid |-> {doc \in Range(records) : verify_index(doc, time)},
          result |-> select_index(records, time)] : records \in Records}]

\* The mutant compares the keys of the whitelist cache by service only.
KeyOfService(s, doc) == <<s, Nothing, 0>>

\* WhitelistKey: the service with what binds the list to the index.
WhitelistKey(s, doc) == <<s, doc.services[s], doc.expires_at>>

-----------------------------------------------------------------------------
(* The caches                                                              *)

\* A refresh of the index ends, after AuthIndexFetcher and DhtCache::store.
RefreshIndex ==
    /\ state = "active"
    /\ \E result \in {answer.result : answer \in Answers[now]} :
          index' = IF result = Conflict THEN index
                   ELSE IF /\ result # Missing /\ index.kind = "found"
                           /\ index.doc.version >= result.doc.version
                        THEN index ELSE result
    /\ UNCHANGED <<state, whitelist, versions, now, worker, clearing, used>>

\* A refresh of a whitelist ends: verify_whitelist compares the length and the
\* hash of a record with those the index gives, and the key holds the hash, so
\* that select_whitelist finds the very list that this index names or none.
RefreshWhitelist(s, doc) ==
    /\ state = "active" /\ doc.services[s] # Nothing
    /\ \E list \in {doc.services[s], "missing"} :
          whitelist' = [key \in DOMAIN whitelist \cup {WhitelistKey(s, doc)} |->
                           IF key = WhitelistKey(s, doc) THEN list ELSE whitelist[key]]
    /\ UNCHANGED <<state, index, versions, now, worker, clearing, used>>

\* invalidate_all, called by commands and by a reload; its two halves.
invalidate_all ==
    /\ state = "active" /\ ~clearing
    /\ index' = Absent
    /\ clearing' = TRUE
    /\ UNCHANGED <<state, whitelist, versions, now, worker, used>>

InvalidateWhitelists ==
    /\ clearing
    /\ whitelist' = <<>>
    /\ clearing' = FALSE
    /\ UNCHANGED <<state, index, versions, now, worker, used>>

\* reload() finds the same configuration: only Misconfigured differs from itself.
same_trust_domain == state # "misconfigured"
reload ==
    /\ versions' = IF same_trust_domain THEN versions ELSE NoVersions
    /\ UNCHANGED <<state, index, whitelist, now, worker, clearing, used>>

-----------------------------------------------------------------------------
(* authorize                                                               *)

Pass(w, decision) == worker' = [worker EXCEPT ![w].pc = "decided", ![w].decision = decision]
Deny(w) == worker' = [worker EXCEPT ![w] = [IdleWorker EXCEPT !.pc = "decided", !.decision = "deny"]]

\* Up to the first cache read.
Authorize(w, p, s) ==
    /\ worker[w].pc = "idle"
    /\ \/ state = "misconfigured" /\ Deny(w)
       \/ /\ state # "misconfigured"
          /\ \E open \in {state = "disabled" \/ s \notin Protected} :
                worker' = [worker EXCEPT ![w] =
                    [IdleWorker EXCEPT !.pc = IF open THEN "decided" ELSE "index",
                                 !.decision = IF open THEN "allow" ELSE Nothing,
                                 !.peer = p, !.service = s, !.floor = used, !.began = now]]
    /\ UNCHANGED <<state, index, whitelist, versions, now, clearing, used>>

\* The index cache is cold: the worker waits for a refresh.
IndexWait(w) ==
    /\ worker[w].pc = "index" /\ index = Absent
    /\ worker' = [worker EXCEPT ![w].pc = "index_wait"]
    /\ UNCHANGED <<state, index, whitelist, versions, now, clearing, used>>

\* That refresh fails or is voided; the cache may have an entry by now.
IndexFails(w) ==
    /\ worker[w].pc = "index_wait"
    /\ Deny(w)
    /\ UNCHANGED <<state, index, whitelist, versions, now, clearing, used>>

\* The mutant forgets that a cached document may have expired since.
IndexReadOnly(w) ==
    /\ worker[w].pc \in {"index", "index_wait"} /\ index # Absent
    /\ IF index = Missing THEN Deny(w)
       ELSE worker' = [worker EXCEPT ![w].pc = "check_index", ![w].doc = index.doc]
    /\ UNCHANGED <<state, index, whitelist, versions, now, clearing, used>>

\* The index cache has an entry, at once or after a refresh.
IndexRead(w) ==
    /\ worker[w].pc \in {"index", "index_wait"} /\ index # Absent
    /\ IF index = Missing \/ now > index.doc.expires_at THEN Deny(w)
       ELSE worker' = [worker EXCEPT ![w].pc = "check_index", ![w].doc = index.doc]
    /\ UNCHANGED <<state, index, whitelist, versions, now, clearing, used>>

\* The steps of check_index for a version that is accepted.
AcceptIndex(w, floor) ==
    /\ versions' = [versions EXCEPT !.index = floor]
    /\ IF worker[w].doc.services[worker[w].service] = Nothing THEN Pass(w, "unprotected")
       ELSE worker' = [worker EXCEPT ![w].pc = "whitelist"]
    /\ UNCHANGED index

\* The mutant records the version without a comparison.
CheckIndexUnguarded(w) ==
    /\ worker[w].pc = "check_index"
    /\ AcceptIndex(w, worker[w].doc.version)
    /\ UNCHANGED <<state, whitelist, now, clearing, used>>

\* check_index, and the entry of the service.
CheckIndex(w) ==
    /\ worker[w].pc = "check_index"
    /\ \/ /\ worker[w].doc.version < versions.index
          /\ index' = Absent
          /\ Deny(w)
          /\ UNCHANGED versions
       \/ /\ worker[w].doc.version >= versions.index
          /\ AcceptIndex(w, worker[w].doc.version)
    /\ UNCHANGED <<state, whitelist, now, clearing, used>>

\* The whitelist cache is cold for the key.
WhitelistWait(w) ==
    /\ worker[w].pc = "whitelist"
    /\ WhitelistKey(worker[w].service, worker[w].doc) \notin DOMAIN whitelist
    /\ worker' = [worker EXCEPT ![w].pc = "whitelist_wait"]
    /\ UNCHANGED <<state, index, whitelist, versions, now, clearing, used>>

WhitelistFails(w) ==
    /\ worker[w].pc = "whitelist_wait"
    /\ Deny(w)
    /\ UNCHANGED <<state, index, whitelist, versions, now, clearing, used>>

WhitelistRead(w) ==
    LET key == WhitelistKey(worker[w].service, worker[w].doc)
    IN  /\ worker[w].pc \in {"whitelist", "whitelist_wait"} /\ key \in DOMAIN whitelist
        /\ IF whitelist[key] = "missing" THEN Deny(w)
           ELSE worker' = [worker EXCEPT ![w].pc = "check_whitelist", ![w].list = whitelist[key]]
        /\ UNCHANGED <<state, index, whitelist, versions, now, clearing, used>>

\* check_whitelist, and the verdict.
CheckWhitelist(w) ==
    LET s == worker[w].service
        list == Whitelist[worker[w].list]
        key == WhitelistKey(s, worker[w].doc)
    IN  /\ worker[w].pc = "check_whitelist"
        /\ \/ /\ list.version < versions.whitelists[s]
              /\ whitelist' = [k \in DOMAIN whitelist \ {key} |-> whitelist[k]]
              /\ Deny(w)
              /\ UNCHANGED versions
           \/ /\ list.version >= versions.whitelists[s]
              /\ versions' = [versions EXCEPT !.whitelists[s] = list.version]
              /\ IF worker[w].peer \in list.members THEN Pass(w, "allow") ELSE Deny(w)
              /\ UNCHANGED whitelist
        /\ UNCHANGED <<state, index, now, clearing, used>>

\* auth_worker acts on the decision and turns to its next job.
Finish(w) ==
    /\ worker[w].pc = "decided"
    /\ worker' = [worker EXCEPT ![w] = IdleWorker]
    /\ used' = IF worker[w].doc.version > used
               THEN worker[w].doc.version ELSE used
    /\ UNCHANGED <<state, index, whitelist, versions, now, clearing>>

Tick ==
    /\ now < MaxTime
    /\ now' = now + 1
    /\ UNCHANGED <<state, index, whitelist, versions, worker, clearing, used>>

-----------------------------------------------------------------------------

GateInit ==
    /\ state \in {"disabled", "active", "misconfigured"}
    /\ index = Absent /\ whitelist = <<>>
    /\ versions = NoVersions
    /\ now = 0 /\ clearing = FALSE /\ used = -1
    /\ worker = [w \in Worker |-> IdleWorker]

GateNext ==
    \/ RefreshIndex \/ invalidate_all \/ InvalidateWhitelists \/ reload \/ Tick
    \/ \E s \in ServiceName, doc \in Index : RefreshWhitelist(s, doc)
    \/ \E w \in Worker :
          \/ \E p \in Peer, s \in ServiceName : Authorize(w, p, s)
          \/ IndexWait(w) \/ IndexFails(w) \/ IndexRead(w) \/ CheckIndex(w)
          \/ WhitelistWait(w) \/ WhitelistFails(w) \/ WhitelistRead(w) \/ CheckWhitelist(w)
          \/ Finish(w)

GateSpec == GateInit /\ [][GateNext]_gateVars

-----------------------------------------------------------------------------
(* Properties                                                              *)

Passed(w) == worker[w].pc = "decided" /\ worker[w].decision # "deny"
Checked(w) == state = "active" /\ worker[w].service \in Protected

(***************************************************************************)
(* auth.rs: "lower versions are rejected (process lifetime only)".  Once a *)
(* request has passed on an index version, no request that begins later    *)
(* passes on an older one, whatever the caches forget or the DHT replays.  *)
(***************************************************************************)
NoRollback == \A w \in Worker : Passed(w) /\ Checked(w) => worker[w].doc.version >= worker[w].floor

(***************************************************************************)
(* auth.rs: the index names each whitelist by hash and length.  A request  *)
(* that is allowed is allowed by the very list that the index it was       *)
(* checked against names, even if another worker has moved on meanwhile.   *)
(***************************************************************************)
AllowedByTheIndexedList ==
    \A w \in Worker :
        Passed(w) /\ Checked(w) =>
            LET h == worker[w].doc.services[worker[w].service]
            IN  IF h = Nothing THEN worker[w].decision = "unprotected"
                ELSE worker[w].decision = "allow" /\ worker[w].peer \in Whitelist[h].members

(***************************************************************************)
(* "Expired documents are still rejected": no request passes on an index   *)
(* that had expired when the request began, although cached documents are  *)
(* served without limit.                                                   *)
(***************************************************************************)
ExpiredIsRejected ==
    \A w \in Worker : Passed(w) /\ Checked(w) => worker[w].began <= worker[w].doc.expires_at

(***************************************************************************)
(* What select_index accepts out of any answer is a newest valid document, *)
(* and no other valid one of the answer has its version.                   *)
(***************************************************************************)
SelectsTheNewest ==
    \A answer \in Answers[now] :
        LET result == answer.result
        IN  /\ result = Missing <=> answer.valid = {}
            /\ result.kind = "found" =>
                  /\ result.doc \in answer.valid
                  /\ \A doc \in answer.valid \ {result.doc} : doc.version < result.doc.version
            /\ result = Conflict =>
                  \E a, b \in answer.valid : a # b /\ a.version = b.version
=============================================================================
