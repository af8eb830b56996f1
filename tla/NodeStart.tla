----------------------------- MODULE NodeStart -----------------------------
(***************************************************************************)
(* The start of a node and the files it depends on: config.toml with its   *)
(* backups (src/src/config.rs), keypair.bin and keypair.pq.bin             *)
(* (src/src/network/identity.rs), the public addresses probed at start     *)
(* (src/src/network/addr.rs) and the order main.rs does this in, while the *)
(* operator edits the file, file operations fail and the process dies.     *)
(*                                                                         *)
(* A write through a temporary file and a rename is one step: a process    *)
(* that dies in between leaves a temporary file no code reads.  Only       *)
(* fs::write of the default configuration can be seen half done.           *)
(***************************************************************************)
EXTENDS Integers, FiniteSets

CONSTANTS
    Edit,          \* the configurations the operator writes, by name
    EditNet,       \* the network sections in them
    Default,       \* the configuration the node writes itself
    Family,        \* the address families
    Addr, NoAddr,  \* public addresses of the host, and none
    Key, NoKey,    \* key material, and none
    MaxBreaks      \* bound: file operations that fail, crashes of the process

ASSUME StartAssumption ==
    MaxBreaks \in Nat /\ Default \notin Edit /\ NoAddr \notin Addr /\ NoKey \notin Key

VARIABLES
    phase,         \* how far main has come
    config,        \* config.toml
    backups,       \* the contents of config.bak, config.bak.1, ...
    cfg,           \* the NodeConfig behind ConfigHandle
    key, pq,       \* keypair.bin and keypair.pq.bin
    peer, pq_keys, \* the keypair and the PQ keys of KeyManager
    host,          \* the first public address of each family
    owed,          \* history: edits the operator has not replaced
    raced,         \* history: edits made over the head of a running process
    breaks         \* bound

diskVars == <<config, backups, key, pq>>
memVars == <<cfg, peer, pq_keys>>
startVars == <<phase, diskVars, memVars, host, owed, raced, breaks>>

Phase == {"down", "load", "complete", "backup", "default", "torn", "key", "pq_load", "pq", "address",
          "network", "running"}
Net == [Family -> [enabled: BOOLEAN, addr: Addr \cup {NoAddr}]]

ASSUME EditNetAssumption == EditNet \subseteq Net

NoNet == [f \in Family |-> [enabled |-> FALSE, addr |-> NoAddr]]

\* form is what from_toml_file finds: no file, bytes that are not UTF-8, text
\* that does not parse, a configuration validate rejects, one with keys
\* missing, a complete one.
Form == {"absent", "unreadable", "corrupt", "invalid", "partial", "full"}
Text(form, edit, net) == [form |-> form, edit |-> edit, net |-> net]
NoCfg == [edit |-> Default, net |-> NoNet]

StartInit ==
    /\ phase = "down" /\ config = Text("absent", Default, NoNet) /\ backups = {} /\ cfg = NoCfg
    /\ key = NoKey /\ pq = NoKey /\ peer = NoKey /\ pq_keys = NoKey
    /\ host = [f \in Family |-> NoAddr] /\ owed = {} /\ raced = {} /\ breaks = 0

Break == breaks < MaxBreaks /\ breaks' = breaks + 1
Works == UNCHANGED breaks

\* The process ends: what it held in memory is gone, and an edit that is in
\* the file now is what the next start reads.
Ends == /\ phase' = "down" /\ cfg' = NoCfg /\ peer' = NoKey /\ pq_keys' = NoKey
        /\ raced' = raced \ {config.edit}
Goes(next) == phase' = next /\ UNCHANGED raced

\* std::process::exit or an error returned by main, after a failed operation.
Exits == Break /\ Ends /\ UNCHANGED <<diskVars, host, owed>>

-----------------------------------------------------------------------------
(* The operator and the host                                               *)

\* Only a text that yields a configuration has a network section.
OperatorEdits(e, form, net) ==
    /\ e \in Edit /\ \A x \in owed \cup backups \cup {config.edit, cfg.edit} : x # e
    /\ config' = Text(form, e, IF form \in {"partial", "full"} THEN net ELSE NoNet)
    /\ owed' = (owed \ {config.edit}) \cup {e}
    /\ raced' = IF phase = "down" THEN raced \ {e} ELSE raced \cup {e}
    /\ UNCHANGED <<phase, backups, key, pq, memVars, host, breaks>>

\* The host gets or loses an address: in the middle of a start too, as often
\* as something else may go wrong there.
HostMoves(f, a) ==
    /\ host[f] # a
    /\ host' = [host EXCEPT ![f] = a]
    /\ IF phase \in {"down", "running"} THEN Works ELSE Break
    /\ UNCHANGED <<phase, diskVars, memVars, owed, raced>>

Start ==
    /\ phase = "down" /\ Goes("load")
    /\ UNCHANGED <<diskVars, memVars, host, owed, breaks>>

-----------------------------------------------------------------------------
(* ConfigHandle::load_or_create_default                                    *)

\* The mutant gives up on a text it cannot parse.
LoadRejectsCorrupt ==
    /\ phase = "load" /\ Works /\ UNCHANGED <<diskVars, peer, pq_keys, host, owed>>
    /\ \/ config.form \in {"partial", "full"} /\ cfg' = [edit |-> config.edit, net |-> config.net]
          /\ Goes(IF config.form = "partial" THEN "complete" ELSE "key")
       \/ config.form = "absent" /\ Goes("default") /\ UNCHANGED cfg
       \/ config.form \in {"unreadable", "corrupt", "invalid"} /\ phase' = "down" /\ cfg' = NoCfg /\ raced' = raced \ {config.edit}

from_toml_file ==
    /\ phase = "load"
    /\ \/ /\ config.form \in {"partial", "full"} /\ Works
          /\ cfg' = [edit |-> config.edit, net |-> config.net]
          /\ Goes(IF config.form = "partial" THEN "complete" ELSE "key")
          /\ UNCHANGED <<diskVars, peer, pq_keys, host, owed>>
       \/ /\ config.form = "corrupt" /\ Works /\ Goes("backup")
          /\ UNCHANGED <<diskVars, memVars, host, owed>>
       \/ /\ config.form = "absent" /\ Works /\ Goes("default")
          /\ UNCHANGED <<diskVars, memVars, host, owed>>
       \/ /\ config.form \in {"unreadable", "invalid"} /\ Works /\ Ends
          /\ UNCHANGED <<diskVars, host, owed>>
       \/ Exits

\* write_atomic_or_exit of what complete_missing_fields returns.
complete_missing_fields ==
    /\ phase = "complete"
    /\ \/ /\ config' = Text("full", cfg.edit, cfg.net) /\ Works /\ Goes("key")
          /\ UNCHANGED <<backups, key, pq, memVars, host, owed>>
       \/ Exits

\* The mutant renames over an earlier backup.
RenameOverBackup ==
    /\ phase = "backup"
    /\ backups' = {config.edit} /\ config' = Text("absent", Default, NoNet) /\ Works /\ Goes("default")
    /\ UNCHANGED <<key, pq, memVars, host, owed>>

\* A fresh name is taken, so every earlier backup stays.
rename_bad_config ==
    /\ phase = "backup"
    /\ \/ /\ backups' = backups \cup {config.edit} /\ config' = Text("absent", Default, NoNet)
          /\ Works /\ Goes("default")
          /\ UNCHANGED <<key, pq, memVars, host, owed>>
       \/ Exits

\* fs::write truncates or creates the file, then fills it.  A prefix of the
\* default text may parse, and every prefix that parses passes validate; it is
\* no UTF-8 when it ends inside a character of default_name or
\* default_description.
default_open ==
    /\ phase = "default"
    /\ \/ /\ \E form \in {"unreadable", "corrupt", "partial"} : config' = Text(form, Default, NoNet)
          /\ Works /\ Goes("torn")
          /\ UNCHANGED <<backups, key, pq, memVars, host, owed>>
       \/ Exits

default_write ==
    /\ phase = "torn"
    /\ \/ /\ config' = Text("full", Default, NoNet) /\ cfg' = NoCfg /\ Works /\ Goes("key")
          /\ UNCHANGED <<backups, key, pq, peer, pq_keys, host, owed>>
       \/ Exits

-----------------------------------------------------------------------------
(* KeyManager                                                              *)

\* The mutant makes a new keypair whenever the file cannot be read.
LoadOrReplace ==
    /\ phase = "key" /\ Goes("pq_load")
    /\ \/ key # NoKey /\ peer' = key /\ Works /\ UNCHANGED key
       \/ (IF key = NoKey THEN Works ELSE Break) /\ (\E k \in Key : key' = k /\ peer' = k)
    /\ UNCHANGED <<config, backups, pq, cfg, pq_keys, host, owed>>

load_or_create ==
    /\ phase = "key"
    /\ \/ /\ Works /\ Goes("pq_load")
          /\ \/ key # NoKey /\ peer' = key /\ UNCHANGED key
             \/ key = NoKey /\ \E k \in Key : key' = k /\ peer' = k
          /\ UNCHANGED <<config, backups, pq, cfg, pq_keys, host, owed>>
       \/ Exits

\* A file that cannot be read or parsed counts as missing.
load_pq_keys ==
    /\ phase = "pq_load" /\ Goes("pq")
    /\ \/ pq_keys' = pq /\ Works
       \/ pq_keys' = NoKey /\ Break
    /\ UNCHANGED <<diskVars, cfg, peer, host, owed>>

\* The mutant uses the keys although they could not be saved.
EnsureUnsaved ==
    /\ phase = "pq" /\ Goes("address")
    /\ \/ UNCHANGED <<pq, pq_keys>> /\ Works
       \/ pq_keys = NoKey /\ (\E k \in Key : pq_keys' = k /\ ((pq' = k /\ Works) \/ (UNCHANGED pq /\ Break)))
    /\ UNCHANGED <<config, backups, key, cfg, peer, host, owed>>

\* Nothing to do with keys loaded or with PQ off in the configuration; a
\* failure to save is only logged.
ensure_pq_keys ==
    /\ phase = "pq" /\ Goes("address")
    /\ \/ UNCHANGED <<pq, pq_keys>> /\ Works
       \/ pq_keys = NoKey /\ (\E k \in Key : pq' = k /\ pq_keys' = k) /\ Works
       \/ pq_keys = NoKey /\ Break /\ UNCHANGED <<pq, pq_keys>>
    /\ UNCHANGED <<config, backups, key, cfg, peer, host, owed>>

-----------------------------------------------------------------------------
(* update_config_with_public_ip and the rest of main                       *)

\* The addresses of the configuration after the probe.  Without a public
\* address the old ones are cleared and the enabled flags kept.
Probed(net) ==
    IF \A f \in Family : host[f] = NoAddr THEN [f \in Family |-> [net[f] EXCEPT !.addr = NoAddr]]
    ELSE IF \A f \in Family : net[f].addr = host[f] THEN net
    ELSE [f \in Family |-> [enabled |-> host[f] # NoAddr, addr |-> host[f]]]

\* Only a change is saved.
update_config_with_public_ip ==
    /\ phase = "address"
    /\ \/ /\ Works /\ Goes("network")
          /\ cfg' = [cfg EXCEPT !.net = Probed(@)]
          /\ config' = IF Probed(cfg.net) # cfg.net THEN Text("full", cfg.edit, Probed(cfg.net)) ELSE config
          /\ UNCHANGED <<backups, key, pq, peer, pq_keys, host, owed>>
       \/ Probed(cfg.net) # cfg.net /\ Exits

\* Network::start; build_swarm binds the configured addresses.
CanBind == \A f \in Family : cfg.net[f].enabled => cfg.net[f].addr \in {NoAddr, host[f]}

NetworkStart ==
    /\ phase = "network"
    /\ \/ CanBind /\ Works /\ Goes("running") /\ UNCHANGED <<diskVars, memVars, host, owed>>
       \/ ~CanBind /\ Works /\ Ends /\ UNCHANGED <<diskVars, host, owed>>
       \/ Exits

\* BootstrapDiscovery::on_identify adds nodes and saves the whole
\* configuration from memory, whatever the file holds by now.  An edit stands
\* for the values it gives to the keys the node knows: comments and unknown
\* keys, which a completion keeps and a save drops, are left out.
save_to_default ==
    /\ phase = "running"
    /\ \/ /\ config' = Text("full", cfg.edit, cfg.net) /\ Works
          /\ UNCHANGED <<phase, backups, key, pq, memVars, host, owed, raced>>
       \/ Exits

\* A signal ends the node; the process may also die anywhere.
Stop == phase = "running" /\ Works /\ Ends /\ UNCHANGED <<diskVars, host, owed>>
Crash == phase # "down" /\ Exits

MainStep ==
    \/ from_toml_file \/ complete_missing_fields \/ rename_bad_config \/ default_open \/ default_write
    \/ load_or_create \/ load_pq_keys \/ ensure_pq_keys \/ update_config_with_public_ip \/ NetworkStart

StartNext ==
    \/ Start \/ MainStep \/ save_to_default \/ Stop \/ Crash
    \/ \E e \in Edit, form \in Form \ {"absent"}, net \in EditNet : OperatorEdits(e, form, net)
    \/ \E f \in Family, a \in Addr \cup {NoAddr} : HostMoves(f, a)

StartSpec == StartInit /\ [][StartNext]_startVars

-----------------------------------------------------------------------------
(* What a start promises                                                   *)

\* A configuration the operator wrote, that is the values it gives to the keys
\* the node knows, is in config.toml or in a backup until the operator replaces it, through every completion, address update, save,
\* failed start and crash; the exception is an edit made while the process
\* was up, which a save of the older configuration in memory may overwrite.
EditsKept == owed \ raced \subseteq backups \cup {config.edit}

\* A running node is what its files say, so that a restart changes nothing:
\* its keypair and its PQ keys are the saved ones, and the file holds the
\* configuration in memory unless the operator edited it since.
RunsAsSaved ==
    /\ phase \in {"pq_load", "pq", "address", "network", "running"} => peer = key /\ peer # NoKey
    /\ phase \in {"address", "network", "running"} => pq_keys \in {NoKey, pq}
    /\ phase \in {"network", "running"} /\ config.edit \notin raced =>
           config.form = "full" /\ config.edit = cfg.edit /\ config.net = cfg.net

\* Whatever a crash, a failed write or a moving host left behind, a later start
\* brings the node up.  Two files keep it down: an operator's configuration
\* that fails validation, and one that is not UTF-8, which the node does not
\* replace even when its own torn write of the default left it.
NodeComesUp == []<>(phase = "running" \/ config.form \in {"invalid", "unreadable"})

\* The node keeps one identity (NodeIdentity).
Identity == INSTANCE NodeIdentity WITH saved <- key, running <- IF phase = "running" THEN peer ELSE NoKey
IdentityKept == Identity!Spec
=============================================================================
