------------------------------ MODULE MCReads ------------------------------
(***************************************************************************)
(* The DHT reads of a node: the read cache on its own, with its locks and  *)
(* its eviction, and the control commands, which have its slot for one key *)
(* in it.  The two models share no state and are explored side by side:    *)
(* focus names the one that moves.                                         *)
(***************************************************************************)
EXTENDS ControlCommands, DhtCache, TLC

VARIABLE focus

\* What differs for a key of the auth namespace is what a change invalidates.
MCKinds == [service |-> WorkerKinds \cup InlineKinds,
            auth |-> {"add_key", "provide_key", "remove_key", "refresh_cache", "reload_config"}]

\* Keys, tasks and values are interchangeable.
Symmetry == Permutations(Key) \cup Permutations(Task) \cup Permutations(Value)

MCInit ==
    /\ focus \in {"cache", "commands"}
    /\ Init /\ CommandsInit
    /\ focus = "cache" => namespace = "service" /\ limit = 1 /\ slot["record"].entry = {}

\* The commands only come to an end when all are answered.
AllAnswered == \A c \in Command : cmd[c].at = "done"

MCNext ==
    \/ focus = "cache" /\ Next /\ UNCHANGED <<focus, commandVars>>
    \/ /\ focus = "commands" /\ (CommandsNext \/ (AllAnswered /\ UNCHANGED commandVars))
       /\ UNCHANGED <<focus, vars>>

MCSpec == MCInit /\ [][MCNext]_<<focus, vars, commandVars>>
=============================================================================
