---------------------------- MODULE NodeIdentity ----------------------------
(***************************************************************************)
(* What a node promises about its identity, whatever happens to its        *)
(* process: there is one keypair, it is made at most once and never        *)
(* changes, and the node only ever runs under it.                          *)
(***************************************************************************)
CONSTANTS Key, NoKey

VARIABLES
    saved,         \* the keypair that survives the process
    running        \* the keypair the running process is known by

identityVars == <<saved, running>>

Init == saved = NoKey /\ running = NoKey

\* The first start makes the keypair and saves it before it is used.
Create == saved = NoKey /\ saved' \in Key /\ UNCHANGED running

Run == saved # NoKey /\ running' = saved /\ UNCHANGED saved

\* The process ends, by itself or not.
End == running' = NoKey /\ UNCHANGED saved

Spec == Init /\ [][Create \/ Run \/ End]_identityVars
=============================================================================
