---------------------------- MODULE MCNodeFiles ----------------------------
(***************************************************************************)
(* The log files and the start of a node, side by side.  The two share no  *)
(* variable and each has the death of the process as a step of its own, so *)
(* a behaviour of the node seen through the variables of one of them is a  *)
(* behaviour of that one: each is explored with the other at rest.         *)
(***************************************************************************)
EXTENDS LogRotation, NodeStart

CONSTANTS v4, v6, a1

VARIABLE focus

MCEditNet == {NoNet, [f \in Family |-> [enabled |-> TRUE, addr |-> a1]]}

vars == <<focus, logVars, startVars>>

Init == LogInit /\ StartInit /\ focus \in {"log", "start"} /\ (focus = "start" => replaces)

Next ==
    \/ focus = "log" /\ LogNext /\ UNCHANGED <<focus, startVars>>
    \/ focus = "start" /\ StartNext /\ UNCHANGED <<focus, logVars>>

\* A thread goes on with what it has begun; a node that is down is started
\* again, by its service manager or by the operator.
Spec ==
    /\ Init /\ [][Next]_vars
    /\ \A t \in Thread : /\ WF_vars(focus = "log" /\ Emit(t) /\ UNCHANGED <<focus, startVars>>)
                         /\ WF_vars(focus = "log" /\ Roll(t) /\ UNCHANGED <<focus, startVars>>)
    /\ WF_vars(focus = "start" /\ (Start \/ MainStep) /\ UNCHANGED <<focus, logVars>>)

\* Nothing stays blocked: ROLLING is released whatever becomes of a rotation
\* (RollingReleased), and whatever a crash or a failed write left behind, a
\* later start of main.rs brings the node up (NodeComesUp).
FilesRecover == RollingReleased /\ (focus = "start" => NodeComesUp)
=============================================================================
