------------------------- MODULE MCInboundPipeline -------------------------
(* An instance of InboundPipeline for TLC. *)
EXTENDS InboundPipeline

CONSTANTS r1, r2, r3

(***************************************************************************)
(* Bounds: a second request only comes where there is no command, and a    *)
(* third one only when the queue of the worker whose turn it is is full,   *)
(* the other worker being idle or not.                                     *)
(***************************************************************************)
Load ==
    /\ progress'[r2] # "new" => progress'[r1] # "new" /\ \A c \in Command : command'[c].place = "new"
    /\ progress'[r3] # "new" /\ progress[r3] = "new" =>
           progress[r2] # "new" /\ Len(auth_queue[auth_next]) = AuthQueueCapacity

MCSpec == PipelineInit /\ [][PipelineNext /\ Load]_pipelineVars /\ PipelineFairness
=============================================================================
