-------------------------- MODULE InboundService --------------------------
(***************************************************************************)
(* What the node promises about the requests that other peers send to its  *)
(* local services, whatever queues, workers and connections lie between:   *)
(* a request reaches a backend once at most, and only when it has been     *)
(* authorized; it succeeds only by the answer of that backend; it gets one *)
(* answer at most, and gets it, unless the node is closing down.           *)
(***************************************************************************)
CONSTANT Request

VARIABLES request, closing

Steps == {<<"new", "accepted">>, <<"accepted", "authorized">>, <<"authorized", "delivered">>,
          <<"delivered", "ok">>}
Refusals == {"new", "accepted", "authorized", "delivered"} \X {"error"}

Init == request = [r \in Request |-> "new"] /\ closing = FALSE

Advance(r) == \E step \in Steps : request[r] = step[1] /\ request' = [request EXCEPT ![r] = step[2]]

\* Several requests may fail at once, with a connection or a queue.
Refuse(R) ==
    /\ \A r \in R : <<request[r], "error">> \in Refusals
    /\ request' = [r \in Request |-> IF r \in R THEN "error" ELSE request[r]]

Close == ~closing /\ closing' = TRUE /\ UNCHANGED request

Next ==
    \/ (\E r \in Request : Advance(r)) /\ UNCHANGED closing
    \/ (\E R \in SUBSET Request : Refuse(R)) /\ UNCHANGED closing
    \/ Close

Answered == \A r \in Request : request[r] # "new" ~> request[r] \in {"ok", "error"} \/ closing

Spec == Init /\ [][Next]_<<request, closing>> /\ Answered

===========================================================================
