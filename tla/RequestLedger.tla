---------------------------- MODULE RequestLedger ----------------------------
(* What a connection that carries several requests at a time promises its     *)
(* callers: a request that was taken is settled once, with its own answer or  *)
(* with an error, and settled it will be.                                     *)
(*                                                                            *)
(* CdpTransport and BrokerClient implement it.                                *)
CONSTANTS Requests

VARIABLES
    status,     \* per request: "new", "pending", "answered", "failed"
    answer      \* per request: the request whose answer it was given, or itself

lvars == <<status, answer>>

Init ==
    /\ status = [r \in Requests |-> "new"]
    /\ answer = [r \in Requests |-> r]

\* A request is taken, or refused at once.
Take(r) ==
    /\ status[r] = "new"
    /\ \E now \in {"pending", "failed"} : status' = [status EXCEPT ![r] = now]
    /\ UNCHANGED answer

\* Requests settle: one, or all those of a connection that is lost.
Settle(R) ==
    /\ R # {} /\ \A r \in R : status[r] = "pending"
    /\ \E how \in [R -> {"answered", "failed"}] :
         status' = [r \in Requests |-> IF r \in R THEN how[r] ELSE status[r]]
    /\ UNCHANGED answer

Next == (\E r \in Requests : Take(r)) \/ (\E R \in SUBSET Requests : Settle(R))

\* What it never does: settle a request that was not taken, or one twice, or with the
\* answer to another.
Safe == Init /\ [][Next]_lvars

Spec == Safe /\ \A r \in Requests : WF_lvars(Settle({r}))
=============================================================================
