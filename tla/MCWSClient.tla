----------------------------- MODULE MCWSClient -----------------------------
(* Small instances of WSClient for TLC. *)
EXTENDS WSClient

(* reconnect: false, at most one retry, and the unlimited default. *)
AllOptions ==
    {[on |-> FALSE, forever |-> FALSE, maxRetries |-> 0],
     [on |-> TRUE,  forever |-> FALSE, maxRetries |-> 1],
     [on |-> TRUE,  forever |-> TRUE,  maxRetries |-> 0]}

(* Liveness needs a client that may give up. *)
FiniteOptions ==
    {[on |-> FALSE, forever |-> FALSE, maxRetries |-> 0],
     [on |-> TRUE,  forever |-> FALSE, maxRetries |-> 1],
     [on |-> TRUE,  forever |-> FALSE, maxRetries |-> 2]}
=============================================================================
