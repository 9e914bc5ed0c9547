----------------------------- MODULE MCWSServer -----------------------------
(* A small instance of WSServer for TLC: one connection (connections share  *)
(* nothing), one error type with a status of its own and one with 500.      *)
EXTENDS WSServer

OneConn == {1}
Validation   == [kind |-> "validation",   status |-> 422]
Unregistered == [kind |-> "unregistered", status |-> 500]
AllFailures  == {Validation, Unregistered,
                 [kind |-> "registered", status |-> 401],
                 [kind |-> "registered", status |-> 500]}
AllInputErrors == {Validation, Unregistered, [kind |-> "badRequest", status |-> 400]}
=============================================================================
