----------------------------- MODULE MCWSSession -----------------------------
(* A small instance of WSSession for TLC. *)
EXTENDS WSSession

(* At most one retry in a row. *)
OneRetry == {[on |-> TRUE,  forever |-> FALSE, maxRetries |-> 1]}

(* One error that is told to the client and one that is not. *)
Validation   == [kind |-> "validation",   status |-> 422]
Unregistered == [kind |-> "unregistered", status |-> 500]
TwoFailures  == {Validation, Unregistered}
OneFailure   == {Unregistered}
NoErrors     == {}

First == {1}
None  == {}
=============================================================================
