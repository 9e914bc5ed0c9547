--------------------------- MODULE MCRouteRegistry ---------------------------
(* A small instance of RouteRegistry for TLC. *)
EXTENDS RouteRegistry
=============================================================================
