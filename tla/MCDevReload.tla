---------------------------- MODULE MCDevReload ----------------------------
(* A small instance of DevReload for TLC: sources that differ in each of    *)
(* the things a reload can tell apart.                                      *)
EXTENDS DevReload

ThreeSources == {[builds |-> TRUE,  openapi |-> 1, asyncapi |-> 0],
                 [builds |-> TRUE,  openapi |-> 2, asyncapi |-> 1],
                 [builds |-> FALSE, openapi |-> 1, asyncapi |-> 0]}

Both       == {"vite", "next"}
AnyPace    == BOOLEAN
=============================================================================
