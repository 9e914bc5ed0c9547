--------------------------- MODULE MCInputContract ---------------------------
(* A small instance of InputContract for TLC. *)
EXTENDS InputContract

Shapes ==
  {<<"path", "scalar">>,
   <<"query", "scalar">>, <<"query", "pointer">>, <<"query", "slice">>,
   <<"header", "scalar">>, <<"header", "pointer">>, <<"header", "slice">>,
   <<"form", "scalar">>, <<"form", "pointer">>, <<"form", "file">>,
   <<"none", "scalar">>, <<"none", "pointer">>}

Field(shape, name, json, required) ==
  [tag |-> shape[1], kind |-> shape[2], name |-> name, json |-> json,
   required |-> required]

(* Two fields of any shapes.  The first is required or, in the body,       *)
(* perhaps hidden from encoding/json; the other has the same name or       *)
(* another, and is perhaps optional.  A name is declared once in a place.  *)
TwoFields ==
  {<<Field(s, "a", j, j \/ s[1] # "none"), Field(t, n, TRUE, r)>> :
     s \in Shapes, t \in Shapes, j \in BOOLEAN, n \in {"a", "b"}, r \in BOOLEAN}

Distinct == {s \in TwoFields : s[1].tag = s[2].tag => s[1].name # s[2].name}

TwoNames == {"a", "b"}
=============================================================================
