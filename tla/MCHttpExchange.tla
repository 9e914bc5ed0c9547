--------------------------- MODULE MCHttpExchange ---------------------------
(* A small instance of HttpExchange for TLC. *)
EXTENDS HttpExchange

A404 == [typ |-> "A", status |-> 404]
A409 == [typ |-> "A", status |-> 409]
B409 == [typ |-> "B", status |-> 409]
B422 == [typ |-> "B", status |-> 422]
Code409 == [typ |-> "Code", status |-> 409]
Bad418 == [typ |-> "InvalidValidationError", status |-> 418]

Optional == [name |-> "Etag", header |-> TRUE, pointer |-> TRUE]
Mandatory == [name |-> "Location", header |-> TRUE, pointer |-> FALSE]
Content == [name |-> "content", header |-> FALSE, pointer |-> FALSE]

(* Every kind of route; errors declared once, twice, with one status, and  *)
(* with a status of the framework, a string type, and the validator's own; *)
(* static headers that are also fields of the response, or are not.        *)
AllRoutes ==
  {r \in [kind : {"json", "raw", "sse"}, status : {200, 204, 304},
          errors : {<<>>, <<A404>>, <<A404, B409>>, <<A409, B409>>,
                    <<A404, A409>>, <<B422>>, <<A409, Code409>>, <<Bad418>>},
          static : {{}, {"Etag"}},
          out : SUBSET {Optional, Mandatory, Content}] :
     r.kind # "json" => r.status = 200 /\ r.out = {} /\ Len(r.errors) # 1}

(* Errors of no declared type ("E"), of one, wrapped and joined.           *)
Err(typ, inner) == [typ |-> typ, inner |-> inner]
Invalid == Err("ValidationError", <<>>)
A == Err("A", <<>>)
B == Err("B", <<>>)
E == Err("E", <<>>)
JoinEA == Err("join", <<E, A>>)

StructTypes == {"A", "B", "E", "ValidationError", "InvalidValidationError"}

SomeErrors ==
  {A, B, E, Err("Code", <<>>), NotAStruct, Invalid, JoinEA, Err("E", <<A>>), Err("B", <<A>>), Err("E", <<Invalid>>),
   Err("join", <<JoinEA, B>>), Err("join", <<A, Invalid>>)}
=============================================================================
