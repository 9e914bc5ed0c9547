---------------------------- MODULE MCApiDocument ----------------------------
(* A small instance of ApiDocument for TLC: types that share a name or are  *)
(* used in two ways, errors that share a status, and envelopes whose names  *)
(* could be taken for each other's.                                         *)
EXTENDS ApiDocument

User    == Object(<<"User">>, {"json", "param", "header"}, {<<"Address">>})
Chat    == Object(<<"Chat">>, {"json"}, {})
OldChat == Object(<<"Chat">>, {"json", "param"}, {})    \* of another package
BC      == Object(<<"b", "c">>, {"json"}, {})
C       == Object(<<"c">>, {"json"}, {})
Empty   == Object(<<>>, {}, {})
Text    == [shape |-> "scalar", name |-> <<>>, fields |-> {}, nested |-> {}]
List(T) == [shape |-> "list", name |-> <<>>, fields |-> {}, nested |-> {T.name}, elem |-> T]

Missing  == Object(<<"Missing">>, {"json"}, {})
Gone     == Object(<<"Gone">>, {"json"}, {})
Invalid  == Object(<<"Invalid">>, {"json"}, {})
Busy     == [shape |-> "scalar", name |-> <<"Busy">>, fields |-> {}, nested |-> {}]

Errors == << [status |-> 404, type |-> Missing], [status |-> 404, type |-> Gone],
             [status |-> 422, type |-> Invalid], [status |-> 429, type |-> Busy],
             [status |-> 404, type |-> Missing] >>

Plain == [kind |-> "handle", method |-> "GET", path |-> "/x", status |-> 200,
          custom |-> FALSE, body |-> {}, shows |-> <<Empty>>, sends |-> <<>>,
          receives |-> <<>>]

Message(m, T) == [message |-> <<m>>, type |-> T]

GetUser    == [Plain EXCEPT !.shows = <<User>>]
PostUser   == [Plain EXCEPT !.method = "POST", !.body = {User}, !.shows = <<List(Chat)>>]
Reset      == [Plain EXCEPT !.method = "PUT", !.status = 204, !.body = {Empty}]
Export     == [Plain EXCEPT !.kind = "raw", !.custom = TRUE, !.status = 404, !.shows = <<User>>]
Raw        == [Plain EXCEPT !.kind = "raw", !.shows = <<List(User)>>]
Events     == [Plain EXCEPT !.kind = "sse", !.custom = TRUE, !.shows = <<>>,
                            !.sends = <<Message("chat", Chat), Message("b", List(C))>>]
Socket     == [Plain EXCEPT !.kind = "ws", !.shows = <<>>,
                            !.sends = <<Message("chat", Chat), Message("a", BC)>>,
                            !.receives = <<Message("chat", C)>>]
OtherSocket == [Socket EXCEPT !.path = "/y",
                              !.sends = <<[message |-> <<"a", "b">>, type |-> C]>>,
                              !.receives = <<Message("chat", OldChat)>>]

Deaf        == [Socket EXCEPT !.method = "POST",     \* no client can open it
                              !.sends = <<Message("b", Chat)>>]

SomeEndpoints == {GetUser, PostUser, Reset, Export, Raw, Events, Socket, OtherSocket,
                  Deaf}
=============================================================================
