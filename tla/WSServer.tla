------------------------------ MODULE WSServer ------------------------------
(***************************************************************************)
(* The server side of a WebSocket route (ws.go and handler.go,             *)
(* adaptWSMessages): one goroutine per connection parses the request,      *)
(* accepts the upgrade, runs the user's setup function and then the        *)
(* dispatch loop.  User code runs inside setup and the message handlers,   *)
(* and in goroutines that setup started, which may use the same WSSender   *)
(* at any time.                                                            *)
(*                                                                         *)
(* github.com/coder/websocket is modelled by how this code uses it: writes *)
(* are atomic; Close sends one close frame, waits for the peer's or for a  *)
(* timeout, and makes every later write fail; Read fails with a close      *)
(* error on the peer's close frame and with another error on a broken or a *)
(* closed connection.  Payloads are left out: a client message is what the *)
(* loop tells apart.                                                       *)
(***************************************************************************)
EXTENDS Naturals, Sequences, FiniteSets

CONSTANTS
    Conns,        \* connection attempts of the clients
    Failures,     \* errors that setup and the handlers may return
    InputErrors,  \* errors that parsing the request may end with
    UserFails,    \* TRUE: user code may panic or return a foreign close error
    MaxIn,        \* bound: messages a client sends on a connection
    MaxOut        \* bound: data frames user code sends on a connection

(* An error is known by the status resolveError gives it (handler.go        *)
(* 327-337): 422 for a ValidationError wherever it is in the chain, the     *)
(* registered one, or 500.                                                  *)
NoError    == [kind |-> "none", status |-> 0]
CloseError == [kind |-> "closeError", status |-> 0]
Errors ==
    [kind : {"validation", "unregistered", "registered", "badRequest"}, status : Nat]

ASSUME ServerAssumption ==
    /\ Failures \subseteq Errors
    /\ InputErrors \subseteq Errors
    /\ UserFails \in BOOLEAN
    /\ MaxIn \in Nat /\ MaxOut \in Nat

VARIABLES
    pc,         \* where the connection's goroutine is
    inputErr,   \* status parseInputForWS found, 0 for none
    failure,    \* the error being reported
    msgs,       \* what the client sent, in order
    nread,      \* how many of them the server has read
    handled,    \* the messages handlers ran for, and what they returned
    out,        \* the frames the server put on the wire, in order
    closing,    \* close handshake: "no", "sent" (ours is out), "done"
    lost        \* the network dropped the connection

wireVars == <<msgs, out, lost>>
vars == <<pc, inputErr, failure, nread, handled, closing, wireVars>>

InternalServerError == 500
WSStatusNormalClosure == 1000
WSStatusInternalError == 1011
WSCode(status) == 4000 + (status % 1000)

Kinds  == {"good", "badPayload", "unknown", "badEnvelope", "close"}
Frames == [kind : {"data", "error", "close"}, code : Nat]
Runs   == [msg : Nat, res : Errors \cup {NoError, CloseError}]
Locations == {"idle", "parse", "accept", "setup", "read", "handle",
              "errorFrame", "close", "closing", "returned", "panicked"}
Ended == {"returned", "panicked"}     \* the goroutine is gone

TypeOK ==
    /\ pc \in [Conns -> Locations]
    /\ inputErr \in [Conns -> Errors \cup {NoError}]
    /\ failure \in [Conns -> Errors \cup {NoError}]
    /\ msgs \in [Conns -> Seq(Kinds)]
    /\ nread \in [Conns -> Nat]
    /\ handled \in [Conns -> Seq(Runs)]
    /\ out \in [Conns -> Seq(Frames)]
    /\ closing \in [Conns -> {"no", "sent", "done"}]
    /\ lost \in [Conns -> BOOLEAN]

Init ==
    /\ pc = [c \in Conns |-> "idle"]
    /\ inputErr = [c \in Conns |-> NoError]
    /\ failure = [c \in Conns |-> NoError]
    /\ msgs = [c \in Conns |-> <<>>]
    /\ nread = [c \in Conns |-> 0]
    /\ handled = [c \in Conns |-> <<>>]
    /\ out = [c \in Conns |-> <<>>]
    /\ closing = [c \in Conns |-> "no"]
    /\ lost = [c \in Conns |-> FALSE]

-----------------------------------------------------------------------------
Goto(c, l) == pc' = [pc EXCEPT ![c] = l]

Write(c, kind, code) ==
    out' = IF closing[c] = "no" /\ ~lost[c]
           THEN [out EXCEPT ![c] = Append(@, [kind |-> kind, code |-> code])]
           ELSE out

Accepted(c) == pc[c] \notin {"idle", "parse", "accept"}

(* User code holds the sender from the start of setup until the goroutine   *)
(* returns and the request's context is cancelled.                          *)
Serving(c) == Accepted(c) /\ pc[c] \notin Ended /\ inputErr[c] = NoError

(* A client asks for an upgrade. *)
Request(c) ==
    /\ pc[c] = "idle"
    /\ Goto(c, "parse")
    /\ UNCHANGED <<inputErr, failure, nread, handled, closing, wireVars>>

parseInputForWS(c) ==
    /\ pc[c] = "parse"
    /\ \E e \in InputErrors \cup {NoError} : inputErr' = [inputErr EXCEPT ![c] = e]
    /\ Goto(c, "accept")
    /\ UNCHANGED <<failure, nread, handled, closing, wireVars>>

Accept_ChecksLater(c) ==
    /\ pc[c] = "accept"
    /\ Goto(c, "setup")
    /\ UNCHANGED <<inputErr, failure, nread, handled, closing, wireVars>>

(* The error waits for the upgrade: only over the connection can the        *)
(* client see it.                                                           *)
Accept(c) ==
    /\ pc[c] = "accept"
    /\ failure' = [failure EXCEPT ![c] = inputErr[c]]
    /\ Goto(c, IF inputErr[c] = NoError THEN "setup" ELSE "errorFrame")
    /\ UNCHANGED <<inputErr, nread, handled, closing, wireVars>>

(* Accept wrote an HTTP error (origin, missing headers): nothing more to do.*)
AcceptFails(c) ==
    /\ pc[c] = "accept"
    /\ closing' = [closing EXCEPT ![c] = "done"]
    /\ Goto(c, "returned")
    /\ UNCHANGED <<inputErr, failure, nread, handled, wireVars>>

(* How an error of setup or of a handler is reported.                       *)
Report(c, e) ==
    /\ failure' = [failure EXCEPT ![c] = e]
    /\ Goto(c, IF e.status # InternalServerError THEN "errorFrame" ELSE "close")

SetupReturns_NoClose(c) ==
    /\ pc[c] = "setup"
    /\ \/ Goto(c, "read") /\ UNCHANGED failure
       \/ \E e \in Failures :
             /\ failure' = [failure EXCEPT ![c] = e]
             /\ Goto(c, IF e.status # InternalServerError THEN "errorFrame" ELSE "returned")
    /\ UNCHANGED <<inputErr, nread, handled, closing, wireVars>>

SetupReturns(c) ==
    /\ pc[c] = "setup"
    /\ \/ Goto(c, "read") /\ UNCHANGED failure
       \/ \E e \in Failures : Report(c, e)
    /\ UNCHANGED <<inputErr, nread, handled, closing, wireVars>>

-----------------------------------------------------------------------------
(* The dispatch loop. *)

Unread(c) == nread[c] < Len(msgs[c])
NextMsg(c) == msgs[c][nread[c] + 1]
Take(c) == nread' = [nread EXCEPT ![c] = @ + 1]

CanRead(c, kinds) ==
    pc[c] = "read" /\ closing[c] # "done" /\ Unread(c) /\ NextMsg(c) \in kinds

ReadMessage(c) ==
    /\ CanRead(c, {"good"})
    /\ Take(c)
    /\ Goto(c, "handle")
    /\ UNCHANGED <<inputErr, failure, handled, closing, wireVars>>

SkipMessage_PutsBack(c) ==
    /\ CanRead(c, {"unknown", "badPayload"})
    /\ nread' = [nread EXCEPT ![c] = @ - 1]
    /\ UNCHANGED <<pc, inputErr, failure, handled, closing, wireVars>>

SkipMessage_Fatal(c) ==
    /\ CanRead(c, {"unknown", "badPayload"})
    /\ Take(c)
    /\ Goto(c, IF NextMsg(c) = "badPayload" THEN "close" ELSE "read")
    /\ UNCHANGED <<inputErr, failure, handled, closing, wireVars>>

(* An unknown type or a payload that does not decode: a callback or the     *)
(* log, and the loop goes on.                                               *)
SkipMessage(c) ==
    /\ CanRead(c, {"unknown", "badPayload"})
    /\ Take(c)
    /\ UNCHANGED <<pc, inputErr, failure, handled, closing, wireVars>>

(* wsjson.Read closes with 1007 itself; the loop's own Close then waits.    *)
ReadGarbage(c) ==
    /\ CanRead(c, {"badEnvelope"})
    /\ Take(c)
    /\ Write(c, "close", 1007)
    /\ closing' = [closing EXCEPT ![c] = "sent"]
    /\ Goto(c, "close")
    /\ UNCHANGED <<inputErr, failure, handled, msgs, lost>>

(* The peer's close frame: Read answers it, the loop returns.               *)
ReadClose(c) ==
    /\ CanRead(c, {"close"})
    /\ Take(c)
    /\ Write(c, "close", WSStatusNormalClosure)
    /\ closing' = [closing EXCEPT ![c] = "done"]
    /\ Goto(c, "returned")
    /\ UNCHANGED <<inputErr, failure, handled, msgs, lost>>

ReadFails_Retries(c) ==
    /\ pc[c] = "read" /\ (lost[c] \/ closing[c] = "done")
    /\ UNCHANGED vars

(* The connection broke, or user code closed it.                            *)
ReadFails(c) ==
    /\ pc[c] = "read" /\ (lost[c] \/ closing[c] = "done")
    /\ Goto(c, "close")
    /\ UNCHANGED <<inputErr, failure, nread, handled, closing, wireVars>>

Ran(c, res) == handled' = [handled EXCEPT ![c] = Append(@, [msg |-> nread[c], res |-> res])]

HandlerReturns_Continues(c) ==
    /\ pc[c] = "handle"
    /\ \/ Ran(c, NoError) /\ Goto(c, "read") /\ UNCHANGED failure
       \/ \E e \in Failures :
             /\ Ran(c, e)
             /\ failure' = [failure EXCEPT ![c] = e]
             /\ Goto(c, IF e.kind = "unregistered" THEN "read" ELSE "errorFrame")
    /\ UNCHANGED <<inputErr, nread, closing, wireVars>>

HandlerReturns(c) ==
    /\ pc[c] = "handle"
    /\ \/ Ran(c, NoError) /\ Goto(c, "read") /\ UNCHANGED failure
       \/ \E e \in Failures : Ran(c, e) /\ Report(c, e)
    /\ UNCHANGED <<inputErr, nread, closing, wireVars>>

(* A close error ends the loop without a Close, since the "handler triggered *)
(* a close"; it may be the error of a connection of the handler's own.      *)
HandlerReturnsCloseError(c) ==
    /\ UserFails /\ pc[c] = "handle"
    /\ Ran(c, CloseError)
    /\ Goto(c, "returned")
    /\ UNCHANGED <<inputErr, failure, nread, closing, wireVars>>

(* net/http recovers a panic, but never closes a hijacked connection.       *)
UserCodePanics(c) ==
    /\ UserFails /\ pc[c] \in {"setup", "handle"}
    /\ Goto(c, "panicked")
    /\ UNCHANGED <<inputErr, failure, nread, handled, closing, wireVars>>

-----------------------------------------------------------------------------
(* writeWSError and Close. *)

WriteErrorFrame_NoClose(c) ==
    /\ pc[c] = "errorFrame"
    /\ Write(c, "error", WSCode(failure[c].status))
    /\ Goto(c, "read")
    /\ UNCHANGED <<inputErr, failure, nread, handled, closing, msgs, lost>>

WriteErrorFrame(c) ==
    /\ pc[c] = "errorFrame"
    /\ Write(c, "error", WSCode(failure[c].status))
    /\ Goto(c, "close")
    /\ UNCHANGED <<inputErr, failure, nread, handled, closing, msgs, lost>>

(* writeWSError closes with the frame's code, every other path with 1011.   *)
CloseCode(c) ==
    IF failure[c] # NoError /\ (inputErr[c] # NoError \/ failure[c].status # InternalServerError)
    THEN WSCode(failure[c].status)
    ELSE WSStatusInternalError

Close(c) ==
    /\ pc[c] = "close"
    /\ Write(c, "close", CloseCode(c))
    /\ closing' = [closing EXCEPT ![c] = IF @ = "no" THEN "sent" ELSE @]
    /\ Goto(c, "closing")
    /\ UNCHANGED <<inputErr, failure, nread, handled, msgs, lost>>

(* The peer answered, or the handshake timed out.                           *)
CloseHandshakeEnds(c) ==
    /\ closing[c] = "sent"
    /\ closing' = [closing EXCEPT ![c] = "done"]
    /\ UNCHANGED <<pc, inputErr, failure, nread, handled, wireVars>>

CloseReturns(c) ==
    /\ pc[c] = "closing" /\ closing[c] = "done"
    /\ Goto(c, "returned")
    /\ UNCHANGED <<inputErr, failure, nread, handled, closing, wireVars>>

-----------------------------------------------------------------------------
(* User code with the sender, in a handler or beside it. *)

DataSent(c) == Cardinality({i \in DOMAIN out[c] : out[c][i].kind = "data"})

Send(c) ==
    /\ Serving(c) /\ closing[c] = "no" /\ ~lost[c] /\ DataSent(c) < MaxOut
    /\ Write(c, "data", 0)
    /\ UNCHANGED <<pc, inputErr, failure, nread, handled, closing, msgs, lost>>

SenderClose(c) ==
    /\ Serving(c) /\ closing[c] = "no"
    /\ Write(c, "close", WSStatusNormalClosure)
    /\ closing' = [closing EXCEPT ![c] = "sent"]
    /\ UNCHANGED <<pc, inputErr, failure, nread, handled, msgs, lost>>

(* The client and the network. *)
ClientSends(c) ==
    /\ Accepted(c) /\ ~lost[c] /\ Len(msgs[c]) < MaxIn
    /\ \A i \in DOMAIN msgs[c] : msgs[c][i] # "close"
    /\ \E k \in Kinds : msgs' = [msgs EXCEPT ![c] = Append(@, k)]
    /\ UNCHANGED <<pc, inputErr, failure, nread, handled, out, closing, lost>>

Lose(c) ==
    /\ Accepted(c) /\ ~lost[c]
    /\ lost' = [lost EXCEPT ![c] = TRUE]
    /\ UNCHANGED <<pc, inputErr, failure, nread, handled, msgs, out, closing>>

Loop(c) ==
    \/ ReadMessage(c) \/ SkipMessage(c) \/ ReadGarbage(c) \/ ReadClose(c)
    \/ ReadFails(c) \/ HandlerReturns(c) \/ HandlerReturnsCloseError(c)

Goroutine(c) ==
    \/ parseInputForWS(c) \/ Accept(c) \/ AcceptFails(c) \/ SetupReturns(c)
    \/ UserCodePanics(c)
    \/ Loop(c) \/ WriteErrorFrame(c) \/ Close(c) \/ CloseReturns(c)

Environment(c) ==
    Request(c) \/ Send(c) \/ SenderClose(c) \/ ClientSends(c) \/ Lose(c)

Next == \E c \in Conns : Goroutine(c) \/ CloseHandshakeEnds(c) \/ Environment(c)

(* The Go scheduler runs every goroutine, user code returns, Close gives up *)
(* on a silent peer after five seconds, and TCP keep-alive notices a dead   *)
(* one.                                                                     *)
Fairness ==
    \A c \in Conns : WF_vars(Goroutine(c)) /\ WF_vars(CloseHandshakeEnds(c))

Spec     == Init /\ [][Next]_vars
FairSpec == Spec /\ Fairness

-----------------------------------------------------------------------------
(* Properties *)

Framed(c, kind) == {i \in DOMAIN out[c] : out[c][i].kind = kind}

(* A client is told once why it was dropped, with the code of the error     *)
(* that happened, and the close frame repeats that code: only user code     *)
(* that closes the connection itself (1000) can come between the error      *)
(* frame and the framework's close.  (writeWSError and its three callers.)  *)
OneVerdict ==
    \A c \in Conns :
        /\ Cardinality(Framed(c, "error")) <= 1
        /\ \A i \in Framed(c, "error") :
              /\ out[c][i].code = WSCode(failure[c].status)
              /\ inputErr[c] # NoError => failure[c] = inputErr[c]
              /\ \A j \in Framed(c, "close") :
                    /\ i < j /\ j = Len(out[c])
                    /\ \/ out[c][j].code = out[c][i].code
                       \/ inputErr[c] = NoError /\ out[c][j].code = WSStatusNormalClosure

(* Handlers run for the good messages, all of them, one at a time and in    *)
(* the order they were sent; none runs after a handler has failed.          *)
Good(c)  == {n \in 1..nread[c] : msgs[c][n] = "good"}
HandledMsgs(c) == {handled[c][i].msg : i \in DOMAIN handled[c]}

HandledInOrder ==
    \A c \in Conns :
        /\ \A i, j \in DOMAIN handled[c] : i < j =>
              handled[c][i].msg < handled[c][j].msg /\ handled[c][i].res = NoError
        /\ HandledMsgs(c) \subseteq Good(c)
        /\ Good(c) \ HandledMsgs(c) \subseteq
              IF pc[c] \in {"handle", "panicked"} THEN {nread[c]} ELSE {}
        /\ pc[c] \in {"read", "handle"} =>
              \A i \in DOMAIN handled[c] : handled[c][i].res = NoError

(* An unknown message or a payload that does not decode never costs the     *)
(* client its connection: the server gives up with 1011 only after an error *)
(* nobody registered, and with 1007 only after a frame that is not JSON.    *)
OnlyFaultsEndConnection ==
    \A c \in Conns : \A i \in Framed(c, "close") :
        /\ out[c][i].code = WSStatusInternalError =>
              failure[c].status = InternalServerError
        /\ out[c][i].code = 1007 =>
              nread[c] > 0 /\ msgs[c][nread[c]] = "badEnvelope"

(* No user code ever runs for a request whose input was rejected: neither   *)
(* setup nor a handler, nor is a message read for one.  The first frame its *)
(* client sees is the error.                                                *)
RejectedBeforeUserCode ==
    \A c \in Conns : inputErr[c] # NoError =>
        /\ pc[c] \notin {"setup", "read", "handle"}
        /\ handled[c] = <<>> /\ nread[c] = 0
        /\ \A i \in DOMAIN out[c] : out[c][i].kind = IF i = 1 THEN "error" ELSE "close"

(* When the client leaves or the network fails, the goroutine ends, and     *)
(* with it the request's context that user code cleans up on.               *)
ServingEnds ==
    \A c \in Conns :
        (Accepted(c) /\ (lost[c] \/ \E i \in DOMAIN msgs[c] : msgs[c][i] = "close"))
            ~> pc[c] \in Ended

(* An error to report does reach the wire, followed by the close, unless    *)
(* the connection is lost or user code closed it first: then the close      *)
(* frame is the one of WSSender.Close, with its code.                       *)
FailureDelivered ==
    \A c \in Conns :
        pc[c] = "errorFrame" ~>
            \/ lost[c]
            \/ /\ Framed(c, "close") # {}
               /\ \/ Framed(c, "error") # {}
                  \/ \E i \in Framed(c, "close") : out[c][i].code = WSStatusNormalClosure
=============================================================================
