------------------------------ MODULE WSSession ------------------------------
(***************************************************************************)
(* A client and its server over the network: WSClient and WSServer         *)
(* composed.  Socket s of the client is connection s of the server.  Each  *)
(* direction of a connection delivers in order; a connection may be lost   *)
(* at any time, with what is in flight, and the two sides notice it at     *)
(* different times.  So the server's goroutine of an old connection may    *)
(* still run, and send, while the client is already on the next one.       *)
(*                                                                         *)
(* Callbacks do not throw here and close() gets a valid code (WSClient     *)
(* covers both), and the typed client sends only messages the server       *)
(* knows (WSServer covers the others).                                     *)
(***************************************************************************)
EXTENDS Naturals, Sequences, FiniteSets

CONSTANTS Options, MaxSockets, MaxOpens, MaxFrames, MaxReceives, MaxSends,
          Failures, InputErrors, UserFails, MaxOut,
          SenderCloses   \* bound: connections that the server's user code may close

VARIABLES
    reconnectOpts, sock, opened, frame, closed, fatalError, retryCount, retryTimer,
    timers, firstOpen, recvQueue, recvBuffer, receives, sendQueue, sends, arrived,
    pc, inputErr, failure, msgs, nread, handled, out, closing, lost,
    got,        \* how many frames of each connection the client has handled
    verdictAt   \* history: the frames that had arrived at the error frame

Sockets == 1..MaxSockets

C == INSTANCE WSClient WITH UserThrows <- FALSE
S == INSTANCE WSServer WITH Conns <- Sockets, MaxIn <- MaxSends

(* The client's and the server's assumptions, together.                     *)
ASSUME SessionAssumption ==
    /\ Options \subseteq C!ReconnectOptions
    /\ MaxSockets \in Nat \ {0}
    /\ MaxOpens \in Nat /\ MaxFrames \in Nat /\ MaxReceives \in Nat
    /\ MaxSends \in Nat /\ MaxOut \in Nat
    /\ Failures \subseteq S!Errors /\ InputErrors \subseteq S!Errors
    /\ UserFails \in BOOLEAN

clientVars == <<reconnectOpts, sock, opened, frame, closed, fatalError, retryCount,
                retryTimer, timers, firstOpen, recvQueue, recvBuffer, receives,
                sendQueue, sends, arrived>>
serverVars == <<pc, inputErr, failure, msgs, nread, handled, out, closing, lost>>
linkVars   == <<got, verdictAt>>
vars == <<clientVars, serverVars, linkVars>>

Init ==
    /\ C!Init /\ S!Init
    /\ got = [s \in Sockets |-> 0]
    /\ verdictAt = 0

-----------------------------------------------------------------------------
(* The client's end. *)

ClientToServer(s, kind) ==
    msgs' = IF lost[s] THEN msgs ELSE [msgs EXCEPT ![s] = Append(@, kind)]

ServerUnchangedBut == <<pc, inputErr, failure, nread, handled, out, closing>>

ClientAlone ==
    /\ \/ C!OnOpenReturns \/ C!OnCloseReturns
       \/ \E t \in timers : C!TimerFires(t)
       \/ C!receive \/ C!send
    /\ UNCHANGED <<reconnectOpts, serverVars, linkVars>>

SendResumes ==
    /\ C!SendResumes
    /\ IF firstOpen = "resolved" /\ C!readyState = "OPEN"
       THEN ClientToServer(Len(sock), "good")
       ELSE UNCHANGED msgs
    /\ UNCHANGED <<reconnectOpts, ServerUnchangedBut, lost, linkVars>>

(* close() starts the closing handshake of an open socket and drops a       *)
(* connection that is not open yet.                                         *)
Close ==
    LET s == Len(sock)
    IN  /\ C!close
        /\ IF sock[s] = "OPEN" THEN ClientToServer(s, "close") ELSE UNCHANGED msgs
        /\ lost' = [lost EXCEPT ![s] = @ \/ sock[s] = "CONNECTING"]
        /\ UNCHANGED <<reconnectOpts, ServerUnchangedBut, linkVars>>

(* The upgrade succeeded: the server's goroutine is past Accept, which did  *)
(* not fail.                                                                *)
Upgraded(s) == S!Accepted(s) /\ ~(pc[s] = "returned" /\ out[s] = <<>>)

Opens(s) ==
    /\ C!SocketOpen(s)
    /\ Upgraded(s) /\ ~lost[s]
    /\ UNCHANGED <<reconnectOpts, serverVars, linkVars>>

Deliver(s) ==
    /\ got[s] < Len(out[s])
    /\ got' = [got EXCEPT ![s] = @ + 1]
    /\ LET kind == out[s][got[s] + 1].kind
       IN  \/ kind = "data"  /\ C!DataFrame(s)  /\ UNCHANGED <<msgs, verdictAt>>
           \/ kind = "error" /\ C!ErrorFrame(s) /\ verdictAt' = arrived /\ UNCHANGED msgs
           \/ kind = "close" /\ C!SocketClosing(s) /\ ClientToServer(s, "close")
              /\ UNCHANGED verdictAt
    /\ UNCHANGED <<reconnectOpts, ServerUnchangedBut, lost>>

(* The socket is gone: the attempt failed, the handshake is over, or the    *)
(* browser noticed the loss.                                                *)
SocketGone(s) ==
    /\ C!SocketClose(s)
    /\ sock[s] \in {"CONNECTING", "CLOSING"} \/ lost[s]
    /\ lost' = [lost EXCEPT ![s] = TRUE]
    /\ UNCHANGED <<reconnectOpts, ServerUnchangedBut, msgs, linkVars>>

(* The server's end. *)
ServerStep(s) ==
    /\ \/ S!Goroutine(s) \/ S!CloseHandshakeEnds(s)
       \/ S!Send(s) \/ S!Lose(s)
       \/ s \in SenderCloses /\ S!SenderClose(s)
       \/ s \in DOMAIN sock /\ sock[s] = "CONNECTING" /\ S!Request(s)
    /\ UNCHANGED <<clientVars, linkVars>>

(* Steps of a goroutine that nobody can observe and that depend on nobody   *)
(* (parsing, accepting, returning from a finished Close) commute with every *)
(* step of the others: they are taken first.                                *)
Private(s) ==
    \/ pc[s] \in {"parse", "accept"}
    \/ pc[s] \in {"read", "close", "closing"} /\ closing[s] = "done"

Next ==
    \/ \E s \in Sockets : Private(s) /\ ServerStep(s)
    \/ /\ \A s \in Sockets : ~Private(s)
       /\ \/ ClientAlone \/ SendResumes \/ Close
          \/ \E s \in DOMAIN sock :
                Opens(s) \/ Deliver(s) \/ SocketGone(s) \/ ServerStep(s)

(* As in WSClient and WSServer, as little as the properties need: while a   *)
(* server goroutine can go on, some goroutine does (each has finitely many  *)
(* steps); while the event loop has something to run, an attempt or a       *)
(* handshake to end or a frame on the wire, it runs something.              *)
ServerGoes ==
    /\ \E s \in Sockets : S!Goroutine(s) \/ S!CloseHandshakeEnds(s)
    /\ UNCHANGED <<clientVars, linkVars>>

ClientGoes ==
    \/ SendResumes
    \/ /\ C!OnOpenReturns \/ C!OnCloseReturns \/ \E t \in timers : C!TimerFires(t)
       /\ UNCHANGED <<reconnectOpts, serverVars, linkVars>>
    \/ \E s \in DOMAIN sock : Opens(s) \/ Deliver(s) \/ SocketGone(s)

Fairness == WF_vars(ServerGoes) /\ WF_vars(ClientGoes)

Spec     == Init /\ [][Next]_vars
FairSpec == Spec /\ Fairness

-----------------------------------------------------------------------------
(* Properties *)

(* The client moves on to another connection only if it has not seen an     *)
(* error frame: a verdict of the server (bad input, failed setup, a         *)
(* registered error) is final unless the network swallowed it.              *)
VerdictIsFinal ==
    \A s \in DOMAIN sock : \A i \in S!Framed(s, "error") :
        s < Len(sock) => got[s] < i

(* A caller of receive() is told of the error only after everything that    *)
(* arrived before it has been taken.                                        *)
ErrorAfterData ==
    \A r \in DOMAIN receives : receives[r].res = "WSError" =>
        1..verdictAt \subseteq {receives[q].msg : q \in C!Delivered}

(* User code took the connection from the server and left it open: it        *)
(* panicked, or a handler returned the close error of another connection.    *)
Abandoned(s) ==
    \/ pc[s] = "panicked"
    \/ \E i \in DOMAIN handled[s] : handled[s][i].res = S!CloseError

(* Nobody waits in receive() for ever unless the server still has a         *)
(* goroutine for the connection the client is on, or user code made it      *)
(* abandon that connection: no other dead connection looks alive.           *)
WaitsOnlyForALiveServer ==
    \A r \in 1..MaxReceives :
        C!ReceivePending(r) ~>
            \/ ~C!ReceivePending(r)
            \/ pc[Len(sock)] \notin {"idle"} \cup S!Ended
            \/ Abandoned(Len(sock))

(* A connection the client has left is released by the server too.          *)
LeftConnectionsEnd ==
    \A s \in Sockets :
        (s < Len(sock)) ~> pc[s] \in {"idle"} \cup S!Ended
=============================================================================
