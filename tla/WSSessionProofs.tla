-------------------------- MODULE WSSessionProofs --------------------------
(***************************************************************************)
(* Theorems about a client and its server together.  What was proved of    *)
(* each of them alone is taken from WSClientProofs and WSServerProofs: a   *)
(* step of the session is a step of the client, or none, and a step of the *)
(* server, something its client did, or nothing.                           *)
(***************************************************************************)
EXTENDS WSSession, TLAPS

CP == INSTANCE WSClientProofs WITH UserThrows <- FALSE
SP == INSTANCE WSServerProofs WITH Conns <- Sockets, MaxIn <- MaxSends

(* Callbacks do not throw in a session.                                     *)
LEMMA ClientAssumed ==
    /\ Options \subseteq CP!ReconnectOptions
    /\ FALSE \in BOOLEAN
    /\ MaxSockets \in Nat \ {0}
    /\ MaxOpens \in Nat /\ MaxFrames \in Nat
    /\ MaxReceives \in Nat /\ MaxSends \in Nat
    BY SessionAssumption DEF C!ReconnectOptions, CP!ReconnectOptions

LEMMA ServerAssumed ==
    /\ Failures \subseteq SP!Errors
    /\ InputErrors \subseteq SP!Errors
    /\ UserFails \in BOOLEAN
    /\ MaxSends \in Nat /\ MaxOut \in Nat
    BY SessionAssumption DEF S!Errors, SP!Errors

-----------------------------------------------------------------------------
(* Both modules are instances of the one client and the one server: their   *)
(* actions are the session's.                                               *)
USE DEF C!Idle, CP!Idle, C!Microtasks, CP!Microtasks, C!readyState, CP!readyState,
        C!socketVars, CP!socketVars, C!retryVars, CP!retryVars, C!recvVars, CP!recvVars,
        C!sendVars, CP!sendVars, C!endVars, CP!endVars, C!SetState, CP!SetState,
        C!RejectFirstOpen, CP!RejectFirstOpen, C!RejectReceives, CP!RejectReceives,
        C!terminate, CP!terminate

(* They count sets alike.                                                   *)
LEMMA SameCardinality ==
    ASSUME NEW T
    PROVE  C!Cardinality(T) = CP!Cardinality(T) /\ S!Cardinality(T) = SP!Cardinality(T)
BY DEF C!Cardinality, CP!Cardinality, S!Cardinality, SP!Cardinality

(* The client's socket events.                                              *)
LEMMA SocketActions ==
    ASSUME NEW s
    PROVE  /\ C!SocketOpen(s) => CP!SocketOpen(s)
           /\ C!SocketClosing(s) => CP!SocketClosing(s)
           /\ C!SocketClose(s) => CP!SocketClose(s)
           /\ C!DataFrame(s) => CP!DataFrame(s)
           /\ C!ErrorFrame(s) => CP!ErrorFrame(s)
<1>1. C!SocketOpen(s) => CP!SocketOpen(s)
    BY SameCardinality DEF C!SocketOpen, CP!SocketOpen
<1>2. C!SocketClosing(s) => CP!SocketClosing(s)
    BY DEF C!SocketClosing, CP!SocketClosing
<1>3. C!SocketClose(s) => CP!SocketClose(s)
    BY DEF C!SocketClose, CP!SocketClose
<1>4. C!DataFrame(s) => CP!DataFrame(s)
    BY DEF C!DataFrame, CP!DataFrame
<1>5. C!ErrorFrame(s) => CP!ErrorFrame(s)
    BY DEF C!ErrorFrame, CP!ErrorFrame
<1> QED BY <1>1, <1>2, <1>3, <1>4, <1>5

(* The rest of the client's steps.                                          *)
LEMMA OtherActions ==
    /\ C!OnOpenReturns => CP!OnOpenReturns
    /\ C!OnCloseReturns => CP!OnCloseReturns
    /\ \A t : C!TimerFires(t) => CP!TimerFires(t)
    /\ C!receive => CP!receive
    /\ C!send => CP!send
    /\ C!SendResumes => CP!SendResumes
    /\ C!close => CP!close
<1>1. C!OnOpenReturns => CP!OnOpenReturns
    BY DEF C!OnOpenReturns, CP!OnOpenReturns
<1>2. C!OnCloseReturns => CP!OnCloseReturns
    BY DEF C!OnCloseReturns, CP!OnCloseReturns, C!scheduleReconnect, CP!scheduleReconnect,
           C!RetriesLeft, CP!RetriesLeft, C!ArmTimer, CP!ArmTimer
<1>3. \A t : C!TimerFires(t) => CP!TimerFires(t)
    BY DEF C!TimerFires, CP!TimerFires, C!connect, CP!connect
<1>4. C!receive => CP!receive
    BY DEF C!receive, CP!receive
<1>5. C!send => CP!send
    BY DEF C!send, CP!send
<1>6. C!SendResumes => CP!SendResumes
    BY DEF C!SendResumes, CP!SendResumes
<1>7. C!close => CP!close
    BY DEF C!close, CP!close
<1> QED BY <1>1, <1>2, <1>3, <1>4, <1>5, <1>6, <1>7

(* The server's steps on a connection.                                      *)
LEMMA ServerActions ==
    ASSUME NEW s
    PROVE  /\ S!Goroutine(s) => SP!Goroutine(s)
           /\ S!CloseHandshakeEnds(s) => SP!CloseHandshakeEnds(s)
           /\ S!Send(s) => SP!Send(s)
           /\ S!Lose(s) => SP!Lose(s)
           /\ S!SenderClose(s) => SP!SenderClose(s)
           /\ S!Request(s) => SP!Request(s)
<1> USE DEF S!Goto, SP!Goto, S!wireVars, SP!wireVars, S!Write, SP!Write, S!Accepted, SP!Accepted,
            S!Serving, SP!Serving, S!NoError, SP!NoError, S!CloseError, SP!CloseError,
            S!InternalServerError, SP!InternalServerError, S!WSCode, SP!WSCode,
            S!Report, SP!Report, S!Ran, SP!Ran, S!Take, SP!Take, S!CanRead, SP!CanRead,
            S!Unread, SP!Unread, S!NextMsg, SP!NextMsg, S!Ended, SP!Ended,
            S!WSStatusNormalClosure, SP!WSStatusNormalClosure
<1>1. S!parseInputForWS(s) => SP!parseInputForWS(s)
    BY DEF S!parseInputForWS, SP!parseInputForWS
<1>2. S!Accept(s) => SP!Accept(s)
    BY DEF S!Accept, SP!Accept
<1>3. S!AcceptFails(s) => SP!AcceptFails(s)
    BY DEF S!AcceptFails, SP!AcceptFails
<1>4. S!SetupReturns(s) => SP!SetupReturns(s)
    BY DEF S!SetupReturns, SP!SetupReturns
<1>5. S!UserCodePanics(s) => SP!UserCodePanics(s)
    BY DEF S!UserCodePanics, SP!UserCodePanics
<1>6. S!ReadMessage(s) => SP!ReadMessage(s)
    BY DEF S!ReadMessage, SP!ReadMessage
<1>7. S!SkipMessage(s) => SP!SkipMessage(s)
    BY DEF S!SkipMessage, SP!SkipMessage
<1>8. S!ReadGarbage(s) => SP!ReadGarbage(s)
    BY DEF S!ReadGarbage, SP!ReadGarbage
<1>9. S!ReadClose(s) => SP!ReadClose(s)
    BY DEF S!ReadClose, SP!ReadClose
<1>10. S!ReadFails(s) => SP!ReadFails(s)
    BY DEF S!ReadFails, SP!ReadFails
<1>11. S!HandlerReturns(s) => SP!HandlerReturns(s)
    BY DEF S!HandlerReturns, SP!HandlerReturns
<1>12. S!HandlerReturnsCloseError(s) => SP!HandlerReturnsCloseError(s)
    BY DEF S!HandlerReturnsCloseError, SP!HandlerReturnsCloseError
<1>13. S!WriteErrorFrame(s) => SP!WriteErrorFrame(s)
    BY DEF S!WriteErrorFrame, SP!WriteErrorFrame
<1>14. S!Close(s) => SP!Close(s)
    BY DEF S!Close, SP!Close, S!CloseCode, SP!CloseCode,
           S!WSStatusInternalError, SP!WSStatusInternalError
<1>15. S!CloseReturns(s) => SP!CloseReturns(s)
    BY DEF S!CloseReturns, SP!CloseReturns
<1>16. S!Goroutine(s) => SP!Goroutine(s)
    BY <1>1, <1>2, <1>3, <1>4, <1>5, <1>6, <1>7, <1>8, <1>9, <1>10, <1>11, <1>12, <1>13, <1>14,
       <1>15 DEF S!Goroutine, SP!Goroutine, S!Loop, SP!Loop
<1>17. S!CloseHandshakeEnds(s) => SP!CloseHandshakeEnds(s)
    BY DEF S!CloseHandshakeEnds, SP!CloseHandshakeEnds
<1>18. S!Send(s) => SP!Send(s)
    BY SameCardinality DEF S!Send, SP!Send, S!DataSent, SP!DataSent
<1>19. S!Lose(s) => SP!Lose(s)
    BY DEF S!Lose, SP!Lose
<1>20. S!SenderClose(s) => SP!SenderClose(s)
    BY DEF S!SenderClose, SP!SenderClose
<1>21. S!Request(s) => SP!Request(s)
    BY DEF S!Request, SP!Request
<1> QED BY <1>16, <1>17, <1>18, <1>19, <1>20, <1>21

-----------------------------------------------------------------------------
(* The invariant: that of each side, and what links them.  A client that    *)
(* was told of an error was told on its last connection, and has ended; it  *)
(* was told once, since a connection carries one error frame.               *)
Told(s, i) == i <= got[s] /\ out[s][i].kind = "error"

LinkInv ==
    /\ Len(sock) <= MaxSockets
    /\ got \in [Sockets -> Nat] /\ \A s \in Sockets : got[s] <= Len(out[s])
    /\ verdictAt \in Nat /\ verdictAt <= arrived
    /\ fatalError => \E s \in Sockets : \E i \in 1..Len(out[s]) : Told(s, i)
    /\ \A s \in Sockets : \A i \in 1..Len(out[s]) :
          Told(s, i) => fatalError /\ s = Len(sock)
    /\ \A r \in 1..Len(receives) : receives[r].res = "WSError" =>
          /\ fatalError
          /\ \A m \in 1..verdictAt : \E q \in CP!Delivered : receives[q].msg = m

ClientInv == CP!TypeOK /\ CP!SocketInv /\ CP!QueueInv /\ CP!OrderInv

SessionInv == ClientInv /\ SP!SInv /\ LinkInv

(* The sockets are connections of the server.                               *)
LEMMA SocketsOK ==
    ASSUME CP!TypeOK, Len(sock) <= MaxSockets
    PROVE  DOMAIN sock = 1..Len(sock) /\ Len(sock) \in Sockets /\ DOMAIN sock \subseteq Sockets
<1>1. Len(sock) \in Nat \ {0} /\ DOMAIN sock = 1..Len(sock) /\ MaxSockets \in Nat
    BY SessionAssumption DEF CP!TypeOK
<1> QED BY <1>1 DEF Sockets

(* The steps of a session, by who takes them.                               *)
ClientMoves ==
    \/ \E s \in DOMAIN sock : Deliver(s) \/ Opens(s) \/ SocketGone(s)
    \/ ClientAlone \/ SendResumes \/ Close

ServerMoves == \E s \in Sockets : ServerStep(s)

LEMMA Moves ==
    ASSUME CP!TypeOK, Len(sock) <= MaxSockets, [Next]_vars
    PROVE  ClientMoves \/ ServerMoves \/ UNCHANGED vars
BY SocketsOK DEF Next, ClientMoves, ServerMoves

(* What the client does is a step of the client.                            *)
LEMMA ClientSteps == ClientMoves => CP!Next
<1>1. ASSUME NEW s \in DOMAIN sock, Deliver(s) PROVE CP!Next
    BY <1>1, SocketActions DEF Deliver, CP!Next, CP!Browser
<1>2. ASSUME NEW s \in DOMAIN sock, Opens(s) PROVE CP!Next
    BY <1>2, SocketActions DEF Opens, CP!Next, CP!Browser
<1>3. ASSUME NEW s \in DOMAIN sock, SocketGone(s) PROVE CP!Next
    BY <1>3, SocketActions DEF SocketGone, CP!Next, CP!Browser
<1>4. CASE ClientAlone
    BY <1>4, OtherActions DEF ClientAlone, CP!Next, CP!Browser, CP!User
<1>5. CASE SendResumes
    BY <1>5, OtherActions DEF SendResumes, CP!Next, CP!Browser
<1>6. CASE Close
    BY <1>6, OtherActions DEF Close, CP!Next, CP!User
<1> QED BY <1>1, <1>2, <1>3, <1>4, <1>5, <1>6 DEF ClientMoves

(* Every step keeps what was proved of the client alone.                    *)
LEMMA ClientKept ==
    ASSUME ClientInv, LinkInv, [Next]_vars
    PROVE  ClientInv' /\ [CP!Next]_(CP!vars)
<1>1. [CP!Next]_(CP!vars)
  <2>1. ServerMoves \/ UNCHANGED vars => UNCHANGED CP!vars
    BY DEF ServerMoves, ServerStep, vars, clientVars, CP!vars
  <2> QED BY <2>1, Moves, ClientSteps DEF ClientInv, LinkInv
<1>2. CP!TypeOK' /\ CP!SocketInv' /\ CP!QueueInv' /\ CP!OrderInv'
    BY <1>1, ClientAssumed, CP!TypeStep, CP!SocketStep, CP!QueueStep, CP!OrderStep DEF ClientInv
<1> QED BY <1>1, <1>2 DEF ClientInv

(* To the server a step of the client is a message or a lost connection.    *)
LEMMA ClientSends ==
    ASSUME SP!TypeOK, ClientMoves, CP!TypeOK, Len(sock) <= MaxSockets
    PROVE  /\ msgs' \in [Sockets -> Seq(SP!Kinds)] /\ lost' \in [Sockets -> BOOLEAN]
           /\ UNCHANGED <<pc, inputErr, failure, nread, handled, out, closing>>
           /\ \A c \in Sockets :
                 /\ msgs'[c] = msgs[c] \/ \E k \in SP!Kinds : msgs'[c] = Append(msgs[c], k)
                 /\ lost[c] => lost'[c]
<1>a. /\ msgs \in [Sockets -> Seq(SP!Kinds)] /\ lost \in [Sockets -> BOOLEAN]
      /\ "good" \in SP!Kinds /\ "close" \in SP!Kinds
    BY DEF SP!TypeOK, SP!Kinds
<1>b. ASSUME NEW s \in Sockets, NEW k \in SP!Kinds,
             UNCHANGED msgs \/ ClientToServer(s, k)
      PROVE  /\ msgs' \in [Sockets -> Seq(SP!Kinds)]
             /\ \A c \in Sockets :
                   msgs'[c] = msgs[c] \/ \E n \in SP!Kinds : msgs'[c] = Append(msgs[c], n)
  <2>1. CASE UNCHANGED msgs
      BY <1>a, <2>1
  <2>2. CASE msgs' = [msgs EXCEPT ![s] = Append(msgs[s], k)]
    <3>1. Append(msgs[s], k) \in Seq(SP!Kinds)
        BY <1>a
    <3> QED BY <1>a, <2>2, <3>1
  <2> QED BY <1>b, <2>1, <2>2 DEF ClientToServer
<1>1. \E s \in Sockets : \E k \in SP!Kinds : UNCHANGED msgs \/ ClientToServer(s, k)
  <2>1. DOMAIN sock \subseteq Sockets /\ Len(sock) \in Sockets
      BY SocketsOK
  <2> QED BY <1>a, <2>1 DEF ClientMoves, Deliver, Opens, SocketGone, ClientAlone, SendResumes,
                            Close, serverVars
<1>2. /\ lost' \in [Sockets -> BOOLEAN] /\ \A c \in Sockets : lost[c] => lost'[c]
  <2>1. CASE UNCHANGED lost
      BY <1>a, <2>1
  <2>2. ASSUME NEW s, lost' = [lost EXCEPT ![s] = TRUE]
        PROVE  lost' \in [Sockets -> BOOLEAN] /\ \A c \in Sockets : lost[c] => lost'[c]
      BY <1>a, <2>2, Zenon
  <2>3. ASSUME NEW s, NEW b \in BOOLEAN, lost' = [lost EXCEPT ![s] = lost[s] \/ b]
        PROVE  lost' \in [Sockets -> BOOLEAN] /\ \A c \in Sockets : lost[c] => lost'[c]
      BY <1>a, <2>3, Zenon
  <2> QED BY <2>1, <2>2, <2>3 DEF ClientMoves, Deliver, Opens, SocketGone, ClientAlone,
                                  SendResumes, Close, serverVars
<1>3. UNCHANGED <<pc, inputErr, failure, nread, handled, out, closing>>
    BY DEF ClientMoves, Deliver, Opens, SocketGone, ClientAlone, SendResumes, Close,
           serverVars, ServerUnchangedBut
<1> QED BY <1>1, <1>b, <1>2, <1>3

(* Every step keeps what was proved of the server alone.                    *)
LEMMA ServerKept ==
    ASSUME SP!SInv, ClientInv, LinkInv, [Next]_vars
    PROVE  SP!SInv'
<1>1. CASE ServerMoves
  <2>1. SP!Next
    BY <1>1, ServerActions DEF ServerMoves, ServerStep, SP!Next, SP!Environment
  <2> QED BY <2>1, ServerAssumed, SP!NextSInv
<1>2. CASE ClientMoves
  <2>1. SP!TypeOK /\ \A c \in Sockets : SP!ConnInv(c)
    BY DEF SP!SInv
  <2>2. /\ msgs' \in [Sockets -> Seq(SP!Kinds)] /\ lost' \in [Sockets -> BOOLEAN]
        /\ UNCHANGED <<pc, inputErr, failure, nread, handled, out, closing>>
    BY <1>2, <2>1, ClientSends DEF ClientInv, LinkInv
  <2>3. ASSUME NEW c \in Sockets PROVE SP!Sent(c)
    BY <1>2, <2>1, <2>2, ClientSends DEF SP!Sent, ClientInv, LinkInv
  <2>4. \A c \in Sockets : SP!ConnInv(c)'
    BY <2>1, <2>3, ServerAssumed, SP!SentKeeps
  <2>5. SP!TypeOK'
    BY <2>1, <2>2 DEF SP!TypeOK
  <2> QED BY <2>4, <2>5 DEF SP!SInv
<1>3. CASE UNCHANGED vars
  <2>1. UNCHANGED SP!vars
    BY <1>3 DEF vars, serverVars, SP!vars, SP!wireVars
  <2> QED BY <2>1, ServerAssumed, SP!NextSInv
<1> QED BY <1>1, <1>2, <1>3, Moves DEF ClientInv, LinkInv

-----------------------------------------------------------------------------
(* What links the two sides. *)

(* Shorthands for the lengths of the wire.                                  *)
LEMMA WireOK ==
    ASSUME SP!SInv, NEW s \in Sockets
    PROVE  Len(out[s]) \in Nat /\ DOMAIN out[s] = 1..Len(out[s])
BY DEF SP!SInv, SP!TypeOK

(* Whoever is told of the error has taken all that arrived before it, if    *)
(* nobody was told before or the frame that tells comes only once.          *)
AllTaken(n) == \A m \in 1..n : \E q \in CP!Delivered : receives[q].msg = m

(* What was taken stays taken.                                              *)
LEMMA TakenStays ==
    ASSUME ClientInv, ClientInv', [CP!Next]_(CP!vars), NEW q \in CP!Delivered
    PROVE  q \in CP!Delivered' /\ receives'[q] = receives[q]
<1>1. /\ DOMAIN receives = 1..Len(receives) /\ Len(receives) \in Nat
      /\ DOMAIN receives' = 1..Len(receives') /\ Len(receives') \in Nat
    BY DEF ClientInv, CP!TypeOK
<1>2. q \in 1..Len(receives) /\ receives[q].res = "message"
    BY <1>1 DEF CP!Delivered
<1>3. Len(receives) <= Len(receives') /\ receives'[q] = receives[q]
    BY <1>2, ClientAssumed, CP!SettledStays DEF ClientInv
<1> QED BY <1>1, <1>2, <1>3 DEF CP!Delivered

(* The calls that have taken all that arrived by the verdict still have.    *)
LEMMA AllTakenStays ==
    ASSUME ClientInv, ClientInv', [CP!Next]_(CP!vars), AllTaken(verdictAt')
    PROVE  AllTaken(verdictAt)'
<1>1. ASSUME NEW m \in 1..verdictAt'
      PROVE  \E q \in CP!Delivered' : receives'[q].msg = m
  <2>1. PICK q \in CP!Delivered : receives[q].msg = m
    BY <1>1 DEF AllTaken
  <2> QED BY <2>1, TakenStays
<1> QED BY <1>1 DEF AllTaken

(* When the buffer is empty everything has been taken.                      *)
LEMMA EmptyBuffer ==
    ASSUME ClientInv, recvBuffer = <<>>
    PROVE  AllTaken(arrived)
<1>1. Len(recvBuffer) = 0 /\ arrived \in Nat
    BY DEF ClientInv, CP!TypeOK
<1>2. CP!taken = arrived
    BY <1>1 DEF CP!taken
<1> QED BY <1>2 DEF ClientInv, CP!OrderInv, AllTaken

(* Only the delivery of an error frame tells the client of one.             *)
LEMMA QuietKept ==
    ASSUME SessionInv, ClientInv', [CP!Next]_(CP!vars), SP!SInv',
           UNCHANGED <<fatalError, verdictAt>>, Len(sock') <= MaxSockets,
           got' \in [Sockets -> Nat],
           \A s \in Sockets : /\ got'[s] <= Len(out'[s]) /\ Len(out[s]) <= Len(out'[s])
                              /\ \A i \in 1..Len(out[s]) : out'[s][i] = out[s][i]
                              /\ got[s] <= got'[s]
                              /\ \A i \in 1..got'[s] : got[s] < i => out'[s][i].kind # "error"
    PROVE  LinkInv'
<1>a. \A s \in Sockets : /\ Len(out[s]) \in Nat /\ Len(out'[s]) \in Nat
                         /\ got[s] \in Nat /\ got'[s] \in Nat
    BY WireOK DEF SessionInv, LinkInv, SP!SInv, SP!TypeOK
<1>1. ASSUME NEW s \in Sockets, NEW i
      PROVE  i \in 1..Len(out'[s]) /\ Told(s, i)' <=> i \in 1..Len(out[s]) /\ Told(s, i)
  <2>1. i \in 1..Len(out[s]) /\ Told(s, i) => i \in 1..Len(out'[s]) /\ Told(s, i)'
    BY <1>a DEF Told
  <2>2. ASSUME i \in 1..Len(out'[s]), Told(s, i)' PROVE i \in 1..Len(out[s]) /\ Told(s, i)
    <3>1. i \in 1..got'[s] /\ out'[s][i].kind = "error"
      BY <1>a, <2>2 DEF Told
    <3>2. i <= got[s]
      BY <1>a, <3>1
    <3>3. i \in 1..Len(out[s])
      BY <1>a, <3>1, <3>2 DEF SessionInv, LinkInv
    <3> QED BY <3>1, <3>2, <3>3 DEF Told
  <2> QED BY <2>1, <2>2
<1>2. fatalError => \E s \in Sockets : \E i \in 1..Len(out'[s]) : Told(s, i)'
    BY <1>1 DEF SessionInv, LinkInv
<1>3. ASSUME NEW s \in Sockets, NEW i \in 1..Len(out'[s]), Told(s, i)'
      PROVE  fatalError /\ s = Len(sock')
  <2>1. fatalError /\ s = Len(sock)
    BY <1>1, <1>3 DEF SessionInv, LinkInv
  <2>2. closed
    BY <2>1 DEF SessionInv, ClientInv, CP!QueueInv
  <2>3. Len(sock') = Len(sock)
    BY <2>2, ClientAssumed, CP!ClosedStays DEF SessionInv, ClientInv
  <2> QED BY <2>1, <2>3
<1>4. verdictAt \in Nat /\ verdictAt <= arrived' /\ verdictAt <= arrived
  <2>1. verdictAt \in Nat /\ verdictAt <= arrived /\ arrived \in Nat
    BY DEF SessionInv, ClientInv, LinkInv, CP!TypeOK
  <2>2. arrived' = arrived \/ arrived' = arrived + 1
    BY ClientAssumed, CP!DeliverySteps DEF SessionInv, ClientInv, CP!Arrives, CP!receive, CP!Ends,
                                           CP!BadClose
  <2> QED BY <2>1, <2>2
<1>5. ASSUME NEW r \in 1..Len(receives'), receives'[r].res = "WSError"
      PROVE  fatalError /\ AllTaken(verdictAt)'
  <2>1. CASE r \in 1..Len(receives) /\ receives[r].res = "WSError"
    <3>1. fatalError /\ AllTaken(verdictAt)
      BY <2>1 DEF SessionInv, LinkInv, AllTaken
    <3>2. AllTaken(verdictAt')
      BY <3>1
    <3> QED BY <3>1, <3>2, AllTakenStays DEF SessionInv
  <2>2. CASE r \in 1..Len(receives) => receives[r].res # "WSError"
    <3>1. recvBuffer = <<>> /\ fatalError
      <4>1. recvBuffer = <<>> /\ (fatalError \/ \E s \in DOMAIN sock : CP!ErrorFrame(s))
        BY <1>5, <2>2, ClientAssumed, CP!ToldLast DEF SessionInv, ClientInv
      <4>2. (\E s \in DOMAIN sock : CP!ErrorFrame(s)) => fatalError'
        BY DEF CP!ErrorFrame
      <4> QED BY <4>1, <4>2
    <3>2. AllTaken(arrived)
      BY <3>1, EmptyBuffer DEF SessionInv
    <3>3. AllTaken(verdictAt')
      <4>1. arrived \in Nat
        BY DEF SessionInv, ClientInv, CP!TypeOK
      <4>2. \A m \in 1..verdictAt : m \in 1..arrived
        BY <1>4, <4>1
      <4> QED BY <3>2, <4>2 DEF AllTaken
    <3> QED BY <3>1, <3>3, AllTakenStays DEF SessionInv
  <2> QED BY <2>1, <2>2
<1> QED BY <1>2, <1>3, <1>4, <1>5 DEF LinkInv, AllTaken

(* Delivering an error frame: the client is on its last connection and has  *)
(* not been told before.                                                    *)
LEMMA ErrorKept ==
    ASSUME SessionInv, ClientInv', [CP!Next]_(CP!vars),
           NEW s \in DOMAIN sock, CP!ErrorFrame(s), UNCHANGED out,
           got[s] < Len(out[s]), out[s][got[s] + 1].kind = "error",
           got' = [got EXCEPT ![s] = got[s] + 1], verdictAt' = arrived
    PROVE  LinkInv'
<1>a. /\ s \in Sockets /\ Len(sock) \in Nat /\ arrived \in Nat
      /\ got \in [Sockets -> Nat]
  <2>1. CP!TypeOK /\ Len(sock) <= MaxSockets /\ got \in [Sockets -> Nat]
    BY DEF SessionInv, ClientInv, LinkInv
  <2>2. s \in Sockets
    BY <2>1, SocketsOK
  <2> QED BY <2>1, <2>2 DEF CP!TypeOK
<1>b. ASSUME NEW t \in Sockets
      PROVE  /\ Len(out[t]) \in Nat /\ DOMAIN out[t] = 1..Len(out[t])
             /\ got[t] \in Nat /\ got[t] <= Len(out[t])
  <2>1. SP!SInv /\ got[t] <= Len(out[t])
    BY DEF SessionInv, LinkInv
  <2> QED BY <1>a, <2>1, WireOK
<1>1. s = Len(sock)
    BY SocketsOK DEF CP!ErrorFrame, SessionInv, ClientInv, LinkInv, CP!SocketInv, CP!OneAttempt
<1>2. ~fatalError
  <2> SUFFICES ASSUME fatalError PROVE FALSE
    OBVIOUS
  <2>1. PICK t \in Sockets : \E i \in 1..Len(out[t]) : Told(t, i)
    BY DEF SessionInv, LinkInv
  <2>2. t = s
    BY <1>1, <2>1 DEF SessionInv, LinkInv
  <2>3. PICK i \in 1..Len(out[s]) : Told(s, i)
    BY <2>1, <2>2
  <2>4. got[s] + 1 \in 1..Len(out[s]) /\ i # got[s] + 1
    BY <1>a, <1>b, <2>3 DEF Told
  <2>5. SP!ErrorFrames(s) /\ DOMAIN out[s] = 1..Len(out[s])
    BY <1>a, <1>b DEF SessionInv, SP!SInv, SP!ConnInv
  <2> QED BY <2>3, <2>4, <2>5 DEF Told, SP!ErrorFrames, SP!Kind
<1>3. fatalError' /\ UNCHANGED <<sock, arrived, recvBuffer>>
    BY DEF CP!ErrorFrame
<1>4. /\ got' \in [Sockets -> Nat] /\ got'[s] = got[s] + 1
      /\ \A t \in Sockets : t # s => got'[t] = got[t]
  <2>1. got[s] + 1 \in Nat
    BY <1>a, <1>b
  <2> QED BY <1>a, <2>1
<1>5. ASSUME NEW t \in Sockets PROVE got'[t] <= Len(out'[t])
    BY <1>a, <1>b, <1>4
<1>6. /\ got[s] + 1 \in 1..Len(out'[s]) /\ got[s] + 1 <= got'[s]
      /\ out'[s][got[s] + 1].kind = "error"
    BY <1>a, <1>b, <1>4
<1>7. ASSUME NEW t \in Sockets, NEW i \in 1..Len(out'[t]), Told(t, i)'
      PROVE  t = Len(sock')
  <2>1. CASE t = s
    BY <1>1, <1>3, <2>1
  <2>2. CASE t # s
    <3>1. Told(t, i) /\ i \in 1..Len(out[t])
      BY <1>4, <1>7, <2>2 DEF Told
    <3> QED BY <1>2, <3>1 DEF SessionInv, LinkInv
  <2> QED BY <2>1, <2>2
<1>8. ASSUME NEW r \in 1..Len(receives'), receives'[r].res = "WSError"
      PROVE  AllTaken(verdictAt)'
  <2>1. r \in 1..Len(receives) => receives[r].res # "WSError"
    BY <1>2 DEF SessionInv, LinkInv
  <2>2. recvBuffer = <<>>
    BY <1>8, <2>1, ClientAssumed, CP!ToldLast DEF SessionInv, ClientInv
  <2>3. AllTaken(verdictAt')
    BY <2>2, EmptyBuffer DEF SessionInv
  <2> QED BY <2>3, AllTakenStays DEF SessionInv
<1>9. Len(sock') <= MaxSockets /\ verdictAt' \in Nat /\ verdictAt' <= arrived'
    BY <1>a, <1>3 DEF SessionInv, LinkInv
<1>10. \E t \in Sockets : \E i \in 1..Len(out'[t]) : Told(t, i)'
    BY <1>a, <1>6 DEF Told
<1> QED BY <1>3, <1>4, <1>5, <1>7, <1>8, <1>9, <1>10 DEF LinkInv, AllTaken

(* Every step keeps the link.                                               *)
LEMMA LinkKept ==
    ASSUME SessionInv, [Next]_vars
    PROVE  LinkInv'
<1>a. /\ ClientInv' /\ [CP!Next]_(CP!vars) /\ SP!SInv'
      /\ CP!TypeOK /\ Len(sock) <= MaxSockets /\ got \in [Sockets -> Nat]
    BY ClientKept, ServerKept DEF SessionInv, ClientInv, LinkInv
<1>b. ASSUME NEW s \in Sockets
      PROVE  /\ Len(out[s]) \in Nat /\ got[s] \in Nat /\ got[s] <= Len(out[s])
             /\ DOMAIN out[s] = 1..Len(out[s]) /\ Len(out'[s]) \in Nat
  <2>1. SP!SInv /\ got[s] <= Len(out[s])
    BY DEF SessionInv, LinkInv
  <2>2. Len(out'[s]) \in Nat
    BY <1>a DEF SP!SInv, SP!TypeOK
  <2> QED BY <1>a, <2>1, <2>2, WireOK
<1>c. Len(sock') <= MaxSockets
    BY <1>a, ClientAssumed, CP!AttemptsBounded DEF SessionInv, ClientInv
<1>d. DOMAIN sock \subseteq Sockets
    BY <1>a, SocketsOK
<1>1. ASSUME UNCHANGED <<fatalError, verdictAt, got>>,
             \A s \in Sockets : /\ Len(out[s]) <= Len(out'[s])
                                /\ \A i \in 1..Len(out[s]) : out'[s][i] = out[s][i]
      PROVE  LinkInv'
  <2>1. ASSUME NEW s \in Sockets
        PROVE  /\ got'[s] <= Len(out'[s]) /\ got[s] <= got'[s]
               /\ \A i \in 1..got'[s] : got[s] < i => out'[s][i].kind # "error"
    BY <1>1, <1>b
  <2> QED BY <1>1, <1>a, <1>c, <2>1, QuietKept
<1>2. CASE ServerMoves
  <2>1. PICK s \in Sockets : ServerStep(s)
    BY <1>2 DEF ServerMoves
  <2>2. SP!Step(s)
    BY <2>1, ServerActions DEF ServerStep, SP!Step, SP!Environment
  <2>3. \A t \in Sockets : /\ Len(out[t]) <= Len(out'[t])
                           /\ \A i \in 1..Len(out[t]) : out'[t][i] = out[t][i]
    BY <2>2, ServerAssumed, SP!FramesStay DEF SessionInv, SP!SInv
  <2>4. UNCHANGED <<fatalError, verdictAt, got>>
    BY <2>1 DEF ServerStep, clientVars, linkVars
  <2> QED BY <1>1, <2>3, <2>4
<1>3. ASSUME UNCHANGED <<fatalError, verdictAt, got, out>> PROVE LinkInv'
    BY <1>1, <1>3, <1>b
<1>4. CASE UNCHANGED vars
    BY <1>3, <1>4 DEF vars, clientVars, serverVars, linkVars
<1>5. ASSUME NEW s \in DOMAIN sock, Deliver(s) PROVE LinkInv'
  <2> DEFINE kind == out[s][got[s] + 1].kind
  <2>1. /\ got[s] < Len(out[s]) /\ got' = [got EXCEPT ![s] = got[s] + 1]
        /\ UNCHANGED out /\ s \in Sockets
    BY <1>5, <1>d DEF Deliver, ServerUnchangedBut
  <2>2. CASE kind = "error"
    <3>1. CP!ErrorFrame(s) /\ verdictAt' = arrived
      BY <1>5, <2>2, SocketActions DEF Deliver
    <3> QED BY <1>a, <2>1, <2>2, <3>1, ErrorKept
  <2>3. CASE kind # "error"
    <3>1. UNCHANGED <<fatalError, verdictAt>>
      BY <1>5, <2>3 DEF Deliver, C!DataFrame, C!SocketClosing
    <3>2. /\ got' \in [Sockets -> Nat] /\ got'[s] = got[s] + 1
          /\ \A t \in Sockets : t # s => got'[t] = got[t]
      <4>1. got[s] + 1 \in Nat
        BY <1>b, <2>1
      <4> QED BY <1>a, <2>1, <4>1
    <3>3. ASSUME NEW t \in Sockets
          PROVE  /\ got'[t] <= Len(out'[t]) /\ got[t] <= got'[t]
                 /\ \A i \in 1..got'[t] : got[t] < i => out'[t][i].kind # "error"
      <4>1. CASE t = s
        <5>1. \A i \in 1..got'[s] : got[s] < i => i = got[s] + 1
          BY <1>b, <2>1, <3>2
        <5>2. got'[s] <= Len(out'[s]) /\ got[s] <= got'[s]
          BY <1>b, <2>1, <3>2
        <5> QED BY <2>1, <2>3, <4>1, <5>1, <5>2
      <4>2. CASE t # s
        BY <1>b, <2>1, <3>2, <4>2
      <4> QED BY <4>1, <4>2
    <3>4. \A t \in Sockets : /\ Len(out[t]) <= Len(out'[t])
                             /\ \A i \in 1..Len(out[t]) : out'[t][i] = out[t][i]
      BY <1>b, <2>1
    <3> QED BY <1>a, <1>c, <3>1, <3>2, <3>3, <3>4, QuietKept
  <2> QED BY <2>2, <2>3
<1>6. CASE \E s \in DOMAIN sock : Opens(s) \/ SocketGone(s)
    BY <1>3, <1>6 DEF Opens, SocketGone, C!SocketOpen, C!SocketClose, serverVars, linkVars,
                      ServerUnchangedBut
<1>7. CASE ClientAlone \/ SendResumes \/ Close
  <2>1. UNCHANGED fatalError
    BY <1>7 DEF ClientAlone, SendResumes, Close, C!OnOpenReturns, C!OnCloseReturns,
                C!TimerFires, C!receive, C!send, C!SendResumes, C!close
  <2>2. UNCHANGED <<verdictAt, got, out>>
    BY <1>7 DEF ClientAlone, SendResumes, Close, serverVars, linkVars, ServerUnchangedBut
  <2> QED BY <1>3, <2>1, <2>2
<1> QED BY <1>2, <1>4, <1>5, <1>6, <1>7, <1>a, Moves DEF ClientMoves

-----------------------------------------------------------------------------
(* A session starts with nothing sent and nothing told.                     *)
LEMMA SessionInit == Init => SessionInv
<1> SUFFICES ASSUME Init PROVE SessionInv
  OBVIOUS
<1>1. CP!Init
  BY DEF Init, C!Init, CP!Init
<1>2. CP!TypeOK /\ CP!SocketInv /\ CP!QueueInv /\ CP!OrderInv
  BY <1>1, ClientAssumed, CP!TypeInit, CP!SocketInit, CP!QueueInit
<1>3. SP!Init
  BY DEF Init, S!Init, SP!Init, S!NoError, SP!NoError
<1>4. SP!SInv
  BY <1>3, ServerAssumed, SP!InitSInv
<1>5. /\ got = [s \in Sockets |-> 0] /\ verdictAt = 0 /\ arrived = 0
      /\ ~fatalError /\ Len(receives) = 0 /\ Len(sock) = 1
      /\ \A s \in Sockets : Len(out[s]) = 0
  BY <1>1, <1>3 DEF Init, CP!Init, SP!Init
<1>6. LinkInv
  BY <1>5, SessionAssumption DEF LinkInv, Told
<1> QED BY <1>2, <1>4, <1>6 DEF SessionInv, ClientInv

(* What each side promises alone, and the link, hold in every session.      *)
THEOREM SpecSessionInv == Spec => []SessionInv
<1>1. SessionInv /\ [Next]_vars => SessionInv'
  <2> SUFFICES ASSUME SessionInv, [Next]_vars PROVE SessionInv'
    OBVIOUS
  <2> QED BY ClientKept, ServerKept, LinkKept DEF SessionInv
<1> QED BY SessionInit, <1>1, PTL DEF Spec

(* A client that was told of an error stays on the connection that told it  *)
(* (fatalError stops scheduleReconnect, websocket.ts 197-206, 223-236).     *)
THEOREM VerdictIsFinalCorrect == Spec => []VerdictIsFinal
<1>1. SessionInv => VerdictIsFinal
  <2> SUFFICES ASSUME SessionInv, NEW s \in DOMAIN sock, NEW i \in S!Framed(s, "error"),
                      s < Len(sock)
               PROVE  got[s] < i
    BY DEF VerdictIsFinal
  <2>1. s \in Sockets /\ s # Len(sock)
    <3>1. CP!TypeOK /\ Len(sock) <= MaxSockets
      BY DEF SessionInv, ClientInv, LinkInv
    <3>2. DOMAIN sock = 1..Len(sock) /\ Len(sock) \in Nat
      BY <3>1 DEF CP!TypeOK
    <3> QED BY <3>1, <3>2, SocketsOK
  <2>2. i \in 1..Len(out[s]) /\ out[s][i].kind = "error"
    BY <2>1, WireOK DEF SessionInv, S!Framed
  <2>3. ~Told(s, i)
    BY <2>1, <2>2 DEF SessionInv, LinkInv
  <2>4. got[s] \in Nat
    BY <2>1 DEF SessionInv, LinkInv
  <2> QED BY <2>2, <2>3, <2>4 DEF Told
<1> QED BY <1>1, SpecSessionInv, PTL

(* Nobody hears of the error before what arrived ahead of it has been taken *)
(* (receive looks at the buffer first, websocket.ts 238-252).               *)
THEOREM ErrorAfterDataCorrect == Spec => []ErrorAfterData
<1>1. SessionInv => ErrorAfterData
  <2> SUFFICES ASSUME SessionInv, NEW r \in DOMAIN receives, receives[r].res = "WSError",
                      NEW m \in 1..verdictAt
               PROVE  \E q \in C!Delivered : receives[q].msg = m
    BY DEF ErrorAfterData
  <2>1. r \in 1..Len(receives)
    BY DEF SessionInv, ClientInv, CP!TypeOK
  <2>2. C!Delivered = CP!Delivered
    BY DEF C!Delivered, CP!Delivered
  <2> QED BY <2>1, <2>2 DEF SessionInv, LinkInv
<1> QED BY <1>1, SpecSessionInv, PTL

(* In a session the client takes only the steps it would take alone.        *)
THEOREM SessionImplementsClient == Spec => CP!Spec
<1>1. Init => CP!Init
  BY DEF Init, C!Init, CP!Init
<1>2. SessionInv /\ [Next]_vars => [CP!Next]_(CP!vars)
  BY ClientKept DEF SessionInv
<1> QED BY <1>1, <1>2, SpecSessionInv, PTL DEF Spec, CP!Spec

(* So what was proved of the client alone is true of it in a session.       *)
THEOREM SessionKeepsClient ==
    Spec => /\ [](CP!GivesUpAfterMaxRetries /\ CP!SendsDoNotCrossConnections)
            /\ CP!NoResurrection
            /\ CP!ImplementsMailbox
<1>1. Spec => [](CP!GivesUpAfterMaxRetries)
  BY SessionImplementsClient, ClientAssumed, CP!GivesUpCorrect
<1>2. Spec => [](CP!SendsDoNotCrossConnections)
  BY SessionImplementsClient, ClientAssumed, CP!SendsDoNotCrossCorrect
<1>3. Spec => CP!NoResurrection
  BY SessionImplementsClient, ClientAssumed, CP!NoResurrectionCorrect
<1>4. Spec => CP!ImplementsMailbox
  BY SessionImplementsClient, ClientAssumed, CP!MailboxImplemented
<1> QED BY <1>1, <1>2, <1>3, <1>4, PTL

(* The network and the server take nothing from what the client promises on *)
(* its own, nor the client from what the server does.                       *)
THEOREM PromisesKept ==
    Spec => [](/\ C!OneAttempt /\ C!NoneLeftWaiting /\ C!ExactlyOnceInOrder
               /\ S!OneVerdict /\ S!HandledInOrder
               /\ S!OnlyFaultsEndConnection /\ S!RejectedBeforeUserCode)
<1>1. SessionInv => C!OneAttempt /\ C!NoneLeftWaiting /\ C!ExactlyOnceInOrder
  <2> SUFFICES ASSUME SessionInv
               PROVE  C!OneAttempt /\ C!NoneLeftWaiting /\ C!ExactlyOnceInOrder
    OBVIOUS
  <2>1. CP!OneAttempt /\ CP!NoneLeftWaiting /\ CP!ExactlyOnceInOrder
    BY ClientAssumed, CP!QueueImplies, CP!OrderImplies DEF SessionInv, ClientInv, CP!SocketInv
  <2> QED BY <2>1 DEF C!OneAttempt, CP!OneAttempt, C!NoneLeftWaiting, CP!NoneLeftWaiting,
                      C!ExactlyOnceInOrder, CP!ExactlyOnceInOrder, C!Delivered, CP!Delivered
<1>2. SessionInv => /\ S!OneVerdict /\ S!HandledInOrder
                    /\ S!OnlyFaultsEndConnection /\ S!RejectedBeforeUserCode
  <2> SUFFICES ASSUME SessionInv
               PROVE  /\ S!OneVerdict /\ S!HandledInOrder
                      /\ S!OnlyFaultsEndConnection /\ S!RejectedBeforeUserCode
    OBVIOUS
  <2>1. SP!OneVerdict /\ SP!HandledInOrder
        /\ SP!OnlyFaultsEndConnection /\ SP!RejectedBeforeUserCode
    BY ServerAssumed, SP!OneVerdictHolds, SP!HandledInOrderHolds, SP!FaultsHold DEF SessionInv
  <2>2. S!OneVerdict
    BY <2>1, SameCardinality DEF S!OneVerdict, SP!OneVerdict, S!Framed, SP!Framed,
       S!WSStatusNormalClosure, SP!WSStatusNormalClosure,
       S!WSCode, SP!WSCode, S!NoError, SP!NoError
  <2>3. S!HandledInOrder
    BY <2>1 DEF S!HandledInOrder, SP!HandledInOrder, S!HandledMsgs, SP!HandledMsgs,
       S!Good, SP!Good, S!NoError, SP!NoError
  <2> QED BY <2>1, <2>2, <2>3 DEF S!OnlyFaultsEndConnection, SP!OnlyFaultsEndConnection,
       S!RejectedBeforeUserCode, SP!RejectedBeforeUserCode, S!Framed, SP!Framed,
       S!WSStatusInternalError, SP!WSStatusInternalError, S!InternalServerError,
       SP!InternalServerError, S!NoError, SP!NoError
<1> QED BY <1>1, <1>2, SpecSessionInv, PTL
=============================================================================
