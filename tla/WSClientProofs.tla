--------------------------- MODULE WSClientProofs ---------------------------
(***************************************************************************)
(* Theorems about the reconnecting WebSocket client, for every choice of   *)
(* options and bounds.                                                     *)
(***************************************************************************)
EXTENDS WSClient, SequenceTheorems, TLAPS

(* Replacing one element, inside the sequence or not, keeps its type.       *)
LEMMA ReplaceType ==
    ASSUME NEW S, NEW q \in Seq(S), NEW i, NEW e \in S
    PROVE  /\ [q EXCEPT ![i] = e] \in Seq(S)
           /\ DOMAIN [q EXCEPT ![i] = e] = DOMAIN q
           /\ Len([q EXCEPT ![i] = e]) = Len(q)
<1>1. CASE i \in 1..Len(q)
    BY <1>1, ExceptSeq
<1>2. CASE i \notin 1..Len(q)
  <2>1. [q EXCEPT ![i] = e] = q
      BY <1>2
  <2>2. QED
      BY <2>1
<1>3. QED
    BY <1>1, <1>2

(* A sequence given by its elements.                                        *)
LEMMA SeqOf ==
    ASSUME NEW S, NEW n \in Nat, NEW f \in [1..n -> S]
    PROVE  f \in Seq(S) /\ Len(f) = n
    OBVIOUS

(* Rejecting the callers of receive() keeps the calls well-typed (terminate,*)
(* websocket.ts 165-170).                                                   *)
LEMMA RejectType ==
    ASSUME TypeOK, NEW why \in Reasons, RejectReceives(why)
    PROVE  /\ receives' \in Seq(Receives)
           /\ Len(receives') = Len(receives)
           /\ recvQueue' \in Seq(Nat)
<1> DEFINE rs == [r \in 1..Len(receives) |->
                    IF \E i \in DOMAIN recvQueue : recvQueue[i] = r
                    THEN [res |-> why, msg |-> 0] ELSE receives[r]]
<1>1. receives \in Seq(Receives) /\ Len(receives) \in Nat
    BY DEF TypeOK
<1>2. [res |-> why, msg |-> 0] \in Receives
    BY DEF Receives
<1>3. \A r \in 1..Len(receives) : rs[r] \in Receives
    BY <1>1, <1>2, ElementOfSeq
<1>4. rs \in [1..Len(receives) -> Receives]
    BY <1>3
<1>5. rs \in Seq(Receives) /\ Len(rs) = Len(receives)
    BY <1>1, <1>4, SeqOf
<1>6. receives' = rs
    BY <1>1 DEF RejectReceives
<1>7. QED
    BY <1>5, <1>6 DEF RejectReceives

(* A new socket goes at the end and leaves the others alone (connect,       *)
(* websocket.ts 188-189).                                                   *)
LEMMA Connects ==
    ASSUME TypeOK, connect
    PROVE  /\ sock' \in Seq(ReadyStates) /\ sock' # <<>>
           /\ Len(sock') = Len(sock) + 1
           /\ DOMAIN sock' = 1..(Len(sock) + 1)
           /\ \A k \in 1..Len(sock) : sock'[k] = sock[k]
           /\ sock'[Len(sock) + 1] = "CONNECTING"
<1>1. "CONNECTING" \in ReadyStates /\ sock \in Seq(ReadyStates) /\ Len(sock) \in Nat
    BY DEF ReadyStates, TypeOK
<1> DEFINE new == Append(sock, "CONNECTING")
<1>2. /\ new \in Seq(ReadyStates) /\ new # <<>> /\ Len(new) = Len(sock) + 1
      /\ \A k \in 1..Len(sock) : new[k] = sock[k]
      /\ new[Len(sock) + 1] = "CONNECTING"
    BY <1>1, AppendProperties
<1>3. DOMAIN new = 1..(Len(sock) + 1)
    BY <1>2, LenProperties
<1>4. sock' = new
    BY DEF connect
<1>5. QED
    BY <1>2, <1>3, <1>4

USE DEF socketVars, retryVars, recvVars, sendVars, endVars, vars

(* Every value the variables take is of its declared type.                  *)
LEMMA TypeStep == TypeOK /\ [Next]_vars => TypeOK'
<1> SUFFICES ASSUME TypeOK, [Next]_vars PROVE TypeOK'
    OBVIOUS
<1>a. DOMAIN sock = 1..Len(sock) /\ Len(sock) \in Nat \ {0}
    BY DEF TypeOK
<1>1. ASSUME NEW s \in DOMAIN sock, SocketOpen(s), UNCHANGED reconnectOpts
      PROVE  TypeOK'
    BY <1>1 DEF TypeOK, SocketOpen, SetState, ReadyStates, Reasons
<1>2. ASSUME NEW s \in DOMAIN sock, SocketClosing(s), UNCHANGED reconnectOpts
      PROVE  TypeOK'
    BY <1>2 DEF TypeOK, SocketClosing, SetState, ReadyStates
<1>3. ASSUME NEW s \in DOMAIN sock, SocketClose(s), UNCHANGED reconnectOpts
      PROVE  TypeOK'
    BY <1>3 DEF TypeOK, SocketClose, SetState, ReadyStates
<1>4. ASSUME NEW s \in DOMAIN sock, DataFrame(s), UNCHANGED reconnectOpts
      PROVE  TypeOK'
  <2>1. arrived' \in Nat
      BY <1>4 DEF TypeOK, DataFrame
  <2>2. recvQueue' \in Seq(Nat) /\ recvBuffer' \in Seq(Nat)
    <3>1. arrived + 1 \in Nat
        BY DEF TypeOK
    <3>2. Append(recvBuffer, arrived + 1) \in Seq(Nat)
        BY <3>1, AppendProperties DEF TypeOK
    <3>3. recvQueue # <<>> => Tail(recvQueue) \in Seq(Nat)
        BY HeadTailProperties DEF TypeOK
    <3>4. QED
        BY <1>4, <3>2, <3>3 DEF TypeOK, DataFrame
  <2>3. [res |-> "message", msg |-> arrived + 1] \in Receives
      BY DEF TypeOK, Receives
  <2>4. receives' \in Seq(Receives)
    <3>1. CASE UNCHANGED receives
        BY <3>1 DEF TypeOK
    <3>2. CASE receives' = [receives EXCEPT ![Head(recvQueue)] =
                              [res |-> "message", msg |-> arrived + 1]]
        BY <2>3, <3>2, ReplaceType DEF TypeOK
    <3>3. QED
        BY <1>4, <3>1, <3>2 DEF DataFrame
  <2>5. QED
      BY <1>4, <2>1, <2>2, <2>4 DEF TypeOK, DataFrame
<1>5. ASSUME NEW s \in DOMAIN sock, ErrorFrame(s), UNCHANGED reconnectOpts
      PROVE  TypeOK'
    BY <1>5, RejectType DEF TypeOK, ErrorFrame, terminate, RejectFirstOpen, Reasons
<1>6. ASSUME NEW t \in timers, TimerFires(t), UNCHANGED reconnectOpts
      PROVE  TypeOK'
  <2>1. /\ sock' \in Seq(ReadyStates) /\ sock' # <<>>
        /\ opened' \subseteq DOMAIN sock'
    <3>1. CASE UNCHANGED <<sock, opened>>
        BY <3>1 DEF TypeOK
    <3>2. CASE connect
      <4>1. DOMAIN sock \subseteq DOMAIN sock'
          BY <1>a, <3>2, Connects
      <4>2. UNCHANGED opened
          BY <3>2 DEF connect
      <4>3. QED
          BY <3>2, <4>1, <4>2, Connects DEF TypeOK
    <3>3. QED
        BY <1>6, <3>1, <3>2 DEF TimerFires
  <2>2. QED
      BY <1>6, <2>1 DEF TypeOK, TimerFires
<1>7. CASE OnOpenReturns /\ UNCHANGED reconnectOpts
    BY <1>7 DEF TypeOK, OnOpenReturns
<1>8. CASE OnCloseReturns /\ UNCHANGED reconnectOpts
  <2>1. CASE terminate("lost") /\ UNCHANGED retryVars
      BY <1>8, <2>1, RejectType
      DEF TypeOK, OnCloseReturns, terminate, RejectFirstOpen, Reasons
  <2>2. CASE /\ retryCount' = retryCount + 1 /\ ArmTimer
             /\ UNCHANGED <<closed, firstOpen, recvQueue, receives>>
      BY <1>8, <2>2 DEF TypeOK, OnCloseReturns, ArmTimer
  <2>3. QED
      BY <1>8, <2>1, <2>2 DEF OnCloseReturns, scheduleReconnect
<1>9. CASE OnCloseThrows /\ UNCHANGED reconnectOpts
    BY <1>9 DEF TypeOK, OnCloseThrows
<1>10. CASE SendResumes /\ UNCHANGED reconnectOpts
  <2> DEFINE i == Head(sendQueue)
             written == firstOpen = "resolved" /\ readyState = "OPEN"
             result == [on |-> sends[i].on,
                        sentOn |-> IF written THEN Len(sock) ELSE 0,
                        res |-> IF written THEN "sent"
                                ELSE IF firstOpen = "resolved" THEN "notOpen"
                                ELSE firstOpen]
  <2>1. sends' = [sends EXCEPT ![i] = result]
      BY <1>10 DEF SendResumes
  <2>2. sends' \in Seq(Sends)
    <3>1. CASE i \in 1..Len(sends)
      <4>1. sends[i] \in Sends
          BY <3>1, ElementOfSeq DEF TypeOK
      <4>2. result \in Sends
          BY <4>1, <1>a, <1>10 DEF TypeOK, Sends, SendResumes, Microtasks, Reasons
      <4>3. QED
          BY <2>1, <4>2, ReplaceType DEF TypeOK
    <3>2. CASE i \notin 1..Len(sends)
      <4>1. sends' = sends
          BY <2>1, <3>2, SMTT(30) DEF TypeOK
      <4>2. QED
          BY <4>1 DEF TypeOK
    <3>3. QED
        BY <3>1, <3>2
  <2>3. sendQueue' \in Seq(Nat)
      BY <1>10, HeadTailProperties DEF TypeOK, SendResumes, Microtasks
  <2>4. QED
      BY <1>10, <2>2, <2>3 DEF TypeOK, SendResumes
<1>11. CASE receive /\ UNCHANGED reconnectOpts
  <2>1. recvQueue' \in Seq(Nat) /\ recvBuffer' \in Seq(Nat)
    <3>1. recvBuffer # <<>> => Tail(recvBuffer) \in Seq(Nat)
        BY HeadTailProperties DEF TypeOK
    <3>2. Len(receives) + 1 \in Nat
        BY DEF TypeOK
    <3>3. Append(recvQueue, Len(receives) + 1) \in Seq(Nat)
        BY <3>2, AppendProperties DEF TypeOK
    <3>4. QED
        BY <1>11, <3>1, <3>3 DEF TypeOK, receive
  <2>2. receives' \in Seq(Receives)
    <3>1. CASE recvBuffer # <<>> /\ receives' =
                 Append(receives, [res |-> "message", msg |-> Head(recvBuffer)])
      <4>1. [res |-> "message", msg |-> Head(recvBuffer)] \in Receives
          BY <3>1, HeadTailProperties DEF TypeOK, Receives
      <4>2. QED
          BY <3>1, <4>1, AppendProperties DEF TypeOK
    <3>2. CASE \E why \in {"WSError", "closed", "pending"} :
                 receives' = Append(receives, [res |-> why, msg |-> 0])
      <4>1. \A why \in {"WSError", "closed", "pending"} :
              [res |-> why, msg |-> 0] \in Receives
          BY DEF Receives, Reasons
      <4>2. QED
          BY <3>2, <4>1, AppendProperties DEF TypeOK
    <3>3. QED
        BY <1>11, <3>1, <3>2 DEF receive
  <2>3. QED
      BY <1>11, <2>1, <2>2 DEF TypeOK, receive
<1>12. CASE send /\ UNCHANGED reconnectOpts
  <2>1. [res |-> "pending", on |-> Len(sock), sentOn |-> 0] \in Sends
      BY <1>a DEF Sends
  <2>2. sends' \in Seq(Sends) /\ sendQueue' \in Seq(Nat)
      BY <1>12, <2>1 DEF TypeOK, send
  <2>3. QED
      BY <1>12, <2>2 DEF TypeOK, send
<1>13. CASE close /\ UNCHANGED reconnectOpts
    BY <1>13, <1>a, RejectType
    DEF TypeOK, close, terminate, SetState, RejectFirstOpen, Reasons, ReadyStates
<1>14. CASE closeThrows /\ UNCHANGED reconnectOpts
    BY <1>14 DEF TypeOK, closeThrows
<1>15. CASE UNCHANGED vars
    BY <1>15 DEF TypeOK
<1>16. QED
    BY <1>1, <1>2, <1>3, <1>4, <1>5, <1>6, <1>7, <1>8, <1>9, <1>10, <1>11, <1>12,
       <1>13, <1>14, <1>15 DEF Next, Browser, User

(* The client that connect() at line 278 leaves behind is well-typed.       *)
LEMMA TypeInit == Init => TypeOK
<1> SUFFICES ASSUME Init PROVE TypeOK
    OBVIOUS
<1>1. reconnectOpts \in ReconnectOptions
    BY ClientAssumption DEF Init
<1>2. /\ recvQueue \in Seq(Nat) /\ recvBuffer \in Seq(Nat) /\ sendQueue \in Seq(Nat)
      /\ receives \in Seq(Receives) /\ sends \in Seq(Sends)
    BY EmptySeq DEF Init
<1>3. sock \in Seq(ReadyStates) /\ sock # <<>>
    BY DEF Init, ReadyStates
<1>4. QED
    BY <1>1, <1>2, <1>3 DEF Init, TypeOK

(* Type correctness of the client, for all options and bounds.              *)
THEOREM TypeCorrect == Spec => []TypeOK
<1>1. QED
    BY TypeInit, TypeStep, PTL DEF Spec

-----------------------------------------------------------------------------
(* Sockets and the reconnect timer.  OneAttempt alone is not inductive: the *)
(* timer is armed when onclose returns, so the invariant says what holds    *)
(* while onclose runs.                                                      *)
SocketInv ==
    /\ OneAttempt
    /\ frame = "onclose" => readyState = "CLOSED" /\ timers = {}

(* The first socket is the only one and no reconnect is pending.            *)
LEMMA SocketInit == Init => SocketInv
    BY DEF Init, SocketInv, OneAttempt, readyState

(* No event, callback, timer or call breaks it: terminate and close clear   *)
(* or ignore the timer, and only the close listener arms one.               *)
LEMMA SocketStep == TypeOK /\ SocketInv /\ [Next]_vars => SocketInv'
<1> SUFFICES ASSUME TypeOK, SocketInv, [Next]_vars PROVE SocketInv'
    OBVIOUS
<1>a. DOMAIN sock = 1..Len(sock) /\ Len(sock) \in Nat \ {0} /\ sock \in Seq(ReadyStates)
    BY DEF TypeOK
<1>b. ASSUME NEW s \in DOMAIN sock, sock[s] # "CLOSED" PROVE s = Len(sock) /\ timers = {}
    BY <1>a, <1>b DEF SocketInv, OneAttempt, readyState
<1>c. ASSUME NEW s \in DOMAIN sock, NEW st \in ReadyStates, SetState(s, st)
      PROVE  /\ Len(sock') = Len(sock) /\ DOMAIN sock' = DOMAIN sock
             /\ sock'[s] = st
             /\ \A k \in DOMAIN sock : k # s => sock'[k] = sock[k]
    BY <1>a, <1>c, ExceptSeq DEF SetState
<1>1. ASSUME NEW s \in DOMAIN sock, SocketOpen(s) PROVE SocketInv'
    BY <1>1, <1>a, <1>b, <1>c DEF SocketOpen, SocketInv, OneAttempt, readyState, ReadyStates, Idle
<1>2. ASSUME NEW s \in DOMAIN sock, SocketClosing(s) PROVE SocketInv'
    BY <1>2, <1>a, <1>b, <1>c DEF SocketClosing, SocketInv, OneAttempt, readyState, ReadyStates, Idle
<1>3. ASSUME NEW s \in DOMAIN sock, SocketClose(s) PROVE SocketInv'
    BY <1>3, <1>a, <1>b, <1>c DEF SocketClose, SocketInv, OneAttempt, readyState, ReadyStates, Idle
<1>4. ASSUME NEW t \in timers, TimerFires(t) PROVE SocketInv'
  <2>1. timers' = {} /\ frame' = "idle" /\ sock[Len(sock)] = "CLOSED"
      BY <1>4 DEF TimerFires, SocketInv, OneAttempt, readyState, Idle
  <2>2. CASE connect
    <3>1. /\ Len(sock') = Len(sock) + 1 /\ DOMAIN sock' = 1..(Len(sock) + 1)
          /\ \A k \in 1..Len(sock) : sock'[k] = sock[k]
        BY <2>2, Connects
    <3>2. \A k \in 1..Len(sock) : sock[k] = "CLOSED"
        BY <1>a, <2>1 DEF SocketInv, OneAttempt
    <3>3. \A k \in DOMAIN sock' : k # Len(sock') => sock'[k] = "CLOSED"
        BY <1>a, <3>1, <3>2
    <3>4. QED
        BY <2>1, <3>3 DEF SocketInv, OneAttempt
  <2>3. CASE UNCHANGED sock
      BY <2>1, <2>3 DEF SocketInv, OneAttempt
  <2>4. QED
      BY <1>4, <2>2, <2>3 DEF TimerFires
<1>5. CASE OnCloseReturns
    BY <1>5 DEF OnCloseReturns, scheduleReconnect, ArmTimer, SocketInv, OneAttempt, readyState
<1>6. CASE close
  <2>1. SetState(Len(sock), IF readyState = "CLOSED" THEN "CLOSED" ELSE "CLOSING")
      BY <1>6 DEF close
  <2>2. /\ DOMAIN sock' = DOMAIN sock /\ Len(sock') = Len(sock)
        /\ sock'[Len(sock)] = IF readyState = "CLOSED" THEN "CLOSED" ELSE "CLOSING"
        /\ \A k \in DOMAIN sock : k # Len(sock) => sock'[k] = sock[k]
      BY <1>a, <1>c, <2>1 DEF ReadyStates
  <2>3. timers' = {} /\ UNCHANGED frame
      BY <1>6 DEF close, SocketInv, OneAttempt
  <2>4. QED
      BY <1>a, <2>2, <2>3 DEF SocketInv, OneAttempt, readyState
<1>7. CASE closeThrows
    BY <1>7 DEF closeThrows, SocketInv, OneAttempt, readyState
<1>8. CASE OnOpenReturns \/ OnCloseThrows
    BY <1>8 DEF OnOpenReturns, OnCloseThrows, SocketInv, OneAttempt, readyState
<1>9. CASE UNCHANGED <<socketVars, timers, retryTimer>>
    BY <1>9 DEF SocketInv, OneAttempt, readyState
<1>10. QED
    BY <1>1, <1>2, <1>3, <1>4, <1>5, <1>6, <1>7, <1>8, <1>9
    DEF Next, Browser, User, DataFrame, ErrorFrame, receive, send, SendResumes

(* A reconnect never races a live connection (OneAttempt).                  *)
THEOREM OneAttemptCorrect == Spec => []OneAttempt
<1>1. TypeOK /\ SocketInv /\ [Next]_vars => (TypeOK /\ SocketInv)'
    BY TypeStep, SocketStep
<1>2. SocketInv => OneAttempt
    BY DEF SocketInv
<1>3. QED
    BY <1>1, <1>2, TypeInit, SocketInit, PTL DEF Spec

(* The timer checks closed before it connects, and nothing else does.       *)
LEMMA ClosedStays ==
    ASSUME TypeOK, [Next]_vars, closed PROVE Len(sock') = Len(sock)
<1>a. DOMAIN sock = 1..Len(sock) /\ Len(sock) \in Nat \ {0} /\ sock \in Seq(ReadyStates)
    BY DEF TypeOK
<1>b. ASSUME NEW s \in DOMAIN sock, NEW st \in ReadyStates, SetState(s, st)
      PROVE  Len(sock') = Len(sock)
    BY <1>a, <1>b, ExceptSeq DEF SetState
<1>1. ASSUME NEW s \in DOMAIN sock, SocketOpen(s) \/ SocketClosing(s) \/ SocketClose(s)
      PROVE  Len(sock') = Len(sock)
    BY <1>1, <1>b DEF SocketOpen, SocketClosing, SocketClose, ReadyStates
<1>2. CASE close
    BY <1>2, <1>a, <1>b DEF close, ReadyStates
<1>3. ASSUME NEW t \in timers, TimerFires(t) PROVE Len(sock') = Len(sock)
    BY <1>3 DEF TimerFires
<1>4. CASE UNCHANGED sock
    BY <1>4
<1>5. QED
    BY <1>1, <1>2, <1>3, <1>4
    DEF Next, Browser, User, DataFrame, ErrorFrame, receive, send, SendResumes,
        OnOpenReturns, OnCloseReturns, OnCloseThrows, closeThrows

(* A connection that ended makes no further attempt: the timer checks       *)
(* closed before it connects, and nothing resets closed.                    *)
THEOREM NoResurrectionCorrect == Spec => NoResurrection
<1>1. TypeOK /\ [Next]_vars => [closed => Len(sock') = Len(sock)]_vars
    BY ClosedStays
<1>2. QED
    BY <1>1, TypeCorrect, PTL DEF Spec, NoResurrection

-----------------------------------------------------------------------------
(* Retries. *)

(* Either step of a socket but its creation keeps the attempts.             *)
LEMMA AttemptsKept ==
    ASSUME TypeOK, [Next]_vars
    PROVE  \/ Len(sock') = Len(sock) /\ UNCHANGED opened
           \/ \E s \in DOMAIN sock : SocketOpen(s)
           \/ connect /\ \E t \in timers : TimerFires(t)
<1>a. DOMAIN sock = 1..Len(sock) /\ Len(sock) \in Nat \ {0} /\ sock \in Seq(ReadyStates)
    BY DEF TypeOK
<1>b. ASSUME NEW s \in DOMAIN sock, NEW st \in ReadyStates, SetState(s, st)
      PROVE  Len(sock') = Len(sock)
    BY <1>a, <1>b, ExceptSeq DEF SetState
<1>1. ASSUME NEW s \in DOMAIN sock, SocketClosing(s) \/ SocketClose(s)
      PROVE  Len(sock') = Len(sock) /\ UNCHANGED opened
    BY <1>1, <1>b DEF SocketClosing, SocketClose, ReadyStates
<1>2. CASE close
    BY <1>2, <1>a, <1>b DEF close, ReadyStates
<1>3. ASSUME NEW t \in timers, TimerFires(t)
      PROVE  UNCHANGED <<sock, opened>> \/ connect
    BY <1>3 DEF TimerFires
<1>4. CASE UNCHANGED <<sock, opened>>
    BY <1>4
<1>5. QED
    BY <1>1, <1>2, <1>3, <1>4
    DEF Next, Browser, User, DataFrame, ErrorFrame, receive, send, SendResumes,
        OnOpenReturns, OnCloseReturns, OnCloseThrows, closeThrows

(* The current attempt is the one that opens, and then no reconnect waits.  *)
LEMMA OpensCurrent ==
    ASSUME TypeOK, SocketInv, NEW s \in DOMAIN sock, SocketOpen(s)
    PROVE  /\ s = Len(sock) /\ timers = {} /\ UNCHANGED timers
           /\ Len(sock') = Len(sock) /\ opened' = opened \cup {Len(sock)}
           /\ readyState = "CONNECTING"
<1>1. s = Len(sock) /\ timers = {} /\ readyState = "CONNECTING"
    BY DEF SocketOpen, SocketInv, OneAttempt, readyState, TypeOK
<1>2. Len(sock') = Len(sock)
    BY ExceptSeq DEF SocketOpen, SetState, TypeOK, ReadyStates
<1>3. QED
    BY <1>1, <1>2 DEF SocketOpen

(* The bound on the attempts that are explored is kept.                     *)
LEMMA AttemptsBounded ==
    ASSUME TypeOK, SocketInv, [Next]_vars, Len(sock) <= MaxSockets
    PROVE  Len(sock') <= MaxSockets
<1>1. Len(sock) \in Nat /\ MaxSockets \in Nat
    BY ClientAssumption DEF TypeOK
<1>2. ASSUME NEW t \in timers, TimerFires(t), connect
      PROVE  Len(sock') <= MaxSockets
  <2>1. Len(sock') = Len(sock) + 1 /\ UNCHANGED sock => Len(sock) < MaxSockets
      BY <1>1
  <2>2. Len(sock') = Len(sock) + 1
      BY <1>2, Connects
  <2>3. Len(sock) < MaxSockets
      BY <1>2, <2>1, <2>2 DEF TimerFires
  <2>4. QED
      BY <1>1, <2>2, <2>3
<1>3. QED
    BY <1>2, AttemptsKept, OpensCurrent

(* Nothing but a finished onclose gives up.                                 *)
LEMMA LostHere ==
    ASSUME TypeOK, [Next]_vars, ~OnCloseReturns, GaveUp'
    PROVE  GaveUp
<1>a. receives \in Seq(Receives) /\ DOMAIN receives = 1..Len(receives) /\ Len(receives) \in Nat
    BY DEF TypeOK
<1>1. CASE UNCHANGED <<firstOpen, receives>>
    BY <1>1 DEF GaveUp
<1>2. ASSUME NEW s \in DOMAIN sock, SocketOpen(s) PROVE GaveUp
    BY <1>2 DEF SocketOpen, GaveUp
<1>3. ASSUME NEW s \in DOMAIN sock, DataFrame(s) PROVE GaveUp
  <2>1. UNCHANGED firstOpen
      BY <1>3 DEF DataFrame
  <2>2. CASE UNCHANGED receives
      BY <1>1, <2>1, <2>2
  <2>3. CASE receives' = [receives EXCEPT ![Head(recvQueue)] =
                            [res |-> "message", msg |-> arrived + 1]]
    <3>1. ASSUME NEW r \in DOMAIN receives', receives'[r].res = "lost"
          PROVE  r \in DOMAIN receives /\ receives[r].res = "lost"
        BY <2>3, <3>1
    <3>2. QED
        BY <2>1, <3>1 DEF GaveUp
  <2>4. QED
      BY <1>3, <2>2, <2>3 DEF DataFrame
<1>4. ASSUME NEW why \in {"WSError", "closed"}, terminate(why) PROVE GaveUp
  <2>1. firstOpen' = "lost" => firstOpen = "lost"
      BY <1>4 DEF terminate, RejectFirstOpen
  <2>2. ASSUME NEW r \in DOMAIN receives', receives'[r].res = "lost"
        PROVE  r \in DOMAIN receives /\ receives[r].res = "lost"
      BY <1>4, <2>2 DEF terminate, RejectReceives
  <2>3. QED
      BY <2>1, <2>2 DEF GaveUp
<1>5. CASE receive
  <2>1. PICK e \in Receives : e.res # "lost" /\ receives' = Append(receives, e)
    <3>1. recvBuffer # <<>> => [res |-> "message", msg |-> Head(recvBuffer)] \in Receives
        BY HeadTailProperties DEF TypeOK, Receives
    <3>2. \A why \in {"WSError", "closed", "pending"} : [res |-> why, msg |-> 0] \in Receives
        BY DEF Receives, Reasons
    <3>3. QED
        BY <1>5, <3>1, <3>2 DEF receive
  <2>2. ASSUME NEW r \in DOMAIN receives', receives'[r].res = "lost"
        PROVE  r \in DOMAIN receives /\ receives[r].res = "lost"
    <3> DEFINE new == Append(receives, e)
    <3>a. /\ new \in Seq(Receives) /\ Len(new) = Len(receives) + 1
          /\ \A k \in 1..Len(receives) : new[k] = receives[k]
          /\ new[Len(receives) + 1] = e
        BY <1>a, AppendProperties
    <3>b. DOMAIN new = 1..(Len(receives) + 1)
        BY <3>a, LenProperties
    <3>c. receives' = new
        BY <2>1
    <3> HIDE DEF new
    <3>1. receives'[Len(receives) + 1] = e /\ r \in 1..(Len(receives) + 1)
        BY <2>2, <3>a, <3>b, <3>c
    <3>2. r # Len(receives) + 1
        BY <2>1, <2>2, <3>1
    <3>3. r \in DOMAIN receives
        BY <1>a, <3>1, <3>2
    <3>4. receives'[r] = receives[r]
        BY <1>a, <3>3, <3>a, <3>c
    <3>5. QED
        BY <2>2, <3>3, <3>4
  <2>3. UNCHANGED firstOpen
      BY <1>5 DEF receive
  <2>4. QED
      BY <2>2, <2>3 DEF GaveUp
<1>6. QED
    BY <1>1, <1>2, <1>3, <1>4, <1>5
    DEF Next, Browser, User, SocketClosing, SocketClose, ErrorFrame, TimerFires, send,
        SendResumes, OnOpenReturns, OnCloseThrows, close, closeThrows

(* retryCount is the number of the last attempts in a row that did not open *)
(* (without the first of all, and with the one whose timer is armed), until *)
(* closing clears the timer.                                                *)
Pending == IF timers = {} THEN 0 ELSE 1

RetryInv ==
    /\ ~reconnectOpts.on => Len(sock) = 1 /\ timers = {}
    /\ reconnectOpts.on /\ ~reconnectOpts.forever => retryCount <= reconnectOpts.maxRetries
    /\ \A n \in Nat : FailedInARow(n) => n + Pending <= retryCount + 1
    /\ ~closed \/ frame = "onclose" =>
          Pending <= retryCount /\ FailedInARow(retryCount - Pending)
    /\ GaveUp => /\ closed /\ readyState = "CLOSED"
                 /\ reconnectOpts.on => /\ ~reconnectOpts.forever
                                        /\ FailedInARow(reconnectOpts.maxRetries)

(* Nothing has failed yet, and the first attempt is not a retry.            *)
LEMMA RetryInit == Init => RetryInv
<1> SUFFICES ASSUME Init PROVE RetryInv
    OBVIOUS
<1>1. Len(sock) = 1 /\ opened = {} /\ timers = {} /\ retryCount = 0 /\ ~GaveUp /\ Pending = 0
    BY DEF Init, GaveUp, Pending
<1>2. FailedInARow(0) /\ \A n \in Nat : FailedInARow(n) => n <= 1
    BY <1>1 DEF FailedInARow
<1>3. reconnectOpts.maxRetries \in Nat
    BY ClientAssumption DEF Init, ReconnectOptions
<1>4. QED
    BY <1>1, <1>2, <1>3 DEF RetryInv

(* Each step, by what it does to the attempts.                              *)
LEMMA RetryStep == TypeOK /\ SocketInv /\ RetryInv /\ [Next]_vars => RetryInv'
<1> SUFFICES ASSUME TypeOK, SocketInv, RetryInv, [Next]_vars PROVE RetryInv'
    OBVIOUS
<1>a. /\ Len(sock) \in Nat \ {0} /\ retryCount \in Nat /\ reconnectOpts.maxRetries \in Nat
      /\ UNCHANGED reconnectOpts
    BY DEF TypeOK, ReconnectOptions, Next
<1>b. Pending \in {0, 1} /\ Pending' \in {0, 1}
    BY DEF Pending
<1>1. ASSUME NEW s \in DOMAIN sock, SocketOpen(s) PROVE RetryInv'
  <2>1. /\ timers' = {} /\ retryCount' = 0 /\ UNCHANGED closed
        /\ Len(sock') = Len(sock) /\ opened' = opened \cup {Len(sock)}
      BY <1>1, OpensCurrent DEF SocketOpen
  <2>2. FailedInARow(0)' /\ Pending' = 0
      BY <1>a, <2>1 DEF FailedInARow, Pending
  <2>3. \A n \in Nat : FailedInARow(n)' => n <= 0
      BY <1>a, <2>1 DEF FailedInARow
  <2>4. ~GaveUp'
    <3>1. GaveUp => readyState = "CLOSED"
        BY DEF RetryInv
    <3>2. ~OnCloseReturns
        BY <1>1 DEF SocketOpen, OnCloseReturns, Idle
    <3>3. QED
        BY <1>1, <3>1, <3>2, LostHere, OpensCurrent
  <2>5. QED
      BY <1>a, <2>1, <2>2, <2>3, <2>4 DEF RetryInv
<1>2. ASSUME NEW t \in timers, TimerFires(t), connect PROVE RetryInv'
  <2>1. /\ timers' = {} /\ ~closed /\ UNCHANGED <<retryCount, closed, opened, firstOpen, receives>>
        /\ frame' = frame /\ Pending = 1 /\ Pending' = 0
      BY <1>2 DEF TimerFires, connect, SocketInv, OneAttempt, Pending
  <2>2. Len(sock') = Len(sock) + 1
      BY <1>2, Connects
  <2>3. opened \subseteq 1..Len(sock)
      BY DEF TypeOK
  <2>4. ~GaveUp /\ ~GaveUp'
      BY <2>1 DEF RetryInv, GaveUp
  <2>5. FailedInARow(retryCount)'
      BY <1>a, <2>1, <2>2, <2>3 DEF RetryInv, FailedInARow
  <2>6. ASSUME NEW n \in Nat, FailedInARow(n)' PROVE n <= retryCount + 1
    <3>1. CASE n = 0
        BY <1>a, <3>1
    <3>2. CASE n # 0
      <4>1. n - 1 \in Nat /\ FailedInARow(n - 1)
          BY <1>a, <2>1, <2>2, <2>6, <3>2 DEF FailedInARow
      <4>2. QED
          BY <1>a, <2>1, <4>1 DEF RetryInv
    <3>3. QED
        BY <3>1, <3>2
  <2>7. reconnectOpts.on
      BY <1>2 DEF RetryInv
  <2>8. QED
      BY <1>a, <2>1, <2>4, <2>5, <2>6, <2>7 DEF RetryInv
<1>3. ASSUME Len(sock') = Len(sock), UNCHANGED opened, \A s \in DOMAIN sock : ~SocketOpen(s)
      PROVE  RetryInv'
  <2>1. \A n : FailedInARow(n)' <=> FailedInARow(n)
      BY <1>3 DEF FailedInARow
  <2>2. CASE OnCloseReturns
    <3>1. frame = "onclose" /\ timers = {} /\ readyState = "CLOSED" /\ readyState' = "CLOSED"
          /\ Pending = 0 /\ frame' = "idle"
        BY <2>2 DEF OnCloseReturns, SocketInv, Pending, readyState
    <3>2. CASE ~RetriesLeft
      <4>1. closed' /\ UNCHANGED <<retryCount, timers>> /\ Pending' = 0
          BY <2>2, <3>1, <3>2 DEF OnCloseReturns, scheduleReconnect, terminate, Pending
      <4>2. reconnectOpts.on => ~reconnectOpts.forever /\ retryCount = reconnectOpts.maxRetries
          BY <1>a, <3>2 DEF RetriesLeft, RetryInv
      <4>3. FailedInARow(retryCount)
          BY <1>a, <3>1 DEF RetryInv
      <4>4. QED
          BY <1>3, <1>a, <2>1, <3>1, <4>1, <4>2, <4>3 DEF RetryInv
    <3>3. CASE RetriesLeft
      <4>1. /\ retryCount' = retryCount + 1 /\ timers' # {} /\ Pending' = 1
            /\ UNCHANGED <<closed, firstOpen, receives>>
          BY <2>2, <3>3 DEF OnCloseReturns, scheduleReconnect, ArmTimer, Pending
      <4>2. reconnectOpts.on /\ (~reconnectOpts.forever => retryCount < reconnectOpts.maxRetries)
          BY <3>3 DEF RetriesLeft
      <4>3. FailedInARow(retryCount) /\ retryCount' - Pending' = retryCount
          BY <1>a, <3>1, <4>1 DEF RetryInv
      <4>4. GaveUp' <=> GaveUp
          BY <4>1 DEF GaveUp
      <4>5. \A n \in Nat : FailedInARow(n)' => n + Pending' <= retryCount' + 1
          BY <1>a, <2>1, <3>1, <4>1 DEF RetryInv
      <4>6. QED
          BY <1>a, <2>1, <3>1, <4>1, <4>2, <4>3, <4>4, <4>5 DEF RetryInv
    <3>4. QED
        BY <3>2, <3>3
  <2>3. CASE ~OnCloseReturns
    <3>1. UNCHANGED retryCount /\ timers' \subseteq timers /\ (closed => closed')
        BY <1>3, <2>3
        DEF Next, Browser, User, SocketClosing, SocketClose, ErrorFrame, TimerFires, send,
            SendResumes, OnOpenReturns, OnCloseThrows, close, closeThrows, DataFrame, receive,
            terminate
    <3>2. Pending' <= Pending
        BY <3>1 DEF Pending
    <3>3. ~closed' \/ frame' = "onclose" =>
             (~closed \/ frame = "onclose") /\ Pending' = Pending
      <4>1. CASE UNCHANGED timers
        <5>1. frame' = "onclose" => frame = "onclose" \/ ~closed
            BY <1>3, <2>3
            DEF Next, Browser, User, SocketClosing, SocketClose, ErrorFrame, TimerFires, send,
                SendResumes, OnOpenReturns, OnCloseThrows, close, closeThrows, DataFrame, receive
        <5>2. QED
            BY <3>1, <4>1, <5>1 DEF Pending
      <4>2. ASSUME NEW t \in timers, TimerFires(t) PROVE frame' = "idle" /\ (closed' \/ connect)
          BY <4>2 DEF TimerFires, Idle
      <4>3. connect => Len(sock') = Len(sock) + 1
          BY Connects
      <4>4. CASE close \/ closeThrows
        <5>1. closed' /\ UNCHANGED frame /\ timers' \subseteq timers
            BY <4>4 DEF close, closeThrows, terminate
        <5>2. frame = "onclose" => timers = {}
            BY DEF SocketInv
        <5>3. QED
            BY <5>1, <5>2 DEF Pending
      <4>5. QED
          BY <1>3, <1>a, <2>3, <4>1, <4>2, <4>3, <4>4
          DEF Next, Browser, User, SocketClosing, SocketClose, ErrorFrame, send,
              SendResumes, OnOpenReturns, OnCloseThrows, DataFrame, receive
    <3>4. readyState = "CLOSED" => readyState' = "CLOSED"
      <4> SUFFICES ASSUME readyState = "CLOSED" PROVE readyState' = "CLOSED"
          OBVIOUS
      <4>1. \A s \in DOMAIN sock : sock[s] = "CLOSED"
          BY DEF SocketInv, OneAttempt, readyState
      <4>2. CASE UNCHANGED sock
          BY <4>2 DEF readyState
      <4>3. CASE close
          BY <4>3, ExceptSeq DEF close, SetState, readyState, TypeOK, ReadyStates
      <4>4. ASSUME NEW t \in timers, TimerFires(t) PROVE UNCHANGED sock \/ connect
          BY <4>4 DEF TimerFires
      <4>5. connect => Len(sock') = Len(sock) + 1
          BY Connects
      <4>6. QED
          BY <1>3, <1>a, <2>3, <4>1, <4>2, <4>3, <4>4, <4>5
          DEF Next, Browser, User, SocketClosing, SocketClose, ErrorFrame, send,
              SendResumes, OnOpenReturns, OnCloseThrows, DataFrame, receive, closeThrows
    <3>5. GaveUp' => GaveUp
        BY <2>3, LostHere
    <3>6. ~reconnectOpts.on => Len(sock') = 1 /\ timers' = {}
        BY <1>3, <3>1 DEF RetryInv
    <3>7. \A n \in Nat : FailedInARow(n)' => n + Pending' <= retryCount' + 1
      <4> SUFFICES ASSUME NEW n \in Nat, FailedInARow(n)' PROVE n + Pending' <= retryCount' + 1
          OBVIOUS
      <4>1. n + Pending <= retryCount + 1
          BY <2>1 DEF RetryInv
      <4>2. Pending' = 0 \/ (Pending' = 1 /\ Pending = 1)
          BY <1>b, <3>2
      <4>3. retryCount' = retryCount /\ retryCount \in Nat
          BY <1>a, <3>1
      <4>4. CASE Pending' = 0
        <5>1. Pending = 0 \/ Pending = 1
            BY <1>b
        <5>2. n <= retryCount + 1
            BY <4>1, <4>3, <5>1
        <5>3. QED
            BY <4>3, <4>4, <5>2
      <4>5. CASE Pending' = 1 /\ Pending = 1
          BY <4>1, <4>3, <4>5
      <4>6. QED
          BY <4>2, <4>4, <4>5
    <3>8. ~closed' \/ frame' = "onclose" =>
             Pending' <= retryCount' /\ FailedInARow(retryCount - Pending)'
        BY <2>1, <3>1, <3>3 DEF RetryInv
    <3>9. GaveUp' => /\ closed' /\ readyState' = "CLOSED"
                     /\ reconnectOpts.on => /\ ~reconnectOpts.forever
                                            /\ FailedInARow(reconnectOpts.maxRetries)'
        BY <1>a, <2>1, <3>1, <3>4, <3>5 DEF RetryInv
    <3>10. QED
        BY <1>a, <3>1, <3>3, <3>6, <3>7, <3>8, <3>9 DEF RetryInv
  <2>4. QED
      BY <2>2, <2>3
<1>4. QED
    BY <1>1, <1>2, <1>3, AttemptsKept

(* The client gives up after exactly maxRetries failed attempts in a row.   *)
THEOREM GivesUpCorrect == Spec => []GivesUpAfterMaxRetries
<1>1. TypeOK /\ SocketInv /\ RetryInv /\ [Next]_vars => (TypeOK /\ SocketInv /\ RetryInv)'
    BY TypeStep, SocketStep, RetryStep
<1>2. TypeOK /\ RetryInv => GivesUpAfterMaxRetries
  <2> SUFFICES ASSUME TypeOK, RetryInv PROVE GivesUpAfterMaxRetries
      OBVIOUS
  <2> DEFINE o == reconnectOpts
  <2>1. o.maxRetries + 2 \in Nat /\ retryCount \in Nat /\ Pending \in {0, 1}
      BY DEF TypeOK, ReconnectOptions, Pending
  <2>2. o.on /\ ~o.forever => ~FailedInARow(o.maxRetries + 2)
      BY <2>1 DEF RetryInv, TypeOK, ReconnectOptions
  <2>3. QED
      BY <2>2 DEF RetryInv, GivesUpAfterMaxRetries
<1>3. QED
    BY <1>1, <1>2, TypeInit, SocketInit, RetryInit, PTL DEF Spec

-----------------------------------------------------------------------------
(* Sends. *)

(* Of the attempts up to the one at the time of the call, none opened, nor  *)
(* will: a later one is current.                                            *)
Missed(on) == on < Len(sock) /\ \A s \in 1..on : s \notin opened

(* A suspended send() was called on the current attempt or has missed its   *)
(* own; microtasks run before the next event, so that after the first open  *)
(* no other attempt can come between.                                       *)
SendInv ==
    /\ firstOpen = "pending" => opened = {}
    /\ \A i \in DOMAIN sends :
          sends[i].res = "sent" => sends[i].sentOn = sends[i].on \/ Missed(sends[i].on)
    /\ \A k \in DOMAIN sendQueue :
          /\ sendQueue[k] \in DOMAIN sends
          /\ LET on == sends[sendQueue[k]].on IN on = Len(sock) \/ Missed(on)

(* Nobody has called send() yet.                                           *)
LEMMA SendInit == Init => SendInv
    BY DEF Init, SendInv

(* What an attempt missed stays missed.                                     *)
LEMMA MissedStays ==
    ASSUME TypeOK, SocketInv, [Next]_vars, NEW on \in Nat, Missed(on)
    PROVE  Missed(on)'
<1>1. Len(sock) \in Nat
    BY DEF TypeOK
<1>2. CASE Len(sock') = Len(sock) /\ UNCHANGED opened
    BY <1>2 DEF Missed
<1>3. ASSUME NEW s \in DOMAIN sock, SocketOpen(s) PROVE Missed(on)'
    BY <1>1, <1>3, OpensCurrent DEF Missed
<1>4. CASE connect
    BY <1>1, <1>4, Connects DEF Missed, connect
<1>5. QED
    BY <1>2, <1>3, <1>4, AttemptsKept

(* The first socket to open settles firstOpen, and it stays settled.        *)
LEMMA PendingStep ==
    ASSUME TypeOK, SocketInv, SendInv, [Next]_vars, firstOpen' = "pending"
    PROVE  opened' = {}
<1>1. CASE UNCHANGED <<firstOpen, opened>>
    BY <1>1 DEF SendInv
<1>2. ASSUME NEW s \in DOMAIN sock, SocketOpen(s) PROVE FALSE
    BY <1>2 DEF SocketOpen
<1>3. ASSUME NEW why \in Reasons, terminate(why) PROVE FALSE
    BY <1>3 DEF terminate, RejectFirstOpen, Reasons
<1>4. QED
    BY <1>1, <1>2, <1>3
    DEF Next, Browser, User, SocketClosing, SocketClose, DataFrame, ErrorFrame, TimerFires,
        connect, OnOpenReturns, OnCloseReturns, scheduleReconnect, OnCloseThrows, SendResumes,
        receive, send, close, closeThrows, Reasons

(* A step other than those of send() keeps what its calls rely on.          *)
LEMMA SendsWait ==
    ASSUME TypeOK, SocketInv, SendInv, [Next]_vars, UNCHANGED sendVars
    PROVE  SendInv'
<1>a. /\ sends \in Seq(Sends) /\ Len(sock) \in Nat
      /\ \A i \in DOMAIN sends : sends[i].on \in Nat
  <2>1. sends \in Seq(Sends) /\ Len(sock) \in Nat
      BY DEF TypeOK
  <2>2. \A i \in DOMAIN sends : sends[i] \in Sends
      BY <2>1
  <2>3. QED
      BY <2>1, <2>2 DEF Sends
<1>1. ASSUME NEW i \in DOMAIN sends, sends[i].res = "sent"
      PROVE  sends[i].sentOn = sends[i].on \/ Missed(sends[i].on)'
    BY <1>a, <1>1, MissedStays DEF SendInv
<1>2. ASSUME NEW k \in DOMAIN sendQueue, NEW on, on = sends[sendQueue[k]].on
      PROVE  on = Len(sock') \/ Missed(on)'
  <2>1. on \in Nat /\ (on = Len(sock) \/ Missed(on))
      BY <1>a, <1>2 DEF SendInv
  <2>2. CASE Missed(on)
      BY <2>1, <2>2, MissedStays
  <2>3. CASE on = Len(sock)
    <3>1. CASE Len(sock') = Len(sock)
        BY <2>3, <3>1
    <3>2. CASE connect /\ \E t \in timers : TimerFires(t)
      <4>1. sendQueue # <<>>
          BY <1>2
      <4>2. firstOpen = "pending"
          BY <3>2, <4>1 DEF TimerFires, Idle, Microtasks
      <4>3. opened' = {} /\ Len(sock') = Len(sock) + 1
          BY <3>2, <4>2, Connects DEF connect, SendInv
      <4>4. QED
          BY <1>a, <2>3, <4>3 DEF Missed
    <3>3. QED
        BY <3>1, <3>2, AttemptsKept, OpensCurrent
  <2>4. QED
      BY <2>1, <2>2, <2>3
<1>3. QED
    BY <1>1, <1>2, PendingStep DEF SendInv

(* A call is queued, a queued one resumes, or the others are kept.          *)
LEMMA SendStep == TypeOK /\ SocketInv /\ SendInv /\ [Next]_vars => SendInv'
<1> SUFFICES ASSUME TypeOK, SocketInv, SendInv, [Next]_vars PROVE SendInv'
    OBVIOUS
<1>a. /\ sends \in Seq(Sends) /\ Len(sends) \in Nat /\ DOMAIN sends = 1..Len(sends)
      /\ sendQueue \in Seq(Nat) /\ Len(sock) \in Nat
    BY DEF TypeOK
<1>1. CASE UNCHANGED sendVars
    BY <1>1, SendsWait
<1>2. CASE send
  <2> DEFINE e   == [res |-> "pending", on |-> Len(sock), sentOn |-> 0]
             new == Append(sends, e)
             q   == Append(sendQueue, Len(sends) + 1)
  <2>1. /\ sends' = new /\ sendQueue' = q
        /\ UNCHANGED <<sock, opened, firstOpen>>
      BY <1>2 DEF send
  <2>2. e \in Sends /\ e.res = "pending" /\ e.on = Len(sock)
      BY <1>a DEF Sends
  <2> HIDE DEF e
  <2>3. /\ DOMAIN new = 1..(Len(sends) + 1) /\ new[Len(sends) + 1] = e
        /\ \A i \in 1..Len(sends) : new[i] = sends[i]
      BY <1>a, <2>2, AppendProperties
  <2>4. /\ DOMAIN q = 1..(Len(sendQueue) + 1) /\ q[Len(sendQueue) + 1] = Len(sends) + 1
        /\ \A k \in 1..Len(sendQueue) : q[k] = sendQueue[k]
        /\ DOMAIN sendQueue = 1..Len(sendQueue) /\ Len(sendQueue) \in Nat
      BY <1>a, AppendProperties
  <2> HIDE DEF new, q
  <2>5. \A on : Missed(on)' <=> Missed(on)
      BY <2>1 DEF Missed
  <2>6. ASSUME NEW i \in DOMAIN new, new[i].res = "sent"
        PROVE  new[i].sentOn = new[i].on \/ Missed(new[i].on)
    <3>1. i # Len(sends) + 1
        BY <2>2, <2>3, <2>6
    <3>2. i \in DOMAIN sends
        BY <1>a, <2>3, <2>6, <3>1
    <3>3. new[i] = sends[i]
        BY <1>a, <2>3, <3>2
    <3>4. QED
        BY <2>6, <3>2, <3>3 DEF SendInv
  <2>7. ASSUME NEW k \in DOMAIN q
        PROVE  q[k] \in DOMAIN new /\ (new[q[k]].on = Len(sock) \/ Missed(new[q[k]].on))
    <3>1. CASE k = Len(sendQueue) + 1
        BY <1>a, <2>2, <2>3, <2>4, <3>1
    <3>2. CASE k \in 1..Len(sendQueue)
        BY <1>a, <2>3, <2>4, <3>2 DEF SendInv
    <3>3. QED
        BY <2>4, <2>7, <3>1, <3>2
  <2>8. QED
      BY <2>1, <2>5, <2>6, <2>7 DEF SendInv
<1>3. CASE SendResumes
  <2> DEFINE h       == Head(sendQueue)
             written == firstOpen = "resolved" /\ readyState = "OPEN"
             e == [on     |-> sends[h].on,
                   sentOn |-> IF written THEN Len(sock) ELSE 0,
                   res    |-> IF written THEN "sent"
                              ELSE IF firstOpen = "resolved" THEN "notOpen" ELSE firstOpen]
  <2>1. /\ sends' = [sends EXCEPT ![h] = e] /\ sendQueue' = Tail(sendQueue) /\ sendQueue # <<>>
        /\ UNCHANGED <<sock, opened, firstOpen>>
      BY <1>3 DEF SendResumes, Microtasks
  <2>2. h \in DOMAIN sends /\ (sends[h].on = Len(sock) \/ Missed(sends[h].on))
    <3>1. 1 \in DOMAIN sendQueue /\ sendQueue[1] = h
        BY <1>a, <2>1
    <3>2. QED
        BY <3>1 DEF SendInv
  <2>3. e.on = sends[h].on /\ (e.res = "sent" => e.sentOn = Len(sock))
    <3>1. firstOpen # "sent"
        BY DEF TypeOK, Reasons
    <3>2. QED
        BY <3>1
  <2> HIDE DEF h, e
  <2>4. /\ DOMAIN sends' = DOMAIN sends /\ sends'[h] = e
        /\ \A i \in DOMAIN sends : i # h => sends'[i] = sends[i]
      BY <2>1, <2>2
  <2>5. \A on : Missed(on)' <=> Missed(on)
      BY <2>1 DEF Missed
  <2>6. ASSUME NEW i \in DOMAIN sends, sends'[i].res = "sent"
        PROVE  sends'[i].sentOn = sends'[i].on \/ Missed(sends'[i].on)
      BY <2>2, <2>3, <2>4, <2>6 DEF SendInv
  <2>7. \A i \in DOMAIN sends : sends'[i].on = sends[i].on
      BY <2>3, <2>4
  <2>8. ASSUME NEW k \in DOMAIN sendQueue'
        PROVE  \E j \in DOMAIN sendQueue : sendQueue'[k] = sendQueue[j]
    <3>1. k + 1 \in DOMAIN sendQueue /\ sendQueue'[k] = sendQueue[k + 1]
        BY <1>a, <2>1, <2>8
    <3>2. QED
        BY <3>1
  <2>9. ASSUME NEW k \in DOMAIN sendQueue'
        PROVE  /\ sendQueue'[k] \in DOMAIN sends
               /\ LET on == sends[sendQueue'[k]].on IN on = Len(sock) \/ Missed(on)
      BY <2>8, <2>9 DEF SendInv
  <2>10. QED
      BY <2>1, <2>4, <2>5, <2>6, <2>7, <2>9 DEF SendInv
<1>4. QED
    BY <1>1, <1>2, <1>3
    DEF Next, Browser, User, SocketOpen, SocketClosing, SocketClose, DataFrame, ErrorFrame,
        TimerFires, OnOpenReturns, OnCloseReturns, OnCloseThrows, receive, close, closeThrows

(* A message never goes to a socket later than the one that was current     *)
(* when it was sent, except when that one never opened.                     *)
THEOREM SendsDoNotCrossCorrect == Spec => []SendsDoNotCrossConnections
<1>1. TypeOK /\ SocketInv /\ SendInv /\ [Next]_vars => (TypeOK /\ SocketInv /\ SendInv)'
    BY TypeStep, SocketStep, SendStep
<1>2. SendInv => SendsDoNotCrossConnections
    BY DEF SendInv, SendsDoNotCrossConnections, Missed
<1>3. QED
    BY <1>1, <1>2, TypeInit, SocketInit, SendInit, PTL DEF Spec

-----------------------------------------------------------------------------
(* receive(): frames reach the callers exactly once and in order, nobody is *)
(* left waiting, and the client implements the abstract Mailbox.            *)

(* The steps of the client as receive() sees them.                          *)
Arrives ==
    /\ arrived' = arrived + 1
    /\ \/ /\ recvQueue # <<>>
          /\ receives' = [receives EXCEPT ![Head(recvQueue)] =
                            [res |-> "message", msg |-> arrived + 1]]
          /\ recvQueue' = Tail(recvQueue)
          /\ UNCHANGED recvBuffer
       \/ /\ recvQueue = <<>>
          /\ recvBuffer' = Append(recvBuffer, arrived + 1)
          /\ UNCHANGED <<recvQueue, receives>>
    /\ UNCHANGED endVars

Ends ==
    /\ \E why \in Reasons : RejectReceives(why)
    /\ closed' = TRUE /\ fatalError' \in BOOLEAN
    /\ UNCHANGED <<recvBuffer, arrived>>

BadClose == UserThrows /\ closed' = TRUE /\ UNCHANGED <<recvVars, fatalError>>

(* To the callers of receive() every step of the client is one of these:   *)
(* a frame arrives, a call, the end of the connection, a close() that threw *)
(* half-way, or nothing.                                                    *)
LEMMA DeliverySteps ==
    ASSUME TypeOK, [Next]_vars
    PROVE  Arrives \/ receive \/ Ends \/ BadClose \/ UNCHANGED <<recvVars, endVars>>
<1>1. ASSUME NEW s \in DOMAIN sock, DataFrame(s) PROVE Arrives
    BY <1>1 DEF DataFrame, Arrives
<1>2. ASSUME NEW s \in DOMAIN sock, ErrorFrame(s) PROVE Ends
    BY <1>2 DEF ErrorFrame, terminate, Ends, Reasons
<1>3. CASE OnCloseReturns
  <2>1. CASE terminate("lost")
      BY <1>3, <2>1 DEF OnCloseReturns, terminate, Ends, Reasons, TypeOK
  <2>2. CASE UNCHANGED <<closed, firstOpen, recvQueue, receives>>
      BY <1>3, <2>2 DEF OnCloseReturns
  <2>3. QED
      BY <1>3, <2>1, <2>2 DEF OnCloseReturns, scheduleReconnect
<1>4. CASE close
    BY <1>4 DEF close, terminate, Ends, Reasons, TypeOK
<1>5. CASE closeThrows
    BY <1>5 DEF closeThrows, BadClose
<1>6. CASE receive
    BY <1>6
<1>7. CASE UNCHANGED <<recvVars, endVars>>
    BY <1>7
<1>8. QED
    BY <1>1, <1>2, <1>3, <1>4, <1>5, <1>6, <1>7
    DEF Next, Browser, User, SocketOpen, SocketClosing, SocketClose, TimerFires,
        OnOpenReturns, OnCloseThrows, SendResumes, send

-----------------------------------------------------------------------------
(* Who waits: the queue holds the pending calls, oldest first.              *)
QueueInv ==
    /\ \A i \in 1..Len(recvQueue) :
          recvQueue[i] \in 1..Len(receives) /\ receives[recvQueue[i]].res = "pending"
    /\ \A r \in 1..Len(receives) :
          receives[r].res = "pending" => \E i \in 1..Len(recvQueue) : recvQueue[i] = r
    /\ \A i, j \in 1..Len(recvQueue) : i < j => recvQueue[i] < recvQueue[j]
    /\ recvQueue # <<>> => recvBuffer = <<>>
    /\ closed /\ ~UserThrows => recvQueue = <<>>
    /\ fatalError => closed

(* What was delivered: the frames before those still buffered, in order, to *)
(* callers older than those who wait.                                       *)
taken == arrived - Len(recvBuffer)

OrderInv ==
    /\ Len(recvBuffer) <= arrived
    /\ \A i \in 1..Len(recvBuffer) : recvBuffer[i] = taken + i
    /\ \A r \in Delivered : receives[r].msg \in 1..taken
    /\ \A m \in 1..taken : \E r \in Delivered : receives[r].msg = m
    /\ \A q, r \in Delivered : q < r => receives[q].msg < receives[r].msg
    /\ \A q \in Delivered : \A i \in 1..Len(recvQueue) : q < recvQueue[i]

(* An exact queue leaves nobody waiting (recvQueue, websocket.ts 138-142).  *)
LEMMA QueueImplies == TypeOK /\ QueueInv => NoneLeftWaiting
<1> SUFFICES ASSUME TypeOK, QueueInv PROVE NoneLeftWaiting
    OBVIOUS
<1>1. DOMAIN recvQueue = 1..Len(recvQueue) /\ DOMAIN receives = 1..Len(receives)
    BY DEF TypeOK
<1>2. QED
    BY <1>1, SMTT(30) DEF QueueInv, NoneLeftWaiting

(* Frames numbered without a gap, taken from the front, are delivered once  *)
(* and in order (recvBuffer, websocket.ts 143-144).                         *)
LEMMA OrderImplies == TypeOK /\ OrderInv => ExactlyOnceInOrder
<1> SUFFICES ASSUME TypeOK, OrderInv PROVE ExactlyOnceInOrder
    OBVIOUS
<1>1. DOMAIN recvBuffer = 1..Len(recvBuffer) /\ Len(recvBuffer) \in Nat /\ arrived \in Nat
    BY DEF TypeOK
<1>2. taken \in Nat /\ taken + Len(recvBuffer) = arrived
    BY <1>1 DEF OrderInv, taken
<1>3. \A i, j \in DOMAIN recvBuffer : i < j => recvBuffer[i] < recvBuffer[j]
    BY <1>1, <1>2 DEF OrderInv
<1>4. \A r \in Delivered : \A i \in DOMAIN recvBuffer : receives[r].msg < recvBuffer[i]
    BY <1>1, <1>2 DEF OrderInv
<1>5. ASSUME NEW m \in 1..arrived
      PROVE  \/ \E r \in Delivered : receives[r].msg = m
             \/ \E i \in DOMAIN recvBuffer : recvBuffer[i] = m
  <2>1. CASE m <= taken
      BY <1>2, <2>1 DEF OrderInv
  <2>2. CASE m > taken
    <3>1. m - taken \in 1..Len(recvBuffer) /\ taken + (m - taken) = m
        BY <1>1, <1>2, <2>2
    <3>2. recvBuffer[m - taken] = m
        BY <3>1 DEF OrderInv
    <3>3. QED
        BY <1>1, <3>1, <3>2
  <2>3. QED
      BY <1>2, <2>1, <2>2
<1>6. \A r \in Delivered : receives[r].msg \in 1..arrived
    BY <1>1, <1>2 DEF OrderInv
<1>7. \A i \in DOMAIN recvBuffer : recvBuffer[i] \in 1..arrived
    BY <1>1, <1>2 DEF OrderInv
<1>8. {receives[r].msg : r \in Delivered}
        \cup {recvBuffer[i] : i \in DOMAIN recvBuffer} = 1..arrived
    BY <1>5, <1>6, <1>7
<1>9. QED
    BY <1>3, <1>4, <1>8 DEF ExactlyOnceInOrder, OrderInv

-----------------------------------------------------------------------------
(* What each kind of step does to the sequences, element by element.        *)
Lengths ==
    /\ Len(receives) \in Nat /\ Len(recvQueue) \in Nat /\ Len(recvBuffer) \in Nat
    /\ DOMAIN receives = 1..Len(receives)

(* The lengths the delivery arguments count with are natural numbers.       *)
LEMMA LengthsOK == TypeOK => Lengths
    BY DEF TypeOK, Lengths

Give ==
    /\ recvQueue # <<>>
    /\ receives' = [receives EXCEPT ![Head(recvQueue)] =
                      [res |-> "message", msg |-> arrived + 1]]
    /\ recvQueue' = Tail(recvQueue)

(* Handing a frame to the oldest caller settles that call and no other      *)
(* (recvQueue.shift and pending.resolve, websocket.ts 213-215).             *)
LEMMA GiveFacts ==
    ASSUME TypeOK, QueueInv, Give
    PROVE  /\ Len(recvQueue) > 0 /\ recvQueue[1] \in 1..Len(receives)
           /\ Len(receives') = Len(receives)
           /\ receives'[recvQueue[1]] = [res |-> "message", msg |-> arrived + 1]
           /\ \A r \in 1..Len(receives) : r # recvQueue[1] => receives'[r] = receives[r]
           /\ Len(recvQueue') = Len(recvQueue) - 1
           /\ \A i \in 1..(Len(recvQueue) - 1) : recvQueue'[i] = recvQueue[i + 1]
<1>1. recvQueue \in Seq(Nat) /\ receives \in Seq(Receives)
    BY DEF TypeOK
<1>2. Len(recvQueue) \in Nat \ {0} /\ Head(recvQueue) = recvQueue[1]
    BY <1>1, EmptySeq DEF Give
<1>3. /\ Len(Tail(recvQueue)) = Len(recvQueue) - 1
      /\ \A i \in 1..Len(Tail(recvQueue)) : Tail(recvQueue)[i] = recvQueue[i + 1]
    BY <1>1, HeadTailProperties DEF Give
<1>4. recvQueue[1] \in 1..Len(receives)
    BY <1>2 DEF QueueInv
<1>5. arrived + 1 \in Nat /\ [res |-> "message", msg |-> arrived + 1] \in Receives
    BY DEF TypeOK, Receives
<1>6. /\ Len(receives') = Len(receives)
      /\ \A r \in 1..Len(receives) : receives'[r] =
            IF r = recvQueue[1] THEN [res |-> "message", msg |-> arrived + 1]
            ELSE receives[r]
    BY <1>1, <1>2, <1>4, <1>5, ExceptSeq DEF Give
<1>7. QED
    BY <1>2, <1>3, <1>4, <1>6 DEF Give

(* A call of receive() adds one call at the end.                            *)
LEMMA CallFacts ==
    ASSUME TypeOK, receive
    PROVE  /\ Len(receives') = Len(receives) + 1
           /\ \A r \in 1..Len(receives) : receives'[r] = receives[r]
           /\ receives'[Len(receives) + 1] =
                IF recvBuffer # <<>> THEN [res |-> "message", msg |-> recvBuffer[1]]
                ELSE IF fatalError THEN [res |-> "WSError", msg |-> 0]
                ELSE IF closed THEN [res |-> "closed", msg |-> 0]
                ELSE [res |-> "pending", msg |-> 0]
<1>1. receives \in Seq(Receives) /\ recvBuffer \in Seq(Nat)
    BY DEF TypeOK
<1>2. /\ [res |-> "WSError", msg |-> 0] \in Receives
      /\ [res |-> "closed", msg |-> 0] \in Receives
      /\ [res |-> "pending", msg |-> 0] \in Receives
    BY DEF Receives, Reasons
<1>3. ASSUME NEW e \in Receives, receives' = Append(receives, e)
      PROVE  /\ Len(receives') = Len(receives) + 1
             /\ \A r \in 1..Len(receives) : receives'[r] = receives[r]
             /\ receives'[Len(receives) + 1] = e
    BY <1>1, <1>3, AppendProperties
<1>4. CASE recvBuffer # <<>>
  <2>1. Head(recvBuffer) = recvBuffer[1] /\ Head(recvBuffer) \in Nat
      BY <1>1, <1>4, HeadTailProperties
  <2>2. [res |-> "message", msg |-> recvBuffer[1]] \in Receives
      BY <2>1 DEF Receives
  <2>3. receives' = Append(receives, [res |-> "message", msg |-> recvBuffer[1]])
      BY <1>4, <2>1 DEF receive
  <2>4. QED
      BY <1>3, <1>4, <2>2, <2>3
<1>5. CASE recvBuffer = <<>> /\ fatalError
  <2>1. receives' = Append(receives, [res |-> "WSError", msg |-> 0])
      BY <1>5 DEF receive
  <2>2. QED
      BY <1>2, <1>3, <1>5, <2>1
<1>6. CASE recvBuffer = <<>> /\ ~fatalError /\ closed
  <2>1. receives' = Append(receives, [res |-> "closed", msg |-> 0])
      BY <1>6 DEF receive
  <2>2. QED
      BY <1>2, <1>3, <1>6, <2>1
<1>7. CASE recvBuffer = <<>> /\ ~fatalError /\ ~closed
  <2>1. receives' = Append(receives, [res |-> "pending", msg |-> 0])
      BY <1>7 DEF receive
  <2>2. QED
      BY <1>2, <1>3, <1>7, <2>1
<1>8. QED
    BY <1>4, <1>5, <1>6, <1>7

(* What a call of receive() does to the queue and the buffer.               *)
LEMMA CallQueues ==
    ASSUME TypeOK, receive
    PROVE  \/ /\ recvBuffer # <<>> /\ recvBuffer' = Tail(recvBuffer)
              /\ Len(recvBuffer) > 0 /\ Len(recvBuffer') = Len(recvBuffer) - 1
              /\ \A i \in 1..(Len(recvBuffer) - 1) : recvBuffer'[i] = recvBuffer[i + 1]
              /\ UNCHANGED recvQueue
           \/ /\ recvBuffer = <<>> /\ (fatalError \/ closed)
              /\ UNCHANGED <<recvQueue, recvBuffer>>
           \/ /\ recvBuffer = <<>> /\ ~fatalError /\ ~closed
              /\ Len(recvQueue') = Len(recvQueue) + 1
              /\ \A i \in 1..Len(recvQueue) : recvQueue'[i] = recvQueue[i]
              /\ recvQueue'[Len(recvQueue) + 1] = Len(receives) + 1
              /\ UNCHANGED recvBuffer
<1>1. recvQueue \in Seq(Nat) /\ recvBuffer \in Seq(Nat) /\ Len(receives) + 1 \in Nat
    BY DEF TypeOK
<1>2. recvBuffer # <<>> =>
        /\ Len(Tail(recvBuffer)) = Len(recvBuffer) - 1 /\ Len(recvBuffer) \in Nat \ {0}
        /\ \A i \in 1..Len(Tail(recvBuffer)) : Tail(recvBuffer)[i] = recvBuffer[i + 1]
    BY <1>1, HeadTailProperties, EmptySeq
<1>3. LET q == Append(recvQueue, Len(receives) + 1)
      IN  /\ Len(q) = Len(recvQueue) + 1
          /\ \A i \in 1..Len(recvQueue) : q[i] = recvQueue[i]
          /\ q[Len(recvQueue) + 1] = Len(receives) + 1
    BY <1>1, AppendProperties
<1>4. CASE recvBuffer # <<>>
  <2>1. recvBuffer' = Tail(recvBuffer) /\ UNCHANGED recvQueue
      BY <1>4 DEF receive
  <2>2. QED
      BY <1>2, <1>4, <2>1
<1>5. CASE recvBuffer = <<>> /\ (fatalError \/ closed)
    BY <1>5 DEF receive
<1>6. CASE recvBuffer = <<>> /\ ~fatalError /\ ~closed
  <2>1. recvQueue' = Append(recvQueue, Len(receives) + 1) /\ UNCHANGED recvBuffer
      BY <1>6 DEF receive
  <2>2. QED
      BY <1>3, <1>6, <2>1
<1>7. QED
    BY <1>4, <1>5, <1>6

(* Rejecting the callers settles exactly the calls in the queue.            *)
LEMMA RejectFacts ==
    ASSUME TypeOK, QueueInv, NEW why \in Reasons, RejectReceives(why)
    PROVE  /\ recvQueue' = <<>> /\ Len(recvQueue') = 0
           /\ Len(receives') = Len(receives)
           /\ \A r \in 1..Len(receives) :
                receives'[r] = IF receives[r].res = "pending"
                               THEN [res |-> why, msg |-> 0] ELSE receives[r]
<1>1. Len(receives') = Len(receives)
    BY RejectType
<1>2. DOMAIN receives = 1..Len(receives) /\ DOMAIN recvQueue = 1..Len(recvQueue)
    BY DEF TypeOK
<1>3. \A r \in 1..Len(receives) :
        receives[r].res = "pending" <=> \E i \in DOMAIN recvQueue : recvQueue[i] = r
    BY <1>2 DEF QueueInv
<1>4. \A r \in 1..Len(receives) :
        receives'[r] = IF \E i \in DOMAIN recvQueue : recvQueue[i] = r
                       THEN [res |-> why, msg |-> 0] ELSE receives[r]
    BY <1>2 DEF RejectReceives
<1>5. \A r \in 1..Len(receives) :
        receives'[r] = IF receives[r].res = "pending"
                       THEN [res |-> why, msg |-> 0] ELSE receives[r]
    BY <1>3, <1>4
<1>6. recvQueue' = <<>> /\ Len(recvQueue') = 0
    BY DEF RejectReceives
<1>7. QED
    BY <1>1, <1>5, <1>6

(* So the end of the connection settles them, for one reason.               *)
LEMMA EndFacts ==
    ASSUME TypeOK, QueueInv, Ends
    PROVE  /\ recvQueue' = <<>> /\ Len(recvQueue') = 0
           /\ Len(receives') = Len(receives)
           /\ \E why \in Reasons : \A r \in 1..Len(receives) :
                receives'[r] = IF receives[r].res = "pending"
                               THEN [res |-> why, msg |-> 0] ELSE receives[r]
<1>1. PICK why \in Reasons : RejectReceives(why)
    BY DEF Ends
<1>2. QED
    BY <1>1, RejectFacts

-----------------------------------------------------------------------------
(* A new connection has no callers and no frames.                           *)
LEMMA QueueInit == Init => QueueInv /\ OrderInv
<1> SUFFICES ASSUME Init PROVE QueueInv /\ OrderInv
    OBVIOUS
<1>1. /\ Len(recvQueue) = 0 /\ Len(recvBuffer) = 0 /\ Len(receives) = 0
      /\ arrived = 0 /\ taken = 0 /\ Delivered = {}
  <2>1. Len(recvQueue) = 0 /\ Len(recvBuffer) = 0 /\ Len(receives) = 0 /\ arrived = 0
      BY EmptySeq DEF Init
  <2>2. DOMAIN receives = {}
      BY DEF Init
  <2>3. taken = 0
      BY <2>1 DEF taken
  <2>4. Delivered = {}
      BY <2>2 DEF Delivered
  <2>5. QED
      BY <2>1, <2>3, <2>4
<1>2. QED
    BY <1>1 DEF Init, QueueInv, OrderInv

(* The queue of waiting callers stays exact through every step.             *)
LEMMA QueueStep == TypeOK /\ QueueInv /\ [Next]_vars => QueueInv'
<1> SUFFICES ASSUME TypeOK, QueueInv, [Next]_vars PROVE QueueInv'
    OBVIOUS
<1>a. Lengths
    BY LengthsOK
<1>1. CASE Arrives
  <2>1. CASE Give /\ UNCHANGED recvBuffer
    <3>1. /\ recvBuffer' = <<>> /\ UNCHANGED endVars /\ ~(closed /\ ~UserThrows)
        BY <1>1, <2>1 DEF Arrives, QueueInv, Give
    <3>2. \A i \in 1..Len(recvQueue') :
            /\ recvQueue'[i] \in 1..Len(receives') /\ recvQueue'[i] # recvQueue[1]
            /\ receives'[recvQueue'[i]].res = "pending"
      <4> TAKE i \in 1..Len(recvQueue')
      <4>1. /\ i + 1 \in 1..Len(recvQueue) /\ 1 \in 1..Len(recvQueue) /\ 1 < i + 1
            /\ recvQueue'[i] = recvQueue[i + 1]
          BY <1>a, <2>1, GiveFacts DEF Lengths
      <4>2. /\ recvQueue[i + 1] \in 1..Len(receives) /\ recvQueue[1] < recvQueue[i + 1]
            /\ receives[recvQueue[i + 1]].res = "pending"
            /\ recvQueue[1] \in 1..Len(receives)
          BY <4>1 DEF QueueInv
      <4>3. QED
          BY <1>a, <2>1, <4>1, <4>2, GiveFacts DEF Lengths
    <3>3. ASSUME NEW r \in 1..Len(receives'), receives'[r].res = "pending"
          PROVE  \E i \in 1..Len(recvQueue') : recvQueue'[i] = r
      <4>1. r # recvQueue[1] /\ r \in 1..Len(receives) /\ receives[r].res = "pending"
          BY <2>1, <3>3, GiveFacts
      <4>2. PICK i \in 1..Len(recvQueue) : recvQueue[i] = r
          BY <4>1 DEF QueueInv
      <4>3. i - 1 \in 1..Len(recvQueue') /\ recvQueue'[i - 1] = r
          BY <1>a, <2>1, <4>1, <4>2, GiveFacts DEF Lengths
      <4>4. QED
          BY <4>3
    <3>4. \A i, j \in 1..Len(recvQueue') : i < j => recvQueue'[i] < recvQueue'[j]
      <4> TAKE i, j \in 1..Len(recvQueue')
      <4>1. /\ i + 1 \in 1..Len(recvQueue) /\ j + 1 \in 1..Len(recvQueue)
            /\ recvQueue'[i] = recvQueue[i + 1] /\ recvQueue'[j] = recvQueue[j + 1]
            /\ i < j => i + 1 < j + 1
          BY <1>a, <2>1, GiveFacts DEF Lengths
      <4>2. QED
          BY <4>1 DEF QueueInv
    <3>5. QED
        BY <3>1, <3>2, <3>3, <3>4 DEF QueueInv
  <2>2. CASE recvQueue = <<>> /\ UNCHANGED <<recvQueue, receives, endVars>>
      BY <2>2 DEF QueueInv
  <2>3. QED
      BY <1>1, <2>1, <2>2 DEF Arrives, Give
<1>2. CASE receive
  <2>1. UNCHANGED endVars
      BY <1>2 DEF receive
  <2>2. CASE UNCHANGED recvQueue /\ receives'[Len(receives) + 1].res # "pending"
             /\ (recvBuffer' = <<>> \/ recvQueue = <<>>)
      BY <1>a, <1>2, <2>1, <2>2, CallFacts DEF QueueInv, Lengths
  <2>3. CASE /\ recvBuffer = <<>> /\ ~fatalError /\ ~closed
             /\ Len(recvQueue') = Len(recvQueue) + 1
             /\ \A i \in 1..Len(recvQueue) : recvQueue'[i] = recvQueue[i]
             /\ recvQueue'[Len(recvQueue) + 1] = Len(receives) + 1
             /\ UNCHANGED recvBuffer
    <3>1. receives'[Len(receives) + 1].res = "pending"
        BY <1>2, <2>3, CallFacts
    <3>2. \A i \in 1..Len(recvQueue') :
            /\ recvQueue'[i] \in 1..Len(receives')
            /\ receives'[recvQueue'[i]].res = "pending"
        BY <1>a, <1>2, <2>3, <3>1, CallFacts, SMTT(30) DEF QueueInv, Lengths
    <3>3. ASSUME NEW r \in 1..Len(receives'), receives'[r].res = "pending"
          PROVE  \E i \in 1..Len(recvQueue') : recvQueue'[i] = r
      <4>1. CASE r = Len(receives) + 1
          BY <1>a, <2>3, <4>1 DEF Lengths
      <4>2. CASE r \in 1..Len(receives)
          BY <1>a, <1>2, <2>3, <3>3, <4>2, CallFacts DEF QueueInv, Lengths
      <4>3. QED
          BY <1>a, <1>2, <4>1, <4>2, CallFacts DEF Lengths
    <3>4. \A i, j \in 1..Len(recvQueue') : i < j => recvQueue'[i] < recvQueue'[j]
        BY <1>a, <2>3 DEF QueueInv, Lengths
    <3>5. QED
        BY <2>1, <2>3, <3>2, <3>3, <3>4 DEF QueueInv
  <2>4. QED
    <3>1. recvBuffer # <<>> => recvQueue = <<>>
        BY DEF QueueInv
    <3>2. QED
        BY <1>2, <2>2, <2>3, <3>1, CallFacts, CallQueues
<1>3. CASE Ends
    BY <1>a, <1>3, EndFacts DEF QueueInv, Ends, Lengths, Reasons
<1>4. CASE BadClose
    BY <1>4 DEF BadClose, QueueInv
<1>5. CASE UNCHANGED <<recvVars, endVars>>
    BY <1>5 DEF QueueInv
<1>6. QED
    BY <1>1, <1>2, <1>3, <1>4, <1>5, DeliverySteps

(* Order is kept by every step.                                             *)
LEMMA OrderStep == TypeOK /\ QueueInv /\ OrderInv /\ [Next]_vars => OrderInv'
<1> SUFFICES ASSUME TypeOK, QueueInv, OrderInv, [Next]_vars PROVE OrderInv'
    OBVIOUS
<1>a. /\ Lengths /\ arrived \in Nat /\ taken \in Nat
      /\ taken + Len(recvBuffer) = arrived
  <2>1. Lengths /\ arrived \in Nat
      BY LengthsOK DEF TypeOK
  <2>2. Len(recvBuffer) <= arrived /\ Len(recvBuffer) \in Nat
      BY <2>1 DEF OrderInv, Lengths
  <2>3. QED
      BY <2>1, <2>2 DEF taken
<1>b. TypeOK' /\ Lengths'
  <2>1. TypeOK'
      BY TypeStep
  <2>2. QED
      BY <2>1 DEF TypeOK, Lengths
<1>c. \A r : r \in Delivered <=> r \in 1..Len(receives) /\ receives[r].res = "message"
    BY <1>a DEF Delivered, Lengths
<1>d. \A r : r \in Delivered' <=> r \in 1..Len(receives') /\ receives'[r].res = "message"
    BY <1>b DEF Delivered, Lengths
<1>e. \A i \in 1..Len(recvQueue) : recvQueue[i] \in 1..Len(receives) /\ recvQueue[i] \notin Delivered
    BY <1>c DEF QueueInv
<1>1. CASE Arrives /\ Give /\ UNCHANGED recvBuffer
  <2>1. /\ Len(recvBuffer) = 0 /\ taken = arrived /\ taken' = arrived + 1
        /\ arrived' = arrived + 1
      BY <1>1, <1>a DEF Arrives, Give, QueueInv, taken
  <2> DEFINE c == recvQueue[1]
  <2>2. /\ c \in Delivered' /\ receives'[c].msg = arrived + 1
        /\ \A r : r \in Delivered' <=> r \in Delivered \/ r = c
        /\ \A r \in Delivered : r # c /\ receives'[r] = receives[r]
    <3>1. /\ 1 \in 1..Len(recvQueue) /\ c \in 1..Len(receives) /\ c \notin Delivered
          /\ Len(receives') = Len(receives)
          /\ receives'[c] = [res |-> "message", msg |-> arrived + 1]
          /\ \A r \in 1..Len(receives) : r # c => receives'[r] = receives[r]
        BY <1>1, <1>a, <1>e, GiveFacts DEF Lengths
    <3>2. QED
        BY <1>c, <1>d, <3>1
  <2>3. \A r \in Delivered' : receives'[r].msg \in 1..taken'
      BY <1>a, <2>1, <2>2 DEF OrderInv
  <2>4. \A m \in 1..taken' : \E r \in Delivered' : receives'[r].msg = m
      BY <1>a, <2>1, <2>2 DEF OrderInv
  <2>5. \A q \in Delivered : q < c
      BY <1>1, <1>a, GiveFacts DEF OrderInv, Lengths
  <2>6. \A q, r \in Delivered' : q < r => receives'[q].msg < receives'[r].msg
    <3> TAKE q, r \in Delivered'
    <3>0. q \in Nat /\ r \in Nat /\ c \in Nat
        BY <1>b, <1>d, <2>2 DEF Lengths
    <3>1. CASE q \in Delivered /\ r \in Delivered
        BY <2>2, <3>1 DEF OrderInv
    <3>2. CASE q \in Delivered /\ r = c
        BY <1>a, <2>1, <2>2, <3>2 DEF OrderInv
    <3>3. CASE q = c
        BY <2>2, <2>5, <3>0, <3>3
    <3>4. QED
        BY <2>2, <3>1, <3>2, <3>3
  <2>7. \A q \in Delivered' : \A i \in 1..Len(recvQueue') : q < recvQueue'[i]
    <3> TAKE q \in Delivered'
    <3> TAKE i \in 1..Len(recvQueue')
    <3>1. /\ i + 1 \in 1..Len(recvQueue) /\ 1 \in 1..Len(recvQueue) /\ 1 < i + 1
          /\ recvQueue'[i] = recvQueue[i + 1]
        BY <1>1, <1>a, GiveFacts DEF Lengths
    <3>2. CASE q = c
        BY <3>1, <3>2 DEF QueueInv
    <3>3. CASE q \in Delivered
        BY <3>1, <3>3 DEF OrderInv
    <3>4. QED
        BY <2>2, <3>2, <3>3
  <2>8. /\ Len(recvBuffer') <= arrived'
        /\ \A i \in 1..Len(recvBuffer') : recvBuffer'[i] = taken' + i
      BY <1>1, <1>a, <2>1
  <2>9. QED
      BY <2>3, <2>4, <2>6, <2>7, <2>8 DEF OrderInv
<1>2. CASE /\ recvBuffer' = Append(recvBuffer, arrived + 1) /\ arrived' = arrived + 1
           /\ UNCHANGED <<recvQueue, receives>>
  <2>1. recvBuffer \in Seq(Nat) /\ arrived + 1 \in Nat
      BY DEF TypeOK
  <2>2. /\ Len(recvBuffer') = Len(recvBuffer) + 1
        /\ \A i \in 1..Len(recvBuffer) : recvBuffer'[i] = recvBuffer[i]
        /\ recvBuffer'[Len(recvBuffer) + 1] = arrived + 1
      BY <1>2, <2>1, AppendProperties
  <2>3. taken' = taken /\ Delivered' = Delivered
    <3>1. taken' = (arrived + 1) - (Len(recvBuffer) + 1)
        BY <1>2, <2>2 DEF taken
    <3>2. taken' = taken
        BY <1>a, <3>1 DEF taken, Lengths
    <3>3. Delivered' = Delivered
        BY <1>2 DEF Delivered
    <3>4. QED
        BY <3>2, <3>3
  <2>4. \A i \in 1..Len(recvBuffer') : recvBuffer'[i] = taken' + i
    <3> TAKE i \in 1..Len(recvBuffer')
    <3>1. CASE i \in 1..Len(recvBuffer)
        BY <2>2, <2>3, <3>1 DEF OrderInv
    <3>2. CASE i = Len(recvBuffer) + 1
      <4>1. recvBuffer'[i] = arrived + 1
          BY <2>2, <3>2
      <4>2. taken' + i = arrived + 1
          BY <1>a, <2>3, <3>2 DEF Lengths
      <4>3. QED
          BY <4>1, <4>2
    <3>3. QED
        BY <1>a, <2>2, <3>1, <3>2 DEF Lengths
  <2>5. QED
      BY <1>2, <1>a, <2>2, <2>3, <2>4 DEF OrderInv, Lengths
<1>3. CASE receive
  <2>1. UNCHANGED arrived
      BY <1>3 DEF receive
  <2> DEFINE n == Len(receives) + 1
  <2>2. CASE recvBuffer # <<>>
    <3>1. /\ Len(recvBuffer) > 0 /\ Len(recvBuffer') = Len(recvBuffer) - 1
          /\ \A i \in 1..(Len(recvBuffer) - 1) : recvBuffer'[i] = recvBuffer[i + 1]
          /\ UNCHANGED recvQueue /\ recvQueue = <<>> /\ Len(recvQueue') = 0
        BY <1>3, <2>2, CallQueues DEF QueueInv
    <3>2. taken' = taken + 1 /\ recvBuffer[1] = taken + 1 /\ taken + 1 \in Nat
        BY <1>a, <2>1, <3>1 DEF OrderInv, taken, Lengths
    <3>3. /\ n \in Delivered' /\ receives'[n].msg = taken + 1
          /\ \A r : r \in Delivered' <=> r \in Delivered \/ r = n
          /\ \A r \in Delivered : r < n /\ receives'[r] = receives[r]
        BY <1>3, <1>a, <1>c, <1>d, <2>2, <3>2, CallFacts DEF Lengths
    <3>4. \A i \in 1..Len(recvBuffer') : recvBuffer'[i] = taken' + i
        BY <1>a, <3>1, <3>2 DEF OrderInv, Lengths
    <3>5. /\ \A r \in Delivered' : receives'[r].msg \in 1..taken'
          /\ \A m \in 1..taken' : \E r \in Delivered' : receives'[r].msg = m
        BY <1>a, <3>2, <3>3, SMTT(30) DEF OrderInv
    <3>6. \A q, r \in Delivered' : q < r => receives'[q].msg < receives'[r].msg
      <4> TAKE q, r \in Delivered'
      <4>0. q \in Nat /\ r \in Nat
          BY <1>b, <1>d DEF Lengths
      <4>1. CASE q \in Delivered /\ r \in Delivered
          BY <3>3, <4>1 DEF OrderInv
      <4>2. CASE q \in Delivered /\ r = n
          BY <1>a, <3>2, <3>3, <4>2 DEF OrderInv
      <4>3. CASE q = n
          BY <3>3, <4>0, <4>3
      <4>4. QED
          BY <3>3, <4>1, <4>2, <4>3
    <3>7. Len(recvBuffer') <= arrived'
        BY <1>a, <2>1, <3>1 DEF OrderInv, Lengths
    <3>8. QED
        BY <3>1, <3>4, <3>5, <3>6, <3>7, SMTT(30) DEF OrderInv
  <2>3. CASE recvBuffer = <<>>
    <3>1. UNCHANGED recvBuffer /\ taken' = taken
        BY <1>3, <2>1, <2>3, CallQueues DEF taken
    <3>2. /\ \A r : r \in Delivered' <=> r \in Delivered
          /\ \A r \in Delivered : r < n /\ receives'[r] = receives[r]
        BY <1>3, <1>a, <1>c, <1>d, <2>3, CallFacts DEF Lengths
    <3>3. \A q \in Delivered' : \A i \in 1..Len(recvQueue') : q < recvQueue'[i]
        BY <1>3, <1>a, <2>3, <3>2, CallQueues DEF OrderInv, Lengths
    <3>4. QED
        BY <2>1, <3>1, <3>2, <3>3 DEF OrderInv
  <2>4. QED
      BY <2>2, <2>3
<1>4. CASE Ends
  <2>1. UNCHANGED <<recvBuffer, arrived>> /\ taken' = taken /\ Len(recvQueue') = 0
      BY <1>4, EndFacts DEF Ends, taken
  <2>2. /\ \A r : r \in Delivered' <=> r \in Delivered
        /\ \A r \in Delivered : receives'[r] = receives[r]
      BY <1>4, <1>c, <1>d, EndFacts DEF Reasons
  <2>3. QED
      BY <2>1, <2>2 DEF OrderInv
<1>5. CASE UNCHANGED recvVars
    BY <1>5 DEF OrderInv, taken, Delivered
<1>6. QED
    BY <1>1, <1>2, <1>3, <1>4, <1>5, DeliverySteps DEF Arrives, Give, BadClose

(* No caller of receive() is lost or left behind by a frame, a close(), an  *)
(* error frame or the end of the retries, for all options and bounds.       *)
THEOREM NoneLeftWaitingCorrect == Spec => []NoneLeftWaiting
<1>1. TypeOK /\ QueueInv /\ [Next]_vars => (TypeOK /\ QueueInv)'
    BY TypeStep, QueueStep
<1>2. QED
    BY <1>1, TypeInit, QueueInit, QueueImplies, PTL DEF Spec

(* Frames are delivered exactly once and in the order of arrival, across    *)
(* reconnections, for all options and bounds.                               *)
THEOREM ExactlyOnceInOrderCorrect == Spec => []ExactlyOnceInOrder
<1>1. TypeOK /\ QueueInv /\ OrderInv /\ [Next]_vars => (TypeOK /\ QueueInv /\ OrderInv)'
    BY TypeStep, QueueStep, OrderStep
<1>2. QED
    BY <1>1, TypeInit, QueueInit, OrderImplies, PTL DEF Spec

-----------------------------------------------------------------------------
(* A call that has settled stays as it is, whatever happens to the others.  *)
LEMMA SettledStays ==
    ASSUME TypeOK, QueueInv, [Next]_vars
    PROVE  /\ Len(receives) <= Len(receives')
           /\ \A r \in 1..Len(receives) :
                receives[r].res # "pending" => receives'[r] = receives[r]
<1>a. Lengths
    BY LengthsOK
<1>1. CASE Give
  <2>1. receives[recvQueue[1]].res = "pending"
    <3>1. 1 \in 1..Len(recvQueue)
        BY <1>1, <1>a, GiveFacts DEF Lengths
    <3>2. QED
        BY <3>1 DEF QueueInv
  <2>2. QED
      BY <1>1, <1>a, <2>1, GiveFacts DEF Lengths
<1>2. CASE receive
    BY <1>2, <1>a, CallFacts DEF Lengths
<1>3. CASE Ends
  <2>1. PICK why \in Reasons : \A r \in 1..Len(receives) :
           receives'[r] = IF receives[r].res = "pending"
                          THEN [res |-> why, msg |-> 0] ELSE receives[r]
      BY <1>3, EndFacts
  <2>2. Len(receives') = Len(receives)
      BY <1>3, EndFacts
  <2>3. QED
      BY <1>a, <2>1, <2>2 DEF Lengths
<1>4. CASE UNCHANGED receives
    BY <1>4, <1>a DEF Lengths
<1>5. QED
    BY <1>1, <1>2, <1>3, <1>4, DeliverySteps DEF Arrives, Give, BadClose

(* Only an error frame is fatal, and what is fatal stays so.                *)
LEMMA FatalOnce ==
    ASSUME [Next]_vars
    PROVE  fatalError' = fatalError \/ \E s \in DOMAIN sock : ErrorFrame(s)
<1>1. CASE UNCHANGED fatalError
    BY <1>1
<1>2. CASE \E s \in DOMAIN sock : ErrorFrame(s)
    BY <1>2
<1>3. QED
    BY <1>1, <1>2
    DEF Next, Browser, User, SocketOpen, SocketClosing, SocketClose, DataFrame, TimerFires,
        OnOpenReturns, OnCloseReturns, OnCloseThrows, SendResumes, receive, send, close,
        closeThrows

(* Whoever a step tells of the error, nothing is left for him to take.      *)
LEMMA ToldLast ==
    ASSUME TypeOK, QueueInv, [Next]_vars, NEW r \in 1..Len(receives'),
           receives'[r].res = "WSError",
           r \in 1..Len(receives) => receives[r].res # "WSError"
    PROVE  /\ recvBuffer = <<>> /\ UNCHANGED <<recvBuffer, arrived>>
           /\ fatalError \/ \E s \in DOMAIN sock : ErrorFrame(s)
<1>a. Lengths
    BY LengthsOK
<1>1. CASE receive
  <2>1. r = Len(receives) + 1
      BY <1>1, <1>a, CallFacts DEF Lengths
  <2>2. recvBuffer = <<>> /\ fatalError
      BY <1>1, <2>1, CallFacts
  <2>3. QED
      BY <1>1, <2>2 DEF receive
<1>2. ASSUME NEW why \in Reasons, RejectReceives(why)
      PROVE  why = "WSError" /\ recvBuffer = <<>>
  <2>1. r \in 1..Len(receives) /\ receives[r].res = "pending" /\ why = "WSError"
    <3>1. r \in 1..Len(receives)
        BY <1>2, RejectFacts
    <3>2. receives'[r] = IF receives[r].res = "pending"
                         THEN [res |-> why, msg |-> 0] ELSE receives[r]
        BY <1>2, <3>1, RejectFacts
    <3>3. receives[r].res = "pending"
        BY <3>1, <3>2
    <3>4. QED
        BY <3>1, <3>2, <3>3
  <2>2. recvQueue # <<>>
      BY <1>a, <2>1 DEF QueueInv, Lengths
  <2>3. QED
      BY <2>1, <2>2 DEF QueueInv
<1>3. ASSUME NEW s \in DOMAIN sock, ErrorFrame(s)
      PROVE  recvBuffer = <<>> /\ UNCHANGED <<recvBuffer, arrived>>
    BY <1>2, <1>3 DEF ErrorFrame, terminate, Reasons
<1>4. CASE OnCloseReturns \/ close
  <2>1. RejectReceives("lost") \/ RejectReceives("closed") \/ UNCHANGED receives
      BY <1>4 DEF OnCloseReturns, scheduleReconnect, close, terminate
  <2>2. "lost" \in Reasons /\ "closed" \in Reasons
      BY DEF Reasons
  <2>3. UNCHANGED receives
      BY <1>2, <2>1, <2>2
  <2>4. QED
      BY <2>3
<1>5. CASE Give
    BY <1>5, GiveFacts
<1>6. CASE UNCHANGED receives
    BY <1>6
<1>7. QED
    BY <1>1, <1>3, <1>4, <1>5, <1>6
    DEF Next, Browser, User, SocketOpen, SocketClosing, SocketClose, DataFrame, TimerFires,
        OnOpenReturns, OnCloseThrows, SendResumes, send, closeThrows, Give

-----------------------------------------------------------------------------
(* The client implements the Mailbox: socket, timer, callback and send()    *)
(* steps are invisible, and each of the others is one Mailbox step.  A      *)
(* close() that throws half-way ends nothing, hence the assumption.         *)
ABox == [r \in 1..Len(receives) |-> Outcome(receives[r])]

Outcomes == [res : {"pending", "message", "refused"}, msg : Nat]

(* The calls as the mailbox sees them are a sequence of typed outcomes.     *)
LEMMA CallsType ==
    ASSUME TypeOK
    PROVE  /\ ABox \in Seq(Outcomes) /\ Len(ABox) = Len(receives)
           /\ ABox = [r \in DOMAIN receives |-> Outcome(receives[r])]
           /\ DOMAIN ABox = 1..Len(receives)
<1>1. receives \in Seq(Receives) /\ Len(receives) \in Nat /\ DOMAIN receives = 1..Len(receives)
    BY DEF TypeOK
<1>2. ASSUME NEW r \in 1..Len(receives) PROVE Outcome(receives[r]) \in Outcomes
  <2>1. receives[r] \in Receives
      BY <1>1, ElementOfSeq
  <2>2. QED
      BY <2>1 DEF Outcome, Outcomes, Receives
<1>3. ABox \in [1..Len(receives) -> Outcomes]
    BY <1>2 DEF ABox
<1>4. QED
    BY <1>1, <1>3, SeqOf DEF ABox

(* One more call at the end of the client is one more at the end of the box.*)
LEMMA CallsAppend ==
    ASSUME TypeOK, TypeOK', NEW e \in Outcomes,
           Len(receives') = Len(receives) + 1,
           \A r \in 1..Len(receives) : receives'[r] = receives[r],
           Outcome(receives'[Len(receives) + 1]) = e
    PROVE  ABox' = Append(ABox, e)
<1>1. ABox \in Seq(Outcomes) /\ Len(ABox) = Len(receives) /\ Len(receives) \in Nat
    BY CallsType, SMTT(30) DEF TypeOK
<1>2. /\ Append(ABox, e) \in Seq(Outcomes) /\ Len(Append(ABox, e)) = Len(receives) + 1
      /\ \A i \in 1..Len(receives) : Append(ABox, e)[i] = ABox[i]
      /\ Append(ABox, e)[Len(receives) + 1] = e
    BY <1>1, AppendProperties
<1>3. DOMAIN Append(ABox, e) = 1..(Len(receives) + 1)
    BY <1>2, LenProperties
<1>4. ABox' = [r \in 1..(Len(receives) + 1) |-> Outcome(receives'[r])]
    BY DEF ABox, Outcome
<1>5. ASSUME NEW r \in 1..(Len(receives) + 1) PROVE Outcome(receives'[r]) = Append(ABox, e)[r]
  <2>1. CASE r = Len(receives) + 1
      BY <1>2, <2>1 DEF Outcome
  <2>2. CASE r \in 1..Len(receives)
      BY <1>2, <2>2 DEF ABox, Outcome
  <2>3. QED
      BY <1>1, <2>1, <2>2
<1>6. Append(ABox, e) = [r \in 1..(Len(receives) + 1) |-> Append(ABox, e)[r]]
    BY <1>2, <1>3, LenProperties
<1>7. QED
    BY <1>4, <1>5, <1>6

BoxPut ==
    /\ arrived' = arrived + 1
    /\ \/ /\ recvQueue = <<>>
          /\ recvBuffer' = Append(recvBuffer, arrived + 1)
          /\ UNCHANGED recvQueue /\ ABox' = ABox
       \/ /\ recvQueue # <<>>
          /\ ABox' = [ABox EXCEPT ![Head(recvQueue)] = [res |-> "message", msg |-> arrived + 1]]
          /\ recvQueue' = Tail(recvQueue)
          /\ UNCHANGED recvBuffer
    /\ UNCHANGED closed

(* The message listener puts a frame into the mailbox.                      *)
LEMMA PutRefines == ASSUME TypeOK, TypeOK', QueueInv, Arrives PROVE BoxPut
<1>1. CASE recvQueue = <<>>
  <2>1. UNCHANGED receives
      BY <1>1 DEF Arrives
  <2>2. ABox' = ABox
      BY <2>1 DEF ABox, Outcome
  <2>3. QED
      BY <1>1, <2>2 DEF Arrives, BoxPut
<1>2. CASE recvQueue # <<>>
  <2>1. Give
      BY <1>2 DEF Arrives, Give
  <2>2. Head(recvQueue) = recvQueue[1] /\ recvQueue[1] \in 1..Len(receives)
      BY <2>1, GiveFacts, SMTT(30) DEF TypeOK
  <2>3. ABox' = [r \in 1..Len(receives) |-> Outcome(receives'[r])]
    <3>1. Len(receives') = Len(receives)
        BY <2>1, GiveFacts
    <3>2. QED
        BY <3>1 DEF ABox, Outcome
  <2>4. ASSUME NEW r \in 1..Len(receives)
        PROVE  Outcome(receives'[r]) = IF r = recvQueue[1] THEN [res |-> "message", msg |-> arrived + 1]
                          ELSE ABox[r]
    <3>1. CASE r = recvQueue[1]
        BY <2>1, <3>1, GiveFacts DEF Outcome, Reasons
    <3>2. CASE r # recvQueue[1]
        BY <2>1, <3>2, GiveFacts DEF Outcome, ABox
    <3>3. QED
        BY <3>1, <3>2
  <2>5. ABox' = [ABox EXCEPT ![recvQueue[1]] = [res |-> "message", msg |-> arrived + 1]]
    <3>1. DOMAIN ABox = 1..Len(receives)
        BY DEF ABox
    <3>2. QED
        BY <2>3, <2>4, <3>1
  <2>6. QED
      BY <1>2, <2>1, <2>2, <2>5 DEF BoxPut, Give, Arrives
<1>3. QED
    BY <1>1, <1>2

BoxAsk ==
    /\ \/ /\ recvBuffer # <<>>
          /\ ABox' = Append(ABox, [res |-> "message", msg |-> Head(recvBuffer)])
          /\ recvBuffer' = Tail(recvBuffer)
          /\ UNCHANGED recvQueue
       \/ /\ recvBuffer = <<>> /\ closed
          /\ ABox' = Append(ABox, [res |-> "refused", msg |-> 0])
          /\ UNCHANGED <<recvBuffer, recvQueue>>
       \/ /\ recvBuffer = <<>> /\ ~closed
          /\ ABox' = Append(ABox, [res |-> "pending", msg |-> 0])
          /\ recvQueue' = Append(recvQueue, Len(ABox) + 1)
          /\ UNCHANGED recvBuffer
    /\ UNCHANGED <<closed, arrived>>

(* A call of receive() asks the mailbox.                                    *)
LEMMA AskRefines == ASSUME TypeOK, TypeOK', QueueInv, receive PROVE BoxAsk
<1> DEFINE n == Len(receives) + 1
<1>1. Len(ABox) = Len(receives)
    BY CallsType
<1>2. UNCHANGED <<closed, arrived>>
    BY DEF receive
<1>3. CASE recvBuffer # <<>>
  <2>1. Head(recvBuffer) = recvBuffer[1] /\ Head(recvBuffer) \in Nat
      BY <1>3, HeadTailProperties, SMTT(30) DEF TypeOK
  <2>2. Outcome(receives'[n]) = [res |-> "message", msg |-> Head(recvBuffer)]
    <3>1. receives'[n] = [res |-> "message", msg |-> Head(recvBuffer)]
        BY <1>3, <2>1, CallFacts
    <3>2. QED
        BY <3>1 DEF Outcome, Reasons
  <2>3. [res |-> "message", msg |-> Head(recvBuffer)] \in Outcomes
      BY <2>1 DEF Outcomes
  <2>4. ABox' = Append(ABox, [res |-> "message", msg |-> Head(recvBuffer)])
      BY <2>2, <2>3, CallFacts, CallsAppend
  <2>5. QED
      BY <1>2, <1>3, <2>4 DEF BoxAsk, receive
<1>4. CASE recvBuffer = <<>> /\ closed
  <2>1. Outcome(receives'[n]) = [res |-> "refused", msg |-> 0]
    <3>1. \/ receives'[n] = [res |-> "WSError", msg |-> 0]
          \/ receives'[n] = [res |-> "closed", msg |-> 0]
        BY <1>4, CallFacts
    <3>2. QED
        BY <3>1 DEF Outcome, Reasons
  <2>2. [res |-> "refused", msg |-> 0] \in Outcomes
      BY DEF Outcomes
  <2>3. ABox' = Append(ABox, [res |-> "refused", msg |-> 0])
      BY <2>1, <2>2, CallFacts, CallsAppend
  <2>4. QED
      BY <1>2, <1>4, <2>3 DEF BoxAsk, receive
<1>5. CASE recvBuffer = <<>> /\ ~closed
  <2>1. ~fatalError
      BY <1>5 DEF QueueInv
  <2>2. Outcome(receives'[n]) = [res |-> "pending", msg |-> 0]
    <3>1. receives'[n] = [res |-> "pending", msg |-> 0]
        BY <1>5, <2>1, CallFacts
    <3>2. QED
        BY <3>1 DEF Outcome, Reasons
  <2>3. [res |-> "pending", msg |-> 0] \in Outcomes
      BY DEF Outcomes
  <2>4. ABox' = Append(ABox, [res |-> "pending", msg |-> 0])
      BY <2>2, <2>3, CallFacts, CallsAppend
  <2>5. QED
      BY <1>1, <1>2, <1>5, <2>1, <2>4 DEF BoxAsk, receive
<1>6. QED
    BY <1>3, <1>4, <1>5

BoxEnd ==
    /\ closed' = TRUE
    /\ recvQueue' = <<>>
    /\ ABox' = [c \in DOMAIN ABox |->
                  IF ABox[c].res = "pending" THEN [res |-> "refused", msg |-> 0] ELSE ABox[c]]
    /\ UNCHANGED <<recvBuffer, arrived>>

(* terminate() and close() end the mailbox.                                 *)
LEMMA EndRefines == ASSUME TypeOK, TypeOK', QueueInv, Ends PROVE BoxEnd
<1>1. Len(receives') = Len(receives)
    BY EndFacts
<1>2. ABox' = [r \in 1..Len(receives) |-> Outcome(receives'[r])]
    BY <1>1 DEF ABox, Outcome
<1>3. DOMAIN ABox = 1..Len(receives)
    BY CallsType
<1>4. ASSUME NEW r \in 1..Len(receives)
      PROVE  Outcome(receives'[r]) = IF ABox[r].res = "pending" THEN [res |-> "refused", msg |-> 0]
                        ELSE ABox[r]
  <2>1. PICK why \in Reasons : receives'[r] =
          IF receives[r].res = "pending" THEN [res |-> why, msg |-> 0] ELSE receives[r]
      BY EndFacts
  <2>2. ABox[r] = Outcome(receives[r]) /\ (Outcome(receives[r]).res = "pending" <=> receives[r].res = "pending")
      BY DEF ABox, Outcome, Reasons
  <2>3. CASE receives[r].res = "pending"
      BY <2>1, <2>2, <2>3 DEF Outcome
  <2>4. CASE receives[r].res # "pending"
      BY <2>1, <2>2, <2>4 DEF Outcome
  <2>5. QED
      BY <2>3, <2>4
<1>5. ABox' = [c \in DOMAIN ABox |->
                IF ABox[c].res = "pending" THEN [res |-> "refused", msg |-> 0] ELSE ABox[c]]
    BY <1>2, <1>3, <1>4
<1>6. QED
    BY <1>5, EndFacts DEF BoxEnd, Ends

(* The client implements Mailbox: connections, retries, callbacks and       *)
(* send() never change what a caller of receive() can observe.              *)
THEOREM MailboxImplemented ==
    ASSUME ~UserThrows PROVE Spec => ImplementsMailbox
<1>1. Init => Box!Init
  <2>1. Init => receives = <<>> /\ [r \in DOMAIN receives |-> Outcome(receives[r])] = <<>>
    <3> SUFFICES ASSUME Init PROVE [r \in DOMAIN receives |-> Outcome(receives[r])] = <<>>
        BY DEF Init
    <3>1. DOMAIN receives = {}
        BY DEF Init
    <3>2. QED
        BY <3>1
  <2>2. QED
      BY <2>1 DEF Init, Box!Init
<1>2. TypeOK /\ TypeOK' /\ QueueInv /\ [Next]_vars
        => [Box!Put \/ Box!Ask \/ Box!End]_(Box!box)
  <2> SUFFICES ASSUME TypeOK, TypeOK', QueueInv, [Next]_vars
               PROVE  [Box!Put \/ Box!Ask \/ Box!End]_(Box!box)
      OBVIOUS
  <2>1. ABox = [r \in DOMAIN receives |-> Outcome(receives[r])]
      BY CallsType
  <2>2. ABox' = [r \in DOMAIN receives' |-> Outcome(receives'[r])]
    <3>1. DOMAIN receives' = 1..Len(receives')
        BY DEF TypeOK
    <3>2. QED
        BY <3>1 DEF ABox, Outcome
  <2>3. CASE Arrives
      BY <2>1, <2>2, <2>3, PutRefines DEF BoxPut, Box!Put, Box!Got, Outcome
  <2>4. CASE receive
      BY <2>1, <2>2, <2>4, AskRefines
      DEF BoxAsk, Box!Ask, Box!Got, Box!Refused, Box!Waits, Outcome
  <2>5. CASE Ends
      BY <2>1, <2>2, <2>5, EndRefines DEF BoxEnd, Box!End, Box!Refused, Outcome
  <2>6. CASE UNCHANGED <<recvVars, endVars>>
      BY <2>6 DEF Box!box, Outcome
  <2>7. QED
      BY <2>3, <2>4, <2>5, <2>6, DeliverySteps DEF BadClose
<1>3. TypeOK /\ QueueInv /\ [Next]_vars => (TypeOK /\ QueueInv)'
    BY TypeStep, QueueStep
<1>4. QED
    BY <1>1, <1>2, <1>3, TypeInit, QueueInit, PTL DEF Spec, ImplementsMailbox, Box!Spec
=============================================================================
