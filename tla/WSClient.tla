------------------------------ MODULE WSClient ------------------------------
(***************************************************************************)
(* The reconnecting WebSocket client of the TypeScript package             *)
(* (packages/shiftapi/src/websocket.ts, createWebSocket).                  *)
(*                                                                         *)
(* One connection object outlives many browser sockets.  Its shared state  *)
(* is touched by browser events (open, message, close), by the reconnect   *)
(* timer, by microtasks (the rest of send() after "await firstOpen") and   *)
(* by user code, which also runs inside the onopen and onclose callbacks.  *)
(* JavaScript runs one of these at a time: frame says which callback, if   *)
(* any, is on the stack, and an event or timer waits until the stack is    *)
(* empty and the microtasks are drained.                                   *)
(*                                                                         *)
(* Left out: the URL, the protocols, the payloads, and the length of the   *)
(* delay (an armed timer may fire at any later time).  A frame that is not *)
(* JSON makes the message handler throw before it changes anything: a      *)
(* stuttering step.                                                        *)
(***************************************************************************)
EXTENDS Naturals, Sequences, FiniteSets

CONSTANTS
    Options,       \* the values of options.reconnect explored
    UserThrows,    \* TRUE: onclose may throw, close() may get a bad code
    MaxSockets,    \* bound: connection attempts explored
    MaxOpens,      \* bound: attempts the server accepts
    MaxFrames,     \* bound: data frames the server sends
    MaxReceives,   \* bound: calls of receive()
    MaxSends       \* bound: calls of send()

(* reconnect: false is [on |-> FALSE, ...]; the default, maxRetries =       *)
(* Infinity, is [forever |-> TRUE, ...].                                    *)
ReconnectOptions == [on : BOOLEAN, forever : BOOLEAN, maxRetries : Nat]

ASSUME ClientAssumption ==
    /\ Options \subseteq ReconnectOptions
    /\ UserThrows \in BOOLEAN
    /\ MaxSockets \in Nat \ {0}
    /\ MaxOpens \in Nat /\ MaxFrames \in Nat
    /\ MaxReceives \in Nat /\ MaxSends \in Nat

VARIABLES
    reconnectOpts,
    sock,        \* ready state of every socket created; the last one is ws
    opened,      \* history: the sockets that did open
    frame,       \* user callback on the JavaScript stack, or "idle"
    closed,
    fatalError,  \* an error frame was received
    retryCount,
    retryTimer,  \* handle of the last timer armed, 0 for undefined
    timers,      \* handles that are armed
    firstOpen,   \* the promise: pending, resolved, or why it was rejected
    recvQueue,   \* pending receive() calls, by number
    recvBuffer,  \* data frames nobody asked for yet, by number
    receives,    \* every receive() call and how it settled
    sendQueue,   \* send() calls suspended at "await firstOpen"
    sends,       \* every send() call and how it settled
    arrived      \* number of data frames handled so far

socketVars == <<sock, opened, frame>>
retryVars  == <<retryCount, retryTimer, timers>>
recvVars   == <<recvQueue, recvBuffer, receives, arrived>>
sendVars   == <<sendQueue, sends>>
endVars    == <<closed, fatalError>>
vars == <<reconnectOpts, socketVars, retryVars, recvVars, sendVars, endVars, firstOpen>>

ReadyStates == {"CONNECTING", "OPEN", "CLOSING", "CLOSED"}
Reasons     == {"WSError", "closed", "lost"}     \* what a rejection carries

readyState == sock[Len(sock)]                    \* of the current socket

Receives == [res : {"pending", "message"} \cup Reasons, msg : Nat]
Sends    == [res : {"pending", "sent", "notOpen"} \cup Reasons,
             on : Nat, sentOn : Nat]

TypeOK ==
    /\ reconnectOpts \in ReconnectOptions
    /\ sock \in Seq(ReadyStates) /\ sock # <<>> /\ opened \subseteq DOMAIN sock
    /\ frame \in {"idle", "onopen", "onclose"}
    /\ closed \in BOOLEAN /\ fatalError \in BOOLEAN
    /\ retryCount \in Nat /\ retryTimer \in Nat /\ timers \subseteq Nat
    /\ firstOpen \in {"pending", "resolved"} \cup Reasons
    /\ recvQueue \in Seq(Nat) /\ recvBuffer \in Seq(Nat)
    /\ receives \in Seq(Receives)
    /\ sendQueue \in Seq(Nat)
    /\ sends \in Seq(Sends)
    /\ arrived \in Nat

Init ==
    /\ reconnectOpts \in Options
    /\ sock = <<"CONNECTING">> /\ opened = {}     \* connect() at the end
    /\ frame = "idle"
    /\ closed = FALSE /\ fatalError = FALSE
    /\ retryCount = 0 /\ retryTimer = 0 /\ timers = {}
    /\ firstOpen = "pending"
    /\ recvQueue = <<>> /\ recvBuffer = <<>> /\ receives = <<>> /\ arrived = 0
    /\ sendQueue = <<>> /\ sends = <<>>

-----------------------------------------------------------------------------
(* The event loop. *)

Microtasks == sendQueue # <<>> /\ firstOpen # "pending"
Idle       == frame = "idle" /\ ~Microtasks

RejectFirstOpen(why) ==
    firstOpen' = IF firstOpen = "pending" THEN why ELSE firstOpen

RejectReceives(why) ==
    /\ receives' = [r \in DOMAIN receives |->
                      IF \E i \in DOMAIN recvQueue : recvQueue[i] = r
                      THEN [res |-> why, msg |-> 0] ELSE receives[r]]
    /\ recvQueue' = <<>>

terminate_KeepsQueue(why) ==
    closed' = TRUE /\ RejectFirstOpen(why) /\ UNCHANGED <<receives, recvQueue>>

terminate_KeepsFirstOpen(why) ==
    closed' = TRUE /\ RejectReceives(why) /\ UNCHANGED firstOpen

terminate(why) ==
    closed' = TRUE /\ RejectFirstOpen(why) /\ RejectReceives(why)

connect == sock' = Append(sock, "CONNECTING") /\ UNCHANGED opened

RetriesLeft_OffByOne ==
    reconnectOpts.on /\ (reconnectOpts.forever \/ retryCount <= reconnectOpts.maxRetries)

RetriesLeft ==
    /\ reconnectOpts.on
    /\ reconnectOpts.forever \/ retryCount < reconnectOpts.maxRetries

ArmTimer_DropsHandle ==
    timers' = timers \cup {retryTimer + Cardinality(timers) + 1} /\ UNCHANGED retryTimer

ArmTimer ==
    /\ retryTimer' = retryTimer + 1
    /\ timers' = timers \cup {retryTimer + 1}

scheduleReconnect_CountsDown ==
    /\ retryCount' = retryCount - 1 /\ ArmTimer
    /\ UNCHANGED <<closed, firstOpen, recvQueue, receives>>

scheduleReconnect_NewPromise ==
    /\ retryCount' = retryCount + 1 /\ ArmTimer
    /\ firstOpen' = "pending"
    /\ UNCHANGED <<closed, recvQueue, receives>>

scheduleReconnect ==
    \/ /\ ~RetriesLeft
       /\ terminate("lost")
       /\ UNCHANGED retryVars
    \/ /\ RetriesLeft
       /\ retryCount' = retryCount + 1
       /\ ArmTimer
       /\ UNCHANGED <<closed, firstOpen, recvQueue, receives>>

-----------------------------------------------------------------------------
(* Browser events on socket s, and the end of the user's callbacks. *)

SetState(s, st) == sock' = [sock EXCEPT ![s] = st]

SocketOpen(s) ==
    /\ Idle /\ sock[s] = "CONNECTING" /\ Cardinality(opened) < MaxOpens
    /\ SetState(s, "OPEN")
    /\ opened' = opened \cup {s}
    /\ retryCount' = 0
    /\ firstOpen' = IF firstOpen = "pending" THEN "resolved" ELSE firstOpen
    /\ frame' = "onopen"
    /\ UNCHANGED <<retryTimer, timers, recvVars, sendVars, endVars>>

DataFrame_AlwaysBuffers(s) ==
    /\ Idle /\ sock[s] = "OPEN" /\ arrived < MaxFrames
    /\ arrived' = arrived + 1
    /\ recvBuffer' = Append(recvBuffer, arrived + 1)
    /\ UNCHANGED <<socketVars, retryVars, sendVars, endVars, firstOpen, recvQueue, receives>>

DataFrame_MissingElse(s) ==
    /\ Idle /\ sock[s] = "OPEN" /\ arrived < MaxFrames
    /\ arrived' = arrived + 1
    /\ recvQueue # <<>>
    /\ receives' = [receives EXCEPT ![Head(recvQueue)] =
                      [res |-> "message", msg |-> arrived + 1]]
    /\ recvQueue' = Tail(recvQueue)
    /\ recvBuffer' = Append(recvBuffer, arrived + 1)
    /\ UNCHANGED <<socketVars, retryVars, sendVars, endVars, firstOpen>>

DataFrame(s) ==
    /\ Idle /\ sock[s] = "OPEN" /\ arrived < MaxFrames
    /\ arrived' = arrived + 1
    /\ \/ /\ recvQueue # <<>>
          /\ receives' = [receives EXCEPT ![Head(recvQueue)] =
                            [res |-> "message", msg |-> arrived + 1]]
          /\ recvQueue' = Tail(recvQueue)
          /\ UNCHANGED recvBuffer
       \/ /\ recvQueue = <<>>
          /\ recvBuffer' = Append(recvBuffer, arrived + 1)
          /\ UNCHANGED <<recvQueue, receives>>
    /\ UNCHANGED <<socketVars, retryVars, sendVars, endVars, firstOpen>>

ErrorFrame_NotFinal(s) ==
    /\ Idle /\ sock[s] = "OPEN"
    /\ RejectReceives("WSError")
    /\ UNCHANGED <<socketVars, retryVars, sendVars, recvBuffer, arrived, endVars, firstOpen>>

ErrorFrame(s) ==
    /\ Idle /\ sock[s] = "OPEN"
    /\ fatalError' = TRUE
    /\ terminate("WSError")
    /\ UNCHANGED <<socketVars, retryVars, sendVars, recvBuffer, arrived>>

(* The closing handshake starts (a close frame from the server): the ready  *)
(* state moves before the close event is fired.                             *)
SocketClosing(s) ==
    /\ Idle /\ sock[s] = "OPEN"
    /\ SetState(s, "CLOSING")
    /\ UNCHANGED <<opened, frame, retryVars, recvVars, sendVars, endVars, firstOpen>>

(* The close event: a failed attempt, a lost connection or a finished close.*)
SocketClose(s) ==
    /\ Idle /\ sock[s] # "CLOSED"
    /\ SetState(s, "CLOSED")
    /\ frame' = IF closed \/ fatalError THEN "idle" ELSE "onclose"
    /\ UNCHANGED <<opened, retryVars, recvVars, sendVars, endVars, firstOpen>>

OnOpenReturns ==
    /\ frame = "onopen" /\ frame' = "idle"
    /\ UNCHANGED <<sock, opened, retryVars, recvVars, sendVars, endVars, firstOpen>>

OnCloseReturns ==
    /\ frame = "onclose" /\ frame' = "idle"
    /\ scheduleReconnect
    /\ UNCHANGED <<sock, opened, sendVars, recvBuffer, arrived, fatalError>>

(* An exception from onclose leaves the listener: nothing is scheduled.     *)
OnCloseThrows ==
    /\ UserThrows /\ frame = "onclose" /\ frame' = "idle"
    /\ UNCHANGED <<sock, opened, retryVars, recvVars, sendVars, endVars, firstOpen>>

TimerFires_Blind(t) ==
    /\ Idle
    /\ timers' = timers \ {t}
    /\ Len(sock) < MaxSockets /\ connect
    /\ UNCHANGED <<frame, retryCount, retryTimer, recvVars, sendVars, endVars,
                   firstOpen>>

TimerFires(t) ==
    /\ Idle
    /\ timers' = timers \ {t}
    /\ \/ closed /\ UNCHANGED <<sock, opened>>
       \/ ~closed /\ Len(sock) < MaxSockets /\ connect
    /\ UNCHANGED <<frame, retryCount, retryTimer, recvVars, sendVars, endVars,
                   firstOpen>>

-----------------------------------------------------------------------------
(* Calls of the user, possible whenever user code can run. *)

receive_ErrorFirst ==
    /\ Len(receives) < MaxReceives
    /\ \/ /\ fatalError \/ closed
          /\ receives' = Append(receives,
                [res |-> IF fatalError THEN "WSError" ELSE "closed", msg |-> 0])
          /\ UNCHANGED <<recvQueue, recvBuffer>>
       \/ /\ ~fatalError /\ ~closed /\ recvBuffer = <<>>
          /\ receives' = Append(receives, [res |-> "pending", msg |-> 0])
          /\ recvQueue' = Append(recvQueue, Len(receives) + 1)
          /\ UNCHANGED recvBuffer
    /\ UNCHANGED <<socketVars, retryVars, sendVars, endVars, firstOpen, arrived>>

receive ==
    /\ Len(receives) < MaxReceives
    /\ \/ /\ recvBuffer # <<>>
          /\ receives' = Append(receives, [res |-> "message", msg |-> Head(recvBuffer)])
          /\ recvBuffer' = Tail(recvBuffer)
          /\ UNCHANGED recvQueue
       \/ /\ recvBuffer = <<>> /\ (fatalError \/ closed)
          /\ receives' = Append(receives,
                [res |-> IF fatalError THEN "WSError" ELSE "closed", msg |-> 0])
          /\ UNCHANGED <<recvQueue, recvBuffer>>
       \/ /\ recvBuffer = <<>> /\ ~fatalError /\ ~closed
          /\ receives' = Append(receives, [res |-> "pending", msg |-> 0])
          /\ recvQueue' = Append(recvQueue, Len(receives) + 1)
          /\ UNCHANGED recvBuffer
    /\ UNCHANGED <<socketVars, retryVars, sendVars, endVars, firstOpen, arrived>>

send ==
    /\ Len(sends) < MaxSends
    /\ sends' = Append(sends, [res |-> "pending", on |-> Len(sock), sentOn |-> 0])
    /\ sendQueue' = Append(sendQueue, Len(sends) + 1)
    /\ UNCHANGED <<socketVars, retryVars, recvVars, endVars, firstOpen>>

(* The microtask after "await firstOpen". *)
SendResumes ==
    /\ frame = "idle" /\ Microtasks
    /\ LET i == Head(sendQueue)
           written == firstOpen = "resolved" /\ readyState = "OPEN"
       IN  sends' = [sends EXCEPT ![i] =
              [on |-> sends[i].on,
               sentOn |-> IF written THEN Len(sock) ELSE 0,
               res |-> IF written THEN "sent"
                       ELSE IF firstOpen = "resolved" THEN "notOpen" ELSE firstOpen]]
    /\ sendQueue' = Tail(sendQueue)
    /\ UNCHANGED <<socketVars, retryVars, recvVars, endVars, firstOpen>>

close ==
    /\ timers' = timers \ {retryTimer}
    /\ SetState(Len(sock), IF readyState = "CLOSED" THEN "CLOSED" ELSE "CLOSING")
    /\ terminate("closed")
    /\ UNCHANGED <<opened, frame, retryCount, retryTimer, recvBuffer, arrived, sendVars,
                   fatalError>>

(* close(1001): ws.close throws on a code it does not allow, and nothing    *)
(* after it runs.                                                           *)
closeThrows ==
    /\ UserThrows
    /\ closed' = TRUE
    /\ timers' = timers \ {retryTimer}
    /\ UNCHANGED <<socketVars, retryCount, retryTimer, recvVars, sendVars,
                   fatalError, firstOpen>>

-----------------------------------------------------------------------------
Browser ==
    \/ \E s \in DOMAIN sock : \/ SocketOpen(s) \/ SocketClosing(s) \/ SocketClose(s)
                              \/ DataFrame(s) \/ ErrorFrame(s)
    \/ \E t \in timers : TimerFires(t)
    \/ OnOpenReturns \/ OnCloseReturns \/ OnCloseThrows
    \/ SendResumes

User == receive \/ send \/ close \/ closeThrows

Next == (Browser \/ User) /\ UNCHANGED reconnectOpts

(* The event loop runs what is ready; a connection attempt or a closing     *)
(* handshake ends (the browser times both out).  Neither the user nor the   *)
(* server has to do anything.                                               *)
AttemptEnds(s) ==
    \/ sock[s] = "CONNECTING" /\ (SocketOpen(s) \/ SocketClose(s))
    \/ sock[s] = "CLOSING" /\ SocketClose(s)

SameOptions(A) == A /\ UNCHANGED reconnectOpts

Fairness ==
    /\ WF_vars(SameOptions(\E s \in DOMAIN sock : AttemptEnds(s)))
    /\ WF_vars(SameOptions(\E t \in timers : TimerFires(t)))
    /\ WF_vars(SameOptions(OnOpenReturns \/ OnCloseReturns \/ OnCloseThrows))
    /\ WF_vars(SameOptions(SendResumes))

Spec     == Init /\ [][Next]_vars
FairSpec == Spec /\ Fairness

-----------------------------------------------------------------------------
(* Properties *)

(* At most one socket is alive, and it is the current one; a reconnect is   *)
(* pending only once, only while nothing is connected, and under the handle *)
(* that close() clears.  So a reconnect never races a connection, whatever  *)
(* user code does inside onclose (scheduleReconnect, connect, close).       *)
OneAttempt ==
    /\ \A s \in DOMAIN sock : s # Len(sock) => sock[s] = "CLOSED"
    /\ timers # {} => timers = {retryTimer} /\ readyState = "CLOSED"

(* Frames reach the callers of receive() exactly once and in the order they *)
(* arrived, across reconnections; what nobody took yet is the buffer.       *)
Delivered == {r \in DOMAIN receives : receives[r].res = "message"}

ExactlyOnceInOrder ==
    /\ \A q, r \in Delivered : q < r => receives[q].msg < receives[r].msg
    /\ \A i, j \in DOMAIN recvBuffer : i < j => recvBuffer[i] < recvBuffer[j]
    /\ \A r \in Delivered : \A i \in DOMAIN recvBuffer :
          receives[r].msg < recvBuffer[i]
    /\ {receives[r].msg : r \in Delivered}
          \cup {recvBuffer[i] : i \in DOMAIN recvBuffer} = 1..arrived

(* A lost wake-up or a caller left behind: a pending receive() is in the    *)
(* queue exactly once, nobody waits while a frame is buffered, and unless a *)
(* close() threw half-way nobody waits once the connection has ended (close,*)
(* an error frame, or no retries left).                                     *)
NoneLeftWaiting ==
    /\ \A r \in DOMAIN receives :
          receives[r].res = "pending" <=> \E i \in DOMAIN recvQueue : recvQueue[i] = r
    /\ \A i, j \in DOMAIN recvQueue : i < j => recvQueue[i] < recvQueue[j]
    /\ recvQueue # <<>> => recvBuffer = <<>>
    /\ closed /\ ~UserThrows => recvQueue = <<>>

(* The client gives up only after maxRetries attempts in a row that never   *)
(* opened, and never makes more of them in a row than that (the first       *)
(* attempt of all is not a retry).                                          *)
FailedInARow(n) ==
    /\ Len(sock) >= n
    /\ \A s \in (Len(sock) - n + 1)..Len(sock) : s \notin opened

GaveUp == firstOpen = "lost" \/ \E r \in DOMAIN receives : receives[r].res = "lost"

GivesUpAfterMaxRetries ==
    LET o == reconnectOpts
    IN  /\ GaveUp /\ o.on => ~o.forever /\ FailedInARow(o.maxRetries)
        /\ o.on /\ ~o.forever => ~FailedInARow(o.maxRetries + 2)
        /\ ~o.on => Len(sock) = 1

(* No message crosses a lost connection: send() after the first open writes *)
(* to the socket that was current when it was called, or rejects.  Only a   *)
(* send() made before anything ever opened may wait for a later attempt.    *)
SendsDoNotCrossConnections ==
    \A i \in DOMAIN sends :
        sends[i].res = "sent" /\ sends[i].sentOn # sends[i].on =>
            \A s \in 1..sends[i].on : s \notin opened

(* After close(), an error frame or giving up, no socket is ever created,   *)
(* not even by a timer that onclose armed after its callback closed.        *)
NoResurrection == [][closed => Len(sock') = Len(sock)]_vars

(* With finite retries and callbacks that do not throw, every send settles: *)
(* the first connection opens or the client gives up.                       *)
SendPending(i)    == i \in DOMAIN sends /\ sends[i].res = "pending"
ReceivePending(r) == r \in DOMAIN receives /\ receives[r].res = "pending"

SendsSettle == \A i \in 1..MaxSends : SendPending(i) ~> ~SendPending(i)

(* A receive() call waits for ever only while the connection is open.       *)
ReceivesNotStranded ==
    \A r \in 1..MaxReceives :
        ReceivePending(r) ~> (~ReceivePending(r) \/ readyState = "OPEN")

(* What a caller of receive() can rely on, with the sockets, the timer, the *)
(* callbacks and send() hidden: the client is a mailbox (websocket.ts       *)
(* 138-170, 197-219, 238-252).                                              *)
Outcome(c) == [res |-> IF c.res \in Reasons THEN "refused" ELSE c.res, msg |-> c.msg]

Box == INSTANCE Mailbox WITH
         ended   <- closed,
         unread  <- recvBuffer,
         waiting <- recvQueue,
         calls   <- [r \in DOMAIN receives |-> Outcome(receives[r])],
         put     <- arrived

ImplementsMailbox == Box!Spec

=============================================================================
