--------------------------- MODULE WSServerProofs ---------------------------
(***************************************************************************)
(* What a WebSocket connection sees of its server, for any number of       *)
(* connections, messages, frames and error types.                          *)
(*                                                                         *)
(* Connections share nothing, so the invariant is one of each connection   *)
(* (ConnInv), and a step of one leaves the others as they are (Same).      *)
(***************************************************************************)
EXTENDS WSServer, SequenceTheorems, FiniteSetTheorems, TLAPS

USE DEF WSStatusNormalClosure

Kind(c, i) == out[c][i].kind
Code(c, i) == out[c][i].code

Gone == {"close", "closing"} \cup Ended

USE DEF Ended

(* Where the goroutine is, against what it has found.                       *)
Located(c) ==
    /\ pc[c] \in {"idle", "parse"} => inputErr[c] = NoError
    /\ pc[c] \in {"idle", "parse", "accept"} =>
          closing[c] = "no" /\ out[c] = <<>> /\ nread[c] = 0 /\ handled[c] = <<>>
    /\ pc[c] \in {"idle", "parse", "accept", "setup", "read", "handle"} => failure[c] = NoError
    /\ inputErr[c] # NoError => pc[c] \in Gone \cup {"accept", "errorFrame"}
    /\ inputErr[c] # NoError /\ pc[c] \in {"errorFrame", "close", "closing"} =>
          failure[c] = inputErr[c]
    /\ pc[c] = "errorFrame" =>
          failure[c] # NoError
          /\ (inputErr[c] # NoError \/ failure[c].status # InternalServerError)
    /\ pc[c] = "close" /\ failure[c] = NoError => closing[c] # "no" \/ lost[c]

(* The error frame: one, when the error is known and settled.               *)
ErrorFrames(c) ==
    /\ \A i, k \in DOMAIN out[c] : Kind(c, i) = "error" /\ Kind(c, k) = "error" => i = k
    /\ \A i \in DOMAIN out[c] : Kind(c, i) = "error" =>
          /\ pc[c] \in Gone
          /\ Code(c, i) = WSCode(failure[c].status) /\ failure[c] # NoError
          /\ inputErr[c] # NoError \/ failure[c].status # InternalServerError
          /\ inputErr[c] # NoError => failure[c] = inputErr[c]

(* The close frame: the last one, with a code that somebody chose.          *)
CloseFrames(c) ==
    \A j \in DOMAIN out[c] : Kind(c, j) = "close" =>
        /\ j = Len(out[c]) /\ closing[c] # "no"
        /\ Code(c, j) = 1000 \/ pc[c] \in Gone
        /\ Code(c, j) = WSStatusInternalError => failure[c].status = InternalServerError
        /\ Code(c, j) = 1007 => nread[c] > 0 /\ msgs[c][nread[c]] = "badEnvelope"
        /\ \A i \in DOMAIN out[c] : Kind(c, i) = "error" =>
              \/ Code(c, j) = Code(c, i)
              \/ inputErr[c] = NoError /\ Code(c, j) = 1000

(* Handlers ran for the good messages that were read.                       *)
Handled(c) ==
    /\ nread[c] <= Len(msgs[c])
    /\ \A i \in DOMAIN handled[c] :
          handled[c][i].msg \in 1..nread[c] /\ msgs[c][handled[c][i].msg] = "good"
    /\ \A i, j \in DOMAIN handled[c] : i < j =>
          handled[c][i].msg < handled[c][j].msg /\ handled[c][i].res = NoError
    /\ pc[c] \in {"setup", "read", "handle"} =>
          \A i \in DOMAIN handled[c] : handled[c][i].res = NoError
    /\ pc[c] = "handle" =>
          /\ nread[c] >= 1 /\ msgs[c][nread[c]] = "good"
          /\ \A i \in DOMAIN handled[c] : handled[c][i].msg < nread[c]
    /\ \A n \in 1..nread[c] : msgs[c][n] = "good" =>
          \/ \E i \in DOMAIN handled[c] : handled[c][i].msg = n
          \/ pc[c] \in {"handle", "panicked"} /\ n = nread[c]

(* A rejected request has no handlers, and no frames but error and close.   *)
Rejected(c) ==
    inputErr[c] # NoError =>
        /\ handled[c] = <<>> /\ nread[c] = 0
        /\ pc[c] \in {"accept", "errorFrame"} => closing[c] = "no" /\ out[c] = <<>>
        /\ pc[c] = "close" => closing[c] = "no" /\ (lost[c] \/ Len(out[c]) = 1)
        /\ \A i \in DOMAIN out[c] : Kind(c, i) = IF i = 1 THEN "error" ELSE "close"

ConnInv(c) ==
    Located(c) /\ ErrorFrames(c) /\ CloseFrames(c) /\ Handled(c) /\ Rejected(c)

SInv == TypeOK /\ \A c \in Conns : ConnInv(c)

-----------------------------------------------------------------------------
(* Types, and what a step of one connection leaves alone. *)

Same(d) ==
    /\ pc'[d] = pc[d] /\ inputErr'[d] = inputErr[d] /\ failure'[d] = failure[d]
    /\ msgs'[d] = msgs[d] /\ nread'[d] = nread[d] /\ handled'[d] = handled[d]
    /\ out'[d] = out[d] /\ closing'[d] = closing[d] /\ lost'[d] = lost[d]

Others(c) == \A d \in Conns : d # c => Same(d)

Step(c) == Goroutine(c) \/ CloseHandshakeEnds(c) \/ Environment(c)

(* The close code of an error is a number of at least 4000.                 *)
LEMMA CodeFacts ==
    ASSUME NEW s \in Nat
    PROVE  WSCode(s) \in Nat /\ WSCode(s) >= 4000
BY DEF WSCode

(* The statuses of errors are numbers.                                      *)
LEMMA StatusFacts ==
    ASSUME TypeOK, NEW c \in Conns
    PROVE  /\ failure[c].status \in Nat /\ inputErr[c].status \in Nat
           /\ WSCode(failure[c].status) \in Nat /\ CloseCode(c) \in Nat
<1>1. failure[c] \in Errors \cup {NoError} /\ inputErr[c] \in Errors \cup {NoError}
  BY DEF TypeOK
<1>2. \A e \in Errors \cup {NoError} : e.status \in Nat
  BY DEF Errors, NoError
<1>3. WSCode(failure[c].status) \in Nat
  BY <1>1, <1>2, CodeFacts
<1> QED BY <1>1, <1>2, <1>3 DEF CloseCode, WSStatusInternalError

(* Writing a frame adds it at the end, if the connection is still open.     *)
Added(c, k, n) ==
    /\ closing[c] = "no" /\ ~lost[c]
    /\ Len(out[c]) \in Nat /\ DOMAIN out[c] = 1..Len(out[c])
    /\ Len(out'[c]) = Len(out[c]) + 1 /\ DOMAIN out'[c] = 1..(Len(out[c]) + 1)
    /\ \A i \in 1..Len(out[c]) : out'[c][i] = out[c][i]
    /\ out'[c][Len(out[c]) + 1].kind = k /\ out'[c][Len(out[c]) + 1].code = n

Wrote(c, k, n) ==
    /\ out' \in [Conns -> Seq(Frames)]
    /\ \A d \in Conns : d # c => out'[d] = out[d]
    /\ Added(c, k, n) \/ ((closing[c] # "no" \/ lost[c]) /\ out'[c] = out[c])

(* Write does so.                                                           *)
LEMMA WriteFacts ==
    ASSUME TypeOK, NEW c \in Conns, NEW k \in {"data", "error", "close"}, NEW n \in Nat,
           Write(c, k, n)
    PROVE  Wrote(c, k, n)
<1> DEFINE f == [kind |-> k, code |-> n]
<1>1. out \in [Conns -> Seq(Frames)] /\ f \in Frames /\ f.kind = k /\ f.code = n
  BY DEF TypeOK, Frames
<1> HIDE DEF f
<1>2. CASE closing[c] = "no" /\ ~lost[c]
  <2>1. out' = [out EXCEPT ![c] = Append(out[c], f)]
    BY <1>2 DEF Write, f
  <2>2. /\ Len(out[c]) \in Nat /\ DOMAIN out[c] = 1..Len(out[c])
        /\ Append(out[c], f) \in Seq(Frames)
        /\ Len(Append(out[c], f)) = Len(out[c]) + 1
        /\ DOMAIN Append(out[c], f) = 1..(Len(out[c]) + 1)
        /\ \A i \in 1..Len(out[c]) : Append(out[c], f)[i] = out[c][i]
        /\ Append(out[c], f)[Len(out[c]) + 1] = f
    BY <1>1
  <2>3. /\ out' \in [Conns -> Seq(Frames)] /\ out'[c] = Append(out[c], f)
        /\ \A d \in Conns : d # c => out'[d] = out[d]
    BY <1>1, <2>1, <2>2
  <2> QED BY <1>1, <1>2, <2>2, <2>3 DEF Wrote, Added
<1>3. CASE ~(closing[c] = "no" /\ ~lost[c])
  <2>1. out' = out
    BY <1>3 DEF Write
  <2> QED BY <1>1, <1>3, <2>1 DEF Wrote
<1> QED BY <1>2, <1>3

(* Frames of another kind than the one written were there before.           *)
LEMMA OldFrames ==
    ASSUME NEW c, NEW k, NEW n, Wrote(c, k, n)
    PROVE  /\ \A i \in DOMAIN out'[c] : Kind(c, i)' # k =>
                  i \in DOMAIN out[c] /\ Kind(c, i) = Kind(c, i)' /\ Code(c, i) = Code(c, i)'
           /\ \A i \in DOMAIN out'[c] : Kind(c, i)' = k =>
                  \/ /\ i \in DOMAIN out[c] /\ Kind(c, i) = Kind(c, i)' /\ Code(c, i) = Code(c, i)'
                     /\ Len(out'[c]) = Len(out[c]) \/ closing[c] = "no"
                  \/ i = Len(out'[c]) /\ Code(c, i)' = n /\ closing[c] = "no" /\ ~lost[c]
<1>1. CASE out'[c] = out[c]
  BY <1>1 DEF Kind, Code
<1>2. CASE Added(c, k, n)
  <2>1. \A i \in DOMAIN out'[c] : i \in 1..Len(out[c]) \/ i = Len(out[c]) + 1
    BY <1>2 DEF Added
  <2> QED BY <1>2, <2>1 DEF Added, Kind, Code
<1> QED BY <1>1, <1>2 DEF Wrote

(* Every step keeps the types, and the other connections as they are.       *)
LEMMA StepTyped ==
    ASSUME TypeOK, NEW c \in Conns, Step(c)
    PROVE  TypeOK' /\ Others(c)
<1>0. /\ nread[c] + 1 \in Nat /\ nread[c] \in Nat
      /\ \A k \in Kinds : Append(msgs[c], k) \in Seq(Kinds)
      /\ \A e \in Failures \cup {NoError, CloseError} :
            Append(handled[c], [msg |-> nread[c], res |-> e]) \in Seq(Runs)
  <2>1. nread[c] \in Nat /\ msgs[c] \in Seq(Kinds) /\ handled[c] \in Seq(Runs)
    BY DEF TypeOK
  <2>2. \A e \in Failures \cup {NoError, CloseError} : [msg |-> nread[c], res |-> e] \in Runs
    BY <2>1, ServerAssumption DEF Runs
  <2> QED BY <2>1, <2>2
<1>1. CASE Request(c)
  BY <1>0, <1>1, ServerAssumption DEF Request, TypeOK, Goto, wireVars, Locations, Others, Same
<1>2. CASE parseInputForWS(c)
  BY <1>0, <1>2, ServerAssumption DEF parseInputForWS, TypeOK, Goto, wireVars, Locations, Others, Same
<1>3. CASE Accept(c)
  BY <1>0, <1>3, ServerAssumption DEF Accept, TypeOK, Goto, wireVars, Locations, Others, Same
<1>4. CASE AcceptFails(c)
  BY <1>0, <1>4, ServerAssumption DEF AcceptFails, TypeOK, Goto, wireVars, Locations, Others, Same
<1>5. CASE SetupReturns(c)
  BY <1>0, <1>5, ServerAssumption DEF SetupReturns, Report, TypeOK, Goto, wireVars, Locations, Others, Same
<1>6. CASE UserCodePanics(c)
  BY <1>0, <1>6, ServerAssumption DEF UserCodePanics, TypeOK, Goto, wireVars, Locations, Others, Same
<1>7. CASE ReadMessage(c)
  BY <1>0, <1>7, ServerAssumption DEF ReadMessage, Take, TypeOK, Goto, wireVars, Locations, Others, Same
<1>8. CASE SkipMessage(c)
  BY <1>0, <1>8, ServerAssumption DEF SkipMessage, Take, TypeOK, Goto, wireVars, Locations, Others, Same
<1>9. CASE ReadGarbage(c)
  <2>1. 1007 \in Nat
    OBVIOUS
  <2>2. Write(c, "close", 1007)
    BY <1>9 DEF ReadGarbage
  <2>3. Wrote(c, "close", 1007)
    BY <2>1, <2>2, WriteFacts
  <2>4. TypeOK'
    <3>1. out' \in [Conns -> Seq(Frames)]
      BY <2>3 DEF Wrote, TypeOK
    <3> QED BY <1>0, <1>9, <3>1 DEF ReadGarbage, Take, TypeOK, Goto, wireVars, Locations
  <2>5. Others(c)
    BY <1>9, <2>3 DEF ReadGarbage, Wrote, Take, TypeOK, Goto, wireVars, Others, Same
  <2> QED BY <2>4, <2>5
<1>10. CASE ReadClose(c)
  <2>1. 1000 \in Nat
    OBVIOUS
  <2>2. Write(c, "close", 1000)
    BY <1>10 DEF ReadClose
  <2>3. Wrote(c, "close", 1000)
    BY <2>1, <2>2, WriteFacts
  <2>4. TypeOK'
    BY <1>0, <1>10, <2>3 DEF ReadClose, Wrote, Take, TypeOK, Goto, wireVars, Locations
  <2>5. Others(c)
    BY <1>10, <2>3 DEF ReadClose, Wrote, Take, TypeOK, Goto, wireVars, Others, Same
  <2> QED BY <2>4, <2>5
<1>11. CASE ReadFails(c)
  BY <1>0, <1>11, ServerAssumption DEF ReadFails, TypeOK, Goto, wireVars, Locations, Others, Same
<1>12. CASE HandlerReturns(c)
  <2>1. /\ handled' \in [Conns -> Seq(Runs)] /\ \A d \in Conns : d # c => handled'[d] = handled[d]
    <3>1. PICK e \in Failures \cup {NoError, CloseError} :
             handled' = [handled EXCEPT ![c] = Append(handled[c], [msg |-> nread[c], res |-> e])]
      BY <1>12 DEF HandlerReturns, Ran
    <3> QED BY <1>0, <3>1 DEF TypeOK
  <2>2. /\ failure' \in [Conns -> Errors \cup {NoError}]
        /\ \A d \in Conns : d # c => failure'[d] = failure[d]
    BY <1>12, ServerAssumption DEF HandlerReturns, Report, TypeOK
  <2>3. pc' \in [Conns -> Locations] /\ \A d \in Conns : d # c => pc'[d] = pc[d]
    BY <1>12 DEF HandlerReturns, Report, Goto, TypeOK, Locations
  <2> QED BY <1>12, <2>1, <2>2, <2>3 DEF HandlerReturns, TypeOK, wireVars, Others, Same
<1>13. CASE HandlerReturnsCloseError(c)
  BY <1>0, <1>13, ServerAssumption DEF HandlerReturnsCloseError, Ran, TypeOK, Goto, wireVars, Locations, Others, Same
<1>14. CASE WriteErrorFrame(c)
  <2>1. WSCode(failure[c].status) \in Nat
    BY StatusFacts
  <2>2. Write(c, "error", WSCode(failure[c].status))
    BY <1>14 DEF WriteErrorFrame
  <2>3. Wrote(c, "error", WSCode(failure[c].status))
    BY <2>1, <2>2, WriteFacts
  <2> QED BY <1>0, <1>14, <2>3 DEF WriteErrorFrame, Wrote, TypeOK, Goto, wireVars, Locations, Others, Same
<1>15. CASE Close(c)
  <2>1. CloseCode(c) \in Nat
    BY StatusFacts
  <2>2. Write(c, "close", CloseCode(c))
    BY <1>15 DEF Close
  <2>3. Wrote(c, "close", CloseCode(c))
    BY <2>1, <2>2, WriteFacts
  <2> QED BY <1>0, <1>15, <2>3 DEF Close, Wrote, TypeOK, Goto, wireVars, Locations, Others, Same
<1>16. CASE CloseReturns(c)
  BY <1>0, <1>16, ServerAssumption DEF CloseReturns, TypeOK, Goto, wireVars, Locations, Others, Same
<1>17. CASE CloseHandshakeEnds(c)
  BY <1>0, <1>17, ServerAssumption DEF CloseHandshakeEnds, TypeOK, Goto, wireVars, Locations, Others, Same
<1>18. CASE Send(c)
  <2>1. 0 \in Nat
    OBVIOUS
  <2>2. Write(c, "data", 0)
    BY <1>18 DEF Send
  <2>3. Wrote(c, "data", 0)
    BY <2>1, <2>2, WriteFacts
  <2> QED BY <1>0, <1>18, <2>3 DEF Send, Wrote, TypeOK, Goto, wireVars, Locations, Others, Same
<1>19. CASE SenderClose(c)
  <2>1. 1000 \in Nat
    OBVIOUS
  <2>2. Write(c, "close", 1000)
    BY <1>19 DEF SenderClose
  <2>3. Wrote(c, "close", 1000)
    BY <2>1, <2>2, WriteFacts
  <2>4. TypeOK'
    BY <1>0, <1>19, <2>3 DEF SenderClose, Wrote, TypeOK, Goto, wireVars, Locations
  <2>5. Others(c)
    BY <1>19, <2>3 DEF SenderClose, Wrote, TypeOK, Goto, wireVars, Others, Same
  <2> QED BY <2>4, <2>5
<1>20. CASE ClientSends(c)
  BY <1>0, <1>20, ServerAssumption DEF ClientSends, TypeOK, Goto, wireVars, Locations, Others, Same
<1>21. CASE Lose(c)
  BY <1>0, <1>21, ServerAssumption DEF Lose, TypeOK, Goto, wireVars, Locations, Others, Same
<1> QED BY <1>1, <1>2, <1>3, <1>4, <1>5, <1>6, <1>7, <1>8, <1>9, <1>10, <1>11, <1>12, <1>13, <1>14, <1>15, <1>16, <1>17, <1>18, <1>19, <1>20, <1>21 DEF Step, Goroutine, Loop, Environment

-----------------------------------------------------------------------------
(* Each part of the invariant is kept by a step of the connection.          *)

(* What the goroutine has found.                                            *)
LEMMA LocatedKept ==
    ASSUME TypeOK, NEW c \in Conns, ConnInv(c), Step(c)
    PROVE  Located(c)'
<1>0. Located(c) /\ Handled(c)
  BY DEF ConnInv
<1>1. CASE Request(c)
  BY <1>0, <1>1 DEF Request, TypeOK, Goto, wireVars, Located, Gone, Handled, NoError, InternalServerError
<1>2. CASE parseInputForWS(c)
  BY <1>0, <1>2 DEF parseInputForWS, TypeOK, Goto, wireVars, Located, Gone, Handled, NoError, InternalServerError
<1>3. CASE Accept(c)
  BY <1>0, <1>3 DEF Accept, TypeOK, Goto, wireVars, Located, Gone, Handled, NoError, InternalServerError
<1>4. CASE AcceptFails(c)
  BY <1>0, <1>4 DEF AcceptFails, TypeOK, Goto, wireVars, Located, Gone, Handled, NoError, InternalServerError
<1>5. CASE SetupReturns(c)
  <2>1. CASE Goto(c, "read") /\ UNCHANGED failure
    BY <1>0, <1>5, <2>1 DEF SetupReturns, TypeOK, Goto, wireVars, Located, Gone
  <2>2. ASSUME NEW e \in Failures, Report(c, e)
        PROVE  Located(c)'
    <3>1. e # NoError
      BY ServerAssumption DEF Errors, NoError
    <3>2. /\ failure'[c] = e
          /\ pc'[c] = IF e.status # InternalServerError THEN "errorFrame" ELSE "close"
      BY <2>2 DEF Report, Goto, TypeOK
    <3>3. pc[c] = "setup" /\ inputErr'[c] = inputErr[c] /\ inputErr[c] = NoError
      BY <1>0, <1>5 DEF SetupReturns, Located, Gone
    <3> QED BY <3>1, <3>2, <3>3 DEF Located
  <2> QED BY <1>5, <2>1, <2>2 DEF SetupReturns
<1>6. CASE UserCodePanics(c)
  BY <1>0, <1>6 DEF UserCodePanics, TypeOK, Goto, wireVars, Located, Gone, Handled, NoError, InternalServerError
<1>7. CASE ReadMessage(c)
  BY <1>0, <1>7 DEF ReadMessage, Take, CanRead, Unread, NextMsg, TypeOK, Goto, wireVars, Located, Gone, Handled, NoError, InternalServerError
<1>8. CASE SkipMessage(c)
  BY <1>0, <1>8 DEF SkipMessage, Take, CanRead, Unread, NextMsg, TypeOK, Goto, wireVars, Located, Gone, Handled, NoError, InternalServerError
<1>9. CASE ReadGarbage(c)
  <2>1. 1007 \in Nat
    OBVIOUS
  <2>2. Write(c, "close", 1007)
    BY <1>9 DEF ReadGarbage
  <2>3. Wrote(c, "close", 1007)
    BY <2>1, <2>2, WriteFacts
  <2> QED BY <1>0, <1>9, <2>3 DEF ReadGarbage, Wrote, Take, CanRead, Unread, NextMsg, TypeOK, Goto, wireVars, Located, Gone, Handled, NoError, InternalServerError
<1>10. CASE ReadClose(c)
  <2>1. 1000 \in Nat
    OBVIOUS
  <2>2. Write(c, "close", 1000)
    BY <1>10 DEF ReadClose
  <2>3. Wrote(c, "close", 1000)
    BY <2>1, <2>2, WriteFacts
  <2> QED BY <1>0, <1>10, <2>3 DEF ReadClose, Wrote, Take, CanRead, Unread, NextMsg, TypeOK, Goto, wireVars, Located, Gone, Handled, NoError, InternalServerError
<1>11. CASE ReadFails(c)
  BY <1>0, <1>11 DEF ReadFails, TypeOK, Goto, wireVars, Located, Gone, Handled, NoError, InternalServerError
<1>12. CASE HandlerReturns(c)
  <2>1. CASE Goto(c, "read") /\ UNCHANGED failure
    BY <1>0, <1>12, <2>1 DEF HandlerReturns, TypeOK, Goto, wireVars, Located, Gone
  <2>2. ASSUME NEW e \in Failures, Report(c, e)
        PROVE  Located(c)'
    <3>1. e # NoError
      BY ServerAssumption DEF Errors, NoError
    <3>2. /\ failure'[c] = e
          /\ pc'[c] = IF e.status # InternalServerError THEN "errorFrame" ELSE "close"
      BY <2>2 DEF Report, Goto, TypeOK
    <3>3. pc[c] = "handle" /\ inputErr'[c] = inputErr[c] /\ inputErr[c] = NoError
      BY <1>0, <1>12 DEF HandlerReturns, Located, Gone
    <3> QED BY <3>1, <3>2, <3>3 DEF Located
  <2> QED BY <1>12, <2>1, <2>2 DEF HandlerReturns
<1>13. CASE HandlerReturnsCloseError(c)
  BY <1>0, <1>13 DEF HandlerReturnsCloseError, Ran, TypeOK, Goto, wireVars, Located, Gone, Handled, NoError, InternalServerError
<1>14. CASE WriteErrorFrame(c)
  <2>1. WSCode(failure[c].status) \in Nat
    BY StatusFacts
  <2>2. Write(c, "error", WSCode(failure[c].status))
    BY <1>14 DEF WriteErrorFrame
  <2>3. Wrote(c, "error", WSCode(failure[c].status))
    BY <2>1, <2>2, WriteFacts
  <2> QED BY <1>0, <1>14, <2>3 DEF WriteErrorFrame, Wrote, TypeOK, Goto, wireVars, Located, Gone, Handled, NoError, InternalServerError
<1>15. CASE Close(c)
  <2>1. CloseCode(c) \in Nat
    BY StatusFacts
  <2>2. Write(c, "close", CloseCode(c))
    BY <1>15 DEF Close
  <2>3. Wrote(c, "close", CloseCode(c))
    BY <2>1, <2>2, WriteFacts
  <2> QED BY <1>0, <1>15, <2>3 DEF Close, Wrote, TypeOK, Goto, wireVars, Located, Gone, Handled, NoError, InternalServerError
<1>16. CASE CloseReturns(c)
  BY <1>0, <1>16 DEF CloseReturns, TypeOK, Goto, wireVars, Located, Gone, Handled, NoError, InternalServerError
<1>17. CASE CloseHandshakeEnds(c)
  BY <1>0, <1>17 DEF CloseHandshakeEnds, TypeOK, Goto, wireVars, Located, Gone, Handled, NoError, InternalServerError
<1>18. CASE Send(c)
  <2>1. 0 \in Nat
    OBVIOUS
  <2>2. Write(c, "data", 0)
    BY <1>18 DEF Send
  <2>3. Wrote(c, "data", 0)
    BY <2>1, <2>2, WriteFacts
  <2> QED BY <1>0, <1>18, <2>3 DEF Send, Wrote, Serving, Accepted, TypeOK, Goto, wireVars, Located, Gone, Handled, NoError, InternalServerError
<1>19. CASE SenderClose(c)
  <2>1. 1000 \in Nat
    OBVIOUS
  <2>2. Write(c, "close", 1000)
    BY <1>19 DEF SenderClose
  <2>3. Wrote(c, "close", 1000)
    BY <2>1, <2>2, WriteFacts
  <2> QED BY <1>0, <1>19, <2>3 DEF SenderClose, Wrote, Serving, Accepted, TypeOK, Goto, wireVars, Located, Gone, Handled, NoError, InternalServerError
<1>20. CASE ClientSends(c)
  BY <1>0, <1>20 DEF ClientSends, Accepted, TypeOK, Goto, wireVars, Located, Gone, Handled, NoError, InternalServerError
<1>21. CASE Lose(c)
  BY <1>0, <1>21 DEF Lose, Accepted, TypeOK, Goto, wireVars, Located, Gone, Handled, NoError, InternalServerError
<1> QED BY <1>1, <1>2, <1>3, <1>4, <1>5, <1>6, <1>7, <1>8, <1>9, <1>10, <1>11, <1>12, <1>13, <1>14, <1>15, <1>16, <1>17, <1>18, <1>19, <1>20, <1>21 DEF Step, Goroutine, Loop, Environment

(* The error frame, once written, and the error it is about.                 *)
LEMMA ErrorFramesKept ==
    ASSUME TypeOK, NEW c \in Conns, ConnInv(c), Step(c)
    PROVE  ErrorFrames(c)'
<1>0. Located(c) /\ ErrorFrames(c)
  BY DEF ConnInv
<1>1. CASE Request(c)
  BY <1>0, <1>1 DEF Request, TypeOK, Goto, wireVars, ErrorFrames, Located, Kind, Code, Gone
<1>2. CASE parseInputForWS(c)
  BY <1>0, <1>2 DEF parseInputForWS, TypeOK, Goto, wireVars, ErrorFrames, Located, Kind, Code, Gone
<1>3. CASE Accept(c)
  BY <1>0, <1>3 DEF Accept, TypeOK, Goto, wireVars, ErrorFrames, Located, Kind, Code, Gone
<1>4. CASE AcceptFails(c)
  BY <1>0, <1>4 DEF AcceptFails, TypeOK, Goto, wireVars, ErrorFrames, Located, Kind, Code, Gone
<1>5. CASE SetupReturns(c)
  BY <1>0, <1>5 DEF SetupReturns, Report, TypeOK, Goto, wireVars, ErrorFrames, Located, Kind, Code, Gone
<1>6. CASE UserCodePanics(c)
  BY <1>0, <1>6 DEF UserCodePanics, TypeOK, Goto, wireVars, ErrorFrames, Located, Kind, Code, Gone
<1>7. CASE ReadMessage(c)
  BY <1>0, <1>7 DEF ReadMessage, Take, CanRead, Unread, NextMsg, TypeOK, Goto, wireVars, ErrorFrames, Located, Kind, Code, Gone
<1>8. CASE SkipMessage(c)
  BY <1>0, <1>8 DEF SkipMessage, Take, CanRead, Unread, NextMsg, TypeOK, Goto, wireVars, ErrorFrames, Located, Kind, Code, Gone
<1>9. CASE ReadGarbage(c)
  <2>1. 1007 \in Nat
    OBVIOUS
  <2>2. Write(c, "close", 1007)
    BY <1>9 DEF ReadGarbage
  <2>3. Wrote(c, "close", 1007)
    BY <2>1, <2>2, WriteFacts
  <2>4. \A i \in DOMAIN out'[c] : Kind(c, i)' = "error" =>
           i \in DOMAIN out[c] /\ Kind(c, i) = "error" /\ Code(c, i) = Code(c, i)'
    BY <2>3, OldFrames
  <2>5. /\ failure'[c] = failure[c] /\ inputErr'[c] = inputErr[c]
        /\ pc[c] \in Gone => pc'[c] \in Gone
    BY <1>9 DEF ReadGarbage, CanRead, Goto, TypeOK, Gone
  <2> QED BY <1>0, <2>4, <2>5 DEF ErrorFrames
<1>10. CASE ReadClose(c)
  <2>1. 1000 \in Nat
    OBVIOUS
  <2>2. Write(c, "close", 1000)
    BY <1>10 DEF ReadClose
  <2>3. Wrote(c, "close", 1000)
    BY <2>1, <2>2, WriteFacts
  <2>4. \A i \in DOMAIN out'[c] : Kind(c, i)' = "error" =>
           i \in DOMAIN out[c] /\ Kind(c, i) = "error" /\ Code(c, i) = Code(c, i)'
    BY <2>3, OldFrames
  <2>5. /\ failure'[c] = failure[c] /\ inputErr'[c] = inputErr[c]
        /\ pc[c] \in Gone => pc'[c] \in Gone
    BY <1>10 DEF ReadClose, CanRead, Goto, TypeOK, Gone
  <2> QED BY <1>0, <2>4, <2>5 DEF ErrorFrames
<1>11. CASE ReadFails(c)
  BY <1>0, <1>11 DEF ReadFails, TypeOK, Goto, wireVars, ErrorFrames, Located, Kind, Code, Gone
<1>12. CASE HandlerReturns(c)
  BY <1>0, <1>12 DEF HandlerReturns, Report, Ran, TypeOK, Goto, wireVars, ErrorFrames, Located, Kind, Code, Gone
<1>13. CASE HandlerReturnsCloseError(c)
  BY <1>0, <1>13 DEF HandlerReturnsCloseError, Ran, TypeOK, Goto, wireVars, ErrorFrames, Located, Kind, Code, Gone
<1>14. CASE WriteErrorFrame(c)
  <2>1. WSCode(failure[c].status) \in Nat
    BY StatusFacts
  <2>2. Write(c, "error", WSCode(failure[c].status))
    BY <1>14 DEF WriteErrorFrame
  <2>3. Wrote(c, "error", WSCode(failure[c].status))
    BY <2>1, <2>2, WriteFacts
  <2>4. \A i \in DOMAIN out[c] : Kind(c, i) # "error"
    BY <1>0, <1>14 DEF ErrorFrames, Gone, WriteErrorFrame
  <2>5. \A i \in DOMAIN out'[c] : Kind(c, i)' = "error" =>
           i = Len(out'[c]) /\ Code(c, i)' = WSCode(failure[c].status)
    BY <2>3, <2>4, OldFrames
  <2>6. /\ failure'[c] = failure[c] /\ inputErr'[c] = inputErr[c] /\ pc'[c] \in Gone
        /\ failure[c] # NoError
        /\ inputErr[c] # NoError \/ failure[c].status # InternalServerError
        /\ inputErr[c] # NoError => failure[c] = inputErr[c]
    BY <1>0, <1>14 DEF WriteErrorFrame, Located, Goto, TypeOK, Gone
  <2> QED BY <2>5, <2>6 DEF ErrorFrames
<1>15. CASE Close(c)
  <2>1. CloseCode(c) \in Nat
    BY StatusFacts
  <2>2. Write(c, "close", CloseCode(c))
    BY <1>15 DEF Close
  <2>3. Wrote(c, "close", CloseCode(c))
    BY <2>1, <2>2, WriteFacts
  <2>4. \A i \in DOMAIN out'[c] : Kind(c, i)' = "error" =>
           i \in DOMAIN out[c] /\ Kind(c, i) = "error" /\ Code(c, i) = Code(c, i)'
    BY <2>3, OldFrames
  <2>5. /\ failure'[c] = failure[c] /\ inputErr'[c] = inputErr[c]
        /\ pc[c] \in Gone => pc'[c] \in Gone
    BY <1>15 DEF Close, Goto, TypeOK, Gone
  <2> QED BY <1>0, <2>4, <2>5 DEF ErrorFrames
<1>16. CASE CloseReturns(c)
  BY <1>0, <1>16 DEF CloseReturns, TypeOK, Goto, wireVars, ErrorFrames, Located, Kind, Code, Gone
<1>17. CASE CloseHandshakeEnds(c)
  BY <1>0, <1>17 DEF CloseHandshakeEnds, TypeOK, Goto, wireVars, ErrorFrames, Located, Kind, Code, Gone
<1>18. CASE Send(c)
  <2>1. 0 \in Nat
    OBVIOUS
  <2>2. Write(c, "data", 0)
    BY <1>18 DEF Send
  <2>3. Wrote(c, "data", 0)
    BY <2>1, <2>2, WriteFacts
  <2>4. \A i \in DOMAIN out'[c] : Kind(c, i)' = "error" =>
           i \in DOMAIN out[c] /\ Kind(c, i) = "error" /\ Code(c, i) = Code(c, i)'
    BY <2>3, OldFrames
  <2>5. /\ failure'[c] = failure[c] /\ inputErr'[c] = inputErr[c]
        /\ pc[c] \in Gone => pc'[c] \in Gone
    BY <1>18 DEF Send, Goto, TypeOK, Gone
  <2> QED BY <1>0, <2>4, <2>5 DEF ErrorFrames
<1>19. CASE SenderClose(c)
  <2>1. 1000 \in Nat
    OBVIOUS
  <2>2. Write(c, "close", 1000)
    BY <1>19 DEF SenderClose
  <2>3. Wrote(c, "close", 1000)
    BY <2>1, <2>2, WriteFacts
  <2>4. \A i \in DOMAIN out'[c] : Kind(c, i)' = "error" =>
           i \in DOMAIN out[c] /\ Kind(c, i) = "error" /\ Code(c, i) = Code(c, i)'
    BY <2>3, OldFrames
  <2>5. /\ failure'[c] = failure[c] /\ inputErr'[c] = inputErr[c]
        /\ pc[c] \in Gone => pc'[c] \in Gone
    BY <1>19 DEF SenderClose, Goto, TypeOK, Gone
  <2> QED BY <1>0, <2>4, <2>5 DEF ErrorFrames
<1>20. CASE ClientSends(c)
  BY <1>0, <1>20 DEF ClientSends, Accepted, TypeOK, Goto, wireVars, ErrorFrames, Located, Kind, Code, Gone
<1>21. CASE Lose(c)
  BY <1>0, <1>21 DEF Lose, Accepted, TypeOK, Goto, wireVars, ErrorFrames, Located, Kind, Code, Gone
<1> QED BY <1>1, <1>2, <1>3, <1>4, <1>5, <1>6, <1>7, <1>8, <1>9, <1>10, <1>11, <1>12, <1>13, <1>14, <1>15, <1>16, <1>17, <1>18, <1>19, <1>20, <1>21 DEF Step, Goroutine, Loop, Environment

(* Reading a message.                                                       *)
LEMMA TakeKeeps ==
    ASSUME NEW c, Handled(c), pc[c] = "read", nread[c] \in Nat, msgs[c] \in Seq(Kinds),
           nread[c] < Len(msgs[c]), nread'[c] = nread[c] + 1,
           msgs'[c] = msgs[c], handled'[c] = handled[c],
           pc'[c] = "handle" <=> msgs[c][nread[c] + 1] = "good"
    PROVE  Handled(c)'
<1> DEFINE m == nread[c] + 1
<1>1. m \in Nat /\ m <= Len(msgs[c]) /\ m >= 1
  BY DEF Handled
<1>2. \A n \in 1..m : n \in 1..nread[c] \/ n = m
  OBVIOUS
<1>3. \A n \in 1..nread[c] : n \in 1..m /\ n < m
  OBVIOUS
<1>4. nread'[c] = m
  OBVIOUS
<1> HIDE DEF m
<1>5. \A i \in DOMAIN handled[c] : handled[c][i].msg \in 1..nread[c] /\ handled[c][i].res = NoError
  BY DEF Handled
<1>6. \A i \in DOMAIN handled[c] : handled[c][i].msg \in 1..m /\ handled[c][i].msg < m
  BY <1>3, <1>5
<1>7. \A n \in 1..m : msgs[c][n] = "good" =>
         (\E i \in DOMAIN handled[c] : handled[c][i].msg = n) \/ (pc'[c] = "handle" /\ n = m)
  <2> SUFFICES ASSUME NEW n \in 1..m, msgs[c][n] = "good"
               PROVE  (\E i \in DOMAIN handled[c] : handled[c][i].msg = n)
                      \/ (pc'[c] = "handle" /\ n = m)
    OBVIOUS
  <2>1. CASE n = m
    BY <2>1 DEF m
  <2>2. CASE n \in 1..nread[c]
    BY <2>2 DEF Handled
  <2> QED BY <1>2, <2>1, <2>2
<1>8. pc'[c] = "handle" => msgs[c][m] = "good"
  BY DEF m
<1> QED BY <1>1, <1>4, <1>5, <1>6, <1>7, <1>8 DEF Handled

(* What Handled asks of the next state.                                     *)
LEMMA HandledBy ==
    ASSUME NEW c, nread'[c] = nread[c], msgs'[c] = msgs[c],
           pc'[c] # "handle", nread[c] <= Len(msgs[c]),
           \A i \in DOMAIN handled'[c] : handled'[c][i].msg \in 1..nread[c]
              /\ msgs[c][handled'[c][i].msg] = "good",
           \A i, j \in DOMAIN handled'[c] : i < j =>
              handled'[c][i].msg < handled'[c][j].msg /\ handled'[c][i].res = NoError,
           pc'[c] \in {"setup", "read", "handle"} =>
              \A i \in DOMAIN handled'[c] : handled'[c][i].res = NoError,
           \A n \in 1..nread[c] : msgs[c][n] = "good" =>
              \E i \in DOMAIN handled'[c] : handled'[c][i].msg = n
    PROVE  Handled(c)'
BY DEF Handled

(* A handler returns.                                                       *)
LEMMA RanKeeps ==
    ASSUME NEW c, NEW e \in Failures \cup {NoError, CloseError}, Handled(c), pc[c] = "handle",
           nread[c] \in Nat, handled[c] \in Seq(Runs),
           handled'[c] = Append(handled[c], [msg |-> nread[c], res |-> e]),
           nread'[c] = nread[c], msgs'[c] = msgs[c],
           pc'[c] \in {"read", "errorFrame", "close", "returned"},
           pc'[c] = "read" => e = NoError
    PROVE  Handled(c)'
<1> DEFINE r == [msg |-> nread[c], res |-> e]
           l == Len(handled[c]) + 1
           q == handled'[c]
<1>1. /\ r.msg = nread[c] /\ r.res = e /\ DOMAIN handled[c] = 1..Len(handled[c])
      /\ DOMAIN q = DOMAIN handled[c] \cup {l} /\ l \notin DOMAIN handled[c] /\ q[l] = r
      /\ \A i \in DOMAIN handled[c] : q[i] = handled[c][i]
      /\ \A i, j \in DOMAIN q : i < j => i # l
  OBVIOUS
<1> HIDE DEF r, l, q
<1>3. /\ nread[c] <= Len(msgs[c]) /\ nread[c] \in 1..nread[c] /\ msgs[c][nread[c]] = "good"
      /\ \A i \in DOMAIN handled[c] :
            /\ handled[c][i].msg \in 1..nread[c] /\ msgs[c][handled[c][i].msg] = "good"
            /\ handled[c][i].res = NoError /\ handled[c][i].msg < nread[c]
      /\ \A i, j \in DOMAIN handled[c] : i < j => handled[c][i].msg < handled[c][j].msg
  BY DEF Handled
<1>4. \A i \in DOMAIN q : q[i].msg \in 1..nread[c] /\ msgs[c][q[i].msg] = "good"
  BY <1>1, <1>3
<1>5. ASSUME NEW i \in DOMAIN q, NEW j \in DOMAIN q, i < j
      PROVE  q[i].msg < q[j].msg /\ q[i].res = NoError
  <2>1. i \in DOMAIN handled[c]
    BY <1>1, <1>5
  <2>2. CASE j = l
    BY <1>1, <1>3, <2>1, <2>2
  <2>3. CASE j \in DOMAIN handled[c]
    BY <1>1, <1>3, <1>5, <2>1, <2>3
  <2> QED BY <1>1, <2>2, <2>3
<1>6. pc'[c] \in {"setup", "read", "handle"} => \A i \in DOMAIN q : q[i].res = NoError
  BY <1>1, <1>3
<1>7. \A n \in 1..nread[c] : msgs[c][n] = "good" => \E i \in DOMAIN q : q[i].msg = n
  <2> SUFFICES ASSUME NEW n \in 1..nread[c], msgs[c][n] = "good"
               PROVE  \E i \in DOMAIN q : q[i].msg = n
    OBVIOUS
  <2>1. CASE n = nread[c]
    BY <1>1, <2>1
  <2>2. CASE \E i \in DOMAIN handled[c] : handled[c][i].msg = n
    BY <1>1, <2>2
  <2> QED BY <2>1, <2>2 DEF Handled
<1>8. \A i, j \in DOMAIN q : i < j => q[i].msg < q[j].msg /\ q[i].res = NoError
  BY <1>5
<1>9. pc'[c] # "handle" /\ nread[c] <= Len(msgs[c])
  BY <1>3
<1> QED BY <1>4, <1>6, <1>7, <1>8, <1>9, HandledBy DEF q

(* The messages read and handled.                                            *)
LEMMA HandledKept ==
    ASSUME TypeOK, NEW c \in Conns, ConnInv(c), Step(c)
    PROVE  Handled(c)'
<1>0. Located(c) /\ Handled(c)
  BY DEF ConnInv
<1>1. CASE Request(c)
  BY <1>0, <1>1 DEF Request, TypeOK, Goto, wireVars, Located, Handled
<1>2. CASE parseInputForWS(c)
  BY <1>0, <1>2 DEF parseInputForWS, TypeOK, Goto, wireVars, Located, Handled
<1>3. CASE Accept(c)
  BY <1>0, <1>3 DEF Accept, TypeOK, Goto, wireVars, Located, Handled
<1>4. CASE AcceptFails(c)
  BY <1>0, <1>4 DEF AcceptFails, TypeOK, Goto, wireVars, Located, Handled
<1>5. CASE SetupReturns(c)
  <2>1. /\ pc[c] = "setup" /\ pc'[c] \in {"read", "errorFrame", "close"}
        /\ nread'[c] = nread[c] /\ msgs'[c] = msgs[c] /\ handled'[c] = handled[c]
    BY <1>5 DEF SetupReturns, Report, Goto, TypeOK, wireVars
  <2>2. \A i \in DOMAIN handled[c] : handled[c][i].res = NoError
    BY <1>0, <2>1 DEF Located, Handled
  <2> QED BY <1>0, <2>1, <2>2 DEF Handled
<1>6. CASE UserCodePanics(c)
  BY <1>0, <1>6 DEF UserCodePanics, TypeOK, Goto, wireVars, Located, Handled
<1>7. CASE ReadMessage(c)
  <2>4. /\ nread[c] < Len(msgs[c]) /\ nread'[c] = nread[c] + 1 /\ pc[c] = "read"
        /\ msgs'[c] = msgs[c] /\ handled'[c] = handled[c]
        /\ nread[c] \in Nat /\ msgs[c] \in Seq(Kinds)
        /\ pc'[c] = "handle" <=> msgs[c][nread[c] + 1] = "good"
    BY <1>7 DEF ReadMessage, CanRead, Unread, NextMsg, Take, Goto, TypeOK, wireVars
  <2> QED BY <1>0, <2>4, TakeKeeps
<1>8. CASE SkipMessage(c)
  <2>4. /\ nread[c] < Len(msgs[c]) /\ nread'[c] = nread[c] + 1 /\ pc[c] = "read"
        /\ msgs'[c] = msgs[c] /\ handled'[c] = handled[c]
        /\ nread[c] \in Nat /\ msgs[c] \in Seq(Kinds)
        /\ pc'[c] = "handle" <=> msgs[c][nread[c] + 1] = "good"
    BY <1>8 DEF SkipMessage, CanRead, Unread, NextMsg, Take, Goto, TypeOK, wireVars
  <2> QED BY <1>0, <2>4, TakeKeeps
<1>9. CASE ReadGarbage(c)
  <2>1. 1007 \in Nat
    OBVIOUS
  <2>2. Write(c, "close", 1007)
    BY <1>9 DEF ReadGarbage
  <2>3. Wrote(c, "close", 1007)
    BY <2>1, <2>2, WriteFacts
  <2>4. /\ nread[c] < Len(msgs[c]) /\ nread'[c] = nread[c] + 1 /\ pc[c] = "read"
        /\ msgs'[c] = msgs[c] /\ handled'[c] = handled[c]
        /\ nread[c] \in Nat /\ msgs[c] \in Seq(Kinds)
        /\ pc'[c] = "handle" <=> msgs[c][nread[c] + 1] = "good"
    BY <1>9 DEF ReadGarbage, CanRead, Unread, NextMsg, Take, Goto, TypeOK, wireVars
  <2> QED BY <1>0, <2>4, TakeKeeps
<1>10. CASE ReadClose(c)
  <2>1. 1000 \in Nat
    OBVIOUS
  <2>2. Write(c, "close", 1000)
    BY <1>10 DEF ReadClose
  <2>3. Wrote(c, "close", 1000)
    BY <2>1, <2>2, WriteFacts
  <2>4. /\ nread[c] < Len(msgs[c]) /\ nread'[c] = nread[c] + 1 /\ pc[c] = "read"
        /\ msgs'[c] = msgs[c] /\ handled'[c] = handled[c]
        /\ nread[c] \in Nat /\ msgs[c] \in Seq(Kinds)
        /\ pc'[c] = "handle" <=> msgs[c][nread[c] + 1] = "good"
    BY <1>10 DEF ReadClose, CanRead, Unread, NextMsg, Take, Goto, TypeOK, wireVars
  <2> QED BY <1>0, <2>4, TakeKeeps
<1>11. CASE ReadFails(c)
  BY <1>0, <1>11 DEF ReadFails, TypeOK, Goto, wireVars, Located, Handled
<1>12. CASE HandlerReturns(c)
  <2>1. PICK e \in Failures \cup {NoError} :
           /\ Ran(c, e)
           /\ pc'[c] \in {"read", "errorFrame", "close", "returned"}
           /\ pc'[c] = "read" => e = NoError
    BY <1>12 DEF HandlerReturns, Report, Goto, TypeOK
  <2>2. /\ pc[c] = "handle" /\ nread'[c] = nread[c] /\ msgs'[c] = msgs[c]
        /\ nread[c] \in Nat /\ handled[c] \in Seq(Runs)
        /\ handled'[c] = Append(handled[c], [msg |-> nread[c], res |-> e])
    BY <1>12, <2>1 DEF HandlerReturns, Ran, TypeOK, wireVars
  <2> QED BY <1>0, <2>1, <2>2, RanKeeps
<1>13. CASE HandlerReturnsCloseError(c)
  <2>1. /\ pc[c] = "handle" /\ nread'[c] = nread[c] /\ msgs'[c] = msgs[c]
        /\ nread[c] \in Nat /\ handled[c] \in Seq(Runs) /\ pc'[c] = "returned"
        /\ handled'[c] = Append(handled[c], [msg |-> nread[c], res |-> CloseError])
    BY <1>13 DEF HandlerReturnsCloseError, Ran, Goto, TypeOK, wireVars
  <2> QED BY <1>0, <2>1, RanKeeps
<1>14. CASE WriteErrorFrame(c)
  <2>1. WSCode(failure[c].status) \in Nat
    BY StatusFacts
  <2>2. Write(c, "error", WSCode(failure[c].status))
    BY <1>14 DEF WriteErrorFrame
  <2>3. Wrote(c, "error", WSCode(failure[c].status))
    BY <2>1, <2>2, WriteFacts
  <2> QED BY <1>0, <1>14, <2>3 DEF WriteErrorFrame, Wrote, TypeOK, Goto, wireVars, Located, Handled
<1>15. CASE Close(c)
  <2>1. CloseCode(c) \in Nat
    BY StatusFacts
  <2>2. Write(c, "close", CloseCode(c))
    BY <1>15 DEF Close
  <2>3. Wrote(c, "close", CloseCode(c))
    BY <2>1, <2>2, WriteFacts
  <2> QED BY <1>0, <1>15, <2>3 DEF Close, Wrote, TypeOK, Goto, wireVars, Located, Handled
<1>16. CASE CloseReturns(c)
  BY <1>0, <1>16 DEF CloseReturns, TypeOK, Goto, wireVars, Located, Handled
<1>17. CASE CloseHandshakeEnds(c)
  BY <1>0, <1>17 DEF CloseHandshakeEnds, TypeOK, Goto, wireVars, Located, Handled
<1>18. CASE Send(c)
  <2>1. 0 \in Nat
    OBVIOUS
  <2>2. Write(c, "data", 0)
    BY <1>18 DEF Send
  <2>3. Wrote(c, "data", 0)
    BY <2>1, <2>2, WriteFacts
  <2> QED BY <1>0, <1>18, <2>3 DEF Send, Wrote, Serving, Accepted, TypeOK, Goto, wireVars, Located, Handled
<1>19. CASE SenderClose(c)
  <2>1. 1000 \in Nat
    OBVIOUS
  <2>2. Write(c, "close", 1000)
    BY <1>19 DEF SenderClose
  <2>3. Wrote(c, "close", 1000)
    BY <2>1, <2>2, WriteFacts
  <2> QED BY <1>0, <1>19, <2>3 DEF SenderClose, Wrote, Serving, Accepted, TypeOK, Goto, wireVars, Located, Handled
<1>20. CASE ClientSends(c)
  BY <1>0, <1>20 DEF ClientSends, Accepted, TypeOK, Goto, wireVars, Located, Handled
<1>21. CASE Lose(c)
  BY <1>0, <1>21 DEF Lose, Accepted, TypeOK, Goto, wireVars, Located, Handled
<1> QED BY <1>1, <1>2, <1>3, <1>4, <1>5, <1>6, <1>7, <1>8, <1>9, <1>10, <1>11, <1>12, <1>13, <1>14, <1>15, <1>16, <1>17, <1>18, <1>19, <1>20, <1>21 DEF Step, Goroutine, Loop, Environment

(* The close frame stays as it is when nothing is written.                  *)
LEMMA CloseFramesSame ==
    ASSUME NEW c, CloseFrames(c), out'[c] = out[c], msgs'[c] = msgs[c],
           failure'[c] = failure[c], inputErr'[c] = inputErr[c],
           closing[c] # "no" => closing'[c] # "no",
           pc[c] \in Gone => pc'[c] \in Gone /\ nread'[c] = nread[c]
    PROVE  CloseFrames(c)'
<1>1. \A i : Kind(c, i)' = Kind(c, i) /\ Code(c, i)' = Code(c, i)
  BY DEF Kind, Code
<1>2. ASSUME NEW j \in DOMAIN out[c], Kind(c, j) = "close"
      PROVE  /\ j = Len(out[c]) /\ closing'[c] # "no"
             /\ Code(c, j) = 1000 \/ pc'[c] \in Gone
             /\ Code(c, j) = WSStatusInternalError => failure[c].status = InternalServerError
             /\ Code(c, j) = 1007 => nread'[c] > 0 /\ msgs[c][nread'[c]] = "badEnvelope"
             /\ \A i \in DOMAIN out[c] : Kind(c, i) = "error" =>
                   \/ Code(c, j) = Code(c, i)
                   \/ inputErr[c] = NoError /\ Code(c, j) = 1000
  <2>1. /\ j = Len(out[c]) /\ closing[c] # "no"
        /\ Code(c, j) = 1000 \/ pc[c] \in Gone
        /\ Code(c, j) = WSStatusInternalError => failure[c].status = InternalServerError
        /\ Code(c, j) = 1007 => nread[c] > 0 /\ msgs[c][nread[c]] = "badEnvelope"
    BY <1>2 DEF CloseFrames
  <2>2. \A i \in DOMAIN out[c] : Kind(c, i) = "error" =>
           \/ Code(c, j) = Code(c, i)
           \/ inputErr[c] = NoError /\ Code(c, j) = 1000
    BY <1>2 DEF CloseFrames
  <2> QED BY <2>1, <2>2
<1> QED BY <1>1, <1>2 DEF CloseFrames

(* The close frame, once written.                                          *)
LEMMA CloseFramesKept ==
    ASSUME TypeOK, NEW c \in Conns, ConnInv(c), Step(c)
    PROVE  CloseFrames(c)'
<1>0. Located(c) /\ ErrorFrames(c) /\ CloseFrames(c) /\ Handled(c)
  BY DEF ConnInv
<1>1. CASE Request(c)
  BY <1>0, <1>1 DEF Request, TypeOK, Goto, wireVars, CloseFrames, ErrorFrames, Located, Handled, Kind, Code, Gone, CloseCode, WSStatusInternalError, InternalServerError
<1>2. CASE parseInputForWS(c)
  BY <1>0, <1>2 DEF parseInputForWS, TypeOK, Goto, wireVars, CloseFrames, ErrorFrames, Located, Handled, Kind, Code, Gone, CloseCode, WSStatusInternalError, InternalServerError
<1>3. CASE Accept(c)
  BY <1>0, <1>3 DEF Accept, TypeOK, Goto, wireVars, CloseFrames, ErrorFrames, Located, Handled, Kind, Code, Gone, CloseCode, WSStatusInternalError, InternalServerError
<1>4. CASE AcceptFails(c)
  BY <1>0, <1>4 DEF AcceptFails, TypeOK, Goto, wireVars, CloseFrames, ErrorFrames, Located, Handled, Kind, Code, Gone, CloseCode, WSStatusInternalError, InternalServerError
<1>5. CASE SetupReturns(c)
  BY <1>0, <1>5 DEF SetupReturns, Report, TypeOK, Goto, wireVars, CloseFrames, ErrorFrames, Located, Handled, Kind, Code, Gone, CloseCode, WSStatusInternalError, InternalServerError
<1>6. CASE UserCodePanics(c)
  BY <1>0, <1>6 DEF UserCodePanics, TypeOK, Goto, wireVars, CloseFrames, ErrorFrames, Located, Handled, Kind, Code, Gone, CloseCode, WSStatusInternalError, InternalServerError
<1>7. CASE ReadMessage(c)
  BY <1>0, <1>7 DEF ReadMessage, Take, CanRead, Unread, NextMsg, TypeOK, Goto, wireVars, CloseFrames, ErrorFrames, Located, Handled, Kind, Code, Gone, CloseCode, WSStatusInternalError, InternalServerError
<1>8. CASE SkipMessage(c)
  BY <1>0, <1>8 DEF SkipMessage, Take, CanRead, Unread, NextMsg, TypeOK, Goto, wireVars, CloseFrames, ErrorFrames, Located, Handled, Kind, Code, Gone, CloseCode, WSStatusInternalError, InternalServerError
<1>9. CASE ReadGarbage(c)
  <2>1. 1007 \in Nat
    OBVIOUS
  <2>2. Write(c, "close", 1007)
    BY <1>9 DEF ReadGarbage
  <2>3. Wrote(c, "close", 1007)
    BY <2>1, <2>2, WriteFacts
  <2>4. CASE Added(c, "close", 1007)
    <3>1. \A i \in DOMAIN out[c] : Kind(c, i) # "close"
      BY <1>0, <2>4 DEF Added, CloseFrames
    <3>2. \A i \in DOMAIN out'[c] : Kind(c, i)' = "close" => i = Len(out'[c]) /\ Code(c, i)' = 1007
      BY <2>3, <3>1, OldFrames
    <3>3. \A i \in DOMAIN out'[c] : Kind(c, i)' # "error"
      <4>1. \A i \in DOMAIN out[c] : Kind(c, i) # "error"
        BY <1>0, <1>9 DEF ErrorFrames, Gone, ReadGarbage, CanRead
      <4> QED BY <2>3, <4>1, OldFrames
    <3>4. closing'[c] # "no" /\ pc'[c] \in Gone /\ nread'[c] > 0
          /\ msgs'[c][nread'[c]] = "badEnvelope"
      BY <1>9 DEF ReadGarbage, CanRead, NextMsg, Take, Goto, Gone, TypeOK, wireVars
    <3> QED BY <3>2, <3>3, <3>4 DEF CloseFrames, WSStatusInternalError
  <2>5. CASE out'[c] = out[c]
    <3>1. /\ failure'[c] = failure[c] /\ inputErr'[c] = inputErr[c] /\ msgs'[c] = msgs[c]
          /\ closing[c] # "no" => closing'[c] # "no"
          /\ pc[c] \in Gone => pc'[c] \in Gone /\ nread'[c] = nread[c]
      BY <1>9 DEF ReadGarbage, Take, CanRead, Goto, TypeOK, Gone, wireVars
    <3> QED BY <1>0, <2>5, <3>1, CloseFramesSame
  <2> QED BY <2>3, <2>4, <2>5 DEF Wrote
<1>10. CASE ReadClose(c)
  <2>1. 1000 \in Nat
    OBVIOUS
  <2>2. Write(c, "close", 1000)
    BY <1>10 DEF ReadClose
  <2>3. Wrote(c, "close", 1000)
    BY <2>1, <2>2, WriteFacts
  <2>4. CASE Added(c, "close", 1000)
    <3>1. \A i \in DOMAIN out[c] : Kind(c, i) # "close"
      BY <1>0, <2>4 DEF Added, CloseFrames
    <3>2. \A i \in DOMAIN out'[c] : Kind(c, i)' = "close" => i = Len(out'[c]) /\ Code(c, i)' = 1000
      BY <2>3, <3>1, OldFrames
    <3>3. \A i \in DOMAIN out'[c] : Kind(c, i)' # "error"
      <4>1. \A i \in DOMAIN out[c] : Kind(c, i) # "error"
        BY <1>0, <1>10 DEF ErrorFrames, Gone, ReadClose, CanRead
      <4> QED BY <2>3, <4>1, OldFrames
    <3>4. closing'[c] # "no" /\ pc'[c] \in Gone
      BY <1>10 DEF ReadClose, Goto, Gone, TypeOK, wireVars
    <3> QED BY <3>2, <3>3, <3>4 DEF CloseFrames, WSStatusInternalError
  <2>5. CASE out'[c] = out[c]
    <3>1. /\ failure'[c] = failure[c] /\ inputErr'[c] = inputErr[c] /\ msgs'[c] = msgs[c]
          /\ closing[c] # "no" => closing'[c] # "no"
          /\ pc[c] \in Gone => pc'[c] \in Gone /\ nread'[c] = nread[c]
      BY <1>10 DEF ReadClose, Take, CanRead, Goto, TypeOK, Gone, wireVars
    <3> QED BY <1>0, <2>5, <3>1, CloseFramesSame
  <2> QED BY <2>3, <2>4, <2>5 DEF Wrote
<1>11. CASE ReadFails(c)
  BY <1>0, <1>11 DEF ReadFails, TypeOK, Goto, wireVars, CloseFrames, ErrorFrames, Located, Handled, Kind, Code, Gone, CloseCode, WSStatusInternalError, InternalServerError
<1>12. CASE HandlerReturns(c)
  BY <1>0, <1>12 DEF HandlerReturns, Report, Ran, TypeOK, Goto, wireVars, CloseFrames, ErrorFrames, Located, Handled, Kind, Code, Gone, CloseCode, WSStatusInternalError, InternalServerError
<1>13. CASE HandlerReturnsCloseError(c)
  BY <1>0, <1>13 DEF HandlerReturnsCloseError, Ran, TypeOK, Goto, wireVars, CloseFrames, ErrorFrames, Located, Handled, Kind, Code, Gone, CloseCode, WSStatusInternalError, InternalServerError
<1>14. CASE WriteErrorFrame(c)
  <2>1. WSCode(failure[c].status) \in Nat
    BY StatusFacts
  <2>2. Write(c, "error", WSCode(failure[c].status))
    BY <1>14 DEF WriteErrorFrame
  <2>3. Wrote(c, "error", WSCode(failure[c].status))
    BY <2>1, <2>2, WriteFacts
  <2>4. CASE Added(c, "error", WSCode(failure[c].status))
    <3>1. \A i \in DOMAIN out[c] : Kind(c, i) # "close"
      BY <1>0, <2>4 DEF Added, CloseFrames
    <3>2. \A i \in DOMAIN out'[c] : Kind(c, i)' # "close"
      BY <2>3, <3>1, OldFrames
    <3> QED BY <3>2 DEF CloseFrames
  <2>5. CASE out'[c] = out[c]
    <3>1. /\ failure'[c] = failure[c] /\ inputErr'[c] = inputErr[c] /\ msgs'[c] = msgs[c]
          /\ closing[c] # "no" => closing'[c] # "no"
          /\ pc[c] \in Gone => pc'[c] \in Gone /\ nread'[c] = nread[c]
      BY <1>14 DEF WriteErrorFrame, Goto, TypeOK, Gone, wireVars
    <3> QED BY <1>0, <2>5, <3>1, CloseFramesSame
  <2> QED BY <2>3, <2>4, <2>5 DEF Wrote
<1>15. CASE Close(c)
  <2>1. CloseCode(c) \in Nat
    BY StatusFacts
  <2>2. Write(c, "close", CloseCode(c))
    BY <1>15 DEF Close
  <2>3. Wrote(c, "close", CloseCode(c))
    BY <2>1, <2>2, WriteFacts
  <2>4. CASE Added(c, "close", CloseCode(c))
    <3>1. \A i \in DOMAIN out[c] : Kind(c, i) # "close"
      BY <1>0, <2>4 DEF Added, CloseFrames
    <3>2. \A i \in DOMAIN out'[c] : Kind(c, i)' = "close" => i = Len(out'[c]) /\ Code(c, i)' = CloseCode(c)
      BY <2>3, <3>1, OldFrames
    <3>3. /\ closing'[c] # "no" /\ pc'[c] \in Gone /\ failure'[c] = failure[c] /\ pc[c] = "close"
      BY <1>15 DEF Close, Goto, Gone, TypeOK
    <3>4. failure[c] # NoError
      BY <1>0, <2>4, <3>3 DEF Located, Added
    <3>5. WSCode(failure[c].status) >= 4000 /\ WSCode(failure[c].status) \in Nat
      BY StatusFacts, CodeFacts
    <3>6. /\ CloseCode(c) = 1011 => failure[c].status = InternalServerError
          /\ CloseCode(c) # 1007
      BY <3>4, <3>5 DEF CloseCode, WSStatusInternalError
    <3>7. \A i \in DOMAIN out'[c] : Kind(c, i)' = "error" => Code(c, i)' = CloseCode(c)
      <4>1. \A i \in DOMAIN out[c] : Kind(c, i) = "error" => Code(c, i) = CloseCode(c)
        BY <1>0 DEF ErrorFrames, CloseCode
      <4> QED BY <2>3, <4>1, OldFrames
    <3> QED BY <3>2, <3>3, <3>6, <3>7 DEF CloseFrames, WSStatusInternalError
  <2>5. CASE out'[c] = out[c]
    <3>1. /\ failure'[c] = failure[c] /\ inputErr'[c] = inputErr[c] /\ msgs'[c] = msgs[c]
          /\ closing[c] # "no" => closing'[c] # "no"
          /\ pc[c] \in Gone => pc'[c] \in Gone /\ nread'[c] = nread[c]
      BY <1>15 DEF Close, Goto, TypeOK, Gone, wireVars
    <3> QED BY <1>0, <2>5, <3>1, CloseFramesSame
  <2> QED BY <2>3, <2>4, <2>5 DEF Wrote
<1>16. CASE CloseReturns(c)
  BY <1>0, <1>16 DEF CloseReturns, TypeOK, Goto, wireVars, CloseFrames, ErrorFrames, Located, Handled, Kind, Code, Gone, CloseCode, WSStatusInternalError, InternalServerError
<1>17. CASE CloseHandshakeEnds(c)
  BY <1>0, <1>17 DEF CloseHandshakeEnds, TypeOK, Goto, wireVars, CloseFrames, ErrorFrames, Located, Handled, Kind, Code, Gone, CloseCode, WSStatusInternalError, InternalServerError
<1>18. CASE Send(c)
  <2>1. 0 \in Nat
    OBVIOUS
  <2>2. Write(c, "data", 0)
    BY <1>18 DEF Send
  <2>3. Wrote(c, "data", 0)
    BY <2>1, <2>2, WriteFacts
  <2>4. CASE Added(c, "data", 0)
    <3>1. \A i \in DOMAIN out[c] : Kind(c, i) # "close"
      BY <1>0, <2>4 DEF Added, CloseFrames
    <3>2. \A i \in DOMAIN out'[c] : Kind(c, i)' # "close"
      BY <2>3, <3>1, OldFrames
    <3> QED BY <3>2 DEF CloseFrames
  <2>5. CASE out'[c] = out[c]
    <3>1. /\ failure'[c] = failure[c] /\ inputErr'[c] = inputErr[c] /\ msgs'[c] = msgs[c]
          /\ closing[c] # "no" => closing'[c] # "no"
          /\ pc[c] \in Gone => pc'[c] \in Gone /\ nread'[c] = nread[c]
      BY <1>18 DEF Send, Goto, TypeOK, Gone, wireVars
    <3> QED BY <1>0, <2>5, <3>1, CloseFramesSame
  <2> QED BY <2>3, <2>4, <2>5 DEF Wrote
<1>19. CASE SenderClose(c)
  <2>1. 1000 \in Nat
    OBVIOUS
  <2>2. Write(c, "close", 1000)
    BY <1>19 DEF SenderClose
  <2>3. Wrote(c, "close", 1000)
    BY <2>1, <2>2, WriteFacts
  <2>4. CASE Added(c, "close", 1000)
    <3>1. \A i \in DOMAIN out[c] : Kind(c, i) # "close"
      BY <1>0, <2>4 DEF Added, CloseFrames
    <3>2. \A i \in DOMAIN out'[c] : Kind(c, i)' = "close" => i = Len(out'[c]) /\ Code(c, i)' = 1000
      BY <2>3, <3>1, OldFrames
    <3>3. closing'[c] # "no" /\ inputErr'[c] = NoError
      BY <1>19 DEF SenderClose, Serving, TypeOK
    <3> QED BY <3>2, <3>3 DEF CloseFrames, WSStatusInternalError
  <2>5. CASE out'[c] = out[c]
    <3>1. /\ failure'[c] = failure[c] /\ inputErr'[c] = inputErr[c] /\ msgs'[c] = msgs[c]
          /\ closing[c] # "no" => closing'[c] # "no"
          /\ pc[c] \in Gone => pc'[c] \in Gone /\ nread'[c] = nread[c]
      BY <1>19 DEF SenderClose, Goto, TypeOK, Gone, wireVars
    <3> QED BY <1>0, <2>5, <3>1, CloseFramesSame
  <2> QED BY <2>3, <2>4, <2>5 DEF Wrote
<1>20. CASE ClientSends(c)
  BY <1>0, <1>20 DEF ClientSends, Accepted, TypeOK, Goto, wireVars, CloseFrames, ErrorFrames, Located, Handled, Kind, Code, Gone, CloseCode, WSStatusInternalError, InternalServerError
<1>21. CASE Lose(c)
  BY <1>0, <1>21 DEF Lose, Accepted, TypeOK, Goto, wireVars, CloseFrames, ErrorFrames, Located, Handled, Kind, Code, Gone, CloseCode, WSStatusInternalError, InternalServerError
<1> QED BY <1>1, <1>2, <1>3, <1>4, <1>5, <1>6, <1>7, <1>8, <1>9, <1>10, <1>11, <1>12, <1>13, <1>14, <1>15, <1>16, <1>17, <1>18, <1>19, <1>20, <1>21 DEF Step, Goroutine, Loop, Environment

(* A rejected request.                                                     *)
LEMMA RejectedKept ==
    ASSUME TypeOK, NEW c \in Conns, ConnInv(c), Step(c)
    PROVE  Rejected(c)'
<1>0. Located(c) /\ Rejected(c)
  BY DEF ConnInv
<1>1. CASE Request(c)
  BY <1>0, <1>1 DEF Request, TypeOK, Goto, wireVars, Located, Rejected, Kind, Gone, NoError
<1>2. CASE parseInputForWS(c)
  BY <1>0, <1>2 DEF parseInputForWS, TypeOK, Goto, wireVars, Located, Rejected, Kind, Gone, NoError
<1>3. CASE Accept(c)
  BY <1>0, <1>3 DEF Accept, TypeOK, Goto, wireVars, Located, Rejected, Kind, Gone, NoError
<1>4. CASE AcceptFails(c)
  BY <1>0, <1>4 DEF AcceptFails, TypeOK, Goto, wireVars, Located, Rejected, Kind, Gone, NoError
<1>5. CASE SetupReturns(c)
  BY <1>0, <1>5 DEF SetupReturns, Report, TypeOK, Goto, wireVars, Located, Rejected, Kind, Gone, NoError
<1>6. CASE UserCodePanics(c)
  BY <1>0, <1>6 DEF UserCodePanics, TypeOK, Goto, wireVars, Located, Rejected, Kind, Gone, NoError
<1>7. CASE ReadMessage(c)
  BY <1>0, <1>7 DEF ReadMessage, Take, CanRead, Unread, NextMsg, TypeOK, Goto, wireVars, Located, Rejected, Kind, Gone, NoError
<1>8. CASE SkipMessage(c)
  BY <1>0, <1>8 DEF SkipMessage, Take, CanRead, Unread, NextMsg, TypeOK, Goto, wireVars, Located, Rejected, Kind, Gone, NoError
<1>9. CASE ReadGarbage(c)
  <2>1. 1007 \in Nat
    OBVIOUS
  <2>2. Write(c, "close", 1007)
    BY <1>9 DEF ReadGarbage
  <2>3. Wrote(c, "close", 1007)
    BY <2>1, <2>2, WriteFacts
  <2> QED BY <1>0, <1>9, <2>3 DEF ReadGarbage, Wrote, Take, CanRead, Unread, NextMsg, TypeOK, Goto, wireVars, Located, Rejected, Kind, Gone, NoError
<1>10. CASE ReadClose(c)
  <2>1. 1000 \in Nat
    OBVIOUS
  <2>2. Write(c, "close", 1000)
    BY <1>10 DEF ReadClose
  <2>3. Wrote(c, "close", 1000)
    BY <2>1, <2>2, WriteFacts
  <2> QED BY <1>0, <1>10, <2>3 DEF ReadClose, Wrote, Take, CanRead, Unread, NextMsg, TypeOK, Goto, wireVars, Located, Rejected, Kind, Gone, NoError
<1>11. CASE ReadFails(c)
  BY <1>0, <1>11 DEF ReadFails, TypeOK, Goto, wireVars, Located, Rejected, Kind, Gone, NoError
<1>12. CASE HandlerReturns(c)
  BY <1>0, <1>12 DEF HandlerReturns, Report, Ran, TypeOK, Goto, wireVars, Located, Rejected, Kind, Gone, NoError
<1>13. CASE HandlerReturnsCloseError(c)
  BY <1>0, <1>13 DEF HandlerReturnsCloseError, Ran, TypeOK, Goto, wireVars, Located, Rejected, Kind, Gone, NoError
<1>14. CASE WriteErrorFrame(c)
  <2>1. WSCode(failure[c].status) \in Nat
    BY StatusFacts
  <2>2. Write(c, "error", WSCode(failure[c].status))
    BY <1>14 DEF WriteErrorFrame
  <2>3. Wrote(c, "error", WSCode(failure[c].status))
    BY <2>1, <2>2, WriteFacts
  <2> SUFFICES ASSUME inputErr'[c] # NoError PROVE Rejected(c)'
    BY DEF Rejected
  <2>4. /\ pc'[c] = "close" /\ closing'[c] = closing[c] /\ lost'[c] = lost[c]
        /\ handled'[c] = handled[c] /\ nread'[c] = nread[c] /\ inputErr[c] # NoError
        /\ pc[c] = "errorFrame"
    BY <1>14 DEF WriteErrorFrame, Goto, TypeOK
  <2>5. handled[c] = <<>> /\ nread[c] = 0 /\ closing[c] = "no" /\ out[c] = <<>>
    BY <1>0, <2>4 DEF Rejected
  <2>6. CASE Added(c, "error", WSCode(failure[c].status))
    <3>1. DOMAIN out'[c] = {1} /\ Len(out'[c]) = 1 /\ Kind(c, 1)' = "error"
      BY <2>5, <2>6 DEF Added, Kind
    <3> QED BY <2>4, <2>5, <3>1 DEF Rejected
  <2>7. CASE lost[c] /\ out'[c] = out[c]
    BY <2>4, <2>5, <2>7 DEF Rejected
  <2> QED BY <2>3, <2>5, <2>6, <2>7 DEF Wrote
<1>15. CASE Close(c)
  <2>1. CloseCode(c) \in Nat
    BY StatusFacts
  <2>2. Write(c, "close", CloseCode(c))
    BY <1>15 DEF Close
  <2>3. Wrote(c, "close", CloseCode(c))
    BY <2>1, <2>2, WriteFacts
  <2> SUFFICES ASSUME inputErr'[c] # NoError PROVE Rejected(c)'
    BY DEF Rejected
  <2>4. /\ pc'[c] = "closing" /\ handled'[c] = handled[c] /\ nread'[c] = nread[c]
        /\ inputErr[c] # NoError /\ pc[c] = "close"
    BY <1>15 DEF Close, Goto, TypeOK
  <2>5. /\ handled[c] = <<>> /\ nread[c] = 0
        /\ lost[c] \/ Len(out[c]) = 1
        /\ \A i \in DOMAIN out[c] : Kind(c, i) = IF i = 1 THEN "error" ELSE "close"
    BY <1>0, <2>4 DEF Rejected
  <2>6. CASE Added(c, "close", CloseCode(c))
    <3>1. Len(out[c]) = 1
      BY <2>5, <2>6 DEF Added
    <3>2. /\ DOMAIN out[c] = {1} /\ DOMAIN out'[c] = {1, 2} /\ Kind(c, 2)' = "close"
          /\ Kind(c, 1)' = Kind(c, 1)
      BY <2>6, <3>1 DEF Added, Kind
    <3>3. \A i \in DOMAIN out'[c] : Kind(c, i)' = IF i = 1 THEN "error" ELSE "close"
      BY <2>5, <3>2
    <3> QED BY <2>4, <2>5, <3>3 DEF Rejected
  <2>7. CASE out'[c] = out[c]
    <3>1. \A i \in DOMAIN out'[c] : Kind(c, i)' = IF i = 1 THEN "error" ELSE "close"
      BY <2>5, <2>7 DEF Kind
    <3> QED BY <2>4, <2>5, <3>1 DEF Rejected
  <2> QED BY <2>3, <2>6, <2>7 DEF Wrote
<1>16. CASE CloseReturns(c)
  BY <1>0, <1>16 DEF CloseReturns, TypeOK, Goto, wireVars, Located, Rejected, Kind, Gone, NoError
<1>17. CASE CloseHandshakeEnds(c)
  BY <1>0, <1>17 DEF CloseHandshakeEnds, TypeOK, Goto, wireVars, Located, Rejected, Kind, Gone, NoError
<1>18. CASE Send(c)
  <2>1. 0 \in Nat
    OBVIOUS
  <2>2. Write(c, "data", 0)
    BY <1>18 DEF Send
  <2>3. Wrote(c, "data", 0)
    BY <2>1, <2>2, WriteFacts
  <2> QED BY <1>0, <1>18, <2>3 DEF Send, Wrote, Serving, Accepted, TypeOK, Goto, wireVars, Located, Rejected, Kind, Gone, NoError
<1>19. CASE SenderClose(c)
  <2>1. 1000 \in Nat
    OBVIOUS
  <2>2. Write(c, "close", 1000)
    BY <1>19 DEF SenderClose
  <2>3. Wrote(c, "close", 1000)
    BY <2>1, <2>2, WriteFacts
  <2> QED BY <1>0, <1>19, <2>3 DEF SenderClose, Wrote, Serving, Accepted, TypeOK, Goto, wireVars, Located, Rejected, Kind, Gone, NoError
<1>20. CASE ClientSends(c)
  BY <1>0, <1>20 DEF ClientSends, Accepted, TypeOK, Goto, wireVars, Located, Rejected, Kind, Gone, NoError
<1>21. CASE Lose(c)
  BY <1>0, <1>21 DEF Lose, Accepted, TypeOK, Goto, wireVars, Located, Rejected, Kind, Gone, NoError
<1> QED BY <1>1, <1>2, <1>3, <1>4, <1>5, <1>6, <1>7, <1>8, <1>9, <1>10, <1>11, <1>12, <1>13, <1>14, <1>15, <1>16, <1>17, <1>18, <1>19, <1>20, <1>21 DEF Step, Goroutine, Loop, Environment

-----------------------------------------------------------------------------
(* The invariant, and what follows from it. *)

(* A connection that no step touches keeps its invariant.                   *)
LEMMA SameKeeps ==
    ASSUME NEW d, ConnInv(d), Same(d)
    PROVE  ConnInv(d)'
<1>1. Located(d)'
  BY DEF ConnInv, Same, Located
<1>2. ErrorFrames(d)'
  BY DEF ConnInv, Same, ErrorFrames, Kind, Code
<1>3. CloseFrames(d)'
  BY DEF ConnInv, Same, CloseFrames, Kind, Code
<1>4. Handled(d)'
  BY DEF ConnInv, Same, Handled
<1>5. Rejected(d)'
  BY DEF ConnInv, Same, Rejected, Kind
<1> QED BY <1>1, <1>2, <1>3, <1>4, <1>5 DEF ConnInv

(* At first no connection has asked for anything.                           *)
LEMMA InitSInv == Init => SInv
<1> SUFFICES ASSUME Init PROVE SInv
  OBVIOUS
<1>1. TypeOK
  BY ServerAssumption DEF Init, TypeOK, Locations, NoError
<1>2. ASSUME NEW c \in Conns PROVE ConnInv(c)
  <2>1. /\ pc[c] = "idle" /\ inputErr[c] = NoError /\ failure[c] = NoError /\ msgs[c] = <<>>
        /\ nread[c] = 0 /\ handled[c] = <<>> /\ out[c] = <<>> /\ closing[c] = "no"
    BY DEF Init
  <2>2. Located(c) /\ ErrorFrames(c) /\ CloseFrames(c) /\ Rejected(c)
    BY <2>1 DEF Located, ErrorFrames, CloseFrames, Rejected
  <2>3. Handled(c)
    BY <2>1 DEF Handled
  <2> QED BY <2>2, <2>3 DEF ConnInv
<1> QED BY <1>1, <1>2 DEF SInv

(* Every step keeps the invariant.                                          *)
LEMMA NextSInv == SInv /\ [Next]_vars => SInv'
<1> SUFFICES ASSUME SInv, [Next]_vars PROVE SInv'
  OBVIOUS
<1>1. ASSUME NEW c \in Conns, Step(c)
      PROVE  SInv'
  <2>1. TypeOK /\ \A d \in Conns : ConnInv(d)
    BY DEF SInv
  <2>2. TypeOK' /\ Others(c)
    BY <1>1, <2>1, StepTyped
  <2>3. ConnInv(c)'
    BY <1>1, <2>1, LocatedKept, ErrorFramesKept, CloseFramesKept, HandledKept, RejectedKept
       DEF ConnInv
  <2>4. ASSUME NEW d \in Conns, d # c PROVE ConnInv(d)'
    BY <2>1, <2>2, <2>4, SameKeeps DEF Others
  <2> QED BY <2>2, <2>3, <2>4 DEF SInv
<1>2. CASE UNCHANGED vars
  <2>1. TypeOK'
    BY <1>2 DEF SInv, TypeOK, vars, wireVars
  <2>2. \A d \in Conns : Same(d)
    BY <1>2 DEF Same, vars, wireVars
  <2> QED BY <2>1, <2>2, SameKeeps DEF SInv
<1> QED BY <1>1, <1>2 DEF Next, Step

(* A client that sends out of turn, and a network that drops a connection   *)
(* meanwhile: what the other end of a connection may do in one step.        *)
Sent(c) ==
    /\ msgs'[c] = msgs[c] \/ \E k \in Kinds : msgs'[c] = Append(msgs[c], k)
    /\ lost[c] => lost'[c]
    /\ pc'[c] = pc[c] /\ inputErr'[c] = inputErr[c] /\ failure'[c] = failure[c]
    /\ nread'[c] = nread[c] /\ handled'[c] = handled[c]
    /\ out'[c] = out[c] /\ closing'[c] = closing[c]

(* The server's invariant does not depend on what its clients do.           *)
LEMMA SentKeeps ==
    ASSUME TypeOK, NEW c \in Conns, ConnInv(c), Sent(c)
    PROVE  ConnInv(c)'
<1>1. /\ msgs[c] \in Seq(Kinds) /\ nread[c] \in Nat /\ nread[c] <= Len(msgs[c])
      /\ Len(msgs[c]) \in Nat
  BY DEF TypeOK, ConnInv, Handled
<1>2. Len(msgs'[c]) \in Nat /\ Len(msgs[c]) <= Len(msgs'[c])
      /\ \A n \in 1..nread[c] : msgs'[c][n] = msgs[c][n]
  BY <1>1 DEF Sent
<1>3. nread[c] <= Len(msgs'[c])
  BY <1>1, <1>2
<1>4. Located(c)'
  BY DEF ConnInv, Sent, Located
<1>5. ErrorFrames(c)'
  BY DEF ConnInv, Sent, ErrorFrames, Kind, Code
<1>6. CloseFrames(c)'
  <2>1. nread[c] > 0 => nread[c] \in 1..nread[c]
    BY <1>1
  <2> QED BY <1>2, <2>1 DEF ConnInv, Sent, CloseFrames, Kind, Code
<1>7. Handled(c)'
  <2>1. nread[c] >= 1 => nread[c] \in 1..nread[c]
    BY <1>1
  <2> QED BY <1>2, <1>3, <2>1 DEF ConnInv, Sent, Handled
<1>8. Rejected(c)'
  BY DEF ConnInv, Sent, Rejected, Kind
<1> QED BY <1>4, <1>5, <1>6, <1>7, <1>8 DEF ConnInv

(* Frames are only ever added to the wire.                                  *)
LEMMA FramesStay ==
    ASSUME TypeOK, NEW c \in Conns, Step(c)
    PROVE  \A d \in Conns : /\ Len(out[d]) <= Len(out'[d])
                            /\ \A i \in 1..Len(out[d]) : out'[d][i] = out[d][i]
<1>1. \A d \in Conns : Len(out[d]) \in Nat
  BY DEF TypeOK
<1>2. ASSUME NEW k \in {"data", "error", "close"}, NEW n \in Nat, Write(c, k, n)
      PROVE  \A d \in Conns : /\ Len(out[d]) <= Len(out'[d])
                              /\ \A i \in 1..Len(out[d]) : out'[d][i] = out[d][i]
  <2>1. Wrote(c, k, n)
    BY <1>2, WriteFacts
  <2> QED BY <1>1, <2>1 DEF Wrote, Added
<1>3. WSCode(failure[c].status) \in Nat /\ CloseCode(c) \in Nat
  BY StatusFacts
<1>4. 0 \in Nat /\ 1000 \in Nat /\ 1007 \in Nat
  OBVIOUS
<1>5. CASE UNCHANGED out
  BY <1>1, <1>5
<1>6. \/ Write(c, "close", 1007) \/ Write(c, "close", 1000) \/ Write(c, "data", 0)
      \/ Write(c, "error", WSCode(failure[c].status)) \/ Write(c, "close", CloseCode(c))
      \/ UNCHANGED out
  BY DEF Step, Goroutine, Loop, Environment, wireVars, Request, parseInputForWS, Accept,
         AcceptFails, SetupReturns, UserCodePanics, ReadMessage, SkipMessage, ReadGarbage,
         ReadClose, ReadFails, HandlerReturns, HandlerReturnsCloseError, WriteErrorFrame,
         Close, CloseReturns, CloseHandshakeEnds, Send, SenderClose, ClientSends, Lose
<1> QED BY <1>2, <1>3, <1>4, <1>5, <1>6

(* The invariant holds in every reachable state.                            *)
THEOREM SpecSInv == Spec => []SInv
BY InitSInv, NextSInv, PTL DEF Spec

(* Every variable keeps its type.                                           *)
THEOREM SpecTypeOK == Spec => []TypeOK
<1>1. SInv => TypeOK
  BY DEF SInv
<1> QED BY <1>1, SpecSInv, PTL

(* A client is told once why it was dropped, by the invariant.              *)
LEMMA OneVerdictHolds == SInv => OneVerdict
<1> SUFFICES ASSUME SInv, NEW c \in Conns
             PROVE  /\ Cardinality(Framed(c, "error")) <= 1
                    /\ \A i \in Framed(c, "error") :
                          /\ out[c][i].code = WSCode(failure[c].status)
                          /\ inputErr[c] # NoError => failure[c] = inputErr[c]
                          /\ \A j \in Framed(c, "close") :
                                /\ i < j /\ j = Len(out[c])
                                /\ \/ out[c][j].code = out[c][i].code
                                   \/ inputErr[c] = NoError /\ out[c][j].code = 1000
  BY DEF OneVerdict
<1>1. ErrorFrames(c) /\ CloseFrames(c) /\ out[c] \in Seq(Frames)
  BY DEF SInv, ConnInv, TypeOK
<1>2. Cardinality(Framed(c, "error")) <= 1
  <2>1. Framed(c, "error") = {} \/ \E i : Framed(c, "error") = {i}
    <3>1. \A i, k \in Framed(c, "error") : i = k
      BY <1>1 DEF ErrorFrames, Framed, Kind
    <3> QED BY <3>1, Zenon
  <2>2. CASE Framed(c, "error") = {}
    BY <2>2, FS_EmptySet
  <2>3. ASSUME NEW i, Framed(c, "error") = {i} PROVE Cardinality(Framed(c, "error")) = 1
    BY <2>3, FS_Singleton
  <2> QED BY <2>1, <2>2, <2>3
<1>3. ASSUME NEW i \in Framed(c, "error"), NEW j \in Framed(c, "close")
      PROVE  i < j /\ j = Len(out[c])
  <2>1. i # j /\ j = Len(out[c]) /\ i \in 1..Len(out[c])
    BY <1>1 DEF Framed, CloseFrames, Kind
  <2> QED BY <1>1, <2>1
<1> QED BY <1>1, <1>2, <1>3 DEF ErrorFrames, CloseFrames, Framed, Kind, Code

(* A client is told once why it was dropped.                                *)
THEOREM SpecOneVerdict == Spec => []OneVerdict
BY OneVerdictHolds, SpecSInv, PTL

(* Handlers run in order, by the invariant.                                 *)
LEMMA HandledInOrderHolds == SInv => HandledInOrder
<1> SUFFICES ASSUME SInv, NEW c \in Conns
             PROVE  /\ \A i, j \in DOMAIN handled[c] : i < j =>
                          handled[c][i].msg < handled[c][j].msg /\ handled[c][i].res = NoError
                    /\ HandledMsgs(c) \subseteq Good(c)
                    /\ Good(c) \ HandledMsgs(c) \subseteq
                          IF pc[c] \in {"handle", "panicked"} THEN {nread[c]} ELSE {}
                    /\ pc[c] \in {"read", "handle"} =>
                          \A i \in DOMAIN handled[c] : handled[c][i].res = NoError
  BY DEF HandledInOrder
<1>1. Handled(c)
  BY DEF SInv, ConnInv
<1> QED BY <1>1 DEF Handled, HandledMsgs, Good

(* Handlers run for all good messages, in order, until one fails.           *)
THEOREM SpecHandledInOrder == Spec => []HandledInOrder
BY HandledInOrderHolds, SpecSInv, PTL

(* The other two are parts of the invariant.                                *)
LEMMA FaultsHold == SInv => OnlyFaultsEndConnection /\ RejectedBeforeUserCode
<1>1. SInv => OnlyFaultsEndConnection
  BY DEF SInv, ConnInv, CloseFrames, OnlyFaultsEndConnection, Framed, Kind, Code
<1>2. SInv => RejectedBeforeUserCode
  BY DEF SInv, ConnInv, Located, Gone, Rejected, RejectedBeforeUserCode, Kind
<1> QED BY <1>1, <1>2

(* Only faults end a connection.                                            *)
THEOREM SpecOnlyFaultsEndConnection == Spec => []OnlyFaultsEndConnection
BY FaultsHold, SpecSInv, PTL

(* A rejected request never reaches setup, a handler or the read loop.      *)
THEOREM SpecRejectedBeforeUserCode == Spec => []RejectedBeforeUserCode
BY FaultsHold, SpecSInv, PTL
=============================================================================
