------------------------------- MODULE Mailbox -------------------------------
(***************************************************************************)
(* What receive() promises, whatever happens to the connection under it    *)
(* (packages/shiftapi/src/websocket.ts): frames are numbered as they come; *)
(* a call takes the oldest unread frame or waits its turn; when the        *)
(* connection ends everyone who waits is refused, and from then on a call  *)
(* gets what is still unread or is refused at once.                        *)
(***************************************************************************)
EXTENDS Naturals, Sequences

VARIABLES
    ended,     \* no caller may wait any more
    unread,    \* frames nobody took yet
    waiting,   \* calls that wait, by number
    calls,     \* every call and how it settled
    put        \* number of frames so far

box == <<ended, unread, waiting, calls, put>>

Waits   == [res |-> "pending", msg |-> 0]
Refused == [res |-> "refused", msg |-> 0]
Got(m)  == [res |-> "message", msg |-> m]

Init ==
    ended = FALSE /\ unread = <<>> /\ waiting = <<>> /\ calls = <<>> /\ put = 0

Put ==
    /\ put' = put + 1
    /\ \/ /\ waiting = <<>>
          /\ unread' = Append(unread, put + 1)
          /\ UNCHANGED <<waiting, calls>>
       \/ /\ waiting # <<>>
          /\ calls' = [calls EXCEPT ![Head(waiting)] = Got(put + 1)]
          /\ waiting' = Tail(waiting)
          /\ UNCHANGED unread
    /\ UNCHANGED ended

Ask ==
    /\ \/ /\ unread # <<>>
          /\ calls' = Append(calls, Got(Head(unread)))
          /\ unread' = Tail(unread)
          /\ UNCHANGED waiting
       \/ /\ unread = <<>> /\ ended
          /\ calls' = Append(calls, Refused)
          /\ UNCHANGED <<unread, waiting>>
       \/ /\ unread = <<>> /\ ~ended
          /\ calls' = Append(calls, Waits)
          /\ waiting' = Append(waiting, Len(calls) + 1)
          /\ UNCHANGED unread
    /\ UNCHANGED <<ended, put>>

End ==
    /\ ended' = TRUE
    /\ waiting' = <<>>
    /\ calls' = [c \in DOMAIN calls |->
                   IF calls[c].res = "pending" THEN Refused ELSE calls[c]]
    /\ UNCHANGED <<unread, put>>

Spec == Init /\ [][Put \/ Ask \/ End]_box
=============================================================================
