---------------------------- MODULE MessageQueue ----------------------------
(* What libavutil/threadmessage.h promises: a bounded queue of messages    *)
(* with two error values.  There is nothing about locks or waking here: a  *)
(* call that cannot go on is pending, and one that can, completes.         *)
EXTENDS Integers, Sequences

CONSTANTS Senders, Receivers, Messages, nelem, HasFreeFunc

VARIABLES
    fifo,
    err_send, err_recv,     \* is the error set?
    pending,                \* threads whose call cannot complete yet
    msg                     \* msg[s]: what s is waiting to send

vars == <<fifo, err_send, err_recv, pending, msg>>

HasRoom == Len(fifo) < nelem

Init == /\ fifo = <<>>
        /\ err_send = FALSE /\ err_recv = FALSE
        /\ pending = {}
        /\ msg \in [Senders -> Messages]

(* An error of the senders is returned even if there is room.              *)
Send(s, m) ==
    /\ ~err_send /\ HasRoom
    /\ s \in pending => m = msg[s]
    /\ fifo' = Append(fifo, m)
    /\ pending' = pending \ {s}
    /\ UNCHANGED <<err_send, err_recv>>

SendFails(s) ==
    /\ err_send
    /\ pending' = pending \ {s}
    /\ UNCHANGED <<fifo, err_send, err_recv>>

SendBlocks(s, m) ==
    /\ s \notin pending /\ ~err_send /\ ~HasRoom
    /\ pending' = pending \cup {s}
    /\ msg' = [msg EXCEPT ![s] = m]
    /\ UNCHANGED <<fifo, err_send, err_recv>>

(* An error of the receivers is returned only after the last message.      *)
Receive(r) ==
    /\ fifo # <<>>
    /\ fifo' = Tail(fifo)
    /\ pending' = pending \ {r}
    /\ UNCHANGED <<err_send, err_recv>>

ReceiveFails(r) ==
    /\ err_recv /\ fifo = <<>>
    /\ pending' = pending \ {r}
    /\ UNCHANGED <<fifo, err_send, err_recv>>

ReceiveBlocks(r) ==
    /\ r \notin pending /\ ~err_recv /\ fifo = <<>>
    /\ pending' = pending \cup {r}
    /\ UNCHANGED <<fifo, err_send, err_recv, msg>>

SetError == /\ \/ err_send' \in BOOLEAN /\ UNCHANGED err_recv
               \/ err_recv' \in BOOLEAN /\ UNCHANGED err_send
            /\ UNCHANGED <<fifo, pending, msg>>

Flush == /\ HasFreeFunc
         /\ fifo' = <<>>
         /\ UNCHANGED <<err_send, err_recv, pending, msg>>

Complete(t) ==
    \/ t \in Senders /\ (SendFails(t) \/ \E m \in Messages : Send(t, m)) /\ UNCHANGED msg
    \/ t \in Receivers /\ (Receive(t) \/ ReceiveFails(t)) /\ UNCHANGED msg

Next == \/ \E t \in Senders \cup Receivers : Complete(t)
        \/ \E s \in Senders, m \in Messages : SendBlocks(s, m)
        \/ \E r \in Receivers : ReceiveBlocks(r)
        \/ SetError \/ Flush

Spec == Init /\ [][Next]_vars

(* Nobody is pending for ever who could complete all the time.             *)
CanComplete(t) ==
    /\ t \in pending
    /\ IF t \in Senders THEN err_send \/ HasRoom ELSE err_recv \/ fifo # <<>>
Prompt == \A t \in Senders \cup Receivers : []<>~CanComplete(t)
=============================================================================
