------------------------- MODULE ThreadMessageQueue -------------------------
(* libavutil/threadmessage.c: a bounded queue of messages between any      *)
(* number of senders and receivers.  A message wakes one receiver and its  *)
(* removal one sender, by pthread_cond_signal(); errors and flushes wake   *)
(* all, by pthread_cond_broadcast().  One action is one critical section   *)
(* of mq->lock.                                                            *)
EXTENDS Integers, Sequences, FiniteSets

CONSTANTS
    Senders, Receivers,
    Messages,
    nelem,          \* capacity of the queue
    HasFreeFunc     \* was av_thread_message_queue_set_free_func() called?

ASSUME MessageQueueAssumption ==
    /\ IsFiniteSet(Senders) /\ IsFiniteSet(Receivers)
    /\ Senders \cap Receivers = {}
    /\ nelem \in Nat \ {0}
    /\ HasFreeFunc \in BOOLEAN

Users == Senders \cup Receivers

VARIABLES
    fifo,
    err_send, err_recv,     \* is the error code not zero?
    pc,                     \* pc[t]: "out" of the queue, "asleep" in
                            \* pthread_cond_wait(), or "awake" and about to
                            \* test its condition again
    msg                     \* msg[s]: the message s was last blocked with

vars == <<fifo, err_send, err_recv, pc, msg>>

Init == /\ fifo = <<>>
        /\ err_send = FALSE /\ err_recv = FALSE
        /\ pc = [t \in Users |-> "out"]
        /\ msg \in [Senders -> Messages]

-----------------------------------------------------------------------------
Asleep(S) == {t \in S : pc[t] = "asleep"}
Awake(S) == {t \in S : pc[t] = "awake"}

(* Slips: only one thread wakes up instead of all; nobody is signalled.    *)
BroadcastOne(S) == IF Asleep(S) = {} THEN {} ELSE {CHOOSE t \in Asleep(S) : TRUE}
SignalledNobody(S) == {{}}

(* pthread_cond_broadcast() and pthread_cond_signal() on the condition     *)
(* variable of S: the threads that wake up.                                *)
Broadcast(S) == Asleep(S)
Signalled(S) == IF Asleep(S) = {} THEN {{}} ELSE {{t} : t \in Asleep(S)}

(* The threads in W wake up, and those in L leave the queue.               *)
PcWith(W, L) == [t \in Users |-> IF t \in L THEN "out" ELSE IF t \in W THEN "awake" ELSE pc[t]]

HasRoomForOneMore == Len(fifo) <= nelem     \* a slip
HasRoom == Len(fifo) < nelem

SendSleep(s, m, nonblock) ==
    /\ ~err_send /\ ~HasRoom /\ ~nonblock
    /\ pc' = [pc EXCEPT ![s] = "asleep"]
    /\ msg' = [msg EXCEPT ![s] = m]
    /\ UNCHANGED <<fifo, err_send, err_recv>>

SendAgain(nonblock) == ~err_send /\ ~HasRoom /\ nonblock /\ UNCHANGED vars

SendError(s) ==
    /\ err_send
    /\ pc' = PcWith({}, {s})
    /\ UNCHANGED <<fifo, err_send, err_recv, msg>>

SendWrite(s, m) ==
    /\ ~err_send /\ HasRoom
    /\ fifo' = Append(fifo, m)
    /\ \E W \in Signalled(Receivers) : pc' = PcWith(W, {s})
    /\ UNCHANGED <<err_send, err_recv, msg>>

SendLocked(s, m, nonblock) ==
    SendSleep(s, m, nonblock) \/ SendAgain(nonblock) \/ SendError(s) \/ SendWrite(s, m)

SendCall(s) ==
    /\ pc[s] = "out"
    /\ \E m \in Messages, nonblock \in BOOLEAN : SendLocked(s, m, nonblock)

SendResume(s) == pc[s] = "awake" /\ SendLocked(s, msg[s], FALSE)

-----------------------------------------------------------------------------
RecvSleep(r, nonblock) ==
    /\ ~err_recv /\ fifo = <<>> /\ ~nonblock
    /\ pc' = [pc EXCEPT ![r] = "asleep"]
    /\ UNCHANGED <<fifo, err_send, err_recv, msg>>

RecvAgain(nonblock) == ~err_recv /\ fifo = <<>> /\ nonblock /\ UNCHANGED vars

RecvErrorAtOnce(r) ==       \* a slip: the error overtakes messages
    /\ err_recv
    /\ pc' = PcWith({}, {r})
    /\ UNCHANGED <<fifo, err_send, err_recv, msg>>

RecvError(r) ==
    /\ err_recv /\ fifo = <<>>
    /\ pc' = PcWith({}, {r})
    /\ UNCHANGED <<fifo, err_send, err_recv, msg>>

RecvRead(r) ==
    /\ fifo # <<>>
    /\ fifo' = Tail(fifo)
    /\ \E W \in Signalled(Senders) : pc' = PcWith(W, {r})
    /\ UNCHANGED <<err_send, err_recv, msg>>

RecvLocked(r, nonblock) ==
    RecvSleep(r, nonblock) \/ RecvAgain(nonblock) \/ RecvError(r) \/ RecvRead(r)

RecvCall(r) == pc[r] = "out" /\ \E nonblock \in BOOLEAN : RecvLocked(r, nonblock)
RecvResume(r) == pc[r] = "awake" /\ RecvLocked(r, FALSE)

-----------------------------------------------------------------------------
(* Calls by anybody.  An error may be cleared again.                       *)

SetErrSend(err) ==
    /\ err_send' = err
    /\ pc' = PcWith(Broadcast(Senders), {})
    /\ UNCHANGED <<fifo, err_recv, msg>>

SetErrRecv(err) ==
    /\ err_recv' = err
    /\ pc' = PcWith(Broadcast(Receivers), {})
    /\ UNCHANGED <<fifo, err_send, msg>>

FlushQuiet ==       \* a slip: the senders are not told
    /\ fifo' = IF HasFreeFunc THEN <<>> ELSE fifo
    /\ UNCHANGED <<err_send, err_recv, pc, msg>>

(* Without a free function the messages stay.                              *)
Flush ==
    /\ fifo' = IF HasFreeFunc THEN <<>> ELSE fifo
    /\ pc' = PcWith(Broadcast(Senders), {})
    /\ UNCHANGED <<err_send, err_recv, msg>>

(* pthread_cond_wait() may return for no reason.                           *)
SpuriousWakeup(t) ==
    /\ pc[t] = "asleep"
    /\ pc' = PcWith({t}, {})
    /\ UNCHANGED <<fifo, err_send, err_recv, msg>>

-----------------------------------------------------------------------------
Next == \/ \E s \in Senders : SendCall(s) \/ SendResume(s)
        \/ \E r \in Receivers : RecvCall(r) \/ RecvResume(r)
        \/ \E err \in BOOLEAN : SetErrSend(err) \/ SetErrRecv(err)
        \/ Flush
        \/ \E t \in Users : SpuriousWakeup(t)

Spec == Init /\ [][Next]_vars

(* A thread that is awake runs.  Nothing makes a thread call, or wakes it  *)
(* without reason.                                                         *)
FairSpec == /\ Spec
            /\ \A s \in Senders : WF_vars(SendResume(s))
            /\ \A r \in Receivers : WF_vars(RecvResume(r))

-----------------------------------------------------------------------------
(* Properties.                                                             *)

TypeOK ==
    /\ fifo \in Seq(Messages) /\ Len(fifo) <= nelem
    /\ err_send \in BOOLEAN /\ err_recv \in BOOLEAN
    /\ pc \in [Users -> {"out", "asleep", "awake"}]
    /\ msg \in [Senders -> Messages]

(* While a thread of S sleeps in pthread_cond_wait() there is no error for *)
(* it, and as many others of S are awake as could go on.                   *)
Covered(S, err, places) ==
    Asleep(S) # {} => ~err /\ places <= Cardinality(Awake(S))

(* One signal for one message is enough: no sender and no receiver sleeps  *)
(* for ever, whoever takes a place or a message before those that were     *)
(* woken for it (av_thread_message_queue_send_locked() and _recv_locked()).*)
SleepersNotForgotten ==
    /\ Covered(Senders, err_send, nelem - Len(fifo))
    /\ Covered(Receivers, err_recv, Len(fifo))

(* The queue is the one of threadmessage.h: bounded, in order, without     *)
(* loss but for a flush, senders refused at once by their error, receivers *)
(* only after the last message.                                            *)
M == INSTANCE MessageQueue WITH pending <- {t \in Users : pc[t] # "out"}
MessageQueueSpec == M!Spec

(* A call that can complete all the time does, although every wake-up      *)
(* reaches one thread and newcomers may take its place.                    *)
CallsComplete == M!Prompt
=============================================================================
