---------------------------- MODULE ThreadQueue ----------------------------
(***************************************************************************)
(* fftools/thread_queue.c: the bounded queue through which the tasks of    *)
(* the transcoding pipeline hand packets and frames to each other.  One    *)
(* consumer, any number of producers, nb_streams streams with an EOF state *)
(* each, one mutex, one condition variable on which both sides wait, and a *)
(* "choked" flag with which the scheduler freezes the consumer.            *)
(*                                                                         *)
(* An action is one critical section of the mutex: from locking it, or     *)
(* from waking up inside pthread_cond_wait(), to unlocking it or waiting   *)
(* (again).                                                                *)
(***************************************************************************)
EXTENDS Integers, Sequences

CONSTANTS nb_streams,    \* number of streams (tq_alloc)
          queue_size,    \* capacity of fifo_stream_index (tq_alloc)
          Senders,       \* threads that call tq_send() and tq_send_finish()
          Feeds,         \* Feeds[p]: the streams that thread p sends to
          AllocMayFail,  \* may av_container_fifo_write() fail with ENOMEM?
          MaxItems       \* bound: no tq_send() starts after so many items of a stream

Streams == 0 .. nb_streams - 1

ASSUME ConstantsAssumption ==
    /\ nb_streams \in Nat \ {0}
    /\ queue_size \in Nat \ {0}
    /\ Feeds \in [Senders -> SUBSET Streams]
    /\ AllocMayFail \in BOOLEAN
    /\ MaxItems \in Nat

VARIABLES
    choked,             \* tq->choked
    finished,           \* tq->finished: FINISHED_SEND, FINISHED_RECV per stream
    fifo,               \* tq->fifo: the items themselves
    fifo_stream_index,  \* tq->fifo_stream_index: the stream of each item
    sender,             \* sender[p]: where thread p is in tq_send()
    receiver,           \* where the consumer is in tq_receive()
    got,                \* what the last successful tq_receive() returned
    nsent, nrcvd,       \* history: items accepted, last item delivered
    ended               \* history: streams whose EOF was delivered

vars == <<choked, finished, fifo, fifo_stream_index, sender, receiver, got,
          nsent, nrcvd, ended>>

FINISHED_SEND == "FINISHED_SEND"
FINISHED_RECV == "FINISHED_RECV"

(* An item is known by the stream it was sent for and its number there.    *)
Item == [stream : Streams, n : Nat \ {0}]

Idle == [pc |-> "idle", stream |-> -1]
InSend(pc, s) == [pc |-> pc, stream |-> s]
SenderState == {Idle} \cup [pc : {"wait", "woken"}, stream : Streams]
NoItem == [idx |-> -1, data |-> [stream |-> -1, n |-> 0]]

SendDone(s) == FINISHED_SEND \in finished[s]
RecvDone(s) == FINISHED_RECV \in finished[s]

(* tq_alloc(): calloc'ed flags, two empty FIFOs.                           *)
Init == /\ choked = FALSE
        /\ finished = [s \in Streams |-> {}]
        /\ fifo = <<>>
        /\ fifo_stream_index = <<>>
        /\ sender = [p \in Senders |-> Idle]
        /\ receiver = "idle"
        /\ got = NoItem
        /\ nsent = [s \in Streams |-> 0]
        /\ nrcvd = [s \in Streams |-> 0]
        /\ ended = {}

-----------------------------------------------------------------------------
(* pthread_cond_broadcast(&tq->cond): every thread in pthread_cond_wait()  *)
(* will try to take the mutex again.                                       *)

(* Mutant: threads that do not wait are "woken" too.                       *)
WokenSendersAll(w) == [p \in Senders |-> InSend("woken", w[p].stream)]

WokenSenders(w) == [p \in Senders |->
    IF w[p].pc = "wait" THEN InSend("woken", w[p].stream) ELSE w[p]]

WokenReceiver(r) == IF r = "wait" THEN "woken" ELSE r

(* POSIX lets pthread_cond_wait() return without a signal.                 *)
SpuriousWakeup ==
    /\ \/ /\ receiver = "wait"
          /\ receiver' = "woken"
          /\ UNCHANGED sender
       \/ \E p \in Senders :
             /\ sender[p].pc = "wait"
             /\ sender' = [sender EXCEPT ![p].pc = "woken"]
             /\ UNCHANGED receiver
    /\ UNCHANGED <<choked, finished, fifo, fifo_stream_index, got,
                   nsent, nrcvd, ended>>

-----------------------------------------------------------------------------
(* tq_send().  A call for a stream that is already FINISHED_SEND returns   *)
(* EINVAL and changes nothing, so SendCall requires the opposite.  The     *)
(* flag is looked at only on entry, never again after a wait.              *)

(* Mutant: the capacity is checked on the FIFO that has none.              *)
CanWriteItems == Len(fifo) < queue_size

CanWrite == Len(fifo_stream_index) < queue_size

(* The three ways out of, or into, the wait loop, with the mutex held.     *)
SendWait(p, s) ==
    /\ ~RecvDone(s)
    /\ ~CanWrite
    /\ sender' = [sender EXCEPT ![p] = InSend("wait", s)]
    /\ UNCHANGED <<choked, finished, fifo, fifo_stream_index, receiver, got,
                   nsent, nrcvd, ended>>

SendEOF(p, s) ==
    /\ RecvDone(s)
    /\ finished' = [finished EXCEPT ![s] = @ \cup {FINISHED_SEND}]
    /\ sender' = [sender EXCEPT ![p] = Idle]
    /\ UNCHANGED <<choked, fifo, fifo_stream_index, receiver, got,
                   nsent, nrcvd, ended>>

SendWrite(p, s) ==
    /\ ~RecvDone(s)
    /\ CanWrite
    /\ fifo_stream_index' = Append(fifo_stream_index, s)
    /\ fifo' = Append(fifo, [stream |-> s, n |-> nsent[s] + 1])
    /\ nsent' = [nsent EXCEPT ![s] = @ + 1]
    /\ sender' = WokenSenders([sender EXCEPT ![p] = Idle])
    /\ receiver' = WokenReceiver(receiver)
    /\ UNCHANGED <<choked, finished, got, nrcvd, ended>>

(* av_container_fifo_write() fails after av_fifo_write() has succeeded:    *)
(* the stream index stays behind and nobody is woken.                      *)
SendNoMem(p, s) ==
    /\ AllocMayFail
    /\ ~RecvDone(s)
    /\ CanWrite
    /\ fifo_stream_index' = Append(fifo_stream_index, s)
    /\ sender' = [sender EXCEPT ![p] = Idle]
    /\ UNCHANGED <<choked, finished, fifo, receiver, got, nsent, nrcvd, ended>>

SendLocked(p, s) ==
    SendWait(p, s) \/ SendEOF(p, s) \/ SendWrite(p, s) \/ SendNoMem(p, s)

SendCall(p, s) == /\ sender[p] = Idle
                  /\ s \in Feeds[p]
                  /\ ~SendDone(s)
                  /\ nsent[s] < MaxItems
                  /\ SendLocked(p, s)

SendResume(p) == /\ sender[p].pc = "woken"
                 /\ SendLocked(p, sender[p].stream)

(* Mutant: tq_send_finish() without its broadcast.                         *)
SendFinishQuiet(p, s) ==
    /\ sender[p] = Idle
    /\ s \in Feeds[p]
    /\ finished' = [finished EXCEPT ![s] = @ \cup {FINISHED_SEND}]
    /\ choked' = FALSE
    /\ UNCHANGED <<fifo, fifo_stream_index, sender, receiver, got,
                   nsent, nrcvd, ended>>

(* tq_send_finish(): also lifts the choke, so that the EOF can be read.    *)
SendFinish(p, s) ==
    /\ sender[p] = Idle
    /\ s \in Feeds[p]
    /\ finished' = [finished EXCEPT ![s] = @ \cup {FINISHED_SEND}]
    /\ choked' = FALSE
    /\ sender' = WokenSenders(sender)
    /\ receiver' = WokenReceiver(receiver)
    /\ UNCHANGED <<fifo, fifo_stream_index, got, nsent, nrcvd, ended>>

-----------------------------------------------------------------------------
(* tq_receive() with receive_locked().                                     *)

(* The sequence that is left when the first k elements of q are read.      *)
Drop(q, k) == SubSeq(q, k + 1, Len(q))

(* Item k is the oldest one whose stream is still wanted: the read loop    *)
(* discards the items before it and returns it.                            *)
FirstWanted(k) == /\ k \in 1 .. Len(fifo)
                  /\ ~RecvDone(fifo_stream_index[k])
                  /\ \A j \in 1 .. k - 1 : RecvDone(fifo_stream_index[j])

NoneWanted == \A j \in 1 .. Len(fifo) : RecvDone(fifo_stream_index[j])

(* finished[s] is nonzero but the consumer has not seen the EOF of s yet.  *)
EofPending(s) == finished[s] # {} /\ ~RecvDone(s)

AllFinished == \A s \in Streams : finished[s] # {}

(* Mutant: a discarded item leaves its stream index behind.                *)
ReadItemsOneLabel(k) ==
    /\ fifo' = Drop(fifo, k)
    /\ fifo_stream_index' = Drop(fifo_stream_index, IF k > 0 THEN 1 ELSE 0)
    /\ sender' = IF k > 0 THEN WokenSenders(sender) ELSE sender

(* Mutant: the space that a read makes is not signalled.                   *)
ReadItemsQuiet(k) ==
    /\ fifo' = Drop(fifo, k)
    /\ fifo_stream_index' = Drop(fifo_stream_index, k)
    /\ UNCHANGED sender

(* k items leave both FIFOs; the other side is woken if that is a change.  *)
ReadItems(k) ==
    /\ fifo' = Drop(fifo, k)
    /\ fifo_stream_index' = Drop(fifo_stream_index, k)
    /\ sender' = IF k > 0 THEN WokenSenders(sender) ELSE sender

(* Mutant: the index of the first item is returned, though it is discarded. *)
ReceiveItemFirstLabel(k) ==
    /\ ~choked
    /\ FirstWanted(k)
    /\ ReadItems(k)
    /\ got' = [idx |-> fifo_stream_index[1], data |-> fifo[k]]
    /\ nrcvd' = [nrcvd EXCEPT ![fifo_stream_index[k]] = fifo[k].n]
    /\ receiver' = "idle"
    /\ UNCHANGED <<choked, finished, nsent, ended>>

ReceiveItem(k) ==
    /\ ~choked
    /\ FirstWanted(k)
    /\ ReadItems(k)
    /\ got' = [idx |-> fifo_stream_index[k], data |-> fifo[k]]
    /\ nrcvd' = [nrcvd EXCEPT ![fifo_stream_index[k]] = fifo[k].n]
    /\ receiver' = "idle"
    /\ UNCHANGED <<choked, finished, nsent, ended>>

(* Mutant: the EOF flags are looked at before the items.                   *)
ReceiveEOFEarly(s) ==
    /\ ~choked
    /\ EofPending(s)
    /\ \A t \in Streams : t < s => ~EofPending(t)
    /\ finished' = [finished EXCEPT ![s] = @ \cup {FINISHED_RECV}]
    /\ ended' = ended \cup {s}
    /\ receiver' = "idle"
    /\ UNCHANGED <<choked, fifo, fifo_stream_index, sender, got, nsent, nrcvd>>

(* EOF of one stream, the first one in index order.                        *)
ReceiveEOF(s) ==
    /\ ~choked
    /\ NoneWanted
    /\ EofPending(s)
    /\ \A t \in Streams : t < s => ~EofPending(t)
    /\ ReadItems(Len(fifo))
    /\ finished' = [finished EXCEPT ![s] = @ \cup {FINISHED_RECV}]
    /\ ended' = ended \cup {s}
    /\ receiver' = "idle"
    /\ UNCHANGED <<choked, got, nsent, nrcvd>>

(* EOF with stream index -1: every stream is done, the consumer stops.     *)
ReceiveAllEOF ==
    /\ ~choked
    /\ NoneWanted
    /\ \A s \in Streams : ~EofPending(s)
    /\ AllFinished
    /\ ReadItems(Len(fifo))
    /\ receiver' = "done"
    /\ UNCHANGED <<choked, finished, got, nsent, nrcvd, ended>>

(* Mutant: the choked flag is looked at after the items are read.          *)
ReceiveWaitChokedLate ==
    /\ \/ choked
       \/ /\ NoneWanted
          /\ \A s \in Streams : ~EofPending(s)
          /\ ~AllFinished
    /\ ReadItems(Len(fifo))
    /\ receiver' = "wait"
    /\ UNCHANGED <<choked, finished, got, nsent, nrcvd, ended>>

(* EAGAIN: wait, after discarding what is not wanted (unless choked).      *)
ReceiveWait ==
    /\ \/ choked /\ ReadItems(0)
       \/ /\ ~choked
          /\ NoneWanted
          /\ \A s \in Streams : ~EofPending(s)
          /\ ~AllFinished
          /\ ReadItems(Len(fifo))
    /\ receiver' = "wait"
    /\ UNCHANGED <<choked, finished, got, nsent, nrcvd, ended>>

Receive == /\ receiver \in {"idle", "woken"}
           /\ \/ \E k \in 1 .. Len(fifo) : ReceiveItem(k)
              \/ \E s \in Streams : ReceiveEOF(s)
              \/ ReceiveAllEOF
              \/ ReceiveWait

(* Mutant: tq_receive_finish() without its broadcast.                      *)
ReceiveFinishQuiet(s) ==
    /\ receiver \in {"idle", "closing", "done"}
    /\ finished' = [finished EXCEPT ![s] = @ \cup {FINISHED_RECV}]
    /\ UNCHANGED <<choked, fifo, fifo_stream_index, sender, receiver, got,
                   nsent, nrcvd, ended>>

(* tq_receive_finish(): the consumer closes a stream, between two reads or *)
(* while its task ends.                                                    *)
ReceiveFinish(s) ==
    /\ receiver \in {"idle", "closing", "done"}
    /\ finished' = [finished EXCEPT ![s] = @ \cup {FINISHED_RECV}]
    /\ sender' = WokenSenders(sender)
    /\ UNCHANGED <<choked, fifo, fifo_stream_index, receiver, got,
                   nsent, nrcvd, ended>>

(* The consumer's task ends early (error, muxer EOF): from here on it only *)
(* closes the streams.                                                     *)
StopReceiving ==
    /\ receiver = "idle"
    /\ receiver' = "closing"
    /\ UNCHANGED <<choked, finished, fifo, fifo_stream_index, sender, got,
                   nsent, nrcvd, ended>>

(* tq_choke(), called by the scheduler.                                    *)
Choke(c) ==
    /\ choked # c
    /\ choked' = c
    /\ sender' = WokenSenders(sender)
    /\ receiver' = WokenReceiver(receiver)
    /\ UNCHANGED <<finished, fifo, fifo_stream_index, got, nsent, nrcvd, ended>>

-----------------------------------------------------------------------------
SenderNext(p) == \/ SendResume(p)
                 \/ \E s \in Streams : SendCall(p, s) \/ SendFinish(p, s)

Next == \/ \E p \in Senders : SenderNext(p)
        \/ Receive
        \/ \E s \in Streams : ReceiveFinish(s)
        \/ StopReceiving
        \/ \E c \in BOOLEAN : Choke(c)
        \/ SpuriousWakeup

Spec == Init /\ [][Next]_vars

(* A thread that can run does run: one that is woken goes on, the consumer *)
(* keeps calling tq_receive() or, once it stops, closes every stream.      *)
Fairness == /\ \A p \in Senders : WF_vars(SendResume(p))
            /\ WF_vars(Receive)
            /\ \A s \in Streams :
                 WF_vars(receiver = "closing" /\ ReceiveFinish(s))

FairSpec == Spec /\ Fairness

-----------------------------------------------------------------------------
TypeOK ==
    /\ choked \in BOOLEAN
    /\ finished \in [Streams -> SUBSET {FINISHED_SEND, FINISHED_RECV}]
    /\ fifo \in Seq(Item)
    /\ fifo_stream_index \in Seq(Streams)
    /\ sender \in [Senders -> SenderState]
    /\ receiver \in {"idle", "wait", "woken", "closing", "done"}
    /\ got \in {NoItem} \cup [idx : Streams, data : Item]
    /\ nsent \in [Streams -> Nat]
    /\ nrcvd \in [Streams -> Nat]
    /\ ended \in SUBSET Streams

(* Even when writes fail, the av_assert0() in receive_locked() cannot fire: *)
(* an item in the FIFO always has a stream index to read next to it, and   *)
(* the queue stays within its capacity.                                    *)
LabelForEveryItem == /\ Len(fifo) <= Len(fifo_stream_index)
                     /\ Len(fifo_stream_index) <= queue_size

(* The two FIFOs describe the same items: tq_receive() depends on it when  *)
(* it pairs a packet with a stream index.                                  *)
FifosAgree ==
    /\ Len(fifo) = Len(fifo_stream_index)
    /\ \A i \in 1 .. Len(fifo) : fifo[i].stream = fifo_stream_index[i]

(* thread_queue.h on tq_receive(): stream_idx is "the index of the stream  *)
(* that was processed", i.e. the one that the item was sent for.           *)
DeliveredToItsStream == got.idx = got.data.stream

(* The consumer sits in pthread_cond_wait() only while tq_receive() has    *)
(* nothing to return, although tq_send() has three paths that change the   *)
(* queue without a broadcast.                                              *)
ReceiverNotForgotten ==
    receiver = "wait" =>
        \/ choked
        \/ /\ fifo = <<>>
           /\ \A s \in Streams : ~EofPending(s)
           /\ ~AllFinished

(* A sender sits in pthread_cond_wait() only while the queue is full and   *)
(* its stream is wanted: although receive_locked() can set FINISHED_RECV   *)
(* without a broadcast, it never does so to a stream with a waiting sender.*)
SenderNotForgotten ==
    \A p \in Senders :
        sender[p].pc = "wait" => ~CanWrite /\ ~RecvDone(sender[p].stream)

(* The items of stream s in the queue are the ones that were accepted and  *)
(* not yet delivered, oldest first.                                        *)
StreamInFlight(s) ==
    /\ nrcvd[s] <= nsent[s]
    /\ \A i \in 1 .. Len(fifo) : fifo[i].stream = s =>
          fifo[i].n \in nrcvd[s] + 1 .. nsent[s]
    /\ \A n \in nrcvd[s] + 1 .. nsent[s] :
          \E i \in 1 .. Len(fifo) : fifo[i].stream = s /\ fifo[i].n = n
    /\ \A i, j \in 1 .. Len(fifo) :
          i < j /\ fifo[i].stream = s /\ fifo[j].stream = s =>
              fifo[i].n < fifo[j].n

(* So it is for every stream that the consumer wants, however the streams  *)
(* interleave and however many items of closed streams are in between.     *)
InFlight == \A s \in Streams : ~RecvDone(s) => StreamInFlight(s)

(* The queue implements one ordered, lossless channel per stream, whose    *)
(* EOF is delivered at most once and only behind the last item.            *)
Channels == INSTANCE StreamChannels
              WITH sent <- nsent, rcvd <- nrcvd, ended <- ended,
                   abandoned <- {s \in Streams : RecvDone(s)} \ ended

ChannelsSpec == Channels!Spec

(* Once a stream is send-finished, it gets closed on the receiving side    *)
(* too (EOF delivered or given up), if the scheduler ends up not choking.  *)
EofArrives ==
    <>[](~choked) => \A s \in Streams : SendDone(s) ~> RecvDone(s)

(* A sender that waits on a full queue gets out of tq_send(), if the       *)
(* scheduler ends up not choking the consumer.                             *)
SendReturns ==
    <>[](~choked) => \A p \in Senders :
        sender[p].pc # "idle" ~> sender[p].pc = "idle"
=============================================================================
