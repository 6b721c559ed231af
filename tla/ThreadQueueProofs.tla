------------------------- MODULE ThreadQueueProofs -------------------------
(***************************************************************************)
(* Proofs about ThreadQueue, for every number of streams, capacity, set of *)
(* senders and number of items.                                            *)
(***************************************************************************)
EXTENDS ThreadQueue, SequenceTheorems, TLAPS

-----------------------------------------------------------------------------
(* Helpers of the receiving side.                                          *)

(* Reading k elements leaves the rest, in order.                           *)
LEMMA DropFacts ==
  ASSUME NEW S, NEW q \in Seq(S), NEW k \in 0 .. Len(q)
  PROVE  /\ Drop(q, k) \in Seq(S)
         /\ Len(Drop(q, k)) = Len(q) - k
         /\ \A i \in 1 .. Len(q) - k : Drop(q, k)[i] = q[i + k]
<1>1. Len(q) \in Nat
  OBVIOUS
<1>2. \A i \in k + 1 .. Len(q) : q[i] \in S
  BY <1>1
<1> QED
  BY <1>1, <1>2, SubSeqProperties DEF Drop

(* A broadcast leaves no thread waiting and does not change whom it serves.*)
LEMMA WokenFacts ==
  ASSUME NEW w \in [Senders -> SenderState]
  PROVE  /\ WokenSenders(w) \in
              [Senders -> SenderState]
         /\ \A p \in Senders : WokenSenders(w)[p].pc # "wait"
BY DEF WokenSenders, InSend, Idle, SenderState

-----------------------------------------------------------------------------
(* Type correctness.                                                       *)

(* LabelForEveryItem belongs to the induction: without it receive_locked() *)
(* could read a stream index that is not there.                            *)
TypeInv == TypeOK /\ LabelForEveryItem

LEMMA InitTypeInv == Init => TypeInv
<1> SUFFICES ASSUME Init PROVE TypeInv
  OBVIOUS
<1>1. /\ fifo \in Seq(Item) /\ Len(fifo) = 0
      /\ fifo_stream_index \in Seq(Streams) /\ Len(fifo_stream_index) = 0
  BY DEF Init
<1>2. sender \in [Senders -> SenderState]
  BY DEF Init, SenderState
<1>3. LabelForEveryItem
  BY <1>1, ConstantsAssumption DEF LabelForEveryItem
<1>4. finished \in [Streams -> SUBSET {FINISHED_SEND, FINISHED_RECV}]
  BY DEF Init
<1> QED
  BY <1>1, <1>2, <1>3, <1>4 DEF Init, TypeInv, TypeOK

(* One critical section of tq_send().                                      *)
LEMMA SendTypeInv ==
  ASSUME TypeInv, NEW p \in Senders, NEW s \in Streams, SendLocked(p, s)
  PROVE  TypeInv'
<1> USE ConstantsAssumption
<1>1. CASE SendWait(p, s)
  BY <1>1 DEF SendWait, TypeInv, TypeOK, LabelForEveryItem, InSend, SenderState
<1>2. CASE SendEOF(p, s)
  BY <1>2 DEF SendEOF, TypeInv, TypeOK, LabelForEveryItem, SenderState
<1>3. CASE SendWrite(p, s)
  <2> DEFINE it == [stream |-> s, n |-> nsent[s] + 1]
  <2>1. it \in Item
    BY DEF TypeInv, TypeOK, Item
  <2>2. fifo' \in Seq(Item) /\ Len(fifo') = Len(fifo) + 1
    BY <1>3, <2>1 DEF SendWrite, TypeInv, TypeOK
  <2>3. /\ fifo_stream_index' \in Seq(Streams)
        /\ Len(fifo_stream_index') = Len(fifo_stream_index) + 1
    BY <1>3 DEF SendWrite, TypeInv, TypeOK
  <2>4. sender' \in [Senders -> SenderState]
    <3>1. [sender EXCEPT ![p] = Idle] \in
            [Senders -> SenderState]
      BY DEF TypeInv, TypeOK, SenderState
    <3> QED
      BY <3>1, <1>3, WokenFacts DEF SendWrite
  <2>5. LabelForEveryItem'
    BY <1>3, <2>2, <2>3 DEF SendWrite, CanWrite, TypeInv, TypeOK, LabelForEveryItem
  <2>6. receiver' \in {"idle", "wait", "woken", "closing", "done"}
    BY <1>3 DEF SendWrite, TypeInv, TypeOK, WokenReceiver
  <2>7. nsent' \in [Streams -> Nat]
    BY <1>3 DEF SendWrite, TypeInv, TypeOK
  <2> QED
    BY <1>3, <2>2, <2>3, <2>4, <2>5, <2>6, <2>7 DEF SendWrite, TypeInv, TypeOK
<1>4. CASE SendNoMem(p, s)
  <2>1. /\ fifo_stream_index' \in Seq(Streams)
        /\ Len(fifo_stream_index') = Len(fifo_stream_index) + 1
    BY <1>4 DEF SendNoMem, TypeInv, TypeOK
  <2> QED
    BY <1>4, <2>1 DEF SendNoMem, CanWrite, TypeInv, TypeOK, LabelForEveryItem, SenderState
<1> QED
  BY <1>1, <1>2, <1>3, <1>4 DEF SendLocked

(* Reading k items, the part that the outcomes of tq_receive() share.      *)
LEMMA ReadItemsFacts ==
  ASSUME TypeInv, NEW k \in 0 .. Len(fifo), ReadItems(k)
  PROVE  /\ fifo' \in Seq(Item)
         /\ Len(fifo') = Len(fifo) - k
         /\ \A i \in 1 .. Len(fifo) - k : fifo'[i] = fifo[i + k]
         /\ fifo_stream_index' \in Seq(Streams)
         /\ Len(fifo_stream_index') = Len(fifo_stream_index) - k
         /\ \A i \in 1 .. Len(fifo_stream_index) - k :
               fifo_stream_index'[i] = fifo_stream_index[i + k]
         /\ sender' \in [Senders -> SenderState]
         /\ k > 0 => \A p \in Senders : sender'[p].pc # "wait"
         /\ k = 0 => sender' = sender
         /\ LabelForEveryItem'
<1> USE ConstantsAssumption
<1>0. /\ fifo \in Seq(Item) /\ Len(fifo) \in Nat
      /\ fifo_stream_index \in Seq(Streams) /\ Len(fifo_stream_index) \in Nat
      /\ sender \in [Senders -> SenderState]
  BY DEF TypeInv, TypeOK
<1>1. k \in 0 .. Len(fifo_stream_index)
  BY DEF TypeInv, TypeOK, LabelForEveryItem
<1>2. /\ fifo' \in Seq(Item)
      /\ Len(fifo') = Len(fifo) - k
      /\ \A i \in 1 .. Len(fifo) - k : fifo'[i] = fifo[i + k]
  BY <1>0, DropFacts DEF ReadItems
<1>3. /\ fifo_stream_index' \in Seq(Streams)
      /\ Len(fifo_stream_index') = Len(fifo_stream_index) - k
      /\ \A i \in 1 .. Len(fifo_stream_index) - k :
               fifo_stream_index'[i] = fifo_stream_index[i + k]
  BY <1>0, <1>1, DropFacts DEF ReadItems
<1>4. sender' \in [Senders -> SenderState]
  BY <1>0, WokenFacts DEF ReadItems
<1>5. /\ k > 0 => \A p \in Senders : sender'[p].pc # "wait"
      /\ k = 0 => sender' = sender
  <2>1. CASE k > 0
    <3>1. sender' = WokenSenders(sender)
      BY <2>1 DEF ReadItems
    <3> QED
      BY <1>0, <2>1, <3>1, WokenFacts
  <2>2. CASE ~(k > 0)
    BY <1>0, <2>2 DEF ReadItems
  <2> QED
    BY <2>1, <2>2
<1>6. LabelForEveryItem'
  BY <1>2, <1>3 DEF LabelForEveryItem, TypeInv, TypeOK
<1> QED
  BY <1>2, <1>3, <1>4, <1>5, <1>6

LEMMA ReceiveTypeInv == TypeInv /\ Receive => TypeInv'
<1> SUFFICES ASSUME TypeInv, Receive PROVE TypeInv'
  OBVIOUS
<1> USE ConstantsAssumption
<1>0. Len(fifo) \in Nat /\ Len(fifo_stream_index) \in Nat
  BY DEF TypeInv, TypeOK
<1>1. ASSUME NEW k \in 1 .. Len(fifo), ReceiveItem(k) PROVE TypeInv'
  <2>1. ReadItems(k) /\ k \in 0 .. Len(fifo)
    BY <1>0, <1>1 DEF ReceiveItem
  <2>2. fifo[k] \in Item /\ fifo_stream_index[k] \in Streams
    BY <1>0, <1>1 DEF TypeInv, TypeOK, LabelForEveryItem
  <2>3. fifo[k].n \in Nat
    BY <2>2 DEF Item
  <2> QED
    BY <1>1, <2>1, <2>2, <2>3, ReadItemsFacts DEF ReceiveItem, TypeInv, TypeOK
<1>2. ASSUME NEW s \in Streams, ReceiveEOF(s) PROVE TypeInv'
  <2>1. ReadItems(Len(fifo)) /\ Len(fifo) \in 0 .. Len(fifo)
    BY <1>0, <1>2 DEF ReceiveEOF
  <2> QED
    BY <1>2, <2>1, ReadItemsFacts DEF ReceiveEOF, TypeInv, TypeOK
<1>3. CASE ReceiveAllEOF
  <2>1. ReadItems(Len(fifo)) /\ Len(fifo) \in 0 .. Len(fifo)
    BY <1>0, <1>3 DEF ReceiveAllEOF
  <2> QED
    BY <1>3, <2>1, ReadItemsFacts DEF ReceiveAllEOF, TypeInv, TypeOK
<1>4. CASE ReceiveWait
  <2>1. PICK k \in 0 .. Len(fifo) : ReadItems(k)
    BY <1>0, <1>4 DEF ReceiveWait
  <2> QED
    BY <1>4, <2>1, ReadItemsFacts DEF ReceiveWait, TypeInv, TypeOK
<1> QED
  BY <1>1, <1>2, <1>3, <1>4 DEF Receive

LEMMA NextTypeInv == TypeInv /\ [Next]_vars => TypeInv'
<1> SUFFICES ASSUME TypeInv, [Next]_vars PROVE TypeInv'
  OBVIOUS
<1> USE ConstantsAssumption
<1>1. ASSUME NEW p \in Senders, SendResume(p) PROVE TypeInv'
  <2>1. sender[p].stream \in Streams
    BY <1>1 DEF SendResume, TypeInv, TypeOK, Idle, SenderState
  <2> QED
    BY <1>1, <2>1, SendTypeInv DEF SendResume
<1>2. ASSUME NEW p \in Senders, NEW s \in Streams, SendCall(p, s) PROVE TypeInv'
  BY <1>2, SendTypeInv DEF SendCall
<1>3. ASSUME NEW p \in Senders, NEW s \in Streams, SendFinish(p, s) PROVE TypeInv'
  <2>1. sender' \in [Senders -> SenderState]
    BY <1>3, WokenFacts DEF SendFinish, TypeInv, TypeOK
  <2> QED
    BY <1>3, <2>1 DEF SendFinish, WokenReceiver, TypeInv, TypeOK, LabelForEveryItem
<1>4. CASE Receive
  BY <1>4, ReceiveTypeInv
<1>5. ASSUME NEW s \in Streams, ReceiveFinish(s) PROVE TypeInv'
  <2>1. sender' \in [Senders -> SenderState]
    BY <1>5, WokenFacts DEF ReceiveFinish, TypeInv, TypeOK
  <2> QED
    BY <1>5, <2>1 DEF ReceiveFinish, TypeInv, TypeOK, LabelForEveryItem
<1>6. CASE StopReceiving
  BY <1>6 DEF StopReceiving, TypeInv, TypeOK, LabelForEveryItem
<1>7. ASSUME NEW c \in BOOLEAN, Choke(c) PROVE TypeInv'
  <2>1. sender' \in [Senders -> SenderState]
    BY <1>7, WokenFacts DEF Choke, TypeInv, TypeOK
  <2> QED
    BY <1>7, <2>1 DEF Choke, WokenReceiver, TypeInv, TypeOK, LabelForEveryItem
<1>8. CASE SpuriousWakeup
  <2>1. sender' \in [Senders -> SenderState]
    <3> DEFINE S == [pc : {"wait", "woken"}, stream : Streams]
    <3>1. ASSUME NEW p \in Senders, sender[p].pc = "wait",
                 sender' = [sender EXCEPT ![p].pc = "woken"]
          PROVE  sender' \in [Senders -> SenderState]
      <4>1. sender[p] \in S
        BY <3>1 DEF TypeInv, TypeOK, SenderState, Idle
      <4>2. [sender[p] EXCEPT !.pc = "woken"] \in SenderState
        BY <4>1 DEF SenderState
      <4> QED
        BY <3>1, <4>2 DEF TypeInv, TypeOK
    <3> QED
      BY <1>8, <3>1 DEF SpuriousWakeup, TypeInv, TypeOK
  <2> QED
    BY <1>8, <2>1 DEF SpuriousWakeup, TypeInv, TypeOK, LabelForEveryItem
<1>9. CASE UNCHANGED vars
  BY <1>9 DEF vars, TypeInv, TypeOK, LabelForEveryItem
<1> QED
  BY <1>1, <1>2, <1>3, <1>4, <1>5, <1>6, <1>7, <1>8, <1>9 DEF Next, SenderNext

(* Every variable keeps its type, whether or not writes can fail.          *)
THEOREM TypeCorrect == Spec => []TypeOK
<1>1. TypeInv => TypeOK
  BY DEF TypeInv
<1> QED
  BY <1>1, InitTypeInv, NextTypeInv, PTL DEF Spec

(* The av_assert0() of receive_locked() never fires and the capacity is    *)
(* respected, even if av_container_fifo_write() fails.                     *)
THEOREM ReadAssertHolds == Spec => []LabelForEveryItem
<1>1. TypeInv => LabelForEveryItem
  BY DEF TypeInv
<1> QED
  BY <1>1, InitTypeInv, NextTypeInv, PTL DEF Spec

-----------------------------------------------------------------------------
(* No wakeup of the consumer is lost, whether or not writes can fail.      *)

LEMMA ReceiverStep ==
  TypeInv /\ ReceiverNotForgotten /\ [Next]_vars => ReceiverNotForgotten'
<1> SUFFICES ASSUME TypeInv, ReceiverNotForgotten, [Next]_vars,
                    receiver' = "wait"
             PROVE  \/ choked'
                    \/ /\ fifo' = <<>>
                       /\ \A s \in Streams : ~EofPending(s)'
                       /\ ~AllFinished'
  BY DEF ReceiverNotForgotten
<1> DEFINE Nothing == \/ choked
                      \/ /\ fifo = <<>>
                         /\ \A s \in Streams : ~EofPending(s)
                         /\ ~AllFinished
<1>1. ASSUME NEW p \in Senders, NEW s \in Streams, SendLocked(p, s) PROVE Nothing'
  <2>1. CASE SendWait(p, s)
    BY <2>1 DEF SendWait, ReceiverNotForgotten, EofPending, AllFinished, RecvDone
  <2>2. CASE SendEOF(p, s)
    BY <2>2 DEF SendEOF, ReceiverNotForgotten, EofPending, AllFinished, RecvDone,
                TypeInv, TypeOK, FINISHED_SEND, FINISHED_RECV
  <2>3. CASE SendWrite(p, s)
    BY <2>3 DEF SendWrite, WokenReceiver, TypeInv, TypeOK
  <2>4. CASE SendNoMem(p, s)
    BY <2>4 DEF SendNoMem, ReceiverNotForgotten, EofPending, AllFinished, RecvDone
  <2> QED
    BY <1>1, <2>1, <2>2, <2>3, <2>4 DEF SendLocked
<1>2. ASSUME NEW p \in Senders, SendResume(p) PROVE Nothing'
  <2>1. sender[p].stream \in Streams
    BY <1>2 DEF SendResume, TypeInv, TypeOK, Idle, SenderState
  <2> QED
    BY <1>1, <1>2, <2>1 DEF SendResume
<1>3. ASSUME NEW p \in Senders, NEW s \in Streams, SendCall(p, s) PROVE Nothing'
  BY <1>1, <1>3 DEF SendCall
<1>4. ASSUME NEW p \in Senders, NEW s \in Streams, SendFinish(p, s) PROVE Nothing'
  BY <1>4 DEF SendFinish, WokenReceiver, TypeInv, TypeOK
<1>5. CASE Receive
  <2>1. ReceiveWait
    BY <1>5 DEF Receive, ReceiveItem, ReceiveEOF, ReceiveAllEOF
  <2>2. CASE choked
    BY <2>1, <2>2 DEF ReceiveWait
  <2>3. CASE ~choked
    <3>1. fifo' = <<>>
      <4>1. Len(fifo) \in Nat
        BY DEF TypeInv, TypeOK
      <4> QED
        BY <2>1, <2>3, <4>1, SubSeqEmpty DEF ReceiveWait, ReadItems, Drop
    <3> QED
      BY <2>1, <2>3, <3>1 DEF ReceiveWait, EofPending, AllFinished, RecvDone
  <2> QED
    BY <2>2, <2>3
<1>6. ASSUME NEW s \in Streams, ReceiveFinish(s) PROVE Nothing'
  BY <1>6 DEF ReceiveFinish
<1>7. CASE StopReceiving
  BY <1>7 DEF StopReceiving
<1>8. ASSUME NEW c \in BOOLEAN, Choke(c) PROVE Nothing'
  BY <1>8 DEF Choke, WokenReceiver, TypeInv, TypeOK
<1>9. CASE SpuriousWakeup
  BY <1>9 DEF SpuriousWakeup, ReceiverNotForgotten, EofPending, AllFinished, RecvDone
<1>10. CASE UNCHANGED vars
  BY <1>10 DEF vars, ReceiverNotForgotten, EofPending, AllFinished, RecvDone
<1> QED
  BY <1>2, <1>3, <1>4, <1>5, <1>6, <1>7, <1>8, <1>9, <1>10 DEF Next, SenderNext

(* The consumer never sleeps through an item, an EOF or the end of all     *)
(* streams.                                                                *)
THEOREM ReceiverWakes == Spec => []ReceiverNotForgotten
<1>1. Init => ReceiverNotForgotten
  BY DEF Init, ReceiverNotForgotten
<1> QED
  BY <1>1, InitTypeInv, NextTypeInv, ReceiverStep, PTL DEF Spec

-----------------------------------------------------------------------------
(* From here on writes do not fail.  A step then does one of five things   *)
(* to the contents of the queue.                                           *)

QueueUnchanged == UNCHANGED <<fifo, fifo_stream_index, got, nsent, nrcvd, ended>>

OnlyDiscards == /\ NoneWanted
                /\ ReadItems(Len(fifo))
                /\ UNCHANGED <<finished, got, nsent, nrcvd, ended>>

SameRecv == \A s \in Streams : RecvDone(s)' = RecvDone(s)

LEMMA StepKinds ==
  ASSUME TypeInv, ~AllocMayFail, [Next]_vars
  PROVE  \/ \E p \in Senders, s \in Streams : SendWrite(p, s)
         \/ \E k \in 1 .. Len(fifo) : ReceiveItem(k)
         \/ \E s \in Streams : ReceiveEOF(s)
         \/ OnlyDiscards
         \/ QueueUnchanged /\ SameRecv
         \/ QueueUnchanged /\ \E s \in Streams : ReceiveFinish(s)
<1> DEFINE Goal == \/ \E p \in Senders, s \in Streams : SendWrite(p, s)
                   \/ QueueUnchanged /\ SameRecv
<1>1. ASSUME NEW p \in Senders, NEW s \in Streams, SendLocked(p, s) PROVE Goal
  <2>1. CASE SendWait(p, s)
    BY <2>1 DEF SendWait, QueueUnchanged, SameRecv, RecvDone
  <2>2. CASE SendEOF(p, s)
    BY <2>2 DEF SendEOF, QueueUnchanged, SameRecv, RecvDone,
                TypeInv, TypeOK, FINISHED_SEND, FINISHED_RECV
  <2>3. CASE SendWrite(p, s)
    BY <2>3
  <2>4. CASE SendNoMem(p, s)
    BY <2>4 DEF SendNoMem
  <2> QED
    BY <1>1, <2>1, <2>2, <2>3, <2>4 DEF SendLocked
<1>2. ASSUME NEW p \in Senders, SendResume(p) PROVE Goal
  <2>1. sender[p].stream \in Streams
    BY <1>2 DEF SendResume, TypeInv, TypeOK, Idle, SenderState
  <2> QED
    BY <1>1, <1>2, <2>1 DEF SendResume
<1>3. ASSUME NEW p \in Senders, NEW s \in Streams, SendCall(p, s) PROVE Goal
  BY <1>1, <1>3 DEF SendCall
<1>4. ASSUME NEW p \in Senders, NEW s \in Streams, SendFinish(p, s) PROVE Goal
  BY <1>4 DEF SendFinish, QueueUnchanged, SameRecv, RecvDone,
              TypeInv, TypeOK, FINISHED_SEND, FINISHED_RECV
<1>5. CASE ReceiveAllEOF
  BY <1>5 DEF ReceiveAllEOF, OnlyDiscards
<1>6. CASE ReceiveWait
  <2>1. CASE choked
    <3>1. fifo' = fifo /\ fifo_stream_index' = fifo_stream_index
      BY <1>6, <2>1, SubSeqFull DEF ReceiveWait, ReadItems, Drop, TypeInv, TypeOK
    <3> QED
      BY <1>6, <3>1 DEF ReceiveWait, QueueUnchanged, SameRecv, RecvDone
  <2>2. CASE ~choked
    BY <1>6, <2>2 DEF ReceiveWait, OnlyDiscards
  <2> QED
    BY <2>1, <2>2
<1>7. ASSUME NEW s \in Streams, ReceiveFinish(s) PROVE QueueUnchanged
  BY <1>7 DEF ReceiveFinish, QueueUnchanged
<1>8. ASSUME \/ StopReceiving
             \/ \E c \in BOOLEAN : Choke(c)
             \/ SpuriousWakeup
             \/ UNCHANGED vars
      PROVE  QueueUnchanged /\ SameRecv
  BY <1>8 DEF StopReceiving, Choke, SpuriousWakeup, vars,
              QueueUnchanged, SameRecv, RecvDone
<1> QED
  BY <1>2, <1>3, <1>4, <1>5, <1>6, <1>7, <1>8 DEF Next, SenderNext, Receive

LEMMA FifosAgreeStep ==
  ASSUME TypeInv, FifosAgree, ~AllocMayFail, [Next]_vars
  PROVE  FifosAgree'
<1>0. Len(fifo) \in Nat /\ Len(fifo_stream_index) \in Nat
  BY DEF TypeInv, TypeOK
<1>1. ASSUME NEW p \in Senders, NEW s \in Streams, SendWrite(p, s)
      PROVE  FifosAgree'
  <2> DEFINE it == [stream |-> s, n |-> nsent[s] + 1]
  <2>1. /\ it \in Item
        /\ it.stream = s
    BY DEF TypeInv, TypeOK, Item
  <2>2. fifo' = Append(fifo, it) /\ fifo_stream_index' = Append(fifo_stream_index, s)
    BY <1>1 DEF SendWrite
  <2> HIDE DEF it
  <2> QED
    BY <2>1, <2>2, <1>0 DEF FifosAgree, TypeInv, TypeOK
<1>2. ASSUME NEW k \in 0 .. Len(fifo), ReadItems(k) PROVE FifosAgree'
  <2>1. /\ Len(fifo') = Len(fifo) - k
        /\ Len(fifo_stream_index') = Len(fifo) - k
        /\ \A i \in 1 .. Len(fifo) - k : fifo'[i] = fifo[i + k]
        /\ \A i \in 1 .. Len(fifo) - k : fifo_stream_index'[i] = fifo_stream_index[i + k]
    BY <1>2, ReadItemsFacts DEF FifosAgree
  <2>2. ASSUME NEW i \in 1 .. Len(fifo) - k
        PROVE  fifo'[i].stream = fifo_stream_index'[i]
    <3>1. i + k \in 1 .. Len(fifo)
      BY <1>0
    <3> QED
      BY <2>1, <3>1 DEF FifosAgree
  <2> QED
    BY <2>1, <2>2 DEF FifosAgree
<1>3. CASE QueueUnchanged
  BY <1>3 DEF QueueUnchanged, FifosAgree
<1>4. CASE \E k \in 1 .. Len(fifo) : ReceiveItem(k)
  BY <1>0, <1>2, <1>4 DEF ReceiveItem
<1>5. CASE \/ \E s \in Streams : ReceiveEOF(s)
           \/ OnlyDiscards
  BY <1>0, <1>2, <1>5 DEF ReceiveEOF, OnlyDiscards
<1> QED
  <2>1. CASE \E p \in Senders, s \in Streams : SendWrite(p, s)
    BY <2>1, <1>1
  <2> QED
    BY <2>1, <1>3, <1>4, <1>5, StepKinds

(* The two FIFOs of the queue never get out of step.                       *)
THEOREM FifosStayAligned ==
  ASSUME ~AllocMayFail
  PROVE  Spec => []FifosAgree
<1>1. Init => FifosAgree
  BY DEF Init, FifosAgree
<1>2. TypeInv /\ FifosAgree /\ [Next]_vars => FifosAgree'
  BY FifosAgreeStep
<1> QED
  BY <1>1, <1>2, InitTypeInv, NextTypeInv, PTL DEF Spec

-----------------------------------------------------------------------------
(* No wakeup of a sender is lost.  FifosAgree is what makes this inductive:*)
(* a sender waits only on a full queue, so receive_locked() has something  *)
(* to discard, and therefore broadcasts, before it can give a stream its   *)
(* EOF.                                                                    *)

LEMMA SenderStep ==
  ASSUME TypeInv, FifosAgree, SenderNotForgotten, ~AllocMayFail, [Next]_vars
  PROVE  SenderNotForgotten'
<1> SUFFICES ASSUME NEW p \in Senders, sender'[p].pc = "wait"
             PROVE  ~CanWrite' /\ ~(FINISHED_RECV \in finished'[sender'[p].stream])
  BY DEF SenderNotForgotten, RecvDone
<1> USE ConstantsAssumption
<1> DEFINE Waits == ~CanWrite' /\ ~(FINISHED_RECV \in finished'[sender'[p].stream])
<1>0. /\ Len(fifo) \in Nat /\ Len(fifo_stream_index) \in Nat
      /\ Len(fifo) = Len(fifo_stream_index)
      /\ sender \in [Senders -> SenderState]
      /\ sender[p].pc = "wait" =>
           /\ ~CanWrite
           /\ ~(FINISHED_RECV \in finished[sender[p].stream])
           /\ sender[p].stream \in Streams
  BY DEF TypeInv, TypeOK, FifosAgree, SenderNotForgotten, RecvDone, SenderState, Idle
<1>1. ASSUME NEW q \in Senders, NEW s \in Streams, SendLocked(q, s) PROVE Waits
  <2>1. CASE SendWait(q, s)
    <3>1. CASE p = q
      BY <1>0, <2>1, <3>1 DEF SendWait, InSend, CanWrite, RecvDone
    <3>2. CASE p # q
      BY <1>0, <2>1, <3>2 DEF SendWait, CanWrite
    <3> QED
      BY <3>1, <3>2
  <2>2. CASE SendEOF(q, s)
    <3>1. p # q /\ sender'[p] = sender[p]
      BY <1>0, <2>2 DEF SendEOF, Idle
    <3> QED
      BY <1>0, <2>2, <3>1 DEF SendEOF, CanWrite, RecvDone, TypeInv, TypeOK,
                              FINISHED_SEND, FINISHED_RECV
  <2>3. CASE SendWrite(q, s)
    <3>1. [sender EXCEPT ![q] = Idle] \in [Senders -> SenderState]
      BY <1>0 DEF SenderState
    <3> QED
      BY <2>3, <3>1, WokenFacts DEF SendWrite
  <2>4. CASE SendNoMem(q, s)
    BY <2>4 DEF SendNoMem
  <2> QED
    BY <1>1, <2>1, <2>2, <2>3, <2>4 DEF SendLocked
<1>2. ASSUME NEW q \in Senders, SendResume(q) PROVE Waits
  <2>1. sender[q].stream \in Streams
    BY <1>2 DEF SendResume, TypeInv, TypeOK, Idle, SenderState
  <2> QED
    BY <1>1, <1>2, <2>1 DEF SendResume
<1>3. ASSUME NEW q \in Senders, NEW s \in Streams, SendCall(q, s) PROVE Waits
  BY <1>1, <1>3 DEF SendCall
<1>4. ASSUME sender' = WokenSenders(sender) PROVE FALSE
  BY <1>0, <1>4, WokenFacts
<1>5. ASSUME NEW q \in Senders, NEW s \in Streams, SendFinish(q, s) PROVE Waits
  BY <1>4, <1>5 DEF SendFinish
<1>6. CASE Receive
  <2>1. ASSUME NEW k \in 0 .. Len(fifo), ReadItems(k) PROVE k = 0 /\ sender' = sender
    BY <1>0, <1>4, <2>1 DEF ReadItems
  <2>2. sender' = sender /\ ~CanWrite
    BY <1>0, <1>6, <2>1 DEF Receive, ReceiveItem, ReceiveEOF, ReceiveAllEOF, ReceiveWait
  <2>3. Len(fifo) > 0
    BY <1>0, <2>2 DEF CanWrite
  <2>4. choked /\ ReceiveWait
    BY <1>0, <1>6, <2>1, <2>3 DEF Receive, ReceiveItem, ReceiveEOF, ReceiveAllEOF, ReceiveWait
  <2>5. fifo_stream_index' = fifo_stream_index /\ finished' = finished
    BY <2>4, SubSeqFull DEF ReceiveWait, ReadItems, Drop, TypeInv, TypeOK
  <2> QED
    BY <1>0, <2>2, <2>5 DEF CanWrite
<1>7. ASSUME NEW s \in Streams, ReceiveFinish(s) PROVE Waits
  BY <1>4, <1>7 DEF ReceiveFinish
<1>8. CASE StopReceiving
  BY <1>0, <1>8 DEF StopReceiving, CanWrite
<1>9. ASSUME NEW c \in BOOLEAN, Choke(c) PROVE Waits
  BY <1>4, <1>9 DEF Choke
<1>10. CASE SpuriousWakeup
  <2>1. ASSUME NEW q \in Senders, sender[q].pc = "wait",
               sender' = [sender EXCEPT ![q].pc = "woken"]
        PROVE  sender'[p] = sender[p]
    <3>1. CASE p = q
      <4>1. sender[p] \in [pc : {"wait", "woken"}, stream : Streams]
        BY <1>0, <2>1, <3>1 DEF SenderState, Idle
      <4>2. sender'[p].pc = "woken"
        BY <1>0, <2>1, <3>1, <4>1
      <4> QED
        BY <4>2
    <3>2. CASE p # q
      BY <1>0, <2>1, <3>2
    <3> QED
      BY <3>1, <3>2
  <2> QED
    BY <1>0, <1>10, <2>1, Zenon DEF SpuriousWakeup, CanWrite
<1>11. CASE UNCHANGED vars
  BY <1>0, <1>11 DEF vars, CanWrite
<1> QED
  BY <1>2, <1>3, <1>5, <1>6, <1>7, <1>8, <1>9, <1>10, <1>11 DEF Next, SenderNext

(* No sender sleeps while the queue has room for its item, or after its    *)
(* stream was closed on the other side.                                    *)
THEOREM SenderWakes ==
  ASSUME ~AllocMayFail
  PROVE  Spec => []SenderNotForgotten
<1>1. Init => SenderNotForgotten /\ FifosAgree
  BY DEF Init, SenderNotForgotten, FifosAgree, Idle
<1>2. TypeInv /\ FifosAgree /\ [Next]_vars => FifosAgree'
  BY FifosAgreeStep
<1>3. TypeInv /\ FifosAgree /\ SenderNotForgotten /\ [Next]_vars => SenderNotForgotten'
  BY SenderStep
<1> QED
  BY <1>1, <1>2, <1>3, InitTypeInv, NextTypeInv, PTL DEF Spec

-----------------------------------------------------------------------------
(* The queue implements StreamChannels.                                    *)

(* A stream whose EOF was delivered is closed.                             *)
EndedClosed == \A s \in ended : RecvDone(s)

ChannelInv == FifosAgree /\ InFlight /\ EndedClosed

(* Whatever item InFlight says must be the next one of its stream is what  *)
(* the read loop finds.                                                    *)
LEMMA NextItemFacts ==
  ASSUME TypeInv, ChannelInv, NEW k \in 1 .. Len(fifo), FirstWanted(k)
  PROVE  /\ fifo[k].stream = fifo_stream_index[k]
         /\ fifo_stream_index[k] \in Streams
         /\ ~RecvDone(fifo_stream_index[k])
         /\ fifo[k].n = nrcvd[fifo_stream_index[k]] + 1
         /\ nrcvd[fifo_stream_index[k]] < nsent[fifo_stream_index[k]]
<1> DEFINE s == fifo_stream_index[k]
<1>0. Len(fifo) \in Nat /\ Len(fifo_stream_index) \in Nat
  BY DEF TypeInv, TypeOK
<1>1. /\ fifo[k].stream = s
      /\ s \in Streams
      /\ ~RecvDone(s)
      /\ fifo[k] \in Item
      /\ nsent[s] \in Nat /\ nrcvd[s] \in Nat
  BY <1>0 DEF FirstWanted, ChannelInv, FifosAgree, TypeInv, TypeOK
<1>2. fifo[k].n \in nrcvd[s] + 1 .. nsent[s]
  BY <1>1 DEF ChannelInv, InFlight, StreamInFlight
<1>3. PICK i \in 1 .. Len(fifo) : fifo[i].stream = s /\ fifo[i].n = nrcvd[s] + 1
  <2>1. nrcvd[s] + 1 \in nrcvd[s] + 1 .. nsent[s]
    BY <1>1, <1>2
  <2> QED
    BY <1>1, <2>1 DEF ChannelInv, InFlight, StreamInFlight
<1>4. ~(i < k)
  <2>1. ASSUME i < k PROVE FALSE
    <3>1. i \in 1 .. k - 1
      BY <1>0, <2>1
    <3>2. RecvDone(fifo_stream_index[i])
      BY <3>1 DEF FirstWanted
    <3>3. fifo_stream_index[i] = s
      BY <1>3 DEF ChannelInv, FifosAgree
    <3> QED
      BY <1>1, <3>2, <3>3
  <2> QED
    BY <2>1
<1>5. ~(k < i)
  <2>1. ASSUME k < i PROVE FALSE
    <3>1. fifo[k].n < fifo[i].n
      BY <1>1, <1>3, <2>1 DEF ChannelInv, InFlight, StreamInFlight
    <3> QED
      BY <1>1, <1>2, <1>3, <3>1
  <2> QED
    BY <2>1
<1>6. k = i
  BY <1>0, <1>4, <1>5
<1> QED
  BY <1>1, <1>2, <1>3, <1>6

(* When the read loop finds nothing, every wanted stream is drained.       *)
LEMMA DrainedFacts ==
  ASSUME TypeInv, ChannelInv, NoneWanted, NEW s \in Streams, ~RecvDone(s)
  PROVE  nrcvd[s] = nsent[s]
<1>0. /\ nsent[s] \in Nat /\ nrcvd[s] \in Nat
      /\ nrcvd[s] <= nsent[s]
  BY DEF TypeInv, TypeOK, ChannelInv, InFlight, StreamInFlight
<1>1. ASSUME nrcvd[s] < nsent[s] PROVE FALSE
  <2>1. nrcvd[s] + 1 \in nrcvd[s] + 1 .. nsent[s]
    BY <1>0, <1>1
  <2>2. PICK i \in 1 .. Len(fifo) : fifo[i].stream = s
    BY <2>1 DEF ChannelInv, InFlight, StreamInFlight
  <2>3. fifo_stream_index[i] = s
    BY <2>2 DEF ChannelInv, FifosAgree
  <2> QED
    BY <2>3 DEF NoneWanted
<1> QED
  BY <1>0, <1>1

(* The new item of stream t is the last and the youngest one.              *)
LEMMA SendWriteInFlight ==
  ASSUME TypeInv, ChannelInv, NEW p \in Senders, NEW t \in Streams, SendWrite(p, t),
         NEW s \in Streams, ~RecvDone(s)
  PROVE  StreamInFlight(s)'
<1> DEFINE it == [stream |-> t, n |-> nsent[t] + 1]
<1> DEFINE L == Len(fifo)
<1>0. /\ L \in Nat
      /\ nsent \in [Streams -> Nat] /\ nrcvd \in [Streams -> Nat]
      /\ fifo \in Seq(Item)
      /\ \A i \in 1 .. L : fifo[i] \in Item
  BY DEF TypeInv, TypeOK
<1>1. it \in Item /\ it.stream = t /\ it.n = nsent[t] + 1
  BY <1>0 DEF Item
<1>2. /\ Len(fifo') = L + 1
      /\ fifo'[L + 1] = it
      /\ \A i \in 1 .. L : fifo'[i] = fifo[i]
  <2>1. fifo' = Append(fifo, it)
    BY DEF SendWrite
  <2> HIDE DEF it
  <2> QED
    BY <1>0, <1>1, <2>1
<1>3. /\ nrcvd' = nrcvd
      /\ nsent'[s] = IF s = t THEN nsent[s] + 1 ELSE nsent[s]
  BY <1>0 DEF SendWrite
<1>4. StreamInFlight(s)
  BY DEF ChannelInv, InFlight
<1>5. \A i \in 1 .. L : fifo[i].n \in Nat
  BY <1>0 DEF Item
<1> HIDE DEF it
<1> HIDE DEF L
<1>6. nrcvd'[s] <= nsent'[s]
  BY <1>0, <1>3, <1>4 DEF StreamInFlight
<1>7. ASSUME NEW i \in 1 .. Len(fifo'), fifo'[i].stream = s
      PROVE  fifo'[i].n \in nrcvd'[s] + 1 .. nsent'[s]
  <2>1. CASE i = L + 1
    BY <1>0, <1>1, <1>2, <1>3, <1>4, <1>7, <2>1 DEF StreamInFlight
  <2>2. CASE i # L + 1
    <3>1. i \in 1 .. L
      BY <1>0, <1>2, <2>2
    <3> QED
      BY <1>0, <1>2, <1>3, <1>4, <1>7, <3>1 DEF StreamInFlight, L
  <2> QED
    BY <2>1, <2>2
<1>8. ASSUME NEW n \in nrcvd'[s] + 1 .. nsent'[s]
      PROVE  \E i \in 1 .. Len(fifo') : fifo'[i].stream = s /\ fifo'[i].n = n
  <2>1. CASE n \in nrcvd[s] + 1 .. nsent[s]
    <3>1. PICK i \in 1 .. L : fifo[i].stream = s /\ fifo[i].n = n
      BY <1>4, <2>1 DEF StreamInFlight, L
    <3>2. i \in 1 .. Len(fifo') /\ fifo'[i] = fifo[i]
      BY <1>0, <1>2
    <3> QED
      BY <3>1, <3>2
  <2>2. CASE ~(n \in nrcvd[s] + 1 .. nsent[s])
    <3>1. s = t /\ n = nsent[t] + 1
      BY <1>0, <1>3, <2>2
    <3>2. L + 1 \in 1 .. Len(fifo')
      BY <1>0, <1>2
    <3> QED
      BY <1>1, <1>2, <3>1, <3>2
  <2> QED
    BY <2>1, <2>2
<1>9. ASSUME NEW i \in 1 .. Len(fifo'), NEW j \in 1 .. Len(fifo'),
             i < j, fifo'[i].stream = s, fifo'[j].stream = s
      PROVE  fifo'[i].n < fifo'[j].n
  <2>0. i \in 1 .. L /\ fifo'[i] = fifo[i] /\ fifo[i].n \in Nat
    BY <1>0, <1>2, <1>5, <1>9
  <2>1. CASE j = L + 1
    <3>1. s = t /\ fifo'[j].n = nsent[s] + 1
      BY <1>1, <1>2, <1>9, <2>1
    <3>2. fifo[i].n \in nrcvd[s] + 1 .. nsent[s]
      BY <1>4, <1>9, <2>0 DEF StreamInFlight, L
    <3> QED
      BY <1>0, <2>0, <3>1, <3>2
  <2>2. CASE j # L + 1
    <3>1. j \in 1 .. L /\ fifo'[j] = fifo[j]
      BY <1>0, <1>2, <2>2
    <3> QED
      BY <1>4, <1>9, <2>0, <3>1 DEF StreamInFlight, L
  <2> QED
    BY <2>1, <2>2
<1> QED
  BY <1>6, <1>7, <1>8, <1>9 DEF StreamInFlight

(* A read takes item k and what is in front of it, none of it wanted.      *)
LEMMA ReceiveItemInFlight ==
  ASSUME TypeInv, ChannelInv, NEW k \in 1 .. Len(fifo), ReceiveItem(k),
         NEW s \in Streams, ~RecvDone(s)
  PROVE  StreamInFlight(s)'
<1> DEFINE t == fifo_stream_index[k]
<1> DEFINE L == Len(fifo)
<1>0. /\ L \in Nat
      /\ nsent \in [Streams -> Nat] /\ nrcvd \in [Streams -> Nat]
      /\ \A i \in 1 .. L : fifo[i].n \in Nat
  <2>1. \A i \in 1 .. L : fifo[i] \in Item
    BY DEF TypeInv, TypeOK
  <2>2. \A i \in 1 .. L : fifo[i].n \in Nat
    BY <2>1 DEF Item
  <2> QED
    BY <2>2 DEF TypeInv, TypeOK
<1>1. /\ t \in Streams
      /\ fifo[k].stream = t
      /\ fifo[k].n = nrcvd[t] + 1
      /\ nrcvd[t] < nsent[t]
  BY NextItemFacts DEF ReceiveItem
<1>2. /\ Len(fifo') = L - k
      /\ \A i \in 1 .. L - k : fifo'[i] = fifo[i + k]
  <2>1. k \in 0 .. Len(fifo) /\ ReadItems(k)
    BY <1>0 DEF ReceiveItem
  <2> QED
    BY <2>1, ReadItemsFacts
<1>3. /\ nsent' = nsent
      /\ nrcvd'[s] = IF s = t THEN nrcvd[s] + 1 ELSE nrcvd[s]
  BY <1>0, <1>1 DEF ReceiveItem
<1>4. StreamInFlight(s)
  BY DEF ChannelInv, InFlight
<1>5. ASSUME NEW i \in 1 .. L, fifo[i].stream = s, i <= k
      PROVE  i = k /\ s = t
  <2>1. fifo_stream_index[i] = s
    BY <1>5 DEF ChannelInv, FifosAgree
  <2>2. ~(i \in 1 .. k - 1)
    BY <2>1 DEF ReceiveItem, FirstWanted
  <2> QED
    BY <1>0, <1>5, <2>1, <2>2
<1> HIDE DEF t
<1> HIDE DEF L
<1>6. nrcvd'[s] <= nsent'[s]
  BY <1>0, <1>1, <1>3, <1>4 DEF StreamInFlight
<1>7. ASSUME NEW i \in 1 .. Len(fifo'), fifo'[i].stream = s
      PROVE  fifo'[i].n \in nrcvd'[s] + 1 .. nsent'[s]
  <2>1. i + k \in 1 .. L /\ fifo'[i] = fifo[i + k] /\ k \in 1 .. L /\ k < i + k
    BY <1>0, <1>2 DEF L
  <2>2. fifo[i + k].n \in nrcvd[s] + 1 .. nsent[s]
    BY <1>4, <1>7, <2>1 DEF StreamInFlight, L
  <2>3. s = t => fifo[k].n < fifo[i + k].n
    BY <1>1, <1>4, <1>7, <2>1 DEF StreamInFlight, L
  <2>4. nrcvd[s] \in Nat /\ nsent[s] \in Nat /\ fifo[i + k].n \in Nat
    BY <1>0, <2>1
  <2>5. CASE s = t
    BY SMTT(20), <1>1, <1>3, <2>1, <2>2, <2>3, <2>4, <2>5
  <2>6. CASE s # t
    BY <1>3, <2>1, <2>2, <2>6
  <2> QED
    BY <2>5, <2>6
<1>8. ASSUME NEW n \in nrcvd'[s] + 1 .. nsent'[s]
      PROVE  \E i \in 1 .. Len(fifo') : fifo'[i].stream = s /\ fifo'[i].n = n
  <2>1. n \in nrcvd[s] + 1 .. nsent[s] /\ (s = t => n # nrcvd[s] + 1)
    BY <1>0, <1>3
  <2>2. PICK i \in 1 .. L : fifo[i].stream = s /\ fifo[i].n = n
    BY <1>4, <2>1 DEF StreamInFlight, L
  <2>3. ~(i <= k)
    <3>1. ASSUME i <= k PROVE FALSE
      <4>1. i = k /\ s = t
        BY <1>5, <2>2, <3>1
      <4> QED
        BY <1>1, <2>1, <2>2, <4>1
    <3> QED
      BY <3>1
  <2>4. i - k \in 1 .. Len(fifo') /\ fifo'[i - k] = fifo[i]
    <3>1. k \in Nat /\ i - k \in 1 .. L - k /\ (i - k) + k = i
      BY <1>0, <2>3 DEF L
    <3> QED
      BY <1>2, <3>1
  <2> QED
    BY <2>2, <2>4
<1>9. ASSUME NEW i \in 1 .. Len(fifo'), NEW j \in 1 .. Len(fifo'),
             i < j, fifo'[i].stream = s, fifo'[j].stream = s
      PROVE  fifo'[i].n < fifo'[j].n
  <2>1. /\ i + k \in 1 .. L /\ fifo'[i] = fifo[i + k]
        /\ j + k \in 1 .. L /\ fifo'[j] = fifo[j + k]
        /\ i + k < j + k
    BY <1>0, <1>2, <1>9 DEF L
  <2> QED
    BY <1>4, <1>9, <2>1 DEF StreamInFlight, L
<1> QED
  BY <1>6, <1>7, <1>8, <1>9 DEF StreamInFlight

(* Discarding everything is harmless when nothing was wanted.              *)
LEMMA DiscardInFlight ==
  ASSUME TypeInv, ChannelInv, NoneWanted, ReadItems(Len(fifo)),
         UNCHANGED <<nsent, nrcvd>>, NEW s \in Streams, ~RecvDone(s)
  PROVE  StreamInFlight(s)'
<1>1. nsent[s] \in Nat /\ nrcvd[s] \in Nat /\ Len(fifo) \in Nat
  BY DEF TypeInv, TypeOK
<1>2. Len(fifo') = 0
  BY <1>1, ReadItemsFacts
<1>3. nrcvd[s] = nsent[s]
  BY DrainedFacts
<1> QED
  BY <1>1, <1>2, <1>3 DEF StreamInFlight

LEMMA ChannelInvStep ==
  ASSUME TypeInv, ChannelInv, ~AllocMayFail, [Next]_vars
  PROVE  ChannelInv'
<1>1. FifosAgree'
  BY FifosAgreeStep DEF ChannelInv
<1>2. CASE \E p \in Senders, t \in Streams : SendWrite(p, t)
  <2>1. PICK p \in Senders, t \in Streams : SendWrite(p, t)
    BY <1>2
  <2>2. finished' = finished /\ ended' = ended
    BY <2>1 DEF SendWrite
  <2> QED
    BY <1>1, <2>1, <2>2, SendWriteInFlight DEF ChannelInv, InFlight, EndedClosed, RecvDone
<1>3. CASE \E k \in 1 .. Len(fifo) : ReceiveItem(k)
  <2>1. PICK k \in 1 .. Len(fifo) : ReceiveItem(k)
    BY <1>3
  <2>2. finished' = finished /\ ended' = ended
    BY <2>1 DEF ReceiveItem
  <2> QED
    BY <1>1, <2>1, <2>2, ReceiveItemInFlight DEF ChannelInv, InFlight, EndedClosed, RecvDone
<1>4. CASE \E t \in Streams : ReceiveEOF(t)
  <2>1. PICK t \in Streams : ReceiveEOF(t)
    BY <1>4
  <2>2. /\ NoneWanted /\ ReadItems(Len(fifo)) /\ UNCHANGED <<nsent, nrcvd>>
        /\ ended' = ended \cup {t}
        /\ finished' = [finished EXCEPT ![t] = @ \cup {FINISHED_RECV}]
    BY <2>1 DEF ReceiveEOF
  <2>3. /\ \A s \in Streams : RecvDone(s) => RecvDone(s)'
        /\ RecvDone(t)'
    BY <2>2 DEF RecvDone, TypeInv, TypeOK
  <2>4. ended \in SUBSET Streams
    BY DEF TypeInv, TypeOK
  <2>5. EndedClosed'
    BY <2>2, <2>3, <2>4 DEF EndedClosed, ChannelInv
  <2>6. InFlight'
    BY <2>2, <2>3, DiscardInFlight DEF InFlight
  <2> QED
    BY <1>1, <2>5, <2>6 DEF ChannelInv
<1>5. CASE OnlyDiscards
  <2>1. /\ NoneWanted /\ ReadItems(Len(fifo)) /\ UNCHANGED <<nsent, nrcvd>>
        /\ ended' = ended /\ finished' = finished
    BY <1>5 DEF OnlyDiscards
  <2>2. InFlight'
    BY <2>1, DiscardInFlight DEF InFlight, RecvDone
  <2> QED
    BY <1>1, <2>1, <2>2 DEF ChannelInv, EndedClosed, RecvDone
<1>6. ASSUME QueueUnchanged, \A s \in Streams : RecvDone(s) => RecvDone(s)'
      PROVE  ChannelInv'
  <2>1. InFlight'
    BY <1>6 DEF QueueUnchanged, ChannelInv, InFlight, StreamInFlight
  <2>2. EndedClosed'
    BY <1>6 DEF QueueUnchanged, ChannelInv, EndedClosed, TypeInv, TypeOK
  <2> QED
    BY <1>1, <2>1, <2>2 DEF ChannelInv
<1>7. ASSUME NEW t \in Streams, ReceiveFinish(t)
      PROVE  \A s \in Streams : RecvDone(s) => RecvDone(s)'
  BY <1>7 DEF ReceiveFinish, RecvDone, TypeInv, TypeOK
<1>8. SameRecv => \A s \in Streams : RecvDone(s) => RecvDone(s)'
  BY DEF SameRecv
<1> QED
  BY <1>2, <1>3, <1>4, <1>5, <1>6, <1>7, <1>8, StepKinds

LEMMA InitChannelInv == Init => ChannelInv
BY DEF Init, ChannelInv, FifosAgree, InFlight, StreamInFlight, EndedClosed, RecvDone

(* No item of a wanted stream is ever lost, duplicated or reordered inside *)
(* the queue.                                                              *)
THEOREM ItemsStayInFlight ==
  ASSUME ~AllocMayFail
  PROVE  Spec => []InFlight
<1>1. TypeInv /\ ChannelInv /\ [Next]_vars => ChannelInv'
  BY ChannelInvStep
<1>2. ChannelInv => InFlight
  BY DEF ChannelInv
<1> QED
  BY <1>1, <1>2, InitTypeInv, NextTypeInv, InitChannelInv, PTL DEF Spec

(* An item is delivered under the index of the stream it was sent for.     *)
THEOREM DeliveryIsCorrect ==
  ASSUME ~AllocMayFail
  PROVE  Spec => []DeliveredToItsStream
<1>1. Init => DeliveredToItsStream
  BY DEF Init, DeliveredToItsStream, NoItem
<1>2. TypeInv /\ ChannelInv /\ [Next]_vars => ChannelInv'
  BY ChannelInvStep
<1>3. ASSUME TypeInv, ChannelInv, DeliveredToItsStream, [Next]_vars
      PROVE  DeliveredToItsStream'
  <2>1. ASSUME NEW k \in 1 .. Len(fifo), ReceiveItem(k) PROVE DeliveredToItsStream'
    BY <1>3, <2>1, NextItemFacts DEF ReceiveItem, DeliveredToItsStream
  <2>2. ASSUME UNCHANGED got PROVE DeliveredToItsStream'
    BY <1>3, <2>2 DEF DeliveredToItsStream
  <2> QED
    BY <1>3, <2>1, <2>2, StepKinds
       DEF SendWrite, ReceiveEOF, OnlyDiscards, QueueUnchanged
<1> QED
  BY <1>1, <1>2, <1>3, InitTypeInv, NextTypeInv, InitChannelInv, PTL DEF Spec

-----------------------------------------------------------------------------
(* The refinement.                                                         *)

LEMMA ChannelsStep ==
  ASSUME TypeInv, ChannelInv, ~AllocMayFail, [Next]_vars
  PROVE  [Channels!Next]_(Channels!vars)
<1> DEFINE Closed == {s \in Streams : RecvDone(s)}
<1>0. ended \in SUBSET Streams /\ \A s \in ended : RecvDone(s)
  BY DEF ChannelInv, EndedClosed, TypeInv, TypeOK
<1>1. \A s \in Streams : ~RecvDone(s) => s \in Channels!Open
  BY <1>0 DEF Channels!Open
<1>2. ASSUME NEW p \in Senders, NEW s \in Streams, SendWrite(p, s)
      PROVE  Channels!Put(s)
  BY <1>1, <1>2 DEF SendWrite, Channels!Put, RecvDone
<1>3. ASSUME NEW k \in 1 .. Len(fifo), ReceiveItem(k)
      PROVE  \E s \in Streams : Channels!Get(s)
  <2> DEFINE s == fifo_stream_index[k]
  <2>1. /\ s \in Streams /\ ~RecvDone(s)
        /\ fifo[k].n = nrcvd[s] + 1
        /\ nrcvd[s] < nsent[s]
    BY <1>3, NextItemFacts DEF ReceiveItem
  <2>2. nrcvd' = [nrcvd EXCEPT ![s] = nrcvd[s] + 1]
    BY <1>3, <2>1 DEF ReceiveItem
  <2>3. UNCHANGED <<finished, nsent, ended>>
    BY <1>3 DEF ReceiveItem
  <2> HIDE DEF s
  <2>4. Channels!Get(s)
    BY <1>1, <2>1, <2>2, <2>3 DEF Channels!Get, RecvDone
  <2> QED
    BY <2>1, <2>4
<1>4. ASSUME NEW s \in Streams, ReceiveEOF(s)
      PROVE  Channels!End(s)
  <2>1. ~RecvDone(s) /\ nrcvd[s] = nsent[s]
    BY <1>4, DrainedFacts DEF ReceiveEOF, EofPending
  <2>2. Closed' = Closed \cup {s}
    BY <1>4 DEF ReceiveEOF, RecvDone, TypeInv, TypeOK
  <2>3. Closed' \ ended' = Closed \ ended
    BY <1>0, <1>4, <2>1, <2>2 DEF ReceiveEOF
  <2> QED
    BY <1>1, <1>4, <2>1, <2>3 DEF ReceiveEOF, Channels!End
<1>5. ASSUME QueueUnchanged, NEW s \in Streams, ReceiveFinish(s)
      PROVE  Channels!Next \/ UNCHANGED Channels!vars
  <2>1. Closed' = Closed \cup {s}
    BY <1>5 DEF ReceiveFinish, RecvDone, TypeInv, TypeOK
  <2>2. CASE RecvDone(s)
    <3>1. Closed' = Closed
      BY <2>1, <2>2
    <3> QED
      BY <1>5, <3>1 DEF QueueUnchanged, Channels!vars
  <2>3. CASE ~RecvDone(s)
    <3>1. Closed' \ ended' = (Closed \ ended) \cup {s}
      BY <1>0, <1>5, <2>1, <2>3 DEF QueueUnchanged
    <3>2. Channels!Abandon(s)
      BY <1>1, <1>5, <2>3, <3>1 DEF QueueUnchanged, Channels!Abandon
    <3> QED
      BY <3>2 DEF Channels!Next
  <2> QED
    BY <2>2, <2>3
<1>6. CASE QueueUnchanged /\ SameRecv
  <2>1. Closed' = Closed
    BY <1>6 DEF SameRecv
  <2> QED
    BY <1>6, <2>1 DEF QueueUnchanged, Channels!vars
<1>7. CASE OnlyDiscards
  BY <1>7 DEF OnlyDiscards, Channels!vars, RecvDone
<1>8. CASE \E p \in Senders, s \in Streams : SendWrite(p, s)
  BY <1>2, <1>8 DEF Channels!Next
<1>9. CASE \E s \in Streams : ReceiveEOF(s)
  BY <1>4, <1>9 DEF Channels!Next
<1>10. CASE \E k \in 1 .. Len(fifo) : ReceiveItem(k)
  BY <1>3, <1>10 DEF Channels!Next
<1> QED
  BY <1>5, <1>6, <1>7, <1>8, <1>9, <1>10, StepKinds

(* The queue is one ordered lossless channel per stream, with an EOF that  *)
(* comes once and last.                                                    *)
THEOREM ImplementsChannels ==
  ASSUME ~AllocMayFail
  PROVE  Spec => ChannelsSpec
<1>1. Init => Channels!Init
  BY DEF Init, Channels!Init, RecvDone
<1>2. TypeInv /\ ChannelInv /\ [Next]_vars => ChannelInv'
  BY ChannelInvStep
<1>3. TypeInv /\ ChannelInv /\ [Next]_vars => [Channels!Next]_(Channels!vars)
  BY ChannelsStep
<1> QED
  BY <1>1, <1>2, <1>3, InitTypeInv, NextTypeInv, InitChannelInv, PTL
     DEF Spec, ChannelsSpec, Channels!Spec
=============================================================================
