---------------------- MODULE ThreadMessageQueueProofs ----------------------
(* Theorems about ThreadMessageQueue, for any number of senders, receivers *)
(* and messages and any capacity.                                          *)
EXTENDS ThreadMessageQueue, FiniteSetTheorems, TLAPS

USE MessageQueueAssumption

-----------------------------------------------------------------------------
(* Type correctness.                                                       *)

LEMMA PcType ==
    ASSUME TypeOK, NEW W \in SUBSET Users, NEW L \in SUBSET Users
    PROVE  PcWith(W, L) \in [Users -> {"out", "asleep", "awake"}]
BY DEF PcWith, TypeOK

LEMMA SignalledType ==
    ASSUME NEW S \in {Senders, Receivers}, NEW W \in Signalled(S)
    PROVE  /\ W \in SUBSET S
           /\ W = {} => Asleep(S) = {}
           /\ W # {} => \E u \in Asleep(S) : W = {u}
BY DEF Signalled, Asleep

(* What a call comes to once it has the lock.  Only a sender that was      *)
(* blocked has a message already.                                          *)
Sending(s, m) == /\ pc[s] = "out" \/ (pc[s] = "awake" /\ m = msg[s])
                 /\ SendSleep(s, m, FALSE) \/ SendWrite(s, m)

LEMMA SendSteps ==
    ASSUME TypeOK, NEW s \in Senders, SendCall(s) \/ SendResume(s)
    PROVE  SendError(s) \/ UNCHANGED vars \/ \E m \in Messages : Sending(s, m)
<1>1. msg[s] \in Messages
  BY DEF TypeOK
<1> QED  BY <1>1 DEF SendCall, SendResume, SendLocked, SendSleep, SendAgain, Sending

LEMMA RecvSteps ==
    ASSUME NEW r \in Receivers, RecvCall(r) \/ RecvResume(r)
    PROVE  RecvSleep(r, FALSE) \/ RecvError(r) \/ RecvRead(r) \/ UNCHANGED vars
BY DEF RecvCall, RecvResume, RecvLocked, RecvSleep, RecvAgain

LEMMA CallersAreUp ==
    /\ \A s \in Senders : SendCall(s) \/ SendResume(s) => pc[s] # "asleep"
    /\ \A r \in Receivers : RecvCall(r) \/ RecvResume(r) => pc[r] # "asleep"
BY DEF SendCall, SendResume, RecvCall, RecvResume

LEMMA TypeStep == TypeOK /\ [Next]_vars => TypeOK'
<1> SUFFICES ASSUME TypeOK, [Next]_vars PROVE TypeOK'
  OBVIOUS
<1>1. ASSUME NEW s \in Senders, NEW m \in Messages, SendSleep(s, m, FALSE)
      PROVE  TypeOK'
  BY <1>1 DEF SendSleep, TypeOK, Users
<1>2. ASSUME NEW s \in Senders, SendError(s) PROVE TypeOK'
  BY <1>2, PcType DEF SendError, TypeOK, Users
<1>3. ASSUME NEW s \in Senders, NEW m \in Messages, SendWrite(s, m)
      PROVE  TypeOK'
  <2>1. PICK W \in Signalled(Receivers) : pc' = PcWith(W, {s})
    BY <1>3 DEF SendWrite
  <2>2. W \in SUBSET Users /\ {s} \in SUBSET Users
    BY SignalledType DEF Users
  <2>3. pc' \in [Users -> {"out", "asleep", "awake"}]
    BY <2>1, <2>2, PcType
  <2>4. fifo' \in Seq(Messages) /\ Len(fifo') <= nelem
    BY <1>3 DEF SendWrite, HasRoom, TypeOK
  <2> QED  BY <1>3, <2>3, <2>4 DEF SendWrite, TypeOK
<1>4. ASSUME NEW r \in Receivers, RecvSleep(r, FALSE) PROVE TypeOK'
  BY <1>4 DEF RecvSleep, TypeOK, Users
<1>5. ASSUME NEW r \in Receivers, RecvError(r) PROVE TypeOK'
  BY <1>5, PcType DEF RecvError, TypeOK, Users
<1>6. ASSUME NEW r \in Receivers, RecvRead(r) PROVE TypeOK'
  <2>1. PICK W \in Signalled(Senders) : pc' = PcWith(W, {r})
    BY <1>6 DEF RecvRead
  <2>2. W \in SUBSET Users /\ {r} \in SUBSET Users
    BY SignalledType DEF Users
  <2>3. pc' \in [Users -> {"out", "asleep", "awake"}]
    BY <2>1, <2>2, PcType
  <2>4. fifo' \in Seq(Messages) /\ Len(fifo') <= nelem
    BY <1>6 DEF RecvRead, TypeOK
  <2> QED  BY <1>6, <2>3, <2>4 DEF RecvRead, TypeOK
<1>7. ASSUME NEW err \in BOOLEAN, SetErrSend(err) \/ SetErrRecv(err) PROVE TypeOK'
  <2>1. Broadcast(Senders) \in SUBSET Users /\ Broadcast(Receivers) \in SUBSET Users
    BY DEF Broadcast, Asleep, Users
  <2>2. pc' \in [Users -> {"out", "asleep", "awake"}]
    BY <1>7, <2>1, PcType DEF SetErrSend, SetErrRecv
  <2>3. fifo' = fifo /\ msg' = msg /\ err_send' \in BOOLEAN /\ err_recv' \in BOOLEAN
    BY <1>7 DEF SetErrSend, SetErrRecv, TypeOK
  <2> QED  BY <2>2, <2>3 DEF TypeOK
<1>8. CASE Flush
  <2>1. Broadcast(Senders) \in SUBSET Users
    BY DEF Broadcast, Asleep, Users
  <2>2. pc' \in [Users -> {"out", "asleep", "awake"}]
    BY <1>8, <2>1, PcType DEF Flush
  <2>3. fifo' \in Seq(Messages) /\ Len(fifo') <= nelem
    BY <1>8 DEF Flush, TypeOK
  <2> QED  BY <1>8, <2>2, <2>3 DEF Flush, TypeOK
<1>9. ASSUME NEW t \in Users, SpuriousWakeup(t) PROVE TypeOK'
  BY <1>9, PcType DEF SpuriousWakeup, TypeOK
<1>10. CASE UNCHANGED vars
  BY <1>10 DEF vars, TypeOK
<1>11. ASSUME NEW s \in Senders, SendCall(s) \/ SendResume(s) PROVE TypeOK'
  <2>1. ASSUME NEW m \in Messages, Sending(s, m) PROVE TypeOK'
    BY <2>1, <1>1, <1>3 DEF Sending
  <2>2. SendError(s) \/ UNCHANGED vars \/ \E m \in Messages : Sending(s, m)
    BY <1>11, SendSteps
  <2> QED  BY <2>1, <2>2, <1>2, <1>10
<1>12. ASSUME NEW r \in Receivers, RecvCall(r) \/ RecvResume(r) PROVE TypeOK'
  <2>1. RecvSleep(r, FALSE) \/ RecvError(r) \/ RecvRead(r) \/ UNCHANGED vars
    BY <1>12, RecvSteps
  <2> QED  BY <1>4, <1>5, <1>6, <1>10, <2>1
<1> QED  BY <1>7, <1>8, <1>9, <1>10, <1>11, <1>12 DEF Next

(* Nothing but messages is in the fifo, and never more than it has room    *)
(* for: av_fifo_write() cannot fail.                                       *)
THEOREM TypeCorrect == Spec => []TypeOK
<1>1. Init => TypeOK
  <2>1. ASSUME Init PROVE pc \in [Users -> {"out", "asleep", "awake"}]
    BY <2>1 DEF Init
  <2>2. ASSUME Init PROVE fifo \in Seq(Messages) /\ Len(fifo) <= nelem
    BY <2>2 DEF Init
  <2> QED  BY <2>1, <2>2 DEF Init, TypeOK
<1> QED  BY <1>1, TypeStep, PTL DEF Spec

-----------------------------------------------------------------------------
(* Sleepers are not forgotten.                                             *)

LEMMA Sizes ==
    ASSUME NEW S \in {Senders, Receivers}
    PROVE  /\ IsFiniteSet(Awake(S)) /\ Cardinality(Awake(S)) \in Nat
           /\ IsFiniteSet(Awake(S)') /\ Cardinality(Awake(S)') \in Nat
<1>1. IsFiniteSet(S)
  OBVIOUS
<1>2. Awake(S) \in SUBSET S /\ Awake(S)' \in SUBSET S
  BY DEF Awake
<1>3. ASSUME NEW T \in SUBSET S PROVE IsFiniteSet(T) /\ Cardinality(T) \in Nat
  BY <1>1, FS_Subset, FS_CardinalityType
<1> QED  BY <1>2, <1>3

LEMMA NobodyMoves ==
    ASSUME NEW S \in {Senders, Receivers}, \A t \in S : pc'[t] = pc[t]
    PROVE  Asleep(S)' = Asleep(S) /\ Awake(S)' = Awake(S)
BY DEF Asleep, Awake

LEMMA AllWake ==
    ASSUME NEW S \in {Senders, Receivers}, \A t \in S : pc'[t] # "asleep"
    PROVE  Asleep(S)' = {}
BY DEF Asleep

LEMMA OneLeaves ==
    ASSUME NEW S \in {Senders, Receivers}, NEW t \in S,
           pc[t] # "asleep", pc'[t] = "out", \A u \in S \ {t} : pc'[u] = pc[u]
    PROVE  /\ Asleep(S)' = Asleep(S)
           /\ Cardinality(Awake(S)') >= Cardinality(Awake(S)) - 1
<1>1. Asleep(S)' = Asleep(S) /\ Awake(S)' = Awake(S) \ {t}
  BY DEF Asleep, Awake
<1>2. IsFiniteSet(Awake(S)) /\ Cardinality(Awake(S)) \in Nat
  BY Sizes
<1>3. Cardinality(Awake(S) \ {t}) = IF t \in Awake(S) THEN Cardinality(Awake(S)) - 1
                                                     ELSE Cardinality(Awake(S))
  BY <1>2, FS_RemoveElement
<1> QED  BY <1>1, <1>2, <1>3

LEMMA OneWakes ==
    ASSUME NEW S \in {Senders, Receivers}, NEW t \in Asleep(S),
           pc'[t] = "awake", \A u \in S \ {t} : pc'[u] = pc[u]
    PROVE  /\ Asleep(S)' \subseteq Asleep(S)
           /\ Cardinality(Awake(S)') = Cardinality(Awake(S)) + 1
<1>1. /\ Asleep(S)' \subseteq Asleep(S)
      /\ t \notin Awake(S) /\ Awake(S)' = Awake(S) \cup {t}
  BY DEF Asleep, Awake
<1> QED  BY <1>1, Sizes, FS_AddElement

(* A signal on the condition variable of S, from outside of S.             *)
LEMMA SignalWakes ==
    ASSUME NEW S \in {Senders, Receivers}, NEW W \in Signalled(S), NEW t \in Users \ S,
           pc' = PcWith(W, {t})
    PROVE  \/ Asleep(S)' = {}
           \/ /\ Asleep(S)' \subseteq Asleep(S)
              /\ Cardinality(Awake(S)') = Cardinality(Awake(S)) + 1
<1>1. CASE W = {}
  <2>1. Asleep(S) = {} /\ \A u \in S : pc'[u] = pc[u]
    BY <1>1, SignalledType DEF PcWith, Users
  <2> QED  BY <2>1, NobodyMoves
<1>2. CASE W # {}
  <2>1. PICK u \in Asleep(S) : W = {u}
    BY <1>2, SignalledType
  <2>2. pc'[u] = "awake" /\ \A v \in S \ {u} : pc'[v] = pc[v]
    BY <2>1 DEF PcWith, Users, Asleep
  <2> QED  BY <2>2, OneWakes
<1> QED  BY <1>1, <1>2

(* The same step, seen by those on the other side of the queue.            *)
LEMMA SignallerLeaves ==
    ASSUME NEW S \in {Senders, Receivers}, NEW W \in SUBSET (Users \ S), NEW t \in S,
           pc[t] # "asleep", pc' = PcWith(W, {t})
    PROVE  /\ Asleep(S)' = Asleep(S)
           /\ Cardinality(Awake(S)') >= Cardinality(Awake(S)) - 1
<1>1. pc'[t] = "out" /\ \A u \in S \ {t} : pc'[u] = pc[u]
  BY DEF PcWith, Users
<1> QED  BY <1>1, OneLeaves

(* A message: one place less for the senders, and one receiver wakes.      *)
LEMMA WriteCovers ==
    ASSUME TypeOK, SleepersNotForgotten, NEW s \in Senders, pc[s] # "asleep",
           NEW m \in Messages, SendWrite(s, m)
    PROVE  SleepersNotForgotten'
<1>1. PICK W \in Signalled(Receivers) : pc' = PcWith(W, {s})
  BY DEF SendWrite
<1>2. Len(fifo) \in Nat /\ Len(fifo') = Len(fifo) + 1
  BY DEF SendWrite, TypeOK
<1>3. W \in SUBSET (Users \ Senders) /\ s \in Users \ Receivers
  BY SignalledType DEF Users
<1>4. /\ Asleep(Senders)' = Asleep(Senders)
      /\ Cardinality(Awake(Senders)') >= Cardinality(Awake(Senders)) - 1
  BY <1>1, <1>3, SignallerLeaves
<1>5. \/ Asleep(Receivers)' = {}
      \/ /\ Asleep(Receivers)' \subseteq Asleep(Receivers)
         /\ Cardinality(Awake(Receivers)') = Cardinality(Awake(Receivers)) + 1
  BY <1>1, <1>3, SignalWakes
<1>6. err_send' = err_send /\ err_recv' = err_recv
  BY DEF SendWrite
<1>7. Covered(Senders, err_send, nelem - Len(fifo))'
  BY <1>2, <1>4, <1>6, Sizes DEF SleepersNotForgotten, Covered
<1>8. Covered(Receivers, err_recv, Len(fifo))'
  BY <1>2, <1>5, <1>6, Sizes DEF SleepersNotForgotten, Covered
<1> QED  BY <1>7, <1>8 DEF SleepersNotForgotten

(* A message is removed: one less for the receivers, and one sender wakes. *)
LEMMA ReadCovers ==
    ASSUME TypeOK, SleepersNotForgotten, NEW r \in Receivers, pc[r] # "asleep", RecvRead(r)
    PROVE  SleepersNotForgotten'
<1>1. PICK W \in Signalled(Senders) : pc' = PcWith(W, {r})
  BY DEF RecvRead
<1>2. Len(fifo) \in Nat /\ Len(fifo') = Len(fifo) - 1
  BY DEF RecvRead, TypeOK
<1>3. W \in SUBSET (Users \ Receivers) /\ r \in Users \ Senders
  BY SignalledType DEF Users
<1>4. /\ Asleep(Receivers)' = Asleep(Receivers)
      /\ Cardinality(Awake(Receivers)') >= Cardinality(Awake(Receivers)) - 1
  BY <1>1, <1>3, SignallerLeaves
<1>5. \/ Asleep(Senders)' = {}
      \/ /\ Asleep(Senders)' \subseteq Asleep(Senders)
         /\ Cardinality(Awake(Senders)') = Cardinality(Awake(Senders)) + 1
  BY <1>1, <1>3, SignalWakes
<1>6. err_send' = err_send /\ err_recv' = err_recv
  BY DEF RecvRead
<1>7. Covered(Senders, err_send, nelem - Len(fifo))'
  BY <1>2, <1>5, <1>6, Sizes DEF SleepersNotForgotten, Covered
<1>8. Covered(Receivers, err_recv, Len(fifo))'
  BY <1>2, <1>4, <1>6, Sizes DEF SleepersNotForgotten, Covered
<1> QED  BY <1>7, <1>8 DEF SleepersNotForgotten

(* Whoever goes to sleep finds nothing to do for anybody.                  *)
LEMMA SleepCovers ==
    ASSUME TypeOK, SleepersNotForgotten
    PROVE  /\ \A s \in Senders, m \in Messages :
                 SendSleep(s, m, FALSE) => SleepersNotForgotten'
           /\ \A r \in Receivers : RecvSleep(r, FALSE) => SleepersNotForgotten'
<1>1. ASSUME NEW s \in Senders, NEW m \in Messages, SendSleep(s, m, FALSE)
      PROVE  SleepersNotForgotten'
  <2>1. ~err_send' /\ nelem - Len(fifo') <= 0 /\ fifo' = fifo /\ err_recv' = err_recv
    BY <1>1 DEF SendSleep, HasRoom, TypeOK
  <2>2. \A t \in Receivers : pc'[t] = pc[t]
    BY <1>1 DEF SendSleep, TypeOK, Users
  <2>3. Covered(Senders, err_send, nelem - Len(fifo))'
    BY <2>1, Sizes DEF Covered, TypeOK
  <2>4. Covered(Receivers, err_recv, Len(fifo))'
    BY <2>1, <2>2, NobodyMoves DEF SleepersNotForgotten, Covered
  <2> QED  BY <2>3, <2>4 DEF SleepersNotForgotten
<1>2. ASSUME NEW r \in Receivers, RecvSleep(r, FALSE) PROVE SleepersNotForgotten'
  <2>1. ~err_recv' /\ Len(fifo') = 0 /\ fifo' = fifo /\ err_send' = err_send
    BY <1>2 DEF RecvSleep, TypeOK
  <2>2. \A t \in Senders : pc'[t] = pc[t]
    BY <1>2 DEF RecvSleep, TypeOK, Users
  <2>3. Covered(Receivers, err_recv, Len(fifo))'
    BY <2>1, Sizes DEF Covered
  <2>4. Covered(Senders, err_send, nelem - Len(fifo))'
    BY <2>1, <2>2, NobodyMoves DEF SleepersNotForgotten, Covered
  <2> QED  BY <2>3, <2>4 DEF SleepersNotForgotten
<1> QED  BY <1>1, <1>2

(* While an error is set nobody sleeps who could be told of it.            *)
LEMMA ErrorCovers ==
    ASSUME TypeOK, SleepersNotForgotten
    PROVE  /\ \A s \in Senders : SendError(s) => SleepersNotForgotten'
           /\ \A r \in Receivers : RecvError(r) => SleepersNotForgotten'
<1>1. ASSUME NEW s \in Senders, SendError(s) PROVE SleepersNotForgotten'
  <2>1. Asleep(Senders)' = {}
    BY <1>1, AllWake DEF SendError, PcWith, SleepersNotForgotten, Covered, Asleep, Users
  <2>2. \A t \in Receivers : pc'[t] = pc[t]
    BY <1>1 DEF SendError, PcWith, Users
  <2>3. fifo' = fifo /\ err_recv' = err_recv
    BY <1>1 DEF SendError
  <2> QED  BY <2>1, <2>2, <2>3, NobodyMoves DEF SleepersNotForgotten, Covered
<1>2. ASSUME NEW r \in Receivers, RecvError(r) PROVE SleepersNotForgotten'
  <2>1. Asleep(Receivers)' = {}
    BY <1>2, AllWake DEF RecvError, PcWith, SleepersNotForgotten, Covered, Asleep, Users
  <2>2. \A t \in Senders : pc'[t] = pc[t]
    BY <1>2 DEF RecvError, PcWith, Users
  <2>3. fifo' = fifo /\ err_send' = err_send
    BY <1>2 DEF RecvError
  <2> QED  BY <2>1, <2>2, <2>3, NobodyMoves DEF SleepersNotForgotten, Covered
<1> QED  BY <1>1, <1>2

LEMMA BroadcastCovers ==
    ASSUME TypeOK, SleepersNotForgotten
    PROVE  /\ \A err \in BOOLEAN : SetErrSend(err) => SleepersNotForgotten'
           /\ \A err \in BOOLEAN : SetErrRecv(err) => SleepersNotForgotten'
           /\ Flush => SleepersNotForgotten'
<1>1. ASSUME NEW S \in {Senders, Receivers}, pc' = PcWith(Broadcast(S), {})
      PROVE  Asleep(S)' = {} /\ \A t \in Users \ S : pc'[t] = pc[t]
  BY <1>1, AllWake DEF PcWith, Broadcast, Asleep, Users
<1>2. ASSUME NEW err \in BOOLEAN, SetErrSend(err) PROVE SleepersNotForgotten'
  <2>1. Asleep(Senders)' = {} /\ \A t \in Receivers : pc'[t] = pc[t]
    BY <1>1, <1>2 DEF SetErrSend, Users
  <2>2. fifo' = fifo /\ err_recv' = err_recv
    BY <1>2 DEF SetErrSend
  <2> QED  BY <2>1, <2>2, NobodyMoves DEF SleepersNotForgotten, Covered
<1>3. ASSUME NEW err \in BOOLEAN, SetErrRecv(err) PROVE SleepersNotForgotten'
  <2>1. Asleep(Receivers)' = {} /\ \A t \in Senders : pc'[t] = pc[t]
    BY <1>1, <1>3 DEF SetErrRecv, Users
  <2>2. fifo' = fifo /\ err_send' = err_send
    BY <1>3 DEF SetErrRecv
  <2> QED  BY <2>1, <2>2, NobodyMoves DEF SleepersNotForgotten, Covered
<1>4. ASSUME Flush PROVE SleepersNotForgotten'
  <2>1. Asleep(Senders)' = {} /\ \A t \in Receivers : pc'[t] = pc[t]
    BY <1>1, <1>4 DEF Flush, Users
  <2>2. err_recv' = err_recv /\ Len(fifo) \in Nat /\ Len(fifo') \in {0, Len(fifo)}
    BY <1>4 DEF Flush, TypeOK
  <2>3. Covered(Senders, err_send, nelem - Len(fifo))'
    BY <2>1 DEF Covered
  <2>4. Covered(Receivers, err_recv, Len(fifo))'
    BY <2>1, <2>2, NobodyMoves, Sizes DEF SleepersNotForgotten, Covered
  <2> QED  BY <2>3, <2>4 DEF SleepersNotForgotten
<1> QED  BY <1>2, <1>3, <1>4

LEMMA SpuriousCovers ==
    ASSUME TypeOK, SleepersNotForgotten, NEW t \in Users, SpuriousWakeup(t)
    PROVE  SleepersNotForgotten'
<1>1. /\ fifo' = fifo /\ err_send' = err_send /\ err_recv' = err_recv
      /\ Len(fifo) \in Nat
  BY DEF SpuriousWakeup, TypeOK
<1>2. ASSUME NEW S \in {Senders, Receivers}
      PROVE  /\ Asleep(S)' \subseteq Asleep(S)
             /\ Cardinality(Awake(S)') >= Cardinality(Awake(S))
  <2>1. CASE t \in S
    <3>1. t \in Asleep(S) /\ pc'[t] = "awake" /\ \A u \in S \ {t} : pc'[u] = pc[u]
      BY <2>1 DEF SpuriousWakeup, PcWith, Asleep, Users
    <3> QED  BY <3>1, OneWakes, Sizes
  <2>2. CASE t \notin S
    <3>1. \A u \in S : pc'[u] = pc[u]
      BY <2>2 DEF SpuriousWakeup, PcWith, Users
    <3> QED  BY <3>1, NobodyMoves, Sizes
  <2> QED  BY <2>1, <2>2
<1>3. Covered(Senders, err_send, nelem - Len(fifo))'
  BY <1>1, <1>2, Sizes DEF SleepersNotForgotten, Covered
<1>4. Covered(Receivers, err_recv, Len(fifo))'
  BY <1>1, <1>2, Sizes DEF SleepersNotForgotten, Covered
<1> QED  BY <1>3, <1>4 DEF SleepersNotForgotten

LEMMA CoveredStep ==
    TypeOK /\ SleepersNotForgotten /\ [Next]_vars => SleepersNotForgotten'
<1> SUFFICES ASSUME TypeOK, SleepersNotForgotten, [Next]_vars PROVE SleepersNotForgotten'
  OBVIOUS
<1>1. CASE UNCHANGED vars
  BY <1>1 DEF vars, SleepersNotForgotten, Covered, Asleep, Awake
<1>2. ASSUME NEW s \in Senders, SendCall(s) \/ SendResume(s) PROVE SleepersNotForgotten'
  <2>1. pc[s] # "asleep"
    BY <1>2, CallersAreUp
  <2>2. ASSUME NEW m \in Messages, Sending(s, m) PROVE SleepersNotForgotten'
    BY <2>1, <2>2, WriteCovers, SleepCovers DEF Sending
  <2>3. SendError(s) \/ UNCHANGED vars \/ \E m \in Messages : Sending(s, m)
    BY <1>2, SendSteps
  <2> QED  BY <1>1, <2>2, <2>3, ErrorCovers
<1>3. ASSUME NEW r \in Receivers, RecvCall(r) \/ RecvResume(r) PROVE SleepersNotForgotten'
  <2>1. pc[r] # "asleep"
    BY <1>3, CallersAreUp
  <2>2. RecvSleep(r, FALSE) \/ RecvError(r) \/ RecvRead(r) \/ UNCHANGED vars
    BY <1>3, RecvSteps
  <2> QED  BY <1>1, <2>1, <2>2, ReadCovers, SleepCovers, ErrorCovers
<1> QED  BY <1>1, <1>2, <1>3, BroadcastCovers, SpuriousCovers DEF Next

(* No sender and no receiver is left asleep in pthread_cond_wait() while   *)
(* there is an error for it or more to do than those awake will do.        *)
THEOREM Wakes == Spec => []SleepersNotForgotten
<1>1. Init => SleepersNotForgotten
  BY DEF Init, SleepersNotForgotten, Covered, Asleep, Users
<1> QED  BY <1>1, CoveredStep, TypeCorrect, PTL DEF Spec

-----------------------------------------------------------------------------
(* The abstract queue: sleeping, waking and being woken are stutters.      *)

Pending == {t \in Users : pc[t] # "out"}

LEMMA LeavesPending ==
    ASSUME NEW t \in Users, NEW S \in {Senders, Receivers}, NEW W \in Signalled(S),
           pc' = PcWith(W, {t})
    PROVE  Pending' = Pending \ {t}
<1>1. \A u \in W : pc[u] = "asleep"
  BY DEF Signalled, Asleep
<1>2. \A u \in Users : u \in Pending' <=> u \in Pending \ {t}
  BY <1>1 DEF Pending, PcWith
<1> QED  BY <1>2 DEF Pending

LEMMA KeepsPending ==
    ASSUME NEW W, \A u \in W : pc[u] = "asleep", pc' = PcWith(W, {})
    PROVE  Pending' = Pending
<1>1. \A u \in Users : u \in Pending' <=> u \in Pending
  BY DEF Pending, PcWith
<1> QED  BY <1>1 DEF Pending

LEMMA RefineSend ==
    ASSUME TypeOK, NEW s \in Senders, NEW m \in Messages, Sending(s, m)
    PROVE  [M!Next]_(M!vars)
<1>1. s \in Users
  BY DEF Users
<1>2. CASE SendWrite(s, m)
  <2>1. PICK W \in Signalled(Receivers) : pc' = PcWith(W, {s})
    BY <1>2 DEF SendWrite
  <2>2. Pending' = Pending \ {s}
    BY <1>1, <2>1, LeavesPending
  <2>3. s \in Pending => m = msg[s]
    BY DEF Sending, Pending
  <2>4. M!Send(s, m) /\ UNCHANGED msg
    BY <1>2, <2>2, <2>3 DEF SendWrite, HasRoom, Pending, M!Send, M!HasRoom
  <2> QED  BY <2>4 DEF M!Next, M!Complete
<1>3. CASE SendSleep(s, m, FALSE) /\ pc[s] = "out"
  <2>1. \A u \in Users : u \in Pending' <=> u \in Pending \cup {s}
    BY <1>1, <1>3 DEF SendSleep, Pending, TypeOK
  <2>2. Pending' = Pending \cup {s} /\ s \notin Pending
    BY <1>1, <1>3, <2>1 DEF Pending
  <2>3. M!SendBlocks(s, m)
    BY <1>3, <2>2 DEF SendSleep, HasRoom, Pending, M!SendBlocks, M!HasRoom
  <2> QED  BY <2>3 DEF M!Next
<1>4. CASE SendSleep(s, m, FALSE) /\ pc[s] = "awake" /\ m = msg[s]
  <2>1. \A u \in Users : u \in Pending' <=> u \in Pending
    BY <1>1, <1>4 DEF SendSleep, Pending, TypeOK
  <2>2. Pending' = Pending
    BY <2>1 DEF Pending
  <2>3. msg' = msg
    BY <1>4 DEF SendSleep, TypeOK
  <2> QED  BY <1>4, <2>2, <2>3 DEF SendSleep, Pending, M!vars
<1> QED  BY <1>2, <1>3, <1>4 DEF Sending

LEMMA RefineReceive ==
    ASSUME TypeOK, NEW r \in Receivers, pc[r] # "asleep", RecvSleep(r, FALSE) \/ RecvRead(r)
    PROVE  [M!Next]_(M!vars)
<1>1. r \in Users
  BY DEF Users
<1>2. CASE RecvRead(r)
  <2>1. PICK W \in Signalled(Senders) : pc' = PcWith(W, {r})
    BY <1>2 DEF RecvRead
  <2>2. Pending' = Pending \ {r}
    BY <1>1, <2>1, LeavesPending
  <2>3. M!Receive(r) /\ UNCHANGED msg
    BY <1>2, <2>2 DEF RecvRead, Pending, M!Receive
  <2> QED  BY <2>3 DEF M!Next, M!Complete
<1>3. CASE RecvSleep(r, FALSE) /\ pc[r] = "out"
  <2>1. \A u \in Users : u \in Pending' <=> u \in Pending \cup {r}
    BY <1>1, <1>3 DEF RecvSleep, Pending, TypeOK
  <2>2. Pending' = Pending \cup {r} /\ r \notin Pending
    BY <1>1, <1>3, <2>1 DEF Pending
  <2>3. M!ReceiveBlocks(r)
    BY <1>3, <2>2 DEF RecvSleep, Pending, M!ReceiveBlocks
  <2> QED  BY <2>3 DEF M!Next
<1>4. CASE RecvSleep(r, FALSE) /\ pc[r] = "awake"
  <2>1. \A u \in Users : u \in Pending' <=> u \in Pending
    BY <1>1, <1>4 DEF RecvSleep, Pending, TypeOK
  <2>2. Pending' = Pending
    BY <2>1 DEF Pending
  <2> QED  BY <1>4, <2>2 DEF RecvSleep, Pending, M!vars
<1>5. pc[r] \in {"out", "awake"}
  BY <1>1 DEF TypeOK
<1> QED  BY <1>2, <1>3, <1>4, <1>5

LEMMA RefineErrors ==
    ASSUME TypeOK
    PROVE  /\ \A s \in Senders : SendError(s) => M!Next
           /\ \A r \in Receivers : RecvError(r) => M!Next
<1>1. ASSUME NEW t \in Users, pc' = PcWith({}, {t}) PROVE Pending' = Pending \ {t}
  <2>1. \A u \in Users : u \in Pending' <=> u \in Pending \ {t}
    BY <1>1 DEF Pending, PcWith
  <2> QED  BY <2>1 DEF Pending
<1>2. ASSUME NEW s \in Senders, SendError(s) PROVE M!Next
  <2>1. Pending' = Pending \ {s}
    BY <1>1, <1>2 DEF SendError, Users
  <2>2. M!SendFails(s) /\ UNCHANGED msg
    BY <1>2, <2>1 DEF SendError, Pending, M!SendFails
  <2> QED  BY <2>2 DEF M!Next, M!Complete
<1>3. ASSUME NEW r \in Receivers, RecvError(r) PROVE M!Next
  <2>1. Pending' = Pending \ {r}
    BY <1>1, <1>3 DEF RecvError, Users
  <2>2. M!ReceiveFails(r) /\ UNCHANGED msg
    BY <1>3, <2>1 DEF RecvError, Pending, M!ReceiveFails
  <2> QED  BY <2>2 DEF M!Next, M!Complete
<1> QED  BY <1>2, <1>3

LEMMA RefineBroadcasts ==
    ASSUME TypeOK
    PROVE  /\ \A err \in BOOLEAN : SetErrSend(err) \/ SetErrRecv(err) => M!Next
           /\ Flush => [M!Next]_(M!vars)
           /\ \A t \in Users : SpuriousWakeup(t) => UNCHANGED (M!vars)
<1>1. ASSUME NEW S \in {Senders, Receivers}, pc' = PcWith(Broadcast(S), {})
      PROVE  Pending' = Pending
  <2>1. \A u \in Broadcast(S) : pc[u] = "asleep"
    BY DEF Broadcast, Asleep
  <2> QED  BY <1>1, <2>1, KeepsPending
<1>2. ASSUME NEW err \in BOOLEAN, SetErrSend(err) \/ SetErrRecv(err) PROVE M!Next
  <2>1. Pending' = Pending
    BY <1>1, <1>2 DEF SetErrSend, SetErrRecv
  <2>2. M!SetError
    BY <1>2, <2>1 DEF SetErrSend, SetErrRecv, Pending, M!SetError
  <2> QED  BY <2>2 DEF M!Next
<1>3. ASSUME Flush PROVE [M!Next]_(M!vars)
  <2>1. Pending' = Pending
    BY <1>1, <1>3 DEF Flush
  <2>2. CASE HasFreeFunc
    <3>1. M!Flush
      BY <1>3, <2>1, <2>2 DEF Flush, Pending, M!Flush
    <3> QED  BY <3>1 DEF M!Next
  <2>3. CASE ~HasFreeFunc
    BY <1>3, <2>1, <2>3 DEF Flush, Pending, M!vars
  <2> QED  BY <2>2, <2>3
<1>4. ASSUME NEW t \in Users, SpuriousWakeup(t) PROVE UNCHANGED (M!vars)
  <2>1. Pending' = Pending
    BY <1>4, KeepsPending DEF SpuriousWakeup
  <2> QED  BY <1>4, <2>1 DEF SpuriousWakeup, Pending, M!vars
<1> QED  BY <1>2, <1>3, <1>4

LEMMA RefineStep == TypeOK /\ [Next]_vars => [M!Next]_(M!vars)
<1> SUFFICES ASSUME TypeOK, [Next]_vars PROVE [M!Next]_(M!vars)
  OBVIOUS
<1>1. CASE UNCHANGED vars
  BY <1>1 DEF vars, M!vars
<1>2. ASSUME NEW s \in Senders, SendCall(s) \/ SendResume(s) PROVE [M!Next]_(M!vars)
  <2>1. SendError(s) \/ UNCHANGED vars \/ \E m \in Messages : Sending(s, m)
    BY <1>2, SendSteps
  <2> QED  BY <1>1, <2>1, RefineSend, RefineErrors
<1>3. ASSUME NEW r \in Receivers, RecvCall(r) \/ RecvResume(r) PROVE [M!Next]_(M!vars)
  <2>1. pc[r] # "asleep"
    BY <1>3, CallersAreUp
  <2>2. RecvSleep(r, FALSE) \/ RecvError(r) \/ RecvRead(r) \/ UNCHANGED vars
    BY <1>3, RecvSteps
  <2> QED  BY <1>1, <2>1, <2>2, RefineReceive, RefineErrors
<1> QED  BY <1>1, <1>2, <1>3, RefineBroadcasts DEF Next

(* threadmessage.c keeps the promise of threadmessage.h: messages come in  *)
(* order, each once, within the capacity; senders are refused by their     *)
(* error at once and receivers by theirs after the last message.           *)
THEOREM ImplementsMessageQueue == Spec => MessageQueueSpec
<1>1. Init => M!Init
  BY DEF Init, M!Init, Users
<1> QED  BY <1>1, RefineStep, TypeCorrect, PTL DEF Spec, MessageQueueSpec, M!Spec
=============================================================================
