-------------------------- MODULE SchedulerProofs --------------------------
(* Proofs about Scheduler, for any graph.  The schedule is made one write  *)
(* at a time, while queues are closed and sch_stop() chokes the sources    *)
(* without the lock: no queue stays frozen behind a demuxer that may run   *)
(* (FrozenBehindChoked), and a demuxer that has to learn of a closed       *)
(* filter input runs until it has (ClosedInputsFed).  The second needs the *)
(* types of all variables but nb_streams_ready, TypeInv.                   *)
EXTENDS Scheduler, WellFoundedInduction, FiniteSetTheorems, TLAPS

(* The parts of the ThreadQueues that say whether they are frozen.         *)
Freezable(Q) ==
    /\ DOMAIN Q = Consumers
    /\ \A q \in Consumers : "choked" \in DOMAIN Q[q] /\ Q[q].choked \in BOOLEAN

(* Who holds the lock has writes to make.                                  *)
AllWrites == ({"waiter"} \X Waiters \X BOOLEAN) \cup ({"freeze"} \X Demux \X BOOLEAN)
LockOK ==
    /\ schedule_lock = [owner |-> schedule_lock.owner, sets |-> schedule_lock.sets]
    /\ schedule_lock.sets \subseteq AllWrites
    /\ schedule_lock.owner = None <=> schedule_lock.sets = {}

(* The writes still to be made for demuxer d: a write to its waiter comes  *)
(* with one of the same value to its queues and before that; once it was   *)
(* made the demuxer is choked if its queues are to be.                     *)
Writes(S, d) ==
    /\ \A v \in BOOLEAN : <<"waiter", d, v>> \in S => <<"freeze", d, v>> \in S
    /\ \A v \in BOOLEAN : <<"freeze", d, v>> \in S =>
            /\ <<"freeze", d, ~v>> \notin S
            /\ <<"waiter", d, v>> \in S \/ (v => choked[d])

Together(S, d) ==
    (\A v \in BOOLEAN : <<"freeze", d, v>> \notin S) =>
        \A q \in FrozenWith(d) : queue[q].choked => choked[d]

IInv ==
    /\ Freezable(queue)
    /\ choked \in [Waiters -> BOOLEAN]
    /\ LockOK
    /\ \A d \in Demux : Writes(schedule_lock.sets, d) /\ Together(schedule_lock.sets, d)

-----------------------------------------------------------------------------
(* The graph.                                                              *)

(* A decoder is fed, and so frozen, by one demuxer.                        *)
LEMMA FrozenByOne ==
    /\ \A d \in Demux : FrozenWith(d) \subseteq Consumers
    /\ \A d, e \in Demux : \A q \in FrozenWith(d) : q \in FrozenWith(e) => d = e
<1>1. ASSUME NEW d \in Demux, NEW q \in FrozenWith(d)
      PROVE  q \in Decoders /\ <<q, 0>> \in Dsts(d)
  <2>1. PICK o \in DOMAIN Outs[d] : q = Outs[d][o][1][1] /\ q \in Decoders
    BY DEF FrozenWith
  <2>2. d \in Producers
    BY DEF Producers
  <2>3. Outs[d][o] \in Seq(Ports(Consumers)) \ {<<>>}
    BY <2>2, GraphAssumption
  <2>4. 1 \in DOMAIN Outs[d][o] /\ Outs[d][o][1] \in Ports(Consumers)
    BY <2>3
  <2>5. Outs[d][o][1] \in Dsts(d)
    <3>1. Outs[d][o][1] \in Range(Outs[d][o])
      BY <2>4 DEF Range
    <3> QED  BY <3>1 DEF Dsts
  <2>6. PICK t \in Consumers : \E i \in Inputs(t) : Outs[d][o][1] = <<t, i>>
    BY <2>4 DEF Ports
  <2>7. t = q /\ Inputs(q) = 0 .. 0
    BY <2>1, <2>6, GraphAssumption DEF Inputs
  <2>8. Outs[d][o][1] = <<q, 0>>
    BY <2>6, <2>7
  <2> QED  BY <2>1, <2>5, <2>8
<1>2. \A q \in Decoders : q \in Consumers /\ <<q, 0>> \in Ports(Consumers)
  <2>1. ASSUME NEW q \in Decoders PROVE q \in Consumers /\ 0 \in Inputs(q)
    BY GraphAssumption DEF Consumers, Inputs
  <2> QED  BY <2>1 DEF Ports
<1>3. ASSUME NEW d \in Demux, NEW e \in Demux, NEW q, <<q, 0>> \in Ports(Consumers),
             <<q, 0>> \in Dsts(d), <<q, 0>> \in Dsts(e)
      PROVE  d = e
  <2>1. PICK t \in Producers : {u \in Producers : <<q, 0>> \in Dsts(u)} = {t}
    BY <1>3, GraphAssumption
  <2>2. d \in Producers /\ e \in Producers
    BY DEF Producers
  <2> QED  BY <1>3, <2>1, <2>2
<1> QED  BY <1>1, <1>2, <1>3

(* Every write has its place in the order.                                 *)
LEMMA RankType ==
    ASSUME NEW w \in Waiters
    PROVE  \E i \in Nat : \A v : /\ Rank(<<"waiter", w, v>>) = 2 * i
                                 /\ Rank(<<"freeze", w, v>>) = 2 * i + 1
<1>1. Demuxers \in Seq(Demux) /\ Filters \in Seq(Filter)
  BY GraphAssumption
<1>2. \E i \in DOMAIN Sources : Sources[i] = w
  <2>1. CASE w \in Demux
    <3>1. PICK i \in DOMAIN Demuxers : Demuxers[i] = w
      BY <2>1 DEF Demux, Range
    <3>2. i \in DOMAIN Sources /\ Sources[i] = w
      BY <1>1, <3>1 DEF Sources
    <3> QED  BY <3>2
  <2>2. CASE w \in Filter
    <3>1. PICK i \in DOMAIN Filters : Filters[i] = w
      BY <2>2 DEF Filter, Range
    <3>2. i + Len(Demuxers) \in DOMAIN Sources /\ Sources[i + Len(Demuxers)] = w
      BY <1>1, <3>1 DEF Sources
    <3> QED  BY <3>2
  <2> QED  BY <2>1, <2>2 DEF Waiters
<1> DEFINE i == CHOOSE i \in DOMAIN Sources : Sources[i] = w
<1>3. i \in DOMAIN Sources
  BY <1>2
<1>4. DOMAIN Sources \subseteq Nat
  BY <1>1 DEF Sources
<1>5. \A v : Rank(<<"waiter", w, v>>) = 2 * i + 0 /\ Rank(<<"freeze", w, v>>) = 2 * i + 1
  BY DEF Rank
<1> QED  BY <1>3, <1>4, <1>5

LEMMA LeastRank ==
    ASSUME NEW T, T \subseteq Nat, T # {}
    PROVE  \E x \in T : \A y \in T : x <= y
<1> DEFINE R == OpToRel(<, Nat)
<1>1. IsWellFoundedOn(R, Nat)
  BY NatLessThanWellFounded
<1>2. PICK x \in T : \A y \in T : ~ (<<y, x>> \in R)
  <2> HIDE DEF R
  <2> QED  BY <1>1, WFMin
<1>3. \A y \in T : ~ (y < x)
  BY <1>2 DEF OpToRel
<1> QED  BY <1>3

LEMMA NextUpdateIsFirst ==
    ASSUME NEW S \in SUBSET AllWrites, S # {}
    PROVE  NextUpdate(S) \in S /\ \A x \in S : Rank(NextUpdate(S)) <= Rank(x)
<1>1. \A u \in S : Rank(u) \in Nat
  <2> SUFFICES ASSUME NEW u \in S PROVE Rank(u) \in Nat
    OBVIOUS
  <2>1. u = <<u[1], u[2], u[3]>> /\ u[1] \in {"waiter", "freeze"} /\ u[2] \in Waiters
    BY DEF AllWrites, Waiters
  <2>2. PICK i \in Nat : /\ Rank(<<"waiter", u[2], u[3]>>) = 2 * i
                         /\ Rank(<<"freeze", u[2], u[3]>>) = 2 * i + 1
    BY <2>1, RankType
  <2> QED  BY <2>1, <2>2
<1> DEFINE T == {Rank(u) : u \in S}
<1>2. PICK n \in T : \A y \in T : n <= y
  <2>1. T \subseteq Nat /\ T # {}
    BY <1>1
  <2> QED  BY <2>1, LeastRank
<1>3. \E u \in S : \A x \in S : Rank(u) <= Rank(x)
  BY <1>2
<1> QED  BY <1>3 DEF NextUpdate

-----------------------------------------------------------------------------
(* Steps that leave the lock alone: queues are thawed and sources choked,  *)
(* never the other way.                                                    *)
Thaws == Freezable(queue') /\ \A q \in Consumers : queue'[q].choked => queue[q].choked
Chokes == choked' \in [Waiters -> BOOLEAN] /\ \A w \in Waiters : choked[w] => choked'[w]

LEMMA Unlocking ==
    ASSUME IInv, schedule_lock' = schedule_lock, Thaws, Chokes
    PROVE  IInv'
<1>1. LockOK'
  BY DEF IInv, LockOK
<1>2. ASSUME NEW d \in Demux
      PROVE  Writes(schedule_lock.sets, d)' /\ Together(schedule_lock.sets, d)'
  <2>1. d \in Waiters /\ FrozenWith(d) \subseteq Consumers
    BY FrozenByOne DEF Waiters
  <2>2. choked[d] => choked'[d]
    BY <2>1 DEF Chokes
  <2>3. Writes(schedule_lock.sets, d)'
    BY <2>2 DEF IInv, Writes
  <2>4. Together(schedule_lock.sets, d)'
    BY <2>1, <2>2 DEF IInv, Together, Thaws
  <2> QED  BY <2>3, <2>4
<1> QED  BY <1>1, <1>2 DEF IInv, Thaws, Chokes

LEMMA ThawsNothing == Freezable(queue) /\ queue' = queue => Thaws
BY DEF Thaws, Freezable

LEMMA ThawsOne ==
    ASSUME Freezable(queue), NEW t, NEW r,
           queue' = [queue EXCEPT ![t] = r],
           t \in Consumers => /\ "choked" \in DOMAIN r /\ r.choked \in BOOLEAN
                              /\ r.choked => queue[t].choked
    PROVE  Thaws
BY DEF Thaws, Freezable

LEMMA SameChoked == IInv /\ choked' = choked => Chokes
BY DEF IInv, Chokes

(* What is done to one ThreadQueue.                                        *)
LEMMA TqThaws ==
    ASSUME Freezable(queue), NEW t, NEW k, NEW S, NEW ts,
           \/ queue' = TqWrite(k, ts) \/ queue' = TqSendEOF(k)
           \/ queue' = TqSendFinish(queue, t, S) \/ queue' = TqReceiveFinish(queue, t, S)
           \/ queue' = TqAfterItem(t) \/ queue' = TqAfterEOF(t) \/ TqDiscard(t)
    PROVE  Thaws
<1>1. ASSUME NEW x, NEW f, queue' = [queue EXCEPT ![x].fifo = f] PROVE Thaws
  BY <1>1, ThawsOne DEF Freezable
<1>2. ASSUME NEW x, NEW f, queue' = [queue EXCEPT ![x].send = f] PROVE Thaws
  BY <1>2, ThawsOne DEF Freezable
<1>3. ASSUME NEW x, NEW f, queue' = [queue EXCEPT ![x].recv = f] PROVE Thaws
  BY <1>3, ThawsOne DEF Freezable
<1>4. CASE queue' = TqWrite(k, ts)
  BY <1>1, <1>4 DEF TqWrite
<1>5. CASE queue' = TqSendEOF(k)
  BY <1>2, <1>5 DEF TqSendEOF
<1>6. CASE queue' = TqSendFinish(queue, t, S)
  BY <1>6 DEF TqSendFinish, Thaws, Freezable
<1>7. CASE queue' = TqReceiveFinish(queue, t, S)
  BY <1>3, <1>7 DEF TqReceiveFinish
<1>8. CASE queue' = TqAfterItem(t)
  BY <1>1, <1>8 DEF TqAfterItem
<1>9. CASE queue' = TqAfterEOF(t)
  BY <1>9 DEF TqAfterEOF, Thaws, Freezable
<1>10. CASE TqDiscard(t)
  BY <1>1, <1>10 DEF TqDiscard
<1> QED  BY <1>4, <1>5, <1>6, <1>7, <1>8, <1>9, <1>10

-----------------------------------------------------------------------------
(* The lock is taken, with the writes to make.                             *)
LEMMA Update ==
    ASSUME IInv, NEW t \in Threads, schedule_lock.owner = None, Thaws, choked' = choked,
           ScheduleUpdate(t)
    PROVE  IInv'
<1>1. CASE schedule_lock' = schedule_lock
  BY <1>1, Unlocking, SameChoked
<1>2. CASE schedule_lock' # schedule_lock
  <2>1. PICK ws \in SUBSET Waiters :
            ws # {} /\ schedule_lock' = [owner |-> t, sets |-> Updates(ws)]
    BY <1>2 DEF ScheduleUpdate
  <2>2. schedule_lock.sets = {} /\ choked \in [Waiters -> BOOLEAN]
    BY DEF IInv, LockOK
  <2>3. t # None
    BY SchedulerAssumption DEF Threads, Main, None
  <2>4. Updates(ws) \subseteq AllWrites /\ Updates(ws) # {}
    <3>1. \A w \in ws : w \in Waiters /\ (~ choked[w]) \in BOOLEAN
      BY <2>2
    <3>2. ASSUME NEW w \in ws PROVE <<"waiter", w, ~ choked[w]>> \in AllWrites
      <4>1. PICK v \in BOOLEAN : v = ~ choked[w]
        BY <3>1
      <4>2. <<"waiter", w, v>> \in AllWrites
        BY <3>1 DEF AllWrites
      <4> QED  BY <4>1, <4>2
    <3>3. ASSUME NEW w \in ws \cap Demux PROVE <<"freeze", w, ~ choked[w]>> \in AllWrites
      <4>1. PICK v \in BOOLEAN : v = ~ choked[w]
        BY <3>1
      <4>2. <<"freeze", w, v>> \in AllWrites
        BY DEF AllWrites
      <4> QED  BY <4>1, <4>2
    <3>4. PICK w \in ws : TRUE
      BY <2>1
    <3>5. <<"waiter", w, ~ choked[w]>> \in Updates(ws)
      BY <3>4 DEF Updates
    <3> QED  BY <3>2, <3>3, <3>5 DEF Updates
  <2>5. LockOK'
    BY <2>1, <2>3, <2>4 DEF LockOK
  <2>6. ASSUME NEW d \in Demux, NEW v \in BOOLEAN
        PROVE  /\ <<"waiter", d, v>> \in Updates(ws) <=> d \in ws /\ v = ~ choked[d]
               /\ <<"freeze", d, v>> \in Updates(ws) <=> d \in ws /\ v = ~ choked[d]
    BY DEF Updates
  <2>7. ASSUME NEW d \in Demux
        PROVE  Writes(schedule_lock.sets, d)' /\ Together(schedule_lock.sets, d)'
    <3>1. choked[d] \in BOOLEAN /\ FrozenWith(d) \subseteq Consumers
      BY <2>2, FrozenByOne DEF Waiters
    <3>2. Writes(schedule_lock.sets, d)'
      BY <2>1, <2>6, <3>1 DEF Writes
    <3>3. Together(schedule_lock.sets, d)'
      BY <2>2, <3>1 DEF IInv, Together, Thaws
    <3> QED  BY <3>2, <3>3
  <2> QED  BY <2>2, <2>5, <2>7 DEF IInv, Thaws
<1> QED  BY <1>1, <1>2

(* One write is made.                                                      *)
LEMMA Apply ==
    ASSUME IInv, NEW t \in Threads, ScheduleApply(t)
    PROVE  IInv'
<1>1. PICK S : S = schedule_lock.sets
  OBVIOUS
<1>2. PICK u : u = NextUpdate(S)
  OBVIOUS
<1>3. /\ S \in SUBSET AllWrites /\ S # {}
      /\ choked \in [Waiters -> BOOLEAN] /\ Freezable(queue)
  <2>1. t # None
    BY SchedulerAssumption DEF Threads, Main, None
  <2> QED  BY <1>1, <2>1 DEF IInv, LockOK, ScheduleApply
<1>4. u \in S /\ \A x \in S : Rank(u) <= Rank(x)
  BY <1>2, <1>3, NextUpdateIsFirst
<1>5. /\ choked' = IF u[1] = "waiter" THEN [choked EXCEPT ![u[2]] = u[3]] ELSE choked
      /\ queue' = IF u[1] = "freeze" THEN ChokeDemux(u[2], u[3]) ELSE queue
      /\ IF S \ {u} = {} THEN schedule_lock' = Unlocked
         ELSE schedule_lock' = [schedule_lock EXCEPT !.sets = S \ {u}]
  BY <1>1, <1>2 DEF ScheduleApply
<1>6. schedule_lock'.sets = S \ {u} /\ LockOK'
  <2>1. CASE S \ {u} = {}
    BY <1>5, <2>1 DEF LockOK, Unlocked
  <2>2. CASE S \ {u} # {}
    <3>1. schedule_lock' = [owner |-> schedule_lock.owner, sets |-> S \ {u}]
      BY <1>5, <2>2 DEF IInv, LockOK
    <3> QED  BY <1>1, <1>3, <2>2, <3>1 DEF IInv, LockOK
  <2> QED  BY <2>1, <2>2
<1>7. \A d \in Demux : /\ Writes(S, d) /\ Together(S, d)
                       /\ d \in Waiters /\ FrozenWith(d) \subseteq Consumers
  BY <1>1, FrozenByOne DEF IInv, Waiters
<1>8. CASE \E w \in Waiters, v \in BOOLEAN : u = <<"waiter", w, v>>
  <2>1. PICK w \in Waiters, v \in BOOLEAN : u = <<"waiter", w, v>>
    BY <1>8
  <2>2. choked' = [choked EXCEPT ![w] = v] /\ queue' = queue
    BY <1>5, <2>1
  <2>3. ASSUME NEW d \in Demux PROVE Writes(S \ {u}, d)' /\ Together(S \ {u}, d)'
    <3>1. CASE d = w
      BY <1>3, <1>4, <1>7, <2>1, <2>2, <3>1 DEF Writes, Together
    <3>2. CASE d # w
      BY <1>3, <1>7, <2>1, <2>2, <3>2 DEF Writes, Together
    <3> QED  BY <3>1, <3>2
  <2> QED  BY <1>3, <1>6, <2>2, <2>3 DEF IInv
<1>9. CASE \E w \in Demux, v \in BOOLEAN : u = <<"freeze", w, v>>
  <2>1. PICK w \in Demux, v \in BOOLEAN : u = <<"freeze", w, v>>
    BY <1>9
  <2>2. choked' = choked /\ queue' = ChokeDemux(w, v)
    BY <1>5, <2>1
  <2>3. /\ Freezable(queue')
        /\ \A q \in Consumers : queue'[q].choked = IF q \in FrozenWith(w) THEN v ELSE queue[q].choked
    BY <1>3, <2>2 DEF Freezable, ChokeDemux
  <2>4. <<"waiter", w, v>> \notin S
    <3>1. PICK i \in Nat : /\ Rank(<<"waiter", w, v>>) = 2 * i
                           /\ Rank(<<"freeze", w, v>>) = 2 * i + 1
      BY <1>7, RankType
    <3> QED  BY <1>4, <2>1, <3>1
  <2>5. ASSUME NEW d \in Demux PROVE Writes(S \ {u}, d)' /\ Together(S \ {u}, d)'
    <3>1. CASE d = w
      <4>1. v => choked[w]
        BY <1>4, <1>7, <2>1, <2>4 DEF Writes
      <4>2. \A x \in BOOLEAN : <<"freeze", w, x>> \notin S \ {u}
        BY <1>4, <1>7, <2>1 DEF Writes
      <4>3. \A x \in BOOLEAN : <<"waiter", w, x>> \notin S
        BY <1>7, <2>1, <2>4, <4>2 DEF Writes
      <4>4. \A q \in FrozenWith(w) : queue'[q].choked => choked'[w]
        BY <1>7, <2>2, <2>3, <4>1
      <4> QED  BY <3>1, <4>2, <4>3, <4>4 DEF Writes, Together
    <3>2. CASE d # w
      <4>1. \A q \in FrozenWith(d) : queue'[q].choked = queue[q].choked
        BY <1>7, <2>3, <3>2, FrozenByOne
      <4>2. Writes(S \ {u}, d)'
        BY <1>7, <2>1, <2>2, <3>2 DEF Writes
      <4>3. Together(S \ {u}, d)'
        BY <1>7, <2>1, <2>2, <3>2, <4>1 DEF Together
      <4> QED  BY <4>2, <4>3
    <3> QED  BY <3>1, <3>2
  <2> QED  BY <1>3, <1>6, <2>2, <2>3, <2>5 DEF IInv
<1>10. u \in AllWrites
  BY <1>3, <1>4
<1> QED  BY <1>8, <1>9, <1>10 DEF AllWrites

-----------------------------------------------------------------------------
(* All steps.                                                              *)
LEMMA LockSteps ==
    ASSUME IInv, NEW t \in Threads, LockStep(t)
    PROVE  IInv'
<1> USE DEF Locking, SchedUnchanged
<1>a. Freezable(queue) /\ (queue' = queue => Thaws)
  BY ThawsNothing DEF IInv
<1>1. CASE \/ ScheduleFirst(t) \/ SetLastDts(t) \/ SourceFinished(t) \/ SetBestInput(t)
           \/ TaskExited(t)
  <2>1. schedule_lock.owner = None /\ queue' = queue /\ choked' = choked /\ ScheduleUpdate(t)
    BY <1>1 DEF ScheduleFirst, SetLastDts, SourceFinished, SetBestInput, TaskExited
  <2> QED  BY <1>a, <2>1, Update
<1>2. CASE MuxDone(t)
  <2>1. /\ schedule_lock.owner = None /\ choked' = choked /\ ScheduleUpdate(t)
        /\ queue' = TqReceiveFinish(queue, Arg(t)[1], Inputs(Arg(t)[1]))
    BY <1>2 DEF MuxDone
  <2>2. Thaws
    BY <1>a, <2>1, TqThaws
  <2> QED  BY <2>1, <2>2, Update
<1>3. CASE FilterReceiveFinish(t)
  <2>1. /\ schedule_lock.owner = None /\ choked' = choked /\ ScheduleUpdate(t)
        /\ queue' = TqReceiveFinish(queue, Arg(t)[1],
                        WithControl(Arg(t)[1], {Arg(t)[2]}, receive_finished'))
    BY <1>3 DEF FilterReceiveFinish
  <2>2. Thaws
    BY <1>a, <2>1, TqThaws
  <2> QED  BY <2>1, <2>2, Update
<1>4. CASE FilterSendFinished(t)
  <2>1. CASE Arg(t) \in send_finished
    <3>1. queue' = queue /\ UNCHANGED schedVars
      BY <1>4, <2>1 DEF FilterSendFinished
    <3> QED  BY <1>a, <3>1, Unlocking, SameChoked DEF schedVars
  <2>2. CASE Arg(t) \notin send_finished
    <3>1. /\ schedule_lock.owner = None /\ choked' = choked /\ ScheduleUpdate(t)
          /\ queue' = TqSendFinish(queue, Arg(t)[1],
                          WithControl(Arg(t)[1], {Arg(t)[2]}, send_finished'))
      BY <1>4, <2>2 DEF FilterSendFinished
    <3>2. Thaws
      BY <1>a, <3>1, TqThaws
    <3> QED  BY <3>1, <3>2, Update
  <2> QED  BY <2>1, <2>2
<1>5. CASE ScheduleApply(t)
  BY <1>5, Apply
<1> QED  BY <1>1, <1>2, <1>3, <1>4, <1>5 DEF LockStep

LEMMA SendSteps ==
    ASSUME IInv, NEW t \in Threads, SendStep(t)
    PROVE  UNCHANGED schedVars /\ Thaws
<1> USE DEF SendUnchanged
<1>a. Freezable(queue) /\ (queue' = queue => Thaws)
  BY ThawsNothing DEF IInv
<1>1. CASE SendToPreMux(t) \/ EncOpen(t) \/ EncOpenFails(t) \/ MuxStreamReady(t)
  BY <1>1, <1>a DEF SendToPreMux, EncOpen, EncOpenFails, MuxStreamReady
<1>2. CASE Send(t)
  <2>1. UNCHANGED schedVars
    BY <1>2 DEF Send
  <2>2. \/ queue' = queue \/ queue' = TqSendEOF(Arg(t))
        \/ queue' = TqWrite(Arg(t), Head(todo[t]).ts)
    BY <1>2 DEF Send
  <2> QED  BY <1>a, <2>1, <2>2, TqThaws
<1>3. CASE SendFinish(t)
  <2>1. UNCHANGED schedVars
    BY <1>3 DEF SendFinish
  <2>2. queue' = queue \/ queue' = TqSendFinish(queue, Arg(t)[1], {Arg(t)[2]})
    BY <1>3 DEF SendFinish
  <2> QED  BY <1>a, <2>1, <2>2, TqThaws
<1>4. CASE MuxTaskStart(t)
  <2>1. UNCHANGED schedVars
    BY <1>4 DEF MuxTaskStart
  <2>2. \/ queue' = queue
        \/ \E m, k, ts : \/ queue' = TqSendFinish(queue, m, {k[2]})
                         \/ queue' = TqSendEOF(k) \/ queue' = TqWrite(k, ts)
    BY <1>4 DEF MuxTaskStart
  <2> QED  BY <1>a, <2>1, <2>2, TqThaws
<1> QED  BY <1>1, <1>2, <1>3, <1>4 DEF SendStep

LEMMA LoopSteps ==
    ASSUME IInv, NEW t \in Threads, LoopStep(t)
    PROVE  UNCHANGED schedVars /\ Thaws
<1> USE DEF LoopUnchanged
<1>a. Freezable(queue) /\ (queue' = queue => Thaws)
  BY ThawsNothing DEF IInv
<1>1. CASE \/ WaiterWoken(t) \/ DemuxRead(t) \/ FilterEmit(t) \/ FilterEnd(t) \/ FilterAsk(t)
           \/ FilterWait(t)
  BY <1>1, <1>a DEF WaiterWoken, DemuxRead, FilterEmit, FilterEnd, FilterAsk, FilterWait
<1>2. CASE \/ DecReceive(t) \/ EncReceive(t) \/ MuxReceive(t) \/ FilterReceive(t)
           \/ TaskFails(t) \/ Discard(t)
  <2>1. UNCHANGED schedVars
    BY <1>2 DEF DecReceive, EncReceive, MuxReceive, FilterReceive, TaskFails, Discard
  <2>2. \/ queue' = queue \/ queue' = TqAfterItem(t) \/ queue' = TqAfterEOF(t) \/ TqDiscard(t)
    BY <1>2 DEF DecReceive, EncReceive, MuxReceive, FilterReceive, TaskFails, Discard
  <2> QED  BY <1>a, <2>1, <2>2, TqThaws
<1> QED  BY <1>1, <1>2 DEF LoopStep, FilterStep

LEMMA MainSteps ==
    ASSUME IInv, MainStep \/ UserStops
    PROVE  schedule_lock' = schedule_lock /\ Thaws /\ Chokes
<1> USE DEF MainUnchanged
<1>a. Freezable(queue) /\ (queue' = queue => Thaws) /\ (choked' = choked => Chokes)
  BY ThawsNothing, SameChoked DEF IInv
<1>1. CASE SchWaitDone \/ UserStops \/ TaskStop
  BY <1>1, <1>a DEF SchWaitDone, UserStops, TaskStop, schedVars
<1>2. CASE SchStop
  <2>1. schedule_lock' = schedule_lock
    BY <1>2 DEF SchStop
  <2>2. CASE UNCHANGED <<choked, queue>>
    BY <1>a, <2>1, <2>2
  <2>3. CASE choked' = [choked EXCEPT ![Arg(Main)[1]] = TRUE] /\ queue' = queue
    BY <1>a, <2>1, <2>3 DEF IInv, Chokes
  <2>4. CASE choked' = choked /\ queue' = ChokeDemux(Arg(Main)[1], FALSE)
    BY <1>a, <2>1, <2>4 DEF Thaws, Freezable, ChokeDemux
  <2> QED  BY <1>2, <2>2, <2>3, <2>4 DEF SchStop
<1> QED  BY <1>1, <1>2 DEF MainStep

LEMMA IInvStep == IInv /\ [Next]_vars => IInv'
<1> SUFFICES ASSUME IInv, [Next]_vars PROVE IInv'
  OBVIOUS
<1>a. Freezable(queue) /\ (queue' = queue => Thaws) /\ (choked' = choked => Chokes)
  BY ThawsNothing, SameChoked DEF IInv
<1>1. ASSUME NEW t \in Threads, ThreadStep(t) PROVE IInv'
  <2>1. CASE LockStep(t)
    BY <2>1, LockSteps
  <2>2. CASE SendStep(t) \/ LoopStep(t)
    BY <1>a, <2>2, SendSteps, LoopSteps, Unlocking DEF schedVars
  <2>3. CASE EndStep(t)
    <3>1. UNCHANGED schedVars
      BY <2>3 DEF EndStep, ReceiveClose, MuxCount, TaskFailed, LoopUnchanged
    <3>2. queue' = queue \/ queue' = TqReceiveFinish(queue, t, TqStreams(t))
      BY <2>3 DEF EndStep, ReceiveClose, MuxCount, TaskFailed
    <3>3. Thaws
      BY <1>a, <3>2, TqThaws
    <3> QED  BY <1>a, <3>1, <3>3, Unlocking DEF schedVars
  <2>4. CASE MainStep
    BY <2>4, MainSteps, Unlocking
  <2> QED  BY <1>1, <2>1, <2>2, <2>3, <2>4 DEF ThreadStep
<1>2. CASE UserStops
  BY <1>2, MainSteps, Unlocking
<1>3. CASE UNCHANGED vars
  BY <1>3, <1>a, Unlocking DEF vars, schedVars
<1> QED  BY <1>1, <1>2, <1>3 DEF Next

LEMMA InitIInv == Init => IInv
<1> SUFFICES ASSUME Init PROVE IInv
  OBVIOUS
<1>1. Freezable(queue)
  BY DEF Init, Freezable
<1>2. choked \in [Waiters -> BOOLEAN]
  BY DEF Init
<1>3. schedule_lock = Unlocked
  BY DEF Init
<1>4. LockOK
  BY <1>3 DEF LockOK, Unlocked
<1>5. \A q \in Consumers : ~ queue[q].choked
  BY DEF Init
<1>6. ASSUME NEW d \in Demux
      PROVE  Writes(schedule_lock.sets, d) /\ Together(schedule_lock.sets, d)
  BY <1>3, <1>5, FrozenByOne DEF Writes, Together, Unlocked
<1> QED  BY <1>1, <1>2, <1>4, <1>6 DEF IInv

(* Whatever the graph, and even while sch_stop() runs: when nobody is in   *)
(* schedule_update_locked(), the queues that choke_demux() has frozen are  *)
(* those of demuxers that wait in waiter_wait() or are about to.           *)
THEOREM FrozenBehindChoked == Spec => []FrozenOnlyIfChoked
<1>1. IInv => FrozenOnlyIfChoked
  BY DEF IInv, LockOK, Together, FrozenOnlyIfChoked
<1> QED  BY <1>1, InitIInv, IInvStep, PTL DEF Spec

-----------------------------------------------------------------------------
(* The types of the variables: what the threads have still to do.          *)

(* Induction up to m: a set with 0 and with the successors of its elements.*)
LEMMA UpTo ==
    ASSUME NEW m \in Nat, NEW T, 0 \in T, \A n \in 1 .. m : n - 1 \in T => n \in T
    PROVE  0 .. m \subseteq T
<1> DEFINE U == {n \in 0 .. m : n \notin T}
<1>1. ASSUME NEW x \in U, \A y \in U : x <= y PROVE FALSE
  <2>1. x \in 1 .. m OBVIOUS
  <2>2. x - 1 \in 0 .. m /\ ~(x <= x - 1) BY <2>1
  <2>3. x - 1 \in T BY <2>2, <1>1
  <2> QED BY <2>1, <2>3
<1>2. U = {}
  <2>1. U \subseteq Nat OBVIOUS
  <2> HIDE DEF U
  <2> QED BY <2>1, <1>1, LeastRank
<1> QED BY <1>2

-----------------------------------------------------------------------------
(* Keep: an element of s is kept if it is in S.                            *)
Kept(s, S, K, n) ==
    /\ K[0] = <<>>
    /\ \A j \in 1 .. n : K[j] = IF s[j] \in S THEN Append(K[j - 1], s[j]) ELSE K[j - 1]

LEMMA KeptExists ==
    ASSUME NEW A, NEW S, NEW m \in Nat, NEW s, \A j \in 1 .. m : s[j] \in A
    PROVE  \E K \in [0 .. m -> Seq(A)] : Kept(s, S, K, m)
<1> DEFINE T == {n \in 0 .. m : \E K \in [0 .. n -> Seq(A)] : Kept(s, S, K, n)}
<1>1. 0 \in T
  <2> DEFINE K == [n \in 0 .. 0 |-> <<>>]
  <2>1. <<>> \in Seq(A) OBVIOUS
  <2>2. K \in [0 .. 0 -> Seq(A)] /\ K[0] = <<>> BY <2>1
  <2>3. Kept(s, S, K, 0)
    <3> HIDE DEF K
    <3> QED BY <2>2 DEF Kept
  <2>4. \E L \in [0 .. 0 -> Seq(A)] : Kept(s, S, L, 0)
    <3> HIDE DEF K
    <3> QED BY <2>2, <2>3, Zenon
  <2>5. 0 \in 0 .. m OBVIOUS
  <2> QED BY <2>4, <2>5, Zenon
<1>2. ASSUME NEW n \in 1 .. m, n - 1 \in T PROVE n \in T
  <2>1. PICK K \in [0 .. n - 1 -> Seq(A)] : Kept(s, S, K, n - 1) BY <1>2
  <2>2. n - 1 \in 0 .. n - 1 /\ n \in 1 .. m /\ s[n] \in A BY <1>2
  <2>3. K[n - 1] \in Seq(A) BY <2>1, <2>2
  <2> DEFINE x == IF s[n] \in S THEN Append(K[n - 1], s[n]) ELSE K[n - 1]
             L == [j \in 0 .. n |-> IF j = n THEN x ELSE K[j]]
  <2>4. x \in Seq(A)
    <3>1. Append(K[n - 1], s[n]) \in Seq(A) BY <2>2, <2>3
    <3> QED BY <2>3, <3>1
  <2> HIDE DEF x
  <2>5. \A j \in 0 .. n : j # n => j \in 0 .. n - 1 BY <2>2
  <2>6. L \in [0 .. n -> Seq(A)] BY <2>1, <2>4, <2>5
  <2>7. L[n] = x /\ \A j \in 0 .. n - 1 : L[j] = K[j] BY <2>2
  <2>8. ASSUME NEW j \in 1 .. n
        PROVE  L[j] = IF s[j] \in S THEN Append(L[j - 1], s[j]) ELSE L[j - 1]
    <3> HIDE DEF L
    <3>1. j - 1 \in 0 .. n - 1 /\ L[j - 1] = K[j - 1] BY <2>7
    <3>2. CASE j = n BY <3>1, <3>2, <2>7 DEF x
    <3>3. CASE j # n
      <4>1. j \in 1 .. n - 1 /\ j \in 0 .. n - 1 BY <3>3
      <4>2. K[j] = IF s[j] \in S THEN Append(K[j - 1], s[j]) ELSE K[j - 1]
        BY <4>1, <2>1 DEF Kept
      <4> QED BY <3>1, <4>1, <4>2, <2>7
    <3> QED BY <3>2, <3>3
  <2>9. L[0] = <<>>
    <3>1. 0 \in 0 .. n - 1 BY <2>2
    <3> QED BY <3>1, <2>1, <2>7 DEF Kept
  <2>10. Kept(s, S, L, n)
    <3> HIDE DEF L
    <3> QED BY <2>8, <2>9 DEF Kept
  <2> QED BY <2>2, <2>6, <2>10
<1>3. 0 .. m \subseteq T
  <2> HIDE DEF T
  <2> QED BY <1>1, <1>2, UpTo
<1>4. m \in T BY <1>3
<1> QED BY <1>4

LEMMA KeepIsKept ==
    ASSUME NEW A, NEW S, NEW s \in Seq(A), NEW m \in Nat, m = Len(s)
    PROVE  \E K : Kept(s, S, K, m) /\ Keep(s, S) = K[m]
<1> DEFINE Is(K) == K = [n \in 0 .. m |-> IF n = 0 THEN <<>>
                           ELSE IF s[n] \in S THEN Append(K[n - 1], s[n]) ELSE K[n - 1]]
           R == CHOOSE K : Is(K)
<1>1. \A j \in 1 .. m : s[j] \in A OBVIOUS
<1>2. PICK K \in [0 .. m -> Seq(A)] : Kept(s, S, K, m) BY <1>1, KeptExists
<1>3. Is(K)
  <2>1. K[0] = <<>>
        /\ \A n \in 1 .. m : K[n] = IF s[n] \in S THEN Append(K[n - 1], s[n]) ELSE K[n - 1]
    BY <1>2 DEF Kept
  <2>2. \A n \in 0 .. m : n # 0 => n \in 1 .. m OBVIOUS
  <2>3. \A n \in 0 .. m : K[n] = IF n = 0 THEN <<>>
                           ELSE IF s[n] \in S THEN Append(K[n - 1], s[n]) ELSE K[n - 1]
    BY <2>1, <2>2, Zenon
  <2>4. K = [n \in 0 .. m |-> K[n]] BY Zenon
  <2> QED BY <2>3, <2>4, Zenon
<1>4. Is(R)
  <2> HIDE DEF Is
  <2> QED BY <1>3
<1>5. Keep(s, S) = R[m] BY DEF Keep
<1>6. Kept(s, S, R, m)
  <2> HIDE DEF R
  <2>1. \A n \in 0 .. m : R[n] = IF n = 0 THEN <<>>
                           ELSE IF s[n] \in S THEN Append(R[n - 1], s[n]) ELSE R[n - 1]
    BY <1>4, Zenon
  <2>2. 0 \in 0 .. m /\ \A n \in 1 .. m : n \in 0 .. m /\ n # 0 OBVIOUS
  <2> QED BY <2>1, <2>2, Zenon DEF Kept
<1> QED BY <1>5, <1>6

LEMMA KeepType ==
    ASSUME NEW A, NEW S, NEW s \in Seq(A)
    PROVE  Keep(s, S) \in Seq(A \cap S)
<1>1. PICK m \in Nat : m = Len(s) OBVIOUS
<1>2. PICK K : Kept(s, S, K, m) /\ Keep(s, S) = K[m] BY <1>1, KeepIsKept
<1>3. \A j \in 1 .. m : s[j] \in A BY <1>1
<1> DEFINE T == {n \in 0 .. m : K[n] \in Seq(A \cap S)}
<1>4. 0 \in T
  <2>1. <<>> \in Seq(A \cap S) /\ 0 \in 0 .. m OBVIOUS
  <2>2. K[0] = <<>> BY <1>2 DEF Kept
  <2> QED BY <2>1, <2>2, Zenon
<1>5. ASSUME NEW n \in 1 .. m, n - 1 \in T PROVE n \in T
  <2>1. K[n - 1] \in Seq(A \cap S) BY <1>5
  <2>2. s[n] \in S => Append(K[n - 1], s[n]) \in Seq(A \cap S) BY <1>3, <2>1
  <2>3. K[n] = IF s[n] \in S THEN Append(K[n - 1], s[n]) ELSE K[n - 1] BY <1>2 DEF Kept
  <2>4. K[n] \in Seq(A \cap S) BY <2>1, <2>2, <2>3
  <2> QED BY <2>4
<1>6. 0 .. m \subseteq T
  <2> HIDE DEF T
  <2> QED BY <1>4, <1>5, UpTo
<1>7. m \in T BY <1>6
<1> QED BY <1>2, <1>7

LEMMA KeepStays ==
    ASSUME NEW A, NEW S, NEW s \in Seq(A)
    PROVE  Keep(s, S) \in Seq(A)
<1>1. PICK r \in Seq(A \cap S) : r = Keep(s, S) BY KeepType
<1>2. r \in Seq(A) OBVIOUS
<1> QED BY <1>1, <1>2

LEMMA MapIsSeq ==
    ASSUME NEW A, NEW n \in Nat, NEW f \in [1 .. n -> A]
    PROVE  f \in Seq(A)
OBVIOUS

-----------------------------------------------------------------------------
(* FlattenSeq: the sequences one after the other.                          *)
Flat(ss, K, n) == \A j \in 1 .. n : K[j] = IF j = 1 THEN ss[j] ELSE K[j - 1] \o ss[j]

LEMMA FlatExists ==
    ASSUME NEW A, NEW m \in Nat, NEW ss, \A j \in 1 .. m : ss[j] \in Seq(A)
    PROVE  \E K \in [1 .. m -> Seq(A)] : Flat(ss, K, m)
<1> DEFINE T == {n \in 0 .. m : \E K \in [1 .. n -> Seq(A)] : Flat(ss, K, n)}
<1>1. 0 \in T
  <2> DEFINE K == [n \in 1 .. 0 |-> <<>>]
  <2>1. 1 .. 0 = {} OBVIOUS
  <2>2. K \in [1 .. 0 -> Seq(A)] BY <2>1
  <2>3. \E L \in [1 .. 0 -> Seq(A)] : Flat(ss, L, 0)
    <3> HIDE DEF K
    <3> QED BY <2>1, <2>2, Zenon DEF Flat
  <2>4. 0 \in 0 .. m OBVIOUS
  <2> QED BY <2>3, <2>4, Zenon
<1>2. ASSUME NEW n \in 1 .. m, n - 1 \in T PROVE n \in T
  <2>1. PICK K \in [1 .. n - 1 -> Seq(A)] : Flat(ss, K, n - 1) BY <1>2
  <2>2. n \in 1 .. m /\ ss[n] \in Seq(A) BY <1>2
  <2> DEFINE x == IF n = 1 THEN ss[n] ELSE K[n - 1] \o ss[n]
             L == [j \in 1 .. n |-> IF j = n THEN x ELSE K[j]]
  <2>3. x \in Seq(A)
    <3>1. CASE n = 1 BY <3>1, <2>2
    <3>2. CASE n # 1
      <4>1. n - 1 \in 1 .. n - 1 BY <2>2, <3>2
      <4>2. K[n - 1] \in Seq(A) BY <4>1, <2>1
      <4>3. K[n - 1] \o ss[n] \in Seq(A) BY <4>2, <2>2
      <4> QED BY <4>3, <3>2
    <3> QED BY <3>1, <3>2
  <2> HIDE DEF x
  <2>4. \A j \in 1 .. n : j # n => j \in 1 .. n - 1 BY <2>2
  <2>5. L \in [1 .. n -> Seq(A)] BY <2>1, <2>3, <2>4
  <2>6. L[n] = x /\ \A j \in 1 .. n - 1 : L[j] = K[j] BY <2>2
  <2>7. ASSUME NEW j \in 1 .. n PROVE L[j] = IF j = 1 THEN ss[j] ELSE L[j - 1] \o ss[j]
    <3> HIDE DEF L
    <3>1. j # 1 => j - 1 \in 1 .. n - 1 /\ L[j - 1] = K[j - 1] BY <2>6
    <3>2. CASE j = n BY <3>1, <3>2, <2>6 DEF x
    <3>3. CASE j # n
      <4>1. j \in 1 .. n - 1 BY <3>3
      <4>2. K[j] = IF j = 1 THEN ss[j] ELSE K[j - 1] \o ss[j] BY <4>1, <2>1 DEF Flat
      <4> QED BY <3>1, <4>1, <4>2, <2>6
    <3> QED BY <3>2, <3>3
  <2>8. Flat(ss, L, n)
    <3> HIDE DEF L
    <3> QED BY <2>7 DEF Flat
  <2> QED BY <2>2, <2>5, <2>8
<1>3. 0 .. m \subseteq T
  <2> HIDE DEF T
  <2> QED BY <1>1, <1>2, UpTo
<1>4. m \in T BY <1>3
<1> QED BY <1>4

LEMMA FlattenIsFlat ==
    ASSUME NEW A, NEW ss \in Seq(Seq(A)), NEW m \in Nat, m = Len(ss), m # 0
    PROVE  \E K : Flat(ss, K, m) /\ FlattenSeq(ss) = K[m]
<1> DEFINE Is(K) == K = [i \in 1 .. m |-> IF i = 1 THEN ss[i] ELSE K[i - 1] \o ss[i]]
           R == CHOOSE K : Is(K)
<1>1. \A j \in 1 .. m : ss[j] \in Seq(A) OBVIOUS
<1>2. PICK K \in [1 .. m -> Seq(A)] : Flat(ss, K, m) BY <1>1, FlatExists
<1>3. Is(K)
  <2>1. \A n \in 1 .. m : K[n] = IF n = 1 THEN ss[n] ELSE K[n - 1] \o ss[n] BY <1>2 DEF Flat
  <2>2. K = [n \in 1 .. m |-> K[n]] BY Zenon
  <2> QED BY <2>1, <2>2, Zenon
<1>4. Is(R)
  <2> HIDE DEF Is
  <2> QED BY <1>3
<1>5. FlattenSeq(ss) = R[m] BY DEF FlattenSeq
<1>6. Flat(ss, R, m)
  <2> HIDE DEF R
  <2>1. \A n \in 1 .. m : R[n] = IF n = 1 THEN ss[n] ELSE R[n - 1] \o ss[n] BY <1>4, Zenon
  <2> QED BY <2>1, Zenon DEF Flat
<1> QED BY <1>5, <1>6

LEMMA NoLength ==
    ASSUME NEW B, NEW s \in Seq(B), Len(s) = 0
    PROVE  s = <<>>
OBVIOUS

LEMMA FlattenType ==
    ASSUME NEW A, NEW ss \in Seq(Seq(A))
    PROVE  FlattenSeq(ss) \in Seq(A)
<1>1. PICK m \in Nat : m = Len(ss) OBVIOUS
<1>2. CASE m = 0
  <2>1. ss = <<>>
    <3>1. PICK B : B = Seq(A) OBVIOUS
    <3>2. ss \in Seq(B) /\ Len(ss) = 0 BY <3>1, <1>1, <1>2
    <3> QED BY <3>2, NoLength
  <2>2. FlattenSeq(ss) = ss BY <1>1, <1>2, Zenon DEF FlattenSeq
  <2>3. <<>> \in Seq(A) OBVIOUS
  <2> QED BY <2>1, <2>2, <2>3, Zenon
<1>3. CASE m # 0
  <2>1. PICK K : Flat(ss, K, m) /\ FlattenSeq(ss) = K[m] BY <1>1, <1>3, FlattenIsFlat
  <2>2. \A j \in 1 .. m : ss[j] \in Seq(A) BY <1>1
  <2> DEFINE T == {n \in 0 .. m : n # 0 => K[n] \in Seq(A)}
  <2>3. 0 \in T OBVIOUS
  <2>4. ASSUME NEW n \in 1 .. m, n - 1 \in T PROVE n \in T
    <3>1. K[n] = IF n = 1 THEN ss[n] ELSE K[n - 1] \o ss[n] BY <2>1 DEF Flat
    <3>2. n # 1 => K[n - 1] \in Seq(A) BY <2>4
    <3>3. n # 1 => K[n - 1] \o ss[n] \in Seq(A) BY <3>2, <2>2
    <3>4. K[n] \in Seq(A) BY <3>1, <3>3, <2>2
    <3> QED BY <3>4
  <2>5. 0 .. m \subseteq T
    <3> HIDE DEF T
    <3> QED BY <2>3, <2>4, UpTo
  <2>6. m \in T BY <2>5
  <2> QED BY <1>3, <2>1, <2>6
<1> QED BY <1>2, <1>3
-----------------------------------------------------------------------------
(* The graph.                                                              *)
LEMMA PortIs ==
    ASSUME NEW S, NEW k \in Ports(S)
    PROVE  k = <<k[1], k[2]>> /\ k[1] \in S /\ k[2] \in Inputs(k[1])
<1>1. PICK t \in S : k \in {<<t, i>> : i \in Inputs(t)} BY DEF Ports
<1>2. PICK i \in Inputs(t) : k = <<t, i>> BY <1>1
<1> QED BY <1>2

LEMMA IsPort ==
    ASSUME NEW S, NEW t \in S, NEW i \in Inputs(t)
    PROVE  <<t, i>> \in Ports(S)
BY DEF Ports

LEMMA PortsIn ==
    ASSUME NEW S, NEW T, S \subseteq T
    PROVE  Ports(S) \subseteq Ports(T)
BY DEF Ports

(* The ports that t feeds, if it feeds any.                                *)
Feeds(t) == {k \in Ports(Consumers) : t \in Producers /\ k \in Dsts(t)}

LEMMA FeedsAll ==
    ASSUME NEW t \in Producers
    PROVE  /\ AllDsts(t) \in Seq(Feeds(t))
           /\ \A o \in DOMAIN Outs[t] : Outs[t][o] \in Seq(Feeds(t)) /\ Outs[t][o] # <<>>
           /\ Dsts(t) = Feeds(t)
<1>1. Outs[t] \in Seq(Seq(Ports(Consumers)) \ {<<>>}) BY GraphAssumption
<1>2. \A o \in DOMAIN Outs[t] : Outs[t][o] \in Seq(Ports(Consumers)) \ {<<>>} BY <1>1
<1>3. ASSUME NEW o \in DOMAIN Outs[t] PROVE Outs[t][o] \in Seq(Feeds(t))
  <2>1. PICK s \in Seq(Ports(Consumers)) : s = Outs[t][o] BY <1>2
  <2>2. Range(s) \subseteq Dsts(t) BY <2>1 DEF Dsts
  <2>3. \A i \in DOMAIN s : s[i] \in Feeds(t) BY <2>2 DEF Feeds, Range
  <2>4. s \in Seq(Feeds(t)) BY <2>3
  <2> QED BY <2>1, <2>4
<1>4. PICK U : U = Outs[t] OBVIOUS
<1>5. PICK B : B = Seq(Feeds(t)) OBVIOUS
<1>6. U \in Seq(B)
  <2>1. U \in Seq(Seq(Ports(Consumers)) \ {<<>>}) BY <1>1, <1>4
  <2>2. \A i \in DOMAIN U : U[i] \in B BY <1>3, <1>4, <1>5
  <2> QED BY <2>1, <2>2
<1>7. FlattenSeq(Outs[t]) \in Seq(Feeds(t)) BY <1>4, <1>5, <1>6, FlattenType
<1>8. Dsts(t) \subseteq Ports(Consumers)
  <2> SUFFICES ASSUME NEW k \in Dsts(t) PROVE k \in Ports(Consumers) OBVIOUS
  <2>1. PICK o \in DOMAIN Outs[t] : k \in Range(Outs[t][o]) BY DEF Dsts
  <2>2. PICK i \in DOMAIN Outs[t][o] : k = Outs[t][o][i] BY <2>1 DEF Range
  <2>3. Outs[t][o] \in Seq(Ports(Consumers)) BY <1>2
  <2> QED BY <2>2, <2>3
<1> QED BY <1>2, <1>3, <1>7, <1>8 DEF AllDsts, Feeds

(* The source of a port.                                                   *)
LEMMA SrcFeeds ==
    ASSUME NEW k \in Ports(Consumers)
    PROVE  /\ Src(k) \in Producers /\ k \in Dsts(Src(k))
           /\ \A t \in Producers : k \in Dsts(t) => t = Src(k)
<1>1. PICK t \in Producers : {u \in Producers : k \in Dsts(u)} = {t} BY GraphAssumption
<1>2. Src(k) = CHOOSE u \in Producers : k \in Dsts(u) BY DEF Src, SrcOf
<1>3. \E u \in Producers : k \in Dsts(u) BY <1>1
<1>4. Src(k) \in Producers /\ k \in Dsts(Src(k)) BY <1>2, <1>3
<1> QED BY <1>1, <1>4

(* A task is of one kind.                                                  *)
LEMMA Kinds ==
    /\ \A t \in Muxers : t \notin Producers /\ t \notin Filter /\ t \notin Encoders /\ t \notin Waiters
    /\ \A t \in Encoders : t \notin Filter /\ t \notin Decoders /\ t \notin Demux
    /\ \A t \in Filter : t \notin Decoders /\ t \notin Demux
    /\ \A t \in Decoders : t \notin Demux
    /\ Main \notin Tasks
<1> DEFINE kinds == <<Demux, Decoders, Filter, Encoders, Muxers>>
<1>1. \A i, j \in 1 .. 5 : i # j => kinds[i] \cap kinds[j] = {} BY GraphAssumption
<1>2. /\ kinds[1] \cap kinds[2] = {} /\ kinds[1] \cap kinds[3] = {} /\ kinds[1] \cap kinds[4] = {}
      /\ kinds[1] \cap kinds[5] = {} /\ kinds[2] \cap kinds[3] = {} /\ kinds[2] \cap kinds[4] = {}
      /\ kinds[2] \cap kinds[5] = {} /\ kinds[3] \cap kinds[4] = {} /\ kinds[3] \cap kinds[5] = {}
      /\ kinds[4] \cap kinds[5] = {}
  <2>1. 1 \in 1 .. 5 /\ 2 \in 1 .. 5 /\ 3 \in 1 .. 5 /\ 4 \in 1 .. 5 /\ 5 \in 1 .. 5 OBVIOUS
  <2>2. 1 # 2 /\ 1 # 3 /\ 1 # 4 /\ 1 # 5 /\ 2 # 3 /\ 2 # 4 /\ 2 # 5 /\ 3 # 4 /\ 3 # 5 /\ 4 # 5 OBVIOUS
  <2> HIDE DEF kinds
  <2> QED BY <1>1, <2>1, <2>2, Zenon
<1>3. /\ Demux \cap Decoders = {} /\ Demux \cap Filter = {} /\ Demux \cap Encoders = {}
      /\ Demux \cap Muxers = {} /\ Decoders \cap Filter = {} /\ Decoders \cap Encoders = {}
      /\ Decoders \cap Muxers = {} /\ Filter \cap Encoders = {} /\ Filter \cap Muxers = {}
      /\ Encoders \cap Muxers = {}
  BY <1>2
<1>4. Main \notin Tasks BY SchedulerAssumption
<1> QED BY <1>3, <1>4 DEF Producers, Waiters

-----------------------------------------------------------------------------
(* The operations of thread t.  An encoder is opened by its own thread or  *)
(* by the one that sends to it.                                            *)
Opener(e) == IF OpensItself(e) THEN e ELSE Src(On(e))
Opens(t) == {On(e) : e \in {x \in Encoders : t = Opener(x)}}
Plain == {"schedule", "terminate", "join", "exit", "waiting", "emit", "receive",
          "receive_close", "task_exited", "task_failed"}
Ops(t) ==
    [op : {"send", "finish"}, k : Feeds(t), ts : Nat]
    \cup [op : {"last_dts"}, k : Feeds(t) \cap MuxStreams, ts : Nat]
    \cup [op : {"source_finished", "ready"}, k : MuxStreams, ts : Nat]
    \cup [op : {"open"}, k : Opens(t), ts : Nat]
    \cup [op : {"mux_done", "mux_count", "flush", "join_mux"}, k : {On(m) : m \in Muxers}, ts : Nat]
    \cup [op : {"receive_finished"}, k : Ports(Filter \cap {t}), ts : Nat]
    \cup [op : {"best_input"}, k : (Filter \cap {t}) \X (0 .. NbIn[t]), ts : Nat]
    \cup [op : {"stop_waiter"}, k : {On(w) : w \in Waiters}, ts : Nat]
    \cup [op : {"unfreeze"}, k : {On(d) : d \in Demux}, ts : Nat]
    \cup [op : Plain, k : {On(u) : u \in Threads}, ts : Nat]

LEMMA MakesOp ==
    ASSUME NEW t
    PROVE  /\ \A k \in Feeds(t), ts \in Nat :
                 Op("send", k, ts) \in Ops(t) /\ Op("finish", k, ts) \in Ops(t)
           /\ \A k \in Feeds(t) \cap MuxStreams, ts \in Nat : Op("last_dts", k, ts) \in Ops(t)
           /\ \A k \in MuxStreams, ts \in Nat :
                 Op("source_finished", k, ts) \in Ops(t) /\ Op("ready", k, ts) \in Ops(t)
           /\ \A k \in Opens(t) : Op("open", k, NOPTS) \in Ops(t)
           /\ \A m \in Muxers :
                 /\ Op("mux_done", On(m), NOPTS) \in Ops(t) /\ Op("mux_count", On(m), NOPTS) \in Ops(t)
                 /\ Op("flush", On(m), NOPTS) \in Ops(t) /\ Op("join_mux", On(m), NOPTS) \in Ops(t)
           /\ \A k \in Ports(Filter \cap {t}) : Op("receive_finished", k, NOPTS) \in Ops(t)
           /\ \A k \in (Filter \cap {t}) \X (0 .. NbIn[t]) : Op("best_input", k, NOPTS) \in Ops(t)
           /\ \A w \in Waiters : Op("stop_waiter", On(w), NOPTS) \in Ops(t)
           /\ \A d \in Demux : Op("unfreeze", On(d), NOPTS) \in Ops(t)
           /\ \A n \in Plain, u \in Threads : Op(n, On(u), NOPTS) \in Ops(t)
<1>1. NOPTS \in Nat BY DEF NOPTS
<1>2. \A k \in Feeds(t), ts \in Nat : Op("send", k, ts) \in Ops(t) /\ Op("finish", k, ts) \in Ops(t)
  BY DEF Ops, Op
<1>3. \A k \in MuxStreams, ts \in Nat :
          Op("source_finished", k, ts) \in Ops(t) /\ Op("ready", k, ts) \in Ops(t)
  BY DEF Ops, Op
<1>11. \A k \in Feeds(t) \cap MuxStreams, ts \in Nat : Op("last_dts", k, ts) \in Ops(t) BY DEF Ops, Op
<1>4. \A k \in Opens(t) : Op("open", k, NOPTS) \in Ops(t) BY <1>1 DEF Ops, Op
<1>5. \A m \in Muxers :
          /\ Op("mux_done", On(m), NOPTS) \in Ops(t) /\ Op("mux_count", On(m), NOPTS) \in Ops(t)
          /\ Op("flush", On(m), NOPTS) \in Ops(t) /\ Op("join_mux", On(m), NOPTS) \in Ops(t)
  BY <1>1 DEF Ops, Op
<1>6. \A k \in Ports(Filter \cap {t}) : Op("receive_finished", k, NOPTS) \in Ops(t)
  BY <1>1 DEF Ops, Op
<1>7. \A k \in (Filter \cap {t}) \X (0 .. NbIn[t]) : Op("best_input", k, NOPTS) \in Ops(t)
  BY <1>1 DEF Ops, Op
<1>8. \A w \in Waiters : Op("stop_waiter", On(w), NOPTS) \in Ops(t) BY <1>1 DEF Ops, Op
<1>9. \A d \in Demux : Op("unfreeze", On(d), NOPTS) \in Ops(t) BY <1>1 DEF Ops, Op
<1>10. \A n \in Plain, u \in Threads : Op(n, On(u), NOPTS) \in Ops(t) BY <1>1 DEF Ops, Op
<1> QED BY <1>2, <1>3, <1>4, <1>5, <1>6, <1>7, <1>8, <1>9, <1>10, <1>11

LEMMA OpIs ==
    ASSUME NEW t, NEW o \in Ops(t)
    PROVE  /\ o = Op(o.op, o.k, o.ts) /\ o.ts \in Nat
           /\ o.op \in {"send", "finish", "last_dts"} => o.k \in Feeds(t)
           /\ o.op \in {"last_dts", "source_finished", "ready"} => o.k \in MuxStreams
           /\ o.op = "open" => o.k \in Opens(t)
           /\ o.op \in {"mux_done", "mux_count", "flush", "join_mux"} => \E m \in Muxers : o.k = On(m)
           /\ o.op = "receive_finished" => o.k \in Ports(Filter \cap {t})
           /\ o.op = "best_input" => t \in Filter /\ o.k[2] \in 0 .. NbIn[t]
           /\ o.op = "stop_waiter" => \E w \in Waiters : o.k = On(w)
           /\ o.op = "unfreeze" => \E d \in Demux : o.k = On(d)
<1>1. o = Op(o.op, o.k, o.ts) /\ o.ts \in Nat
  BY DEF Ops, Op
<1>2. o.op \in {"send", "finish", "last_dts"} => o.k \in Feeds(t) BY DEF Ops, Plain
<1>3. o.op \in {"last_dts", "source_finished", "ready"} => o.k \in MuxStreams BY DEF Ops, Plain
<1>4. o.op = "open" => o.k \in Opens(t) BY DEF Ops, Plain
<1>5. o.op \in {"mux_done", "mux_count", "flush", "join_mux"} => \E m \in Muxers : o.k = On(m)
  BY DEF Ops, Plain
<1>6. o.op = "receive_finished" => o.k \in Ports(Filter \cap {t}) BY DEF Ops, Plain
<1>7. o.op = "best_input" => t \in Filter /\ o.k[2] \in 0 .. NbIn[t] BY DEF Ops, Plain
<1>8. o.op = "stop_waiter" => \E w \in Waiters : o.k = On(w) BY DEF Ops, Plain
<1>9. o.op = "unfreeze" => \E d \in Demux : o.k = On(d) BY DEF Ops, Plain
<1> QED BY <1>1, <1>2, <1>3, <1>4, <1>5, <1>6, <1>7, <1>8, <1>9

LEMMA MakesOps ==
    ASSUME NEW A, NEW P, NEW ports \in Seq(P), NEW name, NEW ts,
           \A k \in P : Op(name, k, ts) \in A
    PROVE  OpsFor(name, ports, ts) \in Seq(A)
<1>1. \A i \in DOMAIN ports : Op(name, ports[i], ts) \in A OBVIOUS
<1> HIDE DEF Op
<1>2. PICK n \in Nat : DOMAIN ports = 1 .. n OBVIOUS
<1>3. [i \in 1 .. n |-> Op(name, ports[i], ts)] \in Seq(A) BY <1>1, <1>2
<1> QED BY <1>2, <1>3 DEF OpsFor

LEMMA OneOp == ASSUME NEW A, NEW o \in A PROVE <<o>> \in Seq(A)
OBVIOUS

LEMMA NoOps == ASSUME NEW A PROVE <<>> \in Seq(A)
OBVIOUS

LEMMA MoreOps ==
    ASSUME NEW A, NEW s \in Seq(A), NEW r \in Seq(A)
    PROVE  s \o r \in Seq(A)
OBVIOUS

(* What a thread has to do at its end.                                     *)
LEMMA CleanupType ==
    ASSUME NEW t \in Tasks, NEW err, NEW dsts, t \notin Muxers => dsts \in Seq(Feeds(t))
    PROVE  CleanupOps(t, err, dsts) \in Seq(Ops(t))
<1>1. t \in Threads BY DEF Threads
<1>2. \A n \in Plain : <<Op(n, On(t), NOPTS)>> \in Seq(Ops(t)) BY <1>1, MakesOp, OneOp
<1>3. <<Op("receive_close", On(t), NOPTS)>> \in Seq(Ops(t)) BY <1>2 DEF Plain
<1>4. <<Op("task_exited", On(t), NOPTS)>> \in Seq(Ops(t)) BY <1>2 DEF Plain
<1>5. <<Op("task_failed", On(t), NOPTS)>> \in Seq(Ops(t)) BY <1>2 DEF Plain
<1>6. <<Op("exit", On(t), NOPTS)>> \in Seq(Ops(t)) BY <1>2 DEF Plain
<1>7. <<>> \in Seq(Ops(t)) BY NoOps
<1>8. t \in Muxers => <<Op("mux_done", On(t), NOPTS), Op("mux_count", On(t), NOPTS)>> \in Seq(Ops(t))
  <2> SUFFICES ASSUME t \in Muxers
               PROVE  <<Op("mux_done", On(t), NOPTS), Op("mux_count", On(t), NOPTS)>> \in Seq(Ops(t))
    OBVIOUS
  <2>1. PICK a \in Ops(t) : a = Op("mux_done", On(t), NOPTS) BY MakesOp
  <2>2. PICK b \in Ops(t) : b = Op("mux_count", On(t), NOPTS) BY MakesOp
  <2>3. <<a, b>> \in Seq(Ops(t)) OBVIOUS
  <2> QED BY <2>1, <2>2, <2>3
<1>9. t \notin Muxers => OpsFor("finish", dsts, NOPTS) \in Seq(Ops(t))
  <2>1. \A k \in Feeds(t) : Op("finish", k, NOPTS) \in Ops(t) BY MakesOp DEF NOPTS
  <2> QED BY <2>1, MakesOps
<1> DEFINE a == IF t \in Muxers
                  THEN <<Op("mux_done", On(t), NOPTS), Op("mux_count", On(t), NOPTS)>>
                  ELSE (IF Closed(t) THEN <<>> ELSE <<Op("receive_close", On(t), NOPTS)>>)
                       \o OpsFor("finish", dsts, NOPTS)
           b == IF t \in Waiters THEN <<Op("task_exited", On(t), NOPTS)>> ELSE <<>>
           c == IF err THEN <<Op("task_failed", On(t), NOPTS)>> ELSE <<>>
           e == <<Op("exit", On(t), NOPTS)>>
<1>10. a \in Seq(Ops(t))
  <2> DEFINE x == IF Closed(t) THEN <<>> ELSE <<Op("receive_close", On(t), NOPTS)>>
             y == OpsFor("finish", dsts, NOPTS)
  <2>1. x \in Seq(Ops(t)) BY <1>3, <1>7
  <2>2. t \notin Muxers => x \o y \in Seq(Ops(t))
    <3> HIDE DEF x, y
    <3> QED BY <2>1, <1>9, MoreOps DEF y
  <2> QED BY <2>2, <1>8
<1>11. b \in Seq(Ops(t)) /\ c \in Seq(Ops(t)) /\ e \in Seq(Ops(t)) BY <1>4, <1>5, <1>6, <1>7
<1>12. CleanupOps(t, err, dsts) = a \o b \o c \o e BY DEF CleanupOps
<1>13. a \o b \o c \o e \in Seq(Ops(t))
  <2> HIDE DEF a, b, c, e
  <2> QED BY <1>10, <1>11, MoreOps
<1> QED BY <1>12, <1>13

LEMMA FailType ==
    ASSUME NEW t \in Tasks
    PROVE  FailOps(t) \in Seq(Ops(t))
<1>1. t \notin Muxers => AllDsts(t) \in Seq(Feeds(t)) BY FeedsAll DEF Tasks
<1> QED BY <1>1, CleanupType DEF FailOps

LEMMA CloseOutputType ==
    ASSUME NEW f \in Filter, NEW open \in Seq(Feeds(f))
    PROVE  CloseOutputOps(f, open) \in Seq(Ops(f))
<1> DEFINE Dummy(k) == CASE nout[f] > 0                -> <<>>
                      [] k[1] \in Filter            -> <<Op("send", k, NOPTS)>>
                      [] k[1] \in Encoders \ opened -> <<Op("open", k, NOPTS)>>
                      [] OTHER                      -> <<>>
           both == [i \in DOMAIN open |-> Dummy(open[i]) \o <<Op("finish", open[i], NOPTS)>>]
<1>1. ASSUME NEW k \in Feeds(f) PROVE Dummy(k) \o <<Op("finish", k, NOPTS)>> \in Seq(Ops(f))
  <2>1. <<Op("finish", k, NOPTS)>> \in Seq(Ops(f)) BY MakesOp, OneOp DEF NOPTS
  <2>2. <<Op("send", k, NOPTS)>> \in Seq(Ops(f)) BY MakesOp, OneOp DEF NOPTS
  <2>3. k[1] \in Encoders => <<Op("open", k, NOPTS)>> \in Seq(Ops(f))
    <3> SUFFICES ASSUME k[1] \in Encoders PROVE <<Op("open", k, NOPTS)>> \in Seq(Ops(f)) OBVIOUS
    <3>1. k = <<k[1], k[2]>> /\ k[2] \in Inputs(k[1]) BY PortIs DEF Feeds
    <3>2. NbIn[k[1]] = 1 BY GraphAssumption
    <3>3. k = On(k[1]) BY <3>1, <3>2 DEF On, Inputs
    <3>4. k \in Ports(Consumers) /\ f \in Producers /\ k \in Dsts(f) BY DEF Feeds
    <3>5. Src(On(k[1])) = f BY <3>3, <3>4, SrcFeeds
    <3>6. f = Opener(k[1]) BY <3>5, Kinds DEF Opener, OpensItself
    <3>7. k \in Opens(f) BY <3>3, <3>6 DEF Opens
    <3> QED BY <3>7, MakesOp, OneOp
  <2>4. <<>> \in Seq(Ops(f)) BY NoOps
  <2>5. Dummy(k) \in Seq(Ops(f))
    <3>1. \/ Dummy(k) = <<>> \/ Dummy(k) = <<Op("send", k, NOPTS)>>
          \/ k[1] \in Encoders /\ Dummy(k) = <<Op("open", k, NOPTS)>>
      OBVIOUS
    <3> QED BY <2>2, <2>3, <2>4, <3>1
  <2> HIDE DEF Dummy
  <2> QED BY <2>1, <2>5, MoreOps
<1>2. PICK B : B = Seq(Ops(f)) OBVIOUS
<1>3. PICK n \in Nat : DOMAIN open = 1 .. n OBVIOUS
<1>4. \A i \in 1 .. n : open[i] \in Feeds(f) BY <1>3
<1>5. both \in Seq(B)
  <2>1. \A i \in 1 .. n : Dummy(open[i]) \o <<Op("finish", open[i], NOPTS)>> \in B BY <1>1, <1>2, <1>4
  <2> HIDE DEF Dummy, Op
  <2>2. [i \in 1 .. n |-> Dummy(open[i]) \o <<Op("finish", open[i], NOPTS)>>] \in Seq(B) BY <2>1
  <2> QED BY <1>3, <2>2
<1>6. FlattenSeq(both) \in Seq(Ops(f))
  <2> HIDE DEF both
  <2> QED BY <1>2, <1>5, FlattenType
<1>7. CloseOutputOps(f, open) = FlattenSeq(both) BY DEF CloseOutputOps
<1> QED BY <1>6, <1>7

LEMMA EndType ==
    ASSUME NEW t \in Tasks
    PROVE  EndOps(t) \in Seq(Ops(t))
<1> DEFINE open == Keep(AllDsts(t), Dsts(t) \ dst_finished)
<1>1. t \notin Muxers => open \in Seq(Feeds(t))
  <2> SUFFICES ASSUME t \notin Muxers PROVE open \in Seq(Feeds(t)) OBVIOUS
  <2>1. AllDsts(t) \in Seq(Feeds(t)) BY FeedsAll DEF Tasks
  <2>2. open \in Seq(Feeds(t) \cap (Dsts(t) \ dst_finished)) BY <2>1, KeepType
  <2> HIDE DEF open
  <2> QED BY <2>2
<1> HIDE DEF open
<1>2. CleanupOps(t, FALSE, open) \in Seq(Ops(t)) BY <1>1, CleanupType
<1>3. <<>> \in Seq(Feeds(t)) OBVIOUS
<1>4. CleanupOps(t, FALSE, <<>>) \in Seq(Ops(t)) BY <1>3, CleanupType
<1>5. t \in Filter => CloseOutputOps(t, open) \in Seq(Ops(t)) BY <1>1, CloseOutputType, Kinds
<1>6. EndOps(t) = IF t \in Filter /\ Configured(t)
                    THEN CloseOutputOps(t, open) \o CleanupOps(t, FALSE, <<>>)
                    ELSE CleanupOps(t, FALSE, open)
  BY DEF EndOps, open
<1>7. CASE t \in Filter /\ Configured(t)
  <2>1. CloseOutputOps(t, open) \o CleanupOps(t, FALSE, <<>>) \in Seq(Ops(t))
    BY <1>4, <1>5, <1>7, MoreOps
  <2> QED BY <1>6, <1>7, <2>1
<1>8. CASE ~(t \in Filter /\ Configured(t)) BY <1>2, <1>6, <1>8
<1> QED BY <1>7, <1>8

LEMMA ReadyType ==
    ASSUME NEW t, NEW e \in Encoders
    PROVE  ReadyOps(e) \in Seq(Ops(t))
<1>1. AllDsts(e) \in Seq(Feeds(e)) BY FeedsAll DEF Producers
<1>2. Keep(AllDsts(e), MuxStreams) \in Seq(Feeds(e) \cap MuxStreams) BY <1>1, KeepType
<1>3. \A k \in Feeds(e) \cap MuxStreams : Op("ready", k, NOPTS) \in Ops(t) BY MakesOp DEF NOPTS
<1>4. OpsFor("ready", Keep(AllDsts(e), MuxStreams), NOPTS) \in Seq(Ops(t)) BY <1>2, <1>3, MakesOps
<1> QED BY <1>4 DEF ReadyOps

LEMMA SendsType ==
    ASSUME NEW t, NEW ports \in Seq(Feeds(t)), NEW ts \in Nat
    PROVE  OpsFor("send", ports, ts) \in Seq(Ops(t))
<1>1. \A k \in Feeds(t) : Op("send", k, ts) \in Ops(t) BY MakesOp
<1> QED BY <1>1, MakesOps

LEMMA PlainType ==
    ASSUME NEW t \in Threads, NEW n \in Plain
    PROVE  <<Op(n, On(t), NOPTS)>> \in Seq(Ops(t))
BY MakesOp, OneOp

LEMMA WaitType ==
    ASSUME NEW t \in Threads
    PROVE  WaitOps(t) \in Seq(Ops(t))
<1>1. <<Op("waiting", On(t), NOPTS)>> \in Seq(Ops(t)) BY PlainType DEF Plain
<1> QED BY <1>1, NoOps DEF WaitOps

LEMMA MuxersInOrder == SetToSeq({On(m) : m \in Muxers}) \in Seq({On(m) : m \in Muxers})
<1> DEFINE S == {On(m) : m \in Muxers}
           f == [m \in Muxers |-> On(m)]
<1>1. IsFiniteSet(Muxers)
  <2>1. Muxers \in SUBSET Tasks /\ IsFiniteSet(Tasks) BY GraphAssumption DEF Tasks
  <2> QED BY <2>1, FS_Subset
<1>2. f \in Surjection(Muxers, S) BY DEF Surjection
<1>3. IsFiniteSet(S)
  <2> HIDE DEF f, S
  <2> QED BY <1>1, <1>2, FS_Surjection
<1> HIDE DEF S
<1>4. PICK n \in Nat : n = Cardinality(S) BY <1>3, FS_CardinalityType
<1>5. PICK g \in [1 .. n -> S] : IsInjective(g)
  <2>1. Bijection(1 .. n, S) # {} BY <1>3, <1>4, FS_CardinalityType DEF ExistsBijection
  <2> QED BY <2>1 DEF Bijection, Injection
<1>6. SetToSeq(S) \in [1 .. n -> S]
  <2>1. SetToSeq(S) = CHOOSE h \in [1 .. n -> S] : IsInjective(h) BY <1>4 DEF SetToSeq
  <2> QED BY <1>5, <2>1
<1>7. SetToSeq(S) \in Seq(S) BY <1>6
<1> QED BY <1>7 DEF S

(* What sch_stop() does.                                                   *)
Stops == {o \in Ops(Main) : o.op \in {"terminate", "stop_waiter", "unfreeze", "join", "join_mux", "exit"}}

LEMMA MakesStop ==
    /\ \A w \in Waiters : Op("stop_waiter", On(w), NOPTS) \in Stops
    /\ \A d \in Demux : Op("unfreeze", On(d), NOPTS) \in Stops
    /\ \A m \in Muxers : Op("join_mux", On(m), NOPTS) \in Stops
    /\ \A n \in {"terminate", "join", "exit"} : Op(n, On(Main), NOPTS) \in Stops
<1>1. \A n, k : Op(n, k, NOPTS).op = n BY DEF Op
<1>2. /\ \A w \in Waiters : Op("stop_waiter", On(w), NOPTS) \in Ops(Main)
      /\ \A d \in Demux : Op("unfreeze", On(d), NOPTS) \in Ops(Main)
      /\ \A m \in Muxers : Op("join_mux", On(m), NOPTS) \in Ops(Main)
  BY MakesOp
<1>3. \A n \in {"terminate", "join", "exit"} : Op(n, On(Main), NOPTS) \in Ops(Main)
  <2>1. Main \in Threads /\ {"terminate", "join", "exit"} \subseteq Plain BY DEF Threads, Plain
  <2> QED BY <2>1, MakesOp
<1> HIDE DEF Op
<1> QED BY <1>1, <1>2, <1>3 DEF Stops

LEMMA StopParts ==
    /\ [i \in DOMAIN Filters |-> Op("stop_waiter", On(Filters[i]), NOPTS)] \in Seq(Stops)
    /\ FlattenSeq([i \in DOMAIN Demuxers |->
          <<Op("stop_waiter", On(Demuxers[i]), NOPTS), Op("unfreeze", On(Demuxers[i]), NOPTS)>>])
       \in Seq(Stops)
    /\ OpsFor("join_mux", SetToSeq({On(m) : m \in Muxers}), NOPTS) \in Seq(Stops)
<1> DEFINE a == [i \in DOMAIN Filters |-> Op("stop_waiter", On(Filters[i]), NOPTS)]
           two(i) == <<Op("stop_waiter", On(Demuxers[i]), NOPTS), Op("unfreeze", On(Demuxers[i]), NOPTS)>>
           b == [i \in DOMAIN Demuxers |-> two(i)]
           c == OpsFor("join_mux", SetToSeq({On(m) : m \in Muxers}), NOPTS)
<1>1. a \in Seq(Stops)
  <2>1. PICK n \in Nat : DOMAIN Filters = 1 .. n BY GraphAssumption
  <2>2. \A i \in 1 .. n : Filters[i] \in Waiters BY <2>1 DEF Waiters, Filter, Range
  <2>3. \A i \in 1 .. n : Op("stop_waiter", On(Filters[i]), NOPTS) \in Stops BY <2>2, MakesStop
  <2> HIDE DEF Op, On
  <2>4. [i \in 1 .. n |-> Op("stop_waiter", On(Filters[i]), NOPTS)] \in Seq(Stops) BY <2>3
  <2> QED BY <2>1, <2>4
<1>2. FlattenSeq(b) \in Seq(Stops)
  <2>1. PICK n \in Nat : DOMAIN Demuxers = 1 .. n BY GraphAssumption
  <2>2. \A i \in 1 .. n : Demuxers[i] \in Waiters /\ Demuxers[i] \in Demux
    BY <2>1 DEF Waiters, Demux, Range
  <2>3. PICK B : B = Seq(Stops) OBVIOUS
  <2>4. ASSUME NEW i \in 1 .. n PROVE two(i) \in B
    <3>1. PICK x \in Stops : x = Op("stop_waiter", On(Demuxers[i]), NOPTS) BY <2>2, MakesStop
    <3>2. PICK y \in Stops : y = Op("unfreeze", On(Demuxers[i]), NOPTS) BY <2>2, MakesStop
    <3>3. <<x, y>> \in Seq(Stops) OBVIOUS
    <3> QED BY <2>3, <3>1, <3>2, <3>3
  <2>5. b \in Seq(B)
    <3> HIDE DEF two
    <3>1. [i \in 1 .. n |-> two(i)] \in Seq(B) BY <2>4
    <3> QED BY <2>1, <3>1
  <2> HIDE DEF b
  <2> QED BY <2>3, <2>5, FlattenType
<1>3. c \in Seq(Stops)
  <2>1. SetToSeq({On(m) : m \in Muxers}) \in Seq({On(m) : m \in Muxers}) BY MuxersInOrder
  <2>2. \A k \in {On(m) : m \in Muxers} : Op("join_mux", k, NOPTS) \in Stops BY MakesStop
  <2> QED BY <2>1, <2>2, MakesOps
<1> QED BY <1>1, <1>2, <1>3

LEMMA StopType == StopOps \in Seq(Stops) /\ StopOps \in Seq(Ops(Main))
<1> DEFINE a == [i \in DOMAIN Filters |-> Op("stop_waiter", On(Filters[i]), NOPTS)]
           two(i) == <<Op("stop_waiter", On(Demuxers[i]), NOPTS), Op("unfreeze", On(Demuxers[i]), NOPTS)>>
           b == [i \in DOMAIN Demuxers |-> two(i)]
           c == OpsFor("join_mux", SetToSeq({On(m) : m \in Muxers}), NOPTS)
<1>1. a \in Seq(Stops) /\ FlattenSeq(b) \in Seq(Stops) /\ c \in Seq(Stops) BY StopParts
<1>4. /\ <<Op("terminate", On(Main), NOPTS)>> \in Seq(Stops)
      /\ <<Op("join", On(Main), NOPTS)>> \in Seq(Stops)
      /\ <<Op("exit", On(Main), NOPTS)>> \in Seq(Stops)
  <2> QED BY MakesStop, OneOp
<1> DEFINE p == <<Op("terminate", On(Main), NOPTS)>>
           q == <<Op("join", On(Main), NOPTS)>>
           r == <<Op("exit", On(Main), NOPTS)>>
           d == FlattenSeq(b)
<1>5. StopOps = p \o a \o d \o q \o c \o r BY DEF StopOps
<1>6. p \o a \o d \o q \o c \o r \in Seq(Stops)
  <2> HIDE DEF a, c, d, p, q, r
  <2> QED BY <1>1, <1>4, MoreOps DEF d, p, q, r
<1>7. StopOps \in Seq(Stops) BY <1>5, <1>6
<1>8. StopOps \in Seq(Ops(Main))
  <2>1. PICK s \in Seq(Stops) : s = StopOps BY <1>7
  <2>2. \A i \in DOMAIN s : s[i] \in Ops(Main) BY DEF Stops
  <2> QED BY <2>1, <2>2
<1> QED BY <1>7, <1>8

-----------------------------------------------------------------------------
(* The ThreadQueues.                                                       *)
Queues(t) ==
    {q \in [fifo : Seq(Inputs(t) \X Nat), choked : BOOLEAN,
            send : SUBSET TqStreams(t), recv : SUBSET TqStreams(t)] : Len(q.fifo) <= QueueSize}
QueueOK == DOMAIN queue = Consumers /\ \A t \in Consumers : queue[t] \in Queues(t)

LEMMA Least ==
    ASSUME NEW T, T \subseteq Nat, T # {}
    PROVE  Min(T) \in T /\ \A y \in T : Min(T) <= y
<1>1. PICK x \in T : \A y \in T : x <= y BY LeastRank
<1> QED BY <1>1 DEF Min

LEMMA Streams ==
    ASSUME NEW t \in Consumers
    PROVE  NbIn[t] \in Nat /\ Inputs(t) \subseteq TqStreams(t) /\ TqStreams(t) \subseteq Nat
<1>1. NbIn[t] \in Nat BY GraphAssumption
<1>2. TqStreams(t) = 0 .. NbIn[t] \/ TqStreams(t) = Inputs(t) BY DEF TqStreams
<1> QED BY <1>1, <1>2 DEF Inputs

LEMMA QueueOne ==
    ASSUME QueueOK, NEW t, NEW r, queue' = [queue EXCEPT ![t] = r],
           t \in Consumers => r \in Queues(t)
    PROVE  QueueOK'
BY DEF QueueOK

LEMMA QueueWrite ==
    ASSUME QueueOK, NEW k \in Ports(Consumers), NEW ts \in Nat, TqCanWrite(k), queue' = TqWrite(k, ts)
    PROVE  QueueOK'
<1>1. k[1] \in Consumers /\ k[2] \in Inputs(k[1]) BY PortIs
<1>2. PICK q \in Queues(k[1]) : q = queue[k[1]] BY <1>1 DEF QueueOK
<1>3. PICK s \in Seq(Inputs(k[1]) \X Nat) : s = q.fifo BY DEF Queues
<1>4. Len(s) < QueueSize BY <1>2, <1>3 DEF TqCanWrite
<1>5. Append(s, <<k[2], ts>>) \in Seq(Inputs(k[1]) \X Nat) /\ Len(Append(s, <<k[2], ts>>)) <= QueueSize
  BY <1>1, <1>4, SchedulerAssumption
<1>6. PICK r : r = Append(s, <<k[2], ts>>) OBVIOUS
<1>7. [q EXCEPT !.fifo = r] \in Queues(k[1]) BY <1>5, <1>6 DEF Queues
<1>8. queue' = [queue EXCEPT ![k[1]] = [q EXCEPT !.fifo = r]]
  BY <1>2, <1>3, <1>6 DEF TqWrite
<1> QED BY <1>7, <1>8, QueueOne

LEMMA QueueSends ==
    ASSUME QueueOK, NEW t, NEW S, t \in Consumers => S \subseteq TqStreams(t),
           \/ queue' = TqSendFinish(queue, t, S) \/ queue' = TqReceiveFinish(queue, t, S)
           \/ queue' = [queue EXCEPT ![t].send = @ \cup S]
    PROVE  QueueOK'
<1> DEFINE q == queue[t]
<1>1. t \in Consumers =>
        /\ [q EXCEPT !.send = @ \cup S] \in Queues(t) /\ [q EXCEPT !.recv = @ \cup S] \in Queues(t)
        /\ [[q EXCEPT !.send = @ \cup S] EXCEPT !.choked = FALSE] \in Queues(t)
  <2> SUFFICES ASSUME t \in Consumers
               PROVE  /\ [q EXCEPT !.send = @ \cup S] \in Queues(t)
                      /\ [q EXCEPT !.recv = @ \cup S] \in Queues(t)
                      /\ [[q EXCEPT !.send = @ \cup S] EXCEPT !.choked = FALSE] \in Queues(t)
    OBVIOUS
  <2>1. q \in Queues(t) BY DEF QueueOK
  <2> HIDE DEF q
  <2> QED BY <2>1 DEF Queues
<1>2. CASE queue' = TqSendFinish(queue, t, S)
  <2>1. queue' = [queue EXCEPT ![t] = [[queue[t] EXCEPT !.send = @ \cup S] EXCEPT !.choked = FALSE]]
    BY <1>2 DEF TqSendFinish, QueueOK
  <2> QED BY <1>1, <2>1, QueueOne
<1>3. CASE queue' = TqReceiveFinish(queue, t, S)
  <2>1. queue' = [queue EXCEPT ![t] = [queue[t] EXCEPT !.recv = @ \cup S]]
    BY <1>3 DEF TqReceiveFinish
  <2> QED BY <1>1, <2>1, QueueOne
<1>4. CASE queue' = [queue EXCEPT ![t].send = @ \cup S]
  <2>1. queue' = [queue EXCEPT ![t] = [queue[t] EXCEPT !.send = @ \cup S]] BY <1>4
  <2> QED BY <1>1, <2>1, QueueOne
<1> QED BY <1>2, <1>3, <1>4

LEMMA RestIsShorter ==
    ASSUME NEW A, NEW s \in Seq(A), NEW j \in DOMAIN s
    PROVE  SubSeq(s, j + 1, Len(s)) \in Seq(A) /\ Len(SubSeq(s, j + 1, Len(s))) <= Len(s)
<1>1. PICK n \in Nat : n = Len(s) OBVIOUS
<1>2. j \in 1 .. n BY <1>1
<1>3. SubSeq(s, j + 1, n) \in Seq(A) BY <1>1, <1>2
<1>4. CASE j = n
  <2>1. SubSeq(s, j + 1, n) = <<>> BY <1>1, <1>2, <1>4
  <2> QED BY <1>1, <1>3, <2>1
<1>5. CASE j # n
  <2>1. j + 1 \in 1 .. n BY <1>2, <1>5
  <2>2. Len(SubSeq(s, j + 1, n)) = n - j BY <1>1, <1>2, <2>1
  <2> QED BY <1>1, <1>2, <1>3, <2>2
<1> QED BY <1>4, <1>5

(* The item or the EOF that the consumer gets, if there is one.            *)
LEMMA QueueItem ==
    ASSUME QueueOK, NEW t \in Consumers, TqWanted(t) # {}
    PROVE  /\ TqItem(t)[1] \in Inputs(t) /\ TqItem(t)[2] \in Nat /\ TqItem(t) = <<TqItem(t)[1], TqItem(t)[2]>>
           /\ queue' = TqAfterItem(t) => QueueOK'
<1>1. PICK q \in Queues(t) : q = queue[t] BY DEF QueueOK
<1>2. PICK s \in Seq(Inputs(t) \X Nat) : s = q.fifo BY DEF Queues
<1>3. PICK j : j = Min(TqWanted(t)) OBVIOUS
<1>4. j \in DOMAIN s
  <2>1. TqWanted(t) \subseteq DOMAIN s BY <1>1, <1>2 DEF TqWanted
  <2>2. TqWanted(t) \subseteq Nat BY <2>1
  <2> QED BY <1>3, <2>1, <2>2, Least
<1>5. TqItem(t) = s[j] BY <1>1, <1>2, <1>3 DEF TqItem
<1>6. s[j] \in Inputs(t) \X Nat BY <1>4
<1>7. PICK n \in Nat : n = Len(s) /\ DOMAIN s = 1 .. n OBVIOUS
<1>8. SubSeq(s, j + 1, n) \in Seq(Inputs(t) \X Nat) /\ Len(SubSeq(s, j + 1, n)) <= n
  BY <1>4, <1>7, RestIsShorter
<1>9. Len(SubSeq(s, j + 1, n)) <= QueueSize
  <2>1. n <= QueueSize BY <1>1, <1>2, <1>7 DEF Queues
  <2>2. PICK l \in Nat : l = Len(SubSeq(s, j + 1, n)) BY <1>8
  <2> QED BY <2>1, <2>2, <1>8, SchedulerAssumption
<1>10. PICK r : r = SubSeq(s, j + 1, n) OBVIOUS
<1>11. [q EXCEPT !.fifo = r] \in Queues(t) BY <1>8, <1>9, <1>10 DEF Queues
<1>12. TqAfterItem(t) = [queue EXCEPT ![t] = [q EXCEPT !.fifo = r]]
  BY <1>1, <1>2, <1>3, <1>7, <1>10 DEF TqAfterItem
<1> QED BY <1>5, <1>6, <1>11, <1>12, QueueOne

LEMMA QueueEOF ==
    ASSUME QueueOK, NEW t \in Consumers, TqEofPending(t) # {}
    PROVE  /\ Min(TqEofPending(t)) \in TqEofPending(t) /\ TqEofPending(t) \subseteq TqStreams(t)
           /\ queue' = TqAfterEOF(t) => QueueOK'
<1>1. PICK q \in Queues(t) : q = queue[t] BY DEF QueueOK
<1>2. TqEofPending(t) \subseteq TqStreams(t) BY <1>1 DEF TqEofPending, Queues
<1>3. TqEofPending(t) \subseteq Nat BY <1>2, Streams
<1>4. Min(TqEofPending(t)) \in TqEofPending(t) BY <1>3, Least
<1>5. PICK S \in SUBSET TqStreams(t) : S = {Min(TqEofPending(t))} BY <1>2, <1>4
<1>6. [[q EXCEPT !.fifo = <<>>] EXCEPT !.recv = @ \cup S] \in Queues(t)
  <2>1. <<>> \in Seq(Inputs(t) \X Nat) /\ Len(<<>>) = 0 OBVIOUS
  <2>2. 0 <= QueueSize BY SchedulerAssumption
  <2> QED BY <2>1, <2>2 DEF Queues
<1>7. TqAfterEOF(t) = [queue EXCEPT ![t] = [[q EXCEPT !.fifo = <<>>] EXCEPT !.recv = @ \cup S]]
  BY <1>1, <1>5 DEF TqAfterEOF, QueueOK
<1> QED BY <1>2, <1>4, <1>6, <1>7, QueueOne

LEMMA QueueDrop ==
    ASSUME QueueOK, NEW t \in Consumers, TqDiscard(t)
    PROVE  QueueOK'
<1>1. PICK q \in Queues(t) : q = queue[t] BY DEF QueueOK
<1>2. [q EXCEPT !.fifo = <<>>] \in Queues(t)
  <2>1. <<>> \in Seq(Inputs(t) \X Nat) /\ Len(<<>>) = 0 OBVIOUS
  <2>2. 0 <= QueueSize BY SchedulerAssumption
  <2> QED BY <2>1, <2>2 DEF Queues
<1>3. queue' = [queue EXCEPT ![t] = [q EXCEPT !.fifo = <<>>]] BY <1>1 DEF TqDiscard
<1> QED BY <1>2, <1>3, QueueOne

LEMMA QueueChoke ==
    ASSUME QueueOK, NEW d, NEW v \in BOOLEAN, queue' = ChokeDemux(d, v)
    PROVE  QueueOK'
<1>1. \A q \in Consumers : [queue[q] EXCEPT !.choked = v] \in Queues(q) BY DEF QueueOK, Queues
<1>2. DOMAIN queue' = Consumers BY DEF ChokeDemux
<1>3. \A q \in Consumers : queue'[q] = IF q \in FrozenWith(d) THEN [queue[q] EXCEPT !.choked = v]
                                       ELSE queue[q]
  BY DEF ChokeDemux
<1>4. \A q \in Consumers : queue'[q] \in Queues(q) BY <1>1, <1>3, Zenon DEF QueueOK
<1> QED BY <1>2, <1>4 DEF QueueOK

-----------------------------------------------------------------------------
(* The types of all variables.                                             *)
TodoOK == DOMAIN todo = Threads /\ \A t \in Threads : todo[t] \in Seq(Ops(t))

DataOK ==
    /\ DOMAIN nread = Demux /\ \A d \in Demux : nread[d] \in [DOMAIN Outs[d] -> Nat]
    /\ nout \in [Filter -> Nat]
    /\ pre_mux_queue \in [MuxStreams -> Seq(Nat)]

FlagsOK ==
    /\ running \subseteq Threads
    /\ last_dts \in [MuxStreams -> Nat]
    /\ source_finished \subseteq MuxStreams /\ init_eof \subseteq MuxStreams
    /\ send_finished \subseteq Ports(Filter) /\ receive_finished \subseteq Ports(Filter)
    /\ eof_in \subseteq Ports(Filter)
    /\ dst_finished \subseteq Ports(Consumers)
    /\ DOMAIN best_input = Filter /\ \A f \in Filter : best_input[f] \in 0 .. NbIn[f]
    /\ schedule_lock.owner \in Threads \cup {None}
    /\ mux_ready_lock \in Threads \cup {None}
    /\ nb_streams_ready \in [Muxers -> Nat]
    /\ opened \subseteq Encoders

Typed == TodoOK /\ QueueOK /\ DataOK /\ FlagsOK

(* Who holds schedule_lock is at an operation that took it; a muxer whose  *)
(* streams are not all ready has no thread, and nothing to do.             *)
Locks(o) ==
    \/ o.op \in {"schedule", "last_dts", "source_finished", "mux_done", "receive_finished",
                 "best_input", "task_exited"}
    \/ o.op = "finish" /\ o.k[1] \in Filter

AtLock(t) == todo[t] # <<>> /\ Locks(Head(todo[t]))
LockHead == schedule_lock.owner # None => AtLock(schedule_lock.owner)

MuxIdle ==
    \A m \in Muxers : /\ nb_streams_ready[m] < NbIn[m] => m \notin running
                      /\ m \notin running => todo[m] = <<>>

TypeInv == Typed /\ LockHead /\ MuxIdle

LEMMA HeadType ==
    ASSUME TodoOK, NEW t \in Threads, NEW n, Next1(t, n)
    PROVE  /\ todo[t] # <<>> /\ Tail(todo[t]) \in Seq(Ops(t))
           /\ Head(todo[t]) \in Ops(t) /\ Head(todo[t]).op = n /\ Arg(t) = Head(todo[t]).k
<1>1. PICK s \in Seq(Ops(t)) : s = todo[t] BY DEF TodoOK
<1>2. s # <<>> /\ Head(s).op = n BY <1>1 DEF Next1
<1>3. Head(s) \in Ops(t) /\ Tail(s) \in Seq(Ops(t)) BY <1>2
<1> QED BY <1>1, <1>2, <1>3 DEF Arg

LEMMA HeadArg ==
    ASSUME TodoOK, NEW t \in Threads, NEW n, Next1(t, n)
    PROVE  /\ Head(todo[t]) = Op(n, Arg(t), Head(todo[t]).ts) /\ Head(todo[t]).ts \in Nat
           /\ n \in {"send", "finish", "last_dts"} => Arg(t) \in Feeds(t)
           /\ n \in {"last_dts", "source_finished", "ready"} => Arg(t) \in MuxStreams
           /\ n = "open" => Arg(t) \in Opens(t)
           /\ n \in {"mux_done", "mux_count", "flush", "join_mux"} => \E m \in Muxers : Arg(t) = On(m)
           /\ n = "receive_finished" => Arg(t) \in Ports(Filter \cap {t})
           /\ n = "best_input" => t \in Filter /\ Arg(t)[2] \in 0 .. NbIn[t]
           /\ n = "stop_waiter" => \E w \in Waiters : Arg(t) = On(w)
           /\ n = "unfreeze" => \E d \in Demux : Arg(t) = On(d)
<1>1. PICK o \in Ops(t) : o = Head(todo[t]) /\ o.op = n /\ Arg(t) = o.k BY HeadType
<1> QED BY <1>1, OpIs

LEMMA RestartType ==
    ASSUME TodoOK, NEW t \in Threads, NEW ops \in Seq(Ops(t)), Restart(t, ops)
    PROVE  TodoOK'
BY DEF TodoOK, Restart

LEMMA ReplaceType ==
    ASSUME TodoOK, NEW t \in Threads, NEW n, Next1(t, n), NEW ops \in Seq(Ops(t)), Replace(t, ops)
    PROVE  TodoOK'
<1>1. PICK r \in Seq(Ops(t)) : r = Tail(todo[t]) BY HeadType
<1>2. ops \o r \in Seq(Ops(t)) BY MoreOps
<1>3. todo' = [todo EXCEPT ![t] = ops \o r] BY <1>1 DEF Replace
<1> QED BY <1>2, <1>3 DEF TodoOK

LEMMA PopType ==
    ASSUME TodoOK, NEW t \in Threads, NEW n, Next1(t, n), Pop(t)
    PROVE  TodoOK'
<1>1. <<>> \in Seq(Ops(t)) BY NoOps
<1> QED BY <1>1, ReplaceType DEF Pop

LEMMA SameTodo == TodoOK /\ todo' = todo => TodoOK'
BY DEF TodoOK

LEMMA SameQueue == QueueOK /\ queue' = queue => QueueOK'
BY DEF QueueOK

LEMMA SameData == DataOK /\ nread' = nread /\ nout' = nout /\ pre_mux_queue' = pre_mux_queue => DataOK'
BY DEF DataOK

LEMMA UpdateType ==
    ASSUME TodoOK, FlagsOK, NEW t \in Threads, NEW n, Next1(t, n), ScheduleUpdate(t)
    PROVE  TodoOK' /\ schedule_lock'.owner \in Threads \cup {None}
<1>1. Pop(t) \/ todo' = todo BY DEF ScheduleUpdate
<1>2. schedule_lock' = schedule_lock \/ schedule_lock'.owner = t BY DEF ScheduleUpdate
<1>3. TodoOK' BY <1>1, PopType, SameTodo
<1> QED BY <1>2, <1>3 DEF FlagsOK

LEMMA LockTypes ==
    ASSUME IInv, TypeInv, NEW t \in Threads, LockStep(t)
    PROVE  Typed'
<1> USE DEF Locking, TypeInv, Typed
<1>1. CASE ScheduleFirst(t)
  <2>1. Next1(t, "schedule") /\ ScheduleUpdate(t) BY <1>1 DEF ScheduleFirst
  <2>2. TodoOK' /\ schedule_lock'.owner \in Threads \cup {None} BY <2>1, UpdateType
  <2>3. QueueOK' /\ DataOK'
    BY <1>1, SameQueue, SameData DEF ScheduleFirst, SchedUnchanged, codecVars, muxVars
  <2>4. FlagsOK' BY <1>1, <2>2 DEF ScheduleFirst, SchedUnchanged, muxVars, codecVars, FlagsOK
  <2> QED BY <2>2, <2>3, <2>4
<1>2. CASE SetLastDts(t)
  <2>1. Next1(t, "last_dts") /\ ScheduleUpdate(t) BY <1>2 DEF SetLastDts
  <2>2. TodoOK' /\ schedule_lock'.owner \in Threads \cup {None} BY <2>1, UpdateType
  <2>3. QueueOK' /\ DataOK'
    BY <1>2, SameQueue, SameData DEF SetLastDts, SchedUnchanged, codecVars, muxVars
  <2>4. Arg(t) \in MuxStreams /\ Head(todo[t]).ts \in Nat BY <2>1, HeadArg
  <2>5. last_dts' \in [MuxStreams -> Nat] BY <1>2, <2>4 DEF SetLastDts, FlagsOK
  <2>6. FlagsOK' BY <1>2, <2>2, <2>5 DEF SetLastDts, SchedUnchanged, muxVars, codecVars, FlagsOK
  <2> QED BY <2>2, <2>3, <2>6
<1>3. CASE SourceFinished(t)
  <2>1. Next1(t, "source_finished") /\ ScheduleUpdate(t) BY <1>3 DEF SourceFinished
  <2>2. TodoOK' /\ schedule_lock'.owner \in Threads \cup {None} BY <2>1, UpdateType
  <2>3. QueueOK' /\ DataOK'
    BY <1>3, SameQueue, SameData DEF SourceFinished, SchedUnchanged, codecVars, muxVars
  <2>4. Arg(t) \in MuxStreams BY <2>1, HeadArg
  <2>5. source_finished' \subseteq MuxStreams BY <1>3, <2>4 DEF SourceFinished, FlagsOK
  <2>6. FlagsOK' BY <1>3, <2>2, <2>5 DEF SourceFinished, SchedUnchanged, muxVars, codecVars, FlagsOK
  <2> QED BY <2>2, <2>3, <2>6
<1>4. CASE MuxDone(t)
  <2>1. Next1(t, "mux_done") /\ ScheduleUpdate(t) BY <1>4 DEF MuxDone
  <2>2. TodoOK' /\ schedule_lock'.owner \in Threads \cup {None} BY <2>1, UpdateType
  <2>3. PICK m \in Muxers : Arg(t) = On(m) BY <2>1, HeadArg
  <2>4. Arg(t)[1] = m BY <2>3 DEF On
  <2>5. QueueOK'
    <3>1. queue' = TqReceiveFinish(queue, m, Inputs(m)) BY <1>4, <2>4 DEF MuxDone
    <3>2. Inputs(m) \subseteq TqStreams(m) BY Streams DEF Consumers
    <3> QED BY <3>1, <3>2, QueueSends
  <2>6. DataOK' BY <1>4, SameData DEF MuxDone, SchedUnchanged, codecVars, muxVars
  <2>7. source_finished' \subseteq MuxStreams
    <3>1. Ports({m}) \subseteq MuxStreams BY PortsIn DEF MuxStreams
    <3> QED BY <1>4, <2>4, <3>1 DEF MuxDone, FlagsOK
  <2>8. FlagsOK' BY <1>4, <2>2, <2>7 DEF MuxDone, SchedUnchanged, muxVars, codecVars, FlagsOK
  <2> QED BY <2>2, <2>5, <2>6, <2>8
<1>5. CASE FilterSendFinished(t)
  <2>1. Next1(t, "finish") BY <1>5 DEF FilterSendFinished
  <2>2. Arg(t) \in Feeds(t) BY <2>1, HeadArg
  <2>3. PICK k \in Ports(Consumers) : k = Arg(t) BY <2>2 DEF Feeds
  <2>4. k[1] \in Filter /\ k[2] \in Inputs(k[1]) /\ k = <<k[1], k[2]>>
    BY <1>5, <2>3, PortIs DEF FilterSendFinished
  <2>5. k[1] \in Consumers BY <2>4 DEF Consumers
  <2>6. k \in Ports(Filter) BY <2>4, IsPort
  <2>7. DataOK' BY <1>5, SameData DEF FilterSendFinished, codecVars, muxVars
  <2>8. CASE k \in send_finished
    <3>1. Pop(t) /\ queue' = queue /\ UNCHANGED schedVars BY <1>5, <2>3, <2>8 DEF FilterSendFinished
    <3>2. TodoOK' BY <2>1, <3>1, PopType
    <3>3. FlagsOK'
      BY <1>5, <2>3, <3>1 DEF FilterSendFinished, FlagsOK, muxVars, codecVars, schedVars
    <3> QED BY <2>7, <3>1, <3>2, <3>3, SameQueue
  <2>9. CASE k \notin send_finished
    <3>1. /\ ScheduleUpdate(t) /\ send_finished' = send_finished \cup {k}
          /\ queue' = TqSendFinish(queue, k[1], WithControl(k[1], {k[2]}, send_finished'))
      BY <1>5, <2>3, <2>9 DEF FilterSendFinished
    <3>2. TodoOK' /\ schedule_lock'.owner \in Threads \cup {None} BY <2>1, <3>1, UpdateType
    <3>3. QueueOK'
      <4>1. WithControl(k[1], {k[2]}, send_finished') \subseteq TqStreams(k[1])
        BY <2>4, <2>5, Streams DEF WithControl, TqStreams
      <4> QED BY <3>1, <4>1, QueueSends
    <3>4. send_finished' \subseteq Ports(Filter) BY <2>6, <3>1 DEF FlagsOK
    <3>5. dst_finished' \subseteq Ports(Consumers) BY <1>5, <2>3 DEF FilterSendFinished, FlagsOK
    <3>6. FlagsOK'
      BY <1>5, <2>3, <2>9, <3>2, <3>4, <3>5 DEF FilterSendFinished, FlagsOK, muxVars, codecVars
    <3> QED BY <2>7, <3>2, <3>3, <3>6
  <2> QED BY <2>8, <2>9
<1>6. CASE FilterReceiveFinish(t)
  <2>1. Next1(t, "receive_finished") /\ ScheduleUpdate(t) BY <1>6 DEF FilterReceiveFinish
  <2>2. TodoOK' /\ schedule_lock'.owner \in Threads \cup {None} BY <2>1, UpdateType
  <2>3. PICK k : k = Arg(t) /\ k \in Ports(Filter \cap {t}) BY <2>1, HeadArg
  <2>4. k[1] \in Filter /\ k[2] \in Inputs(k[1]) /\ k = <<k[1], k[2]>> BY <2>3, PortIs
  <2>5. k[1] \in Consumers /\ k \in Ports(Filter) BY <2>4, IsPort DEF Consumers
  <2>6. DataOK' BY <1>6, SameData DEF FilterReceiveFinish, SchedUnchanged, codecVars, muxVars
  <2>7. QueueOK'
    <3>1. WithControl(k[1], {k[2]}, receive_finished') \subseteq TqStreams(k[1])
      BY <2>4, <2>5, Streams DEF WithControl, TqStreams
    <3>2. queue' = TqReceiveFinish(queue, k[1], WithControl(k[1], {k[2]}, receive_finished'))
      BY <1>6, <2>3 DEF FilterReceiveFinish
    <3> QED BY <3>1, <3>2, QueueSends
  <2>8. receive_finished' \subseteq Ports(Filter) BY <1>6, <2>3, <2>5 DEF FilterReceiveFinish, FlagsOK
  <2>9. FlagsOK'
    BY <1>6, <2>2, <2>8 DEF FilterReceiveFinish, SchedUnchanged, muxVars, codecVars, FlagsOK
  <2> QED BY <2>2, <2>6, <2>7, <2>9
<1>7. CASE SetBestInput(t)
  <2>1. Next1(t, "best_input") /\ ScheduleUpdate(t) BY <1>7 DEF SetBestInput
  <2>2. TodoOK' /\ schedule_lock'.owner \in Threads \cup {None} BY <2>1, UpdateType
  <2>3. QueueOK' /\ DataOK'
    BY <1>7, SameQueue, SameData DEF SetBestInput, SchedUnchanged, codecVars, muxVars
  <2>4. t \in Filter /\ Arg(t)[2] \in 0 .. NbIn[t] BY <2>1, HeadArg
  <2>5. DOMAIN best_input' = Filter /\ \A f \in Filter : best_input'[f] \in 0 .. NbIn[f]
    BY <1>7, <2>4 DEF SetBestInput, FlagsOK
  <2>6. FlagsOK' BY <1>7, <2>2, <2>5 DEF SetBestInput, SchedUnchanged, muxVars, codecVars, FlagsOK
  <2> QED BY <2>2, <2>3, <2>6
<1>8. CASE TaskExited(t)
  <2>1. Next1(t, "task_exited") /\ ScheduleUpdate(t) BY <1>8 DEF TaskExited
  <2>2. TodoOK' /\ schedule_lock'.owner \in Threads \cup {None} BY <2>1, UpdateType
  <2>3. QueueOK' /\ DataOK'
    BY <1>8, SameQueue, SameData DEF TaskExited, SchedUnchanged, codecVars, muxVars
  <2>4. FlagsOK' BY <1>8, <2>2 DEF TaskExited, SchedUnchanged, muxVars, codecVars, FlagsOK
  <2> QED BY <2>2, <2>3, <2>4
<1>9. CASE ScheduleApply(t)
  <2>1. PICK u : u = NextUpdate(schedule_lock.sets) OBVIOUS
  <2>2. u \in AllWrites
    <3>1. t # None BY SchedulerAssumption DEF Threads, Main, None
    <3>2. schedule_lock.sets \in SUBSET AllWrites /\ schedule_lock.sets # {}
      BY <1>9, <3>1 DEF ScheduleApply, IInv, LockOK
    <3> QED BY <2>1, <3>2, NextUpdateIsFirst
  <2>3. queue' = queue \/ (u[1] = "freeze" /\ queue' = ChokeDemux(u[2], u[3]))
    BY <1>9, <2>1 DEF ScheduleApply
  <2>4. QueueOK'
    <3>1. u[3] \in BOOLEAN BY <2>2 DEF AllWrites
    <3> QED BY <2>3, <3>1, QueueChoke, SameQueue
  <2>5. Pop(t) \/ todo' = todo BY <1>9 DEF ScheduleApply
  <2>6. TodoOK'
    <3>1. t # None BY SchedulerAssumption DEF Threads, Main, None
    <3>2. todo[t] # <<>> BY <1>9, <3>1 DEF ScheduleApply, LockHead, AtLock
    <3>3. Next1(t, Head(todo[t]).op) BY <3>2 DEF Next1
    <3> QED BY <2>5, <3>3, PopType, SameTodo
  <2>7. DataOK' BY <1>9, SameData DEF ScheduleApply, codecVars, muxVars
  <2>8. schedule_lock'.owner \in Threads \cup {None}
    BY <1>9 DEF ScheduleApply, Unlocked, IInv, LockOK, FlagsOK
  <2>9. FlagsOK' BY <1>9, <2>8 DEF ScheduleApply, muxVars, codecVars, FlagsOK
  <2> QED BY <2>4, <2>6, <2>7, <2>9
<1> QED BY <1>1, <1>2, <1>3, <1>4, <1>5, <1>6, <1>7, <1>8, <1>9 DEF LockStep

LEMMA OpensIs ==
    ASSUME NEW t, NEW k \in Opens(t)
    PROVE  k[1] \in Encoders /\ k = On(k[1]) /\ t = Opener(k[1]) /\ t \in Producers
<1>1. PICK e \in Encoders : k = On(e) /\ t = Opener(e) BY DEF Opens
<1>2. k[1] = e BY <1>1 DEF On
<1>3. On(e) \in Ports(Consumers)
  <2>1. e \in Consumers /\ 0 \in Inputs(e) BY GraphAssumption DEF Consumers, Inputs
  <2> QED BY <2>1, IsPort DEF On
<1>4. t \in Producers BY <1>1, <1>3, SrcFeeds DEF Opener, Producers
<1> QED BY <1>1, <1>2, <1>4

(* The stream that is flushed next.                                        *)
LEMMA FlushNextIs ==
    ASSUME DataOK, NEW m \in Muxers, ~ (\A i \in Inputs(m) : pre_mux_queue[<<m, i>>] = <<>>)
    PROVE  /\ FlushNext(m) = <<m, FlushNext(m)[2]>> /\ FlushNext(m)[2] \in Inputs(m)
           /\ FlushNext(m) \in MuxStreams /\ pre_mux_queue[FlushNext(m)] # <<>>
           /\ Head(pre_mux_queue[FlushNext(m)]) \in Nat
<1> DEFINE ne == {i \in Inputs(m) : pre_mux_queue[<<m, i>>] # <<>>}
           ts(i) == Head(pre_mux_queue[<<m, i>>])
           first == {i \in ne : \A j \in ne : ts(i) <= ts(j)}
<1>1. m \in Consumers BY DEF Consumers
<1>2. \A i \in Inputs(m) : <<m, i>> \in MuxStreams BY IsPort DEF MuxStreams
<1>3. \A i \in ne : ts(i) \in Nat
  <2> SUFFICES ASSUME NEW i \in ne PROVE ts(i) \in Nat OBVIOUS
  <2>1. PICK q \in Seq(Nat) : q = pre_mux_queue[<<m, i>>] BY <1>2 DEF DataOK
  <2>2. Head(q) \in Nat BY <2>1
  <2> QED BY <2>1, <2>2
<1>4. ne # {} OBVIOUS
<1>5. first # {}
  <2> DEFINE T == {ts(i) : i \in ne}
  <2>1. T \subseteq Nat /\ T # {} BY <1>3, <1>4
  <2>2. PICK x \in T : \A y \in T : x <= y BY <2>1, LeastRank
  <2>3. PICK i \in ne : x = ts(i) BY <2>2
  <2>4. \A j \in ne : ts(j) \in T OBVIOUS
  <2>5. \A j \in ne : ts(i) <= ts(j) BY <2>2, <2>3, <2>4
  <2> QED BY <2>5
<1>6. ne \subseteq Inputs(m) /\ first \subseteq ne OBVIOUS
<1>7. first \subseteq Nat BY <1>1, <1>6, Streams
<1>8. PICK i \in first : FlushNext(m) = <<m, i>>
  <2>1. FlushNext(m) = <<m, Min(first)>> BY DEF FlushNext
  <2>2. Min(first) \in first
    <3> HIDE DEF first
    <3> QED BY <1>5, <1>7, Least
  <2> QED BY <2>1, <2>2
<1>9. i \in ne /\ i \in Inputs(m) /\ pre_mux_queue[<<m, i>>] # <<>> OBVIOUS
<1> HIDE DEF first
<1> QED BY <1>2, <1>3, <1>8, <1>9

LEMMA SendTypes ==
    ASSUME TypeInv, NEW t \in Threads, SendStep(t)
    PROVE  Typed'
<1> USE DEF TypeInv, Typed
<1>a. MuxStreams \subseteq Ports(Consumers)
  BY PortsIn DEF MuxStreams, Consumers
<1>1. CASE SendToPreMux(t)
  <2>1. Next1(t, "send") BY <1>1 DEF SendToPreMux
  <2>2. PICK k : k = Arg(t) /\ k \in Feeds(t) BY <2>1, HeadArg
  <2>3. k[1] \in Muxers BY <1>1, <2>2 DEF SendToPreMux, QueuesForMux, MuxHeld
  <2>4. k \in MuxStreams
    <3>1. k \in Ports(Consumers) BY <2>2 DEF Feeds
    <3>2. k = <<k[1], k[2]>> /\ k[2] \in Inputs(k[1]) BY <3>1, PortIs
    <3> QED BY <2>3, <3>2, IsPort DEF MuxStreams
  <2>5. PICK ts \in Nat : ts = Head(todo[t]).ts BY <2>1, HeadArg
  <2>6. TodoOK'
    <3>1. <<Op("last_dts", k, ts)>> \in Seq(Ops(t)) BY <2>2, <2>4, MakesOp, OneOp
    <3>2. Replace(t, <<Op("last_dts", k, ts)>>) BY <1>1, <2>2, <2>5 DEF SendToPreMux
    <3> QED BY <2>1, <3>1, <3>2, ReplaceType
  <2>7. QueueOK' BY <1>1, SameQueue DEF SendToPreMux
  <2>8. DataOK'
    <3>1. pre_mux_queue' = [pre_mux_queue EXCEPT ![k] = Append(@, ts)]
      BY <1>1, <2>2, <2>5 DEF SendToPreMux
    <3>2. PICK q \in Seq(Nat) : q = pre_mux_queue[k] BY <2>4 DEF DataOK
    <3>3. Append(q, ts) \in Seq(Nat) OBVIOUS
    <3>4. pre_mux_queue' \in [MuxStreams -> Seq(Nat)] BY <3>1, <3>2, <3>3 DEF DataOK
    <3> QED BY <1>1, <3>4 DEF SendToPreMux, SendUnchanged, codecVars, DataOK
  <2>9. FlagsOK' BY <1>1 DEF SendToPreMux, SendUnchanged, codecVars, schedVars, FlagsOK
  <2> QED BY <2>6, <2>7, <2>8, <2>9
<1>2. CASE Send(t)
  <2>1. Next1(t, "send") BY <1>2 DEF Send
  <2>2. PICK k : k = Arg(t) /\ k \in Feeds(t) BY <2>1, HeadArg
  <2>3. PICK ts \in Nat : ts = Head(todo[t]).ts BY <2>1, HeadArg
  <2>4. k \in Ports(Consumers) BY <2>2 DEF Feeds
  <2>5. k[1] \in Consumers /\ k[2] \in Inputs(k[1]) /\ k = <<k[1], k[2]>> BY <2>4, PortIs
  <2>6. TodoOK'
    <3>1. <<>> \in Seq(Ops(t)) BY NoOps
    <3>2. Finish(k) \in Seq(Ops(t)) BY <2>2, MakesOp, OneOp DEF Finish, NOPTS
    <3>3. k[1] \in Muxers => <<Op("last_dts", k, ts)>> \in Seq(Ops(t))
      <4>1. k[1] \in Muxers => k \in MuxStreams BY <2>5, IsPort DEF MuxStreams
      <4> QED BY <2>2, <4>1, MakesOp, OneOp
    <3>4. PICK r : r = IF k[1] \in Muxers THEN <<Op("last_dts", k, ts)>> ELSE <<>> OBVIOUS
    <3>5. r \in Seq(Ops(t)) BY <3>1, <3>3, <3>4
    <3>6. Pop(t) \/ Replace(t, Finish(k)) \/ Replace(t, r)
      BY <1>2, <2>2, <2>3, <3>4 DEF Send
    <3> QED BY <2>1, <3>2, <3>5, <3>6, ReplaceType, PopType
  <2>7. QueueOK'
    <3>1. \/ queue' = queue \/ queue' = TqSendEOF(k)
          \/ TqCanWrite(k) /\ queue' = TqWrite(k, ts)
      BY <1>2, <2>2, <2>3 DEF Send
    <3>2. ASSUME queue' = TqSendEOF(k) PROVE QueueOK'
      <4>1. queue' = [queue EXCEPT ![k[1]].send = @ \cup {k[2]}] BY <3>2 DEF TqSendEOF
      <4>2. {k[2]} \subseteq TqStreams(k[1]) BY <2>5, Streams
      <4> QED BY <4>1, <4>2, QueueSends
    <3> QED BY <2>4, <3>1, <3>2, QueueWrite, SameQueue
  <2>8. DataOK' BY <1>2, SameData DEF Send, SendUnchanged, codecVars, muxVars
  <2>9. FlagsOK' BY <1>2 DEF Send, SendUnchanged, codecVars, schedVars, muxVars, FlagsOK
  <2> QED BY <2>6, <2>7, <2>8, <2>9
<1>3. CASE SendFinish(t)
  <2>1. Next1(t, "finish") BY <1>3 DEF SendFinish
  <2>2. PICK k : k = Arg(t) /\ k \in Feeds(t) BY <2>1, HeadArg
  <2>3. k \in Ports(Consumers) BY <2>2 DEF Feeds
  <2>4. k[1] \in Consumers /\ k[2] \in Inputs(k[1]) /\ k = <<k[1], k[2]>> BY <2>3, PortIs
  <2>5. k[1] \in Muxers => k \in MuxStreams BY <2>4, IsPort DEF MuxStreams
  <2>6. TodoOK'
    <3>1. <<>> \in Seq(Ops(t)) BY NoOps
    <3>2. k[1] \in Muxers => <<Op("source_finished", k, NOPTS)>> \in Seq(Ops(t))
      BY <2>5, MakesOp, OneOp DEF NOPTS
    <3>3. PICK r : r = IF k[1] \in Muxers THEN <<Op("source_finished", k, NOPTS)>> ELSE <<>> OBVIOUS
    <3>4. r \in Seq(Ops(t)) BY <3>1, <3>2, <3>3
    <3>5. Pop(t) \/ Replace(t, r) BY <1>3, <2>2, <3>3 DEF SendFinish
    <3> QED BY <2>1, <3>4, <3>5, ReplaceType, PopType
  <2>7. QueueOK'
    <3>1. queue' = queue \/ queue' = TqSendFinish(queue, k[1], {k[2]}) BY <1>3, <2>2 DEF SendFinish
    <3>2. {k[2]} \subseteq TqStreams(k[1]) BY <2>4, Streams
    <3> QED BY <3>1, <3>2, QueueSends, SameQueue
  <2>8. DataOK'
    <3>1. \/ pre_mux_queue' = pre_mux_queue
          \/ k[1] \in Muxers /\ pre_mux_queue' = [pre_mux_queue EXCEPT ![k] = Append(@, NOPTS)]
      BY <1>3, <2>2 DEF SendFinish, MuxHeld
    <3>2. ASSUME k[1] \in Muxers, pre_mux_queue' = [pre_mux_queue EXCEPT ![k] = Append(@, NOPTS)]
          PROVE  pre_mux_queue' \in [MuxStreams -> Seq(Nat)]
      <4>1. PICK q \in Seq(Nat) : q = pre_mux_queue[k] BY <2>5, <3>2 DEF DataOK
      <4>2. Append(q, NOPTS) \in Seq(Nat) BY DEF NOPTS
      <4> QED BY <2>5, <3>2, <4>1, <4>2 DEF DataOK
    <3>3. pre_mux_queue' \in [MuxStreams -> Seq(Nat)] BY <3>1, <3>2 DEF DataOK
    <3> QED BY <1>3, <3>3 DEF SendFinish, SendUnchanged, codecVars, DataOK
  <2>9. FlagsOK'
    <3>1. dst_finished' \subseteq Ports(Consumers) BY <1>3, <2>2, <2>3 DEF SendFinish, FlagsOK
    <3> QED BY <1>3, <3>1 DEF SendFinish, SendUnchanged, codecVars, schedVars, FlagsOK
  <2> QED BY <2>6, <2>7, <2>8, <2>9
<1>4. CASE EncOpen(t)
  <2>1. Arg(t)[1] \in Encoders
    <3>1. ASSUME Next1(t, "open") PROVE Arg(t)[1] \in Encoders
      <4>1. Arg(t) \in Opens(t) BY <3>1, HeadArg
      <4> QED BY <4>1, OpensIs
    <3> QED BY <1>4, <3>1 DEF EncOpen, OpensBySending, OpensEncoder
  <2>2. ReadyOps(Arg(t)[1]) \in Seq(Ops(t)) BY <2>1, ReadyType
  <2>3. TodoOK'
    <3>1. CASE Next1(t, "open") /\ Replace(t, ReadyOps(Arg(t)[1])) BY <2>2, <3>1, ReplaceType
    <3>2. CASE Next1(t, "send") /\ Replace(t, ReadyOps(Arg(t)[1]) \o AfterOpening(t))
      <4>1. AfterOpening(t) \in Seq(Ops(t)) BY <3>2, HeadType, OneOp DEF AfterOpening
      <4>2. ReadyOps(Arg(t)[1]) \o AfterOpening(t) \in Seq(Ops(t)) BY <2>2, <4>1, MoreOps
      <4> QED BY <3>2, <4>2, ReplaceType
    <3> QED BY <1>4, <3>1, <3>2 DEF EncOpen, OpensBySending
  <2>4. QueueOK' /\ DataOK' BY <1>4, SameQueue, SameData DEF EncOpen, muxVars, codecVars
  <2>5. FlagsOK' BY <1>4, <2>1 DEF EncOpen, muxVars, codecVars, schedVars, FlagsOK
  <2> QED BY <2>3, <2>4, <2>5
<1>5. CASE EncOpenFails(t)
  <2>1. t \in Tasks
    <3>1. ASSUME Next1(t, "open") PROVE t \in Producers
      <4>1. Arg(t) \in Opens(t) BY <3>1, HeadArg
      <4> QED BY <4>1, OpensIs
    <3>2. ASSUME Next1(t, "send") PROVE t \in Producers
      <4>1. Arg(t) \in Feeds(t) BY <3>2, HeadArg
      <4> QED BY <4>1 DEF Feeds
    <3> QED BY <1>5, <3>1, <3>2 DEF EncOpenFails, OpensBySending, Tasks
  <2>2. TodoOK' BY <1>5, <2>1, FailType, RestartType DEF EncOpenFails
  <2>3. QueueOK' /\ DataOK' BY <1>5, SameQueue, SameData DEF EncOpenFails, muxVars, codecVars
  <2>4. FlagsOK' BY <1>5 DEF EncOpenFails, muxVars, codecVars, schedVars, FlagsOK
  <2> QED BY <2>2, <2>3, <2>4
<1>6. CASE MuxStreamReady(t)
  <2>1. Next1(t, "ready") BY <1>6 DEF MuxStreamReady
  <2>2. Arg(t) \in MuxStreams BY <2>1, HeadArg
  <2>3. PICK m \in Muxers : m = Arg(t)[1] BY <2>2, PortIs DEF MuxStreams
  <2>4. m \in Threads /\ m \in Tasks BY DEF Threads, Tasks
  <2>5. TodoOK'
    <3>1. ASSUME NEW first \in MuxThreadInit(m),
                 todo' = [todo EXCEPT ![t] = <<Op("flush", On(m), NOPTS)>> \o Tail(@), ![m] = first]
          PROVE  TodoOK'
      <4>1. first \in Seq(Ops(m))
        <5>1. first = <<>> \/ first = FailOps(m) BY DEF MuxThreadInit
        <5> QED BY <2>4, <5>1, NoOps, FailType
      <4>2. <<Op("flush", On(m), NOPTS)>> \in Seq(Ops(t)) BY MakesOp, OneOp
      <4>3. PICK a \in Seq(Ops(t)) : a = <<Op("flush", On(m), NOPTS)>> \o Tail(todo[t])
        BY <2>1, <4>2, HeadType, MoreOps
      <4>4. todo' = [todo EXCEPT ![t] = a, ![m] = first] BY <3>1, <4>3 DEF TodoOK
      <4> QED BY <4>1, <4>4 DEF TodoOK
    <3>2. \/ Pop(t)
          \/ \E first \in MuxThreadInit(m) :
                todo' = [todo EXCEPT ![t] = <<Op("flush", On(m), NOPTS)>> \o Tail(@), ![m] = first]
      BY <1>6, <2>3 DEF MuxStreamReady
    <3> QED BY <2>1, <3>1, <3>2, PopType
  <2>6. QueueOK' /\ DataOK' BY <1>6, SameQueue, SameData DEF MuxStreamReady, codecVars
  <2>7. FlagsOK'
    <3>1. running' \subseteq Threads /\ mux_ready_lock' \in Threads \cup {None}
      BY <1>6, <2>3, <2>4 DEF MuxStreamReady, FlagsOK
    <3>2. nb_streams_ready' \in [Muxers -> Nat] BY <1>6, <2>3 DEF MuxStreamReady, FlagsOK
    <3> QED BY <1>6, <3>1, <3>2 DEF MuxStreamReady, codecVars, schedVars, FlagsOK
  <2> QED BY <2>5, <2>6, <2>7
<1>7. CASE MuxTaskStart(t)
  <2>1. Next1(t, "flush") BY <1>7 DEF MuxTaskStart
  <2>2. PICK m \in Muxers : Arg(t) = On(m) BY <2>1, HeadArg
  <2>3. Arg(t)[1] = m BY <2>2 DEF On
  <2>4. CASE \A i \in Inputs(m) : pre_mux_queue[<<m, i>>] = <<>>
    <3>1. /\ Pop(t) /\ UNCHANGED <<queue, pre_mux_queue, init_eof>> /\ mux_ready_lock' = None
      BY <1>7, <2>3, <2>4 DEF MuxTaskStart
    <3>2. TodoOK' BY <2>1, <3>1, PopType
    <3>3. QueueOK' /\ DataOK' BY <1>7, <3>1, SameQueue, SameData DEF MuxTaskStart, codecVars
    <3>4. FlagsOK' BY <1>7, <3>1 DEF MuxTaskStart, codecVars, schedVars, FlagsOK
    <3> QED BY <3>2, <3>3, <3>4
  <2>5. CASE ~ (\A i \in Inputs(m) : pre_mux_queue[<<m, i>>] = <<>>)
    <3>1. PICK k \in MuxStreams : /\ k = FlushNext(m) /\ k = <<m, k[2]>> /\ k[2] \in Inputs(m)
                                  /\ pre_mux_queue[k] # <<>> /\ Head(pre_mux_queue[k]) \in Nat
      BY <2>5, FlushNextIs
    <3>2. PICK ts \in Nat : ts = Head(pre_mux_queue[k]) BY <3>1
    <3>3. /\ pre_mux_queue' = [pre_mux_queue EXCEPT ![k] = Tail(@)]
          /\ \/ queue' = TqSendFinish(queue, m, {k[2]}) /\ init_eof' = init_eof
             \/ queue' = queue /\ init_eof' = init_eof
             \/ queue' = TqSendEOF(k) /\ init_eof' = init_eof \cup {k}
             \/ TqCanWrite(k) /\ queue' = TqWrite(k, ts) /\ init_eof' = init_eof
          /\ UNCHANGED <<todo, mux_started, mux_ready_lock>>
      BY <1>7, <2>3, <2>5, <3>1, <3>2 DEF MuxTaskStart
    <3>4. TodoOK' BY <3>3, SameTodo
    <3>5. QueueOK'
      <4>1. m \in Consumers BY DEF Consumers
      <4>2. {k[2]} \subseteq TqStreams(m) /\ k[1] = m BY <3>1, <4>1, Streams
      <4>3. ASSUME queue' = TqSendEOF(k) PROVE QueueOK'
        <5>1. queue' = [queue EXCEPT ![m].send = @ \cup {k[2]}] BY <4>2, <4>3 DEF TqSendEOF
        <5> QED BY <4>2, <5>1, QueueSends
      <4>4. k \in Ports(Consumers) BY <1>a
      <4> QED BY <3>3, <4>2, <4>3, <4>4, QueueSends, QueueWrite, SameQueue
    <3>6. DataOK'
      <4>1. PICK q \in Seq(Nat) : q = pre_mux_queue[k] BY DEF DataOK
      <4>2. Tail(q) \in Seq(Nat) BY <3>1, <4>1
      <4>3. pre_mux_queue' \in [MuxStreams -> Seq(Nat)] BY <3>3, <4>1, <4>2 DEF DataOK
      <4> QED BY <1>7, <4>3 DEF MuxTaskStart, codecVars, DataOK
    <3>7. FlagsOK'
      <4>1. init_eof' \subseteq MuxStreams BY <3>3 DEF FlagsOK
      <4> QED BY <1>7, <3>3, <4>1 DEF MuxTaskStart, codecVars, schedVars, FlagsOK
    <3> QED BY <3>4, <3>5, <3>6, <3>7
  <2> QED BY <2>4, <2>5
<1> QED BY <1>1, <1>2, <1>3, <1>4, <1>5, <1>6, <1>7 DEF SendStep

(* A thread that starts anew, and what it took from its queue.             *)
LEMMA LoopFlags ==
    ASSUME FlagsOK, LoopUnchanged, eof_in' \subseteq Ports(Filter)
    PROVE  FlagsOK'
BY DEF LoopUnchanged, schedVars, muxVars, FlagsOK

LEMMA LoopData ==
    ASSUME DataOK, LoopUnchanged, nread' = nread, nout' = nout
    PROVE  DataOK'
BY SameData DEF LoopUnchanged, muxVars

LEMMA AskType ==
    ASSUME NEW f \in Filter, NEW i \in Inputs(f), NEW b, NEW c,
           b = (IF Configured(f) THEN OpsFor("receive_finished", ToClose(f), NOPTS) ELSE <<>>),
           c = (IF i # best_input[f] THEN <<Op("best_input", <<f, i>>, NOPTS)>> ELSE <<>>)
    PROVE  /\ ToClose(f) \in Seq(Ports(Filter \cap {f}))
           /\ b \in Seq(Ops(f)) /\ c \in Seq(Ops(f)) /\ <<Op("receive", On(f), NOPTS)>> \in Seq(Ops(f))
           /\ b \o c \o <<Op("receive", On(f), NOPTS)>> \in Seq(Ops(f))
<1>1. f \in Consumers /\ f \in Threads BY DEF Consumers, Threads, Tasks, Producers
<1>2. PICK n \in Nat : n = NbIn[f] BY <1>1, Streams
<1>3. <<>> \in Seq(Ops(f)) BY NoOps
<1>4. ToClose(f) \in Seq(Ports(Filter \cap {f}))
  <2> DEFINE all == [j \in 1 .. n |-> <<f, j - 1>>]
             S == {k \in Ports({f}) : AtEOF(f, k[2])} \ receive_finished
  <2>1. \A j \in 1 .. n : <<f, j - 1>> \in Ports(Filter \cap {f})
    <3> SUFFICES ASSUME NEW j \in 1 .. n PROVE <<f, j - 1>> \in Ports(Filter \cap {f}) OBVIOUS
    <3>1. j - 1 \in Inputs(f) BY <1>2 DEF Inputs
    <3> QED BY <3>1, IsPort
  <2>2. all \in Seq(Ports(Filter \cap {f}))
    <3>1. all \in [1 .. n -> Ports(Filter \cap {f})] BY <2>1
    <3> HIDE DEF all
    <3> QED BY <3>1, MapIsSeq
  <2>3. ToClose(f) = Keep(all, S) BY <1>2 DEF ToClose
  <2>4. Keep(all, S) \in Seq(Ports(Filter \cap {f}))
    <3> HIDE DEF all, S
    <3> QED BY <2>2, KeepStays
  <2> HIDE DEF all, S
  <2> QED BY <2>3, <2>4
<1>5. b \in Seq(Ops(f))
  <2>1. OpsFor("receive_finished", ToClose(f), NOPTS) \in Seq(Ops(f)) BY <1>4, MakesOp, MakesOps
  <2> QED BY <1>3, <2>1
<1>6. c \in Seq(Ops(f))
  <2>1. <<f, i>> \in (Filter \cap {f}) \X (0 .. NbIn[f]) BY <1>2 DEF Inputs
  <2>2. <<Op("best_input", <<f, i>>, NOPTS)>> \in Seq(Ops(f)) BY <2>1, MakesOp, OneOp
  <2> QED BY <1>3, <2>2
<1>7. PICK d \in Seq(Ops(f)) : d = <<Op("receive", On(f), NOPTS)>> BY <1>1, PlainType DEF Plain
<1>8. b \o c \o d \in Seq(Ops(f)) BY <1>5, <1>6, MoreOps
<1> QED BY <1>4, <1>5, <1>6, <1>7, <1>8

LEMMA FilterTypes ==
    ASSUME TypeInv, NEW f \in Filter, FilterStep(f)
    PROVE  Typed'
<1> USE DEF TypeInv, Typed
<1>a. f \in Consumers /\ f \in Producers /\ f \in Threads /\ f \in Tasks
  BY DEF Consumers, Threads, Tasks, Producers
<1>b. eof_in \subseteq Ports(Filter) BY DEF FlagsOK
<1>1. CASE FilterEmit(f)
  <2>1. /\ nout' = [nout EXCEPT ![f] = @ + 1] /\ Restart(f, OpsFor("send", AllDsts(f), nout'[f]))
        /\ LoopUnchanged /\ UNCHANGED <<queue, nread, nin, eof_in, taken>>
    BY <1>1 DEF FilterEmit
  <2>2. nout' \in [Filter -> Nat]
    <3>1. nout[f] \in Nat BY DEF DataOK
    <3>2. nout[f] + 1 \in Nat BY <3>1
    <3> QED BY <2>1, <3>2 DEF DataOK
  <2>3. DataOK' BY <2>1, <2>2 DEF LoopUnchanged, muxVars, DataOK
  <2>4. TodoOK'
    <3>1. nout'[f] \in Nat BY <2>2
    <3>2. OpsFor("send", AllDsts(f), nout'[f]) \in Seq(Ops(f)) BY <1>a, <3>1, FeedsAll, SendsType
    <3> QED BY <1>a, <2>1, <3>2, RestartType
  <2>5. eof_in' \subseteq Ports(Filter) /\ QueueOK' BY <1>b, <2>1, SameQueue
  <2> QED BY <2>1, <2>3, <2>4, <2>5, LoopFlags
<1>2. CASE FilterEnd(f)
  <2>1. UNCHANGED <<queue, codecVars>> /\ LoopUnchanged /\ Restart(f, EndOps(f))
    BY <1>2 DEF FilterEnd
  <2>2. TodoOK' BY <1>a, <2>1, EndType, RestartType
  <2> QED BY <1>b, <2>1, <2>2, SameQueue, LoopFlags, LoopData DEF codecVars
<1>3. CASE FilterAsk(f)
  <2>1. UNCHANGED <<queue, codecVars>> /\ LoopUnchanged BY <1>3 DEF FilterAsk
  <2>2. PICK i \in Inputs(f) :
          Restart(f, (IF Configured(f) THEN OpsFor("receive_finished", ToClose(f), NOPTS) ELSE <<>>)
                     \o (IF i # best_input[f] THEN <<Op("best_input", <<f, i>>, NOPTS)>> ELSE <<>>)
                     \o <<Op("receive", On(f), NOPTS)>>)
    BY <1>3 DEF FilterAsk
  <2>3. TodoOK' BY <1>a, <2>2, AskType, RestartType
  <2> QED BY <1>b, <2>1, <2>3, SameQueue, LoopFlags, LoopData DEF codecVars
<1>4. CASE FilterWait(f)
  <2>1. /\ UNCHANGED <<queue, codecVars>> /\ LoopUnchanged
        /\ Restart(f, WaitOps(f) \o <<Op("emit", On(f), NOPTS)>>)
    BY <1>4 DEF FilterWait
  <2>2. PICK e \in Seq(Ops(f)) : e = <<Op("emit", On(f), NOPTS)>> BY <1>a, PlainType DEF Plain
  <2>3. WaitOps(f) \o e \in Seq(Ops(f)) BY <1>a, WaitType, MoreOps
  <2>4. TodoOK' BY <1>a, <2>1, <2>2, <2>3, RestartType
  <2> QED BY <1>b, <2>1, <2>4, SameQueue, LoopFlags, LoopData DEF codecVars
<1>5. CASE FilterReceive(f)
  <2>1. UNCHANGED <<nread, nout, taken>> /\ LoopUnchanged BY <1>5 DEF FilterReceive
  <2>2. DataOK' BY <2>1, LoopData
  <2>3. CASE TqHasItem(f) /\ queue' = TqAfterItem(f)
             /\ (eof_in' = eof_in \cup {<<f, TqItem(f)[1]>>} \/ eof_in' = eof_in)
             /\ (Restart(f, <<Op("best_input", <<f, NbIn[f]>>, NOPTS)>>) \/ Restart(f, <<>>))
    <3>1. TqWanted(f) # {} BY <2>3 DEF TqHasItem
    <3>2. QueueOK' /\ TqItem(f)[1] \in Inputs(f) BY <1>a, <2>3, <3>1, QueueItem
    <3>3. eof_in' \subseteq Ports(Filter)
      <4>1. <<f, TqItem(f)[1]>> \in Ports(Filter) BY <3>2, IsPort
      <4> QED BY <1>b, <2>3, <4>1
    <3>4. TodoOK'
      <4>1. <<f, NbIn[f]>> \in (Filter \cap {f}) \X (0 .. NbIn[f]) BY <1>a, Streams
      <4>2. <<Op("best_input", <<f, NbIn[f]>>, NOPTS)>> \in Seq(Ops(f)) BY <4>1, MakesOp, OneOp
      <4>3. <<>> \in Seq(Ops(f)) BY NoOps
      <4> QED BY <1>a, <2>3, <4>2, <4>3, RestartType
    <3> QED BY <2>1, <2>2, <3>2, <3>3, <3>4, LoopFlags
  <2>4. CASE TqEofPending(f) # {} /\ queue' = TqAfterEOF(f) /\ UNCHANGED <<todo, nin, eof_in>>
    <3>1. QueueOK' BY <1>a, <2>4, QueueEOF
    <3> QED BY <1>b, <2>1, <2>2, <2>4, <3>1, SameTodo, LoopFlags
  <2>5. CASE UNCHANGED <<queue, nin, eof_in>> /\ Restart(f, EndOps(f))
    <3>1. TodoOK' BY <1>a, <2>5, EndType, RestartType
    <3> QED BY <1>b, <2>1, <2>2, <2>5, <3>1, SameQueue, LoopFlags
  <2> QED BY <1>5, <2>3, <2>4, <2>5 DEF FilterReceive
<1> QED BY <1>1, <1>2, <1>3, <1>4, <1>5 DEF FilterStep

LEMMA LoopTypes ==
    ASSUME TypeInv, NEW t \in Tasks, LoopStep(t)
    PROVE  Typed'
<1> USE DEF TypeInv, Typed
<1>a. t \in Threads BY DEF Threads
<1>b. eof_in \subseteq Ports(Filter) BY DEF FlagsOK
<1>c. <<>> \in Seq(Ops(t)) BY NoOps
<1>1. CASE WaiterWoken(t)
  <2>1. /\ Next1(t, "waiting") /\ (Restart(t, EndOps(t)) \/ Pop(t))
        /\ UNCHANGED <<running, queue, dst_finished, opened, schedVars, muxVars, endVars, codecVars>>
    BY <1>1 DEF WaiterWoken
  <2>2. TodoOK' BY <1>a, <2>1, EndType, RestartType, PopType
  <2>3. LoopUnchanged BY <2>1 DEF LoopUnchanged
  <2> QED BY <1>b, <2>1, <2>2, <2>3, SameQueue, LoopFlags, LoopData DEF codecVars
<1>2. CASE t \in Demux /\ DemuxRead(t)
  <2>1. LoopUnchanged /\ UNCHANGED <<queue, nin, eof_in, nout, taken>> BY <1>2 DEF DemuxRead
  <2>2. t \in Producers BY <1>2 DEF Producers
  <2>3. CASE Restart(t, EndOps(t)) /\ nread' = nread
    <3>1. TodoOK' BY <1>a, <2>3, EndType, RestartType
    <3> QED BY <1>b, <2>1, <2>3, <3>1, SameQueue, LoopFlags, LoopData
  <2>4. CASE \E o \in DOMAIN Outs[t] :
                /\ nread' = [nread EXCEPT ![t][o] = @ + 1]
                /\ Restart(t, WaitOps(t) \o PacketOps(t, o, nread'[t][o]))
    <3>1. PICK o \in DOMAIN Outs[t] :
                /\ nread' = [nread EXCEPT ![t][o] = @ + 1]
                /\ Restart(t, WaitOps(t) \o PacketOps(t, o, nread'[t][o]))
      BY <2>4
    <3>2. nread[t] \in [DOMAIN Outs[t] -> Nat] BY <1>2 DEF DataOK
    <3>3. PICK n \in Nat : n = nread[t][o] + 1 BY <3>2
    <3>4. nread' = [nread EXCEPT ![t] = [nread[t] EXCEPT ![o] = n]] BY <3>1, <3>3
    <3>5. nread'[t] = [nread[t] EXCEPT ![o] = n] BY <1>2, <3>4 DEF DataOK
    <3>6. nread'[t][o] = n BY <3>2, <3>5
    <3>7. DataOK'
      <4>1. [nread[t] EXCEPT ![o] = n] \in [DOMAIN Outs[t] -> Nat] BY <3>2
      <4>2. DOMAIN nread' = Demux /\ \A d \in Demux : nread'[d] \in [DOMAIN Outs[d] -> Nat]
        <5>1. PICK r : r = [nread[t] EXCEPT ![o] = n] OBVIOUS
        <5>2. DOMAIN nread = Demux /\ \A d \in Demux : nread[d] \in [DOMAIN Outs[d] -> Nat]
          BY DEF DataOK
        <5>3. nread' = [nread EXCEPT ![t] = r] /\ r \in [DOMAIN Outs[t] -> Nat] BY <3>4, <4>1, <5>1
        <5>4. DOMAIN nread' = Demux BY <5>2, <5>3
        <5>5. \A d \in Demux : nread'[d] = IF d = t THEN r ELSE nread[d] BY <5>2, <5>3
        <5> HIDE DEF TypeInv, Typed
        <5> QED BY <5>2, <5>3, <5>4, <5>5, Zenon
      <4> QED BY <2>1, <4>2 DEF LoopUnchanged, muxVars, DataOK
    <3>8. PacketOps(t, o, n) \in Seq(Ops(t)) BY <2>2, FeedsAll, SendsType DEF PacketOps
    <3>9. WaitOps(t) \o PacketOps(t, o, n) \in Seq(Ops(t)) BY <1>a, <3>8, WaitType, MoreOps
    <3>10. TodoOK' BY <1>a, <3>1, <3>6, <3>9, RestartType
    <3> QED BY <1>b, <2>1, <3>7, <3>10, SameQueue, LoopFlags
  <2> QED BY <1>2, <2>3, <2>4 DEF DemuxRead
<1>3. CASE t \in Decoders /\ DecReceive(t)
  <2>1. t \in Consumers /\ t \in Producers BY <1>3 DEF Consumers, Producers
  <2>2. LoopUnchanged /\ UNCHANGED <<nread, nin, eof_in, nout>> BY <1>3 DEF DecReceive
  <2>3. QueueOK' /\ TodoOK'
    <3>1. CASE UNCHANGED queue /\ Restart(t, EndOps(t))
      BY <1>a, <3>1, EndType, RestartType, SameQueue
    <3>2. CASE TqHasItem(t) /\ queue' = TqAfterItem(t)
               /\ Restart(t, OpsFor("send", AllDsts(t), TqItem(t)[2]))
      <4>1. TqWanted(t) # {} BY <3>2 DEF TqHasItem
      <4>2. QueueOK' /\ TqItem(t)[2] \in Nat BY <2>1, <3>2, <4>1, QueueItem
      <4>3. OpsFor("send", AllDsts(t), TqItem(t)[2]) \in Seq(Ops(t)) BY <2>1, <4>2, FeedsAll, SendsType
      <4> QED BY <1>a, <3>2, <4>2, <4>3, RestartType
    <3>3. CASE TqEofPending(t) # {} /\ queue' = TqAfterEOF(t)
               /\ Restart(t, OpsFor("send", AllDsts(t), NOPTS) \o EndOps(t))
      <4>1. QueueOK' BY <2>1, <3>3, QueueEOF
      <4>2. OpsFor("send", AllDsts(t), NOPTS) \in Seq(Ops(t)) BY <2>1, FeedsAll, SendsType DEF NOPTS
      <4>3. OpsFor("send", AllDsts(t), NOPTS) \o EndOps(t) \in Seq(Ops(t)) BY <4>2, EndType, MoreOps
      <4> QED BY <1>a, <3>3, <4>1, <4>3, RestartType
    <3> QED BY <1>3, <3>1, <3>2, <3>3 DEF DecReceive
  <2> QED BY <1>b, <2>2, <2>3, LoopFlags, LoopData
<1>4. CASE t \in Filter /\ FilterStep(t) BY <1>4, FilterTypes
<1>5. CASE t \in Encoders /\ EncReceive(t)
  <2>1. t \in Consumers /\ t \in Producers BY <1>5 DEF Consumers, Producers
  <2>2. LoopUnchanged /\ UNCHANGED <<nread, nin, eof_in, nout>> BY <1>5 DEF EncReceive
  <2>3. QueueOK' /\ TodoOK'
    <3>1. CASE TqHasItem(t) /\ queue' = TqAfterItem(t)
               /\ (Restart(t, <<>>) \/ Restart(t, OpsFor("send", AllDsts(t), TqItem(t)[2])))
      <4>1. TqWanted(t) # {} BY <3>1 DEF TqHasItem
      <4>2. QueueOK' /\ TqItem(t)[2] \in Nat BY <2>1, <3>1, <4>1, QueueItem
      <4>3. OpsFor("send", AllDsts(t), TqItem(t)[2]) \in Seq(Ops(t)) BY <2>1, <4>2, FeedsAll, SendsType
      <4> QED BY <1>a, <1>c, <3>1, <4>2, <4>3, RestartType
    <3>2. CASE TqEofPending(t) # {} /\ queue' = TqAfterEOF(t)
               /\ (Restart(t, EndOps(t)) \/ Restart(t, FailOps(t)))
      <4>1. QueueOK' BY <2>1, <3>2, QueueEOF
      <4> QED BY <1>a, <3>2, <4>1, EndType, FailType, RestartType
    <3> QED BY <1>5, <3>1, <3>2 DEF EncReceive
  <2> QED BY <1>b, <2>2, <2>3, LoopFlags, LoopData
<1>6. CASE t \in Muxers /\ MuxReceive(t)
  <2>1. t \in Consumers BY <1>6 DEF Consumers
  <2>2. LoopUnchanged /\ UNCHANGED <<nread, nin, eof_in, nout>> BY <1>6 DEF MuxReceive
  <2>3. QueueOK' /\ TodoOK'
    <3>1. CASE TqHasItem(t) /\ queue' = TqAfterItem(t) /\ UNCHANGED todo
      <4>1. TqWanted(t) # {} BY <3>1 DEF TqHasItem
      <4> QED BY <2>1, <3>1, <4>1, QueueItem, SameTodo
    <3>2. CASE TqEofPending(t) # {} /\ queue' = TqAfterEOF(t) /\ Restart(t, MuxEofOps(t))
      <4>1. /\ QueueOK' /\ Min(TqEofPending(t)) \in TqEofPending(t)
            /\ TqEofPending(t) \subseteq TqStreams(t)
        BY <2>1, <3>2, QueueEOF
      <4>2. TqStreams(t) = Inputs(t) BY <1>6, Kinds DEF TqStreams
      <4>3. <<t, Min(TqEofPending(t))>> \in MuxStreams BY <1>6, <4>1, <4>2, IsPort DEF MuxStreams
      <4>4. MuxEofOps(t) \in Seq(Ops(t)) BY <4>3, MakesOp, OneOp DEF MuxEofOps, NOPTS
      <4> QED BY <1>a, <3>2, <4>1, <4>4, RestartType
    <3>3. CASE Restart(t, EndOps(t)) /\ UNCHANGED <<queue, taken>>
      BY <1>a, <3>3, EndType, RestartType, SameQueue
    <3> QED BY <1>6, <3>1, <3>2, <3>3 DEF MuxReceive
  <2> QED BY <1>b, <2>2, <2>3, LoopFlags, LoopData
<1>7. CASE TaskFails(t)
  <2>1. t \in Consumers BY <1>7, SchedulerAssumption DEF TaskFails, Consumers
  <2>2. /\ LoopUnchanged /\ UNCHANGED codecVars /\ queue' = TqAfterItem(t) /\ Restart(t, FailOps(t))
        /\ TqWanted(t) # {}
    BY <1>7 DEF TaskFails, TqHasItem
  <2>3. QueueOK' /\ TodoOK' BY <1>a, <2>1, <2>2, QueueItem, FailType, RestartType
  <2> QED BY <1>b, <2>2, <2>3, LoopFlags, LoopData DEF codecVars
<1>8. CASE Discard(t)
  <2>1. /\ t \in Consumers /\ LoopUnchanged /\ UNCHANGED <<todo, codecVars>> /\ TqDiscard(t)
    BY <1>8 DEF Discard
  <2>2. QueueOK' /\ TodoOK' BY <2>1, QueueDrop, SameTodo
  <2> QED BY <1>b, <2>1, <2>2, LoopFlags, LoopData DEF codecVars
<1> QED BY <1>1, <1>2, <1>3, <1>4, <1>5, <1>6, <1>7, <1>8 DEF LoopStep

LEMMA EndTypes ==
    ASSUME TypeInv, NEW t \in Threads, EndStep(t)
    PROVE  Typed'
<1> USE DEF TypeInv, Typed
<1>b. eof_in \subseteq Ports(Filter) BY DEF FlagsOK
<1>1. CASE ReceiveClose(t)
  <2>1. /\ Next1(t, "receive_close") /\ Pop(t) /\ LoopUnchanged /\ UNCHANGED codecVars
        /\ queue' = TqReceiveFinish(queue, t, TqStreams(t))
    BY <1>1 DEF ReceiveClose
  <2>2. TodoOK' BY <2>1, PopType
  <2>3. QueueOK' BY <2>1, QueueSends
  <2> QED BY <1>b, <2>1, <2>2, <2>3, LoopFlags, LoopData DEF codecVars
<1>2. CASE MuxCount(t)
  <2>1. /\ Next1(t, "mux_count") /\ Pop(t)
        /\ UNCHANGED <<running, queue, dst_finished, opened, schedVars, muxVars, codecVars>>
    BY <1>2 DEF MuxCount
  <2>2. TodoOK' BY <2>1, PopType
  <2>3. QueueOK' /\ DataOK' BY <2>1, SameQueue, SameData DEF muxVars, codecVars
  <2>4. FlagsOK' BY <2>1 DEF FlagsOK, schedVars, muxVars, codecVars
  <2> QED BY <2>2, <2>3, <2>4
<1>3. CASE TaskFailed(t)
  <2>1. /\ Next1(t, "task_failed") /\ Pop(t)
        /\ UNCHANGED <<running, queue, dst_finished, opened, schedVars, muxVars, codecVars>>
    BY <1>3 DEF TaskFailed
  <2>2. TodoOK' BY <2>1, PopType
  <2>3. QueueOK' /\ DataOK' BY <2>1, SameQueue, SameData DEF muxVars, codecVars
  <2>4. FlagsOK' BY <2>1 DEF FlagsOK, schedVars, muxVars, codecVars
  <2> QED BY <2>2, <2>3, <2>4
<1> QED BY <1>1, <1>2, <1>3 DEF EndStep

LEMMA MainTypes ==
    ASSUME TypeInv, MainStep \/ UserStops
    PROVE  Typed'
<1> USE DEF TypeInv, Typed
<1>a. Main \in Threads BY DEF Threads
<1>1. CASE SchWaitDone \/ UserStops
  <2>1. /\ Restart(Main, StopOps) /\ MainUnchanged /\ UNCHANGED <<queue, schedVars, terminate>>
    BY <1>1 DEF SchWaitDone, UserStops
  <2>2. TodoOK' BY <1>a, <2>1, StopType, RestartType
  <2>3. QueueOK' /\ DataOK' BY <2>1, SameQueue, SameData DEF MainUnchanged, muxVars, codecVars
  <2>4. FlagsOK' BY <2>1 DEF FlagsOK, MainUnchanged, schedVars, muxVars, codecVars
  <2> QED BY <2>2, <2>3, <2>4
<1>2. CASE SchStop
  <2>1. /\ Pop(Main) /\ MainUnchanged
        /\ UNCHANGED <<last_dts, source_finished, send_finished, receive_finished, best_input,
                       schedule_lock>>
        /\ queue' = queue \/ queue' = ChokeDemux(Arg(Main)[1], FALSE)
        /\ Next1(Main, "terminate") \/ Next1(Main, "stop_waiter") \/ Next1(Main, "unfreeze")
    BY <1>2 DEF SchStop
  <2>2. TodoOK' BY <1>a, <2>1, PopType
  <2>3. QueueOK' BY <2>1, SameQueue, QueueChoke
  <2>4. DataOK' BY <2>1, SameData DEF MainUnchanged, muxVars, codecVars
  <2>5. FlagsOK' BY <2>1 DEF FlagsOK, MainUnchanged, muxVars, codecVars
  <2> QED BY <2>2, <2>3, <2>4, <2>5
<1>3. CASE TaskStop
  <2>1. UNCHANGED <<running, queue, dst_finished, opened, schedVars, muxVars, endVars, codecVars>>
    BY <1>3 DEF TaskStop
  <2>2. TodoOK'
    <3>1. CASE Next1(Main, "join") /\ Pop(Main) BY <1>a, <3>1, PopType
    <3>2. CASE Next1(Main, "join_mux") /\ Pop(Main) BY <1>a, <3>2, PopType
    <3>3. CASE /\ Next1(Main, "join_mux")
               /\ LET m == Arg(Main)[1]
                  IN  Replace(Main, <<Op("mux_done", On(m), NOPTS), Op("mux_count", On(m), NOPTS)>>)
      <4>1. PICK m \in Muxers : Arg(Main) = On(m) BY <1>a, <3>3, HeadArg
      <4>2. Arg(Main)[1] = m BY <4>1 DEF On
      <4>3. PICK a \in Ops(Main) : a = Op("mux_done", On(m), NOPTS) BY MakesOp
      <4>4. PICK b \in Ops(Main) : b = Op("mux_count", On(m), NOPTS) BY MakesOp
      <4>5. <<a, b>> \in Seq(Ops(Main)) OBVIOUS
      <4>6. Replace(Main, <<a, b>>) BY <3>3, <4>2, <4>3, <4>4
      <4> QED BY <1>a, <3>3, <4>5, <4>6, ReplaceType
    <3> QED BY <1>3, <3>1, <3>2, <3>3 DEF TaskStop
  <2>3. QueueOK' /\ DataOK' BY <2>1, SameQueue, SameData DEF muxVars, codecVars
  <2>4. FlagsOK' BY <2>1 DEF FlagsOK, schedVars, muxVars, codecVars
  <2> QED BY <2>2, <2>3, <2>4
<1> QED BY <1>1, <1>2, <1>3 DEF MainStep

-----------------------------------------------------------------------------
(* A step of t that changes nothing but t's own list and does not hold the *)
(* lock.                                                                   *)
Own(t) ==
    /\ todo[t] # <<>> \/ t \in running
    /\ \A u \in Threads \ {t} : todo'[u] = todo[u]
    /\ running' = running /\ nb_streams_ready' = nb_streams_ready
Free(t) == schedule_lock' = schedule_lock /\ ~ AtLock(t)

LEMMA OwnIdle == ASSUME TypeInv, NEW t \in Threads, Own(t) PROVE MuxIdle'
<1>1. Muxers \subseteq Threads BY DEF Threads, Tasks
<1> QED BY <1>1 DEF Own, TypeInv, MuxIdle

LEMMA FreeHead == ASSUME TypeInv, NEW t \in Threads, Own(t), Free(t) PROVE LockHead'
<1>1. schedule_lock.owner # None =>
        schedule_lock.owner \in Threads /\ schedule_lock.owner # t
  BY DEF TypeInv, Typed, FlagsOK, LockHead, Free
<1>2. schedule_lock.owner # None => todo'[schedule_lock.owner] = todo[schedule_lock.owner]
  BY <1>1 DEF Own
<1> QED BY <1>2 DEF TypeInv, LockHead, AtLock, Free

LEMMA OwnRestart ==
    ASSUME TodoOK, NEW t \in Threads, NEW ops, Restart(t, ops) \/ Replace(t, ops) \/ Pop(t) \/ todo' = todo
    PROVE  \A u \in Threads \ {t} : todo'[u] = todo[u]
BY DEF TodoOK, Restart, Replace, Pop

LEMMA AtOther ==
    ASSUME NEW t, NEW n, Next1(t, n),
           n \notin {"schedule", "last_dts", "source_finished", "mux_done", "receive_finished",
                     "best_input", "task_exited"},
           n = "finish" => Arg(t)[1] \notin Filter
    PROVE  ~ AtLock(t)
BY DEF AtLock, Locks, Next1, Arg

LEMMA LockOrder ==
    ASSUME IInv, TypeInv, NEW t \in Threads, LockStep(t)
    PROVE  LockHead' /\ MuxIdle'
<1> USE DEF Locking
<1>a. t # None BY SchedulerAssumption DEF Threads, Main, None
<1>1. CASE ScheduleApply(t)
  <2>1. schedule_lock.owner = t /\ AtLock(t) BY <1>1, <1>a DEF ScheduleApply, TypeInv, LockHead
  <2>2. Pop(t) \/ todo' = todo BY <1>1 DEF ScheduleApply
  <2>3. Own(t)
    <3>1. running' = running /\ nb_streams_ready' = nb_streams_ready
      BY <1>1 DEF ScheduleApply, muxVars
    <3> QED BY <2>1, <2>2, <3>1, OwnRestart DEF Own, AtLock, TypeInv, Typed
  <2>4. LockHead'
    <3>1. \/ schedule_lock'.owner = None
          \/ schedule_lock'.owner = t /\ todo' = todo
      <4>1. \/ schedule_lock' = Unlocked
            \/ /\ todo' = todo
               /\ schedule_lock' = [schedule_lock EXCEPT !.sets = @ \ {NextUpdate(schedule_lock.sets)}]
        BY <1>1 DEF ScheduleApply
      <4> QED BY <2>1, <4>1 DEF Unlocked, IInv, LockOK
    <3> QED BY <2>1, <3>1 DEF LockHead, AtLock
  <2> QED BY <2>3, <2>4, OwnIdle
<1>2. ASSUME NEW n, Next1(t, n), AtLock(t), schedule_lock.owner = None,
             (Pop(t) /\ schedule_lock' = schedule_lock) \/ ScheduleUpdate(t),
             running' = running, nb_streams_ready' = nb_streams_ready
      PROVE  LockHead' /\ MuxIdle'
  <2>1. Pop(t) \/ todo' = todo BY <1>2 DEF ScheduleUpdate
  <2>2. Own(t) BY <1>2, <2>1, OwnRestart DEF Own, Next1, TypeInv, Typed
  <2>3. \/ schedule_lock'.owner = None
        \/ schedule_lock'.owner = t /\ todo' = todo
    BY <1>2 DEF ScheduleUpdate
  <2>4. LockHead' BY <1>2, <2>3 DEF LockHead, AtLock
  <2> QED BY <2>2, <2>4, OwnIdle
<1>3. ASSUME ~ ScheduleApply(t)
      PROVE  \E n : /\ Next1(t, n)
                    /\ \/ n \in {"schedule", "last_dts", "source_finished", "mux_done",
                                 "receive_finished", "best_input", "task_exited"}
                       \/ n = "finish" /\ Arg(t)[1] \in Filter
  BY <1>3 DEF LockStep, ScheduleFirst, SetLastDts, SourceFinished, MuxDone, FilterSendFinished,
              FilterReceiveFinish, SetBestInput, TaskExited
<1>4. ASSUME ~ ScheduleApply(t)
      PROVE  /\ schedule_lock.owner = None
             /\ (Pop(t) /\ schedule_lock' = schedule_lock) \/ ScheduleUpdate(t)
             /\ running' = running /\ nb_streams_ready' = nb_streams_ready
  BY <1>4 DEF LockStep, ScheduleFirst, SetLastDts, SourceFinished, MuxDone, FilterSendFinished,
              FilterReceiveFinish, SetBestInput, TaskExited, SchedUnchanged, muxVars, schedVars
<1>5. CASE ~ ScheduleApply(t)
  <2>1. PICK n : /\ Next1(t, n)
                 /\ \/ n \in {"schedule", "last_dts", "source_finished", "mux_done",
                              "receive_finished", "best_input", "task_exited"}
                    \/ n = "finish" /\ Arg(t)[1] \in Filter
    BY <1>3, <1>5
  <2>2. AtLock(t) BY <2>1 DEF AtLock, Locks, Next1, Arg
  <2> QED BY <1>2, <1>4, <1>5, <2>1, <2>2
<1> QED BY <1>1, <1>5

LEMMA SendOrder ==
    ASSUME TypeInv, NEW t \in Threads, SendStep(t)
    PROVE  LockHead' /\ MuxIdle'
<1>1. /\ schedule_lock' = schedule_lock
      /\ \E n \in {"send", "open", "ready", "flush", "finish"} :
            Next1(t, n) /\ (n = "finish" => Arg(t)[1] \notin Filter)
  BY DEF SendStep, SendToPreMux, Send, SendFinish, EncOpen, EncOpenFails, OpensBySending,
         MuxStreamReady, MuxTaskStart, SendUnchanged, schedVars
<1>2. todo[t] # <<>> /\ ~ AtLock(t) BY <1>1, AtOther DEF Next1
<1>3. ASSUME ~ MuxStreamReady(t) PROVE Own(t)
  <2>1. /\ running' = running /\ nb_streams_ready' = nb_streams_ready
        /\ \E ops : Restart(t, ops) \/ Replace(t, ops) \/ Pop(t) \/ todo' = todo
    <3>1. CASE SendToPreMux(t) BY <3>1 DEF SendToPreMux, SendUnchanged
    <3>2. CASE Send(t) BY <3>2 DEF Send, SendUnchanged, muxVars
    <3>3. CASE SendFinish(t) BY <3>3 DEF SendFinish, SendUnchanged
    <3>4. CASE EncOpen(t) \/ EncOpenFails(t) BY <3>4 DEF EncOpen, EncOpenFails, muxVars
    <3>5. CASE MuxTaskStart(t) BY <3>5 DEF MuxTaskStart
    <3> QED BY <1>3, <3>1, <3>2, <3>3, <3>4, <3>5 DEF SendStep
  <2> QED BY <1>2, <2>1, OwnRestart DEF Own, TypeInv, Typed
<1>4. CASE ~ MuxStreamReady(t) BY <1>1, <1>2, <1>3, <1>4, OwnIdle, FreeHead DEF Free
<1>5. CASE MuxStreamReady(t)
  <2>1. Next1(t, "ready") /\ TodoOK BY <1>5 DEF MuxStreamReady, TypeInv, Typed
  <2>2. Arg(t) \in MuxStreams BY <2>1, HeadArg
  <2>3. PICK m \in Muxers : m = Arg(t)[1] BY <2>2, PortIs DEF MuxStreams
  <2>4. m \in Threads /\ Muxers \subseteq Threads BY DEF Threads, Tasks
  <2>5. PICK n \in Nat : n = NbIn[m] BY GraphAssumption DEF Consumers
  <2>6. PICK r \in Nat : r = nb_streams_ready[m] BY DEF TypeInv, Typed, FlagsOK
  <2>7. /\ nb_streams_ready' = [nb_streams_ready EXCEPT ![m] = r + 1]
        /\ IF r + 1 = n
             THEN running' = running \cup {m}
                  /\ \E first \in MuxThreadInit(m) :
                       todo' = [todo EXCEPT ![t] = <<Op("flush", On(m), NOPTS)>> \o Tail(@),
                                            ![m] = first]
             ELSE Pop(t) /\ running' = running
    <3>1. nb_streams_ready \in [Muxers -> Nat] BY DEF TypeInv, Typed, FlagsOK
    <3>2. nb_streams_ready' = [nb_streams_ready EXCEPT ![m] = r + 1]
      BY <1>5, <2>3, <2>6 DEF MuxStreamReady
    <3>3. nb_streams_ready'[m] = r + 1 BY <3>1, <3>2
    <3> QED BY <1>5, <2>3, <2>5, <3>2, <3>3 DEF MuxStreamReady
  <2>8. nb_streams_ready \in [Muxers -> Nat] BY DEF TypeInv, Typed, FlagsOK
  <2>9. CASE r + 1 = n
    <3>1. r < n BY <2>9
    <3>2. m \notin running /\ todo[m] = <<>> BY <2>5, <2>6, <3>1 DEF TypeInv, MuxIdle
    <3>3. m # t BY <1>2, <3>2
    <3>4. \A u \in Threads \ {t, m} : todo'[u] = todo[u] BY <2>1, <2>7, <2>9 DEF TodoOK
    <3>5. schedule_lock.owner # None => schedule_lock.owner \in Threads \ {t, m}
      BY <1>2, <3>2 DEF TypeInv, Typed, FlagsOK, LockHead, AtLock
    <3>6. LockHead' BY <1>1, <3>4, <3>5 DEF TypeInv, LockHead, AtLock
    <3>7. MuxIdle'
      <4> SUFFICES ASSUME NEW x \in Muxers
                   PROVE  /\ nb_streams_ready'[x] < NbIn[x] => x \notin running'
                          /\ x \notin running' => todo'[x] = <<>>
        BY DEF MuxIdle
      <4>1. CASE x = m
        <5>1. nb_streams_ready'[m] = n /\ m \in running' BY <2>7, <2>8, <2>9
        <5> QED BY <2>5, <4>1, <5>1
      <4>2. CASE x # m
        <5>1. nb_streams_ready'[x] = nb_streams_ready[x] BY <2>7, <2>8, <4>2
        <5>2. x \in running' <=> x \in running BY <2>7, <2>9, <4>2
        <5>3. x \notin running => todo[x] = <<>> /\ x # t BY <1>2 DEF TypeInv, MuxIdle
        <5>4. x \notin running => todo'[x] = todo[x] BY <2>4, <3>4, <4>2, <5>3
        <5> QED BY <5>1, <5>2, <5>3, <5>4 DEF TypeInv, MuxIdle
      <4> QED BY <4>1, <4>2
    <3> QED BY <3>6, <3>7
  <2>10. CASE r + 1 # n
    <3>1. \A u \in Threads \ {t} : todo'[u] = todo[u] BY <2>1, <2>7, <2>10, OwnRestart
    <3>2. schedule_lock.owner # None => schedule_lock.owner \in Threads \ {t}
      BY <1>2 DEF TypeInv, Typed, FlagsOK, LockHead
    <3>3. LockHead' BY <1>1, <3>1, <3>2 DEF TypeInv, LockHead, AtLock
    <3>4. running' = running BY <2>7, <2>10
    <3>5. \A x \in Muxers : nb_streams_ready'[x] < NbIn[x] => nb_streams_ready[x] < NbIn[x]
      <4> SUFFICES ASSUME NEW x \in Muxers, nb_streams_ready'[x] < NbIn[x]
                   PROVE  nb_streams_ready[x] < NbIn[x]
        OBVIOUS
      <4>1. CASE x = m
        <5>1. nb_streams_ready'[m] = r + 1 BY <2>7, <2>8
        <5> QED BY <2>5, <2>6, <4>1, <5>1
      <4>2. CASE x # m BY <2>7, <2>8, <4>2
      <4> QED BY <4>1, <4>2
    <3>6. \A x \in Muxers : x \notin running => todo'[x] = <<>>
      BY <1>2, <2>4, <3>1 DEF TypeInv, MuxIdle
    <3>7. MuxIdle' BY <3>4, <3>5, <3>6 DEF TypeInv, MuxIdle
    <3> QED BY <3>3, <3>7
  <2> QED BY <2>9, <2>10
<1> QED BY <1>4, <1>5

LEMMA OtherOrder ==
    ASSUME TypeInv, NEW t \in Threads,
           \/ EndStep(t)
           \/ t # Main /\ LoopStep(t)
           \/ t = Main /\ (MainStep \/ UserStops)
    PROVE  /\ LockHead' /\ MuxIdle' /\ Own(t) /\ schedule_lock' = schedule_lock
           /\ \/ Idle(t)
              \/ \E n \in {"receive_close", "mux_count", "task_failed", "waiting", "receive", "emit",
                           "terminate", "stop_waiter", "unfreeze", "join", "join_mux"} : Next1(t, n)
<1> USE DEF LoopUnchanged, MainUnchanged
<1>1. /\ schedule_lock' = schedule_lock
      /\ \/ Idle(t)
         \/ \E n \in {"receive_close", "mux_count", "task_failed", "waiting", "receive", "emit",
                      "terminate", "stop_waiter", "unfreeze", "join", "join_mux"} : Next1(t, n)
      /\ running' = running /\ nb_streams_ready' = nb_streams_ready
      /\ \E ops : Restart(t, ops) \/ Replace(t, ops) \/ Pop(t) \/ todo' = todo
  <2>1. CASE EndStep(t)
    BY <2>1 DEF EndStep, ReceiveClose, MuxCount, TaskFailed, schedVars, muxVars
  <2>2. CASE LoopStep(t)
    <3>1. CASE WaiterWoken(t) BY <3>1 DEF WaiterWoken, schedVars, muxVars
    <3>2. CASE DemuxRead(t) BY <3>2 DEF DemuxRead, schedVars, muxVars
    <3>3. CASE DecReceive(t) BY <3>3 DEF DecReceive, schedVars, muxVars
    <3>4. CASE EncReceive(t) BY <3>4 DEF EncReceive, schedVars, muxVars
    <3>5. CASE MuxReceive(t) BY <3>5 DEF MuxReceive, schedVars, muxVars
    <3>6. CASE TaskFails(t) \/ Discard(t) BY <3>6 DEF TaskFails, Discard, schedVars, muxVars
    <3>7. CASE FilterEmit(t) \/ FilterEnd(t) \/ FilterWait(t)
      BY <3>7 DEF FilterEmit, FilterEnd, FilterWait, schedVars, muxVars
    <3>8. CASE FilterAsk(t) BY <3>8 DEF FilterAsk, schedVars, muxVars
    <3>9. CASE FilterReceive(t) BY <3>9 DEF FilterReceive, schedVars, muxVars
    <3> QED BY <2>2, <3>1, <3>2, <3>3, <3>4, <3>5, <3>6, <3>7, <3>8, <3>9 DEF LoopStep, FilterStep
  <2>3. CASE t = Main /\ (SchWaitDone \/ UserStops)
    BY <2>3 DEF SchWaitDone, UserStops, schedVars, muxVars
  <2>4. CASE t = Main /\ SchStop
    BY <2>4 DEF SchStop, muxVars
  <2>5. CASE t = Main /\ TaskStop
    <3>1. /\ schedule_lock' = schedule_lock /\ running' = running
          /\ nb_streams_ready' = nb_streams_ready
      BY <2>5 DEF TaskStop, schedVars, muxVars
    <3>2. \/ Next1(t, "join") /\ Pop(t)
          \/ Next1(t, "join_mux") /\ \E ops : Pop(t) \/ Replace(t, ops)
      BY <2>5 DEF TaskStop
    <3> QED BY <3>1, <3>2
  <2> QED BY <2>1, <2>2, <2>3, <2>4, <2>5 DEF MainStep
<1>2. Own(t)
  <2>1. todo[t] # <<>> \/ t \in running BY <1>1 DEF Idle, Next1
  <2> QED BY <1>1, <2>1, OwnRestart DEF Own, TypeInv, Typed
<1>3. ~ AtLock(t)
  <2>1. CASE Idle(t) BY <2>1 DEF Idle, AtLock
  <2>2. CASE ~ Idle(t)
    <3>1. PICK n \in {"receive_close", "mux_count", "task_failed", "waiting", "receive", "emit",
                      "terminate", "stop_waiter", "unfreeze", "join", "join_mux"} : Next1(t, n)
      BY <1>1, <2>2
    <3> QED BY <3>1, AtOther
  <2> QED BY <2>1, <2>2
<1> QED BY <1>1, <1>2, <1>3, OwnIdle, FreeHead DEF Free

LEMMA TypeInvStep == IInv /\ TypeInv /\ [Next]_vars => TypeInv'
<1> SUFFICES ASSUME IInv, TypeInv, [Next]_vars PROVE TypeInv'
  OBVIOUS
<1>1. ASSUME NEW t \in Threads, ThreadStep(t) PROVE TypeInv'
  <2>1. CASE LockStep(t) BY <2>1, LockTypes, LockOrder DEF TypeInv
  <2>2. CASE SendStep(t) BY <2>2, SendTypes, SendOrder DEF TypeInv
  <2>3. CASE EndStep(t)
    <3>1. Typed' BY <2>3, EndTypes
    <3>2. LockHead' /\ MuxIdle' BY <2>3, OtherOrder
    <3> QED BY <3>1, <3>2 DEF TypeInv
  <2>4. CASE t # Main /\ LoopStep(t)
    <3>1. t \in Tasks BY <2>4 DEF Threads
    <3> QED BY <2>4, <3>1, LoopTypes, OtherOrder DEF TypeInv
  <2>5. CASE t = Main /\ MainStep BY <2>5, MainTypes, OtherOrder DEF TypeInv
  <2> QED BY <1>1, <2>1, <2>2, <2>3, <2>4, <2>5 DEF ThreadStep
<1>2. CASE UserStops
  <2>1. Main \in Threads BY DEF Threads
  <2> QED BY <1>2, <2>1, MainTypes, OtherOrder DEF TypeInv
<1>3. CASE UNCHANGED vars
  <2>1. /\ todo' = todo /\ running' = running /\ queue' = queue /\ dst_finished' = dst_finished
        /\ opened' = opened /\ UNCHANGED schedVars /\ UNCHANGED muxVars /\ UNCHANGED codecVars
    BY <1>3 DEF vars
  <2>2. TodoOK' /\ QueueOK' /\ DataOK'
    BY <2>1, SameTodo, SameQueue, SameData DEF TypeInv, Typed, muxVars, codecVars
  <2>3. FlagsOK' BY <2>1 DEF TypeInv, Typed, FlagsOK, schedVars, muxVars, codecVars
  <2>4. LockHead' BY <2>1 DEF TypeInv, LockHead, AtLock, schedVars
  <2>5. MuxIdle' BY <2>1 DEF TypeInv, MuxIdle, muxVars
  <2> QED BY <2>2, <2>3, <2>4, <2>5 DEF TypeInv, Typed
<1> QED BY <1>1, <1>2, <1>3 DEF Next

(* At the start: a muxer that only copies is ready.                        *)
LEMMA InputsCounted ==
    ASSUME NEW m \in Consumers
    PROVE  IsFiniteSet(Inputs(m)) /\ Cardinality(Inputs(m)) = NbIn[m]
<1>1. PICK n \in Nat : n = NbIn[m] BY Streams
<1>2. IsFiniteSet(0 .. n - 1)
      /\ Cardinality(0 .. n - 1) = IF 0 > n - 1 THEN 0 ELSE n - 1 - 0 + 1
  BY FS_Interval
<1> QED BY <1>1, <1>2 DEF Inputs

LEMMA InitTypeInv == Init => TypeInv
<1> SUFFICES ASSUME Init PROVE TypeInv
  OBVIOUS
<1>a. NOPTS \in Nat BY DEF NOPTS
<1>1. TodoOK
  <2>1. DOMAIN todo = Threads BY DEF Init
  <2>2. ASSUME NEW t \in Threads PROVE todo[t] \in Seq(Ops(t))
    <3>1. todo[t] = IF t = Main THEN <<Op("schedule", On(t), NOPTS)>>
                    ELSE IF t \in Encoders /\ OpensItself(t) THEN <<Op("open", On(t), NOPTS)>>
                    ELSE <<>>
      BY DEF Init
    <3>2. <<Op("schedule", On(t), NOPTS)>> \in Seq(Ops(t)) BY PlainType DEF Plain
    <3>3. t \in Encoders /\ OpensItself(t) => On(t) \in Opens(t) BY DEF Opens, Opener
    <3>4. t \in Encoders /\ OpensItself(t) => <<Op("open", On(t), NOPTS)>> \in Seq(Ops(t))
      BY <3>3, MakesOp, OneOp
    <3> QED BY <3>1, <3>2, <3>4, NoOps
  <2> QED BY <2>1, <2>2 DEF TodoOK
<1>2. QueueOK
  <2>1. <<>> \in Seq(Nat) /\ Len(<<>>) = 0 OBVIOUS
  <2>2. 0 <= QueueSize BY SchedulerAssumption
  <2>3. DOMAIN queue = Consumers
        /\ \A t \in Consumers : queue[t] = [fifo |-> <<>>, choked |-> FALSE, send |-> {}, recv |-> {}]
    BY DEF Init
  <2>4. ASSUME NEW t \in Consumers
        PROVE  [fifo |-> <<>>, choked |-> FALSE, send |-> {}, recv |-> {}] \in Queues(t)
    <3>1. <<>> \in Seq(Inputs(t) \X Nat) BY NoOps
    <3> QED BY <2>1, <2>2, <3>1 DEF Queues
  <2> QED BY <2>3, <2>4 DEF QueueOK
<1>3. DataOK
  <2>1. nout \in [Filter -> Nat] BY DEF Init
  <2>2. DOMAIN nread = Demux /\ \A d \in Demux : nread[d] \in [DOMAIN Outs[d] -> Nat] BY DEF Init
  <2>3. <<>> \in Seq(Nat) BY NoOps
  <2>4. pre_mux_queue \in [MuxStreams -> Seq(Nat)] BY <2>3 DEF Init
  <2> QED BY <2>1, <2>2, <2>4 DEF DataOK
<1>4. \A m \in Muxers : /\ IsFiniteSet({i \in Inputs(m) : Copied(<<m, i>>)})
                        /\ nb_streams_ready[m] = Cardinality({i \in Inputs(m) : Copied(<<m, i>>)})
                        /\ nb_streams_ready[m] \in Nat
  <2> SUFFICES ASSUME NEW m \in Muxers
               PROVE  /\ IsFiniteSet({i \in Inputs(m) : Copied(<<m, i>>)})
                      /\ nb_streams_ready[m] = Cardinality({i \in Inputs(m) : Copied(<<m, i>>)})
                      /\ nb_streams_ready[m] \in Nat
    OBVIOUS
  <2>1. PICK S : S = {i \in Inputs(m) : Copied(<<m, i>>)} OBVIOUS
  <2>2. IsFiniteSet(Inputs(m)) /\ S \in SUBSET Inputs(m) BY <2>1, InputsCounted DEF Consumers
  <2>3. IsFiniteSet(S) BY <2>2, FS_Subset
  <2>4. Cardinality(S) \in Nat BY <2>3, FS_CardinalityType
  <2>5. nb_streams_ready[m] = Cardinality(S) BY <2>1 DEF Init
  <2> QED BY <2>1, <2>3, <2>4, <2>5
<1>5. FlagsOK
  <2>1. nb_streams_ready \in [Muxers -> Nat]
    <3>1. nb_streams_ready = [m \in Muxers |-> nb_streams_ready[m]] BY DEF Init
    <3> QED BY <1>4, <3>1
  <2>2. running \subseteq Threads BY DEF Init, Threads, Tasks
  <2>3. last_dts \in [MuxStreams -> Nat] BY <1>a DEF Init
  <2>4. \A f \in Filter : NbIn[f] \in Nat BY Streams DEF Consumers
  <2>5. DOMAIN best_input = Filter /\ \A f \in Filter : best_input[f] \in 0 .. NbIn[f]
    BY <2>4 DEF Init
  <2>6. schedule_lock.owner = None /\ mux_ready_lock = None BY DEF Init, Unlocked
  <2>7. /\ source_finished = {} /\ init_eof = {} /\ send_finished = {} /\ receive_finished = {}
        /\ eof_in = {} /\ dst_finished = {} /\ opened = {}
    BY DEF Init
  <2> QED BY <2>1, <2>2, <2>3, <2>5, <2>6, <2>7 DEF FlagsOK
<1>6. LockHead
  <2>1. schedule_lock.owner = None BY DEF Init, Unlocked
  <2> QED BY <2>1 DEF LockHead
<1>7. MuxIdle
  <2> SUFFICES ASSUME NEW m \in Muxers
               PROVE  /\ nb_streams_ready[m] < NbIn[m] => m \notin running
                      /\ m \notin running => todo[m] = <<>>
    BY DEF MuxIdle
  <2>1. m # Main /\ m \notin Encoders /\ m \in Threads BY Kinds DEF Tasks, Threads
  <2>2. todo[m] = <<>> BY <2>1 DEF Init
  <2>3. ASSUME m \in running PROVE ~ (nb_streams_ready[m] < NbIn[m])
    <3>1. m \in mux_started BY <2>3 DEF Init
    <3>2. \A i \in Inputs(m) : Copied(<<m, i>>) BY <3>1 DEF Init
    <3>3. {i \in Inputs(m) : Copied(<<m, i>>)} = Inputs(m) BY <3>2
    <3>4. nb_streams_ready[m] = NbIn[m] BY <1>4, <3>3, InputsCounted DEF Consumers
    <3>5. NbIn[m] \in Nat BY Streams DEF Consumers
    <3> QED BY <3>4, <3>5
  <2> QED BY <2>2, <2>3
<1> QED BY <1>1, <1>2, <1>3, <1>5, <1>6, <1>7 DEF TypeInv, Typed

-----------------------------------------------------------------------------
(* unchoke_for_stream() on the input of a decoder unchokes its demuxer.    *)
Reached(S, best, n, K) ==
    /\ K[0] = S
    /\ \A j \in 1 .. n : K[j] = K[j - 1] \cup UNION {UpStep(t, best) : t \in K[j - 1]}

LEMMA ReachedExists ==
    ASSUME NEW S, NEW best, NEW m \in Nat
    PROVE  \E K : K = [j \in 0 .. m |-> K[j]] /\ Reached(S, best, m, K)
<1> DEFINE T == {n \in 0 .. m : \E K : K = [j \in 0 .. n |-> K[j]] /\ Reached(S, best, n, K)}
<1>1. 0 \in T
  <2> DEFINE K == [n \in 0 .. 0 |-> S]
  <2>1. K = [j \in 0 .. 0 |-> K[j]] /\ K[0] = S OBVIOUS
  <2>2. Reached(S, best, 0, K)
    <3> HIDE DEF K
    <3>1. 1 .. 0 = {} OBVIOUS
    <3> QED BY <2>1, <3>1, Zenon DEF Reached
  <2>3. \E L : L = [j \in 0 .. 0 |-> L[j]] /\ Reached(S, best, 0, L)
    <3> HIDE DEF K
    <3> QED BY <2>1, <2>2, Zenon
  <2>4. 0 \in 0 .. m OBVIOUS
  <2> QED BY <2>3, <2>4, Zenon
<1>2. ASSUME NEW n \in 1 .. m, n - 1 \in T PROVE n \in T
  <2>1. PICK K : K = [j \in 0 .. n - 1 |-> K[j]] /\ Reached(S, best, n - 1, K) BY <1>2
  <2> DEFINE x == K[n - 1] \cup UNION {UpStep(t, best) : t \in K[n - 1]}
             L == [j \in 0 .. n |-> IF j = n THEN x ELSE K[j]]
  <2> HIDE DEF x
  <2>2. L = [j \in 0 .. n |-> L[j]] /\ L[n] = x /\ \A j \in 0 .. n - 1 : L[j] = K[j] OBVIOUS
  <2> HIDE DEF L
  <2>3. ASSUME NEW j \in 1 .. n
        PROVE  L[j] = L[j - 1] \cup UNION {UpStep(t, best) : t \in L[j - 1]}
    <3>1. j - 1 \in 0 .. n - 1 OBVIOUS
    <3>2. L[j - 1] = K[j - 1] BY <2>2, <3>1
    <3>3. CASE j = n BY <2>2, <3>2, <3>3 DEF x
    <3>4. CASE j # n
      <4>1. j \in 1 .. n - 1 /\ j \in 0 .. n - 1 BY <3>4
      <4>2. K[j] = K[j - 1] \cup UNION {UpStep(t, best) : t \in K[j - 1]}
        BY <2>1, <4>1, Zenon DEF Reached
      <4>3. L[j] = K[j] BY <2>2, <4>1
      <4> QED BY <3>2, <4>2, <4>3
    <3> QED BY <3>3, <3>4
  <2>4. L[0] = S
    <3>1. 0 \in 0 .. n - 1 OBVIOUS
    <3> QED BY <2>1, <2>2, <3>1 DEF Reached
  <2>5. Reached(S, best, n, L) BY <2>3, <2>4, Zenon DEF Reached
  <2>6. n \in 0 .. m OBVIOUS
  <2> QED BY <2>2, <2>5, <2>6, Zenon
<1>3. 0 .. m \subseteq T
  <2> HIDE DEF T
  <2> QED BY <1>1, <1>2, UpTo
<1>4. m \in T BY <1>3
<1> QED BY <1>4

LEMMA UnchokedIs ==
    ASSUME NEW S, NEW best
    PROVE  \E N, R :
             /\ N \in Nat /\ N = Cardinality(Tasks) /\ Reached(S, best, N, R)
             /\ UnchokedFor(S, best) = (R[N] \cap Demux) \cup {f \in R[N] \cap Filter : best[f] = NbIn[f]}
<1>1. IsFiniteSet(Tasks) BY GraphAssumption
<1>2. PICK N \in Nat : N = Cardinality(Tasks) BY <1>1, FS_CardinalityType
<1> DEFINE Up(t) == UpStep(t, best)
           Is(K) == K = [n \in 0 .. N |-> IF n = 0 THEN S
                                          ELSE K[n - 1] \cup UNION {Up(t) : t \in K[n - 1]}]
           R == CHOOSE K : Is(K)
<1>3. PICK K : K = [j \in 0 .. N |-> K[j]] /\ Reached(S, best, N, K) BY ReachedExists
<1>4. Is(K)
  <2>1. K[0] = S /\ \A n \in 1 .. N : K[n] = K[n - 1] \cup UNION {Up(t) : t \in K[n - 1]}
    BY <1>3 DEF Reached
  <2>2. \A n \in 0 .. N : n # 0 => n \in 1 .. N OBVIOUS
  <2>3. \A n \in 0 .. N : K[n] = IF n = 0 THEN S
                                 ELSE K[n - 1] \cup UNION {Up(t) : t \in K[n - 1]}
    BY <2>1, <2>2, Zenon
  <2> QED BY <1>3, <2>3, Zenon
<1>5. Is(R)
  <2> HIDE DEF Is
  <2> QED BY <1>4
<1>6. UnchokedFor(S, best) = (R[N] \cap Demux) \cup {f \in R[N] \cap Filter : best[f] = NbIn[f]}
  BY <1>2 DEF UnchokedFor, Closure
<1> HIDE DEF R
<1>7. \A n \in 0 .. N : R[n] = IF n = 0 THEN S ELSE R[n - 1] \cup UNION {Up(t) : t \in R[n - 1]}
  BY <1>5, Zenon
<1>8. Reached(S, best, N, R)
  <2>1. 0 \in 0 .. N /\ \A n \in 1 .. N : n \in 0 .. N /\ n # 0 OBVIOUS
  <2>2. R[0] = S BY <1>7, <2>1, Zenon
  <2>3. \A n \in 1 .. N : R[n] = R[n - 1] \cup UNION {Up(t) : t \in R[n - 1]} BY <1>7, <2>1, Zenon
  <2> QED BY <2>2, <2>3, Zenon DEF Reached
<1> QED BY <1>2, <1>6, <1>8

LEMMA UnchokesFor ==
    ASSUME NEW S, NEW best, NEW s \in S, NEW d \in Demux, d \in UpStep(s, best), s \in Tasks
    PROVE  d \in UnchokedFor(S, best)
<1>1. IsFiniteSet(Tasks) BY GraphAssumption
<1> DEFINE Up(t) == UpStep(t, best)
<1>2. PICK N, R :
        /\ N \in Nat /\ N = Cardinality(Tasks) /\ Reached(S, best, N, R)
        /\ UnchokedFor(S, best) = (R[N] \cap Demux) \cup {f \in R[N] \cap Filter : best[f] = NbIn[f]}
  BY UnchokedIs
<1>3. N # 0 BY <1>1, <1>2, FS_EmptySet
<1>4. R[0] = S /\ \A n \in 1 .. N : R[n] = R[n - 1] \cup UNION {Up(t) : t \in R[n - 1]}
  BY <1>2 DEF Reached
<1> HIDE DEF Up
<1> DEFINE T == {n \in 0 .. N : n # 0 => d \in R[n]}
<1>5. 0 \in T BY <1>2
<1>6. ASSUME NEW n \in 1 .. N, n - 1 \in T PROVE n \in T
  <2>1. n \in 0 .. N /\ n # 0 /\ n - 1 \in 0 .. N BY <1>2
  <2>2. R[n] = R[n - 1] \cup UNION {Up(t) : t \in R[n - 1]} BY <1>4
  <2>3. CASE n - 1 = 0
    <3>1. R[n - 1] = S BY <1>4, <2>3
    <3>2. d \in Up(s) BY DEF Up
    <3> QED BY <2>1, <2>2, <3>1, <3>2
  <2>4. CASE n - 1 # 0
    <3>1. d \in R[n - 1] BY <1>6, <2>4
    <3> QED BY <2>1, <2>2, <3>1
  <2> QED BY <2>3, <2>4
<1>7. 0 .. N \subseteq T
  <2> HIDE DEF T
  <2> QED BY <1>2, <1>5, <1>6, UpTo
<1>8. d \in R[N]
  <2>1. N \in T BY <1>2, <1>7
  <2> QED BY <1>3, <2>1
<1> QED BY <1>2, <1>8

LEMMA ClosedIsUnchoked ==
    ASSUME NEW live, NEW dts, NEW closed, NEW exited, NEW best,
           NEW k \in closed, NEW d \in Demux, Src(k) \in Decoders, Src(On(Src(k))) = d
    PROVE  d \in Unchoked(live, dts, closed, exited, best)
<1>1. Src(k) \notin Demux /\ Src(k) \notin Filter BY Kinds
<1>2. UpStep(Src(k), best) = {Src(<<Src(k), 0>>)} BY <1>1 DEF UpStep
<1>3. d \in UpStep(Src(k), best) BY <1>2 DEF On
<1>4. PICK S : S = {Src(x) : x \in ToFeed(Behind(live, dts), closed)} OBVIOUS
<1>5. Src(k) \in S BY <1>4 DEF ToFeed
<1>6. d \in UnchokedFor(S, best) BY <1>3, <1>5, UnchokesFor DEF Tasks, Producers
<1>7. UnchokedFor(S, best) \subseteq Unchoked(live, dts, closed, exited, best)
  BY <1>4 DEF Unchoked
<1> QED BY <1>6, <1>7

-----------------------------------------------------------------------------
(* A demuxer that has to run for a closed input runs, or is about to: only *)
(* sch_stop() chokes it, after it has set terminate.                       *)
Runs(d) ==
    \/ <<"waiter", d, FALSE>> \in schedule_lock.sets
    \/ ~ choked[d] /\ <<"waiter", d, TRUE>> \notin schedule_lock.sets

FedInv ==
    ~ terminate =>
        \A k \in receive_finished \ send_finished :
            \A d \in Demux : Src(k) \in Decoders /\ Src(On(Src(k))) = d => Runs(d)

MainOps == {<<>>, <<Op("schedule", On(Main), NOPTS)>>, StopOps}
StopInv == ~ terminate => todo[Main] \in MainOps

LEMMA HeadStays ==
    ASSUME NEW A, NEW x \in Seq(A), NEW y \in Seq(A), x # <<>>
    PROVE  x \o y # <<>> /\ Head(x \o y) = Head(x)
OBVIOUS

(* What an operation of one thread does to the list of the main thread.    *)
LEMMA MainHead ==
    /\ <<Op("schedule", On(Main), NOPTS)>> # <<>>
    /\ Head(<<Op("schedule", On(Main), NOPTS)>>).op = "schedule"
    /\ Tail(<<Op("schedule", On(Main), NOPTS)>>) = <<>>
    /\ StopOps # <<>> /\ Head(StopOps).op = "terminate"
<1>1. /\ <<Op("schedule", On(Main), NOPTS)>> # <<>>
      /\ Head(<<Op("schedule", On(Main), NOPTS)>>).op = "schedule"
      /\ Tail(<<Op("schedule", On(Main), NOPTS)>>) = <<>>
  BY DEF Op
<1> DEFINE a == [i \in DOMAIN Filters |-> Op("stop_waiter", On(Filters[i]), NOPTS)]
           b == FlattenSeq([i \in DOMAIN Demuxers |->
                   <<Op("stop_waiter", On(Demuxers[i]), NOPTS), Op("unfreeze", On(Demuxers[i]), NOPTS)>>])
           c == OpsFor("join_mux", SetToSeq({On(m) : m \in Muxers}), NOPTS)
           p == Op("terminate", On(Main), NOPTS)
           q == <<Op("join", On(Main), NOPTS)>>
           r == <<Op("exit", On(Main), NOPTS)>>
<1>2. StopOps = <<p>> \o a \o b \o q \o c \o r BY DEF StopOps
<1>3. a \in Seq(Stops) /\ b \in Seq(Stops) /\ c \in Seq(Stops)
  BY StopParts
<1>4. p \in Stops /\ q \in Seq(Stops) /\ r \in Seq(Stops)
  BY MakesStop, OneOp
<1>5. p.op = "terminate" BY DEF Op
<1> HIDE DEF a, b, c, p, q, r
<1>6. ASSUME NEW x \in Seq(Stops), NEW y \in Seq(Stops), x # <<>>, Head(x) = p
      PROVE  x \o y \in Seq(Stops) /\ x \o y # <<>> /\ Head(x \o y) = p
  BY <1>6, HeadStays, MoreOps
<1>7. <<p>> \in Seq(Stops) /\ <<p>> # <<>> /\ Head(<<p>>) = p BY <1>4, OneOp
<1> DEFINE First(x) == x \in Seq(Stops) /\ x # <<>> /\ Head(x) = p
<1>8. First(StopOps)
  <2>1. First(<<p>> \o a) BY <1>3, <1>6, <1>7
  <2>2. First(<<p>> \o a \o b) BY <1>3, <1>6, <2>1
  <2>3. First(<<p>> \o a \o b \o q) BY <1>4, <1>6, <2>2
  <2>4. First(<<p>> \o a \o b \o q \o c) BY <1>3, <1>6, <2>3
  <2>5. First(<<p>> \o a \o b \o q \o c \o r) BY <1>4, <1>6, <2>4
  <2> HIDE DEF First
  <2> QED BY <1>2, <2>5
<1> QED BY <1>1, <1>5, <1>8

(* Who takes schedule_lock or holds it is at an operation for it.          *)
LEMMA LockHeld ==
    ASSUME IInv, TypeInv, NEW t \in Threads, LockStep(t)
    PROVE  AtLock(t) /\ (Pop(t) \/ todo' = todo) /\ terminate' = terminate
<1> USE DEF Locking
<1>1. CASE ScheduleApply(t)
  <2>1. t # None BY SchedulerAssumption DEF Threads, Main, None
  <2> QED BY <1>1, <2>1 DEF ScheduleApply, TypeInv, LockHead, endVars
<1>2. CASE ~ ScheduleApply(t)
  <2>1. \E n : /\ Next1(t, n)
               /\ \/ n \in {"schedule", "last_dts", "source_finished", "mux_done",
                            "receive_finished", "best_input", "task_exited"}
                  \/ n = "finish" /\ Arg(t)[1] \in Filter
    BY <1>2 DEF LockStep, ScheduleFirst, SetLastDts, SourceFinished, MuxDone, FilterSendFinished,
                FilterReceiveFinish, SetBestInput, TaskExited
  <2>2. (Pop(t) \/ ScheduleUpdate(t)) /\ terminate' = terminate
    BY <1>2 DEF LockStep, ScheduleFirst, SetLastDts, SourceFinished, MuxDone, FilterSendFinished,
                FilterReceiveFinish, SetBestInput, TaskExited, SchedUnchanged, endVars
  <2>3. AtLock(t) BY <2>1 DEF AtLock, Locks, Next1, Arg
  <2> QED BY <2>2, <2>3 DEF ScheduleUpdate
<1> QED BY <1>1, <1>2

LEMMA SendHead ==
    ASSUME TypeInv, NEW t \in Threads, SendStep(t)
    PROVE  /\ \E n \in {"send", "open", "ready", "flush", "finish"} : Next1(t, n)
           /\ UNCHANGED schedVars /\ terminate' = terminate
           /\ t # Main => todo'[Main] = todo[Main]
<1> USE DEF SendUnchanged, endVars
<1>1. \E n \in {"send", "open", "ready", "flush", "finish"} : Next1(t, n)
  BY DEF SendStep, SendToPreMux, Send, SendFinish, EncOpen, EncOpenFails, OpensBySending,
         MuxStreamReady, MuxTaskStart
<1>2. UNCHANGED schedVars /\ terminate' = terminate
  BY DEF SendStep, SendToPreMux, Send, SendFinish, EncOpen, EncOpenFails, MuxStreamReady, MuxTaskStart
<1>3. ASSUME t # Main PROVE todo'[Main] = todo[Main]
  <2>1. TodoOK /\ Main \in Threads BY DEF TypeInv, Typed, Threads
  <2>2. CASE MuxStreamReady(t)
    <3>1. Next1(t, "ready") BY <2>2 DEF MuxStreamReady
    <3>2. Arg(t) \in MuxStreams BY <2>1, <3>1, HeadArg
    <3>3. Arg(t)[1] \in Muxers BY <3>2, PortIs DEF MuxStreams
    <3>4. Arg(t)[1] # Main BY <3>3, Kinds DEF Tasks
    <3>5. \/ Pop(t)
          \/ \E a, b : todo' = [todo EXCEPT ![t] = a, ![Arg(t)[1]] = b]
      BY <2>2 DEF MuxStreamReady
    <3>6. CASE Pop(t) BY <1>3, <2>1, <3>6, OwnRestart
    <3>7. CASE \E a, b : todo' = [todo EXCEPT ![t] = a, ![Arg(t)[1]] = b]
      BY <1>3, <2>1, <3>4, <3>7 DEF TodoOK
    <3> QED BY <3>5, <3>6, <3>7
  <2>3. CASE ~ MuxStreamReady(t)
    <3>1. \E ops : Restart(t, ops) \/ Replace(t, ops) \/ Pop(t) \/ todo' = todo
      <4>1. CASE SendToPreMux(t) BY <4>1 DEF SendToPreMux
      <4>2. CASE Send(t) BY <4>2 DEF Send
      <4>3. CASE SendFinish(t) BY <4>3 DEF SendFinish
      <4>4. CASE EncOpen(t) \/ EncOpenFails(t) BY <4>4 DEF EncOpen, EncOpenFails
      <4>5. CASE MuxTaskStart(t) BY <4>5 DEF MuxTaskStart
      <4> QED BY <2>3, <4>1, <4>2, <4>3, <4>4, <4>5 DEF SendStep
    <3> QED BY <1>3, <2>1, <3>1, OwnRestart
  <2> QED BY <2>2, <2>3
<1> QED BY <1>1, <1>2, <1>3

LEMMA StopSame == StopInv /\ todo'[Main] = todo[Main] /\ terminate' = terminate => StopInv'
<1>1. MainOps' = MainOps
  BY DEF MainOps, StopOps, Op, On, OpsFor, Main, NOPTS
<1> QED BY <1>1 DEF StopInv

LEMMA StopInvStep ==
    ASSUME IInv, TypeInv, StopInv, [Next]_vars
    PROVE  StopInv'
<1>a. TodoOK /\ Main \in Threads BY DEF TypeInv, Typed, Threads
<1>b. todo[Main] \in MainOps /\ todo[Main] # <<>> => Head(todo[Main]).op \in {"schedule", "terminate"}
  BY MainHead DEF MainOps
<1>1. ASSUME NEW t \in Threads, ThreadStep(t) PROVE StopInv'
  <2>1. CASE LockStep(t)
    <3>1. AtLock(t) /\ (Pop(t) \/ todo' = todo) /\ terminate' = terminate BY <2>1, LockHeld
    <3>2. CASE t # Main
      <4>1. todo'[Main] = todo[Main] BY <1>a, <3>1, <3>2, OwnRestart
      <4> QED BY <3>1, <4>1, StopSame
    <3>3. CASE todo' = todo BY <3>1, <3>3, StopSame
    <3>4. CASE t = Main /\ Pop(t) /\ ~ terminate
      <4>1. todo[Main] \in MainOps BY <3>4 DEF StopInv
      <4>2. Head(todo[Main]).op \in {"schedule", "terminate"} BY <1>b, <3>1, <3>4, <4>1 DEF AtLock
      <4>3. Head(todo[Main]).op # "terminate" BY <3>1, <3>4 DEF AtLock, Locks
      <4>4. todo[Main] = <<Op("schedule", On(Main), NOPTS)>>
        BY <3>1, <3>4, <4>1, <4>3, MainHead DEF MainOps, AtLock
      <4>5. Tail(todo[Main]) = <<>> BY <4>4, MainHead
      <4>6. todo' = [todo EXCEPT ![Main] = <<>> \o Tail(todo[Main])] BY <3>4 DEF Pop, Replace
      <4>7. todo'[Main] = <<>> BY <1>a, <4>5, <4>6 DEF TodoOK
      <4> QED BY <4>7 DEF StopInv, MainOps
    <3>5. CASE terminate BY <3>1, <3>5 DEF StopInv
    <3> QED BY <3>1, <3>2, <3>3, <3>4, <3>5
  <2>2. CASE SendStep(t)
    <3>1. CASE t # Main BY <2>2, <3>1, SendHead, StopSame
    <3>2. CASE t = Main
      <4>1. PICK n \in {"send", "open", "ready", "flush", "finish"} : Next1(Main, n)
        BY <2>2, <3>2, SendHead
      <4>2. terminate BY <1>b, <4>1 DEF StopInv, Next1
      <4>3. terminate' = terminate BY <2>2, SendHead
      <4> QED BY <4>2, <4>3 DEF StopInv
    <3> QED BY <3>1, <3>2
  <2>3. CASE EndStep(t) \/ (t # Main /\ LoopStep(t))
    <3>1. terminate' = terminate
      <4>1. CASE EndStep(t)
        BY <4>1 DEF EndStep, ReceiveClose, MuxCount, TaskFailed, LoopUnchanged, endVars
      <4>2. CASE LoopStep(t)
        BY <4>2 DEF LoopStep, WaiterWoken, DemuxRead, DecReceive, FilterStep, FilterEmit, FilterEnd,
                    FilterAsk, FilterWait, FilterReceive, EncReceive, MuxReceive, TaskFails, Discard,
                    LoopUnchanged, endVars
      <4> QED BY <2>3, <4>1, <4>2
    <3>2. CASE t # Main
      <4>1. Own(t) BY <2>3, OtherOrder
      <4>2. todo'[Main] = todo[Main] BY <1>a, <3>2, <4>1 DEF Own
      <4> QED BY <3>1, <4>2, StopSame
    <3>3. CASE t = Main
      <4>1. PICK n \in {"receive_close", "mux_count", "task_failed"} : Next1(Main, n)
        BY <2>3, <3>3 DEF EndStep, ReceiveClose, MuxCount, TaskFailed
      <4>2. terminate BY <1>b, <4>1 DEF StopInv, Next1
      <4> QED BY <3>1, <4>2 DEF StopInv
    <3> QED BY <3>2, <3>3
  <2>4. CASE t = Main /\ MainStep
    <3>1. CASE SchWaitDone
      <4>1. todo'[Main] = StopOps BY <1>a, <3>1 DEF SchWaitDone, Restart, TodoOK
      <4> QED BY <4>1 DEF StopInv, MainOps, StopOps
    <3>2. CASE SchStop
      <4>1. \/ terminate'
            \/ /\ Next1(Main, "stop_waiter") \/ Next1(Main, "unfreeze")
               /\ terminate' = terminate
        BY <3>2 DEF SchStop
      <4>2. Next1(Main, "stop_waiter") \/ Next1(Main, "unfreeze") => terminate
        BY <1>b DEF StopInv, Next1
      <4> QED BY <4>1, <4>2 DEF StopInv
    <3>3. CASE TaskStop
      <4>1. (Next1(Main, "join") \/ Next1(Main, "join_mux")) /\ terminate' = terminate
        BY <3>3 DEF TaskStop, endVars
      <4>2. terminate BY <1>b, <4>1 DEF StopInv, Next1
      <4> QED BY <4>1, <4>2 DEF StopInv
    <3> QED BY <2>4, <3>1, <3>2, <3>3 DEF MainStep
  <2> QED BY <1>1, <2>1, <2>2, <2>3, <2>4 DEF ThreadStep
<1>2. CASE UserStops
  <2>1. todo'[Main] = StopOps BY <1>a, <1>2 DEF UserStops, Restart, TodoOK
  <2> QED BY <2>1 DEF StopInv, MainOps, StopOps
<1>3. CASE UNCHANGED vars BY <1>3, StopSame DEF vars, endVars
<1> QED BY <1>1, <1>2, <1>3 DEF Next

LEMMA FedSame ==
    ASSUME FedInv, UNCHANGED schedVars, terminate' = terminate
    PROVE  FedInv'
BY DEF FedInv, Runs, schedVars

LEMMA FedUpdate ==
    ASSUME IInv, NEW t \in Threads, schedule_lock.owner = None, choked' = choked,
           terminate' = terminate, ScheduleUpdate(t)
    PROVE  FedInv'
<1> SUFFICES ASSUME ~ terminate', NEW k \in receive_finished' \ send_finished', NEW d \in Demux,
                    Src(k) \in Decoders, Src(On(Src(k))) = d
             PROVE  Runs(d)'
  BY DEF FedInv
<1>1. schedule_lock.sets = {} /\ choked[d] \in BOOLEAN /\ d \in Waiters
  BY DEF IInv, LockOK, Waiters
<1>2. PICK un, ws :
        /\ un = Unchoked(MuxStreams \ source_finished', last_dts',
                         receive_finished' \ send_finished', task_exited', best_input')
        /\ ws = {w \in Waiters : choked[w] # (w \notin un)}
        /\ IF terminate \/ ws = {} THEN schedule_lock' = schedule_lock
           ELSE schedule_lock' = [owner |-> t, sets |-> Updates(ws)]
  BY DEF ScheduleUpdate
<1>3. d \in un BY <1>2, ClosedIsUnchoked
<1>4. d \in ws <=> choked[d] BY <1>1, <1>2, <1>3
<1>5. CASE ws = {} BY <1>1, <1>2, <1>4, <1>5 DEF Runs
<1>a. IF terminate \/ ws = {} THEN schedule_lock' = schedule_lock
      ELSE schedule_lock' = [owner |-> t, sets |-> Updates(ws)]
  BY <1>2
<1>6. CASE ws # {}
  <2>1. schedule_lock'.sets = Updates(ws) BY <1>a, <1>6
  <2>2. CASE choked[d]
    <3>1. <<"waiter", d, ~ choked[d]>> \in Updates(ws) BY <1>4, <2>2 DEF Updates
    <3>2. (~ choked[d]) = FALSE BY <2>2
    <3> QED BY <2>1, <3>1, <3>2 DEF Runs
  <2>3. CASE ~ choked[d]
    <3>1. <<"waiter", d, TRUE>> \notin Updates(ws) BY <1>4, <2>3 DEF Updates
    <3> QED BY <2>1, <2>3, <3>1 DEF Runs
  <2> QED BY <2>2, <2>3
<1> QED BY <1>5, <1>6

LEMMA FedApply ==
    ASSUME IInv, FedInv, NEW t \in Threads, ScheduleApply(t)
    PROVE  FedInv'
<1>1. PICK S, u : /\ S = schedule_lock.sets /\ u = NextUpdate(S)
                  /\ choked' = IF u[1] = "waiter" THEN [choked EXCEPT ![u[2]] = u[3]] ELSE choked
                  /\ IF S \ {u} = {} THEN schedule_lock' = Unlocked
                     ELSE schedule_lock' = [schedule_lock EXCEPT !.sets = S \ {u}]
  BY DEF ScheduleApply
<1>2. S \in SUBSET AllWrites /\ S # {} /\ choked \in [Waiters -> BOOLEAN]
  <2>1. t # None BY SchedulerAssumption DEF Threads, Main, None
  <2> QED BY <1>1, <2>1 DEF IInv, LockOK, ScheduleApply
<1>3. u \in S /\ u \in AllWrites BY <1>1, <1>2, NextUpdateIsFirst
<1>4. schedule_lock'.sets = S \ {u}
  <2>1. CASE S \ {u} = {} BY <1>1, <2>1 DEF Unlocked
  <2>2. CASE S \ {u} # {} BY <1>1, <2>2 DEF IInv, LockOK
  <2> QED BY <2>1, <2>2
<1> SUFFICES ASSUME ~ terminate', NEW k \in receive_finished' \ send_finished', NEW d \in Demux,
                    Src(k) \in Decoders, Src(On(Src(k))) = d
             PROVE  Runs(d)'
  BY DEF FedInv
<1>5. Runs(d)
  <2>1. UNCHANGED <<terminate, receive_finished, send_finished>> BY DEF ScheduleApply, endVars
  <2> QED BY <2>1 DEF FedInv
<1>6. d \in Waiters BY DEF Waiters
<1>7. CASE u = <<"waiter", d, FALSE>>
  <2>1. choked' = [choked EXCEPT ![d] = FALSE] BY <1>1, <1>7
  <2>2. <<"waiter", d, TRUE>> \notin S
    <3>1. Writes(S, d) BY <1>1 DEF IInv
    <3> QED BY <1>3, <1>7, <3>1 DEF Writes
  <2> QED BY <1>2, <1>4, <1>6, <2>1, <2>2 DEF Runs
<1>8. CASE u # <<"waiter", d, FALSE>>
  <2>1. CASE <<"waiter", d, FALSE>> \in S BY <1>4, <1>8, <2>1 DEF Runs
  <2>2. CASE <<"waiter", d, FALSE>> \notin S
    <3>1. ~ choked[d] /\ <<"waiter", d, TRUE>> \notin S BY <1>1, <1>5, <2>2 DEF Runs
    <3>2. choked'[d] = choked[d]
      <4>1. CASE u[1] = "waiter" /\ u[2] = d
        <5>1. u = <<"waiter", d, u[3]>> /\ u[3] \in BOOLEAN BY <1>3, <4>1 DEF AllWrites
        <5> QED BY <1>3, <1>8, <3>1, <5>1
      <4>2. CASE u[1] = "waiter" /\ u[2] # d BY <1>1, <1>2, <1>6, <4>2
      <4>3. CASE u[1] # "waiter" BY <1>1, <4>3
      <4> QED BY <4>1, <4>2, <4>3
    <3> QED BY <1>4, <3>1, <3>2 DEF Runs
  <2> QED BY <2>1, <2>2
<1> QED BY <1>7, <1>8

LEMMA FedInvStep ==
    ASSUME IInv, TypeInv, StopInv, FedInv, [Next]_vars
    PROVE  FedInv'
<1>1. ASSUME NEW t \in Threads, ThreadStep(t) PROVE FedInv'
  <2>1. CASE LockStep(t)
    <3> USE DEF Locking
    <3>1. CASE \/ ScheduleFirst(t) \/ SetLastDts(t) \/ SourceFinished(t) \/ MuxDone(t)
               \/ FilterReceiveFinish(t) \/ SetBestInput(t) \/ TaskExited(t)
      <4>1. /\ schedule_lock.owner = None /\ choked' = choked /\ terminate' = terminate
            /\ ScheduleUpdate(t)
        BY <3>1 DEF ScheduleFirst, SetLastDts, SourceFinished, MuxDone, FilterReceiveFinish,
                    SetBestInput, TaskExited, SchedUnchanged, endVars
      <4> QED BY <4>1, FedUpdate
    <3>2. CASE FilterSendFinished(t)
      <4>1. schedule_lock.owner = None /\ terminate' = terminate
        BY <3>2 DEF FilterSendFinished, endVars
      <4>2. UNCHANGED schedVars \/ (choked' = choked /\ ScheduleUpdate(t))
        BY <3>2 DEF FilterSendFinished
      <4> QED BY <4>1, <4>2, FedSame, FedUpdate
    <3>3. CASE ScheduleApply(t) BY <3>3, FedApply
    <3> QED BY <2>1, <3>1, <3>2, <3>3 DEF LockStep
  <2>2. CASE SendStep(t) BY <2>2, SendHead, FedSame
  <2>3. CASE EndStep(t) \/ (t # Main /\ LoopStep(t))
    <3>1. UNCHANGED schedVars /\ terminate' = terminate
      <4>1. CASE EndStep(t)
        BY <4>1 DEF EndStep, ReceiveClose, MuxCount, TaskFailed, LoopUnchanged, endVars
      <4>2. CASE LoopStep(t)
        BY <4>2 DEF LoopStep, WaiterWoken, DemuxRead, DecReceive, FilterStep, FilterEmit, FilterEnd,
                    FilterAsk, FilterWait, FilterReceive, EncReceive, MuxReceive, TaskFails, Discard,
                    LoopUnchanged, endVars
      <4> QED BY <2>3, <4>1, <4>2
    <3> QED BY <3>1, FedSame
  <2>4. CASE t = Main /\ MainStep
    <3>1. CASE SchWaitDone BY <3>1, FedSame DEF SchWaitDone
    <3>2. CASE TaskStop BY <3>2, FedSame DEF TaskStop, endVars
    <3>3. CASE SchStop
      <4>1. CASE terminate'  BY <4>1 DEF FedInv
      <4>2. CASE Next1(Main, "stop_waiter") /\ ~ terminate
        <5>1. todo[Main] \in MainOps BY <4>2 DEF StopInv
        <5> QED BY <4>2, <5>1, MainHead DEF MainOps, Next1
      <4>3. CASE Next1(Main, "stop_waiter") /\ terminate
        BY <3>3, <4>3 DEF SchStop, FedInv, Next1
      <4>4. CASE Next1(Main, "unfreeze") /\ ~ terminate
        <5>1. todo[Main] \in MainOps BY <4>4 DEF StopInv
        <5> QED BY <4>4, <5>1, MainHead DEF MainOps, Next1
      <4>5. CASE Next1(Main, "unfreeze") /\ terminate
        BY <3>3, <4>5 DEF SchStop, FedInv, Next1
      <4> QED BY <3>3, <4>1, <4>2, <4>3, <4>4, <4>5 DEF SchStop
    <3> QED BY <2>4, <3>1, <3>2, <3>3 DEF MainStep
  <2> QED BY <1>1, <2>1, <2>2, <2>3, <2>4 DEF ThreadStep
<1>2. CASE UserStops BY <1>2, FedSame DEF UserStops
<1>3. CASE UNCHANGED vars BY <1>3, FedSame DEF vars, endVars
<1> QED BY <1>1, <1>2, <1>3 DEF Next

LEMMA InitFed == Init => StopInv /\ FedInv
<1> SUFFICES ASSUME Init PROVE StopInv /\ FedInv OBVIOUS
<1>1. Main \in Threads BY DEF Threads
<1>2. todo[Main] = <<Op("schedule", On(Main), NOPTS)>> BY <1>1 DEF Init
<1>3. receive_finished = {} BY DEF Init
<1> QED BY <1>2, <1>3 DEF StopInv, MainOps, FedInv

(* schedule_update_locked() lets the demuxer run that has to learn from    *)
(* the decoder it feeds that a filter input was closed, and nothing but    *)
(* sch_stop() chokes it again before it has: whenever the lock is free and *)
(* nobody stops the transcode, it is not choked.                           *)
THEOREM ClosedInputsFed == Spec => []ClosedInputsAreFed
<1>1. Init => IInv /\ TypeInv /\ StopInv /\ FedInv BY InitIInv, InitTypeInv, InitFed
<1>2. (IInv /\ TypeInv /\ StopInv /\ FedInv) /\ [Next]_vars
        => (IInv /\ TypeInv /\ StopInv /\ FedInv)'
  BY IInvStep, TypeInvStep, StopInvStep, FedInvStep
<1>3. IInv /\ FedInv => ClosedInputsAreFed
  <2> SUFFICES ASSUME IInv, FedInv, schedule_lock.owner = None, ~ terminate,
                      NEW k \in receive_finished \ send_finished, NEW d \in Demux,
                      Src(k) \in Decoders, Src(On(Src(k))) = d
               PROVE  ~ choked[d]
    BY DEF ClosedInputsAreFed
  <2>1. schedule_lock.sets = {} BY DEF IInv, LockOK
  <2>2. Runs(d) BY DEF FedInv
  <2> QED BY <2>1, <2>2 DEF Runs
<1> QED BY <1>1, <1>2, <1>3, PTL DEF Spec
=============================================================================
