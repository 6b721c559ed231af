------------------------- MODULE FrameThreadProofs -------------------------
(* Proofs about FrameThread, for any number of threads: the assertions of  *)
(* pthread_frame.c hold, nobody sleeps in vain, and hardware acceleration  *)
(* is neither shared nor lost on its way from thread to thread.  Last,     *)
(* FrameThread implements FrameOrder: the jobs of FrameOrder are the       *)
(* results the caller holds and those of the workers in turn.              *)
EXTENDS FrameThread, TLAPS

Parked == upc \in {"flush", "free", "join", "freed"} \/ (upc = "async_lock" /\ op # "receive")
Outside == {"out", "flush", "free", "join", "freed"}

(* Where a worker is, and what its state is meanwhile.                     *)
WorkersInv ==
    \A t \in Workers :
        /\ pc[t] \in {"codec", "hwlock", "async", "publish"} => state[t] = "SETTING_UP"
        /\ pc[t] = "decode" => state[t] = "SETUP_FINISHED"
        /\ pc[t] \in {"release", "unlock", "finish"} => state[t] # "INPUT_READY"
        /\ pc[t] \in {"release", "unlock", "finish"} /\ state[t] = "SETTING_UP" => nomem
        /\ pc[t] = "input" => state[t] # "SETUP_FINISHED"
        /\ pc[t] = "dead" => state[t] = "INPUT_READY" /\ die[t]
        /\ state[t] = "SETTING_UP" => prev_thread = t
        /\ state[t] # "INPUT_READY" => avpkt[t] # None /\ ~ die[t]

(* The caller: what it has in hand, and that it finds all workers parked.  *)
CallerInv ==
    /\ Parked => \A t \in Workers : state[t] = "INPUT_READY"
    /\ upc = "park" => /\ waiting \in Workers /\ op \in {"flush", "free"}
                       /\ \A t \in Workers : t < waiting => state[t] = "INPUT_READY"
    /\ upc \in {"wait_for_result", "free", "join"} => waiting \in Workers
    /\ upc = "async_lock" => op # "none" /\ (op = "free" => waiting \in Workers)
    /\ upc \in {"loop", "prev", "wait_for_result"} => op = "receive"
    /\ \A t \in Workers : die[t] => upc \in {"free", "join", "freed"}
    /\ upc = "prev" => /\ avpkt[next_decoding] # None
                       /\ avpkt[next_decoding] # Drain => taken + 1 \in 1 .. MaxPackets

(* The ring of workers that have a packet, from next_finished on, is never *)
(* full: the result of one is waited for as soon as all are busy.          *)
InRing(t) ==
    IF next_finished <= next_decoding
    THEN next_finished <= t /\ t < next_decoding
    ELSE next_finished <= t \/ t < next_decoding

RingInv ==
    \A t \in Workers :
        state[t] # "INPUT_READY" => InRing(t) \/ (upc = "wait_for_result" /\ waiting = t)

(* Who has the async lock: the caller while it is outside, or one worker.  *)
AsyncInv ==
    /\ upc \in Outside => async_lock
    /\ \A t \in Workers :
        /\ async_serializing[t] => /\ pc[t] \in {"publish", "decode", "release", "unlock"}
                                   /\ async_lock /\ upc \notin Outside
        /\ pc[t] = "unlock" => async_serializing[t]
    /\ \A t, u \in Workers : async_serializing[t] /\ async_serializing[u] => t = u

(* Every instance of the hwaccel is somewhere, once it was created.        *)
RefsOK == HwRefs \subseteq live /\ (live \subseteq HwRefs \/ nomem)

(* An hwaccel that is not thread-safe: a worker has it while it waits to   *)
(* begin, or with hwaccel_mutex.  Until the worker before it gives up the  *)
(* mutex both have it; else it is in the stash, which the one worker that  *)
(* is being set up has emptied.                                            *)
HwSerial ==
    /\ \A t \in Workers :
        /\ ~ hwaccel_threadsafe[t]
        /\ hwaccel[t] # NoHw => \/ pc[t] = "input" /\ state[t] = "SETTING_UP"
                                \/ pc[t] = "hwlock" \/ hwaccel_mutex = t
        /\ hwaccel_mutex = t => /\ pc[t] \in {"codec", "async", "publish", "decode", "release"}
                                /\ pc[t] = "codec" => hwaccel[t] # NoHw
        /\ pc[t] = "hwlock" => hwaccel[t] # NoHw
        /\ state[t] = "SETTING_UP" => stash_hwaccel = NoHw
    /\ \A t \in Workers :
        hwaccel_mutex = t /\ hwaccel[t] # NoHw /\ state[t] = "SETUP_FINISHED" =>
            \/ stash_hwaccel = hwaccel[t]
            \/ \E u \in Workers : /\ pc[u] = "input" /\ state[u] = "SETTING_UP"
                                  /\ hwaccel[u] = hwaccel[t]

(* One that is thread-safe: every worker has an instance of its own.       *)
HwThreadSafe ==
    /\ hwaccel_mutex = None /\ stash_hwaccel = NoHw
    /\ \A t \in Workers : pc[t] # "hwlock" /\ (~ hwaccel_threadsafe[t] => hwaccel[t] = NoHw)
    /\ \A t, u \in Workers : hwaccel[t] = hwaccel[u] /\ hwaccel[t] # NoHw => t = u

HwInv ==
    /\ hwKind = "serial" => HwSerial
    /\ hwKind = "threadsafe" => HwThreadSafe
    /\ RefsOK

LEMMA Data ==
    /\ Workers \subseteq Nat /\ 0 \in Workers /\ None \notin Workers
    /\ Packets \subseteq Nat \ {0} /\ None \notin Packets
    /\ Drain # None /\ Drain \notin Packets
    /\ User \notin Workers
    /\ NoHw \notin HwContexts
BY FrameThreadAssumption DEF Workers, None, User, Packets, NoHw

LEMMA Next1Type ==
    ASSUME NEW i \in Workers
    PROVE  /\ Next1(i) \in Workers
           /\ Next1(i) = IF i = thread_count - 1 THEN 0 ELSE i + 1
BY FrameThreadAssumption, Z3 DEF Workers, Next1

LEMMA Steps ==
    ASSUME [Next]_vars
    PROVE  \/ \E t \in Workers :
                \/ WorkerDie(t) \/ WorkerBegin(t) \/ AllocFail(t) \/ CodecSetup(t)
                \/ SetupHwLock(t) \/ SetupAsync(t) \/ SetupPublish(t) \/ AwaitProgress(t)
                \/ Decode(t) \/ WorkerRelease(t) \/ WorkerAsyncUnlock(t) \/ WorkerFinish(t)
           \/ ReceiveCall \/ ParkCall
           \/ WaitSync \/ NoPacket \/ GetPacket \/ SubmitFails \/ SubmitSleep \/ Submit
           \/ WaitSleep \/ Collect \/ ReturnResult \/ Park \/ AsyncLock \/ Flush
           \/ FreeDie \/ FreeJoin
           \/ \E x \in Workers \cup {User} : SpuriousWakeup(x)
           \/ UNCHANGED vars
BY DEF Next, WorkerStep, InsideStep

-----------------------------------------------------------------------------
(* Type correctness.                                                       *)

LEMMA FramesType ==
    ASSUME NEW k \in Packet
    PROVE  \A fs \in Frames(k) : fs \in Seq(Packet)
<1> SUFFICES ASSUME NEW n \in 0 .. MaxFrames PROVE [i \in 1 .. n |-> k] \in Seq(Packet)
  BY DEF Frames
<1>1. n \in Nat
  BY FrameThreadAssumption
<1> QED  BY <1>1

LEMMA FreshIsContext == FreshHw \subseteq HwContexts /\ FreshHw \cap (live \cup HwRefs) = {}
<1>1. CASE FreeHw = {}
  BY <1>1 DEF FreshHw
<1>2. CASE FreeHw # {}
  <2>1. FreshHw \subseteq FreeHw
    BY <1>2 DEF FreshHw
  <2> QED  BY <2>1 DEF FreeHw
<1> QED  BY <1>1, <1>2

(* Contexts that a worker may be given by another one.                     *)
ContextSet == [hw : HwContexts \cup {NoHw}, live : SUBSET HwContexts, threadsafe : BOOLEAN]

LEMMA ContextsType ==
    ASSUME TypeOK, NEW p \in Workers, NEW q \in Workers \cup {None}
    PROVE  /\ Kept(p) \in ContextSet
           /\ q # None => Updated(p, q) \subseteq ContextSet
           /\ UpdateFailed(p, q) \subseteq ContextSet
           /\ Contexts(p, q) \subseteq ContextSet
<1> USE Data, FreshIsContext DEF ContextSet
<1>1. /\ hwaccel[p] \in HwContexts \cup {NoHw} /\ live \subseteq HwContexts
      /\ hwaccel_threadsafe[p] \in BOOLEAN
  BY DEF TypeOK
<1>2. Kept(p) \in ContextSet
  BY <1>1 DEF Kept
<1>3. \A b \in BOOLEAN : Without(p, b) \in ContextSet
  BY <1>1 DEF Without
<1>4. ASSUME q # None PROVE Updated(p, q) \subseteq ContextSet
  <2>1. CASE hwaccel_threadsafe[q] /\ hwaccel[p] # NoHw
    <3>1. Updated(p, q) = {[hw |-> hwaccel[p], live |-> live, threadsafe |-> TRUE]}
      BY <2>1 DEF Updated, Kept
    <3>2. [hw |-> hwaccel[p], live |-> live, threadsafe |-> TRUE] \in ContextSet
      BY <1>1
    <3> QED  BY <3>1, <3>2
  <2>2. CASE hwaccel_threadsafe[q] /\ hwaccel[p] = NoHw
    <3>1. \A h \in FreshHw :
              [hw |-> h, live |-> live \cup {h}, threadsafe |-> TRUE] \in ContextSet
      BY <1>1
    <3>2. Updated(p, q) = {[hw |-> h, live |-> live \cup {h}, threadsafe |-> TRUE] :
                               h \in FreshHw}
      BY <2>2 DEF Updated
    <3> QED  BY <3>1, <3>2
  <2>3. CASE ~ hwaccel_threadsafe[q]
    BY <1>2, <1>3, <2>3 DEF Updated
  <2> QED  BY <2>1, <2>2, <2>3
<1>5. UpdateFailed(p, q) \subseteq ContextSet
  <2> DEFINE b == hwaccel_threadsafe[p] /\ hwaccel[p] # NoHw
  <2>1. b \in BOOLEAN
    OBVIOUS
  <2>2. Without(p, b) \in ContextSet
    <3> HIDE DEF b
    <3> QED  BY <1>3, <2>1
  <2>3. UpdateFailed(p, q) \subseteq {Kept(p), Without(p, b)}
    BY Zenon DEF UpdateFailed
  <2> QED  BY <1>2, <2>2, <2>3
<1>6. Contexts(p, q) \subseteq ContextSet
  BY <1>2, <1>4 DEF Contexts
<1> QED  BY <1>2, <1>4, <1>5, <1>6

LEMMA WokenType ==
    ASSUME TypeOK, NEW S
    PROVE  Woken(S) \in [Workers \cup {User} -> BOOLEAN]
<1>1. DOMAIN asleep = Workers \cup {User}
  BY DEF TypeOK
<1>2. \A x \in Workers \cup {User} : (asleep[x] /\ x \notin S) \in BOOLEAN
  OBVIOUS
<1> QED  BY <1>1, <1>2 DEF Woken

(* Frames are added to those of one worker.                                *)
LEMMA FramesAdded ==
    ASSUME TypeOK, NEW t \in Workers, NEW fs \in Seq(Packet)
    PROVE  [df EXCEPT ![t] = @ \o fs] \in [Workers \cup {User} -> Seq(Packet)]
<1>1. df \in [Workers \cup {User} -> Seq(Packet)]
  BY DEF TypeOK
<1>2. df[t] \o fs \in Seq(Packet)
  BY <1>1
<1> QED  BY <1>1, <1>2

LEMMA UnfinishedArePackets == TypeOK /\ WorkersInv => Unfinished \subseteq Packets
BY DEF Unfinished, TypeOK, WorkersInv, Packet

LEMMA TypeWorkerStep ==
    ASSUME TypeOK, WorkersInv, NEW t \in Workers, WorkerStep(t)
    PROVE  TypeOK'
<1> USE DEF TypeOK, fctxVars, hwVars, userVars, workerVars, Goto, PcSet
<1>a. t \in Workers \cup {None}
  OBVIOUS
<1>b. pc[t] \in {"codec", "decode"} => avpkt[t] \in Packet
  BY DEF WorkersInv
<1>c. \A h : AfterHwLock(h) \in {"async", "publish"}
  BY DEF AfterHwLock
<1>1. ASSUME WorkerDie(t) PROVE TypeOK'
  BY <1>1 DEF WorkerDie
<1>2. ASSUME WorkerBegin(t) PROVE TypeOK'
  BY <1>2 DEF WorkerBegin
<1>3. ASSUME AllocFail(t) PROVE TypeOK'
  <2>1. PICK fs \in Seq(Packet) : df' = [df EXCEPT ![t] = @ \o fs]
    <3>1. avpkt[t] = Drain => Drain \in Packet
      BY DEF Packet
    <3>2. <<>> \in Seq(Packet)
      OBVIOUS
    <3> QED  BY <1>3, <3>1, <3>2, FramesType DEF AllocFail
  <2>2. df' \in [Workers \cup {User} -> Seq(Packet)]
    BY <2>1, FramesAdded
  <2> QED  BY <1>3, <2>2 DEF AllocFail, Results
<1>4. ASSUME CodecSetup(t) PROVE TypeOK'
  <2>1. /\ hwaccel' \in [Workers -> HwContexts \cup {NoHw}]
        /\ live' \subseteq HwContexts
    <3>1. CASE UNCHANGED <<hwaccel, live>>
      BY <3>1
    <3>2. CASE ~ UNCHANGED <<hwaccel, live>>
      <4>1. PICK h \in {NoHw} \cup FreshHw :
              /\ hwaccel' = [hwaccel EXCEPT ![t] = h]
              /\ live' = (live \ {hwaccel[t]}) \cup ({h} \ {NoHw})
        BY <1>4, <3>2 DEF CodecSetup
      <4>2. h \in HwContexts \cup {NoHw}
        BY FreshIsContext
      <4> QED  BY <4>1, <4>2
    <3> QED  BY <3>1, <3>2
  <2>2. ref' \in [Workers -> Packets \cup {None}]
    BY <1>4, UnfinishedArePackets DEF CodecSetup
  <2>3. hwaccel_threadsafe' \in [Workers -> BOOLEAN]
    BY <1>4 DEF CodecSetup
  <2>4. pc' \in [Workers -> PcSet]
    BY <1>4, <1>c DEF CodecSetup
  <2> QED  BY <1>4, <2>1, <2>2, <2>3, <2>4 DEF CodecSetup
<1>5. ASSUME SetupHwLock(t) PROVE TypeOK'
  BY <1>5, <1>c DEF SetupHwLock
<1>6. ASSUME SetupAsync(t) PROVE TypeOK'
  <2>1. /\ asleep' \in [Workers \cup {User} -> BOOLEAN]
        /\ async_serializing' \in [Workers -> BOOLEAN]
    BY <1>6 DEF SetupAsync
  <2>2. async_lock' \in BOOLEAN /\ pc' \in [Workers -> PcSet]
    BY <1>6 DEF SetupAsync
  <2> QED  BY <1>6, <2>1, <2>2 DEF SetupAsync
<1>7. ASSUME SetupPublish(t) PROVE TypeOK'
  BY <1>7, WokenType DEF SetupPublish
<1>8. ASSUME AwaitProgress(t) PROVE TypeOK'
  BY <1>8 DEF AwaitProgress
<1>9. ASSUME Decode(t) PROVE TypeOK'
  <2>1. PICK fs \in Seq(Packet) : df' = [df EXCEPT ![t] = @ \o fs]
    BY <1>9, <1>b, FramesType DEF Decode
  <2>2. df' \in [Workers \cup {User} -> Seq(Packet)]
    BY <2>1, FramesAdded
  <2>3. \E r \in Results : result' = [result EXCEPT ![t] = r]
    BY <1>9 DEF Decode, Results
  <2>4. result' \in [Workers \cup {User} -> Results]
    BY <2>3
  <2>5. /\ ref' \in [Workers -> Packets \cup {None}] /\ pc' \in [Workers -> PcSet]
        /\ asleep' \in [Workers \cup {User} -> BOOLEAN]
    BY <1>9, WokenType DEF Decode
  <2> QED  BY <1>9, <2>2, <2>4, <2>5 DEF Decode
<1>10. ASSUME WorkerRelease(t) PROVE TypeOK'
  <2>1. /\ hwaccel' \in [Workers -> HwContexts \cup {NoHw}]
        /\ hwaccel_mutex' \in Workers \cup {None}
        /\ pc' \in [Workers -> PcSet]
    BY <1>10 DEF WorkerRelease
  <2> QED  BY <1>10, <2>1 DEF WorkerRelease
<1>11. ASSUME WorkerAsyncUnlock(t) PROVE TypeOK'
  <2>1. /\ async_serializing' \in [Workers -> BOOLEAN] /\ async_lock' \in BOOLEAN
        /\ asleep' \in [Workers \cup {User} -> BOOLEAN] /\ pc' \in [Workers -> PcSet]
    BY <1>11, WokenType DEF WorkerAsyncUnlock
  <2> QED  BY <1>11, <2>1 DEF WorkerAsyncUnlock
<1>12. ASSUME WorkerFinish(t) PROVE TypeOK'
  <2>1. asleep' \in [Workers \cup {User} -> BOOLEAN]
    BY <1>12, WokenType DEF WorkerFinish
  <2>2. /\ state' \in [Workers -> {"INPUT_READY", "SETTING_UP", "SETUP_FINISHED"}]
        /\ avpkt' \in [Workers -> Packet \cup {None}] /\ pc' \in [Workers -> PcSet]
    BY <1>12 DEF WorkerFinish
  <2>3. UNCHANGED <<fctxVars, hwVars, userVars, ref, async_serializing, die, async_lock, df,
                    result, hwKind>>
    BY <1>12 DEF WorkerFinish
  <2> QED  BY <2>1, <2>2, <2>3
<1> QED  BY <1>1, <1>2, <1>3, <1>4, <1>5, <1>6, <1>7, <1>8, <1>9, <1>10, <1>11, <1>12
         DEF WorkerStep

LEMMA WaitForResultType ==
    ASSUME TypeOK, WaitForResult
    PROVE  waiting' \in Workers /\ next_finished' \in Workers /\ upc' = "wait_for_result"
BY Next1Type DEF TypeOK, WaitForResult, UserGoto

LEMMA TypeSubmit ==
    ASSUME TypeOK, CallerInv, Submit
    PROVE  TypeOK'
<1> USE DEF TypeOK
<1> DEFINE p == next_decoding
<1>1. PICK c \in Contexts(p, prev_thread) :
          /\ SetContext(p, Swapped(c))
          /\ stash_hwaccel' = IF c.threadsafe THEN stash_hwaccel ELSE c.hw
  BY DEF Submit
<1>2. c \in ContextSet /\ Swapped(c) \in ContextSet
  <2>1. c \in ContextSet
    BY ContextsType
  <2> QED  BY <2>1 DEF Swapped, ContextSet
<1>3. /\ hwaccel' \in [Workers -> HwContexts \cup {NoHw}]
      /\ live' \subseteq HwContexts
      /\ hwaccel_threadsafe' \in [Workers -> BOOLEAN]
      /\ stash_hwaccel' \in HwContexts \cup {NoHw}
  BY <1>1, <1>2 DEF SetContext, ContextSet
<1>4. /\ state' \in [Workers -> {"INPUT_READY", "SETTING_UP", "SETUP_FINISHED"}]
      /\ asleep' \in [Workers \cup {User} -> BOOLEAN]
      /\ prev_thread' \in Workers \cup {None}
      /\ next_decoding' \in Workers
  BY Next1Type DEF Submit
<1>5. taken' \in 0 .. MaxPackets
  BY FrameThreadAssumption DEF Submit, Taken, CallerInv
<1>6. upc' \in {"loop", "wait_for_result"} /\ next_finished' \in Workers
      /\ waiting' \in Workers \cup {None}
  BY WaitForResultType DEF Submit, UserGoto
<1> QED  BY <1>3, <1>4, <1>5, <1>6 DEF Submit

LEMMA TypeStep == TypeOK /\ WorkersInv /\ CallerInv /\ [Next]_vars => TypeOK'
<1> SUFFICES ASSUME TypeOK, WorkersInv, CallerInv, [Next]_vars PROVE TypeOK'
  OBVIOUS
<1> USE DEF TypeOK, fctxVars, hwVars, userVars, workerVars, UserGoto, Return, Result, Results
<1>1. ASSUME ReceiveCall PROVE TypeOK'
  BY <1>1, WokenType DEF ReceiveCall, Call
<1>2. ASSUME ParkCall PROVE TypeOK'
  <2>1. /\ op' \in {"flush", "free"} /\ upc' = "park" /\ returned' = Result("none")
        /\ async_lock' = FALSE /\ asleep' = Woken(AsyncWaiters)
    BY <1>2 DEF ParkCall, Call
  <2>3. asleep' \in [Workers \cup {User} -> BOOLEAN]
    BY <2>1, WokenType
  <2>2. waiting' \in Workers
    BY <1>2, Data DEF ParkCall
  <2> QED  BY <1>2, <2>1, <2>2, <2>3 DEF ParkCall
<1>3. ASSUME WaitSync PROVE TypeOK'
  BY <1>3, WaitForResultType DEF WaitSync
<1>4. ASSUME NoPacket PROVE TypeOK'
  BY <1>4 DEF NoPacket
<1>5. ASSUME GetPacket PROVE TypeOK'
  <2>1. ~ draining /\ taken < MaxPackets => taken + 1 \in Packets
    BY FrameThreadAssumption DEF Packets
  <2>2. avpkt' \in [Workers -> Packet \cup {None}] /\ draining' \in BOOLEAN
    <3>1. PICK p \in Packet : avpkt' = [avpkt EXCEPT ![next_decoding] = p]
      BY <1>5, <2>1 DEF GetPacket, Packet
    <3>2. draining' \in BOOLEAN
      BY <1>5 DEF GetPacket
    <3> QED  BY <3>1, <3>2
  <2>3. UNCHANGED <<fctxVars, hwVars, async_lock, df, result, asleep, hwKind, op, sync, waiting,
                    taken, returned, pc, ref, state, async_serializing, die>>
    BY <1>5 DEF GetPacket
  <2>4. upc' = "prev"
    BY <1>5 DEF GetPacket
  <2> QED  BY <2>2, <2>3, <2>4
<1>6. ASSUME SubmitFails PROVE TypeOK'
  <2>1. \E c \in ContextSet : SetContext(next_decoding, c)
    <3>1. PICK p \in Workers, q \in Workers \cup {None} : p = next_decoding /\ q = prev_thread
      OBVIOUS
    <3>2. \E c \in {Kept(p)} \cup UpdateFailed(p, q) : SetContext(p, c)
      BY <1>6, <3>1 DEF SubmitFails
    <3>3. {Kept(p)} \cup UpdateFailed(p, q) \subseteq ContextSet
      BY <3>1, ContextsType
    <3> QED  BY <3>1, <3>2, <3>3
  <2>2. /\ hwaccel' \in [Workers -> HwContexts \cup {NoHw}]
        /\ live' \subseteq HwContexts
        /\ hwaccel_threadsafe' \in [Workers -> BOOLEAN]
    BY <2>1 DEF SetContext, ContextSet
  <2>3. taken' \in 0 .. MaxPackets
    BY <1>6, FrameThreadAssumption DEF SubmitFails, Taken, CallerInv
  <2>4. UNCHANGED <<fctxVars, workerVars, async_lock, df, result, asleep, hwKind, op, sync,
                    waiting, draining, stash_hwaccel, hwaccel_mutex, nomem>>
    BY <1>6 DEF SubmitFails
  <2>5. returned'.res = "error" /\ upc' = "async_lock"
    BY <1>6 DEF SubmitFails
  <2> QED  BY <2>2, <2>3, <2>4, <2>5
<1>7. ASSUME SubmitSleep PROVE TypeOK'
  BY <1>7 DEF SubmitSleep
<1>8. ASSUME Submit PROVE TypeOK'
  BY <1>8, TypeSubmit
<1>9. ASSUME WaitSleep PROVE TypeOK'
  BY <1>9 DEF WaitSleep
<1>10. ASSUME Collect PROVE TypeOK'
  <2>1. waiting \in Workers
    BY <1>10 DEF Collect, CallerInv
  <2>2. /\ df' \in [Workers \cup {User} -> Seq(Packet)]
        /\ result' \in [Workers \cup {User} -> Results]
    BY <1>10, <2>1 DEF Collect
  <2>3. waiting' = None /\ upc' = "loop"
    BY <1>10 DEF Collect
  <2>4. UNCHANGED <<fctxVars, hwVars, workerVars, async_lock, asleep, hwKind, op, sync,
                    draining, taken, returned>>
    BY <1>10 DEF Collect
  <2> QED  BY <2>2, <2>3, <2>4
<1>11. ASSUME ReturnResult PROVE TypeOK'
  <2>1. User \in Workers \cup {User} /\ df[User] \in Seq(Packet)
    OBVIOUS
  <2>2. df' \in [Workers \cup {User} -> Seq(Packet)]
    <3>1. CASE df[User] = <<>>
      BY <1>11, <3>1 DEF ReturnResult
    <3>2. CASE df[User] # <<>>
      <4>1. Tail(df[User]) \in Seq(Packet)
        BY <2>1, <3>2
      <4>2. df' = [df EXCEPT ![User] = Tail(df[User])]
        BY <1>11, <3>2 DEF ReturnResult
      <4> QED  BY <4>1, <4>2
    <3> QED  BY <3>1, <3>2
  <2>3. result' \in [Workers \cup {User} -> Results]
    BY <1>11 DEF ReturnResult
  <2>4. returned'.res \in Results \cup {"frame"} /\ upc' = "async_lock"
    BY <1>11, <2>1 DEF ReturnResult
  <2> QED  BY <1>11, <2>2, <2>3, <2>4 DEF ReturnResult
<1>12. ASSUME Park PROVE TypeOK'
  <2>1. waiting \in Workers /\ waiting' \in Workers
    BY <1>12, FrameThreadAssumption DEF Park, CallerInv, Workers
  <2> QED  BY <1>12, <2>1 DEF Park
<1>13. ASSUME AsyncLock PROVE TypeOK'
  <2>1. upc' \in {"async_lock", "out", "flush", "free"}
    BY <1>13 DEF AsyncLock, CallerInv
  <2>2. /\ asleep' \in [Workers \cup {User} -> BOOLEAN] /\ async_lock' \in BOOLEAN
        /\ op' \in {"none", "receive", "flush", "free"} /\ sync' \in BOOLEAN
    BY <1>13 DEF AsyncLock
  <2> QED  BY <1>13, <2>1, <2>2 DEF AsyncLock
<1>14. ASSUME DropResults PROVE /\ next_decoding' \in Workers /\ next_finished' \in Workers
                                /\ prev_thread' \in Workers \cup {None}
                                /\ df' \in [Workers \cup {User} -> Seq(Packet)]
                                /\ result' \in [Workers \cup {User} -> Results]
  BY <1>14, Data DEF DropResults
<1>15. ASSUME Flush PROVE TypeOK'
  <2>1. /\ hwaccel' \in [Workers -> HwContexts \cup {NoHw}]
        /\ live' \subseteq HwContexts
        /\ hwaccel_threadsafe' \in [Workers -> BOOLEAN]
    <3>1. CASE prev_thread \in {None, 0}
      <4>1. UNCHANGED <<hwaccel, live, hwaccel_threadsafe>> BY <1>15, <3>1 DEF Flush
      <4> QED  BY <4>1
    <3>2. CASE prev_thread \notin {None, 0}
      <4>1. \E c \in UpdateFailed(0, prev_thread) \cup Updated(0, prev_thread) : SetContext(0, c)
        BY <1>15, <3>2 DEF Flush
      <4>2. prev_thread \in Workers BY <3>2
      <4>3. \E c \in ContextSet : SetContext(0, c) BY <4>1, <4>2, ContextsType, Data
      <4> QED  BY <4>3, Data DEF SetContext, ContextSet
    <3> QED  BY <3>1, <3>2
  <2>2. DropResults /\ draining' = FALSE /\ waiting' = None /\ upc' = "out"
    BY <1>15 DEF Flush
  <2>3. UNCHANGED <<workerVars, async_lock, asleep, hwKind, op, sync, taken, returned,
                    stash_hwaccel, hwaccel_mutex, nomem>>
    BY <1>15 DEF Flush
  <2>4. /\ next_decoding' \in Workers /\ next_finished' \in Workers
        /\ prev_thread' \in Workers \cup {None}
        /\ df' \in [Workers \cup {User} -> Seq(Packet)]
        /\ result' \in [Workers \cup {User} -> Results]
    BY <1>14, <2>2
  <2>5. /\ state' = state /\ avpkt' = avpkt /\ async_serializing' = async_serializing
        /\ die' = die /\ pc' = pc /\ ref' = ref
    BY <2>3
  <2>6. /\ async_lock' = async_lock /\ hwaccel_mutex' = hwaccel_mutex /\ asleep' = asleep
        /\ stash_hwaccel' = stash_hwaccel /\ op' = op /\ sync' = sync /\ taken' = taken
        /\ returned' = returned /\ hwKind' = hwKind /\ nomem' = nomem
    BY <2>3
  <2>7. draining' = FALSE /\ waiting' = None /\ upc' = "out"
    BY <2>2
  <2>8. /\ state' \in [Workers -> {"INPUT_READY", "SETTING_UP", "SETUP_FINISHED"}]
        /\ avpkt' \in [Workers -> Packet \cup {None}]
        /\ async_serializing' \in [Workers -> BOOLEAN] /\ die' \in [Workers -> BOOLEAN]
        /\ pc' \in [Workers -> PcSet] /\ ref' \in [Workers -> Packets \cup {None}]
    BY <2>5
  <2>9. /\ async_lock' \in BOOLEAN /\ hwaccel_mutex' \in Workers \cup {None}
        /\ stash_hwaccel' \in HwContexts \cup {NoHw}
        /\ asleep' \in [Workers \cup {User} -> BOOLEAN]
        /\ op' \in {"none", "receive", "flush", "free"} /\ sync' \in BOOLEAN
        /\ taken' \in 0 .. MaxPackets
        /\ returned'.res \in Results \cup {"none", "again", "quiet", "frame"}
        /\ hwKind' \in HwKinds /\ nomem' \in BOOLEAN
    BY <2>6
  <2> QED  BY <2>1, <2>4, <2>7, <2>8, <2>9
<1>16. ASSUME FreeDie PROVE TypeOK'
  <2>1. waiting \in Workers
    BY <1>16 DEF FreeDie, CallerInv
  <2> QED  BY <1>16, <2>1 DEF FreeDie
<1>17. ASSUME FreeJoin PROVE TypeOK'
  <2>1. waiting \in Workers /\ (waiting < thread_count - 1 => waiting + 1 \in Workers)
    BY <1>17, FrameThreadAssumption DEF FreeJoin, CallerInv, Workers
  <2>2. hwaccel' \in [Workers -> HwContexts \cup {NoHw}] /\ live' \subseteq HwContexts
    BY <1>17 DEF FreeJoin
  <2>3. CASE waiting < thread_count - 1
    BY <1>17, <2>1, <2>2, <2>3 DEF FreeJoin
  <2>4. CASE ~ (waiting < thread_count - 1)
    <3>1. DropResults /\ waiting' = waiting /\ upc' = "freed" /\ op' = op
          /\ UNCHANGED <<async_lock, asleep, hwKind, sync, draining, taken, returned,
                         hwaccel_threadsafe, stash_hwaccel, hwaccel_mutex, nomem>>
      BY <1>17, <2>4 DEF FreeJoin
    <3>2. UNCHANGED <<state, avpkt, async_serializing, die, pc, ref>>
      BY <1>17 DEF FreeJoin
    <3>3. /\ next_decoding' \in Workers /\ next_finished' \in Workers
          /\ prev_thread' \in Workers \cup {None}
          /\ df' \in [Workers \cup {User} -> Seq(Packet)]
          /\ result' \in [Workers \cup {User} -> Results]
      BY <1>14, <3>1
    <3>4. /\ state' \in [Workers -> {"INPUT_READY", "SETTING_UP", "SETUP_FINISHED"}]
          /\ avpkt' \in [Workers -> Packet \cup {None}]
          /\ async_serializing' \in [Workers -> BOOLEAN]
          /\ die' \in [Workers -> BOOLEAN] /\ pc' \in [Workers -> PcSet]
          /\ ref' \in [Workers -> Packets \cup {None}]
      BY <3>2
    <3>5. /\ asleep' \in [Workers \cup {User} -> BOOLEAN] /\ async_lock' \in BOOLEAN
          /\ hwaccel_threadsafe' \in [Workers -> BOOLEAN]
          /\ returned'.res \in Results \cup {"none", "again", "quiet", "frame"}
      BY <3>1
    <3>6. /\ hwaccel_mutex' = hwaccel_mutex /\ stash_hwaccel' = stash_hwaccel /\ upc' = "freed"
          /\ op' = op /\ sync' = sync /\ draining' = draining /\ waiting' = waiting
          /\ taken' = taken /\ hwKind' = hwKind /\ nomem' = nomem
      BY <3>1
    <3> QED BY <2>2, <3>3, <3>4, <3>5, <3>6
  <2> QED  BY <2>3, <2>4
<1>18. ASSUME NEW x \in Workers \cup {User}, SpuriousWakeup(x) PROVE TypeOK'
  BY <1>18 DEF SpuriousWakeup
<1>19. ASSUME UNCHANGED vars PROVE TypeOK'
  BY <1>19 DEF vars
<1> QED  BY <1>1, <1>2, <1>3, <1>4, <1>5, <1>6, <1>7, <1>8, <1>9, <1>10, <1>11, <1>12, <1>13,
            <1>15, <1>16, <1>17, <1>18, <1>19, TypeWorkerStep DEF Next, InsideStep

-----------------------------------------------------------------------------
(* Control: the states of the workers, the caller's view, the ring.        *)

WorkerOK(t) ==
    /\ pc[t] \in {"codec", "hwlock", "async", "publish"} => state[t] = "SETTING_UP"
    /\ pc[t] = "decode" => state[t] = "SETUP_FINISHED"
    /\ pc[t] \in {"release", "unlock", "finish"} => state[t] # "INPUT_READY"
    /\ pc[t] \in {"release", "unlock", "finish"} /\ state[t] = "SETTING_UP" => nomem
    /\ pc[t] = "input" => state[t] # "SETUP_FINISHED"
    /\ pc[t] = "dead" => state[t] = "INPUT_READY" /\ die[t]
    /\ state[t] = "SETTING_UP" => prev_thread = t
    /\ state[t] # "INPUT_READY" => avpkt[t] # None /\ ~ die[t]

LEMMA WorkersOK == WorkersInv <=> \A t \in Workers : WorkerOK(t)
BY DEF WorkersInv, WorkerOK

(* What a step of a worker leaves alone, and how it moves on.              *)
LEMMA WorkerMoves ==
    ASSUME TypeOK, WorkersInv, NEW t \in Workers, WorkerStep(t)
    PROVE  /\ \A u \in Workers \ {t} :
                 state'[u] = state[u] /\ pc'[u] = pc[u] /\ avpkt'[u] = avpkt[u]
           /\ UNCHANGED <<die, fctxVars, userVars>>
           /\ nomem => nomem'
           /\ state'[t] # "INPUT_READY" => state[t] # "INPUT_READY"
           /\ state[t] = "INPUT_READY" => avpkt'[t] = avpkt[t]
           /\ WorkerOK(t)'
<1> USE DEF TypeOK, fctxVars, hwVars, userVars, workerVars, Goto, WorkerOK
<1>a. WorkerOK(t)
  BY WorkersOK
<1>c. \A h : AfterHwLock(h) \in {"async", "publish"}
  BY DEF AfterHwLock
<1>1. CASE WorkerDie(t)
  <2>1. state[t] = "INPUT_READY"
    BY <1>1, <1>a DEF WorkerDie
  <2> QED  BY <1>1, <1>a, <2>1 DEF WorkerDie
<1>2. CASE WorkerBegin(t)
  BY <1>2, <1>a DEF WorkerBegin
<1>3. CASE AllocFail(t)
  BY <1>3, <1>a DEF AllocFail
<1>4. CASE CodecSetup(t)
  BY <1>4, <1>a, <1>c DEF CodecSetup
<1>5. CASE SetupHwLock(t)
  BY <1>5, <1>a, <1>c DEF SetupHwLock
<1>6. CASE SetupAsync(t)
  BY <1>6, <1>a DEF SetupAsync
<1>7. CASE SetupPublish(t)
  BY <1>7, <1>a DEF SetupPublish
<1>8. CASE AwaitProgress(t)
  BY <1>8, <1>a DEF AwaitProgress
<1>9. CASE Decode(t)
  BY <1>9, <1>a DEF Decode
<1>10. CASE WorkerRelease(t)
  BY <1>10, <1>a DEF WorkerRelease
<1>11. CASE WorkerAsyncUnlock(t)
  BY <1>11, <1>a DEF WorkerAsyncUnlock
<1>12. CASE WorkerFinish(t)
  BY <1>12, <1>a DEF WorkerFinish
<1> QED  BY <1>1, <1>2, <1>3, <1>4, <1>5, <1>6, <1>7, <1>8, <1>9, <1>10, <1>11, <1>12
         DEF WorkerStep

Control == WorkersInv /\ CallerInv /\ RingInv

(* The worker whose turn it is has no packet.                              *)
LEMMA NextIsFree ==
    ASSUME TypeOK, RingInv, upc # "wait_for_result"
    PROVE  state[next_decoding] = "INPUT_READY"
<1>1. next_decoding \in Nat /\ next_finished \in Nat /\ next_decoding \in Workers
  BY Data DEF TypeOK
<1> QED  BY <1>1 DEF RingInv, InRing

LEMMA ControlWorkerStep ==
    ASSUME TypeOK, Control, NEW t \in Workers, WorkerStep(t)
    PROVE  Control'
<1>1. /\ \A u \in Workers \ {t} :
            state'[u] = state[u] /\ pc'[u] = pc[u] /\ avpkt'[u] = avpkt[u]
      /\ UNCHANGED <<die, fctxVars, userVars>>
      /\ nomem => nomem'
      /\ state'[t] # "INPUT_READY" => state[t] # "INPUT_READY"
      /\ state[t] = "INPUT_READY" => avpkt'[t] = avpkt[t]
      /\ WorkerOK(t)'
  BY WorkerMoves DEF Control
<1>2. UNCHANGED <<die, prev_thread, next_decoding, next_finished, upc, op, waiting, taken>>
  BY <1>1 DEF fctxVars, userVars
<1>3. WorkersInv'
  <2>1. ASSUME NEW u \in Workers \ {t} PROVE WorkerOK(u)'
    BY <1>1, <1>2, WorkersOK DEF Control, WorkerOK
  <2> QED  BY <1>1, <2>1 DEF WorkersInv, WorkerOK
<1>4. \A u \in Workers : state[u] = "INPUT_READY" => state'[u] = "INPUT_READY"
  BY <1>1
<1>5. RingInv'
  BY <1>2, <1>4 DEF Control, RingInv, InRing
<1>6. CallerInv'
  <2>1. upc = "prev" => avpkt'[next_decoding] = avpkt[next_decoding]
    BY <1>1, NextIsFree DEF Control, TypeOK
  <2> QED  BY <1>2, <1>4, <2>1 DEF Control, CallerInv, Parked
<1> QED  BY <1>3, <1>5, <1>6 DEF Control

(* The ring from a up to b, exclusive, when either end moves on.           *)
RingAt(a, b, t) == IF a <= b THEN a <= t /\ t < b ELSE a <= t \/ t < b

LEMMA RingMoves ==
    ASSUME NEW a \in Workers, NEW b \in Workers, NEW t \in Workers
    PROVE  /\ RingAt(a, b, t) => t = a \/ RingAt(Next1(a), b, t)
           /\ (RingAt(a, b, t) \/ t = b) /\ Next1(b) # a => RingAt(a, Next1(b), t)
           /\ t = a \/ RingAt(Next1(a), a, t)
<1>1. /\ a \in 0 .. thread_count - 1 /\ b \in 0 .. thread_count - 1 /\ t \in 0 .. thread_count - 1
      /\ thread_count \in Nat
  BY FrameThreadAssumption DEF Workers
<1>2. /\ Next1(a) = IF a = thread_count - 1 THEN 0 ELSE a + 1
      /\ Next1(b) = IF b = thread_count - 1 THEN 0 ELSE b + 1
  BY Next1Type
<1> QED  BY <1>1, <1>2 DEF RingAt

LEMMA RingKept ==
    ASSUME RingInv, UNCHANGED <<next_finished, next_decoding, state>>, upc # "wait_for_result"
    PROVE  RingInv'
BY DEF RingInv, InRing

LEMMA WorkersKept ==
    ASSUME WorkersInv, UNCHANGED <<pc, state, prev_thread, avpkt, die, nomem>>
    PROVE  WorkersInv'
BY DEF WorkersInv

LEMMA RingWait ==
    ASSUME TypeOK, RingInv, upc # "wait_for_result", WaitForResult,
           UNCHANGED <<next_decoding, state>>
    PROVE  RingInv'
<1> SUFFICES ASSUME NEW t \in Workers, state[t] # "INPUT_READY"
             PROVE  InRing(t)' \/ (upc' = "wait_for_result" /\ waiting' = t)
  BY DEF RingInv
<1>1. RingAt(next_finished, next_decoding, t)
  BY DEF RingInv, InRing, RingAt
<1>2. t = next_finished \/ RingAt(Next1(next_finished), next_decoding, t)
  BY <1>1, RingMoves DEF TypeOK
<1> QED  BY <1>2 DEF WaitForResult, UserGoto, InRing, RingAt

LEMMA ControlSubmit ==
    ASSUME TypeOK, Control, Submit
    PROVE  Control'
<1> DEFINE p == next_decoding
<1>1. /\ upc = "prev" /\ ~ SetupPending /\ p \in Workers
      /\ state' = [state EXCEPT ![p] = "SETTING_UP"]
      /\ prev_thread' = p
      /\ next_decoding' = Next1(p)
      /\ UNCHANGED <<op, pc, avpkt, die, nomem>>
      /\ IF next_decoding' # next_finished /\ ~ draining
         THEN UserGoto("loop") /\ UNCHANGED <<waiting, next_finished>>
         ELSE WaitForResult
  BY DEF Submit, TypeOK
<1>2. state[p] = "INPUT_READY" /\ op = "receive" /\ avpkt[p] # None /\ ~ die[p]
  BY <1>1, NextIsFree DEF Control, CallerInv
<1>3. \A t \in Workers : state[t] # "SETTING_UP"
  BY <1>1, Data DEF Control, WorkersInv, SetupPending
<1>4. WorkersInv'
  <2>1. pc[p] = "input"
    BY <1>1, <1>2 DEF Control, WorkersInv, TypeOK, PcSet
  <2>2. ASSUME NEW t \in Workers \ {p} PROVE WorkerOK(t)'
    BY <1>1, <1>3, WorkersOK DEF Control, WorkerOK, TypeOK
  <2>3. ASSUME NEW t \in Workers, t = p PROVE WorkerOK(t)'
    BY <1>1, <1>2, <2>1, <2>3 DEF WorkerOK, TypeOK
  <2>4. \A t \in Workers : WorkerOK(t)'
    BY <2>2, <2>3
  <2> QED  BY <2>4 DEF WorkerOK, WorkersInv
<1>5. RingInv'
  <2> SUFFICES ASSUME NEW t \in Workers, state'[t] # "INPUT_READY"
               PROVE  InRing(t)' \/ (upc' = "wait_for_result" /\ waiting' = t)
    BY DEF RingInv
  <2>1. RingAt(next_finished, p, t) \/ t = p
    BY <1>1 DEF Control, RingInv, InRing, RingAt, TypeOK
  <2>2. next_finished \in Workers
    BY DEF TypeOK
  <2>3. CASE next_decoding' # next_finished
    <3>1. RingAt(next_finished, next_decoding', t)
      BY <1>1, <2>1, <2>2, <2>3, RingMoves
    <3>2. t = next_finished \/ RingAt(Next1(next_finished), next_decoding', t)
      BY <1>1, <2>2, <3>1, RingMoves, Next1Type
    <3> QED  BY <1>1, <3>1, <3>2 DEF WaitForResult, UserGoto, InRing, RingAt
  <2>4. CASE next_decoding' = next_finished
    <3>1. t = next_finished \/ RingAt(Next1(next_finished), next_finished, t)
      BY <2>2, RingMoves
    <3> QED  BY <1>1, <2>4, <3>1 DEF WaitForResult, UserGoto, InRing, RingAt
  <2> QED  BY <2>3, <2>4
<1>6. CallerInv'
  <2>1. upc' \in {"loop", "wait_for_result"} /\ op' = "receive"
    BY <1>1, <1>2 DEF WaitForResult, UserGoto
  <2>2. upc' = "wait_for_result" => waiting' \in Workers
    BY <1>1, WaitForResultType DEF UserGoto
  <2>3. \A t \in Workers : ~ die'[t]
    BY <1>1 DEF Control, CallerInv
  <2> QED  BY <2>1, <2>2, <2>3 DEF CallerInv, Parked
<1> QED  BY <1>4, <1>5, <1>6 DEF Control

LEMMA ControlStep == TypeOK /\ Control /\ [Next]_vars => Control'
<1> SUFFICES ASSUME TypeOK, Control, [Next]_vars PROVE Control'
  OBVIOUS
<1> USE DEF fctxVars, hwVars, userVars, workerVars, UserGoto, Return
<1>1. ASSUME ReceiveCall PROVE Control'
  <2>1. RingInv' /\ WorkersInv'
    BY <1>1, RingKept, WorkersKept DEF Control, ReceiveCall, Call
  <2>2. CallerInv'
    BY <1>1 DEF Control, CallerInv, Parked, ReceiveCall, Call
  <2> QED  BY <2>1, <2>2 DEF Control
<1>2. ASSUME ParkCall PROVE Control'
  <2>1. RingInv' /\ WorkersInv'
    BY <1>2, RingKept, WorkersKept DEF Control, ParkCall, Call
  <2>2. upc' = "park" /\ waiting' = 0 /\ op' \in {"flush", "free"} /\ UNCHANGED <<die, state>>
    BY <1>2 DEF ParkCall, Call
  <2>3. \A t \in Workers : ~ die[t] /\ ~ (t < 0)
    BY <1>2, Data DEF Control, CallerInv, ParkCall, Call
  <2>4. CallerInv'
    BY <2>2, <2>3, Data DEF CallerInv, Parked
  <2> QED  BY <2>1, <2>4 DEF Control
<1>3. ASSUME WaitSync PROVE Control'
  <2>1. RingInv' /\ WorkersInv'
    BY <1>3, RingWait, WorkersKept DEF Control, WaitSync
  <2>2. CallerInv'
    BY <1>3, WaitForResultType DEF Control, CallerInv, Parked, WaitSync
  <2> QED  BY <2>1, <2>2 DEF Control
<1>4. ASSUME NoPacket PROVE Control'
  <2>1. RingInv' /\ WorkersInv'
    BY <1>4, RingKept, WorkersKept DEF Control, NoPacket, WantsPacket
  <2>2. CallerInv'
    BY <1>4 DEF Control, CallerInv, Parked, NoPacket, WantsPacket
  <2> QED  BY <2>1, <2>2 DEF Control
<1>5. ASSUME GetPacket PROVE Control'
  <2>1. RingInv'
    BY <1>5, RingKept DEF Control, GetPacket, WantsPacket
  <2>2. /\ upc = "loop" /\ upc' = "prev"
        /\ UNCHANGED <<die, state, pc, prev_thread, nomem, next_decoding, taken, op>>
        /\ \A u \in Workers \ {next_decoding} : avpkt'[u] = avpkt[u]
        /\ avpkt'[next_decoding] # None
        /\ avpkt'[next_decoding] # Drain => taken + 1 \in 1 .. MaxPackets
    BY <1>5, Data, FrameThreadAssumption DEF GetPacket, WantsPacket, TypeOK, None
  <2>3. WorkersInv'
    BY <2>2 DEF Control, WorkersInv
  <2>4. CallerInv'
    BY <2>2 DEF Control, CallerInv, Parked
  <2> QED  BY <2>1, <2>3, <2>4 DEF Control
<1>6. ASSUME SubmitFails PROVE Control'
  <2>1. RingInv' /\ WorkersInv'
    BY <1>6, RingKept, WorkersKept DEF Control, SubmitFails
  <2>2. CallerInv'
    BY <1>6 DEF Control, CallerInv, Parked, SubmitFails
  <2> QED  BY <2>1, <2>2 DEF Control
<1>7. ASSUME SubmitSleep PROVE Control'
  BY <1>7 DEF Control, WorkersInv, CallerInv, RingInv, Parked, InRing, SubmitSleep
<1>8. ASSUME Submit PROVE Control'
  BY <1>8, ControlSubmit
<1>9. ASSUME WaitSleep PROVE Control'
  BY <1>9 DEF Control, WorkersInv, CallerInv, RingInv, Parked, InRing, WaitSleep
<1>10. ASSUME Collect PROVE Control'
  <2>1. WorkersInv'
    BY <1>10, WorkersKept DEF Control, Collect
  <2>2. RingInv'
    BY <1>10 DEF Control, RingInv, InRing, Collect
  <2>3. CallerInv'
    BY <1>10 DEF Control, CallerInv, Parked, Collect
  <2> QED  BY <2>1, <2>2, <2>3 DEF Control
<1>11. ASSUME ReturnResult PROVE Control'
  <2>1. UNCHANGED <<fctxVars, hwVars, workerVars, waiting, op, taken>>
        /\ upc = "loop" /\ upc' = "async_lock"
    BY <1>11 DEF ReturnResult
  <2>2. RingInv' /\ WorkersInv'
    BY <2>1, RingKept, WorkersKept DEF Control
  <2>3. CallerInv'
    BY <2>1 DEF Control, CallerInv, Parked
  <2> QED  BY <2>2, <2>3 DEF Control
<1>12. ASSUME Park PROVE Control'
  <2>1. RingInv' /\ WorkersInv'
    BY <1>12, RingKept, WorkersKept DEF Control, Park
  <2>2. /\ waiting \in Workers /\ state[waiting] = "INPUT_READY"
        /\ \A t \in Workers : t < waiting => state[t] = "INPUT_READY"
    BY <1>12 DEF Control, CallerInv, Park
  <2>3. \A t \in Workers : t < waiting + 1 => state[t] = "INPUT_READY"
    BY <2>2, Data
  <2>4. CASE waiting < thread_count - 1
    <3>1. waiting + 1 \in Workers
      BY <2>2, <2>4, FrameThreadAssumption DEF Workers
    <3> QED  BY <1>12, <2>1, <2>3, <2>4, <3>1 DEF Control, CallerInv, Parked, Park
  <2>5. CASE ~ (waiting < thread_count - 1)
    <3>1. \A t \in Workers : t < waiting + 1
      BY <2>2, <2>5, FrameThreadAssumption DEF Workers
    <3> QED  BY <1>12, <2>1, <2>3, <2>5, <3>1, Data DEF Control, CallerInv, Parked, Park
  <2> QED  BY <2>4, <2>5
<1>13. ASSUME AsyncLock PROVE Control'
  <2>1. RingInv' /\ WorkersInv'
    BY <1>13, RingKept, WorkersKept DEF Control, AsyncLock
  <2>2. CASE async_lock
    BY <1>13, <2>1, <2>2 DEF Control, CallerInv, Parked, AsyncLock
  <2>3. CASE ~ async_lock
    <3>1. upc' \in {"out", "flush", "free"} /\ (upc' = "out" \/ op # "receive")
          /\ (upc' = "free" => op = "free")
      BY <1>13, <2>3 DEF Control, CallerInv, AsyncLock, TypeOK
    <3>2. UNCHANGED <<die, state, waiting>> /\ upc = "async_lock"
      BY <1>13 DEF AsyncLock
    <3> QED  BY <2>1, <3>1, <3>2 DEF Control, CallerInv, Parked
  <2> QED  BY <2>2, <2>3
<1>14. ASSUME Parked, UNCHANGED <<state, pc, avpkt, die, nomem>>,
              prev_thread' # prev_thread => prev_thread' = None
       PROVE  WorkersInv' /\ RingInv'
  BY <1>14 DEF Control, WorkersInv, CallerInv, RingInv
<1>15. ASSUME Flush PROVE Control'
  <2>1. Parked /\ UNCHANGED <<state, pc, avpkt, die, nomem>> /\ prev_thread' = None
        /\ upc' = "out"
    BY <1>15 DEF Flush, DropResults, Parked
  <2>2. CallerInv'
    BY <1>15, <2>1 DEF Control, CallerInv, Parked, Flush
  <2> QED  BY <1>14, <2>1, <2>2 DEF Control
<1>16. ASSUME FreeDie PROVE Control'
  <2>1. upc = "free" /\ upc' = "join" /\ waiting' = waiting
        /\ UNCHANGED <<state, pc, avpkt, nomem, fctxVars>>
    BY <1>16 DEF FreeDie
  <2>2. \A t \in Workers : state[t] = "INPUT_READY"
    BY <2>1 DEF Control, CallerInv, Parked
  <2>3. waiting \in Workers /\ die' = [die EXCEPT ![waiting] = TRUE]
    BY <1>16, <2>1 DEF FreeDie, Control, CallerInv
  <2>4. \A t \in Workers : die[t] => die'[t]
    BY <2>3 DEF TypeOK
  <2>5. WorkersInv' /\ RingInv'
    BY <2>1, <2>2, <2>4 DEF Control, WorkersInv, RingInv
  <2>6. CallerInv'
    BY <2>1, <2>2 DEF Control, CallerInv, Parked
  <2> QED  BY <2>5, <2>6 DEF Control
<1>17. ASSUME FreeJoin PROVE Control'
  <2>1. /\ upc = "join" /\ upc' \in {"free", "freed"}
        /\ UNCHANGED <<state, pc, avpkt, die, nomem>>
        /\ prev_thread' # prev_thread => prev_thread' = None
    BY <1>17 DEF FreeJoin, DropResults
  <2>2. WorkersInv' /\ RingInv'
    BY <1>14, <2>1 DEF Parked
  <2>3. \A t \in Workers : state[t] = "INPUT_READY"
    BY <2>1 DEF Control, CallerInv, Parked
  <2>4. upc' = "free" => waiting' \in Workers
    BY <1>17, FrameThreadAssumption DEF FreeJoin, Control, CallerInv, Workers
  <2>5. CallerInv'
    BY <2>1, <2>3, <2>4 DEF Control, CallerInv, Parked
  <2> QED  BY <2>2, <2>5 DEF Control
<1>18. ASSUME NEW x \in Workers \cup {User}, SpuriousWakeup(x) PROVE Control'
  BY <1>18 DEF Control, WorkersInv, CallerInv, RingInv, Parked, InRing, SpuriousWakeup
<1>19. ASSUME UNCHANGED vars PROVE Control'
  BY <1>19 DEF Control, WorkersInv, CallerInv, RingInv, Parked, InRing, vars
<1> QED  BY <1>1, <1>2, <1>3, <1>4, <1>5, <1>6, <1>7, <1>8, <1>9, <1>10, <1>11, <1>12, <1>13,
            <1>15, <1>16, <1>17, <1>18, <1>19, ControlWorkerStep DEF Next, InsideStep

-----------------------------------------------------------------------------
(* The async lock.                                                         *)

LEMMA AsyncWorkerStep ==
    ASSUME TypeOK, AsyncInv, NEW t \in Workers, WorkerStep(t)
    PROVE  AsyncInv'
<1> USE DEF TypeOK, AsyncInv, fctxVars, hwVars, userVars, workerVars, Goto
<1>c. \A h : AfterHwLock(h) \in {"async", "publish"}
  BY DEF AfterHwLock
<1>1. CASE WorkerDie(t)
  BY <1>1 DEF WorkerDie
<1>2. CASE WorkerBegin(t)
  BY <1>2 DEF WorkerBegin
<1>3. CASE AllocFail(t)
  BY <1>3 DEF AllocFail
<1>4. CASE CodecSetup(t)
  BY <1>4, <1>c DEF CodecSetup
<1>5. CASE SetupHwLock(t)
  BY <1>5, <1>c DEF SetupHwLock
<1>6. CASE SetupAsync(t)
  <2>1. CASE pc' = pc
    BY <1>6, <2>1 DEF SetupAsync
  <2>2. CASE pc' # pc
    <3>1. /\ pc[t] = "async" /\ ~ async_lock /\ async_lock'
          /\ async_serializing' = [async_serializing EXCEPT ![t] = TRUE]
          /\ pc' = [pc EXCEPT ![t] = "publish"]
          /\ upc' = upc
      BY <1>6, <2>2 DEF SetupAsync
    <3>2. /\ \A u \in Workers : ~ async_serializing[u]
          /\ upc \notin Outside
      BY <3>1
    <3> QED  BY <3>1, <3>2
  <2> QED  BY <2>1, <2>2
<1>7. CASE SetupPublish(t)
  BY <1>7 DEF SetupPublish
<1>8. CASE AwaitProgress(t)
  BY <1>8 DEF AwaitProgress
<1>9. CASE Decode(t)
  BY <1>9 DEF Decode
<1>10. CASE WorkerRelease(t)
  BY <1>10 DEF WorkerRelease
<1>11. CASE WorkerAsyncUnlock(t)
  <2>1. /\ pc[t] = "unlock" /\ async_serializing[t] /\ upc \notin Outside
        /\ async_serializing' = [async_serializing EXCEPT ![t] = FALSE]
        /\ pc' = [pc EXCEPT ![t] = "finish"]
        /\ upc' = upc
    BY <1>11 DEF WorkerAsyncUnlock
  <2>2. \A u \in Workers : ~ async_serializing'[u]
    BY <2>1
  <2> QED  BY <2>1, <2>2
<1>12. CASE WorkerFinish(t)
  BY <1>12 DEF WorkerFinish
<1> QED  BY <1>1, <1>2, <1>3, <1>4, <1>5, <1>6, <1>7, <1>8, <1>9, <1>10, <1>11, <1>12
         DEF WorkerStep

LEMMA AsyncStep == TypeOK /\ CallerInv /\ AsyncInv /\ [Next]_vars => AsyncInv'
<1> SUFFICES ASSUME TypeOK, CallerInv, AsyncInv, [Next]_vars PROVE AsyncInv'
  OBVIOUS
<1> USE DEF fctxVars, hwVars, userVars, workerVars, UserGoto, Return
<1>1. ASSUME ReceiveCall \/ ParkCall PROVE AsyncInv'
  <2>1. upc = "out" /\ upc' \notin Outside /\ UNCHANGED workerVars
    BY <1>1 DEF ReceiveCall, ParkCall, Call, Outside
  <2> QED  BY <2>1 DEF AsyncInv, Outside
<1>2. ASSUME UNCHANGED <<async_lock, async_serializing, pc>>, upc' \in Outside <=> upc \in Outside
      PROVE  AsyncInv'
  BY <1>2 DEF AsyncInv
<1>3. ASSUME WaitSync \/ NoPacket \/ GetPacket \/ SubmitFails \/ SubmitSleep PROVE AsyncInv'
  <2>1. upc' \notin Outside /\ upc \notin Outside
    BY <1>3 DEF Outside, WaitSync, WaitForResult, NoPacket, WantsPacket, GetPacket, SubmitFails,
                SubmitSleep
  <2>2. UNCHANGED <<async_lock, async_serializing, pc>>
    BY <1>3 DEF WaitSync, NoPacket, GetPacket, SubmitFails, SubmitSleep
  <2> QED  BY <1>2, <2>1, <2>2
<1>4. ASSUME Submit \/ WaitSleep \/ Collect \/ ReturnResult \/ Park PROVE AsyncInv'
  <2>1. upc' \notin Outside /\ upc \notin Outside
    BY <1>4 DEF Outside, Submit, WaitForResult, WaitSleep, Collect, ReturnResult, Park
  <2>2. UNCHANGED <<async_lock, async_serializing, pc>>
    BY <1>4 DEF Submit, WaitSleep, Collect, ReturnResult, Park
  <2> QED  BY <1>2, <2>1, <2>2
<1>5. ASSUME AsyncLock PROVE AsyncInv'
  <2>1. upc = "async_lock" /\ UNCHANGED <<async_serializing, pc>> /\ async_lock'
    BY <1>5 DEF AsyncLock
  <2>2. async_lock => upc' = upc
    BY <1>5 DEF AsyncLock
  <2> QED  BY <2>1, <2>2 DEF AsyncInv, Outside
<1>6. ASSUME Flush \/ FreeDie \/ FreeJoin PROVE AsyncInv'
  <2>1. upc' \in Outside /\ upc \in Outside
    BY <1>6 DEF Outside, Flush, FreeDie, FreeJoin
  <2>2. UNCHANGED <<async_lock, async_serializing, pc>>
    BY <1>6 DEF Flush, FreeDie, FreeJoin
  <2> QED  BY <1>2, <2>1, <2>2
<1>7. ASSUME NEW x \in Workers \cup {User}, SpuriousWakeup(x) PROVE AsyncInv'
  BY <1>2, <1>7 DEF SpuriousWakeup
<1>8. ASSUME UNCHANGED vars PROVE AsyncInv'
  BY <1>2, <1>8 DEF vars
<1> QED  BY <1>1, <1>3, <1>4, <1>5, <1>6, <1>7, <1>8, AsyncWorkerStep DEF Next, InsideStep

-----------------------------------------------------------------------------
(* Nobody sleeps in vain.                                                  *)

(* What worker t and the caller may be asleep for.                         *)
WorkerMaySleep(t) ==
    \/ pc[t] = "input" /\ state[t] = "INPUT_READY" /\ ~ die[t]
    \/ pc[t] = "async" /\ async_lock
    \/ pc[t] = "decode" /\ ref[t] \in Unfinished
UserMaySleep ==
    \/ upc = "prev" /\ SetupPending
    \/ upc \in {"wait_for_result", "park"} /\ state[waiting] # "INPUT_READY"
    \/ upc = "async_lock" /\ async_lock

LEMMA Sleepers ==
    SleepersNotForgotten <=> /\ \A t \in Workers : asleep[t] => WorkerMaySleep(t)
                             /\ asleep[User] => UserMaySleep
BY DEF SleepersNotForgotten, WorkerMaySleep, UserMaySleep

LEMMA WokenAre ==
    ASSUME TypeOK, NEW S, NEW x \in Workers \cup {User}
    PROVE  Woken(S)[x] <=> asleep[x] /\ x \notin S
BY DEF TypeOK, Woken

LEMMA UnfinishedKept ==
    ASSUME NEW t \in Workers,
           \A u \in Workers \ {t} : state'[u] = state[u] /\ pc'[u] = pc[u] /\ avpkt'[u] = avpkt[u]
    PROVE  \A k \in Unfinished : k \in Unfinished' \/ (pc[t] = "decode" /\ avpkt[t] = k)
BY DEF Unfinished

(* A worker that is not asleep moves on and nobody waits for that.         *)
LEMMA QuietWorkerStep ==
    ASSUME SleepersNotForgotten, NEW t \in Workers, ~ asleep[t], pc[t] # "decode",
           UNCHANGED <<asleep, async_lock, state, avpkt, die, upc, prev_thread, waiting>>,
           \A u \in Workers \ {t} : pc'[u] = pc[u] /\ ref'[u] = ref[u]
    PROVE  SleepersNotForgotten'
<1>1. \A u \in Workers \ {t} : WorkerMaySleep(u) => WorkerMaySleep(u)'
  BY UnfinishedKept DEF WorkerMaySleep
<1>2. UserMaySleep => UserMaySleep'
  BY DEF UserMaySleep, SetupPending
<1>3. /\ \A u \in Workers : asleep'[u] => WorkerMaySleep(u)'
      /\ asleep'[User] => UserMaySleep'
  BY <1>1, <1>2, Sleepers
<1> QED  BY <1>3 DEF SleepersNotForgotten, WorkerMaySleep, UserMaySleep

LEMMA SleepersWorkerStep ==
    ASSUME TypeOK, Control, SleepersNotForgotten, NEW t \in Workers, WorkerStep(t)
    PROVE  SleepersNotForgotten'
<1> USE DEF fctxVars, hwVars, userVars, workerVars, Goto
<1>a. pc[t] \in {"codec", "hwlock", "publish", "release", "unlock", "finish"} => ~ asleep[t]
  BY Sleepers DEF WorkerMaySleep
<1>b. t # User /\ User \in Workers \cup {User}
  BY Data
<1>d. ASSUME \A u \in Workers : asleep'[u] => WorkerMaySleep(u)', asleep'[User] => UserMaySleep'
      PROVE  SleepersNotForgotten'
  BY <1>d DEF SleepersNotForgotten, WorkerMaySleep, UserMaySleep
<1>e. /\ \A u \in Workers \ {t} :
            state'[u] = state[u] /\ pc'[u] = pc[u] /\ avpkt'[u] = avpkt[u]
      /\ UNCHANGED <<die, upc, waiting, prev_thread>>
  BY WorkerMoves DEF Control
<1>g. upc \in {"wait_for_result", "park"} => waiting \in Workers
  BY DEF Control, CallerInv
<1>f. \A k \in Unfinished : k \in Unfinished' \/ (pc[t] = "decode" /\ avpkt[t] = k)
  BY <1>e, UnfinishedKept
<1>1. CASE WorkerDie(t) \/ WorkerBegin(t) \/ WorkerRelease(t)
  <2>1. ~ asleep[t] /\ pc[t] # "decode"
    BY <1>1, <1>a DEF WorkerDie, WorkerBegin, WorkerRelease
  <2>2. UNCHANGED <<asleep, async_lock, state, avpkt, die, upc, prev_thread, waiting, ref>>
    BY <1>1 DEF WorkerDie, WorkerBegin, WorkerRelease
  <2> QED  BY <1>e, <2>1, <2>2, QuietWorkerStep
<1>2. CASE AllocFail(t) \/ CodecSetup(t) \/ SetupHwLock(t)
  <2>1. ~ asleep[t] /\ pc[t] # "decode"
    BY <1>2, <1>a DEF AllocFail, CodecSetup, SetupHwLock
  <2>2. /\ UNCHANGED <<asleep, async_lock, state, avpkt, die, upc, prev_thread, waiting>>
        /\ \A u \in Workers \ {t} : ref'[u] = ref[u]
    BY <1>2 DEF AllocFail, CodecSetup, SetupHwLock, TypeOK
  <2> QED  BY <1>e, <2>1, <2>2, QuietWorkerStep
<1>3. CASE SetupAsync(t)
  <2>1. /\ async_lock' /\ pc[t] = "async" /\ UNCHANGED <<ref, state>>
        /\ \A x \in Workers \cup {User} : x # t => asleep'[x] = asleep[x]
        /\ asleep'[t] => pc'[t] = "async"
    BY <1>3 DEF SetupAsync, TypeOK
  <2>2. \A u \in Workers \ {t} : WorkerMaySleep(u) => WorkerMaySleep(u)'
    BY <1>e, <1>f, <2>1 DEF WorkerMaySleep
  <2>3. UserMaySleep => UserMaySleep'
    BY <1>e, <2>1 DEF UserMaySleep, SetupPending
  <2>4. asleep'[t] => WorkerMaySleep(t)'
    BY <2>1 DEF WorkerMaySleep
  <2> QED  BY <1>b, <1>d, <2>1, <2>2, <2>3, <2>4, Sleepers
<1>4. CASE SetupPublish(t)
  <2>1. /\ pc[t] = "publish" /\ UNCHANGED <<ref, async_lock>>
        /\ state'[t] = "SETUP_FINISHED"
        /\ asleep' = Woken(ProgressWaiters(t))
    BY <1>4 DEF SetupPublish, TypeOK
  <2>2. \A x \in Workers \cup {User} : asleep'[x] => asleep[x] /\ x \notin ProgressWaiters(t)
    BY <2>1, WokenAre
  <2>3. \A u \in Workers \ {t} : WorkerMaySleep(u) => WorkerMaySleep(u)'
    BY <1>e, <1>f, <2>1 DEF WorkerMaySleep
  <2>4. UserMaySleep => UserMaySleep' \/ (upc = "prev" /\ prev_thread = t)
    <3>1. CASE upc = "prev" /\ SetupPending
      BY <1>e, <3>1 DEF UserMaySleep, SetupPending, TypeOK
    <3>2. CASE upc \in {"wait_for_result", "park"} /\ state[waiting] # "INPUT_READY"
      BY <1>e, <1>g, <2>1, <3>2 DEF UserMaySleep
    <3>3. CASE upc = "async_lock" /\ async_lock
      BY <1>e, <2>1, <3>3 DEF UserMaySleep
    <3> QED  BY <3>1, <3>2, <3>3 DEF UserMaySleep
  <2>5. upc = "prev" /\ prev_thread = t => User \in ProgressWaiters(t)
    BY DEF ProgressWaiters
  <2> QED  BY <1>a, <1>b, <1>d, <2>1, <2>2, <2>3, <2>4, <2>5, Sleepers
<1>5. CASE AwaitProgress(t)
  <2>1. /\ UNCHANGED <<ref, async_lock, state, pc, avpkt>>
        /\ \A x \in Workers \cup {User} : x # t => asleep'[x] = asleep[x]
        /\ pc[t] = "decode" /\ ref[t] \in Unfinished
    BY <1>5 DEF AwaitProgress, TypeOK
  <2>2. Unfinished' = Unfinished
    BY <2>1 DEF Unfinished
  <2>3. \A u \in Workers : WorkerMaySleep(u) => WorkerMaySleep(u)'
    BY <1>e, <2>1, <2>2 DEF WorkerMaySleep
  <2>4. UserMaySleep => UserMaySleep'
    BY <1>e, <2>1 DEF UserMaySleep, SetupPending
  <2>5. WorkerMaySleep(t)'
    BY <2>1, <2>2 DEF WorkerMaySleep
  <2> QED  BY <1>b, <1>d, <2>1, <2>3, <2>4, <2>5, Sleepers
<1>6. CASE Decode(t)
  <2>1. /\ pc[t] = "decode" /\ ~ asleep[t] /\ UNCHANGED <<async_lock, state, avpkt>>
        /\ \A u \in Workers \ {t} : ref'[u] = ref[u]
        /\ asleep' = Woken(ProgressWaiters(t))
    BY <1>6 DEF Decode, TypeOK
  <2>2. \A x \in Workers \cup {User} : asleep'[x] => asleep[x] /\ x \notin ProgressWaiters(t)
    BY <2>1, WokenAre
  <2>3. \A u \in Workers \ {t} :
            WorkerMaySleep(u) => WorkerMaySleep(u)' \/ (pc[u] = "decode" /\ ref[u] = avpkt[t])
    BY <1>e, <1>f, <2>1 DEF WorkerMaySleep
  <2>4. UserMaySleep => UserMaySleep'
    BY <1>e, <2>1 DEF UserMaySleep, SetupPending
  <2>5. \A u \in Workers : pc[u] = "decode" /\ ref[u] = avpkt[t] => u \in ProgressWaiters(t)
    BY DEF ProgressWaiters
  <2> QED  BY <1>b, <1>d, <2>1, <2>2, <2>3, <2>4, <2>5, Sleepers
<1>7. CASE WorkerAsyncUnlock(t)
  <2>1. /\ pc[t] = "unlock" /\ UNCHANGED <<ref, state>>
        /\ asleep' = Woken(AsyncWaiters)
    BY <1>7 DEF WorkerAsyncUnlock
  <2>2. \A x \in Workers \cup {User} : asleep'[x] => asleep[x] /\ x \notin AsyncWaiters
    BY <2>1, WokenAre
  <2>3. \A u \in Workers \ {t} : WorkerMaySleep(u) => WorkerMaySleep(u)' \/ pc[u] = "async"
    BY <1>e, <1>f, <2>1 DEF WorkerMaySleep
  <2>4. UserMaySleep => UserMaySleep' \/ upc = "async_lock"
    BY <1>e, <2>1 DEF UserMaySleep, SetupPending
  <2>5. /\ \A u \in Workers : pc[u] = "async" => u \in AsyncWaiters
        /\ upc = "async_lock" => User \in AsyncWaiters
    BY DEF AsyncWaiters
  <2> QED  BY <1>a, <1>b, <1>d, <2>1, <2>2, <2>3, <2>4, <2>5, Sleepers
<1>8. CASE WorkerFinish(t)
  <2>1. /\ pc[t] = "finish" /\ UNCHANGED <<ref, async_lock>>
        /\ state'[t] = "INPUT_READY" /\ pc'[t] = "input"
        /\ asleep' = [Woken(ProgressWaiters(t) \cup OutputWaiters(t)) EXCEPT ![t] = TRUE]
    BY <1>8 DEF WorkerFinish, TypeOK
  <2>2. \A x \in Workers \cup {User} : x # t /\ asleep'[x] =>
            asleep[x] /\ x \notin ProgressWaiters(t) /\ x \notin OutputWaiters(t)
    <3>1. Woken(ProgressWaiters(t) \cup OutputWaiters(t)) \in [Workers \cup {User} -> BOOLEAN]
      BY WokenType
    <3>2. \A x \in Workers \cup {User} : x # t =>
              asleep'[x] = Woken(ProgressWaiters(t) \cup OutputWaiters(t))[x]
      BY <2>1, <3>1
    <3> QED  BY <3>2, WokenAre
  <2>3. \A u \in Workers \ {t} : WorkerMaySleep(u) => WorkerMaySleep(u)'
    BY <1>e, <1>f, <2>1 DEF WorkerMaySleep
  <2>4. UserMaySleep => UserMaySleep' \/ (upc = "prev" /\ prev_thread = t)
                                      \/ (upc \in {"wait_for_result", "park"} /\ waiting = t)
    <3>1. CASE upc = "prev" /\ SetupPending
      BY <1>e, <3>1 DEF UserMaySleep, SetupPending, TypeOK
    <3>2. CASE upc \in {"wait_for_result", "park"} /\ state[waiting] # "INPUT_READY"
      BY <1>e, <1>g, <3>2 DEF UserMaySleep
    <3>3. CASE upc = "async_lock" /\ async_lock
      BY <1>e, <2>1, <3>3 DEF UserMaySleep
    <3> QED  BY <3>1, <3>2, <3>3 DEF UserMaySleep
  <2>5. /\ upc = "prev" /\ prev_thread = t => User \in ProgressWaiters(t)
        /\ upc \in {"wait_for_result", "park"} /\ waiting = t => User \in OutputWaiters(t)
    BY DEF ProgressWaiters, OutputWaiters
  <2>6. WorkerMaySleep(t)'
    BY <1>e, <2>1 DEF WorkerMaySleep, Control, WorkersInv
  <2> QED  BY <1>b, <1>d, <2>2, <2>3, <2>4, <2>5, <2>6, Sleepers
<1> QED  BY <1>1, <1>2, <1>3, <1>4, <1>5, <1>6, <1>7, <1>8 DEF WorkerStep

LEMMA SleepersStep ==
    TypeOK /\ Control /\ SleepersNotForgotten /\ [Next]_vars => SleepersNotForgotten'
<1> SUFFICES ASSUME TypeOK, Control, SleepersNotForgotten, [Next]_vars PROVE SleepersNotForgotten'
  OBVIOUS
<1> USE DEF fctxVars, hwVars, userVars, workerVars, UserGoto, Return
<1>b. User \notin Workers /\ User \in Workers \cup {User}
  BY Data
<1>d. ASSUME \A u \in Workers : asleep'[u] => WorkerMaySleep(u)', asleep'[User] => UserMaySleep'
      PROVE  SleepersNotForgotten'
  BY <1>d DEF SleepersNotForgotten, WorkerMaySleep, UserMaySleep
(* What a worker waits for stays as it is in most steps of the caller.     *)
<1>k. ASSUME UNCHANGED <<pc, state, die, ref>>, async_lock => async_lock',
             \A u \in Workers : state[u] # "INPUT_READY" => avpkt'[u] = avpkt[u]
      PROVE  \A u \in Workers : WorkerMaySleep(u) => WorkerMaySleep(u)'
  <2>1. Unfinished' = Unfinished
    BY <1>k DEF Unfinished
  <2> QED  BY <1>k, <2>1 DEF WorkerMaySleep
<1>m. ASSUME ~ asleep[User], UNCHANGED <<asleep, pc, state, die, ref>>, async_lock => async_lock',
             \A u \in Workers : state[u] # "INPUT_READY" => avpkt'[u] = avpkt[u]
      PROVE  SleepersNotForgotten'
  BY <1>d, <1>k, <1>m, Sleepers
<1>1. ASSUME ReceiveCall \/ ParkCall PROVE SleepersNotForgotten'
  <2>1. /\ upc = "out" /\ asleep' = Woken(AsyncWaiters)
        /\ UNCHANGED <<pc, state, die, ref, avpkt>>
    BY <1>1 DEF ReceiveCall, ParkCall, Call
  <2>2. ~ asleep[User]
    BY <2>1, Sleepers DEF UserMaySleep
  <2>3. \A x \in Workers \cup {User} : asleep'[x] => asleep[x] /\ x \notin AsyncWaiters
    BY <2>1, WokenAre
  <2>4. \A u \in Workers : WorkerMaySleep(u) => WorkerMaySleep(u)' \/ pc[u] = "async"
    <3>1. Unfinished' = Unfinished
      BY <2>1 DEF Unfinished
    <3> QED  BY <2>1, <3>1 DEF WorkerMaySleep
  <2>5. \A u \in Workers : pc[u] = "async" => u \in AsyncWaiters
    BY DEF AsyncWaiters
  <2> QED  BY <1>b, <1>d, <2>2, <2>3, <2>4, <2>5, Sleepers
<1>2. ASSUME WaitSync \/ NoPacket \/ GetPacket \/ ReturnResult PROVE SleepersNotForgotten'
  <2>1. upc = "loop" /\ UNCHANGED <<asleep, pc, state, die, ref, async_lock>>
    BY <1>2 DEF WaitSync, NoPacket, GetPacket, ReturnResult, WantsPacket
  <2>2. ~ asleep[User]
    BY <2>1, Sleepers DEF UserMaySleep
  <2>3. \A u \in Workers : state[u] # "INPUT_READY" => avpkt'[u] = avpkt[u]
    <3>1. CASE GetPacket
      <4>1. \A u \in Workers \ {next_decoding} : avpkt'[u] = avpkt[u]
        BY <3>1 DEF GetPacket, TypeOK
      <4>2. state[next_decoding] = "INPUT_READY"
        BY <2>1, NextIsFree DEF Control
      <4> QED  BY <4>1, <4>2
    <3>2. CASE WaitSync \/ NoPacket \/ ReturnResult
      BY <3>2 DEF WaitSync, NoPacket, ReturnResult
    <3> QED  BY <1>2, <3>1, <3>2
  <2> QED  BY <1>m, <2>1, <2>2, <2>3
<1>3. ASSUME SubmitFails \/ Collect \/ Park PROVE SleepersNotForgotten'
  <2>1. ~ asleep[User] /\ UNCHANGED <<asleep, pc, state, die, ref, async_lock, avpkt>>
    BY <1>3 DEF SubmitFails, Collect, Park
  <2> QED  BY <1>m, <2>1
<1>4. ASSUME Flush \/ FreeJoin PROVE SleepersNotForgotten'
  <2>1. upc \in {"flush", "join"} /\ UNCHANGED <<asleep, pc, state, die, ref, async_lock, avpkt>>
    BY <1>4 DEF Flush, FreeJoin
  <2>2. ~ asleep[User]
    BY <2>1, Sleepers DEF UserMaySleep
  <2> QED  BY <1>m, <2>1, <2>2
<1>5. ASSUME SubmitSleep \/ WaitSleep PROVE SleepersNotForgotten'
  <2>1. /\ UNCHANGED <<pc, state, die, ref, async_lock, avpkt, upc, waiting, prev_thread>>
        /\ \A u \in Workers : asleep'[u] = asleep[u]
    BY <1>5, <1>b DEF SubmitSleep, WaitSleep, TypeOK
  <2>2. UserMaySleep'
    BY <1>5, <2>1 DEF SubmitSleep, WaitSleep, UserMaySleep, SetupPending
  <2> QED  BY <1>d, <1>k, <2>1, <2>2, Sleepers
<1>6. ASSUME Submit PROVE SleepersNotForgotten'
  <2>1. /\ upc = "prev" /\ ~ asleep[User]
        /\ state' = [state EXCEPT ![next_decoding] = "SETTING_UP"]
        /\ asleep' = [asleep EXCEPT ![next_decoding] = FALSE]
        /\ UNCHANGED <<pc, die, ref, async_lock, avpkt>>
    BY <1>6 DEF Submit
  <2>2. state[next_decoding] = "INPUT_READY" /\ next_decoding \in Workers
    BY <2>1, NextIsFree DEF Control, TypeOK
  <2>3. \A u \in Workers \ {next_decoding} : state'[u] = state[u] /\ asleep'[u] = asleep[u]
    BY <2>1 DEF TypeOK
  <2>4. \A k \in Unfinished : k \in Unfinished'
    BY <2>1, <2>2, <2>3 DEF Unfinished
  <2>5. \A u \in Workers \ {next_decoding} : WorkerMaySleep(u) => WorkerMaySleep(u)'
    BY <2>1, <2>3, <2>4 DEF WorkerMaySleep
  <2>6. ~ asleep'[User] /\ ~ asleep'[next_decoding]
    BY <1>b, <2>1, <2>2 DEF TypeOK
  <2> QED  BY <1>d, <2>3, <2>5, <2>6, Sleepers
<1>7. ASSUME AsyncLock PROVE SleepersNotForgotten'
  <2>1. /\ upc = "async_lock" /\ async_lock'
        /\ UNCHANGED <<pc, state, die, ref, avpkt>>
        /\ \A u \in Workers : asleep'[u] = asleep[u]
        /\ asleep'[User] => upc' = "async_lock"
    BY <1>7, <1>b DEF AsyncLock, TypeOK
  <2>2. asleep'[User] => UserMaySleep'
    BY <2>1 DEF UserMaySleep
  <2> QED  BY <1>d, <1>k, <2>1, <2>2, Sleepers
<1>8. ASSUME FreeDie PROVE SleepersNotForgotten'
  <2>1. /\ upc = "free"
        /\ die' = [die EXCEPT ![waiting] = TRUE]
        /\ asleep' = [asleep EXCEPT ![waiting] = FALSE]
        /\ UNCHANGED <<pc, state, ref, async_lock, avpkt>>
    BY <1>8 DEF FreeDie
  <2>2. waiting \in Workers
    BY <2>1 DEF Control, CallerInv
  <2>3. \A u \in Workers \ {waiting} : die'[u] = die[u] /\ asleep'[u] = asleep[u]
    BY <2>1 DEF TypeOK
  <2>4. Unfinished' = Unfinished
    BY <2>1 DEF Unfinished
  <2>5. \A u \in Workers \ {waiting} : WorkerMaySleep(u) => WorkerMaySleep(u)'
    BY <2>1, <2>3, <2>4 DEF WorkerMaySleep
  <2>6. asleep'[User] = asleep[User] /\ ~ asleep'[waiting] /\ ~ asleep[User]
    BY <1>b, <2>1, <2>2, Sleepers DEF TypeOK, UserMaySleep
  <2> QED  BY <1>d, <2>3, <2>5, <2>6, Sleepers
<1>9. ASSUME NEW x \in Workers \cup {User}, SpuriousWakeup(x) PROVE SleepersNotForgotten'
  <2>1. /\ UNCHANGED <<pc, state, die, ref, async_lock, avpkt, upc, waiting, prev_thread>>
        /\ \A y \in Workers \cup {User} : asleep'[y] => asleep[y]
    BY <1>9 DEF SpuriousWakeup, TypeOK
  <2>2. UserMaySleep => UserMaySleep'
    BY <2>1 DEF UserMaySleep, SetupPending
  <2> QED  BY <1>b, <1>d, <1>k, <2>1, <2>2, Sleepers
<1>10. ASSUME UNCHANGED vars PROVE SleepersNotForgotten'
  <2>1. UNCHANGED <<asleep, pc, state, die, ref, async_lock, avpkt, upc, waiting, prev_thread>>
    BY <1>10 DEF vars
  <2>2. UserMaySleep => UserMaySleep'
    BY <2>1 DEF UserMaySleep, SetupPending
  <2> QED  BY <1>d, <1>k, <2>1, <2>2, Sleepers
<1> QED  BY <1>1, <1>2, <1>3, <1>4, <1>5, <1>6, <1>7, <1>8, <1>9, <1>10, SleepersWorkerStep
         DEF Next, InsideStep

-----------------------------------------------------------------------------
(* Hardware acceleration.                                                  *)

LEMMA KindIs == TypeOK => hwKind = "serial" \/ hwKind = "threadsafe"
BY FrameThreadAssumption DEF TypeOK

LEMMA RefsAre ==
    /\ \A h : h \in HwRefs <=> h # NoHw /\ (h = stash_hwaccel \/ \E t \in Workers : h = hwaccel[t])
    /\ \A h : h \in HwRefs' <=> h # NoHw /\ (h = stash_hwaccel' \/ \E t \in Workers : h = hwaccel'[t])
BY DEF HwRefs

LEMMA RefsKept ==
    ASSUME RefsOK, UNCHANGED <<hwaccel, stash_hwaccel, live>>, nomem => nomem'
    PROVE  RefsOK'
BY DEF RefsOK, HwRefs

LEMMA HwKept ==
    ASSUME HwInv, UNCHANGED <<hwVars, hwKind, pc, state>>
    PROVE  HwInv'
BY DEF HwInv, HwSerial, HwThreadSafe, RefsOK, HwRefs, hwVars

(* A worker goes on without a change of the hwaccel.                       *)
LEMMA HwWorkerMoves ==
    ASSUME TypeOK, WorkersInv, HwInv, NEW t \in Workers,
           WorkerDie(t) \/ AllocFail(t) \/ SetupAsync(t) \/ AwaitProgress(t) \/ Decode(t)
                \/ WorkerAsyncUnlock(t) \/ WorkerFinish(t)
    PROVE  HwInv'
<1> USE DEF fctxVars, hwVars, userVars, workerVars, Goto
<1>1. /\ UNCHANGED <<hwaccel, hwaccel_threadsafe, stash_hwaccel, hwaccel_mutex, live, hwKind>>
      /\ nomem => nomem'
  BY DEF WorkerDie, AllocFail, SetupAsync, AwaitProgress, Decode, WorkerAsyncUnlock, WorkerFinish
<1>2. \A u \in Workers \ {t} : pc'[u] = pc[u] /\ state'[u] = state[u]
  BY WorkerMoves DEF WorkerStep
<1>3. \/ /\ pc[t] = "input" /\ state[t] = "INPUT_READY" /\ pc'[t] = "dead"
         /\ state'[t] = "INPUT_READY"
      \/ pc[t] = "codec" /\ pc'[t] = "release" /\ state'[t] = state[t]
      \/ pc[t] = "async" /\ pc'[t] \in {"async", "publish"} /\ state'[t] = state[t]
      \/ pc[t] = "decode" /\ pc'[t] \in {"decode", "release"} /\ state'[t] = state[t]
      \/ pc[t] = "unlock" /\ pc'[t] = "finish" /\ state'[t] = state[t]
      \/ pc[t] = "finish" /\ pc'[t] = "input" /\ state'[t] = "INPUT_READY"
  BY DEF WorkerDie, AllocFail, SetupAsync, AwaitProgress, Decode, WorkerAsyncUnlock, WorkerFinish,
         TypeOK, WorkersInv
<1>4. RefsOK'
  BY <1>1, RefsKept DEF HwInv
<1>5. HwThreadSafe => HwThreadSafe'
  BY <1>1, <1>2, <1>3 DEF HwThreadSafe
<1>6. ASSUME HwSerial PROVE HwSerial'
  <2>1. state'[t] = "SETTING_UP" => state[t] = "SETTING_UP"
    BY <1>3
  <2>2. ASSUME NEW u \in Workers
        PROVE  /\ ~ hwaccel_threadsafe'[u]
               /\ hwaccel'[u] # NoHw => \/ pc'[u] = "input" /\ state'[u] = "SETTING_UP"
                                        \/ pc'[u] = "hwlock" \/ hwaccel_mutex' = u
               /\ hwaccel_mutex' = u => /\ pc'[u] \in {"codec", "async", "publish", "decode", "release"}
                                        /\ pc'[u] = "codec" => hwaccel'[u] # NoHw
               /\ pc'[u] = "hwlock" => hwaccel'[u] # NoHw
               /\ state'[u] = "SETTING_UP" => stash_hwaccel' = NoHw
    <3>1. CASE u # t
      BY <1>1, <1>2, <1>6, <3>1 DEF HwSerial
    <3>2. CASE u = t
      BY <1>1, <1>3, <1>6, <2>1, <3>2 DEF HwSerial
    <3> QED  BY <3>1, <3>2
  <2>3. ASSUME NEW u \in Workers, hwaccel_mutex' = u, hwaccel'[u] # NoHw,
               state'[u] = "SETUP_FINISHED"
        PROVE  \/ stash_hwaccel' = hwaccel'[u]
               \/ \E x \in Workers : /\ pc'[x] = "input" /\ state'[x] = "SETTING_UP"
                                     /\ hwaccel'[x] = hwaccel'[u]
    <3>1. state[u] = "SETUP_FINISHED" /\ hwaccel_mutex = u /\ hwaccel[u] # NoHw
      BY <1>1, <1>2, <1>3, <2>3
    <3>2. \/ stash_hwaccel = hwaccel[u]
          \/ \E x \in Workers : /\ pc[x] = "input" /\ state[x] = "SETTING_UP"
                                /\ hwaccel[x] = hwaccel[u]
      BY <1>6, <3>1 DEF HwSerial
    <3>3. pc[t] = "input" => state[t] = "INPUT_READY"
      BY <1>3
    <3> QED  BY <1>1, <1>2, <3>2, <3>3
  <2> QED  BY <2>2, <2>3 DEF HwSerial
<1> QED  BY <1>1, <1>4, <1>5, <1>6 DEF HwInv

(* A thread-safe hwaccel.  What may become of the context of p: it stays,  *)
(* or its instance is freed, or it gets a new one.                         *)
GoodContext(p, c) ==
    /\ ~ c.threadsafe => c.hw = NoHw
    /\ \/ c.hw = hwaccel[p] /\ c.live = live
       \/ c.hw = NoHw /\ c.live = live \ {hwaccel[p]}
       \/ hwaccel[p] = NoHw /\ c.hw \in FreshHw /\ c.live = live \cup {c.hw}

LEMMA ThreadSafeContexts ==
    ASSUME TypeOK, HwThreadSafe, NEW p \in Workers, NEW q \in Workers \cup {None}
    PROVE  /\ GoodContext(p, Kept(p))
           /\ q # None => \A c \in Updated(p, q) : GoodContext(p, c)
           /\ \A c \in UpdateFailed(p, q) : GoodContext(p, c)
           /\ \A c \in Contexts(p, q) : GoodContext(p, c)
<1>1. GoodContext(p, Kept(p))
  BY DEF GoodContext, Kept, HwThreadSafe
<1>2. \A b : GoodContext(p, Without(p, b))
  BY DEF GoodContext, Without
<1>3. ASSUME q # None, NEW c \in Updated(p, q) PROVE GoodContext(p, c)
  <2>1. CASE hwaccel_threadsafe[q] /\ hwaccel[p] # NoHw
    BY <1>3, <2>1 DEF Updated, Kept, GoodContext
  <2>2. CASE hwaccel_threadsafe[q] /\ hwaccel[p] = NoHw
    <3>1. PICK h \in FreshHw : c = [hw |-> h, live |-> live \cup {h}, threadsafe |-> TRUE]
      BY <1>3, <2>2 DEF Updated
    <3> QED  BY <2>2, <3>1 DEF GoodContext
  <2>3. CASE ~ hwaccel_threadsafe[q]
    BY <1>1, <1>2, <1>3, <2>3 DEF Updated
  <2> QED  BY <2>1, <2>2, <2>3
<1>4. ASSUME NEW c \in UpdateFailed(p, q) PROVE GoodContext(p, c)
  <2>1. c = Kept(p) \/ \E b : c = Without(p, b)
    BY <1>4, Zenon DEF UpdateFailed
  <2> QED  BY <1>1, <1>2, <2>1
<1>5. ASSUME NEW c \in Contexts(p, q) PROVE GoodContext(p, c)
  BY <1>1, <1>3, <1>5 DEF Contexts
<1> QED  BY <1>1, <1>3, <1>4, <1>5

(* The instance of one worker is freed, replaced or created.               *)
LEMMA ThreadSafeChange ==
    ASSUME TypeOK, HwThreadSafe, RefsOK, NEW p \in Workers, NEW h \in HwContexts \cup {NoHw},
           hwaccel' = [hwaccel EXCEPT ![p] = h],
           \/ h = hwaccel[p] /\ live' = live
           \/ h = NoHw /\ live' = live \ {hwaccel[p]}
           \/ h \in FreshHw /\ live' = (live \ {hwaccel[p]}) \cup {h},
           stash_hwaccel' = NoHw, nomem => nomem'
    PROVE  /\ RefsOK'
           /\ \A t, u \in Workers : hwaccel'[t] = hwaccel'[u] /\ hwaccel'[t] # NoHw => t = u
<1>1. hwaccel'[p] = h /\ \A u \in Workers \ {p} : hwaccel'[u] = hwaccel[u]
  BY DEF TypeOK
<1>2. NoHw \notin live /\ stash_hwaccel = NoHw
  BY Data DEF TypeOK, HwThreadSafe
<1>3. \A u \in Workers : hwaccel[u] # NoHw => hwaccel[u] \in live
  BY RefsAre DEF RefsOK
<1>4. h \in FreshHw => h \notin live /\ h # NoHw
  BY FreshIsContext, Data
<1>5. \A u \in Workers \ {p} : hwaccel[u] # NoHw => hwaccel[u] # hwaccel[p]
  BY DEF HwThreadSafe
<1>6. HwRefs' \subseteq live'
  BY <1>1, <1>2, <1>3, <1>5, RefsAre
<1>7. ASSUME live \subseteq HwRefs PROVE live' \subseteq HwRefs'
  <2> SUFFICES ASSUME NEW x \in live' PROVE x \in HwRefs'
    OBVIOUS
  <2>1. CASE x = h /\ h # NoHw
    BY <1>1, <2>1, RefsAre
  <2>2. CASE x \in live /\ x # h
    <3>1. PICK u \in Workers : x = hwaccel[u]
      BY <1>2, <1>7, <2>2, RefsAre
    <3>2. u # p
      BY <2>2, <3>1, <1>2, <1>4
    <3> QED  BY <1>1, <1>2, <2>2, <3>1, <3>2, RefsAre
  <2>3. x # NoHw /\ (x = h \/ x \in live)
    BY <1>2, <1>4
  <2> QED  BY <2>1, <2>2, <2>3
<1>8. \A t, u \in Workers : hwaccel'[t] = hwaccel'[u] /\ hwaccel'[t] # NoHw => t = u
  BY <1>1, <1>3, <1>4, <1>5 DEF HwThreadSafe
<1> QED  BY <1>6, <1>7, <1>8 DEF RefsOK

LEMMA ThreadSafeContext ==
    ASSUME TypeOK, HwThreadSafe, RefsOK, NEW p \in Workers, NEW c \in ContextSet,
           GoodContext(p, c), SetContext(p, c), stash_hwaccel' = NoHw,
           UNCHANGED <<pc, hwaccel_mutex, nomem>>
    PROVE  HwThreadSafe' /\ RefsOK'
<1>1. /\ c.hw \in HwContexts \cup {NoHw}
      /\ hwaccel' = [hwaccel EXCEPT ![p] = c.hw]
      /\ hwaccel_threadsafe' = [hwaccel_threadsafe EXCEPT ![p] = c.threadsafe]
      /\ live' = c.live
  BY DEF SetContext, ContextSet
<1>2. \/ c.hw = hwaccel[p] /\ live' = live
      \/ c.hw = NoHw /\ live' = live \ {hwaccel[p]}
      \/ c.hw \in FreshHw /\ live' = (live \ {hwaccel[p]}) \cup {c.hw}
  <2>1. NoHw \notin live
    BY Data DEF TypeOK
  <2> QED  BY <1>1, <2>1 DEF GoodContext
<1>3. /\ RefsOK'
      /\ \A t, u \in Workers : hwaccel'[t] = hwaccel'[u] /\ hwaccel'[t] # NoHw => t = u
  BY <1>1, <1>2, ThreadSafeChange
<1>4. \A t \in Workers : ~ hwaccel_threadsafe'[t] => hwaccel'[t] = NoHw
  BY <1>1 DEF GoodContext, HwThreadSafe, TypeOK
<1> QED  BY <1>3, <1>4 DEF HwThreadSafe

LEMMA ThreadSafeStep ==
    ASSUME TypeOK, HwThreadSafe, RefsOK, hwKind = "threadsafe",
           \/ \E t \in Workers : \/ WorkerBegin(t) \/ CodecSetup(t) \/ SetupHwLock(t)
                                 \/ SetupPublish(t) \/ WorkerRelease(t)
           \/ SubmitFails \/ Submit \/ Flush \/ FreeJoin,
           CallerInv
    PROVE  HwThreadSafe' /\ RefsOK'
<1> USE DEF fctxVars, hwVars, userVars, workerVars, Goto
<1>a. \A t \in Workers : ~ hwaccel_serial(t) /\ ~ Serializing(t)
  BY Data DEF hwaccel_serial, HwThreadSafe, Serializing
<1>1. ASSUME NEW t \in Workers, WorkerBegin(t) \/ SetupPublish(t) \/ WorkerRelease(t)
      PROVE  HwThreadSafe' /\ RefsOK'
  <2>1. UNCHANGED <<hwaccel, hwaccel_threadsafe, stash_hwaccel, hwaccel_mutex, live, nomem>>
    BY <1>1, <1>a DEF WorkerBegin, SetupPublish, WorkerRelease
  <2>2. \A u \in Workers : pc'[u] # "hwlock"
    BY <1>1 DEF WorkerBegin, SetupPublish, WorkerRelease, HwThreadSafe, TypeOK
  <2>3. RefsOK'
    BY <2>1, RefsKept
  <2> QED  BY <2>1, <2>2, <2>3 DEF HwThreadSafe
<1>2. ASSUME NEW t \in Workers, SetupHwLock(t) PROVE FALSE
  BY <1>2 DEF SetupHwLock, HwThreadSafe
<1>3. ASSUME NEW t \in Workers, CodecSetup(t) PROVE HwThreadSafe' /\ RefsOK'
  <2>1. PICK h \in HwContexts \cup {NoHw} :
            /\ hwaccel' = [hwaccel EXCEPT ![t] = h]
            /\ \/ h = hwaccel[t] /\ live' = live
               \/ h = NoHw /\ live' = live \ {hwaccel[t]}
               \/ h \in FreshHw /\ live' = (live \ {hwaccel[t]}) \cup {h}
    <3>1. CASE UNCHANGED <<hwaccel, live>>
      <4>1. hwaccel' = [hwaccel EXCEPT ![t] = hwaccel[t]] /\ hwaccel[t] \in HwContexts \cup {NoHw}
        BY <3>1 DEF TypeOK
      <4> QED  BY <3>1, <4>1
    <3>2. CASE ~ UNCHANGED <<hwaccel, live>>
      <4>1. PICK h \in {NoHw} \cup FreshHw :
                /\ hwaccel' = [hwaccel EXCEPT ![t] = h]
                /\ live' = (live \ {hwaccel[t]}) \cup ({h} \ {NoHw})
        BY <1>3, <3>2 DEF CodecSetup
      <4>2. h \in HwContexts \cup {NoHw} /\ (h \in FreshHw => h # NoHw)
        BY FreshIsContext, Data
      <4> QED  BY <4>1, <4>2
    <3> QED  BY <3>1, <3>2
  <2>2. /\ stash_hwaccel' = NoHw /\ hwaccel_mutex' = None /\ nomem' = nomem
        /\ hwaccel_threadsafe' = [hwaccel_threadsafe EXCEPT ![t] = hwaccel'[t] # NoHw]
    BY <1>3 DEF CodecSetup, HwThreadSafe
  <2>3. /\ RefsOK'
        /\ \A u, x \in Workers : hwaccel'[u] = hwaccel'[x] /\ hwaccel'[u] # NoHw => u = x
    BY <2>1, <2>2, ThreadSafeChange
  <2>4. \A u \in Workers : pc'[u] # "hwlock"
    BY <1>3 DEF CodecSetup, AfterHwLock, HwThreadSafe, TypeOK
  <2>5. \A u \in Workers : ~ hwaccel_threadsafe'[u] => hwaccel'[u] = NoHw
    BY <2>1, <2>2 DEF HwThreadSafe, TypeOK
  <2> QED  BY <2>2, <2>3, <2>4, <2>5 DEF HwThreadSafe
<1>4. ASSUME SubmitFails PROVE HwThreadSafe' /\ RefsOK'
  <2>1. \E c \in ContextSet : GoodContext(next_decoding, c) /\ SetContext(next_decoding, c)
    BY <1>4, ContextsType, ThreadSafeContexts DEF SubmitFails, TypeOK
  <2>2. UNCHANGED <<pc, hwaccel_mutex, stash_hwaccel, nomem>> /\ next_decoding \in Workers
    BY <1>4 DEF SubmitFails, TypeOK
  <2>3. stash_hwaccel' = NoHw
    BY <2>2 DEF HwThreadSafe
  <2> QED  BY <2>1, <2>2, <2>3, ThreadSafeContext
<1>5. ASSUME Submit PROVE HwThreadSafe' /\ RefsOK'
  <2>1. PICK c \in Contexts(next_decoding, prev_thread) :
            /\ SetContext(next_decoding, Swapped(c))
            /\ stash_hwaccel' = IF c.threadsafe THEN stash_hwaccel ELSE c.hw
    BY <1>5 DEF Submit
  <2>2. c \in ContextSet /\ GoodContext(next_decoding, c) /\ next_decoding \in Workers
    BY ContextsType, ThreadSafeContexts DEF TypeOK
  <2>3. stash_hwaccel' = NoHw /\ stash_hwaccel = NoHw
    BY <2>1, <2>2 DEF GoodContext, HwThreadSafe
  <2>4. Swapped(c) = c
    <3>1. c.threadsafe \/ c.hw = stash_hwaccel
      BY <2>2, <2>3 DEF GoodContext
    <3> QED  BY <2>2, <3>1 DEF Swapped, ContextSet
  <2>5. UNCHANGED <<pc, hwaccel_mutex, nomem>>
    BY <1>5 DEF Submit
  <2> QED  BY <2>1, <2>2, <2>3, <2>4, <2>5, ThreadSafeContext
<1>6. ASSUME Flush PROVE HwThreadSafe' /\ RefsOK'
  <2>1. UNCHANGED <<pc, hwaccel_mutex, stash_hwaccel, nomem>>
    BY <1>6 DEF Flush
  <2>2. CASE prev_thread \in {None, 0}
    <3>1. UNCHANGED <<hwaccel, live, hwaccel_threadsafe>>
      BY <1>6, <2>2 DEF Flush
    <3> QED  BY <2>1, <3>1, RefsKept DEF HwThreadSafe
  <2>3. CASE prev_thread \notin {None, 0}
    <3>1. \E c \in ContextSet : GoodContext(0, c) /\ SetContext(0, c)
      BY <1>6, <2>3, Data, ContextsType, ThreadSafeContexts DEF Flush, TypeOK
    <3>2. stash_hwaccel' = NoHw
      BY <2>1 DEF HwThreadSafe
    <3> QED  BY <2>1, <3>1, <3>2, Data, ThreadSafeContext
  <2> QED  BY <2>2, <2>3
<1>7. ASSUME FreeJoin PROVE HwThreadSafe' /\ RefsOK'
  <2>1. /\ waiting \in Workers
        /\ hwaccel' = [hwaccel EXCEPT ![waiting] = NoHw]
        /\ live' = live \ {hwaccel[waiting]}
        /\ UNCHANGED <<pc, hwaccel_mutex, stash_hwaccel, nomem, hwaccel_threadsafe>>
        /\ stash_hwaccel' = NoHw
    BY <1>7 DEF FreeJoin, CallerInv, HwThreadSafe
  <2>2. /\ RefsOK'
        /\ \A u, x \in Workers : hwaccel'[u] = hwaccel'[x] /\ hwaccel'[u] # NoHw => u = x
    BY <2>1, ThreadSafeChange
  <2>3. \A u \in Workers : ~ hwaccel_threadsafe'[u] => hwaccel'[u] = NoHw
    BY <2>1 DEF HwThreadSafe, TypeOK
  <2> QED  BY <2>1, <2>2, <2>3 DEF HwThreadSafe
<1> QED  BY <1>1, <1>2, <1>3, <1>4, <1>5, <1>6, <1>7

(* One that is not thread-safe.                                            *)
SerialOK(t) ==
    /\ ~ hwaccel_threadsafe[t]
    /\ hwaccel[t] # NoHw => \/ pc[t] = "input" /\ state[t] = "SETTING_UP"
                            \/ pc[t] = "hwlock" \/ hwaccel_mutex = t
    /\ hwaccel_mutex = t => /\ pc[t] \in {"codec", "async", "publish", "decode", "release"}
                            /\ pc[t] = "codec" => hwaccel[t] # NoHw
    /\ pc[t] = "hwlock" => hwaccel[t] # NoHw
    /\ state[t] = "SETTING_UP" => stash_hwaccel = NoHw
HandedOn(t) ==
    \/ stash_hwaccel = hwaccel[t]
    \/ \E u \in Workers : pc[u] = "input" /\ state[u] = "SETTING_UP" /\ hwaccel[u] = hwaccel[t]
MustHandOn(t) == hwaccel_mutex = t /\ hwaccel[t] # NoHw /\ state[t] = "SETUP_FINISHED"

LEMMA SerialParts ==
    HwSerial <=> \A t \in Workers : SerialOK(t) /\ (MustHandOn(t) => HandedOn(t))
BY DEF HwSerial, SerialOK, HandedOn, MustHandOn

(* While a worker sets up nobody else has an instance.                     *)
LEMMA OnlyOne ==
    ASSUME TypeOK, WorkersInv, HwSerial, NEW t \in Workers,
           pc[t] \in {"codec", "hwlock", "publish"}
    PROVE  /\ state[t] = "SETTING_UP" /\ stash_hwaccel = NoHw
           /\ \A u \in Workers \ {t} : hwaccel[u] = NoHw /\ state[u] # "SETTING_UP"
           /\ \A h : h \in HwRefs <=> h # NoHw /\ h = hwaccel[t]
<1>1. state[t] = "SETTING_UP" /\ prev_thread = t
  BY DEF WorkersInv
<1>2. stash_hwaccel = NoHw
  BY <1>1 DEF HwSerial
<1>3. ASSUME NEW u \in Workers \ {t} PROVE hwaccel[u] = NoHw /\ state[u] # "SETTING_UP"
  <2>1. \A x \in Workers : state[x] = "SETTING_UP" => x = t
    BY <1>1 DEF WorkersInv
  <2>2. SUFFICES ASSUME hwaccel[u] # NoHw PROVE FALSE
    BY <2>1
  <2>3. hwaccel_mutex = u /\ pc[u] \in {"decode", "release"} /\ state[u] = "SETUP_FINISHED"
    BY <2>1, <2>2 DEF HwSerial, WorkersInv, TypeOK
  <2>4. HandedOn(u)
    BY <2>2, <2>3, SerialParts DEF MustHandOn
  <2> QED  BY <1>2, <2>1, <2>2, <2>4 DEF HandedOn
<1> QED  BY <1>1, <1>2, <1>3, RefsAre

LEMMA SerialSetup ==
    ASSUME TypeOK, WorkersInv, HwSerial, RefsOK, hwKind = "serial", NEW t \in Workers,
           CodecSetup(t) \/ SetupHwLock(t) \/ SetupPublish(t)
    PROVE  HwSerial' /\ RefsOK'
<1> USE DEF fctxVars, hwVars, userVars, workerVars, Goto, TypeOK
<1>a. pc[t] \in {"codec", "hwlock", "publish"}
  BY DEF CodecSetup, SetupHwLock, SetupPublish
<1>b. /\ state[t] = "SETTING_UP" /\ stash_hwaccel = NoHw
      /\ \A u \in Workers \ {t} : hwaccel[u] = NoHw /\ state[u] # "SETTING_UP"
      /\ \A h : h \in HwRefs <=> h # NoHw /\ h = hwaccel[t]
  BY <1>a, OnlyOne
<1>c. \A u \in Workers : SerialOK(u)
  BY SerialParts
<1>e. \A u \in Workers \ {t} : pc'[u] = pc[u]
  BY DEF CodecSetup, SetupHwLock, SetupPublish
<1>f. \A h : AfterHwLock(h) \in {"async", "publish"}
  BY DEF AfterHwLock
<1>g. ASSUME \A u \in Workers \ {t} : SerialOK(u)' /\ hwaccel'[u] = NoHw,
             SerialOK(t)', MustHandOn(t)' => HandedOn(t)'
      PROVE  HwSerial'
  <2>1. \A u \in Workers : SerialOK(u)' /\ (MustHandOn(u)' => HandedOn(u)')
    BY <1>g DEF MustHandOn
  <2> QED  BY <2>1 DEF HwSerial, SerialOK, MustHandOn, HandedOn
<1>1. ASSUME CodecSetup(t) PROVE HwSerial' /\ RefsOK'
  <2>1. PICK h \in HwContexts \cup {NoHw} :
            /\ hwaccel' = [hwaccel EXCEPT ![t] = h]
            /\ live' = (live \ {hwaccel[t]}) \cup ({h} \ {NoHw})
    <3>1. CASE UNCHANGED <<hwaccel, live>>
      <4>1. hwaccel[t] # NoHw => hwaccel[t] \in live
        BY <1>b DEF RefsOK
      <4>2. live' = (live \ {hwaccel[t]}) \cup ({hwaccel[t]} \ {NoHw})
        BY <3>1, <4>1, Data
      <4>3. hwaccel' = [hwaccel EXCEPT ![t] = hwaccel[t]] /\ hwaccel[t] \in HwContexts \cup {NoHw}
        BY <3>1
      <4> QED  BY <4>2, <4>3
    <3>2. CASE ~ UNCHANGED <<hwaccel, live>>
      <4>1. PICK h \in {NoHw} \cup FreshHw :
                /\ hwaccel' = [hwaccel EXCEPT ![t] = h]
                /\ live' = (live \ {hwaccel[t]}) \cup ({h} \ {NoHw})
        BY <1>1, <3>2 DEF CodecSetup
      <4>2. h \in HwContexts \cup {NoHw}
        BY FreshIsContext
      <4> QED  BY <4>1, <4>2
    <3> QED  BY <3>1, <3>2
  <2>2. hwaccel'[t] = h /\ \A u \in Workers \ {t} : hwaccel'[u] = NoHw
    BY <1>b, <2>1
  <2>3. UNCHANGED <<stash_hwaccel, hwaccel_mutex, nomem, state, hwKind>>
    BY <1>1 DEF CodecSetup
  <2>4. /\ hwaccel_threadsafe' = [hwaccel_threadsafe EXCEPT
                ![t] = hwaccel'[t] # NoHw /\ hwKind = "threadsafe"]
        /\ pc[t] = "codec"
        /\ pc' = [pc EXCEPT ![t] = IF hwaccel'[t] # NoHw /\ hwKind = "serial" /\ ~ Serializing(t)
                                   THEN "hwlock" ELSE AfterHwLock(hwaccel'[t])]
    BY <1>1 DEF CodecSetup
  <2>5. \A u \in Workers : ~ hwaccel_threadsafe'[u]
    BY <1>c, <2>4 DEF SerialOK
  <2>6. \A u \in Workers \ {t} : SerialOK(u)'
    BY <1>b, <1>c, <1>e, <2>2, <2>3, <2>5 DEF SerialOK
  <2>7. SerialOK(t)'
    <3>1. IF h # NoHw /\ hwaccel_mutex # t THEN pc'[t] = "hwlock" ELSE pc'[t] \in {"async", "publish"}
      BY <1>f, <2>2, <2>4 DEF Serializing
    <3> QED  BY <1>b, <2>2, <2>3, <2>5, <3>1 DEF SerialOK
  <2>8. ~ MustHandOn(t)'
    BY <1>b, <2>3 DEF MustHandOn
  <2>9. \A x : x \in HwRefs' <=> x # NoHw /\ x = h
    BY <1>b, <2>2, <2>3, RefsAre
  <2>10. HwRefs' \subseteq live'
    BY <2>1, <2>9
  <2>11. live \subseteq HwRefs => live' \subseteq HwRefs'
    BY <1>b, <2>1, <2>9
  <2> QED  BY <1>g, <2>2, <2>3, <2>6, <2>7, <2>8, <2>10, <2>11 DEF RefsOK
<1>2. ASSUME SetupHwLock(t) PROVE HwSerial' /\ RefsOK'
  <2>1. /\ hwaccel_mutex' = t /\ pc[t] = "hwlock"
        /\ UNCHANGED <<hwaccel, hwaccel_threadsafe, stash_hwaccel, live, nomem, state>>
        /\ pc' = [pc EXCEPT ![t] = AfterHwLock(hwaccel[t])]
    BY <1>2 DEF SetupHwLock
  <2>2. pc'[t] \in {"async", "publish"}
    BY <1>f, <2>1
  <2>3. \A u \in Workers : SerialOK(u)'
    BY <1>b, <1>c, <1>e, <2>1, <2>2 DEF SerialOK
  <2>4. ~ MustHandOn(t)'
    BY <1>b, <2>1 DEF MustHandOn
  <2>5. RefsOK'
    BY <2>1, RefsKept
  <2> QED  BY <1>b, <1>g, <2>1, <2>3, <2>4, <2>5
<1>3. ASSUME SetupPublish(t) PROVE HwSerial' /\ RefsOK'
  <2>1. /\ pc[t] = "publish"
        /\ stash_hwaccel' = hwaccel[t]
        /\ state' = [state EXCEPT ![t] = "SETUP_FINISHED"]
        /\ pc' = [pc EXCEPT ![t] = "decode"]
        /\ UNCHANGED <<hwaccel, hwaccel_threadsafe, hwaccel_mutex, live, nomem>>
    BY <1>3, <1>b DEF SetupPublish, hwaccel_serial
  <2>2. \A u \in Workers : state'[u] # "SETTING_UP"
    BY <1>b, <2>1
  <2>3. \A u \in Workers : SerialOK(u)'
    BY <1>b, <1>c, <1>e, <2>1, <2>2 DEF SerialOK
  <2>4. HandedOn(t)'
    BY <2>1 DEF HandedOn
  <2>5. \A h : h \in HwRefs' <=> h \in HwRefs
    BY <1>b, <2>1, RefsAre
  <2>6. RefsOK'
    BY <2>1, <2>5 DEF RefsOK
  <2> QED  BY <1>b, <1>g, <2>1, <2>3, <2>4, <2>6
<1> QED  BY <1>1, <1>2, <1>3

LEMMA SerialBegin ==
    ASSUME TypeOK, WorkersInv, HwSerial, RefsOK, hwKind = "serial", NEW t \in Workers,
           WorkerBegin(t)
    PROVE  HwSerial' /\ RefsOK'
<1> USE DEF Goto, TypeOK
<1>1. /\ pc[t] = "input" /\ state[t] = "SETTING_UP" /\ prev_thread = t
      /\ pc' = [pc EXCEPT ![t] = "codec"]
      /\ UNCHANGED <<state, hwaccel, hwaccel_threadsafe, stash_hwaccel, live, nomem>>
  BY DEF WorkerBegin, WorkersInv
<1>2. \/ hwaccel[t] = NoHw /\ hwaccel_mutex' = hwaccel_mutex
      \/ hwaccel[t] # NoHw /\ hwaccel_mutex = None /\ hwaccel_mutex' = t
  BY DEF WorkerBegin, hwaccel_serial
<1>3. \A u \in Workers \ {t} : pc'[u] = pc[u] /\ state[u] # "SETTING_UP" /\ pc[u] # "hwlock"
  BY <1>1 DEF WorkersInv
<1>4. \A u \in Workers : SerialOK(u) /\ (MustHandOn(u) => HandedOn(u))
  BY SerialParts
<1>5. \A u \in Workers : SerialOK(u)'
  BY <1>1, <1>2, <1>3, <1>4, Data DEF SerialOK
<1>6. ASSUME NEW u \in Workers, MustHandOn(u)' PROVE HandedOn(u)'
  <2>1. u # t /\ hwaccel_mutex' = u
    BY <1>1, <1>6 DEF MustHandOn
  <2>2. hwaccel[t] = NoHw /\ MustHandOn(u)
    BY <1>1, <1>2, <1>6, <2>1 DEF MustHandOn
  <2>3. HandedOn(u) /\ hwaccel[u] # NoHw
    BY <1>4, <2>2 DEF MustHandOn
  <2> QED  BY <1>1, <1>3, <2>2, <2>3 DEF HandedOn
<1>7. HwSerial'
  BY <1>5, <1>6 DEF HwSerial, SerialOK, MustHandOn, HandedOn
<1> QED  BY <1>1, <1>7, RefsKept

LEMMA SerialRelease ==
    ASSUME TypeOK, WorkersInv, HwSerial, RefsOK, NEW t \in Workers, WorkerRelease(t)
    PROVE  HwSerial' /\ RefsOK'
<1> USE DEF Goto, TypeOK
<1>1. /\ pc[t] = "release" /\ pc'[t] \in {"unlock", "finish"}
      /\ \A u \in Workers \ {t} : pc'[u] = pc[u]
      /\ UNCHANGED <<state, hwaccel_threadsafe, stash_hwaccel, live, nomem>>
  BY DEF WorkerRelease
<1>2. \A u \in Workers : SerialOK(u) /\ (MustHandOn(u) => HandedOn(u))
  BY SerialParts
<1>3. CASE hwaccel_mutex = t
  <2>1. hwaccel' = [hwaccel EXCEPT ![t] = NoHw] /\ hwaccel_mutex' = None
    BY <1>3 DEF WorkerRelease, Serializing
  <2>2. \A u \in Workers : SerialOK(u)' /\ ~ MustHandOn(u)'
    BY <1>1, <1>2, <1>3, <2>1, Data DEF SerialOK, MustHandOn
  <2>3. HwSerial'
    BY <2>2 DEF HwSerial, SerialOK, MustHandOn
  <2>4. HwRefs' \subseteq HwRefs
    BY <1>1, <2>1, RefsAre
  <2>5. ASSUME ~ nomem PROVE HwRefs \subseteq HwRefs'
    <3>1. state[t] = "SETUP_FINISHED"
      BY <1>1, <2>5 DEF WorkersInv
    <3>2. hwaccel[t] = NoHw \/ HandedOn(t)
      BY <1>2, <1>3, <3>1 DEF MustHandOn
    <3>3. hwaccel[t] = NoHw \/ hwaccel[t] = stash_hwaccel
            \/ \E u \in Workers \ {t} : hwaccel[u] = hwaccel[t]
      BY <1>1, <3>2 DEF HandedOn
    <3> QED  BY <1>1, <2>1, <3>3, RefsAre
  <2> QED  BY <1>1, <2>3, <2>4, <2>5 DEF RefsOK
<1>4. CASE hwaccel_mutex # t
  <2>1. UNCHANGED <<hwaccel, hwaccel_mutex>>
    BY <1>4 DEF WorkerRelease, Serializing
  <2>2. \A u \in Workers : SerialOK(u)'
    BY <1>1, <1>2, <1>4, <2>1 DEF SerialOK
  <2>3. ASSUME NEW u \in Workers, MustHandOn(u)' PROVE HandedOn(u)'
    <3>1. HandedOn(u)
      BY <1>1, <1>2, <2>1, <2>3 DEF MustHandOn
    <3>2. CASE stash_hwaccel = hwaccel[u]
      BY <1>1, <2>1, <3>2 DEF HandedOn
    <3>3. CASE \E x \in Workers : /\ pc[x] = "input" /\ state[x] = "SETTING_UP"
                                  /\ hwaccel[x] = hwaccel[u]
      <4>1. PICK x \in Workers : /\ pc[x] = "input" /\ state[x] = "SETTING_UP"
                                 /\ hwaccel[x] = hwaccel[u]
        BY <3>3
      <4>2. pc'[x] = "input" /\ state'[x] = "SETTING_UP" /\ hwaccel'[x] = hwaccel'[u]
        BY <1>1, <2>1, <4>1
      <4> QED  BY <4>2 DEF HandedOn
    <3> QED  BY <3>1, <3>2, <3>3 DEF HandedOn
  <2>4. HwSerial'
    BY <2>2, <2>3 DEF HwSerial, SerialOK, MustHandOn, HandedOn
  <2> QED  BY <1>1, <2>1, <2>4, RefsKept
<1> QED  BY <1>3, <1>4

(* A worker that is not thread-safe gives nothing to another one.          *)
LEMMA SerialContexts ==
    ASSUME HwSerial, NEW p \in Workers, NEW q \in Workers \cup {None}
    PROVE  /\ \A c \in UpdateFailed(p, q) \cup Contexts(p, q) : c = Kept(p)
           /\ q # None => \A c \in Updated(p, q) : c = Kept(p)
<1>1. ~ hwaccel_threadsafe[p] /\ (q # None => ~ hwaccel_threadsafe[q])
  BY DEF HwSerial
<1>2. \A c \in UpdateFailed(p, q) : c = Kept(p)
  BY <1>1 DEF UpdateFailed
<1>3. q # None => \A c \in Updated(p, q) : c = Kept(p)
  BY <1>1 DEF Updated
<1>4. \A c \in Contexts(p, q) : c = Kept(p)
  BY <1>3 DEF Contexts
<1> QED  BY <1>2, <1>3, <1>4

LEMMA SerialContextKept ==
    ASSUME TypeOK, HwSerial, NEW p \in Workers, SetContext(p, Kept(p))
    PROVE  UNCHANGED <<hwaccel, live, hwaccel_threadsafe>>
<1>1. hwaccel' = [hwaccel EXCEPT ![p] = hwaccel[p]]
  BY DEF SetContext, Kept
<1>2. hwaccel_threadsafe' = [hwaccel_threadsafe EXCEPT ![p] = hwaccel_threadsafe[p]]
  BY DEF SetContext, Kept
<1>3. live' = live
  BY DEF SetContext, Kept
<1> QED  BY <1>1, <1>2, <1>3 DEF TypeOK

LEMMA SerialCaller ==
    ASSUME TypeOK, Control, HwSerial, RefsOK, SubmitFails \/ Flush \/ FreeJoin
    PROVE  HwSerial' /\ RefsOK'
<1> USE DEF fctxVars, userVars, workerVars
<1>1. UNCHANGED <<hwaccel, live, hwaccel_threadsafe>>
  <2>1. CASE SubmitFails
    <3>1. next_decoding \in Workers /\ prev_thread \in Workers \cup {None}
      BY DEF TypeOK
    <3>2. SetContext(next_decoding, Kept(next_decoding))
      BY <2>1, <3>1, SerialContexts DEF SubmitFails
    <3> QED  BY <3>1, <3>2, SerialContextKept
  <2>2. CASE Flush
    <3>1. CASE prev_thread \in {None, 0}
      BY <2>2, <3>1 DEF Flush
    <3>2. CASE prev_thread \notin {None, 0}
      <4>1. prev_thread \in Workers \cup {None} /\ prev_thread # None /\ 0 \in Workers
        BY <3>2, Data DEF TypeOK
      <4>2. SetContext(0, Kept(0))
        BY <2>2, <3>2, <4>1, SerialContexts DEF Flush
      <4> QED  BY <4>1, <4>2, SerialContextKept
    <3> QED  BY <3>1, <3>2
  <2>3. CASE FreeJoin
    <3>1. waiting \in Workers /\ pc[waiting] = "dead"
      BY <2>3 DEF FreeJoin, Control, CallerInv
    <3>2. hwaccel[waiting] = NoHw
      BY <3>1 DEF HwSerial
    <3>3. /\ hwaccel' = [hwaccel EXCEPT ![waiting] = NoHw]
          /\ live' = live \ {hwaccel[waiting]} /\ hwaccel_threadsafe' = hwaccel_threadsafe
      BY <2>3 DEF FreeJoin
    <3>4. live' = live
      BY <3>2, <3>3, Data DEF TypeOK
    <3>5. hwaccel' = hwaccel
      BY <3>1, <3>2, <3>3 DEF TypeOK
    <3> QED  BY <3>3, <3>4, <3>5
  <2> QED  BY <2>1, <2>2, <2>3
<1>2. UNCHANGED <<stash_hwaccel, hwaccel_mutex, nomem, pc, state>>
  BY DEF SubmitFails, Flush, FreeJoin
<1> QED  BY <1>1, <1>2, RefsKept DEF HwSerial

(* The stash changes places with the empty slot of the next worker.        *)
LEMMA SerialSubmit ==
    ASSUME TypeOK, Control, HwSerial, RefsOK, Submit
    PROVE  HwSerial' /\ RefsOK'
<1> USE DEF TypeOK
<1>1. PICK p \in Workers : p = next_decoding
  OBVIOUS
<1>2. state[p] = "INPUT_READY" /\ upc = "prev"
  BY <1>1, NextIsFree DEF Submit, Control
<1>3. \A t \in Workers : SerialOK(t) /\ (MustHandOn(t) => HandedOn(t))
  BY SerialParts
<1>4. pc[p] \in {"input", "dead"} /\ hwaccel[p] = NoHw /\ ~ hwaccel_threadsafe[p] /\ hwaccel_mutex # p
  <2>1. pc[p] \in {"input", "dead"}
    BY <1>2 DEF Control, WorkersInv, PcSet
  <2> QED  BY <1>2, <1>3, <2>1 DEF SerialOK
<1>5. pc[p] = "input"
  BY <1>2, <1>4 DEF Control, WorkersInv, CallerInv
<1>6. SetContext(p, Swapped(Kept(p))) /\ stash_hwaccel' = Kept(p).hw
  BY <1>1, <1>4, SerialContexts DEF Submit, Kept
<1>7. /\ hwaccel' = [hwaccel EXCEPT ![p] = stash_hwaccel]
      /\ live' = live /\ stash_hwaccel' = NoHw
      /\ hwaccel_threadsafe' = [hwaccel_threadsafe EXCEPT ![p] = FALSE]
  BY <1>4, <1>6 DEF SetContext, Swapped, Kept
<1>8. state' = [state EXCEPT ![p] = "SETTING_UP"] /\ UNCHANGED <<pc, hwaccel_mutex, nomem>>
  BY <1>1 DEF Submit
<1>9. \A t \in Workers : SerialOK(t)'
  BY <1>3, <1>4, <1>5, <1>7, <1>8 DEF SerialOK
<1>10. ASSUME NEW t \in Workers, MustHandOn(t)' PROVE HandedOn(t)'
  <2>1. t # p /\ MustHandOn(t)
    BY <1>4, <1>7, <1>8, <1>10 DEF MustHandOn
  <2>2. \A u \in Workers : state[u] # "SETTING_UP"
    <3>1. \A u \in Workers : state[u] = "SETTING_UP" => prev_thread = u
      BY DEF Control, WorkersInv
    <3>2. prev_thread = None \/ state[prev_thread] # "SETTING_UP"
      BY DEF Submit, SetupPending
    <3> QED  BY <3>1, <3>2, Data
  <2>3. stash_hwaccel = hwaccel[t]
    BY <1>3, <2>1, <2>2 DEF HandedOn
  <2>4. pc'[p] = "input" /\ state'[p] = "SETTING_UP" /\ hwaccel'[p] = hwaccel'[t]
    BY <1>5, <1>7, <1>8, <2>1, <2>3
  <2> QED  BY <2>4 DEF HandedOn
<1>11. HwSerial'
  BY <1>9, <1>10 DEF HwSerial, SerialOK, MustHandOn, HandedOn
<1>12. \A h : h \in HwRefs' <=> h \in HwRefs
  BY <1>4, <1>7, RefsAre
<1> QED  BY <1>7, <1>8, <1>11, <1>12 DEF RefsOK

LEMMA HwStep == TypeOK /\ Control /\ HwInv /\ [Next]_vars => HwInv'
<1> SUFFICES ASSUME TypeOK, Control, HwInv, [Next]_vars PROVE HwInv'
  OBVIOUS
<1>a. RefsOK /\ WorkersInv /\ CallerInv
  BY DEF HwInv, Control
<1>1. CASE \/ ReceiveCall \/ ParkCall \/ WaitSync \/ NoPacket \/ GetPacket \/ SubmitSleep
           \/ WaitSleep \/ Collect \/ ReturnResult \/ Park \/ AsyncLock \/ FreeDie
           \/ (\E x \in Workers \cup {User} : SpuriousWakeup(x)) \/ UNCHANGED vars
  <2>1. UNCHANGED <<hwVars, hwKind, pc, state>>
    BY <1>1 DEF ReceiveCall, ParkCall, WaitSync, NoPacket, GetPacket, SubmitSleep, WaitSleep,
                Collect, ReturnResult, Park, AsyncLock, FreeDie, SpuriousWakeup, vars, workerVars
  <2> QED  BY <2>1, HwKept
<1>2. CASE \E t \in Workers : WorkerDie(t) \/ AllocFail(t) \/ SetupAsync(t) \/ AwaitProgress(t)
                              \/ Decode(t) \/ WorkerAsyncUnlock(t) \/ WorkerFinish(t)
  BY <1>2, <1>a, HwWorkerMoves
<1>3. CASE \/ \E t \in Workers : \/ WorkerBegin(t) \/ CodecSetup(t) \/ SetupHwLock(t)
                                  \/ SetupPublish(t) \/ WorkerRelease(t)
           \/ SubmitFails \/ Submit \/ Flush \/ FreeJoin
  <2>1. hwKind' = hwKind
    BY <1>3 DEF WorkerBegin, CodecSetup, SetupHwLock, SetupPublish, WorkerRelease, SubmitFails,
                Submit, Flush, FreeJoin
  <2>2. CASE hwKind = "threadsafe"
    <3>1. HwThreadSafe' /\ RefsOK'
      BY <1>3, <1>a, <2>2, ThreadSafeStep DEF HwInv
    <3> QED  BY <2>1, <2>2, <3>1 DEF HwInv
  <2>3. CASE hwKind = "serial"
    <3>1. HwSerial
      BY <2>3 DEF HwInv
    <3>2. ASSUME NEW t \in Workers, CodecSetup(t) \/ SetupHwLock(t) \/ SetupPublish(t)
          PROVE  HwSerial' /\ RefsOK'
      BY <1>a, <2>3, <3>1, <3>2, SerialSetup
    <3>3. ASSUME NEW t \in Workers, WorkerBegin(t) PROVE HwSerial' /\ RefsOK'
      BY <1>a, <2>3, <3>1, <3>3, SerialBegin
    <3>4. ASSUME NEW t \in Workers, WorkerRelease(t) PROVE HwSerial' /\ RefsOK'
      BY <1>a, <3>1, <3>4, SerialRelease
    <3>5. ASSUME SubmitFails \/ Flush \/ FreeJoin PROVE HwSerial' /\ RefsOK'
      BY <1>a, <3>1, <3>5, SerialCaller
    <3>6. ASSUME Submit PROVE HwSerial' /\ RefsOK'
      BY <1>a, <3>1, <3>6, SerialSubmit
    <3>7. HwSerial' /\ RefsOK'
      BY <1>3, <3>2, <3>3, <3>4, <3>5, <3>6
    <3> QED  BY <2>1, <2>3, <3>7 DEF HwInv
  <2> QED  BY <2>2, <2>3, KindIs
<1> QED  BY <1>1, <1>2, <1>3, Steps

-----------------------------------------------------------------------------
IInv == TypeOK /\ Control /\ AsyncInv /\ SleepersNotForgotten /\ HwInv

LEMMA InitIInv == Init => IInv
<1> SUFFICES ASSUME Init PROVE IInv
  OBVIOUS
<1> USE Data DEF Init
<1>1. TypeOK
  <2>1. df \in [Workers \cup {User} -> Seq(Packet)] /\ result \in [Workers \cup {User} -> Results]
    BY DEF Results
  <2>2. /\ pc \in [Workers -> PcSet] /\ ref \in [Workers -> Packets \cup {None}]
        /\ avpkt \in [Workers -> Packet \cup {None}] /\ asleep \in [Workers \cup {User} -> BOOLEAN]
        /\ state \in [Workers -> {"INPUT_READY", "SETTING_UP", "SETUP_FINISHED"}]
    BY DEF PcSet
  <2>3. /\ hwaccel \in [Workers -> HwContexts \cup {NoHw}]
        /\ hwaccel_threadsafe \in [Workers -> BOOLEAN]
        /\ async_serializing \in [Workers -> BOOLEAN] /\ die \in [Workers -> BOOLEAN]
    OBVIOUS
  <2>4. returned.res = "none" /\ taken \in 0 .. MaxPackets
    BY FrameThreadAssumption DEF Result
  <2> QED  BY <2>1, <2>2, <2>3, <2>4 DEF TypeOK
<1>2. WorkersInv
  BY DEF WorkersInv
<1>3. CallerInv
  BY DEF CallerInv, Parked
<1>4. RingInv
  BY DEF RingInv
<1>5. AsyncInv
  BY DEF AsyncInv, Outside
<1>6. SleepersNotForgotten
  BY DEF SleepersNotForgotten
<1>7. HwSerial /\ HwThreadSafe
  BY DEF HwSerial, HwThreadSafe
<1>8. RefsOK
  BY RefsAre DEF RefsOK
<1> QED  BY <1>1, <1>2, <1>3, <1>4, <1>5, <1>6, <1>7, <1>8 DEF IInv, Control, HwInv

LEMMA IInvStep == IInv /\ [Next]_vars => IInv'
BY TypeStep, ControlStep, AsyncStep, SleepersStep, HwStep DEF IInv, Control

LEMMA SpecIInv == Spec => []IInv
BY InitIInv, IInvStep, PTL DEF Spec

(* The assertions at 174, 270, 316, 546 and 700.                           *)
LEMMA IInvAsserts == IInv => AssertsHold
<1> SUFFICES ASSUME IInv PROVE AssertsHold
  OBVIOUS
<1> USE DEF IInv, Control
<1>1. upc \notin {"out", "flush", "free", "join", "freed"} \/ async_lock
  BY DEF AsyncInv, Outside
<1>2. ASSUME NEW t \in Workers, pc[t] = "unlock" PROVE async_lock
  BY <1>2 DEF AsyncInv
<1>3. ASSUME NEW t \in Workers
      PROVE  /\ pc[t] \in {"codec", "hwlock"} /\ ~ hwaccel_serial(t) => ~ Serializing(t)
             /\ pc[t] = "publish" => stash_hwaccel = NoHw
             /\ pc[t] \in {"unlock", "finish"} => ~ hwaccel_serial(t)
             /\ upc = "prev" /\ next_decoding = t => hwaccel[t] = NoHw \/ hwaccel_threadsafe[t]
  <2>1. CASE hwKind = "threadsafe"
    <3>1. HwThreadSafe /\ t # None
      BY <2>1, Data DEF HwInv
    <3> QED  BY <2>1, <3>1 DEF HwThreadSafe, hwaccel_serial, Serializing
  <2>2. CASE hwKind = "serial"
    <3>1. SerialOK(t)
      BY <2>2, SerialParts DEF HwInv
    <3>2. state[t] = "INPUT_READY" => hwaccel[t] = NoHw
      BY <3>1 DEF SerialOK, WorkersInv
    <3>3. upc = "prev" /\ next_decoding = t => state[t] = "INPUT_READY"
      BY NextIsFree
    <3>4. pc[t] = "publish" => state[t] = "SETTING_UP"
      BY DEF WorkersInv
    <3> QED  BY <2>2, <3>1, <3>2, <3>3, <3>4 DEF SerialOK, hwaccel_serial, Serializing
  <2> QED  BY <2>1, <2>2, KindIs
<1> QED  BY <1>1, <1>2, <1>3 DEF AssertsHold

(* The assertions of pthread_frame.c hold, and no worker or caller stays   *)
(* in pthread_cond_wait() when what it waits for has come: each change of  *)
(* state, of the async lock and of progress signals its condition.         *)
THEOREM InvHolds == Spec => []Inv
<1>1. IInv => Inv
  BY IInvAsserts DEF IInv, Inv
<1> QED  BY <1>1, SpecIInv, PTL

(* stash_hwaccel and hwaccel_mutex hand an hwaccel that is not thread-safe *)
(* from submit_packet() and ff_thread_finish_setup() to one worker at a    *)
(* time; no instance is used after it was freed, or lost.                  *)
THEOREM HwAccelIsExclusive == Spec => []HwAccelExclusive
<1>1. ASSUME IInv, NEW t \in Workers, hwaccel_serial(t),
             pc[t] \in {"codec", "async", "publish", "decode"}
      PROVE  Serializing(t)
  <2>1. HwSerial
    BY <1>1 DEF IInv, HwInv, hwaccel_serial
  <2> QED  BY <1>1, <2>1 DEF HwSerial, hwaccel_serial, Serializing
<1>2. IInv => HwAccelExclusive
  BY <1>1 DEF IInv, HwInv, RefsOK, HwAccelExclusive
<1> QED  BY <1>2, SpecIInv, PTL

-----------------------------------------------------------------------------
(* The results of a worker are there once it has decoded, are those of its *)
(* packet, and are gone when they have been collected.                     *)
Before == {"input", "codec", "hwlock", "async", "publish", "decode"}
After == {"release", "unlock", "finish"}
NoResult(t) == df[t] = <<>> /\ result[t] = "ok"

WorkerResultOK(t) ==
    /\ pc[t] \in Before /\ state[t] # "INPUT_READY" => NoResult(t)
    /\ pc[t] \in After => df[t] \in Frames(avpkt[t]) /\ (result[t] = "eof" => avpkt[t] = Drain)
    /\ ~ InRing(t) /\ ~ (upc = "wait_for_result" /\ waiting = t) /\ state[t] = "INPUT_READY"
          => NoResult(t)

(* The caller collects results when it holds none, and gives the packets   *)
(* of the input to the workers in their order.                             *)
CallerResultOK ==
    /\ upc \in {"prev", "wait_for_result"} => Idle
    /\ upc = "wait_for_result" => waiting = (next_finished - 1) % thread_count
    /\ upc = "prev" => avpkt[next_decoding] \in {taken + 1, Drain}

ResultsInv == CallerResultOK /\ \A t \in Workers : WorkerResultOK(t)

-----------------------------------------------------------------------------
(* The ring of workers: from a on, the i-th is At(a, i), and Count(a, b)   *)
(* of them come before b.                                                  *)
At(a, i) == (a + i - 1) % thread_count
Count(a, b) == (b - a) % thread_count

LEMMA ModIs ==
    ASSUME NEW x \in Int, - thread_count < x, x < 2 * thread_count
    PROVE  x % thread_count = IF x < 0 THEN x + thread_count
                              ELSE IF x >= thread_count THEN x - thread_count ELSE x
BY FrameThreadAssumption, Z3

LEMMA AtIs ==
    ASSUME NEW a \in Workers, NEW i \in 0 .. thread_count
    PROVE  At(a, i) = IF a + i = 0 THEN thread_count - 1
                      ELSE IF a + i > thread_count THEN a + i - 1 - thread_count ELSE a + i - 1
BY ModIs, FrameThreadAssumption DEF At, Workers

LEMMA CountIs ==
    ASSUME NEW a \in Workers, NEW b \in Workers
    PROVE  Count(a, b) = IF b < a THEN b - a + thread_count ELSE b - a
BY ModIs, FrameThreadAssumption DEF Count, Workers

LEMMA WorkersAre == Workers = 0 .. thread_count - 1 /\ thread_count \in Nat /\ thread_count > 1
BY FrameThreadAssumption DEF Workers

LEMMA CountType ==
    ASSUME NEW a \in Workers, NEW b \in Workers
    PROVE  /\ Count(a, b) \in 0 .. thread_count - 1
           /\ Count(a, b) = 0 <=> a = b
           /\ Next1(b) = a => Count(a, b) = thread_count - 1
<1>1. Next1(b) = IF b = thread_count - 1 THEN 0 ELSE b + 1
  BY Next1Type
<1>2. Count(a, b) = IF b < a THEN b - a + thread_count ELSE b - a
  BY CountIs
<1> QED  BY <1>1, <1>2, WorkersAre

LEMMA AtType ==
    ASSUME NEW a \in Workers, NEW i \in 0 .. thread_count
    PROVE  At(a, i) \in Workers
<1>1. At(a, i) = IF a + i = 0 THEN thread_count - 1
                 ELSE IF a + i > thread_count THEN a + i - 1 - thread_count ELSE a + i - 1
  BY AtIs
<1> QED  BY <1>1, WorkersAre

(* Both ends of the ring when they move on.                                *)
LEMMA RingFront ==
    ASSUME NEW a \in Workers, NEW b \in Workers
    PROVE  /\ At(a, 1) = a /\ At(Next1(a), 0) = a
           /\ \A i \in 0 .. thread_count - 1 : At(Next1(a), i) = At(a, i + 1)
           /\ a # b => Count(Next1(a), b) = Count(a, b) - 1
           /\ Count(Next1(a), a) = thread_count - 1
           /\ ~ RingAt(Next1(a), b, a)
<1>1. Next1(a) \in Workers /\ Next1(a) = IF a = thread_count - 1 THEN 0 ELSE a + 1
  BY Next1Type
<1>2. At(a, 1) = a /\ At(Next1(a), 0) = a
  BY <1>1, AtIs, WorkersAre
<1>3. ASSUME NEW i \in 0 .. thread_count - 1 PROVE At(Next1(a), i) = At(a, i + 1)
  <2>1. i + 1 \in 0 .. thread_count /\ i \in 0 .. thread_count
    BY WorkersAre
  <2>2. /\ At(Next1(a), i) = IF Next1(a) + i = 0 THEN thread_count - 1
                             ELSE IF Next1(a) + i > thread_count
                                  THEN Next1(a) + i - 1 - thread_count ELSE Next1(a) + i - 1
        /\ At(a, i + 1) = IF a + i + 1 > thread_count THEN a + i - thread_count ELSE a + i
    BY <1>1, <2>1, AtIs, WorkersAre
  <2> QED  BY <1>1, <2>1, <2>2, WorkersAre
<1>4. a # b => Count(Next1(a), b) = Count(a, b) - 1
  <2>1. PICK c \in Workers : c = Next1(a)
    BY <1>1
  <2>2. /\ Count(a, b) = IF b < a THEN b - a + thread_count ELSE b - a
        /\ Count(c, b) = IF b < c THEN b - c + thread_count ELSE b - c
    BY CountIs
  <2>3. a \in Nat /\ b \in Nat /\ a < thread_count /\ b < thread_count /\ thread_count \in Nat
    BY WorkersAre
  <2>4. CASE a = thread_count - 1
    <3>1. c = 0
      BY <1>1, <2>1, <2>4
    <3> QED  BY <2>1, <2>2, <2>3, <2>4, <3>1
  <2>5. CASE a # thread_count - 1
    <3>1. c = a + 1
      BY <1>1, <2>1, <2>5
    <3> QED  BY <2>1, <2>2, <2>3, <2>5, <3>1
  <2> QED  BY <2>4, <2>5
<1>5. Count(Next1(a), a) = thread_count - 1 /\ ~ RingAt(Next1(a), b, a)
  <2>1. PICK c \in Workers : c = Next1(a)
    BY <1>1
  <2>2. Count(c, a) = thread_count - 1
    <3>1. Count(c, a) = IF a < c THEN a - c + thread_count ELSE a - c
      BY CountIs
    <3>2. c = IF a = thread_count - 1 THEN 0 ELSE a + 1
      BY <1>1, <2>1
    <3> QED  BY <3>1, <3>2, WorkersAre
  <2>3. ~ RingAt(c, b, a)
    <3>1. a \in Nat /\ b \in Nat /\ c \in Nat /\ a < thread_count /\ b < thread_count
      BY WorkersAre
    <3>2. CASE a = thread_count - 1 /\ c = 0
      BY <3>1, <3>2, WorkersAre DEF RingAt
    <3>3. CASE c = a + 1
      BY <3>1, <3>3 DEF RingAt
    <3> QED  BY <1>1, <2>1, <3>2, <3>3
  <2> QED  BY <2>1, <2>2, <2>3
<1> QED  BY <1>2, <1>3, <1>4, <1>5

LEMMA RingBack ==
    ASSUME NEW a \in Workers, NEW b \in Workers
    PROVE  /\ At(a, Count(a, b) + 1) = b
           /\ Next1(b) # a => Count(a, Next1(b)) = Count(a, b) + 1
           /\ ~ RingAt(a, b, b)
<1>1. Next1(b) \in Workers /\ Next1(b) = IF b = thread_count - 1 THEN 0 ELSE b + 1
  BY Next1Type
<1>2. /\ Count(a, b) \in 0 .. thread_count - 1
      /\ Count(a, b) = IF b < a THEN b - a + thread_count ELSE b - a
  BY CountType, CountIs
<1>3. At(a, Count(a, b) + 1) = b
  <2>1. Count(a, b) + 1 \in 0 .. thread_count
    BY <1>2, WorkersAre
  <2> DEFINE i == Count(a, b) + 1
  <2>2. At(a, i) = IF a + i = 0 THEN thread_count - 1
                   ELSE IF a + i > thread_count THEN a + i - 1 - thread_count ELSE a + i - 1
    BY <2>1, AtIs
  <2> QED  BY <1>2, <2>2, WorkersAre
<1>4. Next1(b) # a => Count(a, Next1(b)) = Count(a, b) + 1
  <2>1. PICK c \in Workers : c = Next1(b)
    BY <1>1
  <2>2. /\ Count(a, b) = IF b < a THEN b - a + thread_count ELSE b - a
        /\ Count(a, c) = IF c < a THEN c - a + thread_count ELSE c - a
    BY CountIs
  <2>3. a \in Nat /\ b \in Nat /\ a < thread_count /\ b < thread_count /\ thread_count \in Nat
    BY WorkersAre
  <2>4. CASE b = thread_count - 1
    <3>1. c = 0
      BY <1>1, <2>1, <2>4
    <3> QED  BY <2>1, <2>2, <2>3, <2>4, <3>1
  <2>5. CASE b # thread_count - 1
    <3>1. c = b + 1
      BY <1>1, <2>1, <2>5
    <3> QED  BY <2>1, <2>2, <2>3, <2>5, <3>1
  <2> QED  BY <2>4, <2>5
<1> QED  BY <1>3, <1>4, WorkersAre DEF RingAt

LEMMA RingPlaces ==
    ASSUME NEW a \in Workers, NEW b \in Workers
    PROVE  /\ \A i \in 1 .. Count(a, b) : RingAt(a, b, At(a, i))
           /\ \A t \in Workers : RingAt(a, b, t) =>
                  Count(a, t) + 1 \in 1 .. Count(a, b) /\ At(a, Count(a, t) + 1) = t
           /\ \A i, j \in 1 .. Count(a, b) : At(a, i) = At(a, j) => i = j
<1>1. /\ Count(a, b) \in 0 .. thread_count - 1
      /\ Count(a, b) = IF b < a THEN b - a + thread_count ELSE b - a
  BY CountType, CountIs
<1>a. ASSUME NEW i \in 1 .. Count(a, b)
      PROVE  /\ i \in 1 .. thread_count - 1
             /\ At(a, i) = IF a + i > thread_count THEN a + i - 1 - thread_count ELSE a + i - 1
  <2>1. i \in 1 .. thread_count - 1 /\ i \in 0 .. thread_count
    BY <1>1, WorkersAre
  <2>2. At(a, i) = IF a + i = 0 THEN thread_count - 1
                   ELSE IF a + i > thread_count THEN a + i - 1 - thread_count ELSE a + i - 1
    BY <2>1, AtIs
  <2> QED  BY <2>1, <2>2, WorkersAre
<1>2. ASSUME NEW i \in 1 .. Count(a, b) PROVE RingAt(a, b, At(a, i))
  BY <1>1, <1>a, WorkersAre DEF RingAt
<1>3. ASSUME NEW t \in Workers, RingAt(a, b, t)
      PROVE  Count(a, t) + 1 \in 1 .. Count(a, b) /\ At(a, Count(a, t) + 1) = t
  <2>1. Count(a, t) = IF t < a THEN t - a + thread_count ELSE t - a
    BY CountIs
  <2>2. Count(a, t) + 1 \in 1 .. Count(a, b)
    BY <1>1, <1>3, <2>1, WorkersAre DEF RingAt
  <2> QED  BY <2>2, RingBack
<1>4. ASSUME NEW i \in 1 .. Count(a, b), NEW j \in 1 .. Count(a, b), At(a, i) = At(a, j)
      PROVE  i = j
  BY <1>1, <1>4, <1>a, WorkersAre
<1> QED  BY <1>2, <1>3, <1>4

-----------------------------------------------------------------------------
(* The results.                                                            *)

LEMMA NoFrames == \A k : <<>> \in Frames(k)
<1> SUFFICES ASSUME NEW k PROVE <<>> \in Frames(k)
  OBVIOUS
<1>1. [i \in 1 .. 0 |-> k] = <<>> /\ 0 \in 0 .. MaxFrames
  BY FrameThreadAssumption
<1> QED  BY <1>1, Zenon DEF Frames

(* What a step of a worker does to results.                                *)
LEMMA WorkerResults ==
    ASSUME TypeOK, Control, NEW t \in Workers, WorkerResultOK(t), WorkerStep(t)
    PROVE  /\ \A x \in (Workers \cup {User}) \ {t} : df'[x] = df[x] /\ result'[x] = result[x]
           /\ WorkerResultOK(t)'
           /\ ~ WorkerFinish(t) => /\ state'[t] = "INPUT_READY" <=> state[t] = "INPUT_READY"
                                   /\ avpkt'[t] = avpkt[t]
           /\ state[t] = "INPUT_READY" => df'[t] = df[t] /\ result'[t] = result[t]
           /\ UNCHANGED <<fctxVars, userVars>>
<1> DEFINE Changed ==
        /\ df' = [df EXCEPT ![t] = df'[t]] /\ result' = [result EXCEPT ![t] = result'[t]]
        /\ WorkerResultOK(t)'
        /\ ~ WorkerFinish(t) => /\ state'[t] = "INPUT_READY" <=> state[t] = "INPUT_READY"
                                /\ avpkt'[t] = avpkt[t]
        /\ state[t] = "INPUT_READY" => df'[t] = df[t] /\ result'[t] = result[t]
<1>a. UNCHANGED <<fctxVars, userVars>>
  BY WorkerMoves DEF Control
<1>b. /\ UNCHANGED <<next_decoding, next_finished, upc, waiting>>
      /\ InRing(t)' = InRing(t)
  BY <1>a DEF fctxVars, userVars, InRing
<1>c. /\ pc[t] \in {"codec", "hwlock", "async", "publish", "decode", "release", "unlock", "finish"}
           => state[t] # "INPUT_READY"
      /\ state[t] # "INPUT_READY" => InRing(t) \/ (upc = "wait_for_result" /\ waiting = t)
      /\ pc[t] = "dead" => state[t] = "INPUT_READY"
  BY DEF Control, WorkersInv, RingInv
<1>d. /\ df \in [Workers \cup {User} -> Seq(Packet)] /\ result \in [Workers \cup {User} -> Results]
      /\ state \in [Workers -> {"INPUT_READY", "SETTING_UP", "SETUP_FINISHED"}]
      /\ pc \in [Workers -> PcSet] /\ avpkt \in [Workers -> Packet \cup {None}]
  BY DEF TypeOK
<1> USE DEF WorkerResultOK, NoResult, Before, After, Goto, PcSet
(* Most steps do not touch them.                                           *)
<1>e. ASSUME UNCHANGED <<df, result, state, avpkt>>,
             \/ pc'[t] \in {"input", "dead"} /\ pc[t] = "input"
             \/ pc'[t] \in Before /\ pc[t] \in Before
             \/ pc'[t] \in After /\ pc[t] \in After
      PROVE  Changed
  BY <1>b, <1>c, <1>d, <1>e
<1>1. ASSUME WorkerDie(t) PROVE Changed
  BY <1>1, <1>d, <1>e DEF WorkerDie
<1>2. ASSUME WorkerBegin(t) PROVE Changed
  BY <1>2, <1>d, <1>e DEF WorkerBegin
<1>3. ASSUME AllocFail(t) PROVE Changed
  <2>1. PICK fs \in Frames(avpkt[t]) : df' = [df EXCEPT ![t] = @ \o fs]
    BY <1>3, NoFrames DEF AllocFail
  <2>2. avpkt[t] \in Packet
    BY <1>3, <1>c, <1>d DEF AllocFail, Control, WorkersInv
  <2>3. fs \in Seq(Packet) /\ df[t] = <<>>
    BY <1>3, <1>c, <2>2, FramesType DEF AllocFail
  <2>4. df'[t] = fs /\ df' = [df EXCEPT ![t] = df'[t]]
    BY <1>d, <2>1, <2>3
  <2>5. result'[t] = "error" /\ pc'[t] = "release" /\ result' = [result EXCEPT ![t] = result'[t]]
        /\ UNCHANGED <<state, avpkt>>
    BY <1>3, <1>d DEF AllocFail
  <2> QED  BY <1>3, <1>b, <1>c, <1>d, <2>4, <2>5 DEF AllocFail
<1>4. ASSUME CodecSetup(t) PROVE Changed
  <2>1. pc'[t] \in {"hwlock", "async", "publish"} /\ pc[t] = "codec"
    BY <1>4, <1>d DEF CodecSetup, AfterHwLock
  <2> QED  BY <1>4, <2>1, <1>e DEF CodecSetup
<1>5. ASSUME SetupHwLock(t) PROVE Changed
  BY <1>5, <1>d, <1>e DEF SetupHwLock, AfterHwLock
<1>6. ASSUME SetupAsync(t) PROVE Changed
  BY <1>6, <1>d, <1>e DEF SetupAsync
<1>7. ASSUME SetupPublish(t) PROVE Changed
  <2>1. /\ state'[t] = "SETUP_FINISHED" /\ pc'[t] = "decode" /\ pc[t] = "publish"
        /\ UNCHANGED <<df, result, avpkt>>
    BY <1>7, <1>d DEF SetupPublish
  <2> QED  BY <1>b, <1>c, <1>d, <2>1
<1>8. ASSUME AwaitProgress(t) PROVE Changed
  BY <1>8, <1>d, <1>e DEF AwaitProgress, workerVars
<1>9. ASSUME Decode(t) PROVE Changed
  <2>1. PICK fs \in Frames(avpkt[t]) : df' = [df EXCEPT ![t] = @ \o fs]
    BY <1>9 DEF Decode
  <2>2. avpkt[t] \in Packet
    BY <1>9, <1>c, <1>d DEF Decode, Control, WorkersInv
  <2>3. fs \in Seq(Packet) /\ df[t] = <<>>
    BY <1>9, <1>c, <2>2, FramesType DEF Decode
  <2>4. df'[t] = fs /\ df' = [df EXCEPT ![t] = df'[t]]
    BY <1>d, <2>1, <2>3
  <2>5. /\ result'[t] = "eof" => avpkt[t] = Drain
        /\ pc'[t] = "release" /\ result' = [result EXCEPT ![t] = result'[t]]
        /\ UNCHANGED <<state, avpkt>>
    BY <1>9, <1>d DEF Decode
  <2> QED  BY <1>9, <1>b, <1>c, <1>d, <2>4, <2>5 DEF Decode
<1>10. ASSUME WorkerRelease(t) PROVE Changed
  BY <1>10, <1>d, <1>e DEF WorkerRelease
<1>11. ASSUME WorkerAsyncUnlock(t) PROVE Changed
  BY <1>11, <1>d, <1>e DEF WorkerAsyncUnlock
<1>12. ASSUME WorkerFinish(t) PROVE Changed
  <2>1. /\ state'[t] = "INPUT_READY" /\ pc'[t] = "input" /\ pc[t] = "finish"
        /\ UNCHANGED <<df, result>>
    BY <1>12, <1>d DEF WorkerFinish
  <2> QED  BY <1>12, <1>b, <1>c, <1>d, <2>1
<1>13. Changed
  BY <1>1, <1>2, <1>3, <1>4, <1>5, <1>6, <1>7, <1>8, <1>9, <1>10, <1>11, <1>12
     DEF WorkerStep
<1> QED  BY <1>a, <1>d, <1>13

LEMMA WorkerResultsKept ==
    ASSUME NEW t \in Workers, WorkerResultOK(t),
           UNCHANGED <<next_finished, next_decoding, state, pc>>,
           df'[t] = df[t], result'[t] = result[t], pc[t] \in After => avpkt'[t] = avpkt[t],
           (upc = "wait_for_result" /\ waiting = t) => (upc' = "wait_for_result" /\ waiting' = t)
    PROVE  WorkerResultOK(t)'
BY DEF WorkerResultOK, NoResult, InRing

(* The worker after the last one of the ring has no results.               *)
LEMMA OutsideTheRing ==
    ASSUME TypeOK, Control, ResultsInv, upc # "wait_for_result"
    PROVE  NoResult(next_decoding)
<1>1. next_decoding \in Workers /\ next_finished \in Workers
  BY DEF TypeOK
<1>2. ~ InRing(next_decoding)
  BY <1>1, RingBack DEF RingAt, InRing
<1>3. state[next_decoding] = "INPUT_READY"
  BY NextIsFree DEF Control
<1> QED  BY <1>1, <1>2, <1>3 DEF ResultsInv, WorkerResultOK

(* A packet is given to a worker, or a result is waited for, or both.      *)
LEMMA ResultsSubmit ==
    ASSUME TypeOK, Control, ResultsInv, Submit
    PROVE  ResultsInv'
<1> DEFINE p == next_decoding
           a == next_finished
<1>1. /\ upc = "prev" /\ p \in Workers /\ a \in Workers
      /\ state' = [state EXCEPT ![p] = "SETTING_UP"]
      /\ next_decoding' = Next1(p)
      /\ UNCHANGED <<df, result, avpkt, pc>>
      /\ \/ Next1(p) # a /\ upc' = "loop" /\ UNCHANGED <<waiting, next_finished>>
         \/ upc' = "wait_for_result" /\ waiting' = a /\ next_finished' = Next1(a)
  BY DEF Submit, TypeOK, WaitForResult, UserGoto
<1>2. /\ state[p] = "INPUT_READY" /\ NoResult(p) /\ Idle
      /\ state \in [Workers -> {"INPUT_READY", "SETTING_UP", "SETUP_FINISHED"}]
  BY <1>1, NextIsFree, OutsideTheRing DEF Control, ResultsInv, CallerResultOK, TypeOK
<1>3. CallerResultOK'
  <2>1. upc' = "wait_for_result" => waiting' = (next_finished' - 1) % thread_count
    <3>1. At(Next1(a), 0) = a
      BY <1>1, RingFront
    <3>2. Next1(a) + 0 - 1 = Next1(a) - 1
      BY <1>1, Next1Type, WorkersAre
    <3> QED  BY <1>1, <3>1, <3>2 DEF At
  <2> QED  BY <1>1, <1>2, <2>1 DEF CallerResultOK, Idle
<1>4. ASSUME NEW t \in Workers PROVE WorkerResultOK(t)'
  <2>1. WorkerResultOK(t)
    BY DEF ResultsInv
  <2>2. CASE t = p
    <3>1. pc[p] \notin After
      BY <1>1, <1>2 DEF Control, WorkersInv, After
    <3>2. state'[p] = "SETTING_UP"
      BY <1>1, <1>2
    <3> QED  BY <1>1, <1>2, <2>2, <3>1, <3>2 DEF WorkerResultOK, NoResult
  <2>3. CASE t # p
    <3>1. state'[t] = state[t]
      BY <1>1, <1>2, <2>3
    <3>2. RingAt(a, p, t) => InRing(t)' \/ (upc' = "wait_for_result" /\ waiting' = t)
      <4>1. CASE Next1(p) # a /\ UNCHANGED next_finished
        BY <1>1, <4>1, RingMoves DEF InRing, RingAt
      <4>2. CASE upc' = "wait_for_result" /\ waiting' = a /\ next_finished' = Next1(a)
        <5>1. RingAt(a, p, t) => t = a \/ RingAt(Next1(a), Next1(p), t)
          <6>1. CASE Next1(p) = a
            BY <1>1, <6>1, RingMoves
          <6>2. CASE Next1(p) # a
            <7>1. RingAt(a, p, t) => RingAt(a, Next1(p), t)
              BY <1>1, <6>2, RingMoves
            <7>2. Next1(p) \in Workers
              BY <1>1, Next1Type
            <7> QED  BY <1>1, <7>1, <7>2, RingMoves
          <6> QED  BY <6>1, <6>2
        <5> QED  BY <1>1, <4>2, <5>1 DEF InRing, RingAt
      <4> QED  BY <1>1, <4>1, <4>2
    <3>3. RingAt(a, p, t) = InRing(t)
      BY DEF RingAt, InRing
    <3> QED  BY <1>1, <2>1, <3>1, <3>2, <3>3 DEF WorkerResultOK, NoResult
  <2> QED  BY <2>2, <2>3
<1> QED  BY <1>3, <1>4 DEF ResultsInv

LEMMA ResultsWaitSync ==
    ASSUME TypeOK, Control, ResultsInv, WaitSync
    PROVE  ResultsInv'
<1> DEFINE a == next_finished
           b == next_decoding
<1>1. /\ upc = "loop" /\ a \in Workers /\ b \in Workers /\ a # b /\ Idle
      /\ UNCHANGED <<df, result, avpkt, pc, state, next_decoding>>
      /\ upc' = "wait_for_result" /\ waiting' = a /\ next_finished' = Next1(a)
  BY DEF WaitSync, TypeOK, WaitForResult, UserGoto, workerVars
<1>2. CallerResultOK'
  <2>1. At(Next1(a), 0) = a
    BY <1>1, RingFront
  <2>2. Next1(a) + 0 - 1 = Next1(a) - 1
    BY <1>1, Next1Type, WorkersAre
  <2> QED  BY <1>1, <2>1, <2>2 DEF At, CallerResultOK, Idle
<1>3. ASSUME NEW t \in Workers PROVE WorkerResultOK(t)'
  <2>1. WorkerResultOK(t)
    BY DEF ResultsInv
  <2>2. RingAt(a, b, t) => t = a \/ RingAt(Next1(a), b, t)
    BY <1>1, RingMoves
  <2>3. InRing(t) => InRing(t)' \/ (upc' = "wait_for_result" /\ waiting' = t)
    BY <1>1, <2>2 DEF InRing, RingAt
  <2> QED  BY <1>1, <2>1, <2>3 DEF WorkerResultOK, NoResult
<1> QED  BY <1>2, <1>3 DEF ResultsInv

LEMMA ResultsCollect ==
    ASSUME TypeOK, Control, ResultsInv, Collect
    PROVE  ResultsInv'
<1>1. /\ upc = "wait_for_result" /\ upc' = "loop" /\ waiting \in Workers
      /\ state[waiting] = "INPUT_READY"
      /\ UNCHANGED <<avpkt, pc, state, next_decoding, next_finished>>
      /\ \A t \in Workers : IF t = waiting THEN NoResult(t)'
                            ELSE df'[t] = df[t] /\ result'[t] = result[t]
  <2>1. waiting \in Workers /\ User \notin Workers
    BY Data DEF Collect, Control, CallerInv
  <2>2. df' = [df EXCEPT ![User] = df[waiting], ![waiting] = <<>>]
        /\ result' = [result EXCEPT ![User] = result[waiting], ![waiting] = "ok"]
    BY DEF Collect
  <2>3. \A t \in Workers : IF t = waiting THEN NoResult(t)'
                           ELSE df'[t] = df[t] /\ result'[t] = result[t]
    BY <2>1, <2>2 DEF TypeOK, NoResult
  <2> QED  BY <2>1, <2>3 DEF Collect, UserGoto, fctxVars, workerVars
<1>2. CallerResultOK'
  BY <1>1 DEF CallerResultOK
<1>3. ASSUME NEW t \in Workers PROVE WorkerResultOK(t)'
  <2>1. WorkerResultOK(t) /\ InRing(t)' = InRing(t)
    BY <1>1 DEF ResultsInv, InRing
  <2>2. pc[waiting] \notin After
    BY <1>1 DEF Control, WorkersInv, After
  <2> QED  BY <1>1, <2>1, <2>2 DEF WorkerResultOK, NoResult
<1> QED  BY <1>2, <1>3 DEF ResultsInv

(* ff_thread_flush() and ff_frame_thread_free() drop what is left.         *)
LEMMA ResultsDrop ==
    ASSUME TypeOK, Control, Parked, DropResults, UNCHANGED <<pc, state, avpkt>>,
           upc' \notin {"prev", "wait_for_result"}
    PROVE  ResultsInv'
<1>1. \A t \in Workers : NoResult(t)'
  BY DEF DropResults, TypeOK, NoResult
<1>2. \A t \in Workers : pc[t] \notin After
  BY DEF Control, CallerInv, WorkersInv, After
<1>3. \A t \in Workers : WorkerResultOK(t)'
  BY <1>1, <1>2 DEF WorkerResultOK, NoResult
<1> QED  BY <1>3 DEF ResultsInv, CallerResultOK

LEMMA ResultsStep == TypeOK /\ Control /\ ResultsInv /\ [Next]_vars => ResultsInv'
<1> SUFFICES ASSUME TypeOK, Control, ResultsInv, [Next]_vars PROVE ResultsInv'
  OBVIOUS
<1>a. next_decoding \in Workers /\ User \notin Workers
  BY Data DEF TypeOK
<1> USE DEF CallerResultOK, Idle, UserGoto, fctxVars, userVars, workerVars
(* The caller leaves the workers alone.                                    *)
<1>b. ASSUME UNCHANGED <<next_finished, next_decoding, state, pc>>,
             \A t \in Workers : /\ df'[t] = df[t] /\ result'[t] = result[t]
                                /\ pc[t] \in After => avpkt'[t] = avpkt[t],
             upc = "wait_for_result" => UNCHANGED <<upc, waiting>>
      PROVE  \A t \in Workers : WorkerResultOK(t)'
  BY <1>b, WorkerResultsKept DEF ResultsInv
<1>c. ASSUME UNCHANGED <<next_finished, next_decoding, state, pc, df, result, avpkt>>,
             \/ UNCHANGED <<upc, waiting, taken>>
             \/ upc # "wait_for_result" /\ upc' \notin {"prev", "wait_for_result"}
      PROVE  ResultsInv'
  <2>1. \A t \in Workers : WorkerResultOK(t)'
    BY <1>b, <1>c
  <2> QED  BY <1>c, <2>1 DEF ResultsInv
<1>1. ASSUME NEW t \in Workers, WorkerStep(t) PROVE ResultsInv'
  <2>1. WorkerResultOK(t)
    BY DEF ResultsInv
  <2>2. /\ \A x \in (Workers \cup {User}) \ {t} : df'[x] = df[x] /\ result'[x] = result[x]
        /\ WorkerResultOK(t)'
        /\ state[t] = "INPUT_READY" => df'[t] = df[t] /\ result'[t] = result[t]
        /\ UNCHANGED <<fctxVars, userVars>>
    BY <1>1, <2>1, WorkerResults
  <2>3. /\ \A u \in Workers \ {t} :
               state'[u] = state[u] /\ pc'[u] = pc[u] /\ avpkt'[u] = avpkt[u]
        /\ state[t] = "INPUT_READY" => avpkt'[t] = avpkt[t]
    BY <1>1, WorkerMoves DEF Control
  <2>4. UNCHANGED <<upc, waiting, next_decoding, next_finished, taken>>
    BY <2>2
  <2>5. ASSUME NEW u \in Workers \ {t} PROVE WorkerResultOK(u)'
    <3>1. WorkerResultOK(u)
      BY DEF ResultsInv
    <3> QED  BY <2>2, <2>3, <2>4, <3>1 DEF WorkerResultOK, NoResult, InRing
  <2>6. upc = "prev" => avpkt'[next_decoding] = avpkt[next_decoding]
    BY <1>a, <2>3, NextIsFree DEF Control
  <2>7. CallerResultOK'
    BY <1>1, <1>a, <2>2, <2>4, <2>6 DEF ResultsInv
  <2> QED  BY <2>2, <2>5, <2>7 DEF ResultsInv
<1>2. ASSUME ReceiveCall PROVE ResultsInv'
  BY <1>2, <1>c DEF ReceiveCall, Call
<1>3. ASSUME ParkCall PROVE ResultsInv'
  BY <1>3, <1>c DEF ParkCall, Call
<1>4. ASSUME WaitSync PROVE ResultsInv'
  BY <1>4, ResultsWaitSync
<1>5. ASSUME NoPacket PROVE ResultsInv'
  BY <1>5, <1>c DEF NoPacket, WantsPacket, Return
<1>6. ASSUME GetPacket PROVE ResultsInv'
  <2>1. /\ upc = "loop" /\ Idle /\ upc' = "prev"
        /\ UNCHANGED <<next_finished, next_decoding, state, pc, df, result, taken>>
        /\ \/ avpkt' = [avpkt EXCEPT ![next_decoding] = taken + 1]
           \/ avpkt' = [avpkt EXCEPT ![next_decoding] = Drain]
        /\ avpkt \in [Workers -> Packet \cup {None}]
    BY <1>6 DEF GetPacket, WantsPacket, TypeOK
  <2>2. avpkt'[next_decoding] \in {taken + 1, Drain}
        /\ \A t \in Workers \ {next_decoding} : avpkt'[t] = avpkt[t]
    BY <1>a, <2>1
  <2>3. pc[next_decoding] \notin After
    BY <1>a, <2>1, NextIsFree DEF Control, WorkersInv, After
  <2>4. \A t \in Workers : WorkerResultOK(t)'
    BY <1>b, <2>1, <2>2, <2>3
  <2> QED  BY <2>1, <2>2, <2>4 DEF ResultsInv
<1>7. ASSUME SubmitFails PROVE ResultsInv'
  BY <1>7, <1>c DEF SubmitFails, Return
<1>8. ASSUME SubmitSleep PROVE ResultsInv'
  BY <1>8, <1>c DEF SubmitSleep
<1>9. ASSUME Submit PROVE ResultsInv'
  BY <1>9, ResultsSubmit
<1>10. ASSUME WaitSleep PROVE ResultsInv'
  BY <1>10, <1>c DEF WaitSleep
<1>11. ASSUME Collect PROVE ResultsInv'
  BY <1>11, ResultsCollect
<1>12. ASSUME ReturnResult PROVE ResultsInv'
  <2>1. /\ upc = "loop" /\ upc' = "async_lock"
        /\ UNCHANGED <<next_finished, next_decoding, state, pc, avpkt>>
        /\ \A t \in Workers : df'[t] = df[t] /\ result'[t] = result[t]
    <3>1. CASE df[User] # <<>>
      BY <1>a, <1>12, <3>1 DEF ReturnResult, Return, TypeOK
    <3>2. CASE df[User] = <<>>
      BY <1>a, <1>12, <3>2 DEF ReturnResult, Return, TypeOK
    <3> QED  BY <3>1, <3>2
  <2>2. \A t \in Workers : WorkerResultOK(t)'
    BY <1>b, <2>1
  <2> QED  BY <2>1, <2>2 DEF ResultsInv
<1>13. ASSUME Park PROVE ResultsInv'
  BY <1>13, <1>c DEF Park
<1>14. ASSUME AsyncLock PROVE ResultsInv'
  <2>1. upc = "async_lock" /\ (UNCHANGED <<upc, waiting, taken>> \/ upc' \in {"out", op})
        /\ UNCHANGED <<next_finished, next_decoding, state, pc, df, result, avpkt>>
    BY <1>14 DEF AsyncLock
  <2>2. op \in {"none", "receive", "flush", "free"}
    BY DEF TypeOK
  <2> QED  BY <1>c, <2>1, <2>2
<1>15. ASSUME Flush PROVE ResultsInv'
  BY <1>15, ResultsDrop DEF Flush, Parked
<1>16. ASSUME FreeDie PROVE ResultsInv'
  BY <1>16, <1>c DEF FreeDie
<1>17. ASSUME FreeJoin PROVE ResultsInv'
  <2>1. CASE waiting < thread_count - 1
    BY <1>17, <2>1, <1>c DEF FreeJoin
  <2>2. CASE ~ (waiting < thread_count - 1)
    BY <1>17, <2>2, ResultsDrop DEF FreeJoin, Parked
  <2> QED  BY <2>1, <2>2
<1>18. ASSUME NEW x \in Workers \cup {User}, SpuriousWakeup(x) PROVE ResultsInv'
  BY <1>18, <1>c DEF SpuriousWakeup
<1>19. ASSUME UNCHANGED vars PROVE ResultsInv'
  BY <1>19, <1>c DEF vars
<1>20. ASSUME NEW t \in Workers,
              \/ WorkerDie(t) \/ WorkerBegin(t) \/ AllocFail(t) \/ CodecSetup(t)
              \/ SetupHwLock(t) \/ SetupAsync(t) \/ SetupPublish(t) \/ AwaitProgress(t)
              \/ Decode(t) \/ WorkerRelease(t) \/ WorkerAsyncUnlock(t) \/ WorkerFinish(t)
       PROVE  ResultsInv'
  BY <1>20, <1>1 DEF WorkerStep
<1> HIDE DEF CallerResultOK, Idle, UserGoto, fctxVars, userVars, workerVars
<1> QED  BY <1>2, <1>3, <1>4, <1>5, <1>6, <1>7, <1>8, <1>9, <1>10, <1>11, <1>12, <1>13,
            <1>14, <1>15, <1>16, <1>17, <1>18, <1>19, <1>20, Steps

LEMMA InitResults == Init => ResultsInv
<1> SUFFICES ASSUME Init PROVE ResultsInv
  OBVIOUS
<1> QED  BY Data DEF Init, ResultsInv, CallerResultOK, WorkerResultOK, NoResult, After

LEMMA SpecResults == Spec => [](IInv /\ ResultsInv)
<1>1. IInv /\ ResultsInv /\ [Next]_vars => ResultsInv'
  BY ResultsStep DEF IInv
<1> QED  BY <1>1, SpecIInv, InitResults, PTL DEF Spec

-----------------------------------------------------------------------------
(* The refinement mapping, place by place: there is at most one job before *)
(* those of the ring.                                                      *)
JobSet == [pkt : Packet \cup {0, None}, frames : Seq(Packet), res : Results]
Held == [pkt |-> 0, frames |-> df[User], res |-> result[User]]
First == IF upc = "wait_for_result" THEN Job(waiting) ELSE Held
Ahead == IF upc = "wait_for_result" \/ ~ Idle THEN 1 ELSE 0
JobAt(i) == IF i <= Ahead THEN First ELSE Job(At(next_finished, i - Ahead))

LEMMA JobType ==
    ASSUME TypeOK
    PROVE  /\ \A t \in Workers : Job(t) \in JobSet
           /\ Held \in JobSet
BY DEF TypeOK, Job, JobSet, Held, Results

JobsOK ==
    /\ next_decoding \in Workers /\ next_finished \in Workers
    /\ upc = "wait_for_result" => waiting \in Workers /\ Idle
    /\ Busy = Count(next_finished, next_decoding) /\ Busy \in 0 .. thread_count - 1
    /\ Ahead \in {0, 1}
    /\ Jobs = [i \in 1 .. Ahead + Busy |-> JobAt(i)]
    /\ Jobs \in Seq(JobSet)

LEMMA JobsAre == TypeOK /\ Control /\ CallerResultOK => JobsOK
<1> SUFFICES ASSUME TypeOK, Control, CallerResultOK PROVE JobsOK
  OBVIOUS
<1> DEFINE ring == [i \in 1 .. Busy |-> Job((next_finished + i - 1) % thread_count)]
<1>1. /\ next_decoding \in Workers /\ next_finished \in Workers
      /\ upc = "wait_for_result" => waiting \in Workers /\ Idle
  BY DEF TypeOK, Control, CallerInv, CallerResultOK
<1>2. Busy \in 0 .. thread_count - 1
  BY <1>1, CountType DEF Busy, Count
<1>3. \A i \in 1 .. Busy : At(next_finished, i) \in Workers
  BY <1>1, <1>2, AtType, WorkersAre
<1>4. ring \in Seq(JobSet) /\ Len(ring) = Busy
      /\ \A i \in 1 .. Busy : ring[i] = Job(At(next_finished, i))
  <2>1. ring \in [1 .. Busy -> JobSet]
    BY <1>3, JobType DEF At
  <2>2. Busy \in Nat
    BY <1>2, WorkersAre
  <2> QED  BY <2>1, <2>2 DEF At
<1> DEFINE Goal == Jobs = [i \in 1 .. Ahead + Busy |-> JobAt(i)] /\ Jobs \in Seq(JobSet)
<1>5. ASSUME upc # "wait_for_result" /\ Idle PROVE Goal
  <2>1. Jobs = <<>> \o <<>> \o ring
    BY <1>5 DEF Jobs
  <2>2. Jobs = ring
    BY <1>4, <2>1
  <2>3. \A i \in 1 .. Busy : JobAt(i) = ring[i]
    BY <1>2, <1>4, <1>5, WorkersAre DEF JobAt, Ahead
  <2>4. Ahead = 0 /\ 0 + Busy = Busy
    BY <1>2, <1>5, WorkersAre DEF Ahead
  <2>5. ring = [i \in 1 .. Busy |-> ring[i]]
    OBVIOUS
  <2> HIDE DEF ring
  <2> QED  BY <1>2, <1>4, <2>2, <2>3, <2>4, <2>5
<1>6. ASSUME upc = "wait_for_result" \/ ~ Idle PROVE Goal
  <2>1. PICK x \in JobSet : x = First
    BY <1>1, JobType DEF First
  <2>2. Jobs = <<x>> \o ring
    <3>1. CASE upc = "wait_for_result"
      <4>1. Jobs = <<x>> \o <<>> \o ring
        BY <1>1, <2>1, <3>1 DEF Jobs, First
      <4> HIDE DEF ring
      <4> QED  BY <1>4, <4>1
    <3>2. CASE upc # "wait_for_result" /\ ~ Idle
      <4>1. Jobs = <<>> \o <<x>> \o ring
        BY <1>1, <2>1, <3>2 DEF Jobs, First, Held
      <4> HIDE DEF ring
      <4> QED  BY <1>4, <4>1
    <3> QED  BY <1>6, <3>1, <3>2
  <2>3. Ahead = 1 /\ \A i \in 1 .. 1 + Busy : JobAt(i) = IF i = 1 THEN x ELSE ring[i - 1]
    <3>1. Ahead = 1
      BY <1>6 DEF Ahead
    <3> HIDE DEF ring
    <3> QED  BY <1>2, <1>4, <2>1, <3>1, WorkersAre DEF JobAt
  <2> HIDE DEF ring
  <2>4. /\ Jobs \in Seq(JobSet) /\ Len(Jobs) = 1 + Busy
        /\ \A i \in 1 .. 1 + Busy : Jobs[i] = IF i = 1 THEN x ELSE ring[i - 1]
    BY <1>2, <1>4, <2>2, WorkersAre
  <2>5. Jobs = [i \in 1 .. 1 + Busy |-> Jobs[i]]
    BY <2>4
  <2> QED  BY <1>2, <2>3, <2>4, <2>5
<1>7. Ahead \in {0, 1} /\ Busy = Count(next_finished, next_decoding)
  BY DEF Ahead, Busy, Count
<1> QED  BY <1>1, <1>2, <1>5, <1>6, <1>7 DEF JobsOK

LEMMA JobsKept ==
    ASSUME JobsOK, JobsOK', UNCHANGED <<next_finished, next_decoding, Ahead>>,
           Ahead = 1 => UNCHANGED First,
           \A t \in Workers : RingAt(next_finished, next_decoding, t) => UNCHANGED Job(t)
    PROVE  UNCHANGED Jobs
<1>1. UNCHANGED Busy
  BY DEF Busy
<1>2. ASSUME NEW i \in 1 .. Ahead + Busy PROVE UNCHANGED JobAt(i)
  <2>1. CASE i <= Ahead
    BY <2>1 DEF JobAt, JobsOK
  <2>2. CASE ~ (i <= Ahead)
    <3>1. i - Ahead \in 1 .. Busy /\ i - Ahead \in 0 .. thread_count
      BY <2>2, WorkersAre DEF JobsOK
    <3> DEFINE t == At(next_finished, i - Ahead)
    <3>2. t \in Workers /\ RingAt(next_finished, next_decoding, t)
      BY <3>1, AtType, RingPlaces DEF JobsOK
    <3> QED  BY <2>2, <3>2 DEF JobAt, Job
  <2> QED  BY <2>1, <2>2
<1> QED  BY <1>1, <1>2 DEF JobsOK

-----------------------------------------------------------------------------
(* The steps that change the jobs.                                         *)

(* A packet is the last job, in the ring or as the one that is waited for. *)
LEMMA SubmitAppends ==
    ASSUME TypeOK, Control, ResultsInv, Submit, JobsOK, JobsOK'
    PROVE  /\ Len(Jobs) < thread_count
           /\ Jobs' = Append(Jobs, Order!Open(avpkt[next_decoding]))
           /\ UNCHANGED returned
           /\ taken' = IF avpkt[next_decoding] = Drain THEN taken ELSE taken + 1
<1>0. PICK p \in Workers, a \in Workers : p = next_decoding /\ a = next_finished
  BY DEF TypeOK
<1> DEFINE n == Count(a, p)
<1>1. /\ upc = "prev" /\ p = next_decoding /\ a = next_finished
      /\ state' = [state EXCEPT ![p] = "SETTING_UP"]
      /\ next_decoding' = Next1(p)
      /\ UNCHANGED <<df, result, avpkt, pc, returned>>
      /\ \/ Next1(p) # a /\ upc' = "loop" /\ UNCHANGED <<waiting, next_finished>>
         \/ upc' = "wait_for_result" /\ waiting' = a /\ next_finished' = Next1(a)
      /\ taken' = IF avpkt[next_decoding] = Drain THEN taken ELSE taken + 1
  BY <1>0 DEF Submit, TypeOK, WaitForResult, UserGoto, Taken
<1>2. /\ Idle /\ Idle' /\ Ahead = 0
      /\ state \in [Workers -> {"INPUT_READY", "SETTING_UP", "SETUP_FINISHED"}]
  BY <1>1 DEF ResultsInv, CallerResultOK, TypeOK, Idle, Ahead
<1>3. /\ Busy = n /\ n \in 0 .. thread_count - 1
      /\ Jobs = [i \in 1 .. n |-> Job(At(a, i))] /\ Len(Jobs) = n
  <2>1. Busy = n /\ n \in 0 .. thread_count - 1 /\ Ahead + Busy = n
    BY <1>1, <1>2, WorkersAre DEF JobsOK
  <2>2. \A i \in 1 .. n : JobAt(i) = Job(At(a, i))
    BY <1>1, <1>2, <2>1, WorkersAre DEF JobAt
  <2>3. Jobs = [i \in 1 .. n |-> Job(At(a, i))]
    BY <2>1, <2>2, Zenon DEF JobsOK
  <2> HIDE DEF n
  <2> QED  BY <2>1, <2>3, WorkersAre
<1>4. \A t \in Workers : UNCHANGED Job(t) \/ t = p
  BY <1>1, <1>2 DEF Job
<1>5. Job(p)' = Order!Open(avpkt[p])
  BY <1>1, <1>2 DEF Job, Order!Open
(* The places of the ring before the last one stay what they were.         *)
<1>6. ASSUME NEW i \in 1 .. n PROVE At(a, i) \in Workers /\ At(a, i) # p
  <2>1. i \in 0 .. thread_count /\ RingAt(a, p, At(a, i))
    BY <1>1, <1>3, RingPlaces, WorkersAre
  <2> QED  BY <1>1, <2>1, AtType, RingBack
<1>7. At(a, n + 1) = p
  BY <1>1, RingBack
<1>8. Ahead' + Busy' = n + 1 /\ \A i \in 1 .. n + 1 : JobAt(i)' = Job(At(a, i))'
  <2>1. CASE Next1(p) # a /\ upc' = "loop" /\ UNCHANGED <<waiting, next_finished>>
    <3>1. Ahead' = 0
      BY <1>2, <2>1 DEF Ahead
    <3>2. Busy' = n + 1
      BY <1>1, <2>1, RingBack DEF Busy, Count
    <3> QED  BY <1>1, <1>3, <2>1, <3>1, <3>2, WorkersAre DEF JobAt, Job
  <2>2. CASE upc' = "wait_for_result" /\ waiting' = a /\ next_finished' = Next1(a)
    <3>1. Ahead' = 1
      BY <2>2 DEF Ahead
    <3>2. Busy' = n
      <4>1. Busy' = Count(Next1(a), Next1(p)) /\ Next1(p) \in Workers
        BY <1>1, <2>2, Next1Type DEF Busy, Count
      <4>2. CASE Next1(p) = a
        BY <1>1, <4>1, <4>2, RingFront, CountType
      <4>3. CASE Next1(p) # a
        <5>1. Count(a, Next1(p)) = n + 1
          BY <1>1, <4>3, RingBack
        <5>2. Count(Next1(a), Next1(p)) = Count(a, Next1(p)) - 1
          BY <1>1, <4>1, <4>3, RingFront
        <5> QED  BY <1>3, <4>1, <5>1, <5>2, WorkersAre
      <4> QED  BY <4>2, <4>3
    <3>3. ASSUME NEW i \in 1 .. n + 1 PROVE JobAt(i)' = Job(At(a, i))'
      <4>1. CASE i = 1
        BY <1>1, <2>2, <3>1, <4>1, RingFront DEF JobAt, First, Job
      <4>2. CASE i # 1
        <5>1. i - 1 \in 0 .. thread_count - 1 /\ i - 1 + 1 = i
          BY <1>3, <4>2, WorkersAre
        <5>2. At(Next1(a), i - 1) = At(a, i)
          BY <1>1, <5>1, RingFront
        <5> QED  BY <1>3, <2>2, <3>1, <4>2, <5>2, WorkersAre DEF JobAt, Job
      <4> QED  BY <4>1, <4>2
    <3> QED  BY <1>3, <3>1, <3>2, <3>3, WorkersAre
  <2> QED  BY <1>1, <2>1, <2>2
<1> HIDE DEF n
<1>9. ASSUME NEW i \in 1 .. n + 1
      PROVE  JobAt(i)' = Append(Jobs, Order!Open(avpkt[p]))[i]
  <2>1. CASE i = n + 1
    BY <1>3, <1>5, <1>7, <1>8, <2>1, WorkersAre DEF Job
  <2>2. CASE i \in 1 .. n
    <3>1. Job(At(a, i))' = Job(At(a, i))
      BY <1>1, <1>4, <1>6, <2>2 DEF Job
    <3>2. i \in 1 .. n + 1 /\ Job(At(a, i)) = Jobs[i]
      BY <1>3, <2>2
    <3>3. Append(Jobs, Order!Open(avpkt[p]))[i] = Jobs[i]
      <4>1. PICK s \in Seq(JobSet) : s = Jobs
        BY DEF JobsOK
      <4>2. \A x : Append(s, x)[i] = s[i]
        BY <1>3, <2>2, <4>1
      <4> QED  BY <4>1, <4>2
    <3> QED  BY <1>8, <3>1, <3>2, <3>3
  <2> QED  BY <1>3, <2>1, <2>2, WorkersAre
<1>10. Jobs' = Append(Jobs, Order!Open(avpkt[p]))
  <2>1. Jobs' = [i \in 1 .. n + 1 |-> JobAt(i)']
    BY <1>8 DEF JobsOK
  <2>2. Append(Jobs, Order!Open(avpkt[p])) =
            [i \in 1 .. n + 1 |-> Append(Jobs, Order!Open(avpkt[p]))[i]]
    BY <1>3 DEF JobsOK
  <2> QED  BY <1>9, <2>1, <2>2, Zenon
<1> QED  BY <1>1, <1>3, <1>10, WorkersAre

(* The result that is waited for has left the ring.                        *)
LEMMA RingBefore ==
    ASSUME NEW a \in Workers, NEW b \in Workers
    PROVE  ~ RingAt(a, b, At(a, 0))
<1>1. 0 \in 0 .. thread_count
  BY WorkersAre
<1>2. At(a, 0) = IF a + 0 = 0 THEN thread_count - 1
                 ELSE IF a + 0 > thread_count THEN a + 0 - 1 - thread_count ELSE a + 0 - 1
  BY <1>1, AtIs
<1> QED  BY <1>2, WorkersAre DEF RingAt

LEMMA NotWaitedFor ==
    ASSUME CallerResultOK, JobsOK, upc = "wait_for_result"
    PROVE  ~ RingAt(next_finished, next_decoding, waiting)
<1>1. waiting = At(next_finished, 0)
  BY WorkersAre DEF CallerResultOK, At, JobsOK
<1> QED  BY <1>1, RingBefore DEF JobsOK

LEMMA JobsParts ==
    ASSUME JobsOK
    PROVE  /\ Len(Jobs) = Ahead + Busy /\ DOMAIN Jobs = 1 .. Ahead + Busy
           /\ \A i \in 1 .. Ahead + Busy : Jobs[i] = JobAt(i) /\ Jobs[i] \in JobSet
           /\ Ahead = 1 => Jobs # <<>> /\ Head(Jobs) = First /\ First \in JobSet
<1>1. Ahead + Busy \in Nat /\ (Ahead = 1 => 1 \in 1 .. Ahead + Busy)
  BY WorkersAre DEF JobsOK
<1>2. Len(Jobs) = Ahead + Busy
  BY <1>1 DEF JobsOK
<1>3. \A i \in 1 .. Ahead + Busy : Jobs[i] = JobAt(i) /\ Jobs[i] \in JobSet
  BY <1>1, <1>2 DEF JobsOK
<1>4. Ahead = 1 => JobAt(1) = First
  BY DEF JobAt
<1> QED  BY <1>1, <1>2, <1>3, <1>4 DEF JobsOK

LEMMA SeqIs ==
    ASSUME NEW S, NEW s \in Seq(S)
    PROVE  s = [i \in 1 .. Len(s) |-> s[i]]
OBVIOUS

(* The one job before the ring goes, or is replaced by another one.        *)
LEMMA AheadGoes ==
    ASSUME JobsOK, JobsOK', UNCHANGED <<next_finished, next_decoding>>, Ahead = 1,
           \A t \in Workers : RingAt(next_finished, next_decoding, t) => UNCHANGED Job(t)
    PROVE  Jobs' = IF Ahead' = 0 THEN Tail(Jobs) ELSE <<First'>> \o Tail(Jobs)
<1>0. PICK n \in 0 .. thread_count - 1, k \in {0, 1} : n = Busy /\ Busy' = n /\ k = Ahead'
  BY DEF Busy, JobsOK
<1>1. ASSUME NEW i \in 1 .. n
      PROVE  /\ Jobs[i + 1] = Job(At(next_finished, i))
             /\ JobAt(i + k)' = Job(At(next_finished, i))
  <2>1. i \in 0 .. thread_count /\ i + 1 \in 1 .. Ahead + Busy /\ i \in 1 .. Busy
    BY <1>0, WorkersAre
  <2>2. PICK t \in Workers : t = At(next_finished, i) /\ t = At(next_finished', i)
    BY <2>1, AtType DEF JobsOK
  <2>3. RingAt(next_finished, next_decoding, t)
    BY <2>1, <2>2, RingPlaces DEF JobsOK
  <2>4. Jobs[i + 1] = Job(t)
    BY <2>1, <2>2, JobsParts DEF JobAt
  <2>5. JobAt(i + k)' = Job(t)'
    <3>1. i \in Int /\ i > 0 /\ k \in Int
      OBVIOUS
    <3>2. ~ (i + k <= k) /\ i + k - k = i
      BY <3>1
    <3> QED  BY <1>0, <2>2, <3>2 DEF JobAt, Job
  <2> QED  BY <2>2, <2>3, <2>4, <2>5
<1>2. /\ Len(Jobs) = n + 1 /\ Jobs \in Seq(JobSet)
      /\ Tail(Jobs) \in Seq(JobSet) /\ Len(Tail(Jobs)) = n
      /\ \A i \in 1 .. n : Tail(Jobs)[i] = Jobs[i + 1]
      /\ Tail(Jobs) = [i \in 1 .. n |-> Tail(Jobs)[i]]
  <2>1. Len(Jobs) = n + 1 /\ Jobs \in Seq(JobSet) /\ n \in Nat
    <3>1. n \in Nat
      BY <1>0, WorkersAre
    <3> QED  BY <1>0, <3>1, JobsParts DEF JobsOK
  <2>2. Tail(Jobs) \in Seq(JobSet) /\ Len(Tail(Jobs)) = n
    BY <2>1
  <2>3. \A i \in 1 .. n : Tail(Jobs)[i] = Jobs[i + 1]
    BY <2>1
  <2>4. Tail(Jobs) = [i \in 1 .. n |-> Tail(Jobs)[i]]
    <3>1. PICK T \in Seq(JobSet) : T = Tail(Jobs) /\ Len(T) = n
      BY <2>2
    <3>2. T = [i \in 1 .. Len(T) |-> T[i]]
      BY SeqIs
    <3> QED  BY <3>1, <3>2
  <2> QED  BY <2>1, <2>2, <2>3, <2>4
<1>3. Jobs' = [i \in 1 .. k + n |-> JobAt(i)'] /\ Jobs' \in Seq(JobSet)
  BY <1>0 DEF JobsOK
<1>4. CASE k = 0
  <2>1. \A i \in 1 .. n : JobAt(i)' = Tail(Jobs)[i]
    <3>1. \A i \in 1 .. n : i + k = i
      BY <1>4
    <3> QED  BY <1>1, <1>2, <3>1
  <2>2. k + n = n
    BY <1>0, <1>4, WorkersAre
  <2> QED  BY <1>0, <1>2, <1>3, <1>4, <2>1, <2>2
<1>5. CASE k = 1
  <2>1. Ahead' = 1 /\ k + n = n + 1 /\ n \in Nat
    BY <1>0, <1>5, WorkersAre
  <2>2. PICK x \in JobSet : x = First'
    <3>1. JobAt(1)' = First' /\ 1 \in 1 .. k + n
      BY <2>1, <1>0 DEF JobAt
    <3>2. Jobs'[1] = First' /\ Len(Jobs') = k + n
      BY <1>3, <2>1, <3>1
    <3> QED  BY <1>3, <3>1, <3>2
  <2>3. PICK r \in Seq(JobSet) : r = Tail(Jobs)
    BY <1>2
  <2>4. /\ <<x>> \o r = [i \in 1 .. n + 1 |-> (<<x>> \o r)[i]]
        /\ (<<x>> \o r)[1] = x /\ \A i \in 1 .. n : (<<x>> \o r)[i + 1] = r[i]
    BY <1>2, <2>3
  <2>5. JobAt(1)' = x
    BY <2>1, <2>2 DEF JobAt
  <2>6. \A i \in 1 .. n : JobAt(i + 1)' = r[i]
    <3>1. \A i \in 1 .. n : JobAt(i + 1)' = Job(At(next_finished, i))
      BY <1>1, <1>5
    <3> QED  BY <1>1, <1>2, <2>3, <3>1
  <2>7. ASSUME NEW i \in 1 .. n + 1 PROVE JobAt(i)' = (<<x>> \o r)[i]
    <3>1. i = 1 \/ (i - 1 \in 1 .. n /\ i - 1 + 1 = i)
      OBVIOUS
    <3> QED  BY <2>4, <2>5, <2>6, <3>1
  <2>8. Jobs' = [i \in 1 .. n + 1 |-> JobAt(i)']
    BY <1>3, <2>1
  <2> QED  BY <2>1, <2>2, <2>3, <2>4, <2>7, <2>8
<1> QED  BY <1>0, <1>4, <1>5

(* The oldest packet is waited for instead of being in the ring.           *)
LEMMA WaitSyncKeeps ==
    ASSUME TypeOK, WaitSync, JobsOK, JobsOK'
    PROVE  UNCHANGED Jobs
<1>0. PICK a \in Workers, b \in Workers : a = next_finished /\ b = next_decoding
  BY DEF TypeOK
<1>1. /\ upc = "loop" /\ a # b /\ Idle /\ Idle'
      /\ UNCHANGED <<df, result, avpkt, pc, state, next_decoding>>
      /\ upc' = "wait_for_result" /\ waiting' = a /\ next_finished' = Next1(a)
  BY <1>0 DEF WaitSync, TypeOK, WaitForResult, UserGoto, workerVars, Idle
<1>2. PICK n \in Nat : n = Busy /\ n \in 1 .. thread_count - 1 /\ Busy' + 1 = n
  <2>1. Busy = Count(a, b) /\ Busy' = Count(Next1(a), b)
    BY <1>0, <1>1 DEF Busy, Count
  <2>2. Count(a, b) \in 0 .. thread_count - 1 /\ Count(a, b) # 0
    BY <1>1, CountType
  <2>3. Count(Next1(a), b) = Count(a, b) - 1
    BY <1>1, RingFront
  <2> QED  BY <2>1, <2>2, <2>3, WorkersAre
<1>3. Ahead = 0 /\ Ahead' = 1
  BY <1>1 DEF Ahead
<1>4. ASSUME NEW i \in 1 .. n PROVE UNCHANGED JobAt(i)
  <2>1. JobAt(i) = Job(At(a, i))
    BY <1>0, <1>3 DEF JobAt
  <2>2. CASE i = 1
    <3>1. JobAt(i)' = Job(a)'
      BY <1>1, <1>3, <2>2 DEF JobAt, First, Job
    <3> QED  BY <1>1, <2>1, <2>2, <3>1, RingFront DEF Job
  <2>3. CASE i # 1
    <3>1. i - 1 \in 0 .. thread_count - 1 /\ i - 1 + 1 = i /\ ~ (i <= 1)
      BY <1>2, <2>3, WorkersAre
    <3>2. At(Next1(a), i - 1) = At(a, i)
      BY <3>1, RingFront
    <3> QED  BY <1>1, <1>3, <2>1, <3>1, <3>2 DEF JobAt, Job
  <2> QED  BY <2>2, <2>3
<1>5. Ahead + Busy = n /\ Ahead' + Busy' = n
  BY <1>2, <1>3 DEF JobsOK
<1> QED  BY <1>4, <1>5 DEF JobsOK

(* The results of the worker become the caller's; if there are none, the   *)
(* job is skipped.                                                         *)
LEMMA CollectMoves ==
    ASSUME TypeOK, Control, CallerResultOK, Collect, JobsOK, JobsOK'
    PROVE  UNCHANGED Jobs \/ (Order!Skip /\ UNCHANGED <<taken, returned>>)
<1>0. PICK w \in Workers : w = waiting
  BY DEF Collect, JobsOK
<1>1. /\ upc = "wait_for_result" /\ upc' = "loop" /\ state[w] = "INPUT_READY" /\ Idle
      /\ UNCHANGED <<avpkt, state, next_decoding, next_finished, taken, returned>>
      /\ df'[User] = df[w] /\ result'[User] = result[w]
      /\ \A t \in Workers \ {w} : df'[t] = df[t] /\ result'[t] = result[t]
  <2>1. User \notin Workers
    BY Data
  <2>2. df' = [df EXCEPT ![User] = df[w], ![w] = <<>>]
        /\ result' = [result EXCEPT ![User] = result[w], ![w] = "ok"]
    BY <1>0 DEF Collect
  <2> QED  BY <1>0, <2>1, <2>2
           DEF Collect, UserGoto, fctxVars, workerVars, CallerResultOK, TypeOK
<1>2. \A t \in Workers : RingAt(next_finished, next_decoding, t) => UNCHANGED Job(t)
  BY <1>0, <1>1, NotWaitedFor DEF Job
<1>3. Ahead = 1 /\ First = [pkt |-> 0, frames |-> df[w], res |-> result[w]]
  BY <1>0, <1>1 DEF Ahead, First, Job
<1>4. Jobs # <<>> /\ Head(Jobs) = First /\ Jobs \in Seq(JobSet)
  BY <1>3, JobsParts DEF JobsOK
<1>5. CASE df[w] = <<>> /\ result[w] = "ok"
  <2>1. Ahead' = 0
    BY <1>1, <1>5 DEF Ahead, Idle
  <2>2. Jobs' = Tail(Jobs)
    BY <1>1, <1>2, <1>3, <2>1, AheadGoes
  <2> QED  BY <1>1, <1>3, <1>4, <1>5, <2>2 DEF Order!Skip, Order!Closed
<1>6. CASE ~ (df[w] = <<>> /\ result[w] = "ok")
  <2>1. Ahead' = 1 /\ First' = First
    BY <1>1, <1>3, <1>6 DEF Ahead, Idle, First, Held
  <2> QED  BY <1>1, <1>2, <1>3, <2>1, JobsKept
<1> QED  BY <1>5, <1>6

(* A frame of the job that the caller holds, or its error.                 *)
LEMMA ReturnTakes ==
    ASSUME TypeOK, ReturnResult, JobsOK, JobsOK'
    PROVE  Order!ReturnFrame \/ Order!ReturnResult
<1>1. /\ upc = "loop" /\ upc' = "async_lock" /\ ~ Idle /\ User \notin Workers
      /\ UNCHANGED <<avpkt, state, next_decoding, next_finished, taken>>
      /\ df[User] \in Seq(Packet) /\ result[User] \in Results
  BY Data DEF ReturnResult, Return, UserGoto, fctxVars, workerVars, TypeOK
<1>2. Ahead = 1 /\ First = Held
  BY <1>1 DEF Ahead, First
<1>3. Jobs # <<>> /\ Head(Jobs) = Held /\ Jobs \in Seq(JobSet)
  BY <1>2, JobsParts DEF JobsOK
<1>4. Head(Jobs).frames = df[User] /\ Head(Jobs).res = result[User] /\ ~ Order!IsOpen(Head(Jobs))
  BY <1>3 DEF Held, Order!IsOpen
<1>5. CASE df[User] # <<>>
  <2>1. /\ returned' = [res |-> "frame", frame |-> Head(df[User])]
        /\ df' = [df EXCEPT ![User] = Tail(@)] /\ UNCHANGED result
    BY <1>5 DEF ReturnResult, Return
  <2>2. df'[User] = Tail(df[User]) /\ \A t \in Workers : df'[t] = df[t]
    BY <1>1, <2>1 DEF TypeOK
  <2>3. \A t \in Workers : UNCHANGED Job(t)
    BY <1>1, <2>1, <2>2 DEF Job
  <2>4. Jobs' = IF Ahead' = 0 THEN Tail(Jobs) ELSE <<First'>> \o Tail(Jobs)
    BY <1>1, <1>2, <2>3, AheadGoes
  <2> DEFINE rest == [pkt |-> 0, frames |-> Tail(df[User]), res |-> result[User]]
  <2>5. First' = rest
    BY <1>1, <2>1, <2>2 DEF First, Held
  <2>6. Ahead' = 0 <=> rest = [pkt |-> 0, frames |-> <<>>, res |-> "ok"]
    <3>1. Idle' <=> Tail(df[User]) = <<>> /\ result[User] = "ok"
      BY <2>1, <2>2 DEF Idle
    <3>2. rest = [pkt |-> 0, frames |-> <<>>, res |-> "ok"]
              <=> Tail(df[User]) = <<>> /\ result[User] = "ok"
      OBVIOUS
    <3> QED  BY <1>1, <3>1, <3>2 DEF Ahead
  <2> QED  BY <1>1, <1>3, <1>4, <1>5, <2>1, <2>4, <2>5, <2>6
           DEF Order!ReturnFrame, Order!Closed
<1>6. CASE df[User] = <<>>
  <2>1. /\ returned' = [res |-> result[User], frame |-> 0]
        /\ result' = [result EXCEPT ![User] = "ok"] /\ UNCHANGED df
    BY <1>6 DEF ReturnResult, Return, Result
  <2>2. result'[User] = "ok" /\ \A t \in Workers : result'[t] = result[t]
    BY <1>1, <2>1 DEF TypeOK
  <2>3. \A t \in Workers : UNCHANGED Job(t)
    BY <1>1, <2>1, <2>2 DEF Job
  <2>4. Ahead' = 0
    BY <1>1, <1>6, <2>1, <2>2 DEF Ahead, Idle
  <2>5. Jobs' = Tail(Jobs)
    BY <1>1, <1>2, <2>3, <2>4, AheadGoes
  <2>6. result[User] # "ok"
    BY <1>1, <1>6 DEF Idle
  <2> QED  BY <1>1, <1>3, <1>4, <1>6, <2>1, <2>5, <2>6
           DEF Order!ReturnResult, Order!Result
<1> QED  BY <1>5, <1>6

(* A worker is finished: its job, wherever it is, has its results.         *)
LEMMA FinishDecodes ==
    ASSUME TypeOK, Control, ResultsInv, NEW t \in Workers, WorkerFinish(t), JobsOK, JobsOK'
    PROVE  \E i \in DOMAIN Jobs : Order!Decode(i)
<1>1. /\ pc[t] = "finish" /\ state[t] # "INPUT_READY" /\ avpkt[t] \in Packet
      /\ df[t] \in Frames(avpkt[t]) /\ (result[t] = "eof" => avpkt[t] = Drain)
      /\ result[t] \in Results
      /\ InRing(t) \/ (upc = "wait_for_result" /\ waiting = t)
  BY DEF WorkerFinish, Control, WorkersInv, RingInv, ResultsInv, WorkerResultOK, After, TypeOK
<1>2. /\ state' = [state EXCEPT ![t] = "INPUT_READY"]
      /\ avpkt' = [avpkt EXCEPT ![t] = None]
      /\ UNCHANGED <<next_decoding, next_finished, upc, waiting, df, result, taken, returned>>
  BY DEF WorkerFinish, fctxVars, userVars
<1>3. /\ \A u \in Workers \ {t} : UNCHANGED Job(u)
      /\ Job(t) = [pkt |-> avpkt[t], frames |-> <<>>, res |-> "ok"]
      /\ Job(t)' = [pkt |-> 0, frames |-> df[t], res |-> result[t]]
  BY <1>1, <1>2 DEF Job, TypeOK
<1>4. UNCHANGED <<Ahead, Busy, Held>>
  BY <1>2 DEF Ahead, Busy, Idle, Held
<1>5. Ahead = 1 /\ ~ (upc = "wait_for_result" /\ waiting = t) => UNCHANGED First
  BY <1>2, <1>3, <1>4 DEF First, JobsOK
<1>a. PICK a \in Workers, b \in Workers : a = next_finished /\ b = next_decoding /\ Busy = Count(a, b)
  BY DEF JobsOK
<1>b. PICK d \in {0, 1} : d = Ahead /\ d = Ahead'
  BY <1>4 DEF JobsOK
<1>c. PICK n \in Nat : n = Busy /\ n < thread_count
  BY WorkersAre DEF JobsOK
<1>6. ASSUME NEW j \in 1 .. d + n, ~ (j <= d)
      PROVE  /\ j - d \in 1 .. n /\ At(a, j - d) \in Workers
             /\ RingAt(a, b, At(a, j - d))
             /\ JobAt(j) = Job(At(a, j - d)) /\ JobAt(j)' = Job(At(a, j - d))'
  <2>1. j - d \in 1 .. n /\ j - d \in 0 .. thread_count
    BY <1>6, <1>c, WorkersAre
  <2>2. At(a, j - d) \in Workers /\ RingAt(a, b, At(a, j - d))
    BY <1>a, <1>c, <2>1, AtType, RingPlaces
  <2> QED  BY <1>2, <1>6, <1>a, <1>b, <2>1, <2>2 DEF JobAt, Job
<1>7. PICK i \in 1 .. d + n :
          /\ JobAt(i) = Job(t) /\ JobAt(i)' = Job(t)'
          /\ \A j \in 1 .. d + n : j # i => UNCHANGED JobAt(j)
  <2>1. CASE InRing(t)
    <3>1. RingAt(a, b, t)
      BY <1>a, <2>1 DEF InRing, RingAt
    <3>2. PICK k \in 1 .. n : At(a, k) = t
      BY <1>a, <1>c, <3>1, RingPlaces
    <3>3. k + d \in 1 .. d + n /\ ~ (k + d <= d) /\ k + d - d = k
      OBVIOUS
    <3>4. JobAt(k + d) = Job(t) /\ JobAt(k + d)' = Job(t)'
      BY <1>6, <3>2, <3>3 DEF Job
    <3>5. ASSUME NEW j \in 1 .. d + n, j # k + d PROVE UNCHANGED JobAt(j)
      <4>1. CASE j <= d
        <5>1. d = 1 /\ ~ (upc = "wait_for_result" /\ waiting = t)
          BY <1>a, <3>1, <4>1, NotWaitedFor DEF ResultsInv
        <5> QED  BY <1>5, <1>b, <4>1, <5>1 DEF JobAt
      <4>2. CASE ~ (j <= d)
        <5>1. At(a, j - d) # t
          <6>1. j - d \in 1 .. n /\ j - d # k
            BY <1>6, <3>5, <4>2
          <6> QED  BY <1>a, <1>c, <3>2, <6>1, RingPlaces
        <5> QED  BY <1>3, <1>6, <4>2, <5>1 DEF Job
      <4> QED  BY <4>1, <4>2
    <3> QED  BY <3>3, <3>4, <3>5
  <2>2. CASE upc = "wait_for_result" /\ waiting = t
    <3>1. d = 1 /\ 1 \in 1 .. d + n
      BY <1>b, <2>2 DEF Ahead
    <3>2. JobAt(1) = Job(t) /\ JobAt(1)' = Job(t)'
      BY <1>2, <1>b, <2>2, <3>1 DEF JobAt, First, Job
    <3>3. ASSUME NEW j \in 1 .. d + n, j # 1 PROVE UNCHANGED JobAt(j)
      <4>1. ~ (j <= d)
        BY <3>1, <3>3
      <4>2. ~ RingAt(a, b, t)
        BY <1>a, <2>2, NotWaitedFor DEF ResultsInv
      <4> QED  BY <1>3, <1>6, <4>1, <4>2 DEF Job
    <3> QED  BY <3>1, <3>2, <3>3
  <2> QED  BY <1>1, <2>1, <2>2
<1>8. /\ DOMAIN Jobs = 1 .. d + n /\ Jobs[i] = Job(t)
      /\ Jobs = [j \in 1 .. d + n |-> JobAt(j)]
      /\ Jobs' = [j \in 1 .. d + n |-> JobAt(j)']
  BY <1>4, <1>7, <1>b, <1>c, JobsParts DEF JobsOK
<1>9. PICK m \in 0 .. MaxFrames : df[t] = [x \in 1 .. m |-> avpkt[t]]
  BY <1>1 DEF Frames
<1>10. Jobs' = [Jobs EXCEPT ![i] = Order!Closed([x \in 1 .. m |-> Jobs[i].pkt], result[t])]
  <2>1. Order!Closed([x \in 1 .. m |-> Jobs[i].pkt], result[t]) = Job(t)'
    BY <1>3, <1>8, <1>9 DEF Order!Closed
  <2>2. DOMAIN Jobs = 1 .. d + n /\ Jobs[i] = Job(t)
    BY <1>8
  <2>3. Jobs = [j \in 1 .. d + n |-> JobAt(j)] /\ Jobs' = [j \in 1 .. d + n |-> JobAt(j)']
    BY <1>8
  <2> QED  BY <1>7, <2>1, <2>2, <2>3
<1>11. Order!IsOpen(Jobs[i]) /\ (result[t] = "eof" => Jobs[i].pkt = Drain)
  BY <1>1, <1>3, <1>8, FrameThreadAssumption DEF Order!IsOpen, Packet, Packets
<1> QED  BY <1>1, <1>2, <1>8, <1>10, <1>11 DEF Order!Decode, Results

(* Everything is dropped.                                                  *)
LEMMA DropEmpties ==
    ASSUME TypeOK, DropResults, upc' # "wait_for_result", JobsOK'
    PROVE  Jobs' = <<>>
<1>1. Idle' /\ next_decoding' = next_finished'
  BY DEF DropResults, TypeOK, Idle
<1>2. Ahead' = 0 /\ Busy' = 0
  BY <1>1, CountType DEF Ahead, JobsOK
<1>3. Jobs' = [i \in 1 .. 0 |-> JobAt(i)']
  BY <1>2 DEF JobsOK
<1> QED  BY <1>3

-----------------------------------------------------------------------------
(* The refinement.                                                         *)

LEMMA InitOrder == Init => Order!Init
<1> SUFFICES ASSUME Init PROVE Order!Init
  OBVIOUS
<1>1. taken = 0 /\ returned = Order!Result("none")
  BY DEF Init, Result, Order!Result
<1>2. JobsOK
  BY InitIInv, InitResults, JobsAre DEF IInv, ResultsInv
<1>3. Idle /\ upc # "wait_for_result" /\ next_finished = next_decoding
  BY DEF Init, Idle
<1>4. Ahead = 0 /\ Busy = 0
  BY <1>2, <1>3, CountType DEF Ahead, JobsOK
<1>5. Jobs = [i \in 1 .. 0 |-> JobAt(i)]
  BY <1>2, <1>4 DEF JobsOK
<1> QED  BY <1>1, <1>5 DEF Order!Init

LEMMA OrderStep ==
    ASSUME IInv, ResultsInv, [Next]_vars, JobsOK, JobsOK'
    PROVE  [Order!Next]_Order!vars
<1> DEFINE Step == [Order!Next]_Order!vars
<1>a. TypeOK /\ Control /\ CallerResultOK
  BY DEF IInv, ResultsInv
<1>b. ASSUME UNCHANGED <<taken, returned, Jobs>> PROVE Step
  BY <1>b DEF Order!vars
<1>c. User \notin Workers
  BY Data
<1> USE DEF UserGoto, fctxVars, userVars, workerVars
(* What is in hand stays there: nobody is waited for that was not.         *)
<1>d. ASSUME UNCHANGED <<next_finished, next_decoding, df, result, state, avpkt>>,
             \/ UNCHANGED <<upc, waiting>>
             \/ upc # "wait_for_result" /\ upc' # "wait_for_result"
      PROVE  UNCHANGED Jobs
  <2>1. UNCHANGED <<Ahead, First>> /\ \A t \in Workers : UNCHANGED Job(t)
    BY <1>d DEF Ahead, First, Held, Idle, Job
  <2> QED  BY <1>d, <2>1, JobsKept
<1>1. ASSUME NEW t \in Workers, WorkerStep(t) PROVE Step
  <2>1. CASE WorkerFinish(t)
    <3>1. \E i \in DOMAIN Jobs : Order!Decode(i)
      BY <1>a, <2>1, FinishDecodes
    <3> QED  BY <3>1 DEF Order!Next
  <2>2. CASE ~ WorkerFinish(t)
    <3>1. WorkerResultOK(t)
      BY DEF ResultsInv
    <3>2. /\ \A x \in (Workers \cup {User}) \ {t} : df'[x] = df[x] /\ result'[x] = result[x]
          /\ state'[t] = "INPUT_READY" <=> state[t] = "INPUT_READY"
          /\ avpkt'[t] = avpkt[t]
          /\ state[t] = "INPUT_READY" => df'[t] = df[t] /\ result'[t] = result[t]
          /\ UNCHANGED <<fctxVars, userVars>>
      BY <1>1, <1>a, <2>2, <3>1, WorkerResults
    <3>3. \A u \in Workers \ {t} : state'[u] = state[u] /\ avpkt'[u] = avpkt[u]
      BY <1>1, <1>a, WorkerMoves DEF Control
    <3>4. \A u \in Workers : UNCHANGED Job(u)
      BY <3>2, <3>3 DEF Job
    <3>5. UNCHANGED <<next_finished, next_decoding, upc, waiting, taken, returned>>
          /\ df'[User] = df[User] /\ result'[User] = result[User]
      BY <1>c, <3>2
    <3>6. UNCHANGED <<Ahead, First>>
      BY <3>4, <3>5 DEF Ahead, First, Held, Idle, JobsOK
    <3> QED  BY <1>b, <3>4, <3>5, <3>6, JobsKept
  <2> QED  BY <2>1, <2>2
<1>2. ASSUME \E o, l : Call(o, l), UNCHANGED Jobs, UNCHANGED taken PROVE Step
  BY <1>2 DEF Call, Result, Order!Call, Order!Result, Order!Next
<1>3. ASSUME ReceiveCall PROVE Step
  BY <1>2, <1>3, <1>d DEF ReceiveCall, Call
<1>4. ASSUME ParkCall PROVE Step
  BY <1>2, <1>4, <1>d DEF ParkCall, Call
<1>5. ASSUME WaitSync PROVE Step
  BY <1>5, <1>a, <1>b, WaitSyncKeeps DEF WaitSync
<1>6. ASSUME NoPacket PROVE Step
  <2>1. /\ upc = "loop" /\ upc' = "async_lock" /\ Idle
        /\ UNCHANGED <<next_finished, next_decoding, df, result, state, avpkt, taken>>
        /\ \E r \in {IF sync THEN "quiet" ELSE "again", "error"} : returned' = Result(r)
        /\ sync => next_decoding = next_finished
    BY <1>6 DEF NoPacket, WantsPacket, Return
  <2>2. UNCHANGED Jobs
    BY <2>1, <1>d
  <2>3. Ahead = 0 /\ Len(Jobs) = Busy /\ Busy < thread_count /\ Jobs \in Seq(JobSet)
    BY <2>1, JobsParts, WorkersAre DEF Ahead, JobsOK
  <2>4. CASE returned' = Result("error")
    BY <2>1, <2>2, <2>4 DEF Order!Refuse, Result, Order!Result, Order!Next
  <2>5. CASE returned' = Result("again")
    BY <2>1, <2>2, <2>3, <2>5 DEF Order!Again, Result, Order!Result, Order!Next
  <2>6. CASE sync /\ returned' = Result("quiet")
    <3>1. Busy = 0
      BY <2>1, <2>6, CountType DEF JobsOK
    <3>2. Jobs = <<>>
      BY <2>3, <3>1
    <3> QED  BY <2>1, <2>2, <2>3, <2>6, <3>2 DEF Order!Again, Result, Order!Result, Order!Next
  <2> QED  BY <2>1, <2>4, <2>5, <2>6
<1>7. ASSUME GetPacket PROVE Step
  <2>1. /\ upc = "loop" /\ upc' = "prev"
        /\ UNCHANGED <<next_finished, next_decoding, df, result, state, taken, returned, waiting>>
        /\ \A t \in Workers : t # next_decoding => avpkt'[t] = avpkt[t]
    BY <1>7, <1>a DEF GetPacket, WantsPacket, TypeOK
  <2>2. state[next_decoding] = "INPUT_READY"
    BY <1>a, <2>1, NextIsFree DEF Control
  <2>3. \A t \in Workers : UNCHANGED Job(t)
    BY <2>1, <2>2 DEF Job
  <2>4. UNCHANGED <<Ahead, First>>
    BY <2>1 DEF Ahead, First, Held, Idle
  <2> QED  BY <1>b, <2>1, <2>3, <2>4, JobsKept
<1>8. ASSUME SubmitFails PROVE Step
  <2>1. /\ upc = "prev" /\ upc' = "async_lock" /\ returned' = Result("error")
        /\ UNCHANGED <<next_finished, next_decoding, df, result, state, avpkt>>
        /\ taken' \in {taken, taken + 1}
    BY <1>8 DEF SubmitFails, Return, Taken
  <2>2. UNCHANGED Jobs
    BY <2>1, <1>d
  <2> QED  BY <2>1, <2>2 DEF Order!Refuse, Result, Order!Result, Order!Next
<1>9. ASSUME SubmitSleep PROVE Step
  BY <1>9, <1>b, <1>d DEF SubmitSleep
<1>10. ASSUME Submit PROVE Step
  <2>1. /\ Len(Jobs) < thread_count
        /\ Jobs' = Append(Jobs, Order!Open(avpkt[next_decoding]))
        /\ UNCHANGED returned
        /\ taken' = IF avpkt[next_decoding] = Drain THEN taken ELSE taken + 1
    BY <1>10, <1>a, SubmitAppends
  <2>2. avpkt[next_decoding] \in {taken + 1, Drain}
    BY <1>10, <1>a DEF Submit, CallerResultOK
  <2>3. CASE avpkt[next_decoding] = Drain
    BY <2>1, <2>3 DEF Order!TakeEnd, Order!Submit, Order!Next
  <2>4. CASE avpkt[next_decoding] # Drain
    BY <2>1, <2>2, <2>4 DEF Order!TakePacket, Order!Submit, Order!Next
  <2> QED  BY <2>3, <2>4
<1>11. ASSUME WaitSleep PROVE Step
  BY <1>11, <1>b, <1>d DEF WaitSleep
<1>12. ASSUME Collect PROVE Step
  <2>1. UNCHANGED Jobs \/ Order!Skip
    BY <1>12, <1>a, CollectMoves
  <2>2. UNCHANGED <<taken, returned>>
    BY <1>12 DEF Collect
  <2> QED  BY <1>b, <2>1, <2>2 DEF Order!Next
<1>13. ASSUME ReturnResult PROVE Step
  <2>1. Order!ReturnFrame \/ Order!ReturnResult
    BY <1>13, <1>a, ReturnTakes
  <2> QED  BY <2>1 DEF Order!Next
<1>14. ASSUME Park PROVE Step
  BY <1>14, <1>b, <1>d DEF Park
<1>15. ASSUME AsyncLock PROVE Step
  <2>1. /\ upc = "async_lock" /\ upc' \in {"async_lock", "out", op}
        /\ UNCHANGED <<next_finished, next_decoding, df, result, state, avpkt, taken, returned>>
    BY <1>15 DEF AsyncLock
  <2>2. op # "wait_for_result"
    BY <1>a DEF TypeOK
  <2> QED  BY <2>1, <2>2, <1>b, <1>d
<1>16. ASSUME DropResults, upc' # "wait_for_result", UNCHANGED <<taken, returned>> PROVE Step
  <2>1. Jobs' = <<>>
    BY <1>16, <1>a, DropEmpties
  <2> QED  BY <1>16, <2>1 DEF Order!Flush, Order!Next
<1>17. ASSUME Flush PROVE Step
  BY <1>17, <1>16 DEF Flush
<1>18. ASSUME FreeDie PROVE Step
  BY <1>18, <1>b, <1>d DEF FreeDie
<1>19. ASSUME FreeJoin PROVE Step
  <2>1. CASE waiting < thread_count - 1
    BY <1>19, <2>1, <1>b, <1>d DEF FreeJoin
  <2>2. CASE ~ (waiting < thread_count - 1)
    BY <1>19, <2>2, <1>16 DEF FreeJoin
  <2> QED  BY <2>1, <2>2
<1>20. ASSUME NEW x \in Workers \cup {User}, SpuriousWakeup(x) PROVE Step
  BY <1>20, <1>b, <1>d DEF SpuriousWakeup
<1>21. ASSUME UNCHANGED vars PROVE Step
  BY <1>21, <1>b, <1>d DEF vars
<1>22. ASSUME NEW t \in Workers,
              \/ WorkerDie(t) \/ WorkerBegin(t) \/ AllocFail(t) \/ CodecSetup(t)
              \/ SetupHwLock(t) \/ SetupAsync(t) \/ SetupPublish(t) \/ AwaitProgress(t)
              \/ Decode(t) \/ WorkerRelease(t) \/ WorkerAsyncUnlock(t) \/ WorkerFinish(t)
       PROVE  Step
  BY <1>22, <1>1 DEF WorkerStep
<1> HIDE DEF Step, UserGoto, fctxVars, userVars, workerVars
<1> QED
  <2>1. Step
    BY <1>3, <1>4, <1>5, <1>6, <1>7, <1>8, <1>9, <1>10, <1>11, <1>12, <1>13, <1>14, <1>15,
       <1>17, <1>18, <1>19, <1>20, <1>21, <1>22, Steps
  <2> QED  BY <2>1 DEF Step

(* Frame-threaded decoding implements FrameOrder: whichever thread is done *)
(* first, frames and errors come out in the order of the packets, each     *)
(* once, and what a flush drops is never returned.                         *)
THEOREM ImplementsFrameOrder == Spec => FrameOrderSpec
<1> DEFINE I == IInv /\ ResultsInv
<1>1. I => JobsOK
  BY JobsAre DEF IInv, ResultsInv
<1>2. I' => JobsOK'
  BY <1>1, PTL
<1>3. I /\ I' /\ [Next]_vars => [Order!Next]_Order!vars
  BY <1>1, <1>2, OrderStep
<1> HIDE DEF I
<1>4. Spec => []I
  BY SpecResults DEF I
<1> QED  BY <1>3, <1>4, InitOrder, PTL DEF Spec, FrameOrderSpec, Order!Spec
=============================================================================
