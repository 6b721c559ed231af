---------------------------- MODULE FrameThread ----------------------------
(* libavcodec/pthread_frame.c, decoding: the caller's thread hands one     *)
(* packet to each worker in turn and collects their results in the same    *)
(* turn.  A worker is set up from the one before it, so it starts when     *)
(* that one has called ff_thread_finish_setup(); hardware acceleration     *)
(* that is not thread-safe is passed from worker to worker on the way.     *)
(*                                                                         *)
(* A worker holds its mutex except in pthread_cond_wait(); submit_packet() *)
(* holds it while it waits for the worker before.  The state of a worker   *)
(* changes under its progress_mutex, so that testing it and going to sleep *)
(* is one step.                                                            *)
EXTENDS Integers, Sequences

CONSTANTS
    thread_count,
    HwKinds,        \* subset of {"serial", "threadsafe"}: HWACCEL_CAP_THREAD_SAFE or not
    AsyncSafe,      \* HWACCEL_CAP_ASYNC_SAFE
    Drain,          \* the empty packet
    HwContexts,     \* names of instances of the hwaccel, more than are live at a time
    MaxPackets,     \* bound on the packets of the input
    MaxFrames       \* bound on the frames of one packet

ASSUME FrameThreadAssumption ==
    /\ thread_count \in Nat \ {0, 1}
    /\ HwKinds \subseteq {"serial", "threadsafe"} /\ HwKinds # {}
    /\ AsyncSafe \in BOOLEAN
    /\ HwContexts \subseteq Nat \ {0}
    /\ MaxPackets \in Nat /\ MaxFrames \in Nat
    /\ Drain \notin -1 .. MaxPackets

Workers == 0 .. thread_count - 1
None == -1
User == None                        \* as an index of asleep
NoHw == 0
Packets == 1 .. MaxPackets
Frames(k) == {[i \in 1 .. n |-> k] : n \in 0 .. MaxFrames}

VARIABLES
    \* FrameThreadContext
    prev_thread, next_decoding, next_finished,
    async_lock, hwaccel_mutex, stash_hwaccel,
    df, result,     \* df[User], result[User]: those of FrameThreadContext
    \* PerThreadContext
    state, avpkt, hwaccel, hwaccel_threadsafe, async_serializing, die,
    pc,             \* where a worker is
    ref,            \* packet whose frame the worker's one refers to
    asleep,         \* in a condition wait that nothing has signalled yet
    \* the caller
    upc, op, sync, waiting, draining, taken, returned,
    hwKind,         \* of the hwaccel that get_format() may choose
    live,           \* instances that were created and not freed
    nomem           \* has AllocFail happened?

fctxVars == <<prev_thread, next_decoding, next_finished>>
hwVars == <<hwaccel, hwaccel_threadsafe, stash_hwaccel, hwaccel_mutex, live, nomem>>
userVars == <<upc, op, sync, waiting, draining, taken, returned>>
workerVars == <<pc, ref, state, avpkt, async_serializing, die>>
vars == <<fctxVars, hwVars, userVars, workerVars, async_lock, df, result, asleep, hwKind>>

Result(r) == [res |-> r, frame |-> 0]

Init ==
    /\ prev_thread = None /\ next_decoding = 0 /\ next_finished = 0
    /\ async_lock = TRUE /\ hwaccel_mutex = None /\ stash_hwaccel = NoHw
    /\ df = [x \in Workers \cup {User} |-> <<>>]
    /\ result = [x \in Workers \cup {User} |-> "ok"]
    /\ state = [t \in Workers |-> "INPUT_READY"]
    /\ avpkt = [t \in Workers |-> None]
    /\ hwaccel = [t \in Workers |-> NoHw]
    /\ hwaccel_threadsafe = [t \in Workers |-> FALSE]
    /\ async_serializing = [t \in Workers |-> FALSE]
    /\ die = [t \in Workers |-> FALSE]
    /\ pc = [t \in Workers |-> "input"]
    /\ ref = [t \in Workers |-> None]
    /\ asleep = [x \in Workers \cup {User} |-> x # User]
    /\ upc = "out" /\ op = "none" /\ sync = FALSE /\ waiting = None
    /\ draining = FALSE /\ taken = 0 /\ returned = Result("none")
    /\ hwKind \in HwKinds /\ live = {} /\ nomem = FALSE

Goto(t, l) == pc' = [pc EXCEPT ![t] = l]
hwaccel_serial(t) == hwaccel[t] # NoHw /\ hwKind = "serial"
Serializing(t) == hwaccel_mutex = t             \* hwaccel_serializing

HwRefs == ({hwaccel[t] : t \in Workers} \cup {stash_hwaccel}) \ {NoHw}
FreeHw == HwContexts \ (HwRefs \cup live)
FreshHw == IF FreeHw = {} THEN {} ELSE {CHOOSE h \in FreeHw : TRUE}

(* Who sleeps on async_cond, on progress_cond of t, on output_cond of t.   *)
AsyncWaiters == {t \in Workers : pc[t] = "async"}
                    \cup (IF upc = "async_lock" THEN {User} ELSE {})
ProgressWaiters(t) == {s \in Workers : pc[s] = "decode" /\ ref[s] = avpkt[t]}
                    \cup (IF upc = "prev" /\ prev_thread = t THEN {User} ELSE {})
OutputWaiters(t) == IF upc \in {"wait_for_result", "park"} /\ waiting = t THEN {User} ELSE {}
Woken(S) == [x \in DOMAIN asleep |-> asleep[x] /\ x \notin S]

-----------------------------------------------------------------------------
(* The worker t: frame_worker_thread().                                    *)

WorkerDie(t) ==
    /\ pc[t] = "input" /\ ~ asleep[t] /\ die[t]
    /\ Goto(t, "dead")
    /\ UNCHANGED <<fctxVars, hwVars, userVars, ref, state, avpkt, async_serializing, die,
                   async_lock, df, result, asleep, hwKind>>

(* A slip: does not wait.                                                  *)
WorkerBeginAtOnce(t) ==
    /\ pc[t] = "input" /\ ~ asleep[t] /\ ~ die[t] /\ state[t] # "INPUT_READY"
    /\ Goto(t, "codec")
    /\ UNCHANGED <<fctxVars, hwVars, userVars, ref, state, avpkt, async_serializing, die,
                   async_lock, df, result, asleep, hwKind>>

(* The hwaccel state came from the worker before: wait until it is done.   *)
WorkerBegin(t) ==
    /\ pc[t] = "input" /\ ~ asleep[t] /\ ~ die[t] /\ state[t] # "INPUT_READY"
    /\ \/ ~ hwaccel_serial(t) /\ UNCHANGED hwaccel_mutex
       \/ hwaccel_serial(t) /\ hwaccel_mutex = None /\ hwaccel_mutex' = t
    /\ Goto(t, "codec")
    /\ UNCHANGED <<fctxVars, userVars, ref, state, avpkt, async_serializing, die, async_lock,
                   df, result, asleep, hwKind, hwaccel, hwaccel_threadsafe, stash_hwaccel,
                   live, nomem>>

(* decoded_frames_get_free() fails, before the codec is called or after it *)
(* has returned a delayed frame: the setup is never finished.              *)
AllocFail(t) ==
    /\ pc[t] = "codec"
    /\ result' = [result EXCEPT ![t] = "error"]
    /\ df' \in {[df EXCEPT ![t] = @ \o fs] : fs \in IF avpkt[t] = Drain THEN Frames(Drain) ELSE {<<>>}}
    /\ nomem' = TRUE
    /\ Goto(t, "release")
    /\ UNCHANGED <<fctxVars, userVars, ref, state, avpkt, async_serializing, die, async_lock,
                   asleep, hwKind, hwaccel, hwaccel_threadsafe, stash_hwaccel, hwaccel_mutex,
                   live>>

AfterHwLock(h) == IF h # NoHw /\ ~ AsyncSafe THEN "async" ELSE "publish"

(* Packets whose frames are not complete: their progress is awaited.       *)
Unfinished == {avpkt[t] : t \in {s \in Workers :
                    state[s] = "SETUP_FINISHED" /\ pc[s] = "decode"}} \ {Drain}

(* The codec reads the headers, may call ff_get_format(), which frees the  *)
(* hwaccel state and may create another, and calls                         *)
(* ff_thread_finish_setup() (or frame_worker_thread() does it afterwards). *)
CodecSetup(t) ==
    /\ pc[t] = "codec"
    /\ \/ UNCHANGED <<hwaccel, live>>
       \/ /\ avpkt[t] # Drain
          /\ \E h \in {NoHw} \cup FreshHw :
                /\ hwaccel' = [hwaccel EXCEPT ![t] = h]
                /\ live' = (live \ {hwaccel[t]}) \cup ({h} \ {NoHw})
    /\ \E k \in Unfinished \cup {None} : ref' = [ref EXCEPT ![t] = k]
    /\ hwaccel_threadsafe' = [hwaccel_threadsafe EXCEPT
                                ![t] = hwaccel'[t] # NoHw /\ hwKind = "threadsafe"]
    /\ Goto(t, IF hwaccel'[t] # NoHw /\ hwKind = "serial" /\ ~ Serializing(t)
               THEN "hwlock" ELSE AfterHwLock(hwaccel'[t]))
    /\ UNCHANGED <<fctxVars, userVars, state, avpkt, async_serializing, die, async_lock, df,
                   result, asleep, hwKind, stash_hwaccel, hwaccel_mutex, nomem>>

(* ff_thread_finish_setup(): the first worker with such an hwaccel.        *)
SetupHwLock(t) ==
    /\ pc[t] = "hwlock" /\ hwaccel_mutex = None
    /\ hwaccel_mutex' = t
    /\ Goto(t, AfterHwLock(hwaccel[t]))
    /\ UNCHANGED <<fctxVars, userVars, ref, state, avpkt, async_serializing, die, async_lock,
                   df, result, asleep, hwKind, hwaccel, hwaccel_threadsafe, stash_hwaccel,
                   live, nomem>>

(* An hwaccel that is not async-safe runs while the caller is inside.      *)
SetupAsync(t) ==
    /\ pc[t] = "async" /\ ~ asleep[t]
    /\ \/ /\ async_lock
          /\ asleep' = [asleep EXCEPT ![t] = TRUE]
          /\ UNCHANGED <<async_lock, async_serializing, pc>>
       \/ /\ ~ async_lock
          /\ async_lock' = TRUE
          /\ async_serializing' = [async_serializing EXCEPT ![t] = TRUE]
          /\ Goto(t, "publish")
          /\ UNCHANGED asleep
    /\ UNCHANGED <<fctxVars, hwVars, userVars, ref, state, avpkt, die, df, result, hwKind>>

(* The stash is there before the state says so.                            *)
SetupPublish(t) ==
    /\ pc[t] = "publish"
    /\ stash_hwaccel' = IF hwaccel_serial(t) THEN hwaccel[t] ELSE stash_hwaccel
    /\ state' = [state EXCEPT ![t] = "SETUP_FINISHED"]
    /\ asleep' = Woken(ProgressWaiters(t))
    /\ Goto(t, "decode")
    /\ UNCHANGED <<fctxVars, userVars, ref, avpkt, async_serializing, die, async_lock, df,
                   result, hwKind, hwaccel, hwaccel_threadsafe, hwaccel_mutex, live, nomem>>

(* ff_thread_await_progress() on a frame of an earlier packet.             *)
AwaitProgress(t) ==
    /\ pc[t] = "decode" /\ ~ asleep[t] /\ ref[t] \in Unfinished
    /\ asleep' = [asleep EXCEPT ![t] = TRUE]
    /\ UNCHANGED <<fctxVars, hwVars, userVars, workerVars, async_lock, df, result, hwKind>>

(* The packet is decoded, and the progress of its frame reported up to the *)
(* end, as every codec must.                                               *)
Decode(t) ==
    /\ pc[t] = "decode" /\ ~ asleep[t] /\ ref[t] \notin Unfinished
    /\ df' \in {[df EXCEPT ![t] = @ \o fs] : fs \in Frames(avpkt[t])}
    /\ result' \in {[result EXCEPT ![t] = r] :
                        r \in IF avpkt[t] = Drain THEN {"eof", "error"} ELSE {"ok", "error"}}
    /\ ref' = [ref EXCEPT ![t] = None]
    /\ asleep' = Woken(ProgressWaiters(t))
    /\ Goto(t, "release")
    /\ UNCHANGED <<fctxVars, hwVars, userVars, state, avpkt, async_serializing, die,
                   async_lock, hwKind>>

(* Wipes the state of an hwaccel that is not thread-safe.                  *)
WorkerRelease(t) ==
    /\ pc[t] = "release"
    /\ IF Serializing(t)
       THEN hwaccel' = [hwaccel EXCEPT ![t] = NoHw] /\ hwaccel_mutex' = None
       ELSE UNCHANGED <<hwaccel, hwaccel_mutex>>
    /\ Goto(t, IF async_serializing[t] THEN "unlock" ELSE "finish")
    /\ UNCHANGED <<fctxVars, userVars, ref, state, avpkt, async_serializing, die, async_lock,
                   df, result, asleep, hwKind, hwaccel_threadsafe, stash_hwaccel, live, nomem>>

WorkerAsyncUnlock(t) ==
    /\ pc[t] = "unlock"
    /\ async_serializing' = [async_serializing EXCEPT ![t] = FALSE]
    /\ async_lock' = FALSE
    /\ asleep' = Woken(AsyncWaiters)
    /\ Goto(t, "finish")
    /\ UNCHANGED <<fctxVars, hwVars, userVars, ref, state, avpkt, die, df, result, hwKind>>

(* A slip: progress_cond is left to ff_thread_finish_setup().              *)
WorkerFinishOutput(t) ==
    /\ pc[t] = "finish"
    /\ state' = [state EXCEPT ![t] = "INPUT_READY"]
    /\ asleep' = [Woken(OutputWaiters(t)) EXCEPT ![t] = TRUE]
    /\ Goto(t, "input")
    /\ avpkt' = [avpkt EXCEPT ![t] = None]
    /\ UNCHANGED <<fctxVars, hwVars, userVars, ref, async_serializing, die, async_lock, df,
                   result, hwKind>>

(* From the store of the state to the wait for the next packet the worker  *)
(* holds its mutex, without which nobody changes state or die.             *)
WorkerFinish(t) ==
    /\ pc[t] = "finish"
    /\ state' = [state EXCEPT ![t] = "INPUT_READY"]
    /\ asleep' = [Woken(ProgressWaiters(t) \cup OutputWaiters(t)) EXCEPT ![t] = TRUE]
    /\ Goto(t, "input")
    /\ avpkt' = [avpkt EXCEPT ![t] = None]
    /\ UNCHANGED <<fctxVars, hwVars, userVars, ref, async_serializing, die, async_lock, df,
                   result, hwKind>>

-----------------------------------------------------------------------------
(* The caller's thread.                                                    *)

UserGoto(l) == upc' = l
Idle == df[User] = <<>> /\ result[User] = "ok"
Next1(i) == (i + 1) % thread_count

Call(o, l) ==
    /\ upc = "out"
    /\ op' = o /\ UserGoto(l)
    /\ returned' = Result("none")
    /\ async_lock' = FALSE
    /\ asleep' = Woken(AsyncWaiters)

(* ff_thread_receive_frame() lets waiting workers go on while it runs.     *)
ReceiveCall ==
    /\ Call("receive", "loop")
    /\ sync' \in BOOLEAN
    /\ UNCHANGED <<fctxVars, hwVars, workerVars, df, result, hwKind, waiting, draining, taken>>

Return(r) == returned' = r /\ UserGoto("async_lock")

(* Starts to wait for the oldest packet that a worker has.                 *)
WaitForResult ==
    /\ waiting' = next_finished
    /\ next_finished' = Next1(next_finished)
    /\ UserGoto("wait_for_result")

WaitSync ==
    /\ upc = "loop" /\ Idle /\ sync /\ next_decoding # next_finished
    /\ WaitForResult
    /\ UNCHANGED <<hwVars, workerVars, async_lock, df, result, asleep, hwKind, op, sync,
                   draining, taken, returned, prev_thread, next_decoding>>

WantsPacket == upc = "loop" /\ Idle /\ ~ (sync /\ next_decoding # next_finished)

NoPacket ==
    /\ WantsPacket /\ ~ draining
    /\ \E r \in {IF sync THEN "quiet" ELSE "again", "error"} : Return(Result(r))
    /\ UNCHANGED <<fctxVars, hwVars, workerVars, async_lock, df, result, asleep, hwKind, op,
                   sync, waiting, draining, taken>>

(* The next packet goes to the next worker, whose mutex is free: its last  *)
(* result has been collected.                                              *)
GetPacket ==
    /\ WantsPacket
    /\ \/ ~ draining /\ taken < MaxPackets /\ UNCHANGED draining
          /\ avpkt' = [avpkt EXCEPT ![next_decoding] = taken + 1]
       \/ draining' = TRUE /\ avpkt' = [avpkt EXCEPT ![next_decoding] = Drain]
    /\ UserGoto("prev")
    /\ UNCHANGED <<fctxVars, hwVars, async_lock, df, result, asleep, hwKind, op, sync, waiting,
                   taken, returned, pc, ref, state, async_serializing, die>>

Taken == taken' = IF avpkt[next_decoding] = Drain THEN taken ELSE taken + 1
SetupPendingNever == FALSE     \* a slip: the next worker does not wait for the setup
SetupPending == prev_thread # None /\ state[prev_thread] = "SETTING_UP"

(* update_context_from_thread(), as to the hardware acceleration of p.     *)
Kept(p) == [hw |-> hwaccel[p], live |-> live, threadsafe |-> hwaccel_threadsafe[p]]
Without(p, ts) == [hw |-> NoHw, live |-> live \ {hwaccel[p]}, threadsafe |-> ts]
Updated(p, q) ==
    IF hwaccel_threadsafe[q]
    THEN IF hwaccel[p] # NoHw
         THEN {[Kept(p) EXCEPT !.threadsafe = TRUE]}
         ELSE {[hw |-> h, live |-> live \cup {h}, threadsafe |-> TRUE] : h \in FreshHw}
    ELSE {IF hwaccel_threadsafe[p] THEN Without(p, FALSE) ELSE Kept(p)}

(* It fails before that part, or in hwaccel->update_thread_context().      *)
UpdateFailed(p, q) ==
    {Kept(p)} \cup IF q # None /\ hwaccel_threadsafe[q]
                   THEN {Without(p, hwaccel_threadsafe[p] /\ hwaccel[p] # NoHw)} ELSE {}

SetContext(p, c) ==
    /\ hwaccel' = [hwaccel EXCEPT ![p] = c.hw]
    /\ live' = c.live
    /\ hwaccel_threadsafe' = [hwaccel_threadsafe EXCEPT ![p] = c.threadsafe]

(* So may update_context_from_user(), before anything is waited for.       *)
SubmitFails ==
    /\ upc = "prev" /\ ~ asleep[User]
    /\ \E c \in IF SetupPending THEN {Kept(next_decoding)}
                ELSE UpdateFailed(next_decoding, prev_thread) : SetContext(next_decoding, c)
    /\ Taken
    /\ Return(Result("error"))
    /\ UNCHANGED <<fctxVars, workerVars, async_lock, df, result, asleep, hwKind, op, sync,
                   waiting, draining, stash_hwaccel, hwaccel_mutex, nomem>>

(* submit_packet() waits for the setup of the worker before.               *)
SubmitSleep ==
    /\ upc = "prev" /\ ~ asleep[User] /\ SetupPending
    /\ asleep' = [asleep EXCEPT ![User] = TRUE]
    /\ UNCHANGED <<fctxVars, hwVars, userVars, workerVars, async_lock, df, result, hwKind>>

(* Transfers the stashed state; a thread-safe hwaccel has none.            *)
Swapped(c) == IF c.threadsafe THEN c ELSE [c EXCEPT !.hw = stash_hwaccel]

(* Codecs without delay are not updated for the empty packet.              *)
Contexts(p, q) ==
    IF q = None THEN {Kept(p)}
    ELSE Updated(p, q) \cup IF avpkt[p] = Drain THEN {Kept(p)} ELSE {}

Submit ==
    /\ upc = "prev" /\ ~ asleep[User] /\ ~ SetupPending
    /\ LET p == next_decoding
       IN  /\ \E c \in Contexts(p, prev_thread) :
                /\ SetContext(p, Swapped(c))
                /\ stash_hwaccel' = IF c.threadsafe THEN stash_hwaccel ELSE c.hw
           /\ state' = [state EXCEPT ![p] = "SETTING_UP"]
           /\ asleep' = [asleep EXCEPT ![p] = FALSE]
           /\ prev_thread' = p
           /\ next_decoding' = Next1(p)
    /\ Taken
    /\ IF next_decoding' # next_finished /\ ~ draining
       THEN UserGoto("loop") /\ UNCHANGED <<waiting, next_finished>>
       ELSE WaitForResult
    /\ UNCHANGED <<async_lock, df, result, hwKind, op, sync, draining, returned, pc, ref,
                   avpkt, async_serializing, die, hwaccel_mutex, nomem>>

(* Waiting for the result of one worker, or for all of them to be parked.  *)
WaitSleep ==
    /\ upc \in {"wait_for_result", "park"} /\ ~ asleep[User] /\ state[waiting] # "INPUT_READY"
    /\ asleep' = [asleep EXCEPT ![User] = TRUE]
    /\ UNCHANGED <<fctxVars, hwVars, userVars, workerVars, async_lock, df, result, hwKind>>

Collect ==
    /\ upc = "wait_for_result" /\ ~ asleep[User] /\ state[waiting] = "INPUT_READY"
    /\ df' = [df EXCEPT ![User] = df[waiting], ![waiting] = <<>>]
    /\ result' = [result EXCEPT ![User] = result[waiting], ![waiting] = "ok"]
    /\ waiting' = None
    /\ UserGoto("loop")
    /\ UNCHANGED <<fctxVars, hwVars, workerVars, async_lock, asleep, hwKind, op, sync,
                   draining, taken, returned>>

(* All the frames, then the error.                                         *)
ReturnResult ==
    /\ upc = "loop" /\ ~ Idle
    /\ IF df[User] # <<>>
       THEN /\ Return([res |-> "frame", frame |-> Head(df[User])])
            /\ df' = [df EXCEPT ![User] = Tail(@)]
            /\ UNCHANGED result
       ELSE /\ Return(Result(result[User]))
            /\ result' = [result EXCEPT ![User] = "ok"]
            /\ UNCHANGED df
    /\ UNCHANGED <<fctxVars, hwVars, workerVars, async_lock, asleep, hwKind, op, sync, waiting,
                   draining, taken>>

(* ff_thread_flush() and ff_frame_thread_free() first park the workers.    *)
ParkCall ==
    /\ \E o \in {"flush", "free"} : Call(o, "park")
    /\ waiting' = 0
    /\ UNCHANGED <<fctxVars, hwVars, workerVars, df, result, hwKind, sync, draining, taken>>

Park ==
    /\ upc = "park" /\ ~ asleep[User] /\ state[waiting] = "INPUT_READY"
    /\ IF waiting < thread_count - 1
       THEN waiting' = waiting + 1 /\ UNCHANGED upc
       ELSE waiting' = 0 /\ UserGoto("async_lock")
    /\ UNCHANGED <<fctxVars, hwVars, workerVars, async_lock, df, result, asleep, hwKind, op,
                   sync, draining, taken, returned>>

AsyncLock ==
    /\ upc = "async_lock" /\ ~ asleep[User]
    /\ \/ /\ async_lock
          /\ asleep' = [asleep EXCEPT ![User] = TRUE]
          /\ UNCHANGED <<async_lock, upc, op, sync>>
       \/ /\ ~ async_lock
          /\ async_lock' = TRUE
          /\ UserGoto(IF op = "receive" THEN "out" ELSE op)
          /\ op' = "none" /\ sync' = FALSE
          /\ UNCHANGED asleep
    /\ UNCHANGED <<fctxVars, hwVars, workerVars, df, result, hwKind, waiting, draining, taken,
                   returned>>

(* A slip: results that nobody has collected stay with their workers.      *)
DropResultsCaller ==
    /\ next_decoding' = 0 /\ next_finished' = 0 /\ prev_thread' = None
    /\ df' = [df EXCEPT ![User] = <<>>]
    /\ result' = [result EXCEPT ![User] = "ok"]

DropResults ==
    /\ next_decoding' = 0 /\ next_finished' = 0 /\ prev_thread' = None
    /\ df' = [x \in DOMAIN df |-> <<>>]
    /\ result' = [x \in DOMAIN result |-> "ok"]

(* The first worker is to go on from the last one.                         *)
Flush ==
    /\ upc = "flush"
    /\ IF prev_thread \in {None, 0}
       THEN UNCHANGED <<hwaccel, live, hwaccel_threadsafe>>
       ELSE \E c \in UpdateFailed(0, prev_thread) \cup Updated(0, prev_thread) : SetContext(0, c)
    /\ DropResults
    /\ draining' = FALSE
    /\ waiting' = None
    /\ UserGoto("out")
    /\ UNCHANGED <<workerVars, async_lock, asleep, hwKind, op, sync, taken, returned,
                   stash_hwaccel, hwaccel_mutex, nomem>>

FreeDie ==
    /\ upc = "free"
    /\ die' = [die EXCEPT ![waiting] = TRUE]
    /\ asleep' = [asleep EXCEPT ![waiting] = FALSE]
    /\ UserGoto("join")
    /\ UNCHANGED <<fctxVars, hwVars, async_lock, df, result, hwKind, op, sync, waiting,
                   draining, taken, returned, pc, ref, state, avpkt, async_serializing>>

(* What is in the stash at the end is given to the caller, who frees it.   *)
FreeJoin ==
    /\ upc = "join" /\ pc[waiting] = "dead"
    /\ hwaccel' = [hwaccel EXCEPT ![waiting] = NoHw]
    /\ live' = live \ {hwaccel[waiting]}
    /\ IF waiting < thread_count - 1
       THEN /\ waiting' = waiting + 1 /\ UserGoto("free")
            /\ UNCHANGED <<fctxVars, df, result>>
       ELSE DropResults /\ UserGoto("freed") /\ UNCHANGED waiting
    /\ UNCHANGED <<workerVars, async_lock, asleep, hwKind, op, sync, draining, taken, returned,
                   hwaccel_threadsafe, stash_hwaccel, hwaccel_mutex, nomem>>

(* pthread_cond_wait() may return at any time.  A worker that waits for    *)
(* input then has the mutex, finds nothing and waits again: no change.     *)
SpuriousWakeup(x) ==
    /\ asleep[x] /\ (x # User => pc[x] # "input")
    /\ asleep' = [asleep EXCEPT ![x] = FALSE]
    /\ UNCHANGED <<fctxVars, hwVars, userVars, workerVars, async_lock, df, result, hwKind>>

-----------------------------------------------------------------------------
WorkerStep(t) ==
    \/ WorkerDie(t) \/ WorkerBegin(t) \/ AllocFail(t) \/ CodecSetup(t) \/ SetupHwLock(t)
    \/ SetupAsync(t) \/ SetupPublish(t) \/ AwaitProgress(t) \/ Decode(t)
    \/ WorkerRelease(t) \/ WorkerAsyncUnlock(t) \/ WorkerFinish(t)

InsideStep ==
    \/ WaitSync \/ NoPacket \/ GetPacket \/ SubmitFails \/ SubmitSleep \/ Submit
    \/ WaitSleep \/ Collect \/ ReturnResult \/ Park \/ AsyncLock \/ Flush
    \/ FreeDie \/ FreeJoin

Next == \/ \E t \in Workers : WorkerStep(t)
        \/ ReceiveCall \/ ParkCall \/ InsideStep
        \/ \E x \in Workers \cup {User} : SpuriousWakeup(x)

Spec == Init /\ [][Next]_vars

(* Every thread that can go on does; the codec comes to an end; nobody has *)
(* to call again.                                                          *)
FairSpec == Spec /\ WF_vars(InsideStep) /\ \A t \in Workers : WF_vars(WorkerStep(t))

-----------------------------------------------------------------------------
Packet == Packets \cup {Drain}
Results == {"ok", "error", "eof"}
PcSet == {"input", "codec", "hwlock", "async", "publish", "decode", "release", "unlock",
          "finish", "dead"}

TypeOK ==
    /\ prev_thread \in Workers \cup {None}
    /\ next_decoding \in Workers /\ next_finished \in Workers
    /\ async_lock \in BOOLEAN /\ hwaccel_mutex \in Workers \cup {None}
    /\ stash_hwaccel \in HwContexts \cup {NoHw}
    /\ df \in [Workers \cup {User} -> Seq(Packet)]
    /\ result \in [Workers \cup {User} -> Results]
    /\ state \in [Workers -> {"INPUT_READY", "SETTING_UP", "SETUP_FINISHED"}]
    /\ avpkt \in [Workers -> Packet \cup {None}]
    /\ hwaccel \in [Workers -> HwContexts \cup {NoHw}]
    /\ hwaccel_threadsafe \in [Workers -> BOOLEAN]
    /\ async_serializing \in [Workers -> BOOLEAN]
    /\ die \in [Workers -> BOOLEAN]
    /\ pc \in [Workers -> PcSet]
    /\ ref \in [Workers -> Packets \cup {None}]
    /\ asleep \in [Workers \cup {User} -> BOOLEAN]
    /\ upc \in {"out", "loop", "prev", "wait_for_result", "park", "async_lock", "flush",
                "free", "join", "freed"}
    /\ op \in {"none", "receive", "flush", "free"}
    /\ sync \in BOOLEAN /\ draining \in BOOLEAN
    /\ waiting \in Workers \cup {None}
    /\ taken \in 0 .. MaxPackets
    /\ returned.res \in Results \cup {"none", "again", "quiet", "frame"}
    /\ hwKind \in HwKinds
    /\ live \subseteq HwContexts
    /\ nomem \in BOOLEAN

(* av_assert0() at 174, 270, 316, 546, 700: whoever gives up the async     *)
(* lock, worker or caller, finds it taken; the stash is empty when it is   *)
(* filled and the hwaccel slot of a worker when it gets the stash.         *)
AssertsHold ==
    /\ \A t \in Workers :
        /\ pc[t] \in {"codec", "hwlock"} /\ ~ hwaccel_serial(t) => ~ Serializing(t)
        /\ pc[t] = "publish" => stash_hwaccel = NoHw
        /\ pc[t] \in {"unlock", "finish"} => ~ hwaccel_serial(t)
        /\ pc[t] = "unlock" => async_lock
        /\ upc = "prev" /\ next_decoding = t => hwaccel[t] = NoHw \/ hwaccel_threadsafe[t]
    /\ upc \notin {"out", "flush", "free", "join", "freed"} \/ async_lock

(* Only one thread works with an hwaccel that is not thread-safe, nobody   *)
(* has one that was freed, and none is lost but for an allocation failure. *)
HwAccelExclusive ==
    /\ HwRefs \subseteq live
    /\ live \subseteq HwRefs \/ nomem
    /\ \A t \in Workers : hwaccel_serial(t) /\ pc[t] \in {"codec", "async", "publish", "decode"}
                            => Serializing(t)

(* Nobody is asleep when what it waits for has come.                       *)
SleepersNotForgotten ==
    /\ \A t \in Workers : asleep[t] =>
        \/ pc[t] = "input" /\ state[t] = "INPUT_READY" /\ ~ die[t]
        \/ pc[t] = "async" /\ async_lock
        \/ pc[t] = "decode" /\ ref[t] \in Unfinished
    /\ asleep[User] =>
        \/ upc = "prev" /\ SetupPending
        \/ upc \in {"wait_for_result", "park"} /\ state[waiting] # "INPUT_READY"
        \/ upc = "async_lock" /\ async_lock

Inv == TypeOK /\ AssertsHold /\ SleepersNotForgotten

(* The jobs of FrameOrder: what the caller has collected, then the packets *)
(* of the workers, in turn.                                                *)
Job(t) == IF state[t] = "INPUT_READY"
          THEN [pkt |-> 0, frames |-> df[t], res |-> result[t]]
          ELSE [pkt |-> avpkt[t], frames |-> <<>>, res |-> "ok"]
Busy == (next_decoding - next_finished) % thread_count
Jobs ==
    (IF upc = "wait_for_result" THEN <<Job(waiting)>> ELSE <<>>)
    \o (IF Idle THEN <<>> ELSE <<[pkt |-> 0, frames |-> df[User], res |-> result[User]]>>)
    \o [i \in 1 .. Busy |-> Job((next_finished + i - 1) % thread_count)]

Order == INSTANCE FrameOrder WITH jobs <- Jobs

(* Frames and errors come out in the order of the packets, each once.      *)
FrameOrderSpec == Order!Spec

(* Every call comes back.                                                  *)
CallsReturn == []<>(upc \in {"out", "freed"})
=============================================================================
