----------------------------- MODULE Scheduler -----------------------------
(***************************************************************************)
(* fftools/ffmpeg_sched.c with the thread functions it runs: a pipeline of *)
(* tasks that hand packets and frames to each other through ThreadQueues   *)
(* (their contract is proved in ThreadQueueProofs), throttled by choking   *)
(* the sources, and started and stopped by the main thread.                *)
(*                                                                         *)
(* A thread is a list of operations still to do, todo[t]; with an empty    *)
(* list it is at the top of its loop.  A step of a thread is one operation *)
(* that can block or that other threads can see.  A call that blocks is a  *)
(* step that is not enabled.                                               *)
(***************************************************************************)
EXTENDS SchedGraph

CONSTANTS
    QueueSize,      \* capacity of every ThreadQueue
    NbPkts,         \* NbPkts[d][o]: packets in stream o of demuxer d's file;
                    \* NbPkts[f][1]: frames that a sourceless filtergraph makes
    Takes,          \* Takes[f][i]: frames that filtergraph f wants on input i
    MayFail,        \* tasks whose codec or muxer may report an error
    UserMayStop     \* may the user end the transcoding early?

Main == "main"
Threads == Tasks \cup {Main}
Waiters == Demux \cup Filter
None == "none"
Unlocked == [owner |-> None, sets |-> {}]

ASSUME SchedulerAssumption == /\ QueueSize \in Nat \ {0}
                              /\ MayFail \subseteq Decoders \cup Encoders \cup Muxers
                              /\ UserMayStop \in BOOLEAN
                              /\ {Main, None} \cap Tasks = {}

VARIABLES
    todo,           \* todo[t]: operations that thread t has still to do
    running,        \* tasks whose thread was started (SchTask.thread_running)
    queue,          \* queue[t]: the ThreadQueue that task t reads
    dst_finished,   \* ports that their source has closed (dst_finished, eof_out)
    choked,         \* choked[w]: SchWaiter.choked
    last_dts,       \* last_dts[k]: SchMuxStream.last_dts
    source_finished,\* mux streams with SchMuxStream.source_finished
    send_finished, receive_finished,  \* filter inputs with these flags
    best_input,     \* best_input[f]: SchFilterGraph.best_input
    task_exited,    \* demuxers and filtergraphs with task_exited
    schedule_lock,  \* its holder and the waiters it is about to set
    mux_ready_lock, \* the thread that holds it, or None
    nb_streams_ready, mux_started, pre_mux_queue, init_eof,  \* muxer start
    opened,         \* encoders that are open
    nb_mux_done, task_failed, terminate,
    nread,          \* nread[d][o]: packets read from stream o
    nin, eof_in, nout,   \* filtergraph: frames in, inputs at EOF, frames out
    taken           \* history: taken[k]: timestamp of the last item that port k's reader used

schedVars == <<last_dts, source_finished, send_finished, receive_finished,
               best_input, task_exited, schedule_lock, choked>>
muxVars == <<mux_ready_lock, nb_streams_ready, mux_started, pre_mux_queue, init_eof>>
endVars == <<nb_mux_done, task_failed, terminate>>
codecVars == <<nread, nin, eof_in, nout, taken>>
vars == <<todo, running, queue, dst_finished, opened, schedVars, muxVars, endVars,
          codecVars>>

(* An operation: what, on which port (of which task), with which timestamp.*)
Op(name, k, ts) == [op |-> name, k |-> k, ts |-> ts]
On(t) == <<t, 0>>
OpsFor(name, ports, ts) == [i \in DOMAIN ports |-> Op(name, ports[i], ts)]
AllDsts(t) == FlattenSeq(Outs[t])

(* A stream is copied or encoded; an encoder fed by a decoder (subtitles)  *)
(* opens itself when its thread starts, one fed by a filtergraph is opened *)
(* by the thread that sends it its first frame.                            *)
Copied(k) == Src(k) \in Demux
OpensItself(e) == Src(On(e)) \in Decoders
Idle(t) == t \in running /\ todo[t] = <<>>

(* A filtergraph is configured once every input had a frame or EOF.        *)
Configured(f) ==
    nout[f] > 0 \/ \A i \in Inputs(f) : nin[f][i] > 0 \/ <<f, i>> \in eof_in

Init ==
    /\ todo = [t \in Threads |->
                 IF t = Main THEN <<Op("schedule", On(t), NOPTS)>>
                 ELSE IF t \in Encoders /\ OpensItself(t) THEN <<Op("open", On(t), NOPTS)>>
                 ELSE <<>>]
    /\ mux_started = {m \in Muxers : \A i \in Inputs(m) : Copied(<<m, i>>)}
    /\ nb_streams_ready = [m \in Muxers |->
                             Cardinality({i \in Inputs(m) : Copied(<<m, i>>)})]
    /\ running = (Threads \ Muxers) \cup mux_started
    /\ queue = [t \in Consumers |->
                  [fifo |-> <<>>, choked |-> FALSE, send |-> {}, recv |-> {}]]
    /\ choked = [w \in Waiters |-> FALSE]
    /\ last_dts = [k \in MuxStreams |-> NOPTS]
    /\ best_input = [f \in Filter |-> 0]
    /\ pre_mux_queue = [k \in MuxStreams |-> <<>>]
    /\ schedule_lock = Unlocked
    /\ mux_ready_lock = None
    /\ nread = [d \in Demux |-> [o \in DOMAIN Outs[d] |-> 0]]
    /\ nin = [f \in Filter |-> [i \in Inputs(f) |-> 0]]
    /\ nout = [f \in Filter |-> 0]
    /\ taken = [k \in Ports(Decoders \cup Encoders \cup Muxers) |-> 0]
    /\ dst_finished = {} /\ source_finished = {} /\ send_finished = {}
    /\ receive_finished = {} /\ task_exited = {} /\ init_eof = {} /\ opened = {}
    /\ nb_mux_done = {} /\ eof_in = {}
    /\ task_failed = FALSE
    /\ terminate = FALSE

-----------------------------------------------------------------------------
(* ThreadQueue operations, with the effect that ThreadQueue.tla gives them.*)

(* The streams of the queue of t: a filtergraph has a control stream too.  *)
TqStreams(t) == IF t \in Filter THEN 0 .. NbIn[t] ELSE Inputs(t)

TqClosed(k) == k[2] \in queue[k[1]].recv
(* A slip: one item too many.                                              *)
TqCanWriteOneMore(k) == Len(queue[k[1]].fifo) <= QueueSize

TqCanWrite(k) == Len(queue[k[1]].fifo) < QueueSize
TqWrite(k, ts) == [queue EXCEPT ![k[1]].fifo = Append(@, <<k[2], ts>>)]
TqSendEOF(k) == [queue EXCEPT ![k[1]].send = @ \cup {k[2]}]
TqSendFinish(q, t, S) == [q EXCEPT ![t].send = @ \cup S, ![t].choked = FALSE]
TqReceiveFinish(q, t, S) == [q EXCEPT ![t].recv = @ \cup S]

(* tq_receive(): the first wanted item, else an EOF, else nothing to do.   *)
TqWanted(t) == {j \in DOMAIN queue[t].fifo : queue[t].fifo[j][1] \notin queue[t].recv}
TqHasItem(t) == ~queue[t].choked /\ TqWanted(t) # {}
TqItem(t) == queue[t].fifo[Min(TqWanted(t))]
TqAfterItem(t) ==
    [queue EXCEPT ![t].fifo = SubSeq(@, Min(TqWanted(t)) + 1, Len(@))]
TqDrained(t) == ~queue[t].choked /\ TqWanted(t) = {}
TqEofPending(t) == queue[t].send \ queue[t].recv
TqAfterEOF(t) ==
    [queue EXCEPT ![t].fifo = <<>>, ![t].recv = @ \cup {Min(TqEofPending(t))}]
TqAllEOF(t) == TqDrained(t) /\ TqStreams(t) \subseteq queue[t].recv

(* A consumer that finds only unwanted items drops them and waits.         *)
TqDiscard(t) == /\ TqDrained(t)
                /\ TqEofPending(t) = {}
                /\ ~TqAllEOF(t)
                /\ queue[t].fifo # <<>>
                /\ queue' = [queue EXCEPT ![t].fifo = <<>>]

-----------------------------------------------------------------------------
(* Progress of thread t through its list.                                  *)

Next1(t, name) == todo[t] # <<>> /\ Head(todo[t]).op = name
Arg(t) == Head(todo[t]).k
Replace(t, ops) == todo' = [todo EXCEPT ![t] = ops \o Tail(@)]
Pop(t) == Replace(t, <<>>)
Restart(t, ops) == todo' = [todo EXCEPT ![t] = ops]

(* task_cleanup() and the end of task_wrapper(); a thread that has only    *)
(* "exit" left has returned.  Closing the own queue is left out where it   *)
(* is closed already, and an EOF that close_output() has just sent is not  *)
(* sent again by filter_done(): neither has an effect.                     *)
Closed(t) == t \in Consumers => TqStreams(t) \subseteq queue'[t].recv
CleanupOps(t, err, dsts) ==
    (IF t \in Muxers
       THEN <<Op("mux_done", On(t), NOPTS), Op("mux_count", On(t), NOPTS)>>
       ELSE (IF Closed(t) THEN <<>> ELSE <<Op("receive_close", On(t), NOPTS)>>)
            \o OpsFor("finish", dsts, NOPTS))
    \o (IF t \in Waiters THEN <<Op("task_exited", On(t), NOPTS)>> ELSE <<>>)
    \o (IF err THEN <<Op("task_failed", On(t), NOPTS)>> ELSE <<>>)
    \o <<Op("exit", On(t), NOPTS)>>

FailOps(t) == CleanupOps(t, TRUE, AllDsts(t))

(* filter_thread() after its loop: close_output() for the outputs that are *)
(* still open, when there is a graph.  After no frame at all it sends one  *)
(* without data: that opens an encoder and is EOF for a filtergraph.       *)
CloseOutputOps(f, open) ==
    LET Dummy(k) == CASE nout[f] > 0                -> <<>>
                      [] k[1] \in Filter            -> <<Op("send", k, NOPTS)>>
                      [] k[1] \in Encoders \ opened -> <<Op("open", k, NOPTS)>>
                      [] OTHER                      -> <<>>
    IN  FlattenSeq([i \in DOMAIN open |-> Dummy(open[i]) \o <<Op("finish", open[i], NOPTS)>>])

EndOps(t) ==
    LET open == Keep(AllDsts(t), Dsts(t) \ dst_finished)
    IN  IF t \in Filter /\ Configured(t)
          THEN CloseOutputOps(t, open) \o CleanupOps(t, FALSE, <<>>)
          ELSE CleanupOps(t, FALSE, open)

-----------------------------------------------------------------------------
(* Choking.                                                                *)

(* waiter_wait(): it returns at once if not choked.  Found choked, it      *)
(* waits, and then tells its caller whether to terminate.                  *)
WaitOps(t) == IF choked[t] THEN <<Op("waiting", On(t), NOPTS)>> ELSE <<>>

WaitIsOverUnsignalled(t) == terminate  \* a slip: unchoking does not signal the waiter
WaitIsOver(t) == ~choked[t] \/ terminate

WaitTerminates(t) == terminate

WaiterWoken(t) ==
    /\ Next1(t, "waiting")
    /\ WaitIsOver(t)
    /\ UNCHANGED <<running, queue, dst_finished, opened, schedVars, muxVars, endVars, codecVars>>
    /\ IF WaitTerminates(t) THEN Restart(t, EndOps(t)) ELSE Pop(t)

(* The writes of schedule_update_locked(): the waiters ws are changed, and *)
(* a demuxer's queues with it.                                             *)
Updates(ws) == {<<"waiter", w, ~choked[w]>> : w \in ws}
               \cup {<<"freeze", w, ~choked[w]>> : w \in ws \cap Demux}

(* Their order: waiter by waiter.                                          *)
Rank(u) == 2 * (CHOOSE i \in DOMAIN Sources : Sources[i] = u[2])
           + (IF u[1] = "freeze" THEN 1 ELSE 0)
NextUpdate(sets) == CHOOSE u \in sets : \A x \in sets : Rank(u) <= Rank(x)

(* schedule_update_locked(), up to the writes.  sch_stop() does not take   *)
(* the lock.                                                               *)
ScheduleUpdate(t) ==
    \E un \in {Unchoked(MuxStreams \ source_finished', last_dts',
                        receive_finished' \ send_finished', task_exited', best_input')} :
        LET ws == {w \in Waiters : choked[w] # (w \notin un)}
        IN  IF terminate \/ ws = {}
              THEN Pop(t) /\ UNCHANGED schedule_lock
              ELSE /\ schedule_lock' = [owner |-> t, sets |-> Updates(ws)]
                   /\ UNCHANGED todo

(* A slip: the queues are never unfrozen.                                  *)
ChokeDemuxForGood(d, v) ==
    [q \in Consumers |-> IF q \in FrozenWith(d) THEN [queue[q] EXCEPT !.choked = @ \/ v]
                        ELSE queue[q]]

(* choke_demux(): queue after its calls of tq_choke().                     *)
ChokeDemux(d, v) ==
    [q \in Consumers |-> IF q \in FrozenWith(d) THEN [queue[q] EXCEPT !.choked = v]
                        ELSE queue[q]]

(* Its writes, one at a time, with schedule_lock held: waiter_set() and,   *)
(* for a demuxer, choke_demux().                                           *)
ScheduleApply(t) ==
    /\ schedule_lock.owner = t
    /\ LET u    == NextUpdate(schedule_lock.sets)
           rest == schedule_lock.sets \ {u}
       IN  /\ choked' = IF u[1] = "waiter" THEN [choked EXCEPT ![u[2]] = u[3]] ELSE choked
           /\ queue' = IF u[1] = "freeze" THEN ChokeDemux(u[2], u[3]) ELSE queue
           /\ IF rest = {} THEN schedule_lock' = Unlocked /\ Pop(t)
              ELSE schedule_lock' = [schedule_lock EXCEPT !.sets = rest] /\ UNCHANGED todo
    /\ UNCHANGED <<running, dst_finished, opened, last_dts, source_finished, send_finished,
                   receive_finished, best_input, task_exited, muxVars, endVars, codecVars>>

(* The places that change what the schedule depends on and call            *)
(* schedule_update_locked(), each in one critical section.                 *)
Locking(t, name) == Next1(t, name) /\ schedule_lock.owner = None

SchedUnchanged == UNCHANGED <<running, dst_finished, opened, choked, muxVars, endVars, codecVars>>

(* sch_start(), last lines.                                                *)
ScheduleFirst(t) ==
    /\ Locking(t, "schedule")
    /\ UNCHANGED <<last_dts, source_finished, send_finished, receive_finished,
                   best_input, task_exited, queue>>
    /\ ScheduleUpdate(t)
    /\ SchedUnchanged

(* send_to_mux() after a packet, from update_schedule on.                  *)
SetLastDts(t) ==
    /\ Locking(t, "last_dts")
    /\ last_dts' = [last_dts EXCEPT ![Arg(t)] = Head(todo[t]).ts]
    /\ UNCHANGED <<source_finished, send_finished, receive_finished,
                   best_input, task_exited, queue>>
    /\ ScheduleUpdate(t)
    /\ SchedUnchanged

(* send_to_mux() after EOF, and the end of sch_mux_receive_finish().       *)
SourceFinished(t) ==
    /\ Locking(t, "source_finished")
    /\ source_finished' = source_finished \cup {Arg(t)}
    /\ UNCHANGED <<last_dts, send_finished, receive_finished,
                   best_input, task_exited, queue>>
    /\ ScheduleUpdate(t)
    /\ SchedUnchanged

(* mux_done(), first half: all streams of the muxer at once.               *)
MuxDone(t) ==
    /\ Locking(t, "mux_done")
    /\ LET m == Arg(t)[1]
       IN  /\ queue' = TqReceiveFinish(queue, m, Inputs(m))
           /\ source_finished' = source_finished \cup Ports({m})
    /\ UNCHANGED <<last_dts, send_finished, receive_finished, best_input, task_exited>>
    /\ ScheduleUpdate(t)
    /\ SchedUnchanged

(* The filter inputs of S, and its control stream with the last of them.   *)
WithControl(f, S, done) ==
    S \cup (IF Ports({f}) \subseteq done THEN {NbIn[f]} ELSE {})

(* send_to_filter() with EOF: takes effect once per input.                 *)
FilterSendFinished(t) ==
    /\ Locking(t, "finish")
    /\ LET k == Arg(t)
       IN  /\ k[1] \in Filter
           /\ dst_finished' = dst_finished \cup {k}
           /\ IF k \in send_finished
                THEN /\ Pop(t)
                     /\ UNCHANGED <<queue, schedVars>>
                ELSE /\ send_finished' = send_finished \cup {k}
                     /\ queue' = TqSendFinish(queue, k[1],
                                   WithControl(k[1], {k[2]}, send_finished'))
                     /\ UNCHANGED <<last_dts, source_finished, receive_finished,
                                    best_input, task_exited, choked>>
                     /\ ScheduleUpdate(t)
    /\ UNCHANGED <<running, opened, muxVars, endVars, codecVars>>

(* sch_filter_receive_finish(), called once per input (close_input()).     *)
FilterReceiveFinish(t) ==
    /\ Locking(t, "receive_finished")
    /\ LET k == Arg(t)
       IN  /\ receive_finished' = receive_finished \cup {k}
           /\ queue' = TqReceiveFinish(queue, k[1],
                         WithControl(k[1], {k[2]}, receive_finished'))
    /\ UNCHANGED <<last_dts, source_finished, send_finished, best_input, task_exited>>
    /\ ScheduleUpdate(t)
    /\ SchedUnchanged

(* sch_filter_receive(), when the wanted input changed, and                *)
(* sch_filter_choke_inputs().                                              *)
SetBestInput(t) ==
    /\ Locking(t, "best_input")
    /\ best_input' = [best_input EXCEPT ![t] = Arg(t)[2]]
    /\ UNCHANGED <<last_dts, source_finished, send_finished, receive_finished,
                   task_exited, queue>>
    /\ ScheduleUpdate(t)
    /\ SchedUnchanged

(* The end of demux_done() and of filter_done().                           *)
TaskExited(t) ==
    /\ Locking(t, "task_exited")
    /\ task_exited' = task_exited \cup {t}
    /\ UNCHANGED <<last_dts, source_finished, send_finished, receive_finished,
                   best_input, queue>>
    /\ ScheduleUpdate(t)
    /\ SchedUnchanged

-----------------------------------------------------------------------------
(* Sending: demux_stream_send_to_dst(), dec_send_to_dst(),                 *)
(* enc_send_to_dst(), sch_filter_send() and what they call.                *)

SendUnchanged == UNCHANGED <<running, opened, schedVars, endVars, codecVars>>

(* send_to_enc(): the sender opens an audio or video encoder.              *)
OpensEncoder(k) == k[1] \in Encoders \ opened /\ ~OpensItself(k[1])

Finish(k) == <<Op("finish", k, NOPTS)>>
MuxHeld(k) == k[1] \in Muxers \ mux_started

ReadyOps(e) == OpsFor("ready", Keep(AllDsts(e), MuxStreams), NOPTS)

(* What is left to do for the frame that had the encoder opened.           *)
AfterOpeningNothing(t) == <<>>  \* a slip: the frame is discarded like a dummy one
AfterOpening(t) == <<Head(todo[t])>>

OpensBySending(t) ==
    Next1(t, "send") /\ Arg(t) \notin dst_finished /\ OpensEncoder(Arg(t))

(* enc_open(), called by the sender of the first frame (send_to_enc()) or  *)
(* of the dummy frame, or by the thread of a subtitle encoder; on success  *)
(* the streams fed by the encoder become ready.                            *)
EncOpen(t) ==
    /\ \/ /\ OpensBySending(t)
          /\ Replace(t, ReadyOps(Arg(t)[1]) \o AfterOpening(t))
       \/ /\ Next1(t, "open")
          /\ Replace(t, ReadyOps(Arg(t)[1]))
    /\ opened' = opened \cup {Arg(t)[1]}
    /\ UNCHANGED <<running, queue, dst_finished, schedVars, muxVars, endVars, codecVars>>

(* The codec does not open: the thread that tried to open it ends.         *)
EncOpenFails(t) ==
    /\ OpensBySending(t) \/ Next1(t, "open")
    /\ Arg(t)[1] \in MayFail
    /\ UNCHANGED <<running, queue, dst_finished, opened, schedVars, muxVars, endVars, codecVars>>
    /\ Restart(t, FailOps(t))

(* The state in which mux_queue_packet() is called.                        *)
QueuesForMuxStale(k) == k[1] \in Muxers /\ mux_ready_lock = None  \* a slip: no second check
QueuesForMux(k) == MuxHeld(k) /\ mux_ready_lock = None

(* send_to_mux(), muxer not started: mux_queue_packet(), under the lock.   *)
(* The check before the lock is repeated after it, so the sender that      *)
(* waited for the lock while the muxer was started goes on to tq_send().   *)
SendToPreMux(t) ==
    /\ Next1(t, "send")
    /\ Arg(t) \notin dst_finished
    /\ QueuesForMux(Arg(t))
    /\ pre_mux_queue' = [pre_mux_queue EXCEPT ![Arg(t)] = Append(@, Head(todo[t]).ts)]
    /\ Replace(t, <<Op("last_dts", Arg(t), Head(todo[t]).ts)>>)
    /\ SendUnchanged
    /\ UNCHANGED <<queue, dst_finished, mux_ready_lock, nb_streams_ready, mux_started, init_eof>>

(* tq_send() takes the item, or says that the consumer has closed.         *)
Send(t) ==
    /\ Next1(t, "send")
    /\ LET k == Arg(t)
       IN  \/ /\ k \in dst_finished
              /\ Pop(t)
              /\ UNCHANGED queue
           \/ /\ k \notin dst_finished /\ ~OpensEncoder(k) /\ ~MuxHeld(k)
              /\ \/ /\ k \in init_eof
                    /\ Replace(t, Finish(k))
                    /\ UNCHANGED queue
                 \/ /\ k \notin init_eof /\ TqClosed(k)
                    /\ queue' = TqSendEOF(k)
                    /\ Replace(t, Finish(k))
                 \/ /\ k \notin init_eof /\ ~TqClosed(k) /\ TqCanWrite(k)
                    /\ queue' = TqWrite(k, Head(todo[t]).ts)
                    /\ Replace(t, IF k[1] \in Muxers
                                    THEN <<Op("last_dts", k, Head(todo[t]).ts)>> ELSE <<>>)
    /\ SendUnchanged
    /\ UNCHANGED <<dst_finished, muxVars>>

(* The finish label of those functions: EOF for the consumer, once.        *)
SendFinish(t) ==
    /\ Next1(t, "finish")
    /\ Arg(t)[1] \notin Filter
    /\ LET k == Arg(t)
       IN  IF k \in dst_finished
             THEN Pop(t) /\ UNCHANGED <<queue, dst_finished, pre_mux_queue>>
             ELSE /\ dst_finished' = dst_finished \cup {k}
                  /\ IF MuxHeld(k)
                       THEN /\ mux_ready_lock = None
                            /\ pre_mux_queue' = [pre_mux_queue EXCEPT ![k] = Append(@, NOPTS)]
                            /\ UNCHANGED queue
                       ELSE /\ queue' = TqSendFinish(queue, k[1], {k[2]})
                            /\ UNCHANGED pre_mux_queue
                  /\ Replace(t, IF k[1] \in Muxers THEN <<Op("source_finished", k, NOPTS)>>
                                ELSE <<>>)
    /\ SendUnchanged
    /\ UNCHANGED <<mux_ready_lock, nb_streams_ready, mux_started, init_eof>>

-----------------------------------------------------------------------------
(* Starting a muxer once all its streams are ready.                        *)

(* How muxer_thread() may begin: mux_thread_init() may fail, and then the  *)
(* thread ends while its queues are being flushed.                         *)
MuxThreadInit(m) == {<<>>} \cup (IF m \in MayFail THEN {FailOps(m)} ELSE {})

(* sch_mux_stream_ready(); the last one calls mux_task_start(), which      *)
(* flushes the pre-muxing queues with mux_ready_lock held.                 *)
MuxStreamReady(t) ==
    /\ Next1(t, "ready")
    /\ mux_ready_lock = None
    /\ LET m == Arg(t)[1]
       IN  /\ nb_streams_ready' = [nb_streams_ready EXCEPT ![m] = @ + 1]
           /\ IF nb_streams_ready'[m] = NbIn[m]
                THEN /\ running' = running \cup {m}
                     /\ mux_ready_lock' = t
                     /\ \E first \in MuxThreadInit(m) :
                          todo' = [todo EXCEPT ![t] = <<Op("flush", On(m), NOPTS)>> \o Tail(@),
                                               ![m] = first]
                ELSE Pop(t) /\ UNCHANGED <<running, mux_ready_lock>>
    /\ UNCHANGED <<queue, dst_finished, opened, schedVars, mux_started, pre_mux_queue,
                   init_eof, endVars, codecVars>>

(* The stream that mux_task_start() flushes next: the first with EOF in    *)
(* front, else the first with the least timestamp.                         *)
FlushNext(m) ==
    LET ne == {i \in Inputs(m) : pre_mux_queue[<<m, i>>] # <<>>}
        ts(i) == Head(pre_mux_queue[<<m, i>>])
    IN  <<m, Min({i \in ne : \A j \in ne : ts(i) <= ts(j)})>>

MuxTaskStart(t) ==
    /\ Next1(t, "flush")
    /\ LET m == Arg(t)[1]
       IN  IF \A i \in Inputs(m) : pre_mux_queue[<<m, i>>] = <<>>
             THEN /\ mux_started' = mux_started \cup {m}
                  /\ mux_ready_lock' = None
                  /\ Pop(t)
                  /\ UNCHANGED <<queue, pre_mux_queue, init_eof>>
             ELSE LET k  == FlushNext(m)
                      ts == Head(pre_mux_queue[k])
                  IN  /\ pre_mux_queue' = [pre_mux_queue EXCEPT ![k] = Tail(@)]
                      /\ \/ /\ ts = NOPTS
                            /\ queue' = TqSendFinish(queue, m, {k[2]})
                            /\ UNCHANGED init_eof
                         \/ /\ ts # NOPTS /\ k \in init_eof
                            /\ UNCHANGED <<queue, init_eof>>
                         \/ /\ ts # NOPTS /\ k \notin init_eof /\ TqClosed(k)
                            /\ queue' = TqSendEOF(k)
                            /\ init_eof' = init_eof \cup {k}
                         \/ /\ ts # NOPTS /\ k \notin init_eof /\ ~TqClosed(k)
                            /\ TqCanWrite(k)
                            /\ queue' = TqWrite(k, ts)
                            /\ UNCHANGED init_eof
                      /\ UNCHANGED <<todo, mux_started, mux_ready_lock>>
    /\ UNCHANGED <<running, dst_finished, opened, schedVars, nb_streams_ready, endVars, codecVars>>

-----------------------------------------------------------------------------
(* The thread functions.  Codecs turn one packet or frame into one; the    *)
(* libavfilter graph (external) makes one frame per output from one frame  *)
(* of each input that is not at EOF.                                       *)

(* The history; a frame that marks EOF has no timestamp.                   *)
UsesItem(t) ==
    taken' = IF TqItem(t)[2] = NOPTS THEN taken
             ELSE [taken EXCEPT ![<<t, TqItem(t)[1]>>] = TqItem(t)[2]]

LoopUnchanged == UNCHANGED <<running, dst_finished, opened, schedVars, muxVars, endVars>>

(* A stream whose consumers are all done is not read any more.             *)
StreamFinished(d, o) == Range(Outs[d][o]) \subseteq dst_finished

(* demux_send_for_stream(): a packet for every consumer.                   *)
PacketOpsFirst(d, o, ts) == OpsFor("send", <<Head(Outs[d][o])>>, ts)  \* a slip: one consumer only
PacketOps(d, o, ts) == OpsFor("send", Outs[d][o], ts)

(* input_thread(): sch_demux_send() of the next packet of some stream.     *)
DemuxRead(d) ==
    /\ Idle(d)
    /\ LET left == {o \in DOMAIN Outs[d] : nread[d][o] < NbPkts[d][o] /\ ~StreamFinished(d, o)}
       IN  IF left = {}
             THEN Restart(d, EndOps(d)) /\ UNCHANGED nread
             ELSE \E o \in left :
                    /\ nread' = [nread EXCEPT ![d][o] = @ + 1]
                    /\ Restart(d, WaitOps(d) \o PacketOps(d, o, nread'[d][o]))
    /\ LoopUnchanged
    /\ UNCHANGED <<queue, nin, eof_in, nout, taken>>

(* decoder_thread(): it stops when all consumers of its output are done;   *)
(* the frame that marks EOF (no timestamp) precedes the EOF of the stream. *)
DecReceive(t) ==
    /\ Idle(t)
    /\ IF Range(AllDsts(t)) \subseteq dst_finished
         THEN UNCHANGED <<queue, taken>> /\ Restart(t, EndOps(t))
         ELSE \/ /\ TqHasItem(t)
                 /\ queue' = TqAfterItem(t)
                 /\ UsesItem(t)
                 /\ Restart(t, OpsFor("send", AllDsts(t), TqItem(t)[2]))
              \/ /\ TqDrained(t) /\ TqEofPending(t) # {}
                 /\ queue' = TqAfterEOF(t)
                 /\ Restart(t, OpsFor("send", AllDsts(t), NOPTS) \o EndOps(t))
                 /\ UNCHANGED taken
    /\ LoopUnchanged
    /\ UNCHANGED <<nread, nin, eof_in, nout>>

(* encoder_thread(): an EOF frame produces nothing, EOF before the encoder *)
(* was opened is an error.                                                 *)
EncReceive(t) ==
    /\ Idle(t)
    /\ \/ /\ TqHasItem(t)
          /\ queue' = TqAfterItem(t)
          /\ UsesItem(t)
          /\ Restart(t, IF TqItem(t)[2] = NOPTS THEN <<>>
                        ELSE OpsFor("send", AllDsts(t), TqItem(t)[2]))
       \/ /\ TqDrained(t) /\ TqEofPending(t) # {}
          /\ queue' = TqAfterEOF(t)
          /\ Restart(t, IF t \in opened THEN EndOps(t) ELSE FailOps(t))
          /\ UNCHANGED taken
    /\ LoopUnchanged
    /\ UNCHANGED <<nread, nin, eof_in, nout>>

(* EOF of one stream of a muxer.                                           *)
MuxEofOpsLast(m) == EndOps(m)  \* a slip: EOF of one stream ends the muxer
MuxEofOps(m) == <<Op("source_finished", <<m, Min(TqEofPending(m))>>, NOPTS)>>

(* muxer_thread(), with sch_mux_receive_finish() at EOF of a stream.       *)
MuxReceive(m) ==
    /\ Idle(m)
    /\ \/ /\ TqHasItem(m)
          /\ queue' = TqAfterItem(m)
          /\ UsesItem(m)
          /\ UNCHANGED todo
       \/ /\ TqDrained(m) /\ TqEofPending(m) # {}
          /\ queue' = TqAfterEOF(m)
          /\ Restart(m, MuxEofOps(m))
          /\ UNCHANGED taken
       \/ /\ TqAllEOF(m)
          /\ Restart(m, EndOps(m))
          /\ UNCHANGED <<queue, taken>>
    /\ LoopUnchanged
    /\ UNCHANGED <<nread, nin, eof_in, nout>>

(* An error while an item is processed ends the thread function.           *)
TaskFails(t) ==
    /\ t \in MayFail
    /\ Idle(t) /\ TqHasItem(t)
    /\ queue' = TqAfterItem(t)
    /\ Restart(t, FailOps(t))
    /\ LoopUnchanged
    /\ UNCHANGED codecVars

(* tq_receive() called by an idle thread, or by a filter that waits.       *)
Discard(t) ==
    /\ t \in Consumers
    /\ (Idle(t) /\ t \notin Filter) \/ Next1(t, "receive")
    /\ TqDiscard(t)
    /\ LoopUnchanged
    /\ UNCHANGED <<todo, codecVars>>

-----------------------------------------------------------------------------
(* filter_thread().                                                        *)

(* Frames are taken from each input in step with those sent, until a trim  *)
(* on it is satisfied, after Takes[f][i]; then the input has the status    *)
(* EOF (av_buffersrc_get_status()), as it has after send_eof().            *)
AtEOF(f, i) == <<f, i>> \in eof_in \/ nin[f][i] >= Takes[f][i]
HasFrame(f, i) == nout[f] < nin[f][i] /\ nout[f] < Takes[f][i]

GraphEOF(f) == IF NbIn[f] = 0 THEN nout[f] = NbPkts[f][1]
               ELSE \A i \in Inputs(f) : AtEOF(f, i) /\ ~HasFrame(f, i)
GraphReady(f) ==
    /\ Configured(f)
    /\ \A i \in Inputs(f) : HasFrame(f, i) \/ AtEOF(f, i)
    /\ ~GraphEOF(f)
ToClose(f) == Keep([i \in 1 .. NbIn[f] |-> <<f, i - 1>>],
                   {k \in Ports({f}) : AtEOF(f, k[2])} \ receive_finished)

(* read_frames(): send what the graph has, for the open outputs.           *)
FilterEmit(f) ==
    /\ Idle(f) \/ Next1(f, "emit")
    /\ NbIn[f] = 0 => Next1(f, "emit")
    /\ GraphReady(f)
    /\ ~(Range(AllDsts(f)) \subseteq dst_finished)
    /\ nout' = [nout EXCEPT ![f] = @ + 1]
    /\ Restart(f, OpsFor("send", AllDsts(f), nout'[f]))
    /\ LoopUnchanged
    /\ UNCHANGED <<queue, nread, nin, eof_in, taken>>

(* The graph is at EOF or every consumer is: leave the loop.               *)
FilterEnd(f) ==
    /\ Idle(f) \/ Next1(f, "emit")
    /\ NbIn[f] = 0 => Next1(f, "emit")
    /\ Configured(f)
    /\ GraphEOF(f) \/ Range(AllDsts(f)) \subseteq dst_finished
    /\ UNCHANGED <<queue, codecVars>>
    /\ LoopUnchanged
    /\ Restart(f, EndOps(f))

(* With nothing to send: close the inputs at EOF, then ask for the next    *)
(* frame, of an input whose format is unknown or that the graph needs.     *)
FilterAsk(f) ==
    /\ Idle(f) /\ NbIn[f] > 0
    /\ ~GraphReady(f)
    /\ ~(Configured(f) /\ (GraphEOF(f) \/ Range(AllDsts(f)) \subseteq dst_finished))
    /\ \E i \in Inputs(f) :
         /\ IF Configured(f) THEN ~AtEOF(f, i) /\ ~HasFrame(f, i)
            ELSE i = Min({j \in Inputs(f) : nin[f][j] = 0 /\ <<f, j>> \notin eof_in})
         /\ Restart(f, (IF Configured(f)
                          THEN OpsFor("receive_finished", ToClose(f), NOPTS)
                          ELSE <<>>)
                       \o (IF i # best_input[f] THEN <<Op("best_input", <<f, i>>, NOPTS)>>
                           ELSE <<>>)
                       \o <<Op("receive", On(f), NOPTS)>>)
    /\ LoopUnchanged
    /\ UNCHANGED <<queue, codecVars>>

(* A filtergraph without inputs waits to be scheduled before each frame.   *)
FilterWait(f) ==
    /\ Idle(f) /\ NbIn[f] = 0
    /\ Restart(f, WaitOps(f) \o <<Op("emit", On(f), NOPTS)>>)
    /\ LoopUnchanged
    /\ UNCHANGED <<queue, codecVars>>

(* sch_filter_receive(): a frame, an EOF frame, or the end of every input; *)
(* EOF of one stream is disregarded.  The frame that completes the         *)
(* parameters of all inputs has the graph configured, with inputs choked.  *)
FilterReceive(f) ==
    /\ Next1(f, "receive")
    /\ UNCHANGED <<nread, nout, taken>>
    /\ \/ /\ TqHasItem(f)
          /\ queue' = TqAfterItem(f)
          /\ LET i == TqItem(f)[1]
             IN  IF TqItem(f)[2] = NOPTS
                   THEN eof_in' = eof_in \cup {<<f, i>>} /\ UNCHANGED nin
                   ELSE nin' = [nin EXCEPT ![f][i] = @ + 1] /\ UNCHANGED eof_in
          /\ Restart(f, IF ~Configured(f) /\ Configured(f)' /\ TqItem(f)[2] # NOPTS
                          THEN <<Op("best_input", <<f, NbIn[f]>>, NOPTS)>> ELSE <<>>)
       \/ /\ TqDrained(f) /\ TqEofPending(f) # {}
          /\ queue' = TqAfterEOF(f)
          /\ UNCHANGED <<todo, nin, eof_in>>
       \/ /\ TqAllEOF(f)
          /\ UNCHANGED <<queue, nin, eof_in>>
          /\ Restart(f, EndOps(f))
    /\ LoopUnchanged

-----------------------------------------------------------------------------
(* The end of a task: task_cleanup() and task_wrapper().                   *)

(* dec_done(), enc_done(), filter_done(): close the own queue.             *)
ReceiveClose(t) ==
    /\ Next1(t, "receive_close")
    /\ queue' = TqReceiveFinish(queue, t, TqStreams(t))
    /\ Pop(t)
    /\ LoopUnchanged
    /\ UNCHANGED codecVars

(* mux_done(), second half.                                                *)
MuxCount(t) ==
    /\ Next1(t, "mux_count")
    /\ nb_mux_done' = nb_mux_done \cup {Arg(t)[1]}
    /\ Pop(t)
    /\ UNCHANGED <<running, queue, dst_finished, opened, schedVars, muxVars, task_failed,
                   terminate, codecVars>>

(* task_wrapper(): the thread function or its cleanup returned an error.   *)
TaskFailed(t) ==
    /\ Next1(t, "task_failed")
    /\ task_failed' = TRUE
    /\ Pop(t)
    /\ UNCHANGED <<running, queue, dst_finished, opened, schedVars, muxVars, nb_mux_done,
                   terminate, codecVars>>

-----------------------------------------------------------------------------
(* The main thread: transcode(), sch_wait() and sch_stop().                *)

(* sch_stop(): it waits for the threads in the order demuxers, decoders,   *)
(* filtergraphs, encoders, muxers; waiting for one task after another is   *)
(* waiting for all of them.                                                *)
StopOps ==
    <<Op("terminate", On(Main), NOPTS)>>
    \o [i \in DOMAIN Filters |-> Op("stop_waiter", On(Filters[i]), NOPTS)]
    \o FlattenSeq([i \in DOMAIN Demuxers |->
          <<Op("stop_waiter", On(Demuxers[i]), NOPTS), Op("unfreeze", On(Demuxers[i]), NOPTS)>>])
    \o <<Op("join", On(Main), NOPTS)>>
    \o OpsFor("join_mux", SetToSeq({On(m) : m \in Muxers}), NOPTS)
    \o <<Op("exit", On(Main), NOPTS)>>

MainUnchanged == UNCHANGED <<running, dst_finished, opened, muxVars, nb_mux_done, task_failed,
                             codecVars>>

(* What sch_wait() returns.                                                *)
TranscodeOverMuxers == nb_mux_done = Muxers  \* a slip: failed tasks are not looked at
TranscodeOver == nb_mux_done = Muxers \/ task_failed

SchWaitDone ==
    /\ Idle(Main)
    /\ TranscodeOver
    /\ Restart(Main, StopOps)
    /\ MainUnchanged
    /\ UNCHANGED <<queue, schedVars, terminate>>

(* A signal or 'q'.                                                        *)
UserStops ==
    /\ UserMayStop
    /\ Idle(Main)
    /\ Restart(Main, StopOps)
    /\ MainUnchanged
    /\ UNCHANGED <<queue, schedVars, terminate>>

SchStop ==
    /\ LET w == Arg(Main)[1]
       IN  \/ /\ Next1(Main, "terminate")
              /\ terminate' = TRUE
              /\ UNCHANGED <<choked, queue>>
           \/ /\ Next1(Main, "stop_waiter")
              /\ choked' = [choked EXCEPT ![w] = TRUE]
              /\ UNCHANGED <<terminate, queue>>
           \/ /\ Next1(Main, "unfreeze")
              /\ queue' = ChokeDemux(w, FALSE)
              /\ UNCHANGED <<terminate, choked>>
    /\ Pop(Main)
    /\ MainUnchanged
    /\ UNCHANGED <<last_dts, source_finished, send_finished, receive_finished, best_input,
                   task_exited, schedule_lock>>

(* task_stop(): a muxer that was never started is cleaned up here.         *)
Exited(t) == Next1(t, "exit")

TaskStop ==
    /\ \/ /\ Next1(Main, "join")
          /\ \A t \in Tasks \ Muxers : Exited(t)
          /\ Pop(Main)
       \/ /\ Next1(Main, "join_mux")
          /\ LET m == Arg(Main)[1]
             IN  \/ m \in running /\ Exited(m) /\ Pop(Main)
                 \/ /\ m \notin running
                    /\ Replace(Main, <<Op("mux_done", On(m), NOPTS), Op("mux_count", On(m), NOPTS)>>)
    /\ UNCHANGED <<running, queue, dst_finished, opened, schedVars, muxVars, endVars, codecVars>>

-----------------------------------------------------------------------------
LockStep(t) ==
    \/ ScheduleFirst(t) \/ SetLastDts(t) \/ SourceFinished(t) \/ MuxDone(t)
    \/ FilterSendFinished(t) \/ FilterReceiveFinish(t) \/ SetBestInput(t) \/ TaskExited(t)
    \/ ScheduleApply(t)

SendStep(t) ==
    \/ SendToPreMux(t) \/ Send(t) \/ SendFinish(t)
    \/ EncOpen(t) \/ EncOpenFails(t) \/ MuxStreamReady(t) \/ MuxTaskStart(t)

EndStep(t) == ReceiveClose(t) \/ MuxCount(t) \/ TaskFailed(t)

FilterStep(f) == FilterEmit(f) \/ FilterEnd(f) \/ FilterAsk(f) \/ FilterWait(f) \/ FilterReceive(f)

LoopStep(t) ==
    \/ t \in Waiters /\ WaiterWoken(t)
    \/ t \in Demux /\ DemuxRead(t)
    \/ t \in Decoders /\ DecReceive(t)
    \/ t \in Filter /\ FilterStep(t)
    \/ t \in Encoders /\ EncReceive(t)
    \/ t \in Muxers /\ MuxReceive(t)
    \/ TaskFails(t)
    \/ Discard(t)

MainStep == SchWaitDone \/ SchStop \/ TaskStop

ThreadStep(t) ==
    \/ LockStep(t) \/ SendStep(t) \/ EndStep(t)
    \/ t # Main /\ LoopStep(t)
    \/ t = Main /\ MainStep

Stopped == Exited(Main)

Next == (\E t \in Threads : ThreadStep(t)) \/ UserStops

Spec == Init /\ [][Next]_vars

(* Some thread that can run does.  Every behaviour is finite, so this is   *)
(* enough to reach the end, whichever threads the system prefers.          *)
FairSpec == Spec /\ WF_vars(\E t \in Threads : ThreadStep(t))

-----------------------------------------------------------------------------
(* Properties.                                                             *)

TypeOK ==
    /\ \A t \in Threads : \A i \in DOMAIN todo[t] : DOMAIN todo[t][i] = {"op", "k", "ts"}
    /\ running \subseteq Threads
    /\ \A t \in Consumers :
         /\ Len(queue[t].fifo) <= QueueSize
         /\ queue[t].choked \in BOOLEAN
         /\ queue[t].send \cup queue[t].recv \subseteq TqStreams(t)
    /\ choked \in [Waiters -> BOOLEAN]
    /\ last_dts \in [MuxStreams -> Nat]
    /\ source_finished \cup init_eof \subseteq MuxStreams
    /\ send_finished \cup receive_finished \cup eof_in \subseteq Ports(Filter)
    /\ dst_finished \subseteq Ports(Consumers)
    /\ \A f \in Filter : best_input[f] \in 0 .. NbIn[f]
    /\ schedule_lock.owner \in Threads \cup {None}
    /\ mux_ready_lock \in Threads \cup {None}
    /\ \A m \in Muxers : nb_streams_ready[m] \in 0 .. NbIn[m]
    /\ opened \subseteq Encoders

(* Frames or packets that were handed to port k, from the first source on. *)
Produced ==
    LET P[k \in Ports(Consumers)] ==
          LET t == Src(k)
          IN  CASE t \in Demux  -> nread[t][CHOOSE o \in DOMAIN Outs[t] : k \in Range(Outs[t][o])]
                [] t \in Filter -> nout[t]
                [] OTHER        -> P[On(t)]
    IN  P

(* A transcode that nobody stops and in which nothing fails ends only when *)
(* every packet of every input was read, every frame was filtered and      *)
(* every muxer got everything that was made for it: sch_wait() does not    *)
(* return early, and neither the pre-muxing queue nor any EOF overtakes    *)
(* data.                                                                   *)
NothingLost ==
    (Stopped /\ ~task_failed /\ ~UserMayStop) =>
        /\ \A d \in Demux : nread[d] = NbPkts[d]
        /\ \A f \in Filter : NbIn[f] = 0 => nout[f] = NbPkts[f][1]
        /\ \A f \in Filter : \A i \in Inputs(f) : 
               Min({Produced[<<f, i>>], Takes[f][i]}) <= nout[f]
        /\ \A k \in MuxStreams : taken[k] = Produced[k]

(* A decoder, an encoder and a muxer get the packets or frames of a stream *)
(* one after the other, whichever way they took: to a muxer, pre_mux_queue *)
(* and mux_task_start(), or tq_send() directly by a sender that saw        *)
(* mux_started; to an encoder, the frame that opened it comes first.       *)
TakenInOrder == [][\A k \in DOMAIN taken : taken'[k] \in {taken[k], taken[k] + 1}]_taken

(* schedule_update_locked() keeps a demuxer's waiter and the queues frozen *)
(* with it (choke_demux()) together: a queue is frozen only while its      *)
(* demuxer is choked, else its decoder would starve.  sch_stop() changes   *)
(* both without the lock.                                                  *)
FrozenOnlyIfChoked ==
    schedule_lock.owner = None =>
        \A d \in Demux : \A q \in FrozenWith(d) : queue[q].choked => choked[d]

(* No stream that is all that its demuxer is copied to runs further ahead  *)
(* of an unfinished stream, copied or encoded, than the tolerance, until   *)
(* sch_stop(): the packet with which it reaches it is the last one whose   *)
(* waiter_wait() was over.                                                 *)
LeadIsBounded ==
    ~terminate =>
        \A j, k \in MuxStreams \ source_finished :
            (Copied(k) /\ Dsts(Src(k)) = {k}) => last_dts[k] <= last_dts[j] + SCHEDULE_TOLERANCE

(* A demuxer whose frames go to a filter input that was closed is not      *)
(* choked while it has not been told: only by sending does it learn of it, *)
(* and other consumers may wait for data of the same demuxer or decoder.   *)
ClosedInputsAreFed ==
    (schedule_lock.owner = None /\ ~terminate) =>
        \A k \in receive_finished \ send_finished :
            \A d \in Demux : (Src(k) \in Decoders /\ Src(On(Src(k))) = d) => ~choked[d]

(* Every transcode ends: sch_wait() returns, at the end, after an error in *)
(* any task or when the user stops, and sch_stop() joins all the threads,  *)
(* with every queue full and any stream ahead.                             *)
TranscodeEnds == <>Stopped

(* A queue is frozen that sch_stop() had unfrozen.                         *)
Refrozen == terminate /\ \E d \in Demux : \E q \in FrozenWith(d) : queue[q].choked

(* No thread waits for a thread that waits, and so on in a circle,         *)
(* whatever is full, choked or locked.  The one thing that may keep        *)
(* sch_stop() from returning is a queue that was frozen after it had       *)
(* unfrozen it.                                                            *)
StuckOnlyIfRefrozen == Stopped \/ Refrozen \/ ENABLED (\E t \in Threads : ThreadStep(t))

(* "disregard EOFs for specific streams - they should always be preceded   *)
(* by an EOF frame" (sch_filter_receive()): a filtergraph hears of the EOF *)
(* of an input in this way, unless it has closed the input or has ended.   *)
EofFrameArrives ==
    \A k \in Ports(Filter) :
        k \in send_finished ~> (k \in eof_in \cup receive_finished \/ Exited(k[1]))
=============================================================================
