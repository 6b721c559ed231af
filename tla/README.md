# TLA+ models of the jellyfin-ffmpeg transcoder

This directory models the multithreaded core of the programs in this
repository: the scheduler that connects demuxers, decoders, filtergraphs,
encoders and muxers (`fftools/ffmpeg_sched.c`), the queue they talk through
(`fftools/thread_queue.c`), the loops of the threads that use both, the queue
that keeps the streams of an output together (`fftools/sync_queue.c`), and the
three ways in which the libraries use threads: message queues
(`libavutil/threadmessage.c`), slices of a frame (`libavutil/slicethread.c`) and
frames decoded at a time (`libavcodec/pthread_frame.c`). It is the part where
nearly everything that is hard to test lives: dozens of threads, bounded queues
in a graph, several kinds of back pressure, counters that decide who is last,
and state handed from thread to thread.

## Inventory

| component | state | operations | talks to | hard |
|---|---|---|---|---|
| thread queue (`thread_queue.c`) | item fifo, fifo of stream indices, per stream flags FINISHED_SEND / FINISHED_RECV, `choked` | `tq_send`, `tq_send_finish`, `tq_choke`, `tq_receive`, `tq_receive_finish` | called by every task | one condition variable for everybody, two fifos that must agree, EOF as a flag |
| scheduler, running (`ffmpeg_sched.c` 320-475, 1115-1475, 1699-2776) | graph, `choked` of every demuxer and filtergraph, `last_dts`, `source_finished`, `best_input`, flags per filter input, muxer start state, `terminate` | `sch_*_send`, `sch_*_receive`, `sch_mux_stream_ready`, `schedule_update_locked`, `sch_start`, `sch_wait`, `sch_stop` | all tasks, through calls | deadlock by back pressure, start of muxers against senders, stop against updates |
| scheduler, construction (`ffmpeg_sched.c` 629-1113, 1480-1697) | the graph | `sch_add_*`, `sch_connect`, `check_acyclic` | option parsing | an edge that the cycle check does not know |
| demuxer thread (`ffmpeg_demux.c`) | position, finished streams | `input_thread` | scheduler | learns of EOF only by sending |
| decoder thread (`ffmpeg_dec.c`) | codec | `decoder_thread` | scheduler | EOF frame before EOF of the stream, errors |
| filtering thread (`ffmpeg_filter.c`) | filtergraph, `next_in`, `eof_in`, `eof_out` | `filter_thread`, `read_frames`, `close_input`, `close_output` | scheduler, libavfilter | asks for one input at a time |
| encoder thread (`ffmpeg_enc.c`) | codec, `opened` | `encoder_thread`, `enc_open` | scheduler | opened by another thread |
| muxer thread (`ffmpeg_mux.c`) | file | `muxer_thread` | scheduler | EOF of one stream, errors |
| main (`ffmpeg.c`) | | `transcode` | scheduler | stops at any time |
| sync queue (`sync_queue.c`) | per stream fifo, head timestamps, finished flags | `sq_send`, `sq_receive` | called under a lock by senders of encoders; by muxers | finishing by comparison of heads, overflow heartbeats |
| message queue (`libavutil/threadmessage.c`) | fifo, two error values | send, recv, set_err_*, flush | scheduler (end timestamps), fifo muxer | one signal per message |
| slice threads (`libavutil/slicethread.c`) | job counters, per worker flag | create, execute, free | libavcodec, libavfilter, libswscale | counters reused by the next execution |
| frame threads (`libavcodec/pthread_frame.c`) | per worker packet, results, state of the set-up; hwaccel slots and the stash; two ring indices | `ff_thread_receive_frame`, `ff_thread_flush`, free; `ff_thread_finish_setup`, `ff_thread_await_progress` called by codecs | codecs, the caller's thread | results in order, hwaccel passed from worker to worker, four condition variables |
| `threadprogress.c`, encoding threads (`frame_thread_encoder.c`), `executor.c`, buffer pools (`buffer.c`, `refstruct.c`), threaded I/O (`fifo.c`, `async.c`) | | | codecs, formats | hand-over between threads, lifetime |
| codecs, formats, filters, scalers, option parsing, ffplay, ffprobe, packaging | | | | sequential or numeric: left aside |

What has to be true of them: a queue neither loses, duplicates, reorders nor
mislabels items and wakes whoever can go on; a transcode ends, and then every
packet has reached every consumer it was meant for; no stream runs too far
ahead; a muxer sees each stream in order however it was started; a failing task
ends the transcode; stopping returns; every job of an execution runs once and
before it returns; frames decoded at a time come out in order, and what only one
thread may use is used by one.

## Modules

* `StreamChannels` - what a thread queue promises: one ordered channel per
  stream, EOF after the last item and once, nothing after the receiver closed.
* `ThreadQueue` - `thread_queue.c`, one action per critical section of a call.
  A caller that sleeps in `pthread_cond_wait()` is in `waiting` (a sender) or
  `asleep` (the receiver) and can take its next step only after a broadcast,
  so that a missing wake-up is visible. `av_container_fifo_write()` may fail
  when `AllocMayFail`.
* `ThreadQueueProofs` - theorems about it.
* `SchedGraph` - the graph and, as operators, the decision of
  `schedule_update_locked()`: `trailing_dts`, `Behind`, `ToFeed`, the walks of
  `unchoke_for_stream()` / `unchoke_downstream()` as closures, and which queues
  `choke_demux()` freezes. What `sch_connect()` and `start_prepare()` enforce
  is the assumption `GraphAssumption`: tasks are of one kind, every output leads
  somewhere, every port has one source that feeds it once, and only the edges
  that `sch_connect()` accepts exist. That the graph has no cycle
  (`check_acyclic()`) is not assumed, and no theorem needs it.
* `Scheduler` - the running scheduler with all its threads. It uses the thread
  queues by their contract, one atomic step per call; that a call is atomic in
  this sense, and that no caller sleeps longer than it must, is what
  `ThreadQueueProofs` shows of the code.
* `SyncQueue` - `sync_queue.c`: `sq_send()` and `sq_receive()` with the finishing
  of streams, the heads and the overflow heartbeats, called the way
  `send_to_enc_sq()` and `sync_queue_process()` call them: what comes out is
  received after each send until nothing does.
* `MessageQueue` - what a message queue promises: a bounded fifo whose calls give
  back an error instead once one is set.
* `ThreadMessageQueue` - `threadmessage.c`. A call that waits is in a condition
  wait until a signal or broadcast *wakes that very caller*, so that a signal
  given to the wrong one is visible.
* `SliceJobs` - what an execution promises: each job once, none after the return,
  no two jobs at a time under one thread number.
* `SliceThread` - `slicethread.c`, one action per atomic operation or critical
  section, including those of a worker that is late for the execution before.
* `FrameOrder` - what frame threads promise the caller.
* `FrameThread` - `pthread_frame.c`, see below.
* `SyncQueueProofs`, `ThreadMessageQueueProofs`, `SliceThreadProofs`,
  `FrameThreadProofs` - theorems about them. `SchedulerProofs` (choking),
  `SchedulerTypeProofs` (types, lists of operations) and `SchedulerOrderProofs`
  (the way of the packets) - theorems about `Scheduler`, each on the one before.
* `MCThreadQueue`, `MCScheduler`, `MCSyncQueue`, `MCThreadMessageQueue`,
  `MCSliceThread`, `MCFrameThread` - instances for TLC; `MCScheduler` holds the
  transcoding graphs.

### How `Scheduler` corresponds to the code

`todo[t]` is what thread `t` has still to do before it is at the top of its
loop again: a sequence of operations such as `send` (one destination of one
packet), `finish` (EOF to one destination), `source_finished` (one critical
section of `schedule_lock`) or `waiting` (in `waiter_wait()`). One step of a
thread executes the first one, and a call that would block is a step that is
not enabled. Steps are split where another thread can come between: between
two destinations of a packet, between `tq_send()` and the update of the
schedule, between the check of `choked` and the wait, and *inside*
`schedule_update_locked()`, whose writes to the waiters and queues
(`ScheduleApply`) are separate steps because `sch_stop()` does not take
`schedule_lock`. The load of `terminate`, the loads of `choked` and the choice
of the sources are one step (`ScheduleUpdate`).

`Init` is the state in which `sch_start()` has started every thread and the
main thread is about to make the first update of the schedule. Muxers whose
streams are all copied have been started then, the others wait for their
encoders. The threads' loops are `DemuxRead`, `DecReceive`, `Filter*`,
`EncReceive` and `MuxReceive`; the end of a task is `CleanupOps`, the end of
the program `StopOps` and `TaskStop`. A timestamp is the number of the packet
in its stream; 0 is AV_NOPTS_VALUE, and as an item it is the EOF frame of a
decoder.

Abstractions: codecs turn one packet into one frame and back; the libavfilter
graph makes an output frame from one frame of each input that is not at EOF
(external operators `AtEOF`, `HasFrame`, `GraphEOF`, `GraphReady`), with
`Takes` saying how many frames a trim lets through; `sch_stop()` joins all
tasks in one step, since joining one after the other waits for the same set.

### How `SyncQueue` corresponds to the code

The callers hold a lock or are alone, so that their calls do not overlap. `Send`
is `sq_send()` of a frame with `stream_update_ts()`, `finish_stream()` and
`queue_head_update()` (`StreamUpdateTs`, `FinishStream`, `QueueHead`, functions
on the record `sq` of the fields that tell what may be output); `SendEOF` is
`sq_send(NULL)`. `SendRefused` is a source that is told that its stream is
finished and ends; that call changes nothing, so a source that sends EOF after
it (`send_to_enc_sq()`) is `SendEOF` alone. Then `pc` goes through the caller's
loop around `sq_receive(-1)`: `Receive` takes a frame out of the first stream
that has one to output (`Ready`) and hands it on, which may finish the stream;
`OverflowHeartbeat` starts `overflow_heartbeat()`, `Heartbeat` gives its
timestamp to one stream after the other, and `ReceiveNothing` is AVERROR(EAGAIN)
or AVERROR_EOF, with which the loop is over. A frame is where it starts, how
long it is and how many samples it has; `ReadSamples` is `receive_samples()`,
which joins frames and cuts the last one.

### How `FrameThread` corresponds to the code

`upc` and `pc[t]` say where the caller and worker `t` are. `state[t]` is
`p->state`, changed and tested under `progress_mutex`; the test that finds it
unsuitable and the `pthread_cond_wait()` are therefore one step, and `asleep`
holds those for which no broadcast came since (`progress_cond`, `output_cond`,
`input_cond`, `async_cond`). The caller's `ReceiveCall`, `GetPacket`, `Submit*`,
`WaitSync`, `WaitSleep`, `Collect`, `ReturnResult` and `AsyncLock` are
`ff_thread_receive_frame()`, `submit_packet()` and `wait_for_result` from top to
bottom; `ParkCall`, `Park`, `Flush`, `FreeDie`, `FreeJoin` are `ff_thread_flush()`
and `ff_frame_thread_free()`. The codec is external: it may switch an hwaccel on
or off while it parses (`CodecSetup`), refer to a frame of an earlier packet
(`ref`, `AwaitProgress`), make frames, or fail. An instance of an hwaccel is a
number; `live` holds those created and not freed, so that a lost, shared or
dangling one can be seen. Of a worker's result it matters which packet its
frames came from.

## Runs

| run (`.cfg`) | what it shows | distinct states |
|---|---|---|
| `tq_safety` (`ThreadQueue`) | a queue of two streams and capacity 2 refines `StreamChannels`; fifos agree, nobody sleeps in vain, EOF arrives, senders get out | 96,679 |
| `tq_enomem` (`ThreadQueueOOM`) | what remains true when allocation fails | 205,909 |
| `sched_copy` (`SchedulerCopy`) | two copied inputs beside a filtergraph without inputs: bounded lead, ends | 101,266 |
| `sched_mixed` (`SchedulerMixed`) | an input transcoded and copied, another copied, the decoder may fail: late start of the muxer, nothing lost or reordered | 223,282 |
| `sched_overlay` (`SchedulerOverlay`) | two decoded inputs into one filtergraph that closes the first of them after a frame: nothing lost, its demuxer is kept running, no state is stuck | 175,627 |
| `sched_fail` (`SchedulerFail`) | an encoder that fails or does not open, a muxer that fails at any time (also in `mux_thread_init()` and while its pre-muxing queues are flushed), a user who stops: the transcode is stopped and all threads return | 212,324 |
| `slice_thread` (`SliceThread`) | three workers, three executions of different sizes, with and without `main_func`: refines `SliceJobs`, nobody sleeps in vain, execute and free return | 88,202 |
| `thread_message_queue` (`ThreadMessageQueue`) | three senders, two receivers, errors, flushes and spurious wake-ups: refines `MessageQueue`, no wake-up is lost, calls that can complete do | 14,712 |
| `sync_queue` (`SyncQueue`) | video with a frame limit, audio cut to frames whose encoder may refuse, subtitles: nobody gets ahead, nothing is kept back, no stream that lags holds back one that overflows, streams finish in time, EOF comes | 136,266 |
| `frame_thread` (`FrameThread`) | two workers, three packets and the end of input, both kinds of hwaccel: refines `FrameOrder`, the hwaccel is neither shared nor lost, calls return | 766,572 |
| `sched_stop_hangs` (`SchedulerStopHangs`) | finding: a queue is frozen again after `sch_stop()` unfroze it | violated |
| `sched_chain` (`SchedulerChain`) | finding: a filtergraph does not hear of the end of another one that feeds it | violated |

`tq_safety` has no failing allocations; what these break can be seen in `tq_enomem`
only. `sched_copy` has neither decoder queues nor filter inputs, `sched_fail` no
second demuxer: freezing is checked in `sched_mixed` and `sched_overlay`. The assertions of `FrameThread` are stated for workers and caller.

### Bounds

`ThreadQueue`: two streams are needed for mislabelling and for one stream's EOF
to overtake another's items; capacity 2 lets the fifo be neither full nor empty.

`Scheduler`: queues hold one item and SCHEDULE_TOLERANCE is one packet, so that
every queue is full, and every stream too far ahead, after one packet; one to
three packets per input are enough to have an item in each stage behind the one
that blocks, and a stream that has ended beside one that has not. Where two
inputs compete their lengths differ, except in `sched_overlay`, whose graph is
too large for that and for liveness: it checks as an invariant that a state in
which no thread can go on is the end or the known refreeze
(`StuckOnlyIfRefrozen`). `sched_fail` has one demuxer, which is never choked before
`sch_stop()`, so that no queue is frozen there; the refreeze after `sch_stop()` is reached in
`sched_overlay` and in `sched_stop_hangs`.
`sched_fail` needs two packets: one that the failing
muxer takes or that its flush finds the stream closed for, and one that it
drops. There is no symmetry: tasks differ by their place in the graph. Each
graph has what one feature needs, since the states of a graph with all of them
cannot be enumerated. `LeadIsBounded` is checked on copied inputs that compete
with a filtergraph; the theorem `LeadBounded` is about every graph and holds with
failures too.

`SliceThread`: three workers allow one that is late from the execution before,
one that is last and one that runs a job; the executions have fewer jobs than
threads and more. `ThreadMessageQueue`: two places, three senders and two
receivers, so that a signal can be overtaken by a call that never slept, and a
flush makes room for more senders than one. `SyncQueue`: three streams, of which two limit (video
with a limit of frames, and audio that is cut to frames) and one (subtitles) does
not; at most three frames of a stream (`MaxSent`), of different lengths and in any
order of timestamps, so that each can be the head, the tail and the one that
finishes. Audio cut to frames has timestamps and samples, as its encoder needs. `FrameThread`: two workers
are a ring in which one is set up from the other; three packets and the end of
input make each worker run again after having passed the hwaccel on, with
flushes in between; `HwContexts` has more names than can be live at a time.

### Fairness

* `ThreadQueue`: awake threads run (weak fairness of each caller), the receiver
  keeps receiving, and the scheduler in the end leaves the queue unchoked,
  which is `FrozenOnlyIfChoked` and `TranscodeEnds` of the scheduler.
* `Scheduler`: if some thread can take a step, some thread does. It is all that
  may be asked of an operating system, and it suffices because every input is
  finite, so every behaviour is; `TranscodeEnds` says that no reachable state is
  stuck before the end. The user's stop has no fairness. `CHECK_DEADLOCK FALSE`
  is in every configuration of `Scheduler`, as the program ends; where it may end
  is what `TranscodeEnds` and `StuckOnlyIfRefrozen` check.
* `SliceThread`: the caller inside execute or free, and each worker that can run,
  does. `ThreadMessageQueue`: a caller that was woken runs; nobody has to call
  again. `SyncQueue`: the loop around `sq_receive()` goes on; nobody has to send.
* `FrameThread`: the caller goes on while it is inside the library, each worker
  that can run does, and the codec comes to an end. Nobody has to call again
  and no wake-up is spurious by force: a worker waiting for `async_cond` is only
  let go by the next call, and `CallsReturn` holds nevertheless.

## What the findings show

1. `sch_stop()` does not take `schedule_lock`. An update of the schedule that
   has tested `terminate` before goes on to set waiters and queues after
   `sch_stop()` has. It may freeze a decoder's queue again that `sch_stop()`
   unfroze "to allow draining"; nobody unfreezes it later, and if the demuxer is
   waiting for room in that queue the program hangs in `pthread_join()`
   (`sched_stop_hangs`). `sched_overlay` reaches the same hang when all its
   muxers have ended, without a user who stops, and shows that in its graph there
   is no other: `StuckOnlyIfRefrozen` excuses nothing else.
2. `sch_filter_receive()` disregards the EOF of one input, since "they should
   always be preceded by an EOF frame". Only decoders send that frame. A
   filtergraph whose input comes from another filtergraph goes on waiting for
   it; the source that the scheduler keeps running for its sake has exited, and
   the source of its other input stays choked: the transcode hangs
   (`sched_chain`). With a single input it ends, because EOF of all inputs
   is not disregarded.

Met while modelling and not stated by a run:

* `tq_send()` writes the stream index and then the item. If the second write
  fails for lack of memory, the index stays and every later item is delivered
  under the index before its own. In the scheduler the failing task makes the
  transcode end, but items of the same queue may be handed to the wrong stream
  before it does. `tq_enomem` shows what remains true.
* `sq_limit_frames()` counts an audio stream by samples received divided by the
  frame size (`sync_queue.c:379`). With one stream limited to two frames of two
  samples, of which the source sends two of three samples, three frames come out.
* `sync_queue.h` says of `sq_alloc()` that the queue buffers at most the given
  duration. Only the stream that is most ahead is looked at, and the heartbeat
  needs a head, which a queue whose limiting stream ended without a timestamp
  never gets; heartbeats do not count in frames of a fixed size either.
* `av_thread_message_flush()` is documented to flush the queue; without a
  `free_func` (`threadmessage.c:230`) it leaves all messages.
* When no frame can be allocated before `ff_thread_finish_setup()` was called
  (`pthread_frame.c:287`), the worker's hwaccel that is not thread-safe, which
  it had taken from the stash, is lost, although the comment at 306-308 says that
  nothing can be: `HwAccelExclusive` holds but for this (`nomem`).
* A decoder whose `get_format()` goes from an hwaccel that is not thread-safe to
  one that is: the worker still has `hwaccel_serializing` set and wipes the new
  one (309-311) while `hwaccel_threadsafe` stays 1, and the next
  `submit_packet()` reads a null hwaccel (433). The model has one kind of
  hwaccel per behaviour and does not contain this.

## Proofs

`ThreadQueueProofs` proves, for every number of streams and items and every
capacity, the properties that the `ThreadQueue` runs check on an instance.

* `TypeCorrect`, `ReadAssertHolds`, `ReceiverWakes` hold with failing
  allocations too. The invariant of `ReadAssertHolds` is that the fifo of
  indices is never shorter than that of items; it is inductive only together
  with type correctness.
* `FifosStayAligned`, `SenderWakes`, `ItemsStayInFlight`, `DeliveryIsCorrect`
  and the refinement `ImplementsChannels` assume `~AllocMayFail`. Alignment
  (the n-th index is the stream of the n-th item) carries the rest: it turns a
  step on two fifos into a step on the channel of one stream. `SenderWakes` is
  false with failing allocations: orphan indices fill the index fifo, whose
  room a sender waits for, while there is no item whose removal would make room.

`SliceThreadProofs`, for every number of workers and jobs: the invariant
(`InvHolds`), that nobody oversleeps (`Wakes`) and that an execution keeps
`SliceJobs` (`ImplementsSliceJobs`). The invariant says which job numbers are
still to be fetched and by how many threads: `current_job` passes `nb_jobs` as
often as there are active threads, so the last value belongs to one thread only,
and no thread of the execution before can still fetch when it is reset.

`ThreadMessageQueueProofs`, for every number of callers and every capacity: types,
no lost wake-up (`Wakes`) and the refinement `ImplementsMessageQueue`. `Wakes`
is inductive by itself since it counts: as long as one sleeps, as many of its
side are awake as there are messages, or places, for them.

`SyncQueueProofs`, for every set of streams: `NobodyGetsAhead`,
`AllFinishInTime`, `AllIsOutput`, `NobodyLags`. The inductive invariant says that `head_stream`
is the limiting stream that has come least far, `head_finished_stream` the one
among those that are finished, and that all streams not finished are behind the
latter, although the code adjusts each only for the stream at hand. That such
streams exist rests on a lemma on least elements of sets of numbers.

`NobodyLags` (`NoLaggardAtOverflow`) rests on `BeatInv`: the heartbeats are sent
for the stream that is most ahead, and a stream that ties with it afterwards has
just got its heartbeat, so that its tail, too, is before that timestamp, which no
unfinished stream is behind any more. The call is not repeated for that stream,
and need not be.

`TypesHold` and `AudioIsCut` (`SamplesAsAsked`) are about the samples.
`samples_queued` is kept beside the fifo and has to be the sum of its frames;
taking samples out removes whole frames and cuts the one after them, and
`RestTakesSamples` shows that the sums agree, from the recursion of `SamplesIn`
and an induction on the number of frames. That a short frame is the last one of
its stream takes one more invariant: no frame of cut audio in the fifo is empty,
and a stream that output a short frame is finished and has no samples left.

`FrameThreadProofs`, for every number of threads and packets: the assertions of
`pthread_frame.c` and no lost wake-up (`InvHolds`), and `HwAccelIsExclusive`.
The invariant rests on two facts about the caller: the ring of workers that have
a packet is never full, so the next worker is free when a packet is submitted;
and only `prev_thread` can be setting up, since `submit_packet()` waits for it.
So while one worker sets up, no other has an instance of an hwaccel that is not
thread-safe: it went on to that worker through the stash. A worker has such an
instance only while it waits to begin or holds `hwaccel_mutex`, and between
`ff_thread_finish_setup()` and the release of the mutex the same instance is
also in the stash or in the slot of the worker after it; this is why wiping the
slot loses nothing. A thread-safe hwaccel never enters the stash: each worker
has an instance of its own. The proof covers the code as it is when allocations
fail (`nomem`), where an instance may be lost.

`ImplementsFrameOrder` is the refinement: the jobs of `FrameOrder` are the results
the caller holds, then those of the workers from `next_finished` on round the
ring. Most steps of a worker change one entry of this sequence or none; a packet
submitted is appended at its end, which is the worker after the last busy one,
and a result collected moves from the first worker to the end of the caller's
part, so that the sequence stays as it is. `ResultsInv` says that a worker's
results are there once it has decoded, belong to its packet and are gone when
they have been collected, and that the packets of the input go to the workers
one after the other.

`SchedulerProofs`, for every graph that `GraphAssumption` allows: a queue is
frozen only behind a choked demuxer (`FrozenBehindChoked`). While an update is
being written out the two differ, so the invariant is about the writes still to
be made: a demuxer's waiter and its queues get the same value, the waiter first,
and once it has been written the demuxer is choked if its queues are to be.
`sch_stop()` interferes without the lock, but only by choking demuxers and
thawing queues, which keeps this true. That a queue is frozen by one demuxer
only follows from each port having one source.

`ClosedInputsFed` (`ClosedInputsAreFed`), in the same module: a demuxer whose
decoder has to learn that a filter input was closed runs, or the pending writes
of the schedule let it run (`FedInv`), until `terminate` is set. Each update of
the schedule includes the source of every such input, and `sch_stop()` is the
only other one that chokes; this uses that `todo[Main]` is the list of
`sch_stop()` or the first update and nothing else (`StopInv`). An input is closed with the lock held and in the same step that
makes the new decision.

`SchedulerTypeProofs` proves `TypesHold` (`TypeOK`). That no `ThreadQueue` holds
more than its size and that `nb_streams_ready` does not pass the number of
streams cannot be seen from the variables alone: `mux_init()` is reached through
operations on the threads' lists. `ListInv` says what these lists may hold: no
two operations that would make the same stream ready or open the same encoder
(`Apart`), "ready" only for an encoder that is open and in the list of the thread
that opened it, "open" only for one that is not (`OpenOK`). So each stream is
counted once, whichever threads open encoders at a time. The lists are built by
folds over the graph; `At` says where each of their elements comes from, and is
proved by induction on the length.

`SchedulerOrderProofs` proves `StreamsInOrder` (`TakenInOrder`): every decoder,
encoder and muxer takes the items of a stream one after the other, although an
encoder's thread may append to the pre-muxing queue, another thread may drain it
in `mux_task_start()`, and the first may then send directly. `LineInv` says of
each port k of a muxer, an encoder or a decoder that there is a number Q not below
`taken[k]`: the fifo holds exactly the items `taken[k]` + 1 .. Q of the stream, in
order (`Line`); the pre-muxing queue goes on at Q + 1 (`Held`); the source has at
most one item for the port in its list, and it is the next one (`Fed`). A port that
the reader closed, or whose reader is ending, is excused; one to which the source
sent EOF gets nothing any more. Q is not a variable, so the invariant says that it
exists: each step shows how it moves. Beside it, `Marks`: the end mark of a stream
is last in its pre-muxing queue, and a started muxer has none, which is why a
direct send overtakes nothing. Filter inputs are left out: filtergraphs take an
item of each input at a time, and what they make is numbered anew.

`LeadBounded` (`LeadIsBounded`), in the same module, is the promise of
SCHEDULE_TOLERANCE: until `sch_stop()`, a stream that is all that its demuxer is
copied to is at most that far ahead of any unfinished stream of any muxer. The
promise is kept by three parties, and the proof has a part for each.

* The decision. `Decision` shows that `schedule_update_locked()` lets such a
  demuxer run if and only if no unfinished stream trails it by the tolerance
  (`Roomy`): `trailing_dts()` is the least timestamp, or none while one stream has
  none, and no chain of `unchoke_for_stream()` leads to a demuxer that feeds
  muxers only.
* The demuxer. `Shape` says what its list may hold: one packet at a time, the next
  one after that whose timestamp the muxer's stream has; `Sends` is the time
  between its `waiter_wait()` and its `SetLastDts`. A step of another thread
  changes neither (`ShapeOther`), and its own `SetLastDts` adds one (`ShapeOwn`).
* The writes. `Lead` says that the stream is `Roomy` while its demuxer runs or
  sends, where a demuxer with a pending write counts as written (`Runs`); and that
  it runs with a write to choke it pending only while it is itself the thread that
  updates the schedule. So it cannot pass `waiter_wait()` in between.

That the others never move back takes `DtsInv`: the operations that carry a
timestamp for a stream carry the last one that was made for it, so `last_dts` only
grows. This is where the order of the items (`LineInv`) is needed.

Model-checked only:

* liveness (`CallsReturn`, the progress properties), and `StuckOnlyIfRefrozen`,
  which is about ENABLED: out of the prover's reach;
* `NothingLost`, which is about runs of the checked graphs and not a theorem for
  every graph: a trim or a limit behind a demuxer ends it before the end of its
  file, and a filtergraph that feeds another may lose its last frames
  (`sched_chain`). What was made for a port is counted along the paths of the
  graph, through decoders and encoders, by a recursion over data that has no
  ground under a graph with cycles, which `GraphAssumption` does not exclude
  (`check_acyclic()` is not modelled). That order is kept at every port, with
  nothing missing in between, is `StreamsInOrder`.

## Not modelled

* Scheduler: sync queues of encoders and muxers inside a graph, subtitle
  heartbeats, `-stream_loop` (`demux_flush`), SDP (which delays all muxers until
  the last one is ready), filter commands and reconfiguration of a filtergraph,
  the limit of the pre-muxing queues, packets without timestamps,
  `DEMUX_SEND_STREAMCOPY_EOF`, failure to start threads other than a muxer's
  initialisation, loopback decoders in the checked graphs, filtergraphs that mix
  sources and inputs. The decoder of a multiview video may have an output for each
  view: it leaves when the consumers of one of them are done and sends its EOF
  frame to the first only. `GraphAssumption` asks for one output per decoder.
* Sync queue: different time bases, what has a duration and no timestamp (audio
  frames that are not cut, packets): `frame_end()` adds the duration to
  AV_NOPTS_VALUE, and the sum is taken for a timestamp; failing allocations, `sq_limit_frames(0)`, `sq_receive()` for one stream (no
  caller), a muxer that fails to write what came out.
* Frame threads: `ff_frame_thread_init()` that fails half-way, the buffer
  functions and `threadprogress.c` (the protocol of
  `ff_thread_await_progress()`, per frame), codecs without
  `update_thread_context` (they finish the set-up before decoding and have no
  hwaccel to pass), progress in the middle of a frame, an async-safe hwaccel in
  the checked instance, a change of the kind of hwaccel.
* The frame-threaded encoder, the task executor, buffer pools and threaded I/O:
  planned. Codecs, formats, filters, scaling, option parsing and packaging are
  data processing or configuration and stay outside; they are nearly all of the
  repository by size, so that the share of its lines modelled here is small.

## Plan

1. The part of `NothingLost` that holds of every graph: at the end of a transcode
   in which nothing failed, an encoder and a muxer have taken all that was made
   for them.
2. `DemuxFlush` (`queue_end_ts` handshake with `dec_done()`), heartbeats as a
   graph of `Scheduler`, `PreMuxQueue` (the limit and `data_size`), and
   `check_acyclic` against the definition of a cycle.
3. The frame-threaded encoder, buffer pools, the fifo muxer on top of
   `ThreadMessageQueue`, and `executor.c`.
