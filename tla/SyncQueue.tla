----------------------------- MODULE SyncQueue -----------------------------
(* fftools/sync_queue.c with the loop of its callers, send_to_enc_sq() and *)
(* sync_queue_process(): frames of several streams are kept back until     *)
(* every limiting stream has come as far (-shortest, -frames), audio is    *)
(* cut into frames of the size that an encoder wants, and a stream that    *)
(* lags too far is passed over.  The callers hold a lock, or are alone.    *)
(*                                                                         *)
(* All streams have one time base, whose unit is the duration of a sample. *)
EXTENDS Integers, Sequences, FiniteSetsExt

CONSTANTS
    nb_streams,
    limiting,       \* the streams with SyncQueueStream.limiting
    frames_max,     \* frames_max[i]: of sq_limit_frames(), or NoLimit
    frame_samples,  \* frame_samples[i]: of sq_frame_samples(), or 0
    buf_size,       \* SyncQueue.buf_size_us
    Frames,         \* Frames[i]: what the source of stream i may send
    MayRefuse,      \* streams whose encoder may end early
    MaxSent         \* bound: MaxSent[i]: frames that the source of i sends at most

Streams == 0 .. nb_streams - 1
NOPTS == -1         \* AV_NOPTS_VALUE, the least timestamp
NoLimit == -1

(* A frame of video, or a packet, has no samples.  An audio frame lasts as *)
(* long as its samples.  What has no timestamp has no duration here: with  *)
(* one, frame_end() adds it to AV_NOPTS_VALUE.                             *)
Frame == [pts : Nat \cup {NOPTS}, dur : Nat, nb : Nat]

ASSUME SyncQueueAssumption ==
    /\ nb_streams \in Nat \ {0}
    /\ limiting \subseteq Streams
    /\ frames_max \in [Streams -> (Nat \ {0}) \cup {NoLimit}]
    /\ frame_samples \in [Streams -> Nat]
    /\ buf_size \in Nat
    /\ MayRefuse \subseteq Streams
    /\ MaxSent \in [Streams -> Nat]
    /\ \A i \in Streams : \A fr \in Frames[i] :
         /\ fr \in Frame
         /\ fr.pts = NOPTS => fr.dur = 0
         /\ frame_samples[i] # 0 => fr.nb # 0 /\ fr.pts # NOPTS
         /\ fr.nb # 0 => fr.dur = fr.nb

VARIABLES
    fifo,           \* fifo[i]: frames of stream i, the tail of the stream first
    samples_queued, samples_sent, frames_sent,
    sq,             \* the fields that tell what may be output, see Heads
    pc,             \* "idle": sq_send() may be called; "receive": in the loop
                    \* of calls of sq_receive(-1); "beat": in the loop of
                    \* overflow_heartbeat(); "again": in its second
                    \* receive_internal()
    beat,           \* overflow_heartbeat(): tail_ts and the stream it is of
    ended,          \* streams whose source sends no more
    in_finished,    \* streams whose encoder takes no more (SchEnc.in_finished)
    closed,         \* has sq_receive() returned AVERROR_EOF?
    nb_sent,        \* nb_sent[i]: frames that the source of i has sent
    nb_out,         \* history: frames output of stream i, and the last one
    last_out

fifoVars == <<fifo, samples_queued, samples_sent, frames_sent>>
outVars == <<nb_out, last_out>>
vars == <<fifoVars, sq, pc, beat, ended, in_finished, closed, nb_sent, outVars>>

Heads == [head_ts : [Streams -> Nat \cup {NOPTS}],
          finished : SUBSET Streams,
          head_stream : Streams \cup {-1},
          head_finished_stream : Streams \cup {-1},
          eof : BOOLEAN]                    \* SyncQueue.finished

NoFrame == [pts |-> NOPTS, dur |-> 0, nb |-> 0]
NoBeat == [stream |-> 0, ts |-> 0]

Init ==
    /\ fifo = [i \in Streams |-> <<>>]
    /\ samples_queued = [i \in Streams |-> 0]
    /\ samples_sent = [i \in Streams |-> 0]
    /\ frames_sent = [i \in Streams |-> 0]
    /\ sq = [head_ts |-> [i \in Streams |-> NOPTS], finished |-> {}, head_stream |-> -1,
             head_finished_stream |-> -1, eof |-> FALSE]
    /\ pc = "idle" /\ beat = NoBeat
    /\ ended = {} /\ in_finished = {} /\ closed = FALSE
    /\ nb_sent = [i \in Streams |-> 0]
    /\ nb_out = [i \in Streams |-> 0]
    /\ last_out = [i \in Streams |-> NoFrame]

-----------------------------------------------------------------------------
(* The heads of the streams: what a new timestamp or an end changes.       *)

(* frame_end()                                                             *)
FrameEnd(fr, nb_samples) == fr.pts + (IF nb_samples # 0 THEN nb_samples ELSE fr.dur)

Stamped(q) == {j \in Streams : q.head_ts[j] # NOPTS}

(* A slip: the first stream to end stays the one that counts.              *)
FinishedHeadFirst(q, i) == IF q.head_finished_stream < 0 THEN i ELSE q.head_finished_stream

FinishedHead(q, i) ==
    IF q.head_finished_stream < 0 \/ q.head_ts[i] < q.head_ts[q.head_finished_stream]
      THEN i ELSE q.head_finished_stream

(* Streams that are to get no more frames: not behind finished stream h.   *)
NotBehind(q, h) == {j \in Stamped(q) : q.head_ts[h] <= q.head_ts[j]}

(* finish_stream()                                                         *)
FinishStream(q, i) ==
    LET counts == i \in limiting \cap Stamped(q)
        h      == IF counts THEN FinishedHead(q, i) ELSE q.head_finished_stream
        fin    == q.finished \cup {i} \cup (IF counts THEN NotBehind(q, h) ELSE {})
    IN  [head_ts |-> q.head_ts, finished |-> fin, head_stream |-> q.head_stream,
         head_finished_stream |-> h, eof |-> q.eof \/ fin = Streams]

Lowest(q) == {j \in limiting \cap Stamped(q) :
                \A k \in limiting \cap Stamped(q) : q.head_ts[j] <= q.head_ts[k]}

(* A slip: the head is known as soon as one limiting stream is.            *)
QueueHeadEarly(q) ==
    IF q.head_stream \in Lowest(q) THEN q.head_stream ELSE Min(Lowest(q))

(* queue_head_update(): the new head_stream.                               *)
QueueHead(q) ==
    IF q.head_stream < 0 /\ ~(limiting \subseteq Stamped(q)) THEN -1
    ELSE IF q.head_stream \in Lowest(q) THEN q.head_stream ELSE Min(Lowest(q))

(* stream_update_ts()                                                      *)
StreamUpdateTs(q, i, ts) ==
    IF ts <= q.head_ts[i] THEN q
    ELSE LET q1 == [head_ts |-> [q.head_ts EXCEPT ![i] = ts], finished |-> q.finished,
                    head_stream |-> q.head_stream,
                    head_finished_stream |-> q.head_finished_stream, eof |-> q.eof]
             q2 == IF q.head_finished_stream >= 0 /\ q.head_ts[q.head_finished_stream] <= ts
                     THEN FinishStream(q1, i) ELSE q1
         IN  [head_ts |-> q2.head_ts, finished |-> q2.finished,
              head_stream |-> IF i \in limiting /\ q2.head_stream \in {-1, i}
                                THEN QueueHead(q2) ELSE q2.head_stream,
              head_finished_stream |-> q2.head_finished_stream, eof |-> q2.eof]

-----------------------------------------------------------------------------
(* sq_send()                                                               *)

FramesSent(i, fr) ==
    IF frame_samples[i] # 0 THEN (samples_sent[i] + fr.nb) \div frame_samples[i]
    ELSE frames_sent[i] + 1

(* Nothing orders the timestamps of a stream: packets come in the order of *)
(* decoding.                                                               *)
Send(i, fr) ==
    /\ pc = "idle" /\ i \notin ended
    /\ nb_sent[i] < MaxSent[i]
    /\ i \notin sq.finished
    /\ fifo' = [fifo EXCEPT ![i] = Append(@, fr)]
    /\ samples_queued' = [samples_queued EXCEPT ![i] = @ + fr.nb]
    /\ samples_sent' = [samples_sent EXCEPT ![i] = @ + fr.nb]
    /\ frames_sent' = [frames_sent EXCEPT ![i] = FramesSent(i, fr)]
    /\ sq' = LET q == StreamUpdateTs(sq, i, FrameEnd(fr, 0))
             IN  IF frames_max[i] # NoLimit /\ frames_sent'[i] >= frames_max[i]
                   THEN FinishStream(q, i) ELSE q
    /\ pc' = "receive"
    /\ nb_sent' = [nb_sent EXCEPT ![i] = @ + 1]
    /\ UNCHANGED <<beat, ended, in_finished, closed, outVars>>

(* A stream that is finished takes no frame: its source learns of it and   *)
(* ends, as muxer_thread() does.  The source of an encoder sends EOF then  *)
(* (send_to_enc_sq()): the refused call has changed nothing, so that is    *)
(* SendEOF alone.                                                          *)
SendRefused(i) ==
    /\ pc = "idle" /\ i \notin ended
    /\ i \in sq.finished
    /\ ended' = ended \cup {i}
    /\ UNCHANGED <<fifoVars, sq, pc, beat, in_finished, closed, nb_sent, outVars>>

SendEOF(i) ==
    /\ pc = "idle" /\ i \notin ended
    /\ ended' = ended \cup {i}
    /\ sq' = FinishStream(sq, i)
    /\ pc' = "receive"
    /\ UNCHANGED <<fifoVars, beat, in_finished, closed, nb_sent, outVars>>

-----------------------------------------------------------------------------
(* sq_receive(-1)                                                          *)

(* receive_for_stream(): is a frame of the wanted size there, how large is *)
(* it, and does it end after the head of the queue?                        *)
HasOutputAny(i) == fifo[i] # <<>>   \* a slip: also when samples are missing
HasOutput(i) ==
    fifo[i] # <<>> /\ (frame_samples[i] <= samples_queued[i] \/ i \in sq.finished)

(* A stream with output has fewer samples only when it is finished.        *)
NbSamples(i) ==
    IF frame_samples[i] # 0 /\ samples_queued[i] < frame_samples[i]
      THEN samples_queued[i] ELSE frame_samples[i]
OutputEnd(i) == FrameEnd(Head(fifo[i]), NbSamples(i))

MayOutputBefore(i) ==               \* a slip: < for <=
    \/ OutputEnd(i) = NOPTS
    \/ limiting = {}
    \/ sq.head_stream >= 0 /\ OutputEnd(i) < sq.head_ts[sq.head_stream]

MayOutput(i) ==
    \/ OutputEnd(i) = NOPTS
    \/ limiting = {}
    \/ sq.head_stream >= 0 /\ OutputEnd(i) <= sq.head_ts[sq.head_stream]

Ready == {i \in Streams : HasOutput(i) /\ MayOutput(i)}

(* A slip: what is too long is waited for.                                 *)
StreamAtEOFDrained(i) == i \in sq.finished /\ fifo[i] = <<>>

StreamAtEOF(i) == sq.eof \/ (i \in sq.finished /\ fifo[i] = <<>>)

(* receive_samples(): the first k frames go, and n samples of the next.    *)
SamplesIn(f) ==
    LET S[k \in 0 .. Len(f)] == IF k = 0 THEN 0 ELSE S[k - 1] + f[k].nb IN S
Offset(fr, n) == [pts |-> fr.pts + n, dur |-> fr.nb - n, nb |-> fr.nb - n]
RestWhole(f, k, n) ==               \* a slip: the samples that are left are lost
    SubSeq(f, k + (IF n = 0 THEN 1 ELSE 2), Len(f))
Rest(f, k, n) ==
    IF n = 0 THEN SubSeq(f, k + 1, Len(f))
    ELSE <<Offset(f[k + 1], n)>> \o SubSeq(f, k + 2, Len(f))

ReadFrame(i) ==
    /\ frame_samples[i] = 0
    /\ fifo' = [fifo EXCEPT ![i] = Tail(@)]
    /\ samples_queued' = [samples_queued EXCEPT ![i] = @ - Head(fifo[i]).nb]
    /\ last_out' = [last_out EXCEPT ![i] = Head(fifo[i])]

ReadSamples(i) ==
    /\ frame_samples[i] # 0
    /\ \E k \in 0 .. Len(fifo[i]), n \in 0 .. NbSamples(i) :
         /\ SamplesIn(fifo[i])[k] + n = NbSamples(i)
         /\ n # 0 => k < Len(fifo[i]) /\ n < fifo[i][k + 1].nb
         /\ fifo' = [fifo EXCEPT ![i] = Rest(@, k, n)]
    /\ samples_queued' = [samples_queued EXCEPT ![i] = @ - NbSamples(i)]
    /\ last_out' = [last_out EXCEPT ![i] = [pts |-> Head(fifo[i]).pts, dur |-> NbSamples(i),
                                            nb |-> NbSamples(i)]]

(* receive_internal() finds a frame, and the caller hands it on.  When the *)
(* encoder takes no more its stream is finished.                           *)
Receive ==
    /\ pc \in {"receive", "again"}
    /\ Ready # {}
    /\ LET i == Min(Ready)
       IN  /\ ReadFrame(i) \/ ReadSamples(i)
           /\ nb_out' = [nb_out EXCEPT ![i] = @ + 1]
           /\ \/ i \notin in_finished /\ UNCHANGED <<sq, in_finished>>
              \/ /\ i \in MayRefuse \cup in_finished
                 /\ in_finished' = in_finished \cup {i}
                 /\ sq' = FinishStream(sq, i)
    /\ pc' = "receive"
    /\ UNCHANGED <<samples_sent, frames_sent, beat, ended, closed, nb_sent>>

(* overflow_heartbeat(): the stream that is most ahead, its tail, and      *)
(* whether that is too far behind its head.                                *)
MostAhead(i) ==
    /\ i \in Stamped(sq)
    /\ \A j \in Stamped(sq) :
         sq.head_ts[j] < sq.head_ts[i] \/ (sq.head_ts[j] = sq.head_ts[i] /\ i <= j)
StampedFrames(i) == {k \in DOMAIN fifo[i] : FrameEnd(fifo[i][k], 0) # NOPTS}
TailTs(i) == FrameEnd(fifo[i][Min(StampedFrames(i))], 0)

Overflows(i) ==
    /\ MostAhead(i)
    /\ StampedFrames(i) # {}
    /\ TailTs(i) < sq.head_ts[i]
    /\ sq.head_ts[i] - TailTs(i) >= buf_size

(* Nothing to output, but the queue overflows: a heartbeat starts.         *)
OverflowHeartbeat ==
    /\ pc = "receive" /\ Ready = {}
    /\ \E i \in Streams : ~StreamAtEOF(i)
    /\ \E i \in Streams : Overflows(i) /\ beat' = [stream |-> i, ts |-> TailTs(i) + 1]
    /\ pc' = "beat"
    /\ UNCHANGED <<fifoVars, sq, ended, in_finished, closed, nb_sent, outVars>>

(* A slip: a stream without any timestamp is passed over.                  *)
LaggingStamped == {i \in Stamped(sq) \ (sq.finished \cup {beat.stream}) : sq.head_ts[i] < beat.ts}

(* The streams that hold the tail back get its timestamp, one by one.      *)
Lagging == {i \in Streams \ (sq.finished \cup {beat.stream}) : sq.head_ts[i] < beat.ts}

Heartbeat ==
    /\ pc = "beat"
    /\ IF Lagging = {}
         THEN pc' = "again" /\ beat' = NoBeat /\ UNCHANGED sq
         ELSE sq' = StreamUpdateTs(sq, Min(Lagging), beat.ts) /\ UNCHANGED <<pc, beat>>
    /\ UNCHANGED <<fifoVars, ended, in_finished, closed, nb_sent, outVars>>

(* Nothing to output: AVERROR(EAGAIN), or AVERROR_EOF, on which the caller *)
(* closes every encoder, or ends the muxing.                               *)
ReceiveNothing ==
    /\ pc \in {"receive", "again"}
    /\ Ready = {}
    /\ LET eof == \A i \in Streams : StreamAtEOF(i)
       IN  /\ eof \/ pc = "again" \/ ~\E i \in Streams : Overflows(i)
           /\ closed' = (closed \/ eof)
    /\ pc' = "idle"
    /\ UNCHANGED <<fifoVars, sq, beat, ended, in_finished, nb_sent, outVars>>

-----------------------------------------------------------------------------
SendStep == \E i \in Streams : (\E fr \in Frames[i] : Send(i, fr)) \/ SendRefused(i) \/ SendEOF(i)
ReceiveStep == Receive \/ OverflowHeartbeat \/ Heartbeat \/ ReceiveNothing

Next == SendStep \/ ReceiveStep

Spec == Init /\ [][Next]_vars

(* The callers' loop goes on; nothing makes a source send.                 *)
FairSpec == Spec /\ WF_vars(ReceiveStep)

-----------------------------------------------------------------------------
(* Properties.                                                             *)

TypeOK ==
    /\ fifo \in [Streams -> Seq(Frame)]
    /\ \A i \in Streams : samples_queued[i] = SamplesIn(fifo[i])[Len(fifo[i])]
    /\ samples_sent \in [Streams -> Nat] /\ frames_sent \in [Streams -> Nat]
    /\ sq \in Heads
    /\ pc \in {"idle", "receive", "beat", "again"}
    /\ beat \in [stream : Streams, ts : Nat]
    /\ ended \subseteq Streams /\ in_finished \subseteq Streams /\ closed \in BOOLEAN
    /\ nb_sent \in [Streams -> Nat]
    /\ nb_out \in [Streams -> Nat] /\ last_out \in [Streams -> Frame]

(* "Then the queue ensures no stream gets ahead of any of the limiting     *)
(* streams" (sync_queue.h), although only the head of one of them is       *)
(* looked at and that one is kept up to date step by step.                 *)
NoStreamGetsAhead ==
    \A i \in Streams, j \in limiting :
        FrameEnd(last_out[i], 0) # NOPTS => FrameEnd(last_out[i], 0) <= sq.head_ts[j]

(* When a limiting stream has ended, every stream that has come as far is  *)
(* finished too, whichever of several ended first, last, or by a limit     *)
(* (finish_stream(), stream_update_ts()): its source would be encoded in   *)
(* vain.                                                                   *)
FinishedInTime ==
    \A j \in limiting \cap sq.finished : \A i \in Streams \ sq.finished :
        {i, j} \subseteq Stamped(sq) => sq.head_ts[i] < sq.head_ts[j]

(* When the callers' loop is over nothing is kept that could be output:    *)
(* some limiting stream has not come as far as the frame, or more samples  *)
(* are wanted.  At the end, what is kept is what is too long.              *)
NothingKeptBack ==
    pc = "idle" => \A i \in Streams :
        HasOutput(i) =>
            /\ OutputEnd(i) # NOPTS
            /\ \E j \in limiting : sq.head_ts[j] < OutputEnd(i)

(* overflow_heartbeat(): "signal a fake timestamp for all streams that      *)
(* prevent tail_ts from being output".  When the callers' loop is over, a   *)
(* stream that still overflows is not held back by any that lags behind    *)
(* its tail, unless that one is finished and gets no more timestamps.      *)
NoLaggardAtOverflow ==
    pc = "idle" => \A i \in Streams :
        Overflows(i) => \A j \in Streams \ (sq.finished \cup {i}) : TailTs(i) < sq.head_ts[j]

(* "All output frames will have exactly frame_samples audio samples,       *)
(* except possibly for the last one, which may have fewer" (sync_queue.h). *)
SamplesAsAsked ==
    [][\A i \in Streams :
         (nb_out'[i] # nb_out[i] /\ frame_samples[i] # 0)
            => /\ nb_out[i] # 0 => last_out[i].nb = frame_samples[i]
               /\ last_out'[i].nb \in 1 .. frame_samples[i]]_outVars

(* The encoders are closed once all sources have ended, whether they ended *)
(* by themselves or were told to, and whatever is left in the fifos.       *)
EofReturned == ended = Streams ~> closed
=============================================================================
