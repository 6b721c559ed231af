-------------------------- MODULE SyncQueueProofs --------------------------
(* Proofs about SyncQueue, for any number of streams and any frames.  The  *)
(* inductive invariant says that head_stream and head_finished_stream are  *)
(* what their names say at any time, although each is only adjusted for    *)
(* the stream at hand.  Then the samples: samples_queued counts those of   *)
(* the fifo, and audio comes out cut as it was asked for.  Last, what      *)
(* holds while heartbeats are sent.                                        *)
EXTENDS SyncQueue, WellFoundedInduction, TLAPS

(* Nothing but the fields, without what samples_queued counts.             *)
Typed ==
    /\ fifo \in [Streams -> Seq(Frame)]
    /\ samples_queued \in [Streams -> Int]
    /\ \A i \in Streams : frame_samples[i] # 0 => samples_queued[i] \in Nat
    /\ sq \in Heads
    /\ beat \in [stream : Streams, ts : Nat]
    /\ last_out \in [Streams -> Frame]

HeadIsLowest(q) ==
    IF q.head_stream = -1 THEN limiting = {} \/ \E j \in limiting : q.head_ts[j] = NOPTS
    ELSE /\ q.head_stream \in limiting
         /\ \A j \in limiting :
              q.head_ts[j] # NOPTS /\ q.head_ts[q.head_stream] <= q.head_ts[j]

FinishedHeadIsLowest(q) ==
    IF q.head_finished_stream = -1 THEN limiting \cap q.finished \cap Stamped(q) = {}
    ELSE /\ q.head_finished_stream \in limiting \cap q.finished \cap Stamped(q)
         /\ \A j \in limiting \cap q.finished \cap Stamped(q) :
              q.head_ts[q.head_finished_stream] <= q.head_ts[j]

(* The streams that are not finished, except perhaps those of E, are behind*)
(* head_finished_stream.                                                   *)
OthersBehind(q, E) ==
    q.head_finished_stream # -1 =>
        \A j \in Stamped(q) \ (q.finished \cup E) :
            q.head_ts[j] < q.head_ts[q.head_finished_stream]

HeadsInv(q) == q \in Heads /\ HeadIsLowest(q) /\ FinishedHeadIsLowest(q) /\ OthersBehind(q, {})

NothingReady == pc = "idle" => Ready = {}

Inv == Typed /\ HeadsInv(sq) /\ NoStreamGetsAhead /\ NothingReady

-----------------------------------------------------------------------------
(* What the data are.                                                      *)

LEMMA StreamsAreNat == Streams \subseteq Nat
  BY SyncQueueAssumption DEF Streams

LEMMA FramesAreFrames ==
    ASSUME NEW i \in Streams, NEW fr \in Frames[i]
    PROVE  fr \in Frame /\ (fr.pts = NOPTS => fr.dur = 0) /\ FrameEnd(fr, 0) \in Nat \cup {NOPTS}
  BY SyncQueueAssumption DEF Frame, FrameEnd, NOPTS

(* A set of naturals that is not empty has a least element: where a stream *)
(* is chosen by its timestamp or by its number there is one.               *)
LEMMA LeastExists ==
    ASSUME NEW T, T \subseteq Nat, T # {}
    PROVE  \E x \in T : \A y \in T : x <= y
<1> DEFINE R == OpToRel(<, Nat)
<1>1. IsWellFoundedOn(R, Nat) BY NatLessThanWellFounded
<1>2. PICK x \in T : \A y \in T : ~(<<y, x>> \in R)
  <2> HIDE DEF R
  <2> QED BY <1>1, WFMin
<1>3. ASSUME NEW y \in T PROVE x <= y
  <2>1. ~(<<y, x>> \in R) BY <1>2
  <2>2. ~(y < x) BY <2>1 DEF OpToRel
  <2> QED BY <2>2
<1> QED BY <1>3

LEMMA MinIsLeast ==
    ASSUME NEW T, T \subseteq Nat, T # {}
    PROVE  Min(T) \in T /\ \A y \in T : Min(T) <= y
<1>1. \E x \in T : \A y \in T : x <= y BY LeastExists
<1> QED BY <1>1 DEF Min

LEMMA LowestExists ==
    ASSUME NEW q \in Heads, limiting \cap Stamped(q) # {}
    PROVE  /\ Lowest(q) # {} /\ Lowest(q) \subseteq Streams
           /\ Min(Lowest(q)) \in Lowest(q)
<1> DEFINE T == {q.head_ts[j] : j \in limiting \cap Stamped(q)}
<1>1. \A j \in limiting \cap Stamped(q) : j \in Streams /\ q.head_ts[j] \in Nat
  BY DEF Heads, Stamped
<1>2. T \subseteq Nat /\ T # {} BY <1>1
<1>3. PICK x \in T : \A y \in T : x <= y
  <2> HIDE DEF T
  <2> QED BY <1>2, LeastExists
<1>4. PICK j \in limiting \cap Stamped(q) : x = q.head_ts[j] BY <1>3
<1>5. j \in Lowest(q) BY <1>3, <1>4 DEF Lowest
<1>6. Lowest(q) \subseteq Streams BY <1>1 DEF Lowest
<1>7. Lowest(q) \subseteq Nat BY <1>6, StreamsAreNat
<1> QED BY <1>5, <1>6, <1>7, MinIsLeast

-----------------------------------------------------------------------------
(* finish_stream() and stream_update_ts() keep the heads right.            *)

LEMMA FinishStreamKeeps ==
    ASSUME NEW q \in Heads, NEW i \in Streams,
           FinishedHeadIsLowest(q), OthersBehind(q, {i})
    PROVE  LET r == FinishStream(q, i)
           IN  /\ r \in Heads
               /\ r.head_ts = q.head_ts /\ r.head_stream = q.head_stream
               /\ FinishedHeadIsLowest(r) /\ OthersBehind(r, {})
<1> DEFINE r == FinishStream(q, i)
<1>a. q.head_ts \in [Streams -> Nat \cup {NOPTS}] /\ q.finished \subseteq Streams
      /\ q.head_stream \in Streams \cup {-1} /\ q.head_finished_stream \in Streams \cup {-1}
      /\ q.eof \in BOOLEAN
  BY DEF Heads
<1>b. Streams \subseteq Nat /\ limiting \subseteq Streams BY StreamsAreNat, SyncQueueAssumption
<1>c. Stamped(q) \subseteq Streams /\ \A j \in Stamped(q) : q.head_ts[j] \in Nat
  BY <1>a DEF Stamped
<1>1. CASE i \in limiting \cap Stamped(q)
  <2> DEFINE h == FinishedHead(q, i)
  <2>1. r = [head_ts |-> q.head_ts, finished |-> q.finished \cup {i} \cup NotBehind(q, h),
             head_stream |-> q.head_stream, head_finished_stream |-> h,
             eof |-> q.eof \/ q.finished \cup {i} \cup NotBehind(q, h) = Streams]
    BY <1>1 DEF FinishStream
  <2>2. h \in limiting \cap Stamped(q) /\ h \in q.finished \cup {i}
        /\ q.head_ts[h] <= q.head_ts[i]
    BY <1>1, <1>a, <1>b, <1>c DEF FinishedHead, FinishedHeadIsLowest
  <2>3. ASSUME NEW j \in limiting \cap q.finished \cap Stamped(q)
        PROVE  q.head_ts[h] <= q.head_ts[j]
    <3>1. q.head_finished_stream # -1 BY DEF FinishedHeadIsLowest
    <3>2. q.head_ts[q.head_finished_stream] <= q.head_ts[j]
          /\ q.head_finished_stream \in Stamped(q)
      BY <3>1 DEF FinishedHeadIsLowest
    <3>3. /\ q.head_ts[h] \in Nat /\ q.head_ts[j] \in Nat /\ q.head_ts[i] \in Nat
          /\ q.head_ts[q.head_finished_stream] \in Nat
      BY <3>2, <2>2, <1>c, <1>1
    <3>4. q.head_ts[h] <= q.head_ts[q.head_finished_stream]
      <4>1. CASE q.head_ts[i] < q.head_ts[q.head_finished_stream]
        <5>1. h = i BY <4>1 DEF FinishedHead
        <5> QED BY <4>1, <5>1, <3>3
      <4>2. CASE ~(q.head_ts[i] < q.head_ts[q.head_finished_stream])
        <5>1. q.head_finished_stream \in Nat BY <3>1, <1>a, <1>b
        <5>2. h = q.head_finished_stream BY <4>2, <5>1 DEF FinishedHead
        <5> QED BY <5>2, <3>3
      <4> QED BY <4>1, <4>2
    <3> QED BY <3>2, <3>3, <3>4
  <2>4. \A j \in NotBehind(q, h) : j \in Stamped(q) /\ q.head_ts[h] <= q.head_ts[j]
    BY DEF NotBehind
  <2> HIDE DEF h
  <2>5. r \in Heads
    BY <2>1, <2>2, <1>a, <1>b, <1>c, <2>4 DEF Heads
  <2>6. Stamped(r) = Stamped(q) BY <2>1 DEF Stamped
  <2>7. FinishedHeadIsLowest(r)
    <3>1. h # -1 BY <2>2, <1>b
    <3>2. h \in limiting \cap r.finished \cap Stamped(r) BY <2>1, <2>2, <2>6
    <3>3. \A j \in limiting \cap r.finished \cap Stamped(r) : r.head_ts[h] <= r.head_ts[j]
      BY <2>1, <2>2, <2>3, <2>4, <2>6
    <3> QED BY <3>1, <3>2, <3>3, <2>1 DEF FinishedHeadIsLowest
  <2>8. OthersBehind(r, {})
    <3> SUFFICES ASSUME NEW j \in Stamped(r) \ r.finished PROVE r.head_ts[j] < r.head_ts[h]
      BY <2>1 DEF OthersBehind
    <3>1. j \in Stamped(q) /\ j \notin NotBehind(q, h) BY <2>1, <2>6
    <3>2. ~(q.head_ts[h] <= q.head_ts[j]) BY <3>1 DEF NotBehind
    <3> QED BY <3>1, <3>2, <2>1, <2>2, <1>c
  <2> QED BY <2>1, <2>5, <2>7, <2>8
<1>2. CASE i \notin limiting \cap Stamped(q)
  <2>1. r = [head_ts |-> q.head_ts, finished |-> q.finished \cup {i},
             head_stream |-> q.head_stream, head_finished_stream |-> q.head_finished_stream,
             eof |-> q.eof \/ q.finished \cup {i} = Streams]
    BY <1>2 DEF FinishStream
  <2>2. r \in Heads BY <2>1, <1>a DEF Heads
  <2>3. Stamped(r) = Stamped(q) BY <2>1 DEF Stamped
  <2>4. limiting \cap r.finished \cap Stamped(r) = limiting \cap q.finished \cap Stamped(q)
    BY <2>1, <2>3, <1>2
  <2>5. FinishedHeadIsLowest(r) BY <2>1, <2>4 DEF FinishedHeadIsLowest
  <2>6. OthersBehind(r, {}) BY <2>1, <2>3 DEF OthersBehind
  <2> QED BY <2>1, <2>2, <2>5, <2>6
<1> QED BY <1>1, <1>2

LEMMA QueueHeadIsLowest ==
    ASSUME NEW q \in Heads, q.head_stream # -1 => limiting \subseteq Stamped(q), limiting # {}
    PROVE  LET h == QueueHead(q)
           IN  /\ h \in Streams \cup {-1}
               /\ IF h = -1 THEN \E j \in limiting : q.head_ts[j] = NOPTS
                  ELSE /\ h \in limiting
                       /\ \A j \in limiting :
                            q.head_ts[j] # NOPTS /\ q.head_ts[h] <= q.head_ts[j]
<1> DEFINE h == QueueHead(q)
<1>a. q.head_stream \in Streams \cup {-1} BY DEF Heads
<1>b. Streams \subseteq Nat /\ limiting \subseteq Streams BY StreamsAreNat, SyncQueueAssumption
<1>1. CASE limiting \subseteq Stamped(q)
  <2>1. Lowest(q) # {} /\ Lowest(q) \subseteq Streams /\ Min(Lowest(q)) \in Lowest(q)
    BY <1>1, LowestExists
  <2>2. h \in Lowest(q) BY <1>1, <2>1 DEF QueueHead
  <2>3. h # -1 BY <2>1, <2>2, <1>b
  <2>4. h \in limiting /\ \A j \in limiting \cap Stamped(q) : q.head_ts[h] <= q.head_ts[j]
    BY <2>2 DEF Lowest
  <2> QED BY <2>3, <2>4, <1>1, <1>b DEF Stamped
<1>2. CASE ~(limiting \subseteq Stamped(q))
  <2>1. h = -1 BY <1>2 DEF QueueHead
  <2>2. PICK j \in limiting : j \notin Stamped(q) BY <1>2
  <2>3. q.head_ts[j] = NOPTS BY <2>2, <1>b DEF Stamped
  <2> QED BY <2>1, <2>2, <2>3
<1> QED BY <1>1, <1>2

LEMMA StreamUpdateTsKeeps ==
    ASSUME NEW q, HeadsInv(q), NEW i \in Streams \ q.finished, NEW ts \in Nat \cup {NOPTS}
    PROVE  LET r == StreamUpdateTs(q, i, ts)
           IN  /\ HeadsInv(r)
               /\ \A j \in Streams : q.head_ts[j] <= r.head_ts[j]
<1> DEFINE r == StreamUpdateTs(q, i, ts)
<1>a. /\ q \in Heads /\ q.head_ts \in [Streams -> Nat \cup {NOPTS}]
      /\ q.finished \subseteq Streams /\ q.eof \in BOOLEAN
      /\ q.head_stream \in Streams \cup {-1} /\ q.head_finished_stream \in Streams \cup {-1}
  BY DEF HeadsInv, Heads
<1>b. Streams \subseteq Nat /\ limiting \subseteq Streams BY StreamsAreNat, SyncQueueAssumption
<1>1. CASE ts <= q.head_ts[i]
  <2>1. r = q BY <1>1 DEF StreamUpdateTs
  <2> QED BY <2>1, <1>a DEF NOPTS
<1>2. CASE ~(ts <= q.head_ts[i])
  <2> DEFINE q1 == [head_ts |-> [q.head_ts EXCEPT ![i] = ts], finished |-> q.finished,
                    head_stream |-> q.head_stream,
                    head_finished_stream |-> q.head_finished_stream, eof |-> q.eof]
             q2 == IF q.head_finished_stream >= 0 /\ q.head_ts[q.head_finished_stream] <= ts
                     THEN FinishStream(q1, i) ELSE q1
             hs == IF i \in limiting /\ q2.head_stream \in {-1, i}
                     THEN QueueHead(q2) ELSE q2.head_stream
  <2>1. r = [head_ts |-> q2.head_ts, finished |-> q2.finished, head_stream |-> hs,
             head_finished_stream |-> q2.head_finished_stream, eof |-> q2.eof]
    BY <1>2 DEF StreamUpdateTs
  <2>2. /\ q1 \in Heads /\ q1.head_stream = q.head_stream /\ q1.finished = q.finished
        /\ q1.head_finished_stream = q.head_finished_stream
        /\ q1.head_ts \in [Streams -> Nat \cup {NOPTS}]
        /\ q1.head_ts[i] = ts /\ \A j \in Streams \ {i} : q1.head_ts[j] = q.head_ts[j]
    BY <1>a DEF Heads
  <2>3. ts \in Nat /\ q.head_ts[i] < ts BY <1>2, <1>a DEF NOPTS
  <2>4. Stamped(q1) = Stamped(q) \cup {i} BY <2>2, <2>3 DEF Stamped, NOPTS
  <2> HIDE DEF q1
  <2>5. FinishedHeadIsLowest(q1)
    <3>1. limiting \cap q1.finished \cap Stamped(q1) = limiting \cap q.finished \cap Stamped(q)
      BY <2>2, <2>4
    <3>2. \A j \in limiting \cap q1.finished \cap Stamped(q1) : q1.head_ts[j] = q.head_ts[j]
      BY <2>2, <1>b
    <3>3. CASE q.head_finished_stream = -1
      BY <3>1, <3>3, <2>2 DEF HeadsInv, FinishedHeadIsLowest
    <3>4. CASE q.head_finished_stream # -1
      <4>1. q1.head_finished_stream \in limiting \cap q1.finished \cap Stamped(q1)
        BY <3>1, <3>4, <2>2 DEF HeadsInv, FinishedHeadIsLowest
      <4>2. \A j \in limiting \cap q1.finished \cap Stamped(q1) :
              q1.head_ts[q1.head_finished_stream] <= q1.head_ts[j]
        BY <3>1, <3>2, <3>4, <4>1, <2>2 DEF HeadsInv, FinishedHeadIsLowest
      <4> QED BY <3>4, <4>1, <4>2, <2>2 DEF FinishedHeadIsLowest
    <3> QED BY <3>3, <3>4
  <2>6. q.head_finished_stream # -1 =>
          /\ q.head_finished_stream \in Stamped(q) \ {i}
          /\ q1.head_ts[q.head_finished_stream] = q.head_ts[q.head_finished_stream]
    BY <2>2, <1>b DEF HeadsInv, FinishedHeadIsLowest
  <2>7. OthersBehind(q1, {i})
    <3> SUFFICES ASSUME q1.head_finished_stream # -1,
                        NEW j \in Stamped(q1) \ (q1.finished \cup {i})
                 PROVE  q1.head_ts[j] < q1.head_ts[q1.head_finished_stream]
      BY DEF OthersBehind
    <3>1. j \in Stamped(q) \ q.finished /\ j \in Streams /\ q1.head_ts[j] = q.head_ts[j]
      BY <2>2, <2>4 DEF Stamped
    <3>2. q.head_ts[j] < q.head_ts[q.head_finished_stream]
      BY <3>1, <2>2 DEF HeadsInv, OthersBehind
    <3> QED BY <3>1, <3>2, <2>2, <2>6
  <2>8. /\ q2 \in Heads /\ q2.head_ts = q1.head_ts /\ q2.head_stream = q.head_stream
        /\ FinishedHeadIsLowest(q2) /\ OthersBehind(q2, {})
    <3>1. CASE q.head_finished_stream >= 0 /\ q.head_ts[q.head_finished_stream] <= ts
      BY <3>1, <2>2, <2>5, <2>7, FinishStreamKeeps
    <3>2. CASE ~(q.head_finished_stream >= 0 /\ q.head_ts[q.head_finished_stream] <= ts)
      <4>1. q2 = q1 BY <3>2
      <4>2. ASSUME q1.head_finished_stream # -1, NEW j \in Stamped(q1) \ q1.finished
            PROVE  q1.head_ts[j] < q1.head_ts[q1.head_finished_stream]
        <5>1. CASE j # i BY <5>1, <4>2, <2>7 DEF OthersBehind
        <5>2. CASE j = i
          <6>0. q.head_finished_stream # -1 BY <4>2, <2>2
          <6>a. q.head_finished_stream \in Streams BY <6>0, <1>a
          <6>b. q.head_finished_stream \in Nat BY <6>a, <1>b
          <6>1. q.head_finished_stream >= 0 BY <6>b
          <6>2. q.head_ts[q.head_finished_stream] \in Nat
            BY <4>2, <2>6, <2>2, <1>a DEF Stamped
          <6>3. ts < q.head_ts[q.head_finished_stream] BY <6>1, <6>2, <3>2, <2>3
          <6> QED BY <6>3, <5>2, <4>2, <2>2, <2>6
        <5> QED BY <5>1, <5>2
      <4>3. OthersBehind(q1, {}) BY <4>2 DEF OthersBehind
      <4> QED BY <4>1, <4>3, <2>2, <2>5
    <3> QED BY <3>1, <3>2
  <2> HIDE DEF q2
  <2>9. Stamped(q2) = Stamped(q1) BY <2>8 DEF Stamped
  <2>10. hs \in Streams \cup {-1} /\ HeadIsLowest([q2 EXCEPT !.head_stream = hs])
    <3> DEFINE q3 == [q2 EXCEPT !.head_stream = hs]
    <3> SUFFICES hs \in Streams \cup {-1} /\ HeadIsLowest(q3) OBVIOUS
    <3>a. q3.head_stream = hs /\ q3.head_ts = q2.head_ts BY <2>8 DEF Heads
    <3> HIDE DEF q3
    <3>b. q.head_stream # -1 => limiting \subseteq Stamped(q2)
      BY <2>4, <2>9, <1>b DEF HeadsInv, HeadIsLowest, Stamped
    <3>1. CASE i \in limiting /\ q2.head_stream \in {-1, i}
      <4>1. hs = QueueHead(q2) BY <3>1
      <4> HIDE DEF hs
      <4> QED BY <4>1, <3>1, <3>a, <3>b, <2>8, QueueHeadIsLowest DEF HeadIsLowest
    <3>2. CASE ~(i \in limiting /\ q2.head_stream \in {-1, i})
      <4>1. hs = q.head_stream BY <3>2, <2>8
      <4>2. CASE hs = -1
        <5>1. i \notin limiting BY <4>1, <4>2, <3>2, <2>8
        <5>2. \A j \in limiting : q2.head_ts[j] = q.head_ts[j] BY <5>1, <2>2, <2>8, <1>b
        <5> QED BY <4>1, <4>2, <5>2, <3>a DEF HeadsInv, HeadIsLowest
      <4>3. CASE hs # -1
        <5>1. hs \in limiting /\ hs # i
          BY <4>1, <4>3, <3>2, <2>8 DEF HeadsInv, HeadIsLowest
        <5>2. q2.head_ts[hs] = q.head_ts[hs] BY <5>1, <2>2, <2>8, <1>b
        <5>3. ASSUME NEW j \in limiting
              PROVE  q2.head_ts[j] # NOPTS /\ q2.head_ts[hs] <= q2.head_ts[j]
          <6>1. q.head_ts[j] # NOPTS /\ q.head_ts[hs] <= q.head_ts[j]
            BY <4>1, <4>3 DEF HeadsInv, HeadIsLowest
          <6>2. q.head_ts[j] \in Nat /\ q.head_ts[hs] \in Nat \cup {-1}
            BY <6>1, <5>1, <1>a, <1>b DEF NOPTS
          <6>3. CASE j = i BY <6>1, <6>2, <6>3, <5>2, <2>2, <2>3, <2>8 DEF NOPTS
          <6>4. CASE j # i BY <6>1, <6>4, <5>2, <2>2, <2>8, <1>b
          <6> QED BY <6>3, <6>4
        <5> QED BY <4>3, <5>1, <5>3, <3>a, <1>b DEF HeadIsLowest
      <4>4. hs \in Streams \cup {-1} BY <4>1, <1>a
      <4> QED BY <4>2, <4>3, <4>4
    <3> QED BY <3>1, <3>2
  <2>11. r = [q2 EXCEPT !.head_stream = hs]
    BY <2>1, <2>8 DEF Heads
  <2> HIDE DEF hs
  <2>12. /\ r.head_ts = q2.head_ts /\ r.finished = q2.finished
         /\ r.head_finished_stream = q2.head_finished_stream
    BY <2>1
  <2>13. r \in Heads BY <2>1, <2>8, <2>10 DEF Heads
  <2>14. Stamped(r) = Stamped(q2) BY <2>12 DEF Stamped
  <2>15. FinishedHeadIsLowest(r) /\ OthersBehind(r, {})
    BY <2>8, <2>12, <2>14 DEF FinishedHeadIsLowest, OthersBehind
  <2>16. \A j \in Streams : q.head_ts[j] <= r.head_ts[j]
    BY <2>12, <2>8, <2>2, <2>3, <1>a DEF NOPTS
  <2> QED BY <2>10, <2>11, <2>13, <2>15, <2>16 DEF HeadsInv
<1> QED BY <1>1, <1>2

-----------------------------------------------------------------------------
(* The steps.                                                              *)

LEMMA InitInv == Init => Inv
<1> SUFFICES ASSUME Init PROVE Inv OBVIOUS
<1>a. Streams \subseteq Nat /\ 0 \in Streams BY StreamsAreNat, SyncQueueAssumption DEF Streams
<1>1. Typed
  <2>1. NoFrame \in Frame BY DEF NoFrame, Frame, NOPTS
  <2> QED BY <2>1, <1>a DEF Init, Typed, Heads, NoBeat, NOPTS
<1>2. sq \in Heads BY <1>1 DEF Typed
<1>3. Stamped(sq) = {} /\ \A j \in Streams : sq.head_ts[j] = NOPTS BY DEF Init, Stamped
<1>4. limiting \subseteq Streams BY SyncQueueAssumption
<1>5. HeadsInv(sq)
  BY <1>2, <1>3, <1>4 DEF Init, HeadsInv, HeadIsLowest, FinishedHeadIsLowest, OthersBehind
<1>6. NoStreamGetsAhead BY DEF Init, NoStreamGetsAhead, NoFrame, FrameEnd, NOPTS
<1>7. NothingReady BY DEF Init, NothingReady, Ready, HasOutput
<1> QED BY <1>1, <1>5, <1>6, <1>7 DEF Inv

(* What has been output stays behind the limiting streams when the heads   *)
(* move up.                                                                *)
LEMMA HeadsMoveUp ==
    ASSUME Inv, sq' \in Heads, UNCHANGED last_out,
           \A j \in Streams : sq.head_ts[j] <= sq'.head_ts[j]
    PROVE  NoStreamGetsAhead'
<1> SUFFICES ASSUME NEW i \in Streams, NEW j \in limiting, FrameEnd(last_out[i], 0) # NOPTS
             PROVE  FrameEnd(last_out[i], 0) <= sq'.head_ts[j]
  BY DEF NoStreamGetsAhead
<1>1. FrameEnd(last_out[i], 0) <= sq.head_ts[j] BY DEF Inv, NoStreamGetsAhead
<1>a. last_out[i] \in Frame BY DEF Inv, Typed
<1>2. FrameEnd(last_out[i], 0) \in Int BY <1>a DEF Frame, FrameEnd, NOPTS
<1>3. j \in Streams BY SyncQueueAssumption
<1>4. sq.head_ts[j] \in Int /\ sq'.head_ts[j] \in Int
  BY SMTT(30), <1>3 DEF Inv, Typed, Heads, NOPTS
<1> QED BY <1>1, <1>2, <1>3, <1>4

LEMMA FinishKeepsInv ==
    ASSUME Inv, NEW i \in Streams, sq' = FinishStream(sq, i)
    PROVE  HeadsInv(sq)' /\ sq'.head_ts = sq.head_ts
<1>1. sq \in Heads /\ FinishedHeadIsLowest(sq) /\ OthersBehind(sq, {i})
  BY DEF Inv, HeadsInv, OthersBehind
<1>2. /\ sq' \in Heads /\ sq'.head_ts = sq.head_ts /\ sq'.head_stream = sq.head_stream
      /\ FinishedHeadIsLowest(sq') /\ OthersBehind(sq', {})
  BY <1>1, FinishStreamKeeps
<1>3. HeadIsLowest(sq') BY <1>2 DEF Inv, HeadsInv, HeadIsLowest
<1> QED BY <1>2, <1>3 DEF HeadsInv

LEMMA SendInv ==
    ASSUME Inv, NEW i \in Streams, NEW fr \in Frames[i], Send(i, fr)
    PROVE  Inv'
<1>a. fr \in Frame /\ FrameEnd(fr, 0) \in Nat \cup {NOPTS} BY FramesAreFrames
<1>b. i \in Streams \ sq.finished BY DEF Send
<1> DEFINE q == StreamUpdateTs(sq, i, FrameEnd(fr, 0))
<1>1. HeadsInv(q) /\ \A j \in Streams : sq.head_ts[j] <= q.head_ts[j]
  BY <1>a, <1>b, StreamUpdateTsKeeps DEF Inv
<1>2. sq' = FinishStream(q, i) \/ sq' = q BY DEF Send
<1> HIDE DEF q
<1>3. HeadsInv(sq)' /\ sq'.head_ts = q.head_ts
  <2>1. CASE sq' = q BY <2>1, <1>1
  <2>2. CASE sq' = FinishStream(q, i)
    <3>1. q \in Heads /\ FinishedHeadIsLowest(q) /\ OthersBehind(q, {i}) /\ HeadIsLowest(q)
      BY <1>1 DEF HeadsInv, OthersBehind
    <3>2. /\ sq' \in Heads /\ sq'.head_ts = q.head_ts /\ sq'.head_stream = q.head_stream
          /\ FinishedHeadIsLowest(sq') /\ OthersBehind(sq', {})
      BY <3>1, <2>2, FinishStreamKeeps
    <3>3. HeadIsLowest(sq') BY <3>1, <3>2 DEF HeadIsLowest
    <3> QED BY <3>2, <3>3 DEF HeadsInv
  <2> QED BY <1>2, <2>1, <2>2
<1>4. Typed'
  <2>1. fifo' \in [Streams -> Seq(Frame)]
    BY <1>a DEF Inv, Typed, Send
  <2>2. samples_queued' = [samples_queued EXCEPT ![i] = @ + fr.nb] /\ fr.nb \in Nat
    BY <1>a DEF Send, Frame
  <2>3. samples_queued' \in [Streams -> Int]
        /\ \A j \in Streams : frame_samples[j] # 0 => samples_queued'[j] \in Nat
    BY <2>2 DEF Inv, Typed
  <2>4. UNCHANGED <<beat, last_out>> BY DEF Send, outVars
  <2> QED BY <2>1, <2>3, <2>4, <1>3 DEF Inv, Typed, HeadsInv
<1>5. NoStreamGetsAhead'
  <2>1. UNCHANGED last_out BY DEF Send, outVars
  <2>2. sq' \in Heads /\ \A j \in Streams : sq.head_ts[j] <= sq'.head_ts[j]
    BY <1>1, <1>3 DEF HeadsInv
  <2> QED BY <2>1, <2>2, HeadsMoveUp
<1>6. NothingReady' BY DEF Send, NothingReady
<1> QED BY <1>3, <1>4, <1>5, <1>6 DEF Inv

LEMMA SendRefusedInv == ASSUME Inv, NEW i \in Streams, SendRefused(i) PROVE Inv'
<1>1. UNCHANGED <<fifo, samples_queued, sq, pc, beat, last_out>> BY DEF SendRefused, fifoVars, outVars
<1>2. Ready' = Ready
  BY <1>1 DEF Ready, HasOutput, MayOutput, OutputEnd, NbSamples
<1> QED BY <1>1, <1>2 DEF Inv, Typed, HeadsInv, NoStreamGetsAhead, NothingReady

LEMMA SendEOFInv == ASSUME Inv, NEW i \in Streams, SendEOF(i) PROVE Inv'
<1>1. UNCHANGED <<fifo, samples_queued, beat, last_out>> BY DEF SendEOF, fifoVars, outVars
<1>2. HeadsInv(sq)' /\ sq'.head_ts = sq.head_ts BY FinishKeepsInv DEF SendEOF
<1>3. Typed' BY <1>1, <1>2 DEF Inv, Typed, HeadsInv
<1>4. NoStreamGetsAhead' BY <1>1, <1>2 DEF Inv, NoStreamGetsAhead
<1>5. NothingReady' BY DEF SendEOF, NothingReady
<1> QED BY <1>2, <1>3, <1>4, <1>5 DEF Inv

(* The next output and what is left of the fifo.                           *)
LEMMA OutputIsTyped ==
    ASSUME Inv, NEW i \in Streams, HasOutput(i)
    PROVE  /\ fifo[i] \in Seq(Frame) /\ fifo[i] # <<>> /\ Head(fifo[i]) \in Frame
           /\ NbSamples(i) \in Nat
           /\ OutputEnd(i) \in Nat \cup {NOPTS}
<1>1. fifo[i] \in Seq(Frame) /\ fifo[i] # <<>> BY DEF Inv, Typed, HasOutput
<1>2. Head(fifo[i]) \in Frame BY <1>1
<1>3. NbSamples(i) \in Nat BY SyncQueueAssumption DEF NbSamples, Inv, Typed
<1>4. OutputEnd(i) \in Nat \cup {NOPTS} BY <1>2, <1>3 DEF OutputEnd, FrameEnd, Frame, NOPTS
<1> QED BY <1>1, <1>2, <1>3, <1>4

LEMMA RestIsTyped ==
    ASSUME NEW f \in Seq(Frame), NEW k \in 0 .. Len(f), NEW n \in Nat,
           n # 0 => k < Len(f) /\ n < f[k + 1].nb
    PROVE  Rest(f, k, n) \in Seq(Frame)
<1>1. CASE n = 0
  <2>1. SubSeq(f, k + 1, Len(f)) \in Seq(Frame) BY <1>1
  <2> QED BY <1>1, <2>1 DEF Rest
<1>2. CASE n # 0
  <2>1. f[k + 1] \in Frame BY <1>2
  <2>a. f[k + 1].pts + n \in Nat /\ f[k + 1].nb - n \in Nat
    BY SMTT(30), <1>2, <2>1 DEF Frame, NOPTS
  <2>2. Offset(f[k + 1], n) \in Frame BY <2>a DEF Offset, Frame
  <2>3. SubSeq(f, k + 2, Len(f)) \in Seq(Frame) BY <1>2
  <2>4. <<Offset(f[k + 1], n)>> \in Seq(Frame) BY <2>2
  <2> QED BY <1>2, <2>3, <2>4 DEF Rest
<1> QED BY <1>1, <1>2

LEMMA ReceiveInv == ASSUME Inv, Receive PROVE Inv'
<1>a. Ready \subseteq Nat BY StreamsAreNat DEF Ready
<1>b. PICK i \in Ready : /\ ReadFrame(i) \/ ReadSamples(i)
                         /\ UNCHANGED sq \/ sq' = FinishStream(sq, i)
  <2>1. Min(Ready) \in Ready BY <1>a, MinIsLeast DEF Receive
  <2> QED BY <2>1 DEF Receive
<1>c. i \in Streams /\ HasOutput(i) /\ MayOutput(i) BY DEF Ready
<1>d. /\ fifo[i] \in Seq(Frame) /\ fifo[i] # <<>> /\ Head(fifo[i]) \in Frame
      /\ NbSamples(i) \in Nat /\ OutputEnd(i) \in Nat \cup {NOPTS}
  BY <1>c, OutputIsTyped
<1>1. HeadsInv(sq)' /\ sq'.head_ts = sq.head_ts
  <2>1. CASE UNCHANGED sq BY <2>1 DEF Inv, HeadsInv
  <2>2. CASE sq' = FinishStream(sq, i) BY <2>2, <1>c, FinishKeepsInv
  <2> QED BY <1>b, <2>1, <2>2
<1>2. \E f \in Seq(Frame), n \in Int, o \in Frame :
        /\ fifo' = [fifo EXCEPT ![i] = f]
        /\ samples_queued' = [samples_queued EXCEPT ![i] = n]
        /\ frame_samples[i] # 0 => n \in Nat
        /\ last_out' = [last_out EXCEPT ![i] = o]
        /\ FrameEnd(o, 0) <= OutputEnd(i)
  <2>0. samples_queued[i] \in Int /\ (frame_samples[i] # 0 => samples_queued[i] \in Nat)
        /\ frame_samples[i] \in Nat
    BY <1>c, SyncQueueAssumption DEF Inv, Typed
  <2>1. CASE ReadFrame(i)
    <3>1. frame_samples[i] = 0 /\ NbSamples(i) = 0 BY <2>1 DEF ReadFrame, NbSamples
    <3>2. Tail(fifo[i]) \in Seq(Frame) BY <1>d
    <3>3. samples_queued[i] - Head(fifo[i]).nb \in Int BY <1>d, <2>0 DEF Frame
    <3>4. FrameEnd(Head(fifo[i]), 0) <= OutputEnd(i)
      BY <3>1, <1>d DEF OutputEnd, NOPTS
    <3> QED BY <2>1, <3>1, <3>2, <3>3, <3>4, <1>d DEF ReadFrame
  <2>2. CASE ReadSamples(i)
    <3> DEFINE o == [pts |-> Head(fifo[i]).pts, dur |-> NbSamples(i), nb |-> NbSamples(i)]
    <3>1. PICK k \in 0 .. Len(fifo[i]), n \in 0 .. NbSamples(i) :
            /\ n # 0 => k < Len(fifo[i]) /\ n < fifo[i][k + 1].nb
            /\ fifo' = [fifo EXCEPT ![i] = Rest(fifo[i], k, n)]
      BY <2>2 DEF ReadSamples
    <3>2. Rest(fifo[i], k, n) \in Seq(Frame) BY <3>1, <1>d, RestIsTyped
    <3>3. frame_samples[i] # 0 /\ samples_queued[i] - NbSamples(i) \in Nat
      BY <2>2, <2>0, <1>d DEF ReadSamples, NbSamples
    <3>4. o \in Frame BY <1>d DEF Frame
    <3>5. FrameEnd(o, 0) <= OutputEnd(i)
      BY SMTT(30), <1>d DEF Frame, FrameEnd, OutputEnd, NOPTS
    <3>6. /\ samples_queued' = [samples_queued EXCEPT ![i] = samples_queued[i] - NbSamples(i)]
          /\ last_out' = [last_out EXCEPT ![i] = o]
      BY <2>2 DEF ReadSamples
    <3>7. samples_queued[i] - NbSamples(i) \in Int BY <3>3
    <3> HIDE DEF o
    <3> QED BY <3>1, <3>2, <3>3, <3>4, <3>5, <3>6, <3>7
  <2> QED BY <1>b, <2>1, <2>2
<1>3. PICK f \in Seq(Frame), n \in Int, o \in Frame :
        /\ fifo' = [fifo EXCEPT ![i] = f]
        /\ samples_queued' = [samples_queued EXCEPT ![i] = n]
        /\ frame_samples[i] # 0 => n \in Nat
        /\ last_out' = [last_out EXCEPT ![i] = o]
        /\ FrameEnd(o, 0) <= OutputEnd(i)
  BY <1>2
<1>4. Typed'
  <2>1. UNCHANGED beat BY DEF Receive
  <2>2. fifo' \in [Streams -> Seq(Frame)] BY <1>3 DEF Inv, Typed
  <2>3. samples_queued' \in [Streams -> Int] BY <1>3 DEF Inv, Typed
  <2>4. \A j \in Streams : frame_samples[j] # 0 => samples_queued'[j] \in Nat
    BY <1>3 DEF Inv, Typed
  <2>5. last_out' \in [Streams -> Frame] BY <1>3 DEF Inv, Typed
  <2> QED BY <2>1, <2>2, <2>3, <2>4, <2>5, <1>1 DEF Inv, Typed, HeadsInv
<1>5. NoStreamGetsAhead'
  <2> SUFFICES ASSUME NEW s \in Streams, NEW j \in limiting, FrameEnd(last_out'[s], 0) # NOPTS
               PROVE  FrameEnd(last_out'[s], 0) <= sq.head_ts[j]
    BY <1>1 DEF NoStreamGetsAhead
  <2>1. CASE s # i
    <3>1. last_out'[s] = last_out[s] BY <2>1, <1>3 DEF Inv, Typed
    <3> QED BY <3>1 DEF Inv, NoStreamGetsAhead
  <2>2. CASE s = i
    <3>1. last_out'[s] = o BY <2>2, <1>3, <1>c DEF Inv, Typed
    <3>2. FrameEnd(o, 0) \in Nat \cup {NOPTS} BY DEF Frame, FrameEnd, NOPTS
    <3>3. OutputEnd(i) # NOPTS BY <1>3, <3>1, <3>2, <1>d DEF NOPTS
    <3>4. sq.head_stream # -1 /\ OutputEnd(i) <= sq.head_ts[sq.head_stream]
      <4>1. sq.head_stream >= 0 /\ OutputEnd(i) <= sq.head_ts[sq.head_stream]
        BY <1>c, <3>3 DEF MayOutput
      <4> QED BY <4>1
    <3>5. sq.head_ts[sq.head_stream] <= sq.head_ts[j] /\ sq.head_stream \in limiting
      BY <3>4 DEF Inv, HeadsInv, HeadIsLowest
    <3>a. j \in Streams /\ sq.head_stream \in Streams BY <3>5, SyncQueueAssumption
    <3>b. sq.head_ts \in [Streams -> Nat \cup {NOPTS}] BY DEF Inv, Typed, Heads
    <3>6. sq.head_ts[j] \in Int /\ sq.head_ts[sq.head_stream] \in Int
      BY <3>a, <3>b DEF NOPTS
    <3> QED BY <1>3, <3>1, <3>2, <3>4, <3>5, <3>6, <1>d DEF NOPTS
  <2> QED BY <2>1, <2>2
<1>6. NothingReady' BY DEF Receive, NothingReady
<1> QED BY <1>1, <1>4, <1>5, <1>6 DEF Inv

LEMMA TailIsNat ==
    ASSUME Inv, NEW i \in Streams, StampedFrames(i) # {}
    PROVE  TailTs(i) \in Int /\ TailTs(i) + 1 \in Nat
<1> DEFINE k == Min(StampedFrames(i))
<1>1. fifo[i] \in Seq(Frame) BY DEF Inv, Typed
<1>2. StampedFrames(i) \subseteq DOMAIN fifo[i] BY DEF StampedFrames
<1>3. StampedFrames(i) \subseteq Nat BY <1>1, <1>2
<1>4. k \in DOMAIN fifo[i] BY <1>2, <1>3, MinIsLeast
<1> HIDE DEF k
<1>5. fifo[i][k] \in Frame BY <1>1, <1>4
<1> QED BY <1>5 DEF TailTs, k, FrameEnd, Frame, NOPTS

LEMMA OverflowHeartbeatInv == ASSUME Inv, OverflowHeartbeat PROVE Inv'
<1>1. UNCHANGED <<fifo, samples_queued, sq, last_out>> BY DEF OverflowHeartbeat, fifoVars, outVars
<1>2. PICK i \in Streams : Overflows(i) /\ beat' = [stream |-> i, ts |-> TailTs(i) + 1]
  BY DEF OverflowHeartbeat
<1>3. TailTs(i) + 1 \in Nat
  <2>1. StampedFrames(i) # {} BY <1>2 DEF Overflows
  <2> QED BY <2>1, TailIsNat
<1>4. beat' \in [stream : Streams, ts : Nat] BY <1>2, <1>3
<1>5. NothingReady' BY DEF OverflowHeartbeat, NothingReady
<1> QED BY <1>1, <1>4, <1>5 DEF Inv, Typed, HeadsInv, NoStreamGetsAhead

LEMMA HeartbeatInv == ASSUME Inv, Heartbeat PROVE Inv'
<1>1. UNCHANGED <<fifo, samples_queued, last_out>> BY DEF Heartbeat, fifoVars, outVars
<1>2. NothingReady' BY DEF Heartbeat, NothingReady
<1>3. CASE Lagging = {}
  <2>1. UNCHANGED sq /\ beat' = NoBeat BY <1>3 DEF Heartbeat
  <2>2. NoBeat \in [stream : Streams, ts : Nat] BY SyncQueueAssumption DEF NoBeat, Streams
  <2> QED BY <1>1, <1>2, <2>1, <2>2 DEF Inv, Typed, HeadsInv, NoStreamGetsAhead
<1>4. CASE Lagging # {}
  <2>1. Lagging \subseteq Streams \ sq.finished BY DEF Lagging
  <2>2. Lagging \subseteq Nat BY <2>1, StreamsAreNat
  <2>3. Min(Lagging) \in Streams \ sq.finished BY <1>4, <2>1, <2>2, MinIsLeast
  <2>4. sq' = StreamUpdateTs(sq, Min(Lagging), beat.ts) /\ UNCHANGED beat
    BY <1>4 DEF Heartbeat
  <2>5. beat.ts \in Nat BY DEF Inv, Typed
  <2>6. HeadsInv(sq') /\ \A j \in Streams : sq.head_ts[j] <= sq'.head_ts[j]
    BY <2>3, <2>4, <2>5, StreamUpdateTsKeeps DEF Inv
  <2>7. Typed' BY <1>1, <2>4, <2>6 DEF Inv, Typed, HeadsInv
  <2>8. NoStreamGetsAhead' BY <1>1, <2>6, HeadsMoveUp DEF HeadsInv
  <2> QED BY <1>2, <2>6, <2>7, <2>8 DEF Inv
<1> QED BY <1>3, <1>4

LEMMA ReceiveNothingInv == ASSUME Inv, ReceiveNothing PROVE Inv'
<1>1. UNCHANGED <<fifo, samples_queued, sq, beat, last_out>> /\ Ready = {}
  BY DEF ReceiveNothing, fifoVars, outVars
<1>2. Ready' = Ready
  BY <1>1 DEF Ready, HasOutput, MayOutput, OutputEnd, NbSamples
<1> QED BY <1>1, <1>2 DEF Inv, Typed, HeadsInv, NoStreamGetsAhead, NothingReady

LEMMA StutterInv == ASSUME Inv, UNCHANGED vars PROVE Inv'
<1>1. UNCHANGED <<fifo, samples_queued, sq, pc, beat, last_out>> BY DEF vars, fifoVars, outVars
<1>2. Ready' = Ready
  BY <1>1 DEF Ready, HasOutput, MayOutput, OutputEnd, NbSamples
<1> QED BY <1>1, <1>2 DEF Inv, Typed, HeadsInv, NoStreamGetsAhead, NothingReady

LEMMA StepInv == Inv /\ [Next]_vars => Inv'
<1> SUFFICES ASSUME Inv, [Next]_vars PROVE Inv' OBVIOUS
<1>1. ASSUME NEW i \in Streams, NEW fr \in Frames[i], Send(i, fr) PROVE Inv' BY <1>1, SendInv
<1>2. ASSUME NEW i \in Streams, SendRefused(i) PROVE Inv' BY <1>2, SendRefusedInv
<1>3. ASSUME NEW i \in Streams, SendEOF(i) PROVE Inv' BY <1>3, SendEOFInv
<1>4. CASE Receive BY <1>4, ReceiveInv
<1>5. CASE OverflowHeartbeat BY <1>5, OverflowHeartbeatInv
<1>6. CASE Heartbeat BY <1>6, HeartbeatInv
<1>7. CASE ReceiveNothing BY <1>7, ReceiveNothingInv
<1>8. CASE UNCHANGED vars BY <1>8, StutterInv
<1> QED BY <1>1, <1>2, <1>3, <1>4, <1>5, <1>6, <1>7, <1>8 DEF Next, SendStep, ReceiveStep

LEMMA InvHolds == Spec => []Inv
  BY InitInv, StepInv, PTL DEF Spec

-----------------------------------------------------------------------------
(* The samples of a fifo: SamplesIn is what it is meant to be, and adding  *)
(* a frame or taking samples changes the total by as much.                 *)

Total(f) == SamplesIn(f)[Len(f)]

LEMMA SamplesOfFrame ==
    ASSUME NEW f \in Seq(Frame), NEW k \in 1 .. Len(f)
    PROVE  f[k] \in Frame /\ f[k].nb \in Nat
<1>1. f[k] \in Frame OBVIOUS
<1> QED BY <1>1 DEF Frame

LEMMA SamplesExist ==
    ASSUME NEW f \in Seq(Frame)
    PROVE  \A n \in 0 .. Len(f) : \E s \in [0 .. n -> Nat] :
              s[0] = 0 /\ \A k \in 1 .. n : s[k] = s[k - 1] + f[k].nb
<1> DEFINE Counts(n, s) == s[0] = 0 /\ \A k \in 1 .. n : s[k] = s[k - 1] + f[k].nb
           T == {n \in 0 .. Len(f) : ~\E s \in [0 .. n -> Nat] : Counts(n, s)}
<1>1. T \subseteq Nat OBVIOUS
<1>2. ASSUME NEW m \in T, \A n \in T : m <= n PROVE FALSE
  <2>1. m # 0
    <3> DEFINE s0 == [k \in 0 .. 0 |-> 0]
    <3>1. s0 \in [0 .. 0 -> Nat] /\ Counts(0, s0) OBVIOUS
    <3> QED BY <3>1
  <2>2. m \in Nat /\ m - 1 \in 0 .. Len(f) /\ m \in 1 .. Len(f) BY <2>1
  <2>3. m - 1 \notin T
    <3> HIDE DEF T
    <3>1. ~(m <= m - 1) BY <2>2
    <3> QED BY <1>2, <3>1
  <2>4. PICK s \in [0 .. m - 1 -> Nat] : Counts(m - 1, s) BY <2>2, <2>3
  <2> DEFINE r == [k \in 0 .. m |-> IF k = m THEN s[m - 1] + f[m].nb ELSE s[k]]
  <2>5. f[m].nb \in Nat BY <2>2, SamplesOfFrame
  <2>6. r \in [0 .. m -> Nat] BY <2>2, <2>4, <2>5
  <2>7. r[0] = 0 BY <2>1, <2>2, <2>4
  <2>8. ASSUME NEW k \in 1 .. m PROVE r[k] = r[k - 1] + f[k].nb
    <3>1. k - 1 \in 0 .. m /\ k - 1 # m /\ r[k - 1] = s[k - 1] BY <2>2
    <3>2. CASE k = m BY <3>1, <3>2
    <3>3. CASE k # m
      <4>1. k \in 1 .. m - 1 /\ r[k] = s[k] BY <2>2, <3>3
      <4> QED BY <2>4, <3>1, <4>1
    <3> QED BY <3>2, <3>3
  <2> HIDE DEF r
  <2>9. Counts(m, r) BY <2>7, <2>8
  <2> QED BY <1>2, <2>6, <2>9
<1>3. T = {}
  <2> HIDE DEF T
  <2> QED BY <1>1, <1>2, LeastExists
<1> QED BY <1>3

LEMMA SamplesAre ==
    ASSUME NEW f \in Seq(Frame)
    PROVE  /\ SamplesIn(f) \in [0 .. Len(f) -> Nat]
           /\ SamplesIn(f)[0] = 0
           /\ \A k \in 1 .. Len(f) : SamplesIn(f)[k] = SamplesIn(f)[k - 1] + f[k].nb
<1>a. PICK m \in Nat : m = Len(f) OBVIOUS
<1> DEFINE Is(s) == s = [k \in 0 .. m |-> IF k = 0 THEN 0 ELSE s[k - 1] + f[k].nb]
           S == SamplesIn(f)
<1>1. \A k \in 1 .. m : f[k].nb \in Nat BY <1>a, SamplesOfFrame
<1>2. PICK s \in [0 .. m -> Nat] :
          s[0] = 0 /\ \A k \in 1 .. m : s[k] = s[k - 1] + f[k].nb
  <2>1. m \in 0 .. Len(f) BY <1>a
  <2> QED BY <2>1, SamplesExist
<1>3. Is(s)
  <2>1. \A k \in 0 .. m : s[k] = IF k = 0 THEN 0 ELSE s[k - 1] + f[k].nb BY <1>2
  <2> QED BY <1>2, <2>1
<1>4. S = CHOOSE t : Is(t) BY <1>a DEF SamplesIn
<1>5. Is(S)
  <2> HIDE DEF Is, S
  <2> QED BY <1>3, <1>4
<1> HIDE DEF S
<1>6. /\ S = [k \in 0 .. m |-> S[k]]
      /\ S[0] = 0 /\ \A k \in 1 .. m : S[k] = S[k - 1] + f[k].nb
  <2>1. \A k \in 0 .. m : S[k] = IF k = 0 THEN 0 ELSE S[k - 1] + f[k].nb BY <1>5
  <2>2. S = [k \in 0 .. m |-> S[k]] BY <1>5
  <2> HIDE DEF Is
  <2>3. 0 \in 0 .. m /\ \A k \in 1 .. m : k \in 0 .. m /\ k # 0 OBVIOUS
  <2>4. S[0] = 0 BY <2>1, <2>3, Zenon
  <2>5. \A k \in 1 .. m : S[k] = S[k - 1] + f[k].nb BY <2>1, <2>3, Zenon
  <2> QED BY <2>2, <2>4, <2>5
<1> HIDE DEF Is
<1> DEFINE T == {k \in 0 .. m : S[k] \notin Nat}
<1>7. ASSUME NEW k \in T, \A j \in T : k <= j PROVE FALSE
  <2>1. k \in 1 .. m BY <1>6
  <2>2. k - 1 \in 0 .. m /\ ~(k <= k - 1) BY <2>1
  <2>3. S[k - 1] \in Nat BY <2>2, <1>7
  <2>4. S[k] = S[k - 1] + f[k].nb /\ f[k].nb \in Nat BY <2>1, <1>1, <1>6, Zenon
  <2>5. S[k] \in Nat BY <2>3, <2>4
  <2> QED BY <2>5
<1>8. T = {}
  <2>1. T \subseteq Nat OBVIOUS
  <2> HIDE DEF T
  <2> QED BY <2>1, <1>7, LeastExists
<1>9. \A k \in 0 .. m : S[k] \in Nat BY <1>8
<1>10. S \in [0 .. m -> Nat] BY <1>6, <1>9
<1> QED BY <1>a, <1>6, <1>10 DEF S

(* Counts that grow alike from p on differ at the end by what they do at p.*)
LEMMA SameGrowth ==
    ASSUME NEW m \in Nat, NEW p \in 0 .. m, NEW d \in Int,
           NEW s \in [0 .. m -> Int], NEW t \in [0 .. m -> Int], s[p] = t[p] + d,
           \A k \in p + 1 .. m : s[k] - s[k - 1] = t[k] - t[k - 1]
    PROVE  s[m] = t[m] + d
<1> DEFINE T == {k \in p .. m : s[k] # t[k] + d}
<1>1. ASSUME NEW k \in T, \A j \in T : k <= j PROVE FALSE
  <2>1. k \in p + 1 .. m OBVIOUS
  <2>2. k - 1 \in p .. m /\ ~(k <= k - 1) BY <2>1
  <2>3. s[k - 1] = t[k - 1] + d BY <2>2, <1>1
  <2>4. s[k] \in Int /\ t[k] \in Int /\ s[k - 1] \in Int /\ t[k - 1] \in Int
    BY <2>1, <2>2
  <2>5. s[k] - s[k - 1] = t[k] - t[k - 1] BY <2>1, Zenon
  <2> DEFINE a == s[k - 1]  b == t[k - 1]  x == s[k]  y == t[k]
  <2>6. x = y + d
    <3>1. /\ a \in Int /\ b \in Int /\ x \in Int /\ y \in Int
          /\ a = b + d /\ x - a = y - b
      BY <2>3, <2>4, <2>5, Zenon
    <3> HIDE DEF a, b, x, y
    <3> QED BY <3>1
  <2> QED BY <2>6
<1>2. T = {}
  <2>1. T \subseteq Nat OBVIOUS
  <2> HIDE DEF T
  <2> QED BY <2>1, <1>1, LeastExists
<1>3. m \in p .. m OBVIOUS
<1> QED BY <1>2, <1>3

LEMMA AppendAddsSamples ==
    ASSUME NEW f \in Seq(Frame), NEW fr \in Frame
    PROVE  Total(Append(f, fr)) = Total(f) + fr.nb
<1> DEFINE g == Append(f, fr)  s == SamplesIn(g)  t == SamplesIn(f)
<1>1. /\ g \in Seq(Frame) /\ Len(f) \in Nat /\ Len(g) = Len(f) + 1
      /\ g[Len(f) + 1] = fr /\ \A k \in 1 .. Len(f) : g[k] = f[k]
  OBVIOUS
<1> HIDE DEF g
<1>a. PICK m \in Nat : m = Len(f) BY <1>1
<1>2. /\ s \in [0 .. m + 1 -> Nat] /\ s[0] = 0
      /\ \A k \in 1 .. m + 1 : s[k] = s[k - 1] + g[k].nb
  BY <1>1, <1>a, SamplesAre
<1>3. /\ t \in [0 .. m -> Nat] /\ t[0] = 0
      /\ \A k \in 1 .. m : t[k] = t[k - 1] + f[k].nb
  BY <1>a, SamplesAre
<1>4. \A k \in 1 .. m : g[k].nb = f[k].nb /\ f[k].nb \in Nat BY <1>1, <1>a, SamplesOfFrame
<1>5. g[m + 1] = fr /\ fr.nb \in Nat BY <1>1, <1>a DEF Frame
<1>6. Total(g) = s[m + 1] /\ Total(f) = t[m] BY <1>1, <1>a DEF Total
<1> HIDE DEF s, t
<1> DEFINE r == [k \in 0 .. m |-> s[k]]
<1>7. r \in [0 .. m -> Int] /\ t \in [0 .. m -> Int] /\ r[0] = t[0] + 0 BY <1>2, <1>3
<1>8. ASSUME NEW k \in 0 + 1 .. m PROVE r[k] - r[k - 1] = t[k] - t[k - 1]
  <2>1. k \in 1 .. m /\ k \in 1 .. m + 1 /\ k - 1 \in 0 .. m OBVIOUS
  <2>2. r[k] = s[k] /\ r[k - 1] = s[k - 1] BY <2>1
  <2>3. s[k - 1] \in Nat /\ t[k - 1] \in Nat BY <2>1, <1>2, <1>3
  <2>4. s[k] = s[k - 1] + g[k].nb /\ t[k] = t[k - 1] + f[k].nb BY <2>1, <1>2, <1>3
  <2> HIDE DEF r
  <2> QED BY <2>1, <2>2, <2>3, <2>4, <1>4
<1>9. r[m] = s[m] OBVIOUS
<1> HIDE DEF r
<1>10. r[m] = t[m] + 0
  <2>1. 0 \in 0 .. m OBVIOUS
  <2>2. \A k \in 0 + 1 .. m : r[k] - r[k - 1] = t[k] - t[k - 1] BY <1>8
  <2>3. 0 \in Int OBVIOUS
  <2> QED BY <2>1, <2>2, <2>3, <1>7, SameGrowth, Zenon
<1>11. t[m] \in Nat BY <1>3
<1>12. s[m + 1] = s[m] + fr.nb
  <2>1. m + 1 \in 1 .. m + 1 /\ (m + 1) - 1 = m OBVIOUS
  <2>2. s[m + 1] = s[(m + 1) - 1] + g[m + 1].nb BY <2>1, <1>2, Zenon
  <2> QED BY <2>1, <2>2, <1>5
<1>13. t[m] + 0 = t[m] BY <1>11
<1> QED BY <1>6, <1>9, <1>10, <1>12, <1>13, Zenon DEF g

(* What Rest leaves of a fifo: the frames after the k first, the first of   *)
(* them perhaps without n samples.                                         *)
LEMMA RestFrames ==
    ASSUME NEW f \in Seq(Frame), NEW k \in 0 .. Len(f), NEW n \in Nat,
           n # 0 => k < Len(f) /\ n < f[k + 1].nb
    PROVE  LET g == Rest(f, k, n)
               p == IF n = 0 THEN 0 ELSE 1
           IN  /\ g \in Seq(Frame) /\ Len(g) = Len(f) - k /\ p <= Len(g)
               /\ \A j \in p + 1 .. Len(g) : g[j] = f[k + j]
               /\ n # 0 => g[1].nb = f[k + 1].nb - n
<1> DEFINE g == Rest(f, k, n)  h == SubSeq(f, k + 2, Len(f))
<1>a. g \in Seq(Frame) BY RestIsTyped
<1>b. Len(f) \in Nat OBVIOUS
<1>1. CASE n = 0
  <2>1. g = SubSeq(f, k + 1, Len(f)) BY <1>1 DEF Rest
  <2>2. Len(g) = Len(f) - k BY <2>1, <1>b
  <2>3. \A j \in 1 .. Len(g) : g[j] = f[(k + 1) + j - 1] BY <2>1, <2>2, <1>b
  <2>4. \A j \in Int : (k + 1) + j - 1 = k + j OBVIOUS
  <2>5. \A j \in 1 .. Len(g) : g[j] = f[k + j] BY <2>3, <2>4
  <2>6. 0 + 1 = 1 /\ 0 <= Len(g) BY <2>2
  <2> QED BY <1>1, <1>a, <2>2, <2>5, <2>6
<1>2. CASE n # 0
  <2>1. g = <<Offset(f[k + 1], n)>> \o h BY <1>2 DEF Rest
  <2>2. h \in Seq(Frame) /\ Len(h) = Len(f) - k - 1 BY <1>2, <1>b
  <2>3. \A j \in 1 .. Len(h) : h[j] = f[(k + 2) + j - 1] BY <2>2, <1>b
  <2> HIDE DEF h, g
  <2>4. Len(g) = Len(f) - k BY <2>1, <2>2, <1>b
  <2>5. g[1] = Offset(f[k + 1], n) BY <2>1, <2>2
  <2>6. ASSUME NEW j \in 1 + 1 .. Len(g) PROVE g[j] = f[k + j]
    <3>1. j - 1 \in 1 .. Len(h) BY <2>2, <2>4, <1>b
    <3>2. g[j] = h[j - 1] BY <2>1, <2>2, <2>4, <1>b
    <3>3. (k + 2) + (j - 1) - 1 = k + j OBVIOUS
    <3> QED BY <3>1, <3>2, <3>3, <2>3
  <2>7. g[1].nb = f[k + 1].nb - n BY <2>5 DEF Offset
  <2>8. 1 <= Len(g) BY <2>4, <1>2, <1>b
  <2> QED BY <1>2, <1>a, <2>4, <2>6, <2>7, <2>8 DEF g
<1> QED BY <1>1, <1>2

LEMMA RestTakesSamples ==
    ASSUME NEW f \in Seq(Frame), NEW k \in 0 .. Len(f), NEW n \in Nat,
           n # 0 => k < Len(f) /\ n < f[k + 1].nb
    PROVE  Total(Rest(f, k, n)) = Total(f) - (SamplesIn(f)[k] + n)
<1> DEFINE g == Rest(f, k, n)  F == SamplesIn(f)  s == SamplesIn(g)
<1>1. PICK p \in 0 .. 1 : p = IF n = 0 THEN 0 ELSE 1 OBVIOUS
<1>2. PICK l \in Nat : l = Len(f) OBVIOUS
<1>3. PICK m \in Nat : m = l - k /\ k \in 0 .. l /\ k + m = l
  <2>1. k \in 0 .. l BY <1>2
  <2>2. l - k \in Nat /\ k + (l - k) = l BY <2>1
  <2> QED BY <2>1, <2>2, Zenon
<1>4. /\ g \in Seq(Frame) /\ Len(g) = m /\ p <= m
      /\ \A j \in p + 1 .. m : g[j] = f[k + j]
      /\ n # 0 => g[1].nb = f[k + 1].nb - n
  <2> DEFINE q == IF n = 0 THEN 0 ELSE 1
  <2>1. /\ g \in Seq(Frame) /\ Len(g) = Len(f) - k /\ q <= Len(g)
        /\ \A j \in q + 1 .. Len(g) : g[j] = f[k + j]
        /\ n # 0 => g[1].nb = f[k + 1].nb - n
    BY RestFrames, Zenon
  <2>2. Len(g) = m BY <2>1, <1>2, <1>3
  <2> QED BY <2>1, <2>2, <1>1, Zenon
<1> HIDE DEF g
<1>5. \A j \in 1 .. l : f[j].nb \in Nat BY <1>2, SamplesOfFrame
<1>6. F \in [0 .. l -> Nat] /\ \A j \in 1 .. l : F[j] = F[j - 1] + f[j].nb
  BY <1>2, SamplesAre
<1>7. s \in [0 .. m -> Nat] /\ s[0] = 0 /\ \A j \in 1 .. m : s[j] = s[j - 1] + g[j].nb
  BY <1>4, SamplesAre
<1>8. Total(g) = s[m] /\ Total(f) = F[l] BY <1>2, <1>4 DEF Total
<1>9. n # 0 => k + 1 \in 1 .. l BY <1>2, <1>3
<1> HIDE DEF F, s
<1> DEFINE t == [j \in 0 .. m |-> F[k + j]]
           d == 0 - (F[k] + n)
<1>10. F[k] \in Nat /\ F[l] \in Nat /\ d \in Int BY <1>3, <1>6
<1>11. \A j \in 0 .. m : k + j \in 0 .. l BY <1>3
<1>12. t \in [0 .. m -> Int] /\ s \in [0 .. m -> Int]
  <2>1. ASSUME NEW j \in 0 .. m PROVE F[k + j] \in Int
    <3>1. k + j \in 0 .. l BY <1>11
    <3>2. F[k + j] \in Nat BY <3>1, <1>6
    <3> QED BY <3>2
  <2>2. t \in [0 .. m -> Int] BY <2>1
  <2>3. \A j \in 0 .. m : s[j] \in Int BY <1>7
  <2>4. s = [j \in 0 .. m |-> s[j]] BY <1>7, Zenon
  <2> QED BY <2>2, <2>3, <2>4, Zenon
<1>13. s[p] = t[p] + d
  <2>1. CASE n = 0
    <3>1. p = 0 /\ t[0] = F[k] BY <2>1, <1>1, <1>3
    <3> QED BY <2>1, <3>1, <1>7, <1>10
  <2>2. CASE n # 0
    <3>a. p = 1 BY <2>2, <1>1
    <3>b. 1 \in 1 .. m /\ 1 \in 0 .. m BY <3>a, <1>4
    <3>1. p = 1 /\ t[1] = F[k + 1] /\ 1 \in 1 .. m BY <3>a, <3>b, Zenon
    <3>2. s[1] = s[0] + g[1].nb
      <4>1. s[1] = s[1 - 1] + g[1].nb BY <3>1, <1>7, Zenon
      <4>2. 1 - 1 = 0 OBVIOUS
      <4> QED BY <4>1, <4>2, Zenon
    <3>3. F[k + 1] = F[(k + 1) - 1] + f[k + 1].nb /\ f[k + 1].nb \in Nat
      BY <2>2, <1>9, <1>5, <1>6, Zenon
    <3>4. (k + 1) - 1 = k OBVIOUS
    <3> DEFINE a == F[k]  b == f[k + 1].nb  x == s[1]
    <3>5. x = b - n
      <4>1. x = 0 + (b - n) BY <2>2, <3>2, <1>4, <1>7, Zenon
      <4>2. b \in Nat BY <3>3
      <4> HIDE DEF x, b
      <4> QED BY <4>1, <4>2
    <3>6. t[1] = a + b BY <3>1, <3>3, <3>4, Zenon
    <3>7. a \in Nat /\ b \in Nat BY <1>10, <3>3
    <3>8. x = t[1] + d
      <4> HIDE DEF a, b, x, t
      <4>1. d = 0 - (a + n) BY DEF a
      <4> HIDE DEF d
      <4> QED BY <4>1, <3>5, <3>6, <3>7
    <3> QED BY <3>1, <3>8
  <2> QED BY <2>1, <2>2
<1>14. ASSUME NEW j \in p + 1 .. m PROVE s[j] - s[j - 1] = t[j] - t[j - 1]
  <2>1. j \in 1 .. m /\ j \in 0 .. m /\ j - 1 \in 0 .. m
        /\ k + j \in 1 .. l /\ k + (j - 1) = (k + j) - 1 /\ k + (j - 1) \in 0 .. l
    BY <1>3
  <2>2. t[j] = F[k + j] /\ t[j - 1] = F[(k + j) - 1] BY <2>1
  <2>3. F[k + j] = F[(k + j) - 1] + f[k + j].nb /\ f[k + j].nb \in Nat
    BY <2>1, <1>5, <1>6, Zenon
  <2>4. s[j] = s[j - 1] + f[k + j].nb BY <2>1, <1>4, <1>7, Zenon
  <2>5. s[j - 1] \in Nat /\ F[(k + j) - 1] \in Nat BY <2>1, <1>6, <1>7
  <2> DEFINE a == s[j - 1]  b == F[(k + j) - 1]  c == f[k + j].nb
  <2>6. a \in Nat /\ b \in Nat /\ c \in Nat BY <2>3, <2>5
  <2>7. s[j] = a + c /\ t[j] = b + c /\ s[j - 1] = a /\ t[j - 1] = b BY <2>2, <2>3, <2>4
  <2> HIDE DEF a, b, c, t
  <2> QED BY <2>6, <2>7
<1>15. t[m] = F[l] BY <1>3
<1> HIDE DEF t, d
<1>16. s[m] = t[m] + d
  <2>1. p \in 0 .. m BY <1>4
  <2> QED BY <2>1, <1>10, <1>12, <1>13, <1>14, SameGrowth
<1>17. F[l] + d = F[l] - (F[k] + n) BY <1>10 DEF d
<1> QED BY <1>8, <1>15, <1>16, <1>17 DEF F, g

LEMMA TailTakesHead ==
    ASSUME NEW f \in Seq(Frame), f # <<>>
    PROVE  Total(Tail(f)) = Total(f) - Head(f).nb
<1>1. 1 \in 0 .. Len(f) /\ 1 \in 1 .. Len(f) /\ Head(f) = f[1] OBVIOUS
<1>2. Tail(f) = Rest(f, 1, 0)
  <2>1. Rest(f, 1, 0) = SubSeq(f, 2, Len(f)) BY DEF Rest
  <2> QED BY <2>1
<1>3. Total(Rest(f, 1, 0)) = Total(f) - (SamplesIn(f)[1] + 0)
  BY <1>1, RestTakesSamples
<1>4. SamplesIn(f)[0] = 0 /\ SamplesIn(f)[1] = SamplesIn(f)[1 - 1] + f[1].nb
  BY <1>1, SamplesAre, Zenon
<1>5. 1 - 1 = 0 /\ f[1].nb \in Nat BY <1>1, SamplesOfFrame
<1> DEFINE a == f[1].nb  b == SamplesIn(f)[1]
<1>6. b = 0 + a BY <1>4, <1>5, Zenon
<1>7. b + 0 = a BY <1>5, <1>6
<1> QED BY <1>1, <1>2, <1>3, <1>7, Zenon

(* A fifo of frames with samples has samples, unless it is empty.          *)
LEMMA FramesHaveSamples ==
    ASSUME NEW f \in Seq(Frame), \A k \in 1 .. Len(f) : f[k].nb # 0
    PROVE  Total(f) \in Nat /\ (Total(f) = 0 => f = <<>>)
<1>1. PICK m \in Nat : m = Len(f) OBVIOUS
<1> DEFINE F == SamplesIn(f)
<1>2. F \in [0 .. m -> Nat] /\ \A k \in 1 .. m : F[k] = F[k - 1] + f[k].nb
  BY <1>1, SamplesAre
<1>3. Total(f) = F[m] BY <1>1 DEF Total
<1>4. \A k \in 1 .. m : f[k].nb \in Nat /\ f[k].nb # 0 BY <1>1, SamplesOfFrame
<1> HIDE DEF F
<1>5. F[m] \in Nat BY <1>2
<1>6. ASSUME m # 0 PROVE F[m] # 0
  <2>1. m \in 1 .. m /\ m - 1 \in 0 .. m BY <1>6
  <2>2. F[m] = F[m - 1] + f[m].nb /\ f[m].nb \in Nat /\ f[m].nb # 0
    BY <2>1, <1>2, <1>4, Zenon
  <2>3. F[m - 1] \in Nat BY <2>1, <1>2
  <2> DEFINE a == F[m - 1]  b == f[m].nb  x == F[m]
  <2>4. x # 0
    <3>1. x = a + b /\ a \in Nat /\ b \in Nat /\ b # 0 BY <2>2, <2>3
    <3> HIDE DEF a, b, x
    <3> QED BY <3>1
  <2> QED BY <2>4
<1>7. m = 0 => f = <<>>
  <2>1. Len(f) = 0 => f = <<>> OBVIOUS
  <2> QED BY <2>1, <1>1
<1> QED BY <1>3, <1>5, <1>6, <1>7

-----------------------------------------------------------------------------
(* What the fields count, and how audio is cut.                            *)

Fields ==
    /\ samples_sent \in [Streams -> Nat] /\ frames_sent \in [Streams -> Nat]
    /\ pc \in {"idle", "receive", "beat", "again"}
    /\ ended \subseteq Streams /\ in_finished \subseteq Streams /\ closed \in BOOLEAN
    /\ nb_sent \in [Streams -> Nat]
    /\ nb_out \in [Streams -> Nat]

Counted == \A i \in Streams : samples_queued[i] = Total(fifo[i])

LEMMA TypesAre == Typed /\ Fields /\ Counted <=> TypeOK /\ Typed
  BY DEF Typed, Fields, Counted, TypeOK, Total

LEMMA QuotientIsNat == \A a \in Nat, b \in Nat \ {0} : a \div b \in Nat
  OBVIOUS

(* A stream whose audio is cut has samples in each frame that it keeps, and*)
(* once it has output less than was asked for it is over.                  *)
AudioInv ==
    \A i \in Streams : frame_samples[i] # 0 =>
        /\ \A k \in 1 .. Len(fifo[i]) : fifo[i][k].nb # 0
        /\ nb_out[i] # 0 /\ last_out[i].nb # frame_samples[i]
             => i \in sq.finished /\ samples_queued[i] = 0

CutInv == Fields /\ Counted /\ AudioInv

LEMMA RestHasSamples ==
    ASSUME NEW f \in Seq(Frame), \A j \in 1 .. Len(f) : f[j].nb # 0,
           NEW k \in 0 .. Len(f), NEW n \in Nat, n # 0 => k < Len(f) /\ n < f[k + 1].nb
    PROVE  \A j \in 1 .. Len(Rest(f, k, n)) : Rest(f, k, n)[j].nb # 0
<1> DEFINE g == Rest(f, k, n)  q == IF n = 0 THEN 0 ELSE 1
<1>1. /\ g \in Seq(Frame) /\ Len(g) = Len(f) - k /\ q <= Len(g)
      /\ \A j \in q + 1 .. Len(g) : g[j] = f[k + j]
      /\ n # 0 => g[1].nb = f[k + 1].nb - n
  BY RestFrames, Zenon
<1> HIDE DEF g
<1>2. ASSUME NEW j \in 1 .. Len(g) PROVE g[j].nb # 0
  <2>1. k + j \in 1 .. Len(f) /\ f[k + j].nb # 0 BY <1>1
  <2>2. CASE j \in q + 1 .. Len(g) BY <2>1, <2>2, <1>1, Zenon
  <2>3. CASE j \notin q + 1 .. Len(g)
    <3>1. n # 0 /\ j = 1 BY <2>3, <1>1
    <3>2. f[k + 1].nb \in Nat BY <2>1, <3>1, SamplesOfFrame
    <3>3. g[1].nb = f[k + 1].nb - n /\ n < f[k + 1].nb BY <3>1, <1>1
    <3> DEFINE a == f[k + 1].nb  b == g[1].nb
    <3>4. b # 0
      <4>1. a \in Nat /\ b = a - n /\ n < a BY <3>2, <3>3
      <4> HIDE DEF a, b
      <4> QED BY <4>1
    <3> QED BY <3>1, <3>4
  <2> QED BY <2>2, <2>3
<1> QED BY <1>2 DEF g

(* receive_samples() takes as many samples as the frame that it returns is *)
(* to have: fewer than asked for only of a stream that is over.            *)
LEMMA ReadSamplesCuts ==
    ASSUME Inv, CutInv, NEW i \in Streams, HasOutput(i), ReadSamples(i)
    PROVE  /\ fifo'[i] \in Seq(Frame) /\ fifo' = [fifo EXCEPT ![i] = fifo'[i]]
           /\ Total(fifo'[i]) = samples_queued[i] - NbSamples(i)
           /\ samples_queued' = [samples_queued EXCEPT ![i] = samples_queued[i] - NbSamples(i)]
           /\ \A k \in 1 .. Len(fifo'[i]) : fifo'[i][k].nb # 0
           /\ frame_samples[i] # 0 /\ NbSamples(i) \in 1 .. frame_samples[i]
           /\ last_out'[i].nb = NbSamples(i)
           /\ \A j \in Streams \ {i} : last_out'[j] = last_out[j]
           /\ NbSamples(i) # frame_samples[i]
                => i \in sq.finished /\ samples_queued[i] = NbSamples(i)
<1>1. /\ fifo \in [Streams -> Seq(Frame)] /\ fifo[i] \in Seq(Frame) /\ fifo[i] # <<>>
      /\ NbSamples(i) \in Nat
  BY OutputIsTyped DEF Inv, Typed
<1>2. frame_samples[i] # 0 BY DEF ReadSamples
<1>3. \A k \in 1 .. Len(fifo[i]) : fifo[i][k].nb # 0 BY <1>2 DEF CutInv, AudioInv
<1>4. samples_queued[i] = Total(fifo[i]) BY DEF CutInv, Counted
<1>5. samples_queued[i] \in Nat /\ samples_queued[i] # 0
  BY <1>1, <1>3, <1>4, FramesHaveSamples
<1>6. PICK k \in 0 .. Len(fifo[i]), n \in 0 .. NbSamples(i) :
        /\ SamplesIn(fifo[i])[k] + n = NbSamples(i)
        /\ n # 0 => k < Len(fifo[i]) /\ n < fifo[i][k + 1].nb
        /\ fifo' = [fifo EXCEPT ![i] = Rest(fifo[i], k, n)]
  BY DEF ReadSamples
<1>7. n \in Nat BY <1>1
<1>8. fifo'[i] = Rest(fifo[i], k, n) BY <1>1, <1>6
<1>9. fifo'[i] \in Seq(Frame) BY <1>1, <1>6, <1>7, <1>8, RestIsTyped
<1>10. Total(fifo'[i]) = samples_queued[i] - NbSamples(i)
  <2>1. Total(Rest(fifo[i], k, n)) = Total(fifo[i]) - (SamplesIn(fifo[i])[k] + n)
    BY <1>1, <1>6, <1>7, RestTakesSamples
  <2> QED BY <2>1, <1>4, <1>6, <1>8
<1>11. \A j \in 1 .. Len(fifo'[i]) : fifo'[i][j].nb # 0
  <2>1. \A j \in 1 .. Len(Rest(fifo[i], k, n)) : Rest(fifo[i], k, n)[j].nb # 0
    BY <1>1, <1>3, <1>6, <1>7, RestHasSamples
  <2> QED BY <2>1, <1>8
<1>12. frame_samples[i] \in Nat BY SyncQueueAssumption
<1>13. NbSamples(i) \in 1 .. frame_samples[i] BY <1>2, <1>5, <1>12 DEF NbSamples
<1>14. NbSamples(i) # frame_samples[i]
        => i \in sq.finished /\ samples_queued[i] = NbSamples(i)
  BY <1>2, <1>5, <1>12 DEF NbSamples, HasOutput
<1>15. /\ samples_queued' = [samples_queued EXCEPT ![i] = samples_queued[i] - NbSamples(i)]
       /\ last_out' = [last_out EXCEPT ![i] = [pts |-> Head(fifo[i]).pts,
                                               dur |-> NbSamples(i), nb |-> NbSamples(i)]]
  BY DEF ReadSamples
<1>16. last_out'[i].nb = NbSamples(i) /\ \A j \in Streams \ {i} : last_out'[j] = last_out[j]
  BY <1>15 DEF Inv, Typed
<1> QED BY <1>2, <1>6, <1>8, <1>9, <1>10, <1>11, <1>13, <1>14, <1>15, <1>16

LEMMA FinishedGrows ==
    ASSUME NEW q, NEW i, NEW ts
    PROVE  /\ q.finished \subseteq FinishStream(q, i).finished
           /\ q.finished \subseteq StreamUpdateTs(q, i, ts).finished
<1>1. ASSUME NEW p PROVE p.finished \subseteq FinishStream(p, i).finished
  BY DEF FinishStream
<1>2. CASE ts <= q.head_ts[i] BY <1>1, <1>2 DEF StreamUpdateTs
<1>3. CASE ~(ts <= q.head_ts[i])
  <2> DEFINE q1 == [head_ts |-> [q.head_ts EXCEPT ![i] = ts], finished |-> q.finished,
                    head_stream |-> q.head_stream,
                    head_finished_stream |-> q.head_finished_stream, eof |-> q.eof]
             q2 == IF q.head_finished_stream >= 0 /\ q.head_ts[q.head_finished_stream] <= ts
                     THEN FinishStream(q1, i) ELSE q1
  <2>1. StreamUpdateTs(q, i, ts).finished = q2.finished BY <1>3 DEF StreamUpdateTs
  <2>2. q1.finished = q.finished OBVIOUS
  <2> HIDE DEF q1
  <2> QED BY <1>1, <2>1, <2>2
<1> QED BY <1>1, <1>2, <1>3

LEMMA CutKept ==
    ASSUME CutInv, UNCHANGED <<fifoVars, outVars>>, sq.finished \subseteq sq'.finished,
           pc' \in {"idle", "receive", "beat", "again"}, closed' \in BOOLEAN,
           ended' \subseteq Streams, in_finished' \subseteq Streams,
           nb_sent' \in [Streams -> Nat]
    PROVE  CutInv'
<1>1. UNCHANGED <<fifo, samples_queued, samples_sent, frames_sent, nb_out, last_out>>
  BY DEF fifoVars, outVars
<1>2. Fields' BY <1>1 DEF CutInv, Fields
<1>3. Counted' BY <1>1 DEF CutInv, Counted, Total
<1>4. AudioInv' BY <1>1 DEF CutInv, AudioInv
<1> QED BY <1>2, <1>3, <1>4 DEF CutInv

LEMMA InitCut == Init => CutInv
<1> SUFFICES ASSUME Init PROVE CutInv OBVIOUS
<1>1. Fields BY DEF Init, Fields
<1>2. Counted
  <2>1. \A i \in Streams : samples_queued[i] = 0 /\ fifo[i] = <<>> BY DEF Init
  <2>2. <<>> \in Seq(Frame) /\ Len(<<>>) = 0 OBVIOUS
  <2>3. Total(<<>>) = 0 BY <2>2, SamplesAre DEF Total
  <2> QED BY <2>1, <2>3 DEF Counted
<1>3. AudioInv BY DEF Init, AudioInv
<1> QED BY <1>1, <1>2, <1>3 DEF CutInv

LEMMA SendCuts ==
    ASSUME Inv, CutInv, NEW i \in Streams, NEW fr \in Frames[i], Send(i, fr)
    PROVE  CutInv'
<1>a. fr \in Frame /\ fr.nb \in Nat /\ (frame_samples[i] # 0 => fr.nb # 0)
      /\ fr.dur \in Nat /\ fr.pts \in Nat \cup {NOPTS}
  BY SyncQueueAssumption DEF Frame
<1>b. fifo \in [Streams -> Seq(Frame)] /\ samples_queued \in [Streams -> Int]
  BY DEF Inv, Typed
<1>c. frame_samples[i] \in Nat BY SyncQueueAssumption
<1>d. samples_sent \in [Streams -> Nat] /\ frames_sent \in [Streams -> Nat]
      /\ nb_sent \in [Streams -> Nat]
  BY DEF CutInv, Fields
<1>1. /\ fifo' = [fifo EXCEPT ![i] = Append(fifo[i], fr)]
      /\ samples_queued' = [samples_queued EXCEPT ![i] = samples_queued[i] + fr.nb]
      /\ i \notin sq.finished /\ UNCHANGED <<nb_out, last_out, ended, in_finished, closed>>
  BY DEF Send, outVars
<1>2. Fields'
  <2>1. samples_sent' \in [Streams -> Nat] BY <1>a, <1>d DEF Send
  <2>2. FramesSent(i, fr) \in Nat
    <3>1. samples_sent[i] + fr.nb \in Nat /\ frames_sent[i] + 1 \in Nat BY <1>a, <1>d
    <3>2. CASE frame_samples[i] # 0
      <4>1. (samples_sent[i] + fr.nb) \div frame_samples[i] \in Nat
        BY <3>1, <3>2, <1>c, QuotientIsNat
      <4> QED BY <4>1, <3>2 DEF FramesSent
    <3>3. CASE frame_samples[i] = 0 BY <3>1, <3>3 DEF FramesSent
    <3> QED BY <3>2, <3>3
  <2>3. frames_sent' = [frames_sent EXCEPT ![i] = FramesSent(i, fr)] BY DEF Send
  <2>4. frames_sent' \in [Streams -> Nat] BY <2>2, <2>3, <1>d
  <2>5. nb_sent' \in [Streams -> Nat]
    <3>1. nb_sent' = [nb_sent EXCEPT ![i] = nb_sent[i] + 1] BY DEF Send
    <3>2. nb_sent[i] + 1 \in Nat BY <1>d
    <3> QED BY <3>1, <3>2, <1>d
  <2>6. pc' = "receive" BY DEF Send
  <2> QED BY <2>1, <2>4, <2>5, <2>6, <1>1 DEF CutInv, Fields
<1>3. Counted'
  <2> SUFFICES ASSUME NEW j \in Streams PROVE samples_queued'[j] = Total(fifo'[j])
    BY DEF Counted, Total
  <2>1. samples_queued[j] = Total(fifo[j]) BY DEF CutInv, Counted
  <2>2. CASE j = i
    <3>1. Total(Append(fifo[i], fr)) = Total(fifo[i]) + fr.nb BY <1>a, <1>b, AppendAddsSamples
    <3>2. fifo'[j] = Append(fifo[i], fr) /\ samples_queued'[j] = samples_queued[i] + fr.nb
      BY <1>1, <1>b, <2>2
    <3> QED BY <2>1, <2>2, <3>1, <3>2
  <2>3. CASE j # i
    <3>1. fifo'[j] = fifo[j] /\ samples_queued'[j] = samples_queued[j] BY <1>1, <1>b, <2>3
    <3> QED BY <2>1, <3>1
  <2> QED BY <2>2, <2>3
<1>4. sq.finished \subseteq sq'.finished
  <2> DEFINE q == StreamUpdateTs(sq, i, FrameEnd(fr, 0))
  <2>1. sq' = FinishStream(q, i) \/ sq' = q BY DEF Send
  <2>2. sq.finished \subseteq q.finished /\ q.finished \subseteq FinishStream(q, i).finished
    BY FinishedGrows
  <2> QED BY <2>1, <2>2
<1>5. AudioInv'
  <2> SUFFICES ASSUME NEW j \in Streams, frame_samples[j] # 0
               PROVE  /\ \A k \in 1 .. Len(fifo'[j]) : fifo'[j][k].nb # 0
                      /\ nb_out'[j] # 0 /\ last_out'[j].nb # frame_samples[j]
                           => j \in sq'.finished /\ samples_queued'[j] = 0
    BY DEF AudioInv
  <2>1. /\ \A k \in 1 .. Len(fifo[j]) : fifo[j][k].nb # 0
        /\ nb_out[j] # 0 /\ last_out[j].nb # frame_samples[j]
             => j \in sq.finished /\ samples_queued[j] = 0
    BY DEF CutInv, AudioInv
  <2>2. CASE j = i
    <3>1. fifo'[j] = Append(fifo[j], fr) /\ fifo[j] \in Seq(Frame) BY <1>1, <1>b, <2>2
    <3>2. fr.nb # 0 BY <1>a, <2>2
    <3>3. \A k \in 1 .. Len(fifo'[j]) : fifo'[j][k].nb # 0 BY <3>1, <3>2, <2>1
    <3>4. ~(nb_out[j] # 0 /\ last_out[j].nb # frame_samples[j]) BY <2>1, <2>2, <1>1
    <3> QED BY <3>3, <3>4, <1>1
  <2>3. CASE j # i
    <3>1. fifo'[j] = fifo[j] /\ samples_queued'[j] = samples_queued[j] BY <1>1, <1>b, <2>3
    <3> QED BY <2>1, <3>1, <1>1, <1>4
  <2> QED BY <2>2, <2>3
<1> QED BY <1>2, <1>3, <1>5 DEF CutInv

LEMMA ReceiveCuts == ASSUME Inv, CutInv, Receive PROVE CutInv'
<1>a. Ready \subseteq Nat BY StreamsAreNat DEF Ready
<1>b. PICK i \in Ready : /\ ReadFrame(i) \/ ReadSamples(i)
                         /\ nb_out' = [nb_out EXCEPT ![i] = @ + 1]
                         /\ \/ UNCHANGED <<sq, in_finished>>
                            \/ /\ in_finished' = in_finished \cup {i}
                               /\ sq' = FinishStream(sq, i)
  <2>1. Min(Ready) \in Ready BY <1>a, MinIsLeast DEF Receive
  <2> QED BY <2>1 DEF Receive
<1>c. i \in Streams /\ HasOutput(i) BY DEF Ready
<1>d. fifo \in [Streams -> Seq(Frame)] /\ samples_queued \in [Streams -> Int]
      /\ last_out \in [Streams -> Frame] /\ nb_out \in [Streams -> Nat]
  BY DEF Inv, Typed, CutInv, Fields
<1>1. sq.finished \subseteq sq'.finished /\ in_finished' \subseteq Streams
  <2>1. sq.finished \subseteq FinishStream(sq, i).finished BY FinishedGrows
  <2> QED BY <2>1, <1>b, <1>c DEF CutInv, Fields
<1>2. Fields'
  <2>1. nb_out' \in [Streams -> Nat] BY <1>b, <1>c, <1>d
  <2> QED BY <2>1, <1>1 DEF Receive, CutInv, Fields
<1>3. \A j \in Streams \ {i} : /\ fifo'[j] = fifo[j] /\ samples_queued'[j] = samples_queued[j]
                               /\ last_out'[j] = last_out[j] /\ nb_out'[j] = nb_out[j]
  <2>1. CASE ReadFrame(i) BY <2>1, <1>b, <1>d DEF ReadFrame
  <2>2. CASE ReadSamples(i)
    <3>1. /\ fifo' = [fifo EXCEPT ![i] = fifo'[i]]
          /\ samples_queued' = [samples_queued EXCEPT ![i] = samples_queued[i] - NbSamples(i)]
          /\ \A j \in Streams \ {i} : last_out'[j] = last_out[j]
      BY <2>2, <1>c, ReadSamplesCuts
    <3>2. \A j \in Streams \ {i} : fifo'[j] = fifo[j] BY <3>1, <1>d, Zenon
    <3>3. \A j \in Streams \ {i} : samples_queued'[j] = samples_queued[j] BY <3>1, <1>d
    <3>4. \A j \in Streams \ {i} : nb_out'[j] = nb_out[j] BY <1>b, <1>d
    <3> QED BY <3>1, <3>2, <3>3, <3>4, Zenon
  <2> QED BY <1>b, <2>1, <2>2
<1>4. samples_queued'[i] = Total(fifo'[i])
  <2>0. samples_queued[i] = Total(fifo[i]) BY <1>c DEF CutInv, Counted
  <2>1. CASE ReadFrame(i)
    <3>1. fifo[i] \in Seq(Frame) /\ fifo[i] # <<>> BY <1>c, OutputIsTyped DEF Inv, Typed
    <3>2. fifo'[i] = Tail(fifo[i]) /\ samples_queued'[i] = samples_queued[i] - Head(fifo[i]).nb
      BY <2>1, <1>c, <1>d DEF ReadFrame
    <3>3. Total(Tail(fifo[i])) = Total(fifo[i]) - Head(fifo[i]).nb BY <3>1, TailTakesHead
    <3> QED BY <2>0, <3>2, <3>3
  <2>2. CASE ReadSamples(i)
    <3>1. Total(fifo'[i]) = samples_queued[i] - NbSamples(i)
          /\ samples_queued' = [samples_queued EXCEPT ![i] = samples_queued[i] - NbSamples(i)]
      BY <2>2, <1>c, ReadSamplesCuts
    <3> QED BY <3>1, <1>c, <1>d
  <2> QED BY <1>b, <2>1, <2>2
<1>5. Counted'
  <2> SUFFICES ASSUME NEW j \in Streams PROVE samples_queued'[j] = Total(fifo'[j])
    BY DEF Counted, Total
  <2>1. samples_queued[j] = Total(fifo[j]) BY DEF CutInv, Counted
  <2>2. CASE j = i BY <2>2, <1>4
  <2>3. CASE j # i BY <2>1, <2>3, <1>3
  <2> QED BY <2>2, <2>3
<1>6. frame_samples[i] # 0 =>
        /\ \A k \in 1 .. Len(fifo'[i]) : fifo'[i][k].nb # 0
        /\ last_out'[i].nb # frame_samples[i] => i \in sq'.finished /\ samples_queued'[i] = 0
  <2> SUFFICES ASSUME frame_samples[i] # 0
               PROVE  /\ \A k \in 1 .. Len(fifo'[i]) : fifo'[i][k].nb # 0
                      /\ last_out'[i].nb # frame_samples[i]
                           => i \in sq'.finished /\ samples_queued'[i] = 0
    OBVIOUS
  <2>1. ReadSamples(i) BY <1>b DEF ReadFrame
  <2>2. /\ samples_queued' = [samples_queued EXCEPT ![i] = samples_queued[i] - NbSamples(i)]
        /\ \A k \in 1 .. Len(fifo'[i]) : fifo'[i][k].nb # 0
        /\ last_out'[i].nb = NbSamples(i)
        /\ NbSamples(i) # frame_samples[i]
             => i \in sq.finished /\ samples_queued[i] = NbSamples(i)
    BY <2>1, <1>c, ReadSamplesCuts
  <2>3. samples_queued'[i] = samples_queued[i] - NbSamples(i) BY <2>2, <1>c, <1>d
  <2>4. NbSamples(i) # frame_samples[i] => samples_queued'[i] = 0
    BY <2>2, <2>3, <1>c, <1>d
  <2> QED BY <2>2, <2>4, <1>1
<1>7. AudioInv'
  <2> SUFFICES ASSUME NEW j \in Streams, frame_samples[j] # 0
               PROVE  /\ \A k \in 1 .. Len(fifo'[j]) : fifo'[j][k].nb # 0
                      /\ nb_out'[j] # 0 /\ last_out'[j].nb # frame_samples[j]
                           => j \in sq'.finished /\ samples_queued'[j] = 0
    BY DEF AudioInv
  <2>1. CASE j = i BY <2>1, <1>6
  <2>2. CASE j # i
    <3>1. /\ \A k \in 1 .. Len(fifo[j]) : fifo[j][k].nb # 0
          /\ nb_out[j] # 0 /\ last_out[j].nb # frame_samples[j]
               => j \in sq.finished /\ samples_queued[j] = 0
      BY DEF CutInv, AudioInv
    <3>2. fifo'[j] = fifo[j] /\ samples_queued'[j] = samples_queued[j]
          /\ last_out'[j] = last_out[j] /\ nb_out'[j] = nb_out[j]
      BY <2>2, <1>3
    <3> QED BY <3>1, <3>2, <1>1
  <2> QED BY <2>1, <2>2
<1> QED BY <1>2, <1>5, <1>7 DEF CutInv

LEMMA StepCut == Inv /\ CutInv /\ [Next]_vars => CutInv'
<1> SUFFICES ASSUME Inv, CutInv, [Next]_vars PROVE CutInv' OBVIOUS
<1>a. /\ pc \in {"idle", "receive", "beat", "again"} /\ closed \in BOOLEAN
      /\ ended \subseteq Streams /\ in_finished \subseteq Streams
      /\ nb_sent \in [Streams -> Nat]
  BY DEF CutInv, Fields
<1>1. ASSUME NEW i \in Streams, NEW fr \in Frames[i], Send(i, fr) PROVE CutInv'
  BY <1>1, SendCuts
<1>2. ASSUME NEW i \in Streams, SendRefused(i) PROVE CutInv'
  BY <1>2, <1>a, CutKept DEF SendRefused
<1>3. ASSUME NEW i \in Streams, SendEOF(i) PROVE CutInv'
  BY <1>3, <1>a, CutKept, FinishedGrows DEF SendEOF
<1>4. CASE Receive BY <1>4, ReceiveCuts
<1>5. CASE OverflowHeartbeat BY <1>5, <1>a, CutKept DEF OverflowHeartbeat
<1>6. CASE Heartbeat
  <2>1. sq.finished \subseteq sq'.finished /\ pc' \in {pc, "again"}
    BY <1>6, FinishedGrows DEF Heartbeat
  <2> QED BY <1>6, <1>a, <2>1, CutKept DEF Heartbeat
<1>7. CASE ReceiveNothing BY <1>7, <1>a, CutKept DEF ReceiveNothing
<1>8. CASE UNCHANGED vars BY <1>8, <1>a, CutKept DEF vars
<1> QED BY <1>1, <1>2, <1>3, <1>4, <1>5, <1>6, <1>7, <1>8 DEF Next, SendStep, ReceiveStep

LEMMA CutInvHolds == Spec => []CutInv
  BY InitCut, StepCut, InvHolds, PTL DEF Spec

-----------------------------------------------------------------------------
(* Overflow.  While heartbeats are sent the stream they are sent for stays *)
(* the one that is most ahead, but for ties with a stream that just got    *)
(* its heartbeat; after the last of them none lags behind the tail.        *)

NoLaggard ==
    \A i \in Streams :
        Overflows(i) => \A j \in Streams \ (sq.finished \cup {i}) : TailTs(i) < sq.head_ts[j]

EofAtEnd(q) == q.eof => q.finished = Streams

NotAhead(k, s) ==
    \/ sq.head_ts[k] < sq.head_ts[s]
    \/ sq.head_ts[k] = sq.head_ts[s] /\ s <= k
    \/ sq.head_ts[k] = beat.ts

Beating ==
    /\ TailTs(beat.stream) < beat.ts /\ beat.ts <= sq.head_ts[beat.stream]
    /\ \A k \in Streams : NotAhead(k, beat.stream)

BeatInv ==
    /\ EofAtEnd(sq)
    /\ pc = "beat" => Beating
    /\ pc \in {"idle", "again"} => NoLaggard

LEMMA EofKept ==
    ASSUME NEW q, EofAtEnd(q), q.finished \subseteq Streams, NEW i \in Streams, NEW ts
    PROVE  EofAtEnd(FinishStream(q, i)) /\ EofAtEnd(StreamUpdateTs(q, i, ts))
<1>1. ASSUME NEW p, EofAtEnd(p), p.finished \subseteq Streams
      PROVE  EofAtEnd(FinishStream(p, i))
  <2>1. \A h : NotBehind(p, h) \subseteq Streams BY DEF NotBehind, Stamped
  <2> QED BY <1>1, <2>1 DEF EofAtEnd, FinishStream
<1>2. CASE ts <= q.head_ts[i] BY <1>1, <1>2 DEF StreamUpdateTs
<1>3. CASE ~(ts <= q.head_ts[i])
  <2> DEFINE q1 == [head_ts |-> [q.head_ts EXCEPT ![i] = ts], finished |-> q.finished,
                    head_stream |-> q.head_stream,
                    head_finished_stream |-> q.head_finished_stream, eof |-> q.eof]
             q2 == IF q.head_finished_stream >= 0 /\ q.head_ts[q.head_finished_stream] <= ts
                     THEN FinishStream(q1, i) ELSE q1
  <2>1. /\ StreamUpdateTs(q, i, ts).finished = q2.finished
        /\ StreamUpdateTs(q, i, ts).eof = q2.eof
    BY <1>3 DEF StreamUpdateTs
  <2>2. EofAtEnd(q1) /\ q1.finished \subseteq Streams BY DEF EofAtEnd
  <2> HIDE DEF q1
  <2>3. EofAtEnd(q2) BY <1>1, <2>2
  <2> HIDE DEF q2
  <2> QED BY <1>1, <2>1, <2>3 DEF EofAtEnd
<1> QED BY <1>1, <1>2, <1>3

LEMMA HeartbeatMoves ==
    ASSUME NEW q, NEW i \in Streams, NEW ts, ~(ts <= q.head_ts[i])
    PROVE  StreamUpdateTs(q, i, ts).head_ts = [q.head_ts EXCEPT ![i] = ts]
  BY DEF StreamUpdateTs, FinishStream

LEMMA SameOverflow ==
    ASSUME UNCHANGED <<fifo, sq>>
    PROVE  /\ NoLaggard' = NoLaggard
           /\ \A i : Overflows(i)' = Overflows(i) /\ TailTs(i)' = TailTs(i)
<1>1. \A i : Overflows(i)' = Overflows(i) /\ TailTs(i)' = TailTs(i)
  BY DEF Overflows, MostAhead, Stamped, StampedFrames, TailTs
<1> QED BY <1>1 DEF NoLaggard

LEMMA OverflowHeartbeatBeats == ASSUME Inv, BeatInv, OverflowHeartbeat PROVE BeatInv'
<1>1. UNCHANGED <<fifo, sq>> /\ pc' = "beat" BY DEF OverflowHeartbeat, fifoVars
<1>2. PICK s \in Streams : Overflows(s) /\ beat' = [stream |-> s, ts |-> TailTs(s) + 1]
  BY DEF OverflowHeartbeat
<1>3. sq.head_ts \in [Streams -> Nat \cup {NOPTS}] BY DEF Inv, Typed, Heads
<1>4. sq.head_ts[s] \in Nat /\ TailTs(s) < sq.head_ts[s] /\ StampedFrames(s) # {}
  BY <1>2, <1>3 DEF Overflows, MostAhead, Stamped
<1>5. TailTs(s) \in Int BY <1>4, TailIsNat
<1>6. TailTs(s)' = TailTs(s) BY <1>1, SameOverflow
<1>7. TailTs(s)' < beat'.ts /\ beat'.ts <= sq'.head_ts[s] /\ beat'.stream = s
  BY <1>1, <1>2, <1>4, <1>5, <1>6
<1>8. ASSUME NEW k \in Streams PROVE NotAhead(k, s)'
  <2>1. CASE k \in Stamped(sq) BY <1>1, <1>2, <2>1 DEF Overflows, MostAhead, NotAhead
  <2>2. CASE k \notin Stamped(sq)
    <3>1. sq.head_ts[k] = -1 BY <2>2 DEF Stamped, NOPTS
    <3> QED BY <1>1, <1>4, <3>1 DEF NotAhead
  <2> QED BY <2>1, <2>2
<1>9. TailTs(beat.stream)' < beat'.ts BY <1>7 DEF TailTs, StampedFrames
<1> QED BY <1>1, <1>7, <1>8, <1>9 DEF BeatInv, EofAtEnd, Beating

LEMMA HeartbeatBeats == ASSUME Inv, BeatInv, Heartbeat PROVE BeatInv'
<1> DEFINE s == beat.stream
<1>1. Beating /\ EofAtEnd(sq) /\ UNCHANGED fifo BY DEF BeatInv, Heartbeat, fifoVars
<1>2. s \in Streams /\ beat.ts \in Nat BY DEF Inv, Typed
<1>3. sq.head_ts \in [Streams -> Nat \cup {NOPTS}] /\ sq.finished \subseteq Streams
  BY DEF Inv, Typed, Heads
<1>4. TailTs(s) < beat.ts /\ beat.ts <= sq.head_ts[s] /\ \A k \in Streams : NotAhead(k, s)
  BY <1>1 DEF Beating
<1>5. CASE Lagging = {}
  <2>1. UNCHANGED <<fifo, sq>> /\ pc' = "again" BY <1>1, <1>5 DEF Heartbeat
  <2>2. NoLaggard
    <3> SUFFICES ASSUME NEW i \in Streams, Overflows(i), NEW j \in Streams \ (sq.finished \cup {i})
                 PROVE  TailTs(i) < sq.head_ts[j]
      BY DEF NoLaggard
    <3>1. MostAhead(i) /\ StampedFrames(i) # {} /\ TailTs(i) < sq.head_ts[i] BY DEF Overflows
    <3>2. TailTs(i) \in Int BY <3>1, TailIsNat
    <3>3. s \in Stamped(sq) BY <1>2, <1>3, <1>4 DEF Stamped, NOPTS
    <3>4. sq.head_ts[s] < sq.head_ts[i] \/ (sq.head_ts[s] = sq.head_ts[i] /\ i <= s)
      BY <3>1, <3>3 DEF MostAhead
    <3>5. sq.head_ts[s] \in Int /\ sq.head_ts[i] \in Int /\ sq.head_ts[j] \in Int
      BY <1>2, <1>3 DEF NOPTS
    <3>6. TailTs(i) < beat.ts
      <4>1. CASE i = s BY <1>4, <4>1
      <4>2. CASE i # s
        <5>1. i \in Nat /\ s \in Nat BY <1>2, StreamsAreNat
        <5>2. sq.head_ts[i] = beat.ts BY <1>4, <3>4, <3>5, <4>2, <5>1 DEF NotAhead
        <5> QED BY <3>1, <5>2
      <4> QED BY <4>1, <4>2
    <3>7. beat.ts <= sq.head_ts[j]
      <4>1. CASE j = s BY <1>4, <4>1
      <4>2. CASE j # s
        <5>1. ~(sq.head_ts[j] < beat.ts) BY <1>5, <4>2 DEF Lagging
        <5> QED BY <1>2, <3>5, <5>1
      <4> QED BY <4>1, <4>2
    <3> QED BY <1>2, <3>2, <3>5, <3>6, <3>7
  <2>3. NoLaggard' BY <2>1, <2>2, SameOverflow
  <2> QED BY <1>1, <2>1, <2>3 DEF BeatInv, EofAtEnd
<1>6. CASE Lagging # {}
  <2> DEFINE i == Min(Lagging)
  <2>1. Lagging \subseteq Streams BY DEF Lagging
  <2>2. Lagging \subseteq Nat BY <2>1, StreamsAreNat
  <2>3. i \in Lagging BY <1>6, <2>2, MinIsLeast
  <2>4. i \in Streams /\ i # s /\ sq.head_ts[i] < beat.ts BY <2>3 DEF Lagging
  <2>5. sq' = StreamUpdateTs(sq, i, beat.ts) /\ UNCHANGED <<pc, beat>> BY <1>6 DEF Heartbeat
  <2> HIDE DEF i
  <2>6. sq.head_ts[i] \in Int BY <1>3, <2>4 DEF NOPTS
  <2>7. ~(beat.ts <= sq.head_ts[i]) BY <1>2, <2>4, <2>6
  <2>8. sq'.head_ts = [sq.head_ts EXCEPT ![i] = beat.ts] BY <2>4, <2>5, <2>7, HeartbeatMoves
  <2>9. EofAtEnd(sq)' BY <1>1, <1>3, <2>4, <2>5, EofKept DEF EofAtEnd
  <2>10. TailTs(s)' = TailTs(s) BY <1>1, <2>5 DEF TailTs, StampedFrames
  <2>11. sq'.head_ts[s] = sq.head_ts[s] BY <2>4, <2>8
  <2>12. ASSUME NEW k \in Streams PROVE NotAhead(k, s)'
    <3>1. CASE k = i BY <1>3, <2>4, <2>5, <2>8, <3>1 DEF NotAhead
    <3>2. CASE k # i
      <4>1. sq'.head_ts[k] = sq.head_ts[k] BY <1>3, <2>8, <3>2
      <4> QED BY <1>4, <2>5, <2>11, <4>1 DEF NotAhead
    <3> QED BY <3>1, <3>2
  <2>13. Beating' BY <1>4, <2>5, <2>10, <2>11, <2>12 DEF Beating
  <2>14. pc' = "beat" BY <2>5 DEF Heartbeat
  <2> QED BY <2>9, <2>13, <2>14 DEF BeatInv
<1> QED BY <1>5, <1>6

LEMMA ReceiveNothingBeats == ASSUME Inv, BeatInv, ReceiveNothing PROVE BeatInv'
<1>1. UNCHANGED <<fifo, sq>> /\ pc' = "idle" BY DEF ReceiveNothing, fifoVars
<1>2. NoLaggard
  <2>1. CASE \A i \in Streams : StreamAtEOF(i)
    <3>1. Streams \subseteq sq.finished BY <2>1 DEF StreamAtEOF, BeatInv, EofAtEnd
    <3> QED BY <3>1 DEF NoLaggard
  <2>2. CASE pc = "again" BY <2>2 DEF BeatInv
  <2>3. CASE ~\E i \in Streams : Overflows(i) BY <2>3 DEF NoLaggard
  <2> QED BY <2>1, <2>2, <2>3 DEF ReceiveNothing
<1>3. NoLaggard' BY <1>1, <1>2, SameOverflow
<1> QED BY <1>1, <1>3 DEF BeatInv, EofAtEnd

LEMMA StepBeats == Inv /\ BeatInv /\ [Next]_vars => BeatInv'
<1> SUFFICES ASSUME Inv, BeatInv, [Next]_vars PROVE BeatInv' OBVIOUS
<1>a. sq.finished \subseteq Streams /\ EofAtEnd(sq) BY DEF Inv, Typed, Heads, BeatInv
<1>1. ASSUME EofAtEnd(sq'), pc' = "receive" PROVE BeatInv' BY <1>1 DEF BeatInv, EofAtEnd
<1>2. ASSUME NEW i \in Streams, NEW fr \in Frames[i], Send(i, fr) PROVE BeatInv'
  <2> DEFINE q == StreamUpdateTs(sq, i, FrameEnd(fr, 0))
  <2>1. EofAtEnd(q) BY <1>a, EofKept
  <2>2. q.finished \subseteq Streams
    <3>1. FrameEnd(fr, 0) \in Nat \cup {NOPTS} BY FramesAreFrames
    <3>2. i \in Streams \ sq.finished /\ HeadsInv(sq) BY <1>2 DEF Send, Inv
    <3>3. HeadsInv(q) BY <3>1, <3>2, StreamUpdateTsKeeps
    <3> QED BY <3>3 DEF HeadsInv, Heads
  <2>3. (sq' = q \/ sq' = FinishStream(q, i)) /\ pc' = "receive" BY <1>2 DEF Send
  <2> HIDE DEF q
  <2>4. EofAtEnd(FinishStream(q, i)) BY <2>1, <2>2, EofKept
  <2> QED BY <1>1, <2>1, <2>3, <2>4
<1>3. ASSUME NEW i \in Streams, SendRefused(i) PROVE BeatInv'
  <2>1. UNCHANGED <<fifo, sq, pc>> /\ pc = "idle" BY <1>3 DEF SendRefused, fifoVars
  <2> QED BY <2>1, SameOverflow DEF BeatInv, EofAtEnd
<1>4. ASSUME NEW i \in Streams, SendEOF(i) PROVE BeatInv'
  BY <1>1, <1>4, <1>a, EofKept DEF SendEOF
<1>5. CASE Receive
  <2>1. Min(Ready) \in Streams
    <3>1. Ready \subseteq Streams /\ Ready # {} BY <1>5 DEF Ready, Receive
    <3> QED BY <3>1, StreamsAreNat, MinIsLeast
  <2>2. pc' = "receive" /\ (sq' = sq \/ sq' = FinishStream(sq, Min(Ready))) BY <1>5 DEF Receive
  <2>3. EofAtEnd(FinishStream(sq, Min(Ready))) BY <1>a, <2>1, EofKept
  <2> QED BY <1>1, <1>a, <2>2, <2>3
<1>6. CASE OverflowHeartbeat BY <1>6, OverflowHeartbeatBeats
<1>7. CASE Heartbeat BY <1>7, HeartbeatBeats
<1>8. CASE ReceiveNothing BY <1>8, ReceiveNothingBeats
<1>9. CASE UNCHANGED vars
  <2>1. UNCHANGED <<fifo, sq, pc, beat>> BY <1>9 DEF vars, fifoVars
  <2>2. Beating' = Beating BY <2>1 DEF Beating, NotAhead, TailTs, StampedFrames
  <2> QED BY <2>1, <2>2, SameOverflow DEF BeatInv, EofAtEnd
<1> QED BY <1>2, <1>3, <1>4, <1>5, <1>6, <1>7, <1>8, <1>9 DEF Next, SendStep, ReceiveStep

LEMMA InitBeats == Init => BeatInv
<1> SUFFICES ASSUME Init PROVE BeatInv OBVIOUS
<1>1. pc = "idle" /\ ~sq.eof BY DEF Init
<1>2. \A i \in Streams : sq.head_ts[i] = NOPTS BY DEF Init
<1>3. NoLaggard BY <1>2 DEF NoLaggard, Overflows, MostAhead, Stamped
<1> QED BY <1>1, <1>3 DEF BeatInv, EofAtEnd

-----------------------------------------------------------------------------
(* The theorems.                                                           *)

(* No stream that sq_receive() outputs from gets ahead of a limiting one:  *)
(* receive_for_stream() compares with one head only.                       *)
THEOREM NobodyGetsAhead == Spec => []NoStreamGetsAhead
<1>1. Inv => NoStreamGetsAhead BY DEF Inv
<1> QED BY <1>1, InvHolds, PTL

(* finish_stream() and stream_update_ts() finish every stream that has     *)
(* come as far as a limiting one that has ended.                           *)
THEOREM AllFinishInTime == Spec => []FinishedInTime
<1>1. ASSUME Inv PROVE FinishedInTime
  <2> SUFFICES ASSUME NEW j \in limiting \cap sq.finished, NEW i \in Streams \ sq.finished,
                      {i, j} \subseteq Stamped(sq)
               PROVE  sq.head_ts[i] < sq.head_ts[j]
    BY DEF FinishedInTime
  <2> DEFINE h == sq.head_finished_stream
  <2>1. h # -1 BY <1>1 DEF Inv, HeadsInv, FinishedHeadIsLowest
  <2>2. h \in Stamped(sq) /\ sq.head_ts[h] <= sq.head_ts[j]
    BY <1>1, <2>1 DEF Inv, HeadsInv, FinishedHeadIsLowest
  <2>3. sq.head_ts[i] < sq.head_ts[h] BY <1>1, <2>1 DEF Inv, HeadsInv, OthersBehind
  <2>4. sq.head_ts \in [Streams -> Nat \cup {NOPTS}] BY <1>1 DEF Inv, Typed, Heads
  <2>5. sq.head_ts[i] \in Nat /\ sq.head_ts[j] \in Nat /\ sq.head_ts[h] \in Nat
    BY <2>2, <2>4 DEF Stamped
  <2> QED BY <2>2, <2>3, <2>5
<1> QED BY <1>1, InvHolds, PTL

(* After the callers' loop of sq_receive(-1) nothing is left that could be *)
(* output.                                                                 *)
THEOREM AllIsOutput == Spec => []NothingKeptBack
<1>1. ASSUME Inv PROVE NothingKeptBack
  <2> SUFFICES ASSUME pc = "idle", NEW i \in Streams, HasOutput(i)
               PROVE  OutputEnd(i) # NOPTS /\ \E j \in limiting : sq.head_ts[j] < OutputEnd(i)
    BY DEF NothingKeptBack
  <2>1. ~MayOutput(i) BY <1>1 DEF Inv, NothingReady, Ready
  <2>2. OutputEnd(i) # NOPTS /\ limiting # {} BY <2>1 DEF MayOutput
  <2>3. OutputEnd(i) \in Nat BY <1>1, <2>2, OutputIsTyped
  <2>4. HeadIsLowest(sq) /\ sq.head_ts \in [Streams -> Nat \cup {NOPTS}]
        /\ sq.head_stream \in Streams \cup {-1}
    BY <1>1 DEF Inv, HeadsInv, Heads
  <2>5. CASE sq.head_stream = -1
    <3>1. PICK j \in limiting : sq.head_ts[j] = NOPTS BY <2>2, <2>4, <2>5 DEF HeadIsLowest
    <3> QED BY <3>1, <2>2, <2>3 DEF NOPTS
  <2>6. CASE sq.head_stream # -1
    <3>1. sq.head_stream \in limiting /\ sq.head_stream \in Streams BY <2>4, <2>6 DEF HeadIsLowest
    <3>2. sq.head_stream \in Nat BY <3>1, StreamsAreNat
    <3>3. ~(OutputEnd(i) <= sq.head_ts[sq.head_stream]) BY <2>1, <3>2 DEF MayOutput
    <3>4. sq.head_ts[sq.head_stream] \in Int BY <2>4, <3>1 DEF NOPTS
    <3> QED BY <2>2, <2>3, <3>1, <3>3, <3>4
  <2> QED BY <2>5, <2>6
<1> QED BY <1>1, InvHolds, PTL

(* overflow_heartbeat() leaves no stream that holds back the tail of one    *)
(* that overflows: it is called once, for the stream most ahead, and the    *)
(* heartbeats make no other stream overflow that is held back.              *)
THEOREM NobodyLags == Spec => []NoLaggardAtOverflow
<1>1. BeatInv => NoLaggardAtOverflow BY DEF BeatInv, NoLaggard, NoLaggardAtOverflow
<1> QED BY <1>1, InitBeats, StepBeats, InvHolds, PTL DEF Spec

(* The fields keep their types, and samples_queued counts the samples of   *)
(* the fifo, whatever is taken from the middle of a frame.                 *)
THEOREM TypesHold == Spec => []TypeOK
<1>1. Inv /\ CutInv => TypeOK BY TypesAre DEF Inv, CutInv
<1> QED BY <1>1, InvHolds, CutInvHolds, PTL

(* receive_samples() returns frames of the size that was asked for; one    *)
(* that is smaller, and not empty, is the last of its stream.              *)
THEOREM AudioIsCut == Spec => SamplesAsAsked
<1> DEFINE A == \A i \in Streams :
                 (nb_out'[i] # nb_out[i] /\ frame_samples[i] # 0)
                    => /\ nb_out[i] # 0 => last_out[i].nb = frame_samples[i]
                       /\ last_out'[i].nb \in 1 .. frame_samples[i]
<1>1. ASSUME Inv, CutInv, [Next]_vars PROVE [A]_outVars
  <2> SUFFICES ASSUME NEW i \in Streams, nb_out'[i] # nb_out[i], frame_samples[i] # 0
               PROVE  /\ nb_out[i] # 0 => last_out[i].nb = frame_samples[i]
                      /\ last_out'[i].nb \in 1 .. frame_samples[i]
    OBVIOUS
  <2>1. Receive
    BY <1>1 DEF Next, SendStep, ReceiveStep, Send, SendRefused, SendEOF, OverflowHeartbeat,
                Heartbeat, ReceiveNothing, vars, outVars
  <2>2. Min(Ready) = i /\ i \in Ready /\ (ReadFrame(i) \/ ReadSamples(i))
    <3>1. Ready \subseteq Nat BY StreamsAreNat DEF Ready
    <3>2. Min(Ready) \in Ready BY <2>1, <3>1, MinIsLeast DEF Receive
    <3>3. nb_out \in [Streams -> Nat] BY <1>1 DEF CutInv, Fields
    <3>4. nb_out' = [nb_out EXCEPT ![Min(Ready)] = @ + 1] BY <2>1 DEF Receive
    <3>5. Min(Ready) = i BY <3>3, <3>4
    <3> QED BY <2>1, <3>2, <3>5 DEF Receive
  <2>3. HasOutput(i) /\ ReadSamples(i) BY <2>2 DEF Ready, ReadFrame
  <2>4. NbSamples(i) \in 1 .. frame_samples[i] /\ last_out'[i].nb = NbSamples(i)
    BY <1>1, <2>3, ReadSamplesCuts
  <2>5. samples_queued[i] # 0
    <3>1. fifo[i] \in Seq(Frame) /\ fifo[i] # <<>> BY <1>1, <2>3, OutputIsTyped DEF Inv, Typed
    <3>2. \A k \in 1 .. Len(fifo[i]) : fifo[i][k].nb # 0 BY <1>1 DEF CutInv, AudioInv
    <3>3. samples_queued[i] = Total(fifo[i]) BY <1>1 DEF CutInv, Counted
    <3> QED BY <3>1, <3>2, <3>3, FramesHaveSamples
  <2>6. nb_out[i] # 0 => last_out[i].nb = frame_samples[i]
    BY <1>1, <2>5 DEF CutInv, AudioInv
  <2> QED BY <2>4, <2>6
<1> QED BY <1>1, InvHolds, CutInvHolds, PTL DEF Spec, SamplesAsAsked
=============================================================================
