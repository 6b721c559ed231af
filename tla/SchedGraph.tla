---------------------------- MODULE SchedGraph ----------------------------
(***************************************************************************)
(* The transcoding graph of fftools/ffmpeg_sched.c and the decision that   *)
(* schedule_update_locked() takes on it: which demuxers and filtergraphs   *)
(* may produce data now.                                                   *)
(*                                                                         *)
(* A task is a demuxer, decoder, filtergraph, encoder or muxer.  A port    *)
(* <<t, i>> is input i of task t, i.e. stream i of its ThreadQueue.        *)
(***************************************************************************)
EXTENDS Integers, Sequences, FiniteSets, FiniteSetsExt, SequencesExt

CONSTANTS
    Demuxers, Filters,              \* as sequences, in index order
    Decoders, Encoders, Muxers,     \* as sets
    Outs,       \* Outs[t][o]: the ports that output o of t feeds (sch_connect)
    NbIn,       \* NbIn[t]: number of inputs of t
    SCHEDULE_TOLERANCE

Demux == Range(Demuxers)
Filter == Range(Filters)
Producers == Demux \cup Decoders \cup Filter \cup Encoders
Consumers == Decoders \cup Filter \cup Encoders \cup Muxers
Tasks == Producers \cup Muxers

Inputs(t) == 0 .. NbIn[t] - 1
Ports(S) == UNION {{<<t, i>> : i \in Inputs(t)} : t \in S}
MuxStreams == Ports(Muxers)

(* The ports that t feeds, and the task that feeds port k.                 *)
Dsts(t) == UNION {Range(Outs[t][o]) : o \in DOMAIN Outs[t]}
SrcOf == [k \in Ports(Consumers) |-> CHOOSE t \in Producers : k \in Dsts(t)]
Src(k) == SrcOf[k]

(* Tasks with a SchWaiter, in the order in which they are looped over.     *)
Sources == Demuxers \o Filters

(* The elements of s that are in S, in their order.                        *)
Keep(s, S) ==
    LET K[n \in 0 .. Len(s)] ==
          IF n = 0 THEN <<>>
          ELSE IF s[n] \in S THEN Append(K[n - 1], s[n]) ELSE K[n - 1]
    IN  K[Len(s)]

(* What sch_connect() and start_prepare() enforce: a task is of one kind,  *)
(* every output leads to a port, every port has one source and is fed once *)
(* by it, demuxers feed decoders and muxers, decoders feed filters and     *)
(* encoders, encoders feed muxers and (loopback) decoders, one port per    *)
(* filtergraph output.  Only the decoder of a multiview video may have     *)
(* several outputs, one for each view asked for: those are left out.       *)
ASSUME GraphAssumption ==
    /\ IsFiniteSet(Tasks)
    /\ LET kinds == <<Demux, Decoders, Filter, Encoders, Muxers>>
       IN  \A i, j \in 1 .. 5 : i # j => kinds[i] \cap kinds[j] = {}
    /\ Demuxers \in Seq(Demux) /\ Filters \in Seq(Filter)
    /\ \A t \in Consumers : NbIn[t] \in Nat
    /\ \A t \in Producers : Outs[t] \in Seq(Seq(Ports(Consumers)) \ {<<>>})
    /\ \A t \in Producers : \A o, p \in DOMAIN Outs[t] :
         \A i \in DOMAIN Outs[t][o], j \in DOMAIN Outs[t][p] :
             Outs[t][o][i] = Outs[t][p][j] => o = p /\ i = j
    /\ \A k \in Ports(Consumers) : \E t \in Producers : {u \in Producers : k \in Dsts(u)} = {t}
    /\ \A d \in Demux : Dsts(d) \subseteq Ports(Decoders \cup Muxers)
    /\ \A t \in Decoders : Len(Outs[t]) = 1 /\ Dsts(t) \subseteq Ports(Filter \cup Encoders)
    /\ \A t \in Filter : /\ Dsts(t) \subseteq Ports(Filter \cup Encoders)
                         /\ \A o \in DOMAIN Outs[t] : Len(Outs[t][o]) = 1
    /\ \A t \in Encoders : Dsts(t) \subseteq Ports(Decoders \cup Muxers)
    /\ \A t \in Decoders \cup Encoders : NbIn[t] = 1
    /\ SCHEDULE_TOLERANCE \in Nat \ {0}

-----------------------------------------------------------------------------
(* The least set that contains S and is closed under Step.                 *)
Closure(Step(_), S) ==
    LET R[n \in 0 .. Cardinality(Tasks)] ==
          IF n = 0 THEN S ELSE R[n - 1] \cup UNION {Step(t) : t \in R[n - 1]}
    IN  R[Cardinality(Tasks)]

(* unchoke_downstream(): the tasks that it looks at after t.  Of several   *)
(* destinations of one demuxer stream or decoder output it follows only    *)
(* the first.                                                              *)
DownStep(t) ==
    IF t \in Demux \cup Decoders
      THEN {Outs[t][o][1][1] : o \in DOMAIN Outs[t]}
      ELSE IF t \in Encoders THEN {k[1] : k \in Dsts(t)} ELSE {}

DownstreamOf == [d \in Demux |-> Closure(DownStep, {d}) \cap Filter]

(* A slip: the first input is taken for the wanted one.                    *)
UpStepFirstInput(t, best_input) ==
    IF t \in Demux THEN DownstreamOf[t]
    ELSE IF t \in Filter /\ best_input[t] = NbIn[t] THEN {}
    ELSE {Src(<<t, 0>>)}

(* unchoke_for_stream(): from a task to the one that has to run for it.    *)
(* best_input[f] = NbIn[f] means that filtergraph f itself is to run.      *)
UpStep(t, best_input) ==
    CASE t \in Demux    -> DownstreamOf[t]
      [] t \in Filter   -> IF best_input[t] = NbIn[t] THEN {}
                           ELSE {Src(<<t, best_input[t]>>)}
      [] OTHER          -> {Src(<<t, 0>>)}

(* Everything that the calls unchoke_for_stream(s), s \in S, unchoke.      *)
UnchokedFor(S, best_input) ==
    LET Up(t) == UpStep(t, best_input)
        R == Closure(Up, S)
    IN  (R \cap Demux) \cup {f \in R \cap Filter : best_input[f] = NbIn[f]}

(* A timestamp of 0 is AV_NOPTS_VALUE.                                     *)
NOPTS == 0

(* trailing_dts() over the mux streams in live.                            *)
trailing_dts(live, last_dts) ==
    IF live = {} \/ \E k \in live : last_dts[k] = NOPTS
      THEN NOPTS
      ELSE Min({last_dts[k] : k \in live})

(* A slip: no stream is ever too far ahead.                                *)
BehindAll(live, last_dts) == live

(* Output streams that are not too far ahead of the trailing one.          *)
Behind(live, last_dts) ==
    LET dts == trailing_dts(live, last_dts)
    IN  {k \in live : IF dts = NOPTS THEN last_dts[k] = NOPTS
                      ELSE last_dts[k] - dts < SCHEDULE_TOLERANCE}

ToFeedOpen(behind, closed) == behind    \* a slip: closed inputs are forgotten
ToFeed(behind, closed) == behind \cup closed

(* The sources that schedule_update_locked() lets run.  live: unfinished   *)
(* mux streams; closed: filter inputs that the filter has closed and whose *)
(* source does not know it yet; exited: sources whose task has ended.      *)
Unchoked(live, last_dts, closed, exited, best_input) ==
    LET behind == Behind(live, last_dts)
        remaining == Keep(Sources, Range(Sources) \ exited)
    IN  UnchokedFor({Src(k) : k \in ToFeed(behind, closed)}, best_input)
        \cup (IF behind = {} /\ remaining # <<>> THEN {Head(remaining)} ELSE {})

(* choke_demux(): the queues that are frozen together with demuxer d.  A   *)
(* demuxer feeds no filtergraph and no encoder, and muxers are not frozen. *)
FrozenWith(d) == {Outs[d][o][1][1] : o \in DOMAIN Outs[d]} \cap Decoders
=============================================================================
