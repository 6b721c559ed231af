---------------------------- MODULE MCSyncQueue ----------------------------
(* Streams and frames to check SyncQueue on.                               *)
EXTENDS SyncQueue, TLC

Still(pts, dur) == [pts |-> pts, dur |-> dur, nb |-> 0]
Audio(pts, nb) == [pts |-> pts, dur |-> nb, nb |-> nb]

(* Two limiting streams, video of which so many packets are wanted, with   *)
(* timestamps in any order, and audio that is cut to frames of two         *)
(* samples, and one more, say subtitles.                                   *)
ThreeKinds ==
    0 :> {Still(0, 1), Still(2, 1), Still(3, 1)}
    @@ 1 :> {Audio(0, 3), Audio(1, 1), Audio(3, 1)}
    @@ 2 :> {Still(3, 2), Still(NOPTS, 0)}
ThreeSent == 0 :> 2 @@ 1 :> 3 @@ 2 :> 2
ThreeLimits == 0 :> 2 @@ 1 :> NoLimit @@ 2 :> NoLimit
ThreeSizes == 0 :> 0 @@ 1 :> 2 @@ 2 :> 0
=============================================================================
