--------------------------- MODULE MCThreadQueue ---------------------------
(* Small instances of ThreadQueue.  Two producers share stream 1, the way  *)
(* a demuxer and a muxer (subtitle heartbeats) share a decoder's queue.    *)
EXTENDS ThreadQueue, TLC

CONSTANTS p1, p2

MCSenders == {p1, p2}
MCFeeds == p1 :> {0, 1} @@ p2 :> {1}
=============================================================================
