--------------------------- MODULE StreamChannels ---------------------------
(***************************************************************************)
(* What a ThreadQueue promises to the two tasks it connects, with the      *)
(* lock, the condition variable, the capacity and the choking abstracted   *)
(* away: one reliable ordered channel per stream.  Packets and frames are  *)
(* numbered 1, 2, ... in the order in which tq_send() accepted them for    *)
(* their stream, so two counters describe a channel.                       *)
(***************************************************************************)
EXTENDS Naturals

CONSTANT Streams

VARIABLES sent,      \* sent[s]: number of items accepted for stream s
          rcvd,      \* rcvd[s]: number of the last item of s handed out
          ended,     \* streams whose EOF was handed to the consumer
          abandoned  \* streams the consumer gave up before their EOF

vars == <<sent, rcvd, ended, abandoned>>

Open == Streams \ (ended \cup abandoned)

Init == /\ sent = [s \in Streams |-> 0]
        /\ rcvd = [s \in Streams |-> 0]
        /\ ended = {}
        /\ abandoned = {}

(* The producer adds the next item of an open stream.                      *)
Put(s) == /\ s \in Open
          /\ sent' = [sent EXCEPT ![s] = @ + 1]
          /\ UNCHANGED <<rcvd, ended, abandoned>>

(* The consumer gets the oldest item it has not seen yet: none is lost,    *)
(* repeated or overtaken, and none follows the stream's EOF.               *)
Get(s) == /\ s \in Open
          /\ rcvd[s] < sent[s]
          /\ rcvd' = [rcvd EXCEPT ![s] = @ + 1]
          /\ UNCHANGED <<sent, ended, abandoned>>

(* The consumer is told that s is over: once, and only when it has seen    *)
(* every item.                                                             *)
End(s) == /\ s \in Open
          /\ rcvd[s] = sent[s]
          /\ ended' = ended \cup {s}
          /\ UNCHANGED <<sent, rcvd, abandoned>>

(* The consumer loses interest in s.                                       *)
Abandon(s) == /\ s \in Open
              /\ abandoned' = abandoned \cup {s}
              /\ UNCHANGED <<sent, rcvd, ended>>

Next == \E s \in Streams : Put(s) \/ Get(s) \/ End(s) \/ Abandon(s)

Spec == Init /\ [][Next]_vars
=============================================================================
