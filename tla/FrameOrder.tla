----------------------------- MODULE FrameOrder -----------------------------
(* What the callers of frame-threaded decoding are promised: however many  *)
(* packets are decoded at a time, the frames and errors of a packet are    *)
(* returned after those of the packets before it, frames before errors,    *)
(* and none is lost or returned twice until the decoder is flushed.        *)
EXTENDS Naturals, Sequences

CONSTANTS
    thread_count,       \* threads that decode
    MaxFrames,          \* bound on the frames of one packet
    Drain               \* the empty packet that stands for the end of input

VARIABLES
    taken,      \* packets taken from the input so far
    jobs,       \* what was taken and is not returned yet, oldest first
    returned    \* what the last call has returned

vars == <<taken, jobs, returned>>

Open(k) == [pkt |-> k, frames |-> <<>>, res |-> "ok"]
Closed(fs, r) == [pkt |-> 0, frames |-> fs, res |-> r]
IsOpen(job) == job.pkt # 0
Result(r) == [res |-> r, frame |-> 0]

Init == taken = 0 /\ jobs = <<>> /\ returned = Result("none")

(* At most thread_count packets are held, each by a thread of its own.     *)
Submit(k) ==
    /\ Len(jobs) < thread_count
    /\ jobs' = Append(jobs, Open(k))
    /\ UNCHANGED returned

TakePacket == taken' = taken + 1 /\ Submit(taken')
TakeEnd == Submit(Drain) /\ UNCHANGED taken

(* A packet whose thread cannot be set up is reported and dropped.         *)
Refuse ==
    /\ taken' \in {taken, taken + 1}
    /\ returned' = Result("error")
    /\ UNCHANGED jobs

(* Threads finish in any order; the end of input is found by no other      *)
(* packet.                                                                 *)
Decode(i) ==
    /\ IsOpen(jobs[i])
    /\ \E n \in 0 .. MaxFrames, r \in {"ok", "error", "eof"} :
        /\ r = "eof" => jobs[i].pkt = Drain
        /\ jobs' = [jobs EXCEPT ![i] = Closed([x \in 1 .. n |-> jobs[i].pkt], r)]
    /\ UNCHANGED <<taken, returned>>

ReturnFrame ==
    /\ jobs # <<>> /\ ~ IsOpen(Head(jobs)) /\ Head(jobs).frames # <<>>
    /\ LET rest == Closed(Tail(Head(jobs).frames), Head(jobs).res)
       IN  jobs' = IF rest = Closed(<<>>, "ok") THEN Tail(jobs) ELSE <<rest>> \o Tail(jobs)
    /\ returned' = [res |-> "frame", frame |-> Head(Head(jobs).frames)]
    /\ UNCHANGED taken

ReturnResult ==
    /\ jobs # <<>> /\ ~ IsOpen(Head(jobs)) /\ Head(jobs).frames = <<>>
    /\ Head(jobs).res # "ok"
    /\ jobs' = Tail(jobs)
    /\ returned' = Result(Head(jobs).res)
    /\ UNCHANGED taken

(* A packet without frames or errors gives its caller nothing.             *)
Skip ==
    /\ jobs # <<>> /\ Head(jobs) = Closed(<<>>, "ok")
    /\ jobs' = Tail(jobs)
    /\ UNCHANGED <<taken, returned>>

(* A call begins.                                                          *)
Call == returned' = Result("none") /\ UNCHANGED <<taken, jobs>>

(* No more input: one thread is always left for the next packet, and a     *)
(* caller that asked for no delay has been given everything ("quiet").     *)
Again ==
    /\ Len(jobs) < thread_count
    /\ \/ returned' = Result("again")
       \/ jobs = <<>> /\ returned' = Result("quiet")
    /\ UNCHANGED <<taken, jobs>>

Flush == jobs' = <<>> /\ UNCHANGED <<taken, returned>>

Next == \/ TakePacket \/ TakeEnd \/ Refuse \/ Skip
        \/ \E i \in DOMAIN jobs : Decode(i)
        \/ ReturnFrame \/ ReturnResult \/ Call \/ Again \/ Flush

Spec == Init /\ [][Next]_vars
=============================================================================
