----------------------------- MODULE SliceJobs -----------------------------
(* What avpriv_slicethread_execute() promises its callers: every job runs  *)
(* once, jobs that run together have different thread numbers, less than   *)
(* what avpriv_slicethread_create() returned, so that each can use its own *)
(* scratch memory, and when the call returns no job is left or running.    *)
EXTENDS Integers

CONSTANT MaxJobs    \* bound on the jobs of one execution

VARIABLES
    nb_threads,     \* what avpriv_slicethread_create() returned
    busy,           \* the caller is in avpriv_slicethread_execute()
    pending,        \* jobs not started
    jobs_running    \* pairs of a job and its thread number

vars == <<nb_threads, busy, pending, jobs_running>>

Init == /\ nb_threads \in Nat \ {0}
        /\ busy = FALSE
        /\ pending = {}
        /\ jobs_running = {}

Execute(nb_jobs) ==
    /\ ~busy
    /\ busy' = TRUE
    /\ pending' = 0 .. nb_jobs - 1
    /\ UNCHANGED <<nb_threads, jobs_running>>

StartJob(jobnr, threadnr) ==
    /\ jobnr \in pending
    /\ \A r \in jobs_running : r[2] # threadnr
    /\ pending' = pending \ {jobnr}
    /\ jobs_running' = jobs_running \cup {<<jobnr, threadnr>>}
    /\ UNCHANGED <<nb_threads, busy>>

FinishJob(r) ==
    /\ r \in jobs_running
    /\ jobs_running' = jobs_running \ {r}
    /\ UNCHANGED <<nb_threads, busy, pending>>

Return ==
    /\ busy /\ pending = {} /\ jobs_running = {}
    /\ busy' = FALSE
    /\ UNCHANGED <<nb_threads, pending, jobs_running>>

Next == \/ \E n \in 1 .. MaxJobs : Execute(n)
        \/ \E jobnr \in pending, threadnr \in 0 .. nb_threads - 1 : StartJob(jobnr, threadnr)
        \/ \E r \in jobs_running : FinishJob(r)
        \/ Return

Spec == Init /\ [][Next]_vars
=============================================================================
