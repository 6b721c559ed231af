---------------------------- MODULE SliceThread ----------------------------
(* libavutil/slicethread.c: a pool of workers that runs the jobs of one    *)
(* execution after the other.  Jobs are handed out by two atomic counters, *)
(* and the thread that fetches the last number of all knows that nobody    *)
(* works any more.  first_job, current_job and done are used again by the  *)
(* next execution, while workers may still be on their way to sleep.       *)
(*                                                                         *)
(* A worker holds its mutex except in pthread_cond_wait().                 *)
EXTENDS Integers, FiniteSets

CONSTANTS
    NbWorkers,      \* threads created by avpriv_slicethread_create()
    MaxJobs         \* bound on the jobs of one execution

ASSUME SliceThreadAssumption == NbWorkers \in Nat \ {0} /\ MaxJobs \in Nat \ {0}

Workers == 0 .. NbWorkers - 1
Main == NbWorkers                   \* the thread that calls execute
Threads == 0 .. NbWorkers

VARIABLES
    main_func,      \* is AVSliceThread.main_func set?
    execute_main,   \* does main_func run in this execution?
    nb_jobs, nb_active_threads,
    first_job, current_job,         \* the atomic counters
    ctx_done,       \* AVSliceThread.done
    finished,
    w_done,         \* w_done[w]: WorkerContext.done
    posted,         \* loop index i of execute and free
    pc,             \* pc[t]: where thread t is
    local           \* local[t]: the variables of run_jobs()

ctxVars == <<nb_jobs, nb_active_threads, execute_main, main_func>>
vars == <<ctxVars, first_job, current_job, ctx_done, finished, w_done, posted, pc, local>>

Loc(jobs, active, first, current) ==
    [nb_jobs |-> jobs, nb_active |-> active, first |-> first, current |-> current]
NoLocals == Loc(0, 0, 0, 0)
nb_threads == IF main_func THEN NbWorkers ELSE NbWorkers + 1
MinOf(a, b) == IF a <= b THEN a ELSE b

(* Workers that take part in the execution (nb_workers in the code).       *)
nb_workers == IF execute_main THEN nb_active_threads ELSE nb_active_threads - 1

(* avpriv_slicethread_create() returns when every worker waits.            *)
Init == /\ main_func \in BOOLEAN
        /\ execute_main = FALSE
        /\ nb_jobs = 0 /\ nb_active_threads = 0
        /\ first_job = 0 /\ current_job = 0
        /\ ctx_done = FALSE /\ finished = FALSE
        /\ w_done = [w \in Workers |-> TRUE]
        /\ posted = 0
        /\ pc = [t \in Threads |-> IF t = Main THEN "idle" ELSE "asleep"]
        /\ local = [t \in Threads |-> NoLocals]

Goto(t, l) == pc' = [pc EXCEPT ![t] = l]

-----------------------------------------------------------------------------
(* avpriv_slicethread_execute() up to the point where the caller works.    *)

Execute(n, with_main) ==
    /\ pc[Main] = "idle"
    /\ nb_jobs' = n
    /\ nb_active_threads' = MinOf(n, nb_threads)
    /\ execute_main' = (main_func /\ with_main)
    /\ first_job' = 0
    /\ current_job' = nb_active_threads'
    /\ posted' = 0
    /\ Goto(Main, "post")
    /\ UNCHANGED <<main_func, ctx_done, finished, w_done, local>>

(* w->done = 0 and pthread_cond_signal(&w->cond), for the next worker.     *)
MutexFreeAlways(w) == TRUE          \* a slip: w->done is cleared without the lock
MutexFree(w) == pc[w] \in {"asleep", "awake", "exited"}

(* A slip: the worker is not signalled.                                    *)
WakeQuiet(w) ==
    /\ w_done' = [w_done EXCEPT ![w] = FALSE]
    /\ posted' = posted + 1
    /\ UNCHANGED pc

Wake(w) ==
    /\ w_done' = [w_done EXCEPT ![w] = FALSE]
    /\ posted' = posted + 1
    /\ IF pc[w] = "asleep" THEN Goto(w, "awake") ELSE UNCHANGED pc

Post ==
    /\ pc[Main] = "post" /\ posted < nb_workers
    /\ MutexFree(posted)
    /\ Wake(posted)
    /\ UNCHANGED <<ctxVars, first_job, current_job, ctx_done, finished, local>>

(* The head of run_jobs(): copies of nb_jobs and nb_active_threads.        *)
EnterRunJobs(t) ==
    /\ Goto(t, "first")
    /\ local' = [local EXCEPT ![t] = Loc(nb_jobs, nb_active_threads, 0, 0)]

AllPosted ==
    /\ pc[Main] = "post" /\ posted = nb_workers
    /\ IF execute_main THEN Goto(Main, "main_func") /\ UNCHANGED local
                       ELSE EnterRunJobs(Main)
    /\ UNCHANGED <<ctxVars, first_job, current_job, ctx_done, finished, w_done, posted>>

MainFunc ==
    /\ pc[Main] = "main_func"
    /\ Goto(Main, "wait")
    /\ UNCHANGED <<ctxVars, first_job, current_job, ctx_done, finished, w_done, posted, local>>

-----------------------------------------------------------------------------
(* run_jobs().                                                             *)

TakeFirst(t) ==
    /\ pc[t] = "first"
    /\ local' = [local EXCEPT ![t] = Loc(@.nb_jobs, @.nb_active, first_job, first_job)]
    /\ first_job' = first_job + 1
    /\ Goto(t, "job")
    /\ UNCHANGED <<ctxVars, current_job, ctx_done, finished, w_done, posted>>

JobEnds(t) ==
    /\ pc[t] = "job"
    /\ Goto(t, "next")
    /\ UNCHANGED <<ctxVars, first_job, current_job, ctx_done, finished, w_done, posted, local>>

IsLastAtOnce(t) == current_job = local[t].nb_jobs   \* a slip: no job left means last
IsLast(t) == current_job = local[t].nb_jobs + local[t].nb_active - 1

TakeNext(t) ==
    /\ pc[t] = "next"
    /\ current_job' = current_job + 1
    /\ IF current_job < local[t].nb_jobs
         THEN /\ local' = [local EXCEPT ![t] = Loc(@.nb_jobs, @.nb_active, @.first, current_job)]
              /\ Goto(t, "job")
         ELSE /\ local' = [local EXCEPT ![t] = NoLocals]
              /\ Goto(t, CASE t # Main /\ IsLast(t)  -> "signal"
                           [] t # Main /\ ~IsLast(t) -> "sleep"
                           [] t = Main /\ IsLast(t)  -> "idle"
                           [] OTHER                  -> "wait")
    /\ UNCHANGED <<ctxVars, first_job, ctx_done, finished, w_done, posted>>

-----------------------------------------------------------------------------
(* thread_worker() around run_jobs().                                      *)

(* ctx->done = 1 and pthread_cond_signal(&ctx->done_cond), under the lock. *)
SignalDone(w) ==
    /\ pc[w] = "signal"
    /\ ctx_done' = TRUE
    /\ pc' = [pc EXCEPT ![w] = "sleep", ![Main] = IF @ = "blocked" THEN "wait" ELSE @]
    /\ UNCHANGED <<ctxVars, first_job, current_job, finished, w_done, posted, local>>

WorkerSleeps(w) ==
    /\ pc[w] = "sleep"
    /\ w_done' = [w_done EXCEPT ![w] = TRUE]
    /\ Goto(w, "asleep")
    /\ UNCHANGED <<ctxVars, first_job, current_job, ctx_done, finished, posted, local>>

(* pthread_cond_wait() may return for no reason.                           *)
SpuriousWakeup(t) ==
    /\ \/ pc[t] = "asleep" /\ Goto(t, "awake")
       \/ pc[t] = "blocked" /\ Goto(t, "wait")
    /\ UNCHANGED <<ctxVars, first_job, current_job, ctx_done, finished, w_done, posted, local>>

WorkerWakes(w) ==
    /\ pc[w] = "awake"
    /\ \/ w_done[w] /\ Goto(w, "asleep") /\ UNCHANGED local
       \/ ~w_done[w] /\ finished /\ Goto(w, "exited") /\ UNCHANGED local
       \/ ~w_done[w] /\ ~finished /\ EnterRunJobs(w)
    /\ UNCHANGED <<ctxVars, first_job, current_job, ctx_done, finished, w_done, posted>>

-----------------------------------------------------------------------------
(* The end of avpriv_slicethread_execute(): wait for the last worker.      *)

(* A slip: done is not reset.                                              *)
WaitDoneKept ==
    /\ pc[Main] = "wait"
    /\ Goto(Main, IF ctx_done THEN "idle" ELSE "blocked")
    /\ UNCHANGED <<ctxVars, first_job, current_job, ctx_done, finished, w_done, posted, local>>

WaitDone ==
    /\ pc[Main] = "wait"
    /\ IF ctx_done THEN ctx_done' = FALSE /\ Goto(Main, "idle")
                   ELSE Goto(Main, "blocked") /\ UNCHANGED ctx_done
    /\ UNCHANGED <<ctxVars, first_job, current_job, finished, w_done, posted, local>>

(* avpriv_slicethread_free(): let every worker leave, then join them.      *)
FreeUnmarked ==     \* a slip: finished is not set
    /\ pc[Main] = "idle"
    /\ posted' = 0
    /\ Goto(Main, "free")
    /\ UNCHANGED <<ctxVars, first_job, current_job, ctx_done, finished, w_done, local>>

Free ==
    /\ pc[Main] = "idle"
    /\ finished' = TRUE
    /\ posted' = 0
    /\ Goto(Main, "free")
    /\ UNCHANGED <<ctxVars, first_job, current_job, ctx_done, w_done, local>>

FreePost ==
    /\ pc[Main] = "free" /\ posted < NbWorkers
    /\ MutexFree(posted)
    /\ Wake(posted)
    /\ UNCHANGED <<ctxVars, first_job, current_job, ctx_done, finished, local>>

FreeJoin ==
    /\ pc[Main] = "free" /\ posted = NbWorkers
    /\ \A w \in Workers : pc[w] = "exited"
    /\ Goto(Main, "freed")
    /\ UNCHANGED <<ctxVars, first_job, current_job, ctx_done, finished, w_done, posted, local>>

-----------------------------------------------------------------------------
RunJobs(t) == TakeFirst(t) \/ JobEnds(t) \/ TakeNext(t)

MainStep == Post \/ AllPosted \/ MainFunc \/ WaitDone \/ FreePost \/ FreeJoin \/ RunJobs(Main)
WorkerStep(w) == SignalDone(w) \/ WorkerSleeps(w) \/ WorkerWakes(w) \/ RunJobs(w)

Next == \/ \E n \in 1 .. MaxJobs, with_main \in BOOLEAN : Execute(n, with_main)
        \/ Free
        \/ MainStep
        \/ \E w \in Workers : WorkerStep(w)
        \/ \E t \in Threads : SpuriousWakeup(t)

Spec == Init /\ [][Next]_vars

(* Every thread that can run does; nothing makes the caller call.          *)
FairSpec == Spec /\ WF_vars(MainStep) /\ \A w \in Workers : WF_vars(WorkerStep(w))

-----------------------------------------------------------------------------
(* Properties.                                                             *)

Busy == pc[Main] \in {"post", "main_func", "first", "job", "next", "wait", "blocked"}

(* Jobs that no thread has fetched, and those that are running.            *)
Pending == IF Busy THEN (first_job .. nb_active_threads - 1) \cup (current_job .. nb_jobs - 1)
                   ELSE {}
JobsRunning == {<<local[t].current, local[t].first>> : t \in {u \in Threads : pc[u] = "job"}}

(* The two counters and the number of the last thread keep the promise of  *)
(* avpriv_slicethread_execute(), also when workers of the previous         *)
(* execution are late.                                                     *)
J == INSTANCE SliceJobs WITH busy <- Busy, pending <- Pending, jobs_running <- JobsRunning
SliceJobsSpec == J!Spec

(* No thread sleeps on a condition that is already met: w->done is changed *)
(* and signalled under w->mutex, and ctx->done under done_mutex.           *)
NobodyOversleeps ==
    /\ \A w \in Workers : pc[w] = "asleep" => w_done[w]
    /\ pc[Main] = "blocked" => ~ctx_done

(* avpriv_slicethread_execute() returns if worker_func() does.             *)
ExecuteReturns == Busy ~> ~Busy

(* avpriv_slicethread_free() gets every worker to leave.                   *)
FreeReturns == (pc[Main] = "free") ~> (pc[Main] = "freed")

-----------------------------------------------------------------------------
(* The inductive invariant.                                                *)

WorkerPCs == {"asleep", "awake", "first", "job", "next", "signal", "sleep", "exited"}
MainPCs == {"idle", "post", "main_func", "first", "job", "next", "wait", "blocked",
            "free", "freed"}
Locals == [nb_jobs : Nat, nb_active : Nat, first : Nat, current : Nat]

TypeOK ==
    /\ main_func \in BOOLEAN /\ execute_main \in BOOLEAN
    /\ nb_jobs \in Nat /\ nb_active_threads \in Nat
    /\ first_job \in Nat /\ current_job \in Nat
    /\ ctx_done \in BOOLEAN /\ finished \in BOOLEAN
    /\ w_done \in [Workers -> BOOLEAN]
    /\ posted \in 0 .. NbWorkers
    /\ pc \in [Threads -> WorkerPCs \cup MainPCs]
    /\ pc[Main] \in MainPCs
    /\ \A w \in Workers : pc[w] \in WorkerPCs
    /\ local \in [Threads -> Locals]

(* Worker w has nothing to do, or is on its way to sleep.                  *)
Quiet(w) == pc[w] = "sleep" \/ (pc[w] \in {"asleep", "awake"} /\ w_done[w])
(* It was woken, and has not got a thread number yet.                      *)
Called(w) == pc[w] = "awake" /\ ~w_done[w]
Due(w) == Called(w) \/ pc[w] = "first"

WorkersOK ==
    \A w \in Workers :
        IF pc[Main] = "idle" \/ w >= posted THEN Quiet(w)
        ELSE IF finished THEN Called(w) \/ pc[w] = "exited"
        ELSE Quiet(w) \/ Due(w) \/ pc[w] \in {"job", "next", "signal"}

(* Threads of this execution; those that have fetched a number, and those  *)
(* that have fetched their last one.                                       *)
Participants == (0 .. nb_workers - 1) \cup (IF execute_main THEN {} ELSE {Main})
MainOut == ~execute_main /\ pc[Main] \in {"wait", "blocked"}
Begun == {w \in Workers : w < posted /\ ~Due(w)}
         \cup (IF pc[Main] \in {"job", "next"} \/ MainOut THEN {Main} ELSE {})
Out == {w \in Workers : w < posted /\ (Quiet(w) \/ pc[w] = "signal")}
       \cup (IF MainOut THEN {Main} ELSE {})

ControlOK ==
    /\ finished <=> pc[Main] \in {"free", "freed"}
    /\ ctx_done => Busy
    /\ Busy => /\ nb_jobs >= 1 /\ nb_active_threads = MinOf(nb_jobs, nb_threads)
               /\ execute_main => main_func /\ pc[Main] \notin {"first", "job", "next"}
               /\ pc[Main] = "main_func" => execute_main
               /\ posted <= nb_workers
               /\ pc[Main] # "post" => posted = nb_workers

CountersOK ==
    Busy => /\ first_job = Cardinality(Begun)
            /\ \/ Out = {} /\ current_job \in nb_active_threads .. nb_jobs
               \/ Out # {} /\ current_job = nb_jobs + Cardinality(Out)

LocalsOK ==
    /\ \A t \in Threads : pc[t] \in {"first", "job", "next"} =>
          local[t].nb_jobs = nb_jobs /\ local[t].nb_active = nb_active_threads
    /\ \A t \in Threads : pc[t] \in {"job", "next"} =>
          /\ local[t].first < first_job
          /\ \A u \in Threads \ {t} :
                pc[u] \in {"job", "next"} => local[u].first # local[t].first

(* Somebody is about to say that all are done, or has said so, exactly     *)
(* when all are.                                                           *)
Signalling == {w \in Workers : pc[w] = "signal"}
LastOneTells ==
    Busy => /\ Out = Participants <=> (ctx_done \/ Signalling # {})
            /\ ctx_done => Signalling = {}
            /\ \A w, u \in Signalling : w = u

Inv == TypeOK /\ WorkersOK /\ ControlOK /\ CountersOK /\ LocalsOK /\ LastOneTells
=============================================================================
