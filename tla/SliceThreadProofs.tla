-------------------------- MODULE SliceThreadProofs --------------------------
(* Proofs about SliceThread, for any number of workers and of jobs: no     *)
(* thread oversleeps, and the counters of slicethread.c keep the promise   *)
(* of SliceJobs.                                                           *)
EXTENDS SliceThread, FiniteSetTheorems, TLAPS

(* An action of some thread, as one disjunct per operation of the code.    *)
LEMMA Steps ==
    ASSUME [Next]_vars
    PROVE  \/ \E n \in 1 .. MaxJobs, with_main \in BOOLEAN : Execute(n, with_main)
           \/ Post \/ AllPosted \/ MainFunc \/ WaitDone
           \/ Free \/ FreePost \/ FreeJoin
           \/ \E t \in Threads : TakeFirst(t) \/ JobEnds(t) \/ TakeNext(t) \/ SpuriousWakeup(t)
           \/ \E w \in Workers : SignalDone(w) \/ WorkerSleeps(w) \/ WorkerWakes(w)
           \/ UNCHANGED vars
<1>1. Main \in Threads /\ Workers \subseteq Threads
  BY SliceThreadAssumption DEF Main, Threads, Workers
<1> QED  BY <1>1 DEF Next, MainStep, WorkerStep, RunJobs

LEMMA Ids ==
    /\ Main \in Threads /\ Main \notin Workers
    /\ Workers \subseteq Threads
    /\ \A t \in Threads : t = Main \/ t \in Workers
    /\ Workers \subseteq Nat /\ Main \in Nat /\ Main >= 1
    /\ \A w \in Workers : w < NbWorkers
    /\ \A n \in Nat : n < NbWorkers => n \in Workers
BY SliceThreadAssumption DEF Main, Threads, Workers

-----------------------------------------------------------------------------
(* Type correctness.                                                       *)

LEMMA TypeInit == Init => TypeOK
<1> SUFFICES ASSUME Init PROVE TypeOK
  OBVIOUS
<1>1. NoLocals \in Locals
  BY DEF NoLocals, Locals, Loc
<1>2. local \in [Threads -> Locals]
  BY <1>1 DEF Init
<1>3. w_done \in [Workers -> BOOLEAN]
  BY DEF Init
<1>4. /\ pc \in [Threads -> WorkerPCs \cup MainPCs]
      /\ pc[Main] \in MainPCs
      /\ \A w \in Workers : pc[w] \in WorkerPCs
  BY Ids DEF Init, WorkerPCs, MainPCs
<1>5. /\ nb_jobs \in Nat /\ nb_active_threads \in Nat
      /\ first_job \in Nat /\ current_job \in Nat
      /\ posted \in 0 .. NbWorkers
  BY SliceThreadAssumption DEF Init
<1>6. /\ main_func \in BOOLEAN /\ execute_main \in BOOLEAN
      /\ ctx_done \in BOOLEAN /\ finished \in BOOLEAN
  BY DEF Init
<1> QED  BY <1>2, <1>3, <1>4, <1>5, <1>6 DEF TypeOK

LEMMA TypeStep == TypeOK /\ ControlOK /\ [Next]_vars => TypeOK'
<1> SUFFICES ASSUME TypeOK, ControlOK, [Next]_vars PROVE TypeOK'
  OBVIOUS
<1> USE Ids, SliceThreadAssumption DEF TypeOK, WorkerPCs, MainPCs, Locals, ctxVars, Goto, Loc
<1>1. ASSUME NEW n \in 1 .. MaxJobs, NEW with_main \in BOOLEAN, Execute(n, with_main)
      PROVE  TypeOK'
  <2>1. MinOf(n, nb_threads) \in Nat
    BY DEF MinOf, nb_threads
  <2> QED  BY <1>1, <2>1 DEF Execute
<1>2. CASE Post
  <2>1. posted \in Workers /\ posted + 1 \in 0 .. NbWorkers
    BY <1>2 DEF Post, nb_workers, ControlOK, Busy, MinOf, nb_threads
  <2> QED  BY <1>2, <2>1 DEF Post, Wake
<1>3. CASE AllPosted
  BY <1>3 DEF AllPosted, EnterRunJobs
<1>4. CASE MainFunc
  BY <1>4 DEF MainFunc
<1>5. CASE WaitDone
  <2>1. ctx_done' \in BOOLEAN
    BY <1>5 DEF WaitDone
  <2>2. \E l \in MainPCs : pc' = [pc EXCEPT ![Main] = l]
    BY <1>5 DEF WaitDone
  <2>3. /\ pc' \in [Threads -> WorkerPCs \cup MainPCs]
        /\ pc'[Main] \in MainPCs
        /\ \A w \in Workers : pc'[w] \in WorkerPCs
    BY <2>2
  <2> QED  BY <1>5, <2>1, <2>3 DEF WaitDone
<1>6. CASE Free
  BY <1>6 DEF Free
<1>7. CASE FreePost
  <2>1. posted \in Workers /\ posted + 1 \in 0 .. NbWorkers
    BY <1>7 DEF FreePost
  <2> QED  BY <1>7, <2>1 DEF FreePost, Wake
<1>8. CASE FreeJoin
  BY <1>8 DEF FreeJoin
<1>9. ASSUME NEW t \in Threads, TakeFirst(t) PROVE TypeOK'
  BY <1>9 DEF TakeFirst
<1>10. ASSUME NEW t \in Threads, JobEnds(t) PROVE TypeOK'
  BY <1>10 DEF JobEnds
<1>11. ASSUME NEW t \in Threads, TakeNext(t) PROVE TypeOK'
  <2>1. \E l \in {"job", "signal", "sleep", "idle", "wait"} :
            pc' = [pc EXCEPT ![t] = l] /\ (t # Main => l \in WorkerPCs) /\ (t = Main => l \in MainPCs)
    BY <1>11 DEF TakeNext
  <2>2. /\ pc' \in [Threads -> WorkerPCs \cup MainPCs]
        /\ pc'[Main] \in MainPCs
        /\ \A w \in Workers : pc'[w] \in WorkerPCs
    BY <2>1
  <2>3. local' \in [Threads -> Locals] /\ current_job' \in Nat
    BY <1>11 DEF TakeNext, NoLocals
  <2> QED  BY <1>11, <2>2, <2>3 DEF TakeNext
<1>12. ASSUME NEW t \in Threads, SpuriousWakeup(t) PROVE TypeOK'
  BY <1>12 DEF SpuriousWakeup
<1>13. ASSUME NEW w \in Workers, SignalDone(w) PROVE TypeOK'
  BY <1>13 DEF SignalDone
<1>14. ASSUME NEW w \in Workers, WorkerSleeps(w) PROVE TypeOK'
  BY <1>14 DEF WorkerSleeps
<1>15. ASSUME NEW w \in Workers, WorkerWakes(w) PROVE TypeOK'
  BY <1>15 DEF WorkerWakes, EnterRunJobs
<1>16. CASE UNCHANGED vars
  BY <1>16 DEF vars
<1> QED
  BY <1>1, <1>2, <1>3, <1>4, <1>5, <1>6, <1>7, <1>8, <1>9, <1>10, <1>11, <1>12,
     <1>13, <1>14, <1>15, <1>16, Steps

-----------------------------------------------------------------------------
(* The sets behind the counters.                                           *)

(* Their members, one thread at a time.                                    *)
LEMMA Members ==
    ASSUME TypeOK, ControlOK, WorkersOK, Busy
    PROVE  /\ nb_workers \in 0 .. NbWorkers
           /\ nb_active_threads \in 1 .. nb_jobs
           /\ nb_active_threads <= nb_threads
           /\ nb_active_threads = nb_workers + (IF execute_main THEN 0 ELSE 1)
           /\ \A w \in Workers : w \in Participants <=> w < nb_workers
           /\ Main \in Participants <=> ~execute_main
           /\ Out \subseteq Begun
           /\ Begun \subseteq Participants
           /\ Participants \subseteq Threads
<1> USE Ids, SliceThreadAssumption
<1>1. /\ nb_workers \in 0 .. NbWorkers
      /\ nb_active_threads \in 1 .. nb_jobs
      /\ nb_active_threads <= nb_threads
      /\ nb_active_threads = nb_workers + (IF execute_main THEN 0 ELSE 1)
  BY DEF TypeOK, ControlOK, nb_workers, nb_threads, MinOf
<1>2. /\ \A w \in Workers : w \in Participants <=> w < nb_workers
      /\ Main \in Participants <=> ~execute_main
      /\ Participants \subseteq Threads
  BY <1>1 DEF Participants, Main, Workers, Threads
<1>3. Out \subseteq Begun
  BY DEF Out, Begun, Quiet, Due, Called
<1>4. Begun \subseteq Participants
  <2>1. \A w \in Workers : w < posted => w < nb_workers
    BY <1>1 DEF ControlOK, TypeOK, Workers
  <2>2. Main \in Begun => ~execute_main
    BY DEF Begun, ControlOK, MainOut
  <2> QED  BY <1>2, <2>1, <2>2 DEF Begun
<1> QED  BY <1>1, <1>2, <1>3, <1>4

LEMMA Counts ==
    ASSUME TypeOK, ControlOK, WorkersOK, Busy
    PROVE  /\ IsFiniteSet(Participants) /\ Cardinality(Participants) = nb_active_threads
           /\ IsFiniteSet(Begun) /\ Cardinality(Begun) \in 0 .. nb_active_threads
           /\ IsFiniteSet(Out) /\ Cardinality(Out) \in 0 .. nb_active_threads
           /\ Cardinality(Begun) = nb_active_threads => Begun = Participants
           /\ Cardinality(Out) = nb_active_threads => Out = Participants
<1> DEFINE W == 0 .. nb_workers - 1
<1>0. /\ nb_workers \in 0 .. NbWorkers /\ Main \notin W
      /\ nb_active_threads = nb_workers + (IF execute_main THEN 0 ELSE 1)
      /\ nb_active_threads \in Nat
  BY Members, SliceThreadAssumption DEF Main, TypeOK
<1>1. IsFiniteSet(W) /\ Cardinality(W) = nb_workers
  BY <1>0, FS_Interval, 0 - 1 \in Int, SliceThreadAssumption
<1>2. IsFiniteSet(W \cup {Main}) /\ Cardinality(W \cup {Main}) = nb_workers + 1
  <2> HIDE DEF W
  <2> QED  BY <1>0, <1>1, FS_AddElement
<1>3. IsFiniteSet(Participants) /\ Cardinality(Participants) = nb_active_threads
  <2>1. CASE execute_main
    <3>1. Participants = W  BY <2>1 DEF Participants
    <3> QED  BY <3>1, <1>0, <1>1, <2>1
  <2>2. CASE ~execute_main
    <3>1. Participants = W \cup {Main}  BY <2>2 DEF Participants
    <3> QED  BY <3>1, <1>0, <1>2, <2>2
  <2> QED  BY <2>1, <2>2
<1>4. Out \in SUBSET Participants /\ Begun \in SUBSET Participants
  BY Members
<1>5. /\ IsFiniteSet(Begun) /\ Cardinality(Begun) <= nb_active_threads
      /\ Cardinality(Begun) = nb_active_threads => Begun = Participants
      /\ Cardinality(Begun) \in Nat
  BY <1>3, <1>4, FS_Subset, FS_CardinalityType
<1>6. /\ IsFiniteSet(Out) /\ Cardinality(Out) <= nb_active_threads
      /\ Cardinality(Out) = nb_active_threads => Out = Participants
      /\ Cardinality(Out) \in Nat
  BY <1>3, <1>4, FS_Subset, FS_CardinalityType
<1> QED  BY <1>0, <1>3, <1>5, <1>6

-----------------------------------------------------------------------------
(* Each action preserves the invariant.                                    *)

LEMMA InitInv == Init => Inv
<1> SUFFICES ASSUME Init PROVE Inv
  OBVIOUS
<1> USE Ids DEF Init
<1>1. TypeOK
  BY TypeInit
<1>2. WorkersOK
  BY DEF WorkersOK, Quiet
<1>3. ~Busy
  BY DEF Busy
<1>4. ControlOK
  BY <1>3 DEF ControlOK
<1>5. LocalsOK
  BY DEF LocalsOK
<1> QED  BY <1>1, <1>2, <1>3, <1>4, <1>5 DEF Inv, CountersOK, LastOneTells

LEMMA ExecuteInv ==
    ASSUME Inv, NEW n \in 1 .. MaxJobs, NEW with_main \in BOOLEAN, Execute(n, with_main)
    PROVE  Inv'
<1> USE Ids, SliceThreadAssumption DEF Inv
<1>1. TypeOK'
  BY TypeStep DEF Next
<1>2. \A w \in Workers : Quiet(w)'
  BY DEF Execute, Goto, Quiet, WorkersOK, TypeOK
<1>3. pc'[Main] = "post" /\ posted' = 0 /\ Busy'
  BY DEF Execute, Goto, TypeOK, Busy
<1>4. WorkersOK'
  BY <1>2, <1>3 DEF WorkersOK
<1>5. Begun' = {} /\ Out' = {}
  <2>1. \A w \in Workers : ~(w < posted')
    BY <1>3
  <2>2. ~MainOut' /\ pc'[Main] \notin {"job", "next"}
    BY <1>3 DEF MainOut
  <2> QED  BY <2>1, <2>2 DEF Begun, Out
<1>6. nb_active_threads' \in 1 .. n /\ nb_active_threads' = MinOf(n, nb_threads')
  BY DEF Execute, MinOf, nb_threads
<1>7. ControlOK'
  <2>1. posted' <= nb_workers'
    BY <1>3, <1>6 DEF nb_workers
  <2>2. ~finished' /\ (execute_main' => main_func')
    BY DEF Execute, ControlOK, TypeOK
  <2> QED  BY <1>3, <1>6, <2>1, <2>2 DEF Execute, ControlOK
<1>8. CountersOK'
  BY <1>3, <1>5, <1>6, FS_EmptySet DEF Execute, CountersOK
<1>9. LocalsOK'
  BY <1>2, <1>3 DEF LocalsOK, Quiet
<1>10. Participants' # {}
  <2>1. CASE execute_main'
    BY <2>1, <1>6 DEF Participants, nb_workers
  <2>2. CASE ~execute_main'
    BY <2>2 DEF Participants
  <2> QED  BY <2>1, <2>2
<1>11. Signalling' = {} /\ ctx_done' = FALSE
  BY <1>2 DEF Signalling, Quiet, Execute, ControlOK, Busy, TypeOK
<1> QED  BY <1>1, <1>4, <1>5, <1>7, <1>8, <1>9, <1>10, <1>11 DEF LastOneTells

LEMMA PostInv == Inv /\ Post => Inv'
<1> SUFFICES ASSUME Inv, Post PROVE Inv'
  OBVIOUS
<1> USE Ids, SliceThreadAssumption DEF Inv
<1>1. TypeOK'
  BY TypeStep DEF Next, MainStep
<1>2. Busy /\ Busy' /\ pc[Main] = "post" /\ pc'[Main] = "post" /\ ~finished
  BY DEF Post, Wake, Goto, TypeOK, Busy, ControlOK
<1>3. posted \in Workers /\ posted' = posted + 1 /\ posted' <= nb_workers /\ posted \in Nat
  BY <1>2, Members DEF Post, Wake, TypeOK
<1> PICK i \in Workers : i = posted
  BY <1>3
<1>4. pc[i] \in {"asleep", "awake"} /\ pc'[i] = "awake" /\ w_done'[i] = FALSE
  <2>1. Quiet(i) /\ pc[i] \in {"asleep", "awake", "exited"}
    BY <1>2, <1>3 DEF Post, MutexFree, WorkersOK
  <2> QED  BY <2>1 DEF Post, Quiet, Wake, Goto, TypeOK
<1>5. \A t \in Threads : t # i => pc'[t] = pc[t]
  BY <1>3 DEF Post, Wake, Goto, TypeOK
<1>6. \A w \in Workers : w # i => w_done'[w] = w_done[w]
  BY <1>3 DEF Post, Wake, TypeOK
<1>20. \A w \in Workers : w # i => /\ Quiet(w)' <=> Quiet(w)
                                   /\ Due(w)' <=> Due(w)
                                   /\ w < posted' <=> w < posted
  <2> SUFFICES ASSUME NEW w \in Workers, w # i
               PROVE  /\ Quiet(w)' <=> Quiet(w)
                      /\ Due(w)' <=> Due(w)
                      /\ w < posted' <=> w < posted
    OBVIOUS
  <2>1. w < posted' <=> w < posted
    BY <1>3
  <2>2. pc'[w] = pc[w] /\ w_done'[w] = w_done[w]
    BY <1>5, <1>6
  <2> QED  BY <2>1, <2>2 DEF Quiet, Due, Called
<1>21. ~Quiet(i)' /\ Due(i)' /\ pc'[i] # "signal"
  BY <1>4 DEF Quiet, Due, Called
<1>7. WorkersOK'
  <2>1. ~finished' /\ pc'[Main] # "idle"
    BY <1>2 DEF Post
  <2>2. i < posted'
    BY <1>3
  <2> SUFFICES ASSUME NEW w \in Workers
               PROVE  IF w >= posted' THEN Quiet(w)'
                      ELSE Quiet(w)' \/ Due(w)' \/ pc'[w] \in {"job", "next", "signal"}
    BY <2>1 DEF WorkersOK
  <2>3. CASE w = i
    <3>1. ~(w >= posted')
      BY <1>3, <2>3
    <3> QED  BY <3>1, <2>3, <1>4 DEF Due, Called
  <2>4. CASE w # i
    BY <2>4, <1>2, <1>3, <1>5, <1>20 DEF WorkersOK
  <2> QED  BY <2>3, <2>4
<1>8. Begun' = Begun /\ Out' = Out
  <2>1. ~(i < posted)
    BY <1>3
  <2>2. ~MainOut' /\ ~MainOut
    BY <1>2 DEF MainOut
  <2> QED  BY <1>2, <1>5, <1>20, <1>21, <2>1, <2>2 DEF Begun, Out
<1>9. nb_workers' = nb_workers /\ Participants' = Participants
  BY DEF Post, ctxVars, nb_workers, Participants
<1>10. ControlOK'
  BY <1>2, <1>3, <1>9 DEF ControlOK, Post, ctxVars, Busy, nb_threads
<1>11. CountersOK'
  BY <1>2, <1>8 DEF CountersOK, Post, ctxVars
<1>12. LocalsOK'
  BY <1>4, <1>5 DEF LocalsOK, Post, ctxVars
<1>13. Signalling' = Signalling
  BY <1>4, <1>5 DEF Signalling
<1> QED  BY <1>1, <1>2, <1>7, <1>8, <1>9, <1>10, <1>11, <1>12, <1>13 DEF LastOneTells, Post

LEMMA MainFuncInv == Inv /\ (AllPosted \/ MainFunc) => Inv'
<1> SUFFICES ASSUME Inv, AllPosted \/ MainFunc PROVE Inv'
  OBVIOUS
<1> USE Ids, SliceThreadAssumption DEF Inv
<1>1. TypeOK'
  BY TypeStep DEF Next, MainStep
<1>2. Busy /\ Busy' /\ pc[Main] # "idle" /\ pc'[Main] # "idle" /\ ~finished
  BY DEF AllPosted, MainFunc, EnterRunJobs, Goto, TypeOK, Busy, ControlOK
<1>3. UNCHANGED <<ctxVars, first_job, current_job, ctx_done, finished, w_done, posted>>
  BY DEF AllPosted, MainFunc
<1>4. \A w \in Workers : pc'[w] = pc[w] /\ local'[w] = local[w]
  BY DEF AllPosted, MainFunc, EnterRunJobs, Goto, TypeOK
<1>5. /\ pc'[Main] \in {"main_func", "first", "wait"}
      /\ pc'[Main] = "first" <=> ~execute_main
      /\ pc[Main] \in {"post", "main_func"}
      /\ pc'[Main] = "main_func" => execute_main
      /\ posted = nb_workers
  BY <1>2 DEF AllPosted, MainFunc, EnterRunJobs, Goto, TypeOK, ControlOK
<1>6. \A w \in Workers : /\ Quiet(w)' <=> Quiet(w)
                         /\ Due(w)' <=> Due(w)
                         /\ Called(w)' <=> Called(w)
  BY <1>3, <1>4 DEF Quiet, Due, Called
<1>7. WorkersOK'
  BY <1>2, <1>3, <1>4, <1>6 DEF WorkersOK
<1>8. Begun' = Begun /\ Out' = Out
  BY <1>3, <1>4, <1>5, <1>6 DEF Begun, Out, MainOut, ctxVars
<1>9. nb_workers' = nb_workers /\ Participants' = Participants
  BY <1>3 DEF ctxVars, nb_workers, Participants
<1>10. ControlOK'
  BY <1>2, <1>3, <1>5, <1>9 DEF ControlOK, ctxVars, Busy, nb_threads
<1>11. CountersOK'
  BY <1>2, <1>3, <1>8 DEF CountersOK, ctxVars
<1>12. LocalsOK'
  <2>1. pc'[Main] = "first" => local'[Main].nb_jobs = nb_jobs /\ local'[Main].nb_active = nb_active_threads
    BY <1>5 DEF AllPosted, MainFunc, EnterRunJobs, Goto, TypeOK, Loc
  <2> QED  BY <1>3, <1>4, <1>5, <2>1 DEF LocalsOK, ctxVars
<1>13. Signalling' = Signalling
  BY <1>4 DEF Signalling
<1> QED  BY <1>1, <1>2, <1>3, <1>7, <1>8, <1>9, <1>10, <1>11, <1>12, <1>13 DEF LastOneTells

(* A thread in run_jobs() belongs to the execution that is under way.      *)
LEMMA InRunJobs ==
    ASSUME Inv, NEW t \in Threads, pc[t] \in {"first", "job", "next", "signal"}
    PROVE  /\ Busy /\ pc[Main] # "idle" /\ ~finished
           /\ t \in Participants
           /\ t \in Workers => t < posted
           /\ t = Main => ~execute_main
           /\ t = Main => posted = nb_workers
<1> USE Ids DEF Inv
<1>1. t \in Workers => t < posted /\ pc[Main] # "idle" /\ ~finished
  BY DEF WorkersOK, Quiet, Called, TypeOK
<1>2. Busy /\ ~finished /\ pc[Main] # "idle"
  BY <1>1 DEF ControlOK, TypeOK, MainPCs, Busy
<1>3. t = Main => ~execute_main /\ posted = nb_workers
  BY <1>2 DEF ControlOK, TypeOK, MainPCs
<1>4. t \in Participants
  <2>1. t \in Workers => t < nb_workers
    BY <1>1, <1>2, Members DEF ControlOK, TypeOK
  <2> QED  BY <2>1, <1>2, <1>3, Members
<1> QED  BY <1>1, <1>2, <1>3, <1>4

LEMMA TakeFirstInv ==
    ASSUME Inv, NEW t \in Threads, TakeFirst(t)
    PROVE  Inv'
<1> USE Ids, SliceThreadAssumption DEF Inv
<1>0. pc[t] = "first" /\ pc'[t] = "job"
  BY DEF TakeFirst, Goto, TypeOK
<1>1. TypeOK'
  BY TypeStep DEF Next, MainStep, WorkerStep, RunJobs
<1>2. /\ Busy /\ pc[Main] # "idle" /\ ~finished
      /\ t \in Participants
      /\ t \in Workers => t < posted
      /\ t = Main => ~execute_main /\ posted = nb_workers
  BY <1>0, InRunJobs
<1>3. UNCHANGED <<ctxVars, current_job, ctx_done, finished, w_done, posted>>
  BY DEF TakeFirst
<1>4. \A u \in Threads : u # t => pc'[u] = pc[u] /\ local'[u] = local[u]
  BY DEF TakeFirst, Goto, TypeOK
<1>5. Busy' /\ pc'[Main] # "idle"
  BY <1>0, <1>2, <1>4 DEF Busy
<1>6. \A w \in Workers : w # t => /\ Quiet(w)' <=> Quiet(w)
                                  /\ Due(w)' <=> Due(w)
                                  /\ Called(w)' <=> Called(w)
  BY <1>3, <1>4 DEF Quiet, Due, Called
<1>7. WorkersOK'
  <2> SUFFICES ASSUME NEW w \in Workers
               PROVE  IF w >= posted THEN Quiet(w)'
                      ELSE Quiet(w)' \/ Due(w)' \/ pc'[w] \in {"job", "next", "signal"}
    BY <1>2, <1>3, <1>5 DEF WorkersOK
  <2>1. CASE w = t
    BY <2>1, <1>0, <1>2 DEF TypeOK
  <2>2. CASE w # t
    BY <2>2, <1>2, <1>4, <1>6 DEF WorkersOK
  <2> QED  BY <2>1, <2>2
<1>8. Begun' = Begun \cup {t} /\ t \notin Begun /\ Out' = Out
  <2>1. CASE t = Main
    <3>1. \A w \in Workers : /\ Quiet(w)' <=> Quiet(w)
                             /\ Due(w)' <=> Due(w)
                             /\ pc'[w] = pc[w]
      BY <2>1, <1>4, <1>6
    <3>2. ~MainOut /\ ~MainOut'
      BY <2>1, <1>0 DEF MainOut
    <3> QED  BY <3>1, <3>2, <2>1, <1>0, <1>3 DEF Begun, Out
  <2>2. CASE t \in Workers
    <3>1. pc'[Main] = pc[Main] /\ (MainOut' <=> MainOut)
      BY <2>2, <1>3, <1>4 DEF MainOut, ctxVars
    <3>2. Due(t) /\ ~Due(t)' /\ ~Quiet(t) /\ ~Quiet(t)'
      BY <1>0 DEF Due, Called, Quiet
    <3>3. t < posted /\ t # Main
      BY <2>2, <1>2
    <3>4. \A w \in Workers : w # t => pc'[w] = pc[w]
      BY <1>4
    <3> QED  BY <3>1, <3>2, <3>3, <3>4, <1>0, <1>3, <1>6 DEF Begun, Out
  <2> QED  BY <2>1, <2>2
<1>9. nb_workers' = nb_workers /\ Participants' = Participants
  BY <1>3 DEF ctxVars, nb_workers, Participants
<1>10. ControlOK'
  BY <1>0, <1>2, <1>3, <1>4, <1>5, <1>9 DEF ControlOK, ctxVars, nb_threads
<1>11. CountersOK'
  <2>1. first_job = Cardinality(Begun) /\ IsFiniteSet(Begun)
    BY <1>2, Counts DEF CountersOK
  <2>2. Cardinality(Begun \cup {t}) = Cardinality(Begun) + 1
    BY <2>1, <1>8, FS_AddElement
  <2>3. first_job' = Cardinality(Begun')
    BY <2>1, <2>2, <1>8 DEF TakeFirst
  <2> QED  BY <2>3, <1>2, <1>3, <1>8 DEF CountersOK, ctxVars
<1>12. LocalsOK'
  <2>1. /\ local'[t].nb_jobs = nb_jobs /\ local'[t].nb_active = nb_active_threads
        /\ local'[t].first = first_job
    BY <1>0 DEF TakeFirst, TypeOK, LocalsOK, Loc
  <2>2. first_job' = first_job + 1 /\ first_job \in Nat
    BY DEF TakeFirst, TypeOK
  <2>3. ASSUME NEW u \in Threads, pc'[u] \in {"first", "job", "next"}
        PROVE  local'[u].nb_jobs = nb_jobs' /\ local'[u].nb_active = nb_active_threads'
    BY <2>1, <2>3, <1>3, <1>4 DEF LocalsOK, ctxVars
  <2>4. ASSUME NEW u \in Threads, pc'[u] \in {"job", "next"}, u # t
        PROVE  local[u].first < first_job /\ local'[u].first = local[u].first
    BY <2>4, <1>4 DEF LocalsOK
  <2>5. \A u \in Threads : local[u].first \in Nat
    BY DEF TypeOK, Locals
  <2>6. ASSUME NEW u \in Threads, pc'[u] \in {"job", "next"}
        PROVE  local'[u].first < first_job'
    <3>1. CASE u = t  BY <3>1, <2>1, <2>2
    <3>2. CASE u # t  BY <3>2, <2>2, <2>4, <2>5, <2>6
    <3> QED  BY <3>1, <3>2
  <2>7. ASSUME NEW u \in Threads, pc'[u] \in {"job", "next"},
               NEW v \in Threads \ {u}, pc'[v] \in {"job", "next"}
        PROVE  local'[u].first # local'[v].first
    <3>1. CASE u = t  BY <3>1, <2>1, <2>2, <2>4, <2>5, <2>7
    <3>2. CASE v = t  BY <3>2, <2>1, <2>2, <2>4, <2>5, <2>7
    <3>3. CASE u # t /\ v # t  BY <3>3, <2>7, <1>4 DEF LocalsOK
    <3> QED  BY <3>1, <3>2, <3>3
  <2> QED  BY <2>3, <2>6, <2>7 DEF LocalsOK
<1>13. Signalling' = Signalling
  BY <1>0, <1>4 DEF Signalling
<1> QED
  BY <1>1, <1>2, <1>3, <1>5, <1>7, <1>8, <1>9, <1>10, <1>11, <1>12, <1>13 DEF LastOneTells

LEMMA JobEndsInv ==
    ASSUME Inv, NEW t \in Threads, JobEnds(t)
    PROVE  Inv'
<1> USE Ids, SliceThreadAssumption DEF Inv
<1>0. pc[t] = "job" /\ pc'[t] = "next"
  BY DEF JobEnds, Goto, TypeOK
<1>1. TypeOK'
  BY TypeStep DEF Next, MainStep, WorkerStep, RunJobs
<1>2. /\ Busy /\ pc[Main] # "idle" /\ ~finished
      /\ t \in Workers => t < posted
      /\ t = Main => ~execute_main /\ posted = nb_workers
  BY <1>0, InRunJobs
<1>3. UNCHANGED <<ctxVars, first_job, current_job, ctx_done, finished, w_done, posted, local>>
  BY DEF JobEnds
<1>4. \A u \in Threads : u # t => pc'[u] = pc[u]
  BY DEF JobEnds, Goto, TypeOK
<1>5. Busy' /\ pc'[Main] # "idle"
  BY <1>0, <1>2, <1>4 DEF Busy
<1>6. \A w \in Workers : /\ Quiet(w)' <=> Quiet(w)
                         /\ Due(w)' <=> Due(w)
                         /\ Called(w)' <=> Called(w)
                         /\ pc'[w] = "signal" <=> pc[w] = "signal"
                         /\ pc'[w] \in {"job", "next"} <=> pc[w] \in {"job", "next"}
  BY <1>0, <1>3, <1>4 DEF Quiet, Due, Called
<1>7. WorkersOK'
  BY <1>2, <1>3, <1>5, <1>6 DEF WorkersOK
<1>8. Begun' = Begun /\ Out' = Out
  <2>1. /\ MainOut' <=> MainOut
        /\ pc'[Main] \in {"job", "next"} <=> pc[Main] \in {"job", "next"}
    BY <1>0, <1>3, <1>4 DEF MainOut, ctxVars
  <2> QED  BY <2>1, <1>3, <1>6 DEF Begun, Out
<1>9. nb_workers' = nb_workers /\ Participants' = Participants
  BY <1>3 DEF ctxVars, nb_workers, Participants
<1>10. ControlOK'
  BY <1>0, <1>2, <1>3, <1>4, <1>5, <1>9 DEF ControlOK, ctxVars, nb_threads
<1>11. CountersOK'
  BY <1>2, <1>3, <1>8 DEF CountersOK, ctxVars
<1>12. LocalsOK'
  <2>1. \A u \in Threads : /\ pc'[u] \in {"job", "next"} <=> pc[u] \in {"job", "next"}
                           /\ pc'[u] = "first" <=> pc[u] = "first"
    BY <1>0, <1>4
  <2> QED  BY <2>1, <1>3 DEF LocalsOK, ctxVars
<1>13. Signalling' = Signalling
  BY <1>6 DEF Signalling
<1> QED
  BY <1>1, <1>2, <1>3, <1>5, <1>7, <1>8, <1>9, <1>10, <1>11, <1>12, <1>13 DEF LastOneTells

(* TakeNext(t) that gets a job.                                            *)
LEMMA GetsJobInv ==
    ASSUME Inv, NEW t \in Threads, TakeNext(t), current_job < local[t].nb_jobs
    PROVE  Inv'
<1> USE Ids, SliceThreadAssumption DEF Inv
<1>0. pc[t] = "next" /\ pc'[t] = "job"
  BY DEF TakeNext, Goto, TypeOK
<1>1. TypeOK'
  BY TypeStep DEF Next, MainStep, WorkerStep, RunJobs
<1>2. /\ Busy /\ pc[Main] # "idle" /\ ~finished
      /\ t \in Workers => t < posted
      /\ t = Main => ~execute_main /\ posted = nb_workers
  BY <1>0, InRunJobs
<1>3. UNCHANGED <<ctxVars, first_job, ctx_done, finished, w_done, posted>>
  BY DEF TakeNext
<1>4. \A u \in Threads : u # t => pc'[u] = pc[u]
  BY DEF TakeNext, Goto, TypeOK
<1>5. Busy' /\ pc'[Main] # "idle"
  BY <1>0, <1>2, <1>4 DEF Busy
<1>6. \A w \in Workers : /\ Quiet(w)' <=> Quiet(w)
                         /\ Due(w)' <=> Due(w)
                         /\ Called(w)' <=> Called(w)
                         /\ pc'[w] = "signal" <=> pc[w] = "signal"
                         /\ pc'[w] \in {"job", "next"} <=> pc[w] \in {"job", "next"}
  BY <1>0, <1>3, <1>4 DEF Quiet, Due, Called
<1>7. WorkersOK'
  BY <1>2, <1>3, <1>5, <1>6 DEF WorkersOK
<1>8. Begun' = Begun /\ Out' = Out
  <2>1. /\ MainOut' <=> MainOut
        /\ pc'[Main] \in {"job", "next"} <=> pc[Main] \in {"job", "next"}
    BY <1>0, <1>3, <1>4 DEF MainOut, ctxVars
  <2> QED  BY <2>1, <1>3, <1>6 DEF Begun, Out
<1>9. nb_workers' = nb_workers /\ Participants' = Participants
  BY <1>3 DEF ctxVars, nb_workers, Participants
<1>10. ControlOK'
  BY <1>0, <1>2, <1>3, <1>4, <1>5, <1>9 DEF ControlOK, ctxVars, nb_threads
<1>11. CountersOK'
  <2>1. local[t].nb_jobs = nb_jobs /\ current_job' = current_job + 1
    BY <1>0 DEF LocalsOK, TakeNext
  <2>2. Out = {}
    BY <2>1, <1>2, Counts DEF CountersOK, TypeOK
  <2> QED  BY <2>1, <2>2, <1>2, <1>3, <1>8 DEF CountersOK, ctxVars, TypeOK
<1>12. LocalsOK'
  <2>1. \A u \in Threads : /\ local'[u].nb_jobs = local[u].nb_jobs
                           /\ local'[u].nb_active = local[u].nb_active
                           /\ local'[u].first = local[u].first
    BY DEF TakeNext, TypeOK, Loc
  <2>2. \A u \in Threads : /\ pc'[u] \in {"job", "next"} <=> pc[u] \in {"job", "next"}
                           /\ pc'[u] = "first" <=> pc[u] = "first"
    BY <1>0, <1>4
  <2>3. ASSUME NEW u \in Threads, pc'[u] \in {"first", "job", "next"}
        PROVE  local'[u].nb_jobs = nb_jobs' /\ local'[u].nb_active = nb_active_threads'
    BY <2>1, <2>2, <2>3, <1>3 DEF LocalsOK, ctxVars
  <2>4. ASSUME NEW u \in Threads, pc'[u] \in {"job", "next"}
        PROVE  /\ local'[u].first < first_job'
               /\ \A v \in Threads \ {u} :
                     pc'[v] \in {"job", "next"} => local'[v].first # local'[u].first
    BY <2>1, <2>2, <2>4, <1>3 DEF LocalsOK
  <2> QED  BY <2>3, <2>4 DEF LocalsOK
<1>13. Signalling' = Signalling
  BY <1>6 DEF Signalling
<1> QED
  BY <1>1, <1>2, <1>3, <1>5, <1>7, <1>8, <1>9, <1>10, <1>11, <1>12, <1>13 DEF LastOneTells

(* A thread that finds no job left: it is the last one exactly when all    *)
(* the others have found none.                                             *)
LEMMA Leaving ==
    ASSUME Inv, NEW t \in Threads, pc[t] = "next", ~(current_job < local[t].nb_jobs)
    PROVE  /\ t \in Participants /\ t \notin Out /\ t \in Begun
           /\ current_job = nb_jobs + Cardinality(Out)
           /\ Cardinality(Out \cup {t}) = Cardinality(Out) + 1
           /\ IsLast(t) <=> Out \cup {t} = Participants
           /\ ~ctx_done /\ Signalling = {}
<1> USE Ids, SliceThreadAssumption DEF Inv
<1>1. /\ Busy /\ t \in Participants
      /\ t \in Workers => t < posted
      /\ t = Main => ~execute_main
  BY InRunJobs
<1>2. t \notin Out /\ t \in Begun
  BY <1>1 DEF Out, Begun, Due, Called, Quiet, MainOut
<1>3. /\ local[t].nb_jobs = nb_jobs /\ local[t].nb_active = nb_active_threads
      /\ nb_jobs \in Nat /\ nb_active_threads \in Nat /\ current_job \in Nat
  BY DEF LocalsOK, TypeOK
<1>4. IsFiniteSet(Out) /\ Cardinality(Out) \in Nat
  BY <1>1, Counts
<1>5. current_job = nb_jobs + Cardinality(Out)
  BY <1>1, <1>3, <1>4, FS_EmptySet DEF CountersOK
<1>6. Cardinality(Out \cup {t}) = Cardinality(Out) + 1
  BY <1>2, <1>4, FS_AddElement
<1>7. IsLast(t) <=> Out \cup {t} = Participants
  <2>1. IsLast(t) <=> Cardinality(Out \cup {t}) = nb_active_threads
    BY <1>3, <1>4, <1>5, <1>6 DEF IsLast
  <2>2. /\ IsFiniteSet(Participants) /\ Cardinality(Participants) = nb_active_threads
        /\ Out \cup {t} \in SUBSET Participants
    BY <1>1, Counts, Members
  <2>3. Cardinality(Out \cup {t}) = nb_active_threads => Out \cup {t} = Participants
    BY <2>2, FS_Subset
  <2> QED  BY <2>1, <2>2, <2>3
<1>8. ~ctx_done /\ Signalling = {}
  BY <1>1, <1>2 DEF LastOneTells
<1> QED  BY <1>1, <1>2, <1>5, <1>6, <1>7, <1>8

(* When all are out and nobody has to tell, every worker is quiet.         *)
LEMMA AllQuiet ==
    ASSUME TypeOK, WorkersOK, ControlOK, Busy,
           NEW t \in Threads, Out \cup {t} = Participants, Signalling = {},
           posted = nb_workers
    PROVE  \A w \in Workers : w # t => Quiet(w)
<1> SUFFICES ASSUME NEW w \in Workers, w # t PROVE Quiet(w)
  OBVIOUS
<1>1. CASE w < nb_workers
  <2>1. w \in Out
    BY <1>1, Members
  <2> QED  BY <2>1, Ids DEF Out, Signalling
<1>2. CASE ~(w < nb_workers)
  BY <1>2, Members, Ids DEF WorkersOK, TypeOK
<1> QED  BY <1>1, <1>2

LEMMA LeavesInv ==
    ASSUME Inv, NEW t \in Threads, TakeNext(t), ~(current_job < local[t].nb_jobs)
    PROVE  Inv'
<1> USE Ids, SliceThreadAssumption DEF Inv
<1>0. pc[t] = "next"
  BY DEF TakeNext
<1>1. TypeOK'
  BY TypeStep DEF Next, MainStep, WorkerStep, RunJobs
<1>2. /\ Busy /\ pc[Main] # "idle" /\ ~finished
      /\ t \in Workers => t < posted
      /\ t = Main => ~execute_main /\ posted = nb_workers
  BY <1>0, InRunJobs
<1>3. /\ UNCHANGED <<ctxVars, first_job, ctx_done, finished, w_done, posted>>
      /\ current_job' = current_job + 1
  BY DEF TakeNext
<1>4. \A u \in Threads : u # t => pc'[u] = pc[u] /\ local'[u] = local[u]
  BY DEF TakeNext, Goto, TypeOK
<1>5. /\ t \in Workers /\ IsLast(t) => pc'[t] = "signal"
      /\ t \in Workers /\ ~IsLast(t) => pc'[t] = "sleep"
      /\ t = Main /\ IsLast(t) => pc'[t] = "idle"
      /\ t = Main /\ ~IsLast(t) => pc'[t] = "wait"
  BY DEF TakeNext, Goto, TypeOK
<1>6. /\ t \in Participants /\ t \notin Out /\ t \in Begun
      /\ current_job = nb_jobs + Cardinality(Out)
      /\ Cardinality(Out \cup {t}) = Cardinality(Out) + 1
      /\ IsLast(t) <=> Out \cup {t} = Participants
      /\ ~ctx_done /\ Signalling = {}
  BY <1>0, Leaving DEF TakeNext
<1>7. \A w \in Workers : w # t => /\ Quiet(w)' <=> Quiet(w)
                                  /\ Due(w)' <=> Due(w)
  BY <1>3, <1>4 DEF Quiet, Due, Called
<1>8. nb_workers' = nb_workers /\ Participants' = Participants
  BY <1>3 DEF ctxVars, nb_workers, Participants
<1>9. t \in Workers => (Quiet(t)' \/ pc'[t] = "signal") /\ ~Due(t)' /\ ~Due(t)
  BY <1>0, <1>5 DEF Quiet, Due, Called
<1>10. LocalsOK'
  BY <1>0, <1>3, <1>4, <1>5 DEF LocalsOK, ctxVars
<1>11. CASE t = Main /\ IsLast(t)
  <2>1. pc'[Main] = "idle" /\ ~Busy' /\ ~ctx_done' /\ ~finished'
    BY <1>11, <1>2, <1>3, <1>5, <1>6 DEF Busy
  <2>2. \A w \in Workers : Quiet(w)
    BY <1>11, <1>2, <1>6, AllQuiet
  <2>3. WorkersOK'
    BY <2>1, <2>2, <1>7, <1>11 DEF WorkersOK
  <2> QED  BY <2>1, <2>3, <1>1, <1>10 DEF ControlOK, CountersOK, LastOneTells
<1>12. CASE ~(t = Main /\ IsLast(t))
  <2>1. Busy' /\ (pc'[Main] = "wait" \/ pc'[Main] = pc[Main])
    <3>1. CASE t = Main
      <4>1. pc'[Main] = "wait"
        BY <3>1, <1>12, <1>5
      <4> QED  BY <4>1 DEF Busy
    <3>2. CASE t # Main
      <4>1. pc'[Main] = pc[Main]
        BY <3>2, <1>4
      <4> QED  BY <4>1, <1>2 DEF Busy
    <3> QED  BY <3>1, <3>2
  <2>2. Busy' /\ pc'[Main] # "idle"
    BY <2>1, <1>2
  <2>3. Begun' = Begun /\ Out' = Out \cup {t}
    <3>1. CASE t = Main
      <4>1. MainOut' /\ ~MainOut
        BY <3>1, <1>0, <1>2, <1>3, <1>5, <1>12 DEF MainOut, ctxVars
      <4> QED  BY <4>1, <3>1, <1>0, <1>3, <1>4, <1>7 DEF Begun, Out
    <3>2. CASE t \in Workers
      <4>1. pc'[Main] = pc[Main] /\ (MainOut' <=> MainOut)
        BY <3>2, <1>3, <1>4 DEF MainOut, ctxVars
      <4>2. \A w \in Workers : w # t => pc'[w] = pc[w]
        BY <1>4
      <4> QED  BY <3>2, <4>1, <4>2, <1>0, <1>2, <1>3, <1>7, <1>9 DEF Begun, Out
    <3> QED  BY <3>1, <3>2
  <2>4. WorkersOK'
    <3> SUFFICES ASSUME NEW w \in Workers
                 PROVE  IF w >= posted THEN Quiet(w)'
                        ELSE Quiet(w)' \/ Due(w)' \/ pc'[w] \in {"job", "next", "signal"}
      BY <2>2, <1>2, <1>3 DEF WorkersOK
    <3>1. CASE w = t
      <4>1. ~(w >= posted)
        BY <3>1, <1>2 DEF TypeOK
      <4> QED  BY <3>1, <4>1, <1>5 DEF Quiet
    <3>2. CASE w # t
      BY <3>2, <1>2, <1>4, <1>7 DEF WorkersOK
    <3> QED  BY <3>1, <3>2
  <2>5. ControlOK'
    <3>1. /\ finished' <=> pc'[Main] \in {"free", "freed"}
          /\ ctx_done' => Busy'
      BY <2>2, <1>2, <1>3, <1>6 DEF Busy
    <3>2. /\ execute_main' => main_func' /\ pc'[Main] \notin {"first", "job", "next"}
          /\ pc'[Main] = "main_func" => execute_main'
          /\ pc'[Main] # "post" => posted' = nb_workers'
      BY <2>1, <1>0, <1>2, <1>3, <1>4, <1>5, <1>8 DEF ControlOK, ctxVars
    <3>3. /\ nb_jobs' >= 1 /\ nb_active_threads' = MinOf(nb_jobs', nb_threads')
          /\ posted' <= nb_workers'
      BY <1>2, <1>3, <1>8 DEF ControlOK, ctxVars, nb_threads
    <3> QED  BY <3>1, <3>2, <3>3 DEF ControlOK
  <2>6. CountersOK'
    <3>1. first_job' = Cardinality(Begun')
      BY <2>3, <1>2, <1>3 DEF CountersOK
    <3>2. current_job' = nb_jobs' + Cardinality(Out')
      <4>1. IsFiniteSet(Out) /\ Cardinality(Out) \in Nat
        BY <1>2, Counts
      <4>2. current_job + 1 = nb_jobs + Cardinality(Out \cup {t})
        BY <1>6, <4>1 DEF TypeOK
      <4> QED  BY <4>2, <2>3, <1>3 DEF ctxVars
    <3>3. Out' # {}
      BY <2>3
    <3> QED  BY <3>1, <3>2, <3>3 DEF CountersOK
  <2>7. LastOneTells'
    <3>1. Signalling' = IF IsLast(t) THEN {t} ELSE {}
      <4>1. \A w \in Workers : w # t => pc'[w] # "signal"
        BY <1>4, <1>6 DEF Signalling
      <4>2. t \in Workers => (pc'[t] = "signal" <=> IsLast(t))
        BY <1>5
      <4>3. t = Main => ~IsLast(t)
        BY <1>12
      <4> QED  BY <4>1, <4>2, <4>3 DEF Signalling
    <3>2. Out' = Participants' <=> IsLast(t)
      BY <2>3, <1>6, <1>8
    <3>3. ~ctx_done'
      BY <1>3, <1>6
    <3> QED  BY <3>1, <3>2, <3>3 DEF LastOneTells
  <2> QED  BY <1>1, <1>10, <2>4, <2>5, <2>6, <2>7
<1> QED  BY <1>11, <1>12

LEMMA SignalDoneInv ==
    ASSUME Inv, NEW i \in Workers, SignalDone(i)
    PROVE  Inv'
<1> USE Ids, SliceThreadAssumption DEF Inv
<1>0. pc[i] = "signal" /\ pc'[i] = "sleep" /\ i # Main
  BY DEF SignalDone, TypeOK
<1>1. TypeOK'
  BY TypeStep DEF Next, WorkerStep
<1>2. /\ Busy /\ pc[Main] # "idle" /\ ~finished
      /\ i < posted
  BY <1>0, InRunJobs
<1>3. /\ UNCHANGED <<ctxVars, first_job, current_job, finished, w_done, posted, local>>
      /\ ctx_done'
  BY DEF SignalDone
<1>4. /\ \A w \in Workers : w # i => pc'[w] = pc[w]
      /\ pc'[Main] = IF pc[Main] = "blocked" THEN "wait" ELSE pc[Main]
  BY DEF SignalDone, TypeOK
<1>5. Busy' /\ pc'[Main] # "idle"
  BY <1>2, <1>4 DEF Busy
<1>6. \A w \in Workers :
          /\ w # i => (Quiet(w)' <=> Quiet(w))
          /\ Quiet(w)' \/ pc'[w] = "signal" <=> Quiet(w) \/ pc[w] = "signal"
          /\ Due(w)' <=> Due(w)
          /\ pc'[w] \in {"first", "job", "next"} <=> pc[w] \in {"first", "job", "next"}
          /\ pc'[w] \in {"job", "next"} <=> pc[w] \in {"job", "next"}
  BY <1>0, <1>3, <1>4 DEF Quiet, Due, Called
<1>7. WorkersOK'
  <2> SUFFICES ASSUME NEW w \in Workers
               PROVE  IF w >= posted THEN Quiet(w)'
                      ELSE Quiet(w)' \/ Due(w)' \/ pc'[w] \in {"job", "next", "signal"}
    BY <1>2, <1>3, <1>5 DEF WorkersOK
  <2>1. CASE w = i
    BY <2>1, <1>0, <1>2 DEF TypeOK, Quiet
  <2>2. CASE w # i
    BY <2>2, <1>2, <1>4, <1>6 DEF WorkersOK
  <2> QED  BY <2>1, <2>2
<1>8. Begun' = Begun /\ Out' = Out
  <2>1. /\ MainOut' <=> MainOut
        /\ pc'[Main] \in {"job", "next"} <=> pc[Main] \in {"job", "next"}
    BY <1>3, <1>4 DEF MainOut, ctxVars
  <2> QED  BY <2>1, <1>3, <1>6 DEF Begun, Out
<1>9. nb_workers' = nb_workers /\ Participants' = Participants
  BY <1>3 DEF ctxVars, nb_workers, Participants
<1>10. ControlOK'
  BY <1>2, <1>3, <1>4, <1>5, <1>9 DEF ControlOK, ctxVars, nb_threads
<1>11. CountersOK'
  BY <1>2, <1>3, <1>8 DEF CountersOK, ctxVars
<1>12. LocalsOK'
  <2>1. \A u \in Threads : /\ pc'[u] \in {"first", "job", "next"} <=> pc[u] \in {"first", "job", "next"}
                           /\ pc'[u] \in {"job", "next"} <=> pc[u] \in {"job", "next"}
    BY <1>4, <1>6
  <2> QED  BY <2>1, <1>3 DEF LocalsOK, ctxVars
<1>13. i \in Signalling /\ Signalling' = {} /\ Out = Participants
  <2>1. i \in Signalling
    BY <1>0 DEF Signalling
  <2>2. \A w \in Signalling : w = i
    BY <2>1, <1>2 DEF LastOneTells
  <2> QED  BY <2>1, <2>2, <1>0, <1>2, <1>4 DEF Signalling, LastOneTells
<1>14. LastOneTells'
  BY <1>3, <1>8, <1>9, <1>13 DEF LastOneTells
<1> QED  BY <1>1, <1>7, <1>10, <1>11, <1>12, <1>14

(* Waking up and falling asleep, at any time.                              *)
LEMMA SleepInv ==
    ASSUME Inv, NEW t \in Threads,
           \/ SpuriousWakeup(t)
           \/ t \in Workers /\ WorkerSleeps(t)
           \/ t \in Workers /\ WorkerWakes(t) /\ w_done[t]
           \/ pc[t] = "wait" /\ WaitDone /\ ~ctx_done
    PROVE  Inv'
<1> USE Ids, SliceThreadAssumption DEF Inv
<1>1. TypeOK'
  BY TypeStep DEF Next, MainStep, WorkerStep
<1>2. /\ UNCHANGED <<ctxVars, first_job, current_job, ctx_done, finished, posted, local>>
      /\ \A u \in Threads : u # t => pc'[u] = pc[u]
      /\ \A w \in Workers : w # t => w_done'[w] = w_done[w]
  <2>1. pc[t] = "wait" => t = Main
    BY DEF TypeOK, WorkerPCs
  <2> QED  BY <2>1 DEF SpuriousWakeup, WorkerSleeps, WorkerWakes, WaitDone, Goto, TypeOK
<1>3. t = Main => /\ {pc[t], pc'[t]} \subseteq {"wait", "blocked"}
                  /\ w_done' = w_done
  BY DEF SpuriousWakeup, WorkerSleeps, WorkerWakes, WaitDone, Goto, TypeOK, MainPCs
<1>4. t \in Workers => Quiet(t) /\ Quiet(t)'
  <2>1. ASSUME t \in Workers, pc[t] = "asleep" PROVE w_done[t]
    <3>1. Quiet(t) \/ Called(t) \/ pc[t] # "asleep"
      BY <2>1 DEF WorkersOK, Due
    <3> QED  BY <3>1, <2>1 DEF Quiet, Called
  <2> QED  BY <2>1 DEF SpuriousWakeup, WorkerSleeps, WorkerWakes, WaitDone, Goto, TypeOK,
                       WorkerPCs, Quiet
<1>5. \A w \in Workers : /\ Quiet(w)' <=> Quiet(w)
                         /\ Due(w)' <=> Due(w)
                         /\ Called(w)' <=> Called(w)
                         /\ pc'[w] = "signal" <=> pc[w] = "signal"
                         /\ pc'[w] = "first" <=> pc[w] = "first"
                         /\ pc'[w] = "exited" <=> pc[w] = "exited"
                         /\ pc'[w] \in {"job", "next"} <=> pc[w] \in {"job", "next"}
  <2> SUFFICES ASSUME NEW w \in Workers
               PROVE  /\ Quiet(w)' <=> Quiet(w)
                      /\ Due(w)' <=> Due(w)
                      /\ Called(w)' <=> Called(w)
                      /\ pc'[w] = "signal" <=> pc[w] = "signal"
                      /\ pc'[w] = "first" <=> pc[w] = "first"
                      /\ pc'[w] = "exited" <=> pc[w] = "exited"
                      /\ pc'[w] \in {"job", "next"} <=> pc[w] \in {"job", "next"}
    OBVIOUS
  <2>1. CASE w = t
    BY <2>1, <1>4 DEF Quiet, Due, Called
  <2>2. CASE w # t
    BY <2>2, <1>2 DEF Quiet, Due, Called
  <2> QED  BY <2>1, <2>2
<1>6. \/ pc'[Main] = pc[Main]
      \/ {pc[Main], pc'[Main]} \subseteq {"wait", "blocked"}
  BY <1>2, <1>3
<1>7. Busy' <=> Busy
  BY <1>6 DEF Busy
<1>8. WorkersOK'
  BY <1>2, <1>5, <1>6 DEF WorkersOK
<1>9. Begun' = Begun /\ Out' = Out
  <2>1. /\ MainOut' <=> MainOut
        /\ pc'[Main] \in {"job", "next"} <=> pc[Main] \in {"job", "next"}
    BY <1>2, <1>6 DEF MainOut, ctxVars
  <2> QED  BY <2>1, <1>2, <1>5 DEF Begun, Out
<1>10. nb_workers' = nb_workers /\ Participants' = Participants
  BY <1>2 DEF ctxVars, nb_workers, Participants
<1>11. ControlOK'
  BY <1>2, <1>6, <1>7, <1>10 DEF ControlOK, ctxVars, nb_threads
<1>12. CountersOK'
  BY <1>2, <1>7, <1>9 DEF CountersOK, ctxVars
<1>13. LocalsOK'
  <2>1. \A u \in Threads : /\ pc'[u] \in {"job", "next"} <=> pc[u] \in {"job", "next"}
                           /\ pc'[u] = "first" <=> pc[u] = "first"
    BY <1>5, <1>6
  <2> QED  BY <2>1, <1>2 DEF LocalsOK, ctxVars
<1>14. Signalling' = Signalling
  BY <1>5 DEF Signalling
<1> QED
  BY <1>1, <1>2, <1>7, <1>8, <1>9, <1>10, <1>11, <1>12, <1>13, <1>14 DEF LastOneTells

LEMMA EntersInv ==
    ASSUME Inv, NEW i \in Workers, WorkerWakes(i), ~w_done[i]
    PROVE  Inv'
<1> USE Ids, SliceThreadAssumption DEF Inv
<1>0. pc[i] = "awake" /\ i # Main
  BY DEF WorkerWakes
<1>1. TypeOK'
  BY TypeStep DEF Next, WorkerStep
<1>2. UNCHANGED <<ctxVars, first_job, current_job, ctx_done, finished, w_done, posted>>
  BY DEF WorkerWakes
<1>3. \A u \in Threads : u # i => pc'[u] = pc[u] /\ local'[u] = local[u]
  BY DEF WorkerWakes, EnterRunJobs, Goto, TypeOK
<1>4. /\ finished => pc'[i] = "exited"
      /\ ~finished => /\ pc'[i] = "first"
                      /\ local'[i].nb_jobs = nb_jobs /\ local'[i].nb_active = nb_active_threads
  BY DEF WorkerWakes, EnterRunJobs, Goto, TypeOK, Loc
<1>5. /\ pc[Main] # "idle" /\ i < posted
      /\ ~Quiet(i)
  BY <1>0 DEF WorkersOK, Quiet, TypeOK
<1>6. \A w \in Workers : w # i => /\ Quiet(w)' <=> Quiet(w)
                                  /\ Due(w)' <=> Due(w)
                                  /\ Called(w)' <=> Called(w)
  BY <1>2, <1>3 DEF Quiet, Due, Called
<1>7. pc'[Main] = pc[Main] /\ (Busy' <=> Busy)
  BY <1>0, <1>3 DEF Busy
<1>8. WorkersOK'
  <2> SUFFICES ASSUME NEW w \in Workers
               PROVE  IF w >= posted THEN Quiet(w)'
                      ELSE IF finished THEN Called(w)' \/ pc'[w] = "exited"
                      ELSE Quiet(w)' \/ Due(w)' \/ pc'[w] \in {"job", "next", "signal"}
    BY <1>2, <1>5, <1>7 DEF WorkersOK
  <2>1. CASE w = i
    <3>1. ~(w >= posted)
      BY <2>1, <1>5 DEF TypeOK
    <3> QED  BY <3>1, <2>1, <1>4 DEF Due
  <2>2. CASE w # i
    BY <2>2, <1>3, <1>5, <1>6 DEF WorkersOK
  <2> QED  BY <2>1, <2>2
<1>9. Busy => ~finished
  BY DEF Busy, ControlOK
<1>10. Busy => Begun' = Begun /\ Out' = Out
  <2> SUFFICES ASSUME Busy PROVE Begun' = Begun /\ Out' = Out
    OBVIOUS
  <2>1. MainOut' <=> MainOut
    BY <1>2, <1>7 DEF MainOut, ctxVars
  <2>2. Due(i) /\ Due(i)' /\ ~Quiet(i)' /\ pc[i] # "signal" /\ pc'[i] # "signal"
    BY <1>0, <1>4, <1>9 DEF Due, Called, Quiet
  <2>3. \A w \in Workers : w # i => pc'[w] = pc[w]
    BY <1>3
  <2> QED  BY <2>1, <2>2, <2>3, <1>2, <1>5, <1>6, <1>7 DEF Begun, Out
<1>11. nb_workers' = nb_workers /\ Participants' = Participants
  BY <1>2 DEF ctxVars, nb_workers, Participants
<1>12. ControlOK'
  BY <1>2, <1>7, <1>11 DEF ControlOK, ctxVars, nb_threads
<1>13. CountersOK'
  BY <1>2, <1>7, <1>10 DEF CountersOK, ctxVars
<1>14. LocalsOK'
  BY <1>0, <1>2, <1>3, <1>4 DEF LocalsOK, ctxVars
<1>15. Signalling' = Signalling
  BY <1>0, <1>3, <1>4 DEF Signalling
<1> QED
  BY <1>1, <1>2, <1>7, <1>8, <1>10, <1>11, <1>12, <1>13, <1>14, <1>15 DEF LastOneTells

(* The caller returns, and only when every worker is quiet.                *)
LEMMA ReturnQuiet ==
    ASSUME Inv, WaitDone, ctx_done
    PROVE  /\ Busy /\ Out = Participants
           /\ \A w \in Workers : Quiet(w)
<1> USE Ids DEF Inv
<1>1. Busy /\ Out = Participants /\ Signalling = {} /\ posted = nb_workers
  BY DEF WaitDone, Busy, LastOneTells, ControlOK
<1>2. PICK t \in Participants : TRUE
  BY <1>1, Members, Counts, FS_EmptySet DEF TypeOK
<1>3. Out \cup {t} = Participants /\ t \in Threads
  BY <1>1, <1>2, Members
<1>4. \A w \in Workers : w # t => Quiet(w)
  BY <1>1, <1>3, AllQuiet
<1>5. t \in Workers => Quiet(t)
  BY <1>1, <1>2 DEF Out, Signalling
<1> QED  BY <1>1, <1>4, <1>5

LEMMA ReturnInv ==
    ASSUME Inv, WaitDone, ctx_done
    PROVE  Inv'
<1> USE Ids, SliceThreadAssumption DEF Inv
<1>1. TypeOK'
  BY TypeStep DEF Next, MainStep
<1>2. /\ UNCHANGED <<ctxVars, first_job, current_job, finished, w_done, posted, local>>
      /\ \A w \in Workers : pc'[w] = pc[w]
      /\ pc'[Main] = "idle" /\ pc[Main] = "wait" /\ ctx_done' = FALSE
  BY DEF WaitDone, Goto, TypeOK
<1>3. \A w \in Workers : Quiet(w)'
  BY ReturnQuiet, <1>2 DEF Quiet
<1>4. WorkersOK'
  BY <1>2, <1>3 DEF WorkersOK
<1>5. ~Busy' /\ ~finished'
  BY <1>2 DEF Busy, ControlOK
<1>6. LocalsOK'
  BY <1>2, <1>3 DEF LocalsOK, Quiet
<1> QED  BY <1>1, <1>2, <1>4, <1>5, <1>6 DEF ControlOK, CountersOK, LastOneTells

LEMMA FreeInv ==
    ASSUME Inv, Free \/ FreePost \/ FreeJoin
    PROVE  Inv'
<1> USE Ids, SliceThreadAssumption DEF Inv
<1>1. TypeOK'
  BY TypeStep DEF Next, MainStep
<1>2. ~Busy /\ ~Busy' /\ pc'[Main] \in {"free", "freed"} /\ finished' /\ ~ctx_done'
  BY DEF Free, FreePost, FreeJoin, Wake, Goto, TypeOK, Busy, ControlOK
<1>3. ControlOK'
  BY <1>2 DEF ControlOK
<1>4. WorkersOK' /\ \A w \in Workers : pc'[w] \notin {"first", "job", "next"}
  <2>1. CASE Free
    <3>1. \A w \in Workers : Quiet(w) /\ pc'[w] = pc[w] /\ w_done'[w] = w_done[w]
      BY <2>1 DEF Free, Goto, TypeOK, WorkersOK
    <3>2. \A w \in Workers : Quiet(w)'
      BY <3>1 DEF Quiet
    <3>3. \A w \in Workers : w >= posted'
      BY <2>1 DEF Free
    <3> QED  BY <3>2, <3>3 DEF WorkersOK, Quiet
  <2>2. CASE FreePost
    <3>1. posted \in Workers /\ posted' = posted + 1 /\ pc'[Main] = "free" /\ finished
          /\ pc[Main] = "free"
      BY <2>2 DEF FreePost, TypeOK, Wake, ControlOK, Goto
    <3> PICK i \in Workers : i = posted
      BY <3>1
    <3>2. Quiet(i) /\ pc[i] \in {"asleep", "awake", "exited"}
      BY <2>2, <3>1 DEF FreePost, MutexFree, WorkersOK
    <3>3. pc'[i] = "awake" /\ w_done'[i] = FALSE
      BY <2>2, <3>2 DEF FreePost, Quiet, Wake, Goto, TypeOK
    <3>4. \A w \in Workers : w # i => pc'[w] = pc[w] /\ w_done'[w] = w_done[w]
      BY <2>2 DEF FreePost, Wake, Goto, TypeOK
    <3> SUFFICES ASSUME NEW w \in Workers
                 PROVE  /\ IF w >= posted' THEN Quiet(w)' ELSE Called(w)' \/ pc'[w] = "exited"
                        /\ pc'[w] \notin {"first", "job", "next"}
      BY <3>1, <1>2 DEF WorkersOK
    <3>5. CASE w = i
      <4>1. ~(w >= posted')
        BY <3>5, <3>1
      <4> QED  BY <4>1, <3>3, <3>5 DEF Called
    <3>6. CASE w # i
      <4>1. w >= posted' <=> w >= posted
        BY <3>6, <3>1
      <4>2. IF w >= posted THEN Quiet(w) ELSE Called(w) \/ pc[w] = "exited"
        BY <3>1 DEF WorkersOK
      <4> QED  BY <3>4, <3>6, <4>1, <4>2 DEF Quiet, Called
    <3> QED  BY <3>5, <3>6
  <2>3. CASE FreeJoin
    <3>1. /\ \A w \in Workers : pc'[w] = "exited" /\ w < posted'
          /\ pc'[Main] = "freed" /\ posted' = NbWorkers
      BY <2>3 DEF FreeJoin, Goto, TypeOK
    <3> QED  BY <3>1, <1>2 DEF WorkersOK
  <2> QED  BY <2>1, <2>2, <2>3
<1>5. LocalsOK'
  BY <1>2, <1>4 DEF LocalsOK
<1> QED  BY <1>1, <1>2, <1>3, <1>4, <1>5 DEF CountersOK, LastOneTells

LEMMA StutterInv == Inv /\ UNCHANGED vars => Inv'
<1> SUFFICES ASSUME Inv, UNCHANGED vars PROVE Inv'
  OBVIOUS
<1> USE DEF vars, ctxVars, nb_workers, nb_threads, Busy, Quiet, Due, Called, MainOut
<1>1. TypeOK' /\ WorkersOK'
  BY DEF Inv, TypeOK, WorkersOK
<1>2. ControlOK' /\ LocalsOK'
  BY DEF Inv, ControlOK, LocalsOK
<1>3. Begun' = Begun /\ Out' = Out /\ Participants' = Participants /\ Signalling' = Signalling
  BY DEF Begun, Out, Participants, Signalling
<1>4. CountersOK' /\ LastOneTells'
  BY <1>3 DEF Inv, CountersOK, LastOneTells
<1> QED  BY <1>1, <1>2, <1>4 DEF Inv

LEMMA InvStep == Inv /\ [Next]_vars => Inv'
<1> SUFFICES ASSUME Inv, [Next]_vars PROVE Inv'
  OBVIOUS
<1>1. ASSUME NEW n \in 1 .. MaxJobs, NEW with_main \in BOOLEAN, Execute(n, with_main)
      PROVE  Inv'
  BY <1>1, ExecuteInv
<1>2. CASE Post \/ AllPosted \/ MainFunc
  BY <1>2, PostInv, MainFuncInv
<1>3. CASE WaitDone
  <2>1. Main \in Threads /\ pc[Main] = "wait"
    BY <1>3, Ids DEF WaitDone
  <2> QED  BY <1>3, <2>1, SleepInv, ReturnInv
<1>4. CASE Free \/ FreePost \/ FreeJoin
  BY <1>4, FreeInv
<1>5. ASSUME NEW t \in Threads, TakeFirst(t) \/ JobEnds(t) \/ SpuriousWakeup(t) PROVE Inv'
  BY <1>5, TakeFirstInv, JobEndsInv, SleepInv
<1>6. ASSUME NEW t \in Threads, TakeNext(t) PROVE Inv'
  BY <1>6, GetsJobInv, LeavesInv
<1>7. ASSUME NEW w \in Workers, SignalDone(w) \/ WorkerSleeps(w) PROVE Inv'
  BY <1>7, Ids, SignalDoneInv, SleepInv
<1>8. ASSUME NEW w \in Workers, WorkerWakes(w) PROVE Inv'
  BY <1>8, Ids, EntersInv, SleepInv
<1>9. CASE UNCHANGED vars
  BY <1>9, StutterInv
<1> QED
  BY <1>1, <1>2, <1>3, <1>4, <1>5, <1>6, <1>7, <1>8, <1>9, Steps

(* The counters are right at any time: no thread gets a number that        *)
(* another one has, first_job counts those that have one, current_job goes *)
(* on counting those that found no job, and exactly the last one tells the *)
(* caller, whatever late workers of the execution before are doing.        *)
THEOREM InvHolds == Spec => []Inv
BY InitInv, InvStep, PTL DEF Spec

-----------------------------------------------------------------------------
(* Wake-ups.                                                               *)

LEMMA BlockedStep ==
    ASSUME Inv, pc[Main] = "blocked" => ~ctx_done, [Next]_vars
    PROVE  pc'[Main] = "blocked" => ~ctx_done'
<1> USE Ids, SliceThreadAssumption DEF Inv, TypeOK, Goto
<1>1. ASSUME NEW n \in 1 .. MaxJobs, NEW with_main \in BOOLEAN, Execute(n, with_main)
      PROVE  pc'[Main] # "blocked"
  BY <1>1 DEF Execute
<1>2. CASE Post
  <2>1. pc'[Main] = "post"
    BY <1>2, Members DEF Post, Wake, Busy
  <2> QED  BY <2>1
<1>3. CASE AllPosted \/ MainFunc
  BY <1>3 DEF AllPosted, MainFunc, EnterRunJobs
<1>4. CASE WaitDone
  BY <1>4 DEF WaitDone
<1>5. CASE Free \/ FreeJoin
  BY <1>5 DEF Free, FreeJoin
<1>6. CASE FreePost
  BY <1>6 DEF FreePost, Wake
<1>7. ASSUME NEW t \in Threads, TakeFirst(t) \/ JobEnds(t) \/ TakeNext(t) \/ SpuriousWakeup(t)
      PROVE  pc'[Main] = "blocked" => ~ctx_done'
  <2>1. pc'[Main] = "blocked" => pc[Main] = "blocked"
    BY <1>7 DEF TakeFirst, JobEnds, TakeNext, SpuriousWakeup
  <2> QED  BY <1>7, <2>1 DEF TakeFirst, JobEnds, TakeNext, SpuriousWakeup
<1>8. ASSUME NEW w \in Workers, SignalDone(w) PROVE pc'[Main] # "blocked"
  BY <1>8 DEF SignalDone
<1>9. ASSUME NEW w \in Workers, WorkerSleeps(w) \/ WorkerWakes(w)
      PROVE  pc'[Main] = pc[Main] /\ ctx_done' = ctx_done
  BY <1>9 DEF WorkerSleeps, WorkerWakes, EnterRunJobs
<1>10. CASE UNCHANGED vars
  BY <1>10 DEF vars
<1> QED
  BY <1>1, <1>2, <1>3, <1>4, <1>5, <1>6, <1>7, <1>8, <1>9, <1>10, Steps

(* Neither a worker nor the caller sleeps in pthread_cond_wait() while     *)
(* what it waits for is there.                                             *)
THEOREM Wakes == Spec => []NobodyOversleeps
<1> DEFINE MainAwake == pc[Main] = "blocked" => ~ctx_done
<1>1. Init => MainAwake
  BY DEF Init
<1>2. Inv /\ MainAwake /\ [Next]_vars => MainAwake'
  BY BlockedStep
<1>3. Inv /\ MainAwake => NobodyOversleeps
  BY Ids DEF Inv, WorkersOK, NobodyOversleeps, Quiet, Called, Due
<1> HIDE DEF MainAwake
<1> QED  BY <1>1, <1>2, <1>3, InvHolds, PTL DEF Spec

-----------------------------------------------------------------------------
(* Refinement of SliceJobs.                                                *)

LEMMA RefineInit == Init => J!Init
<1> SUFFICES ASSUME Init PROVE J!Init
  OBVIOUS
<1>1. ~Busy /\ Pending = {}
  BY Ids DEF Init, Busy, Pending
<1>2. JobsRunning = {}
  BY Ids DEF Init, JobsRunning
<1>3. nb_threads \in Nat \ {0}
  BY SliceThreadAssumption DEF nb_threads
<1> QED  BY <1>1, <1>2, <1>3 DEF J!Init, Busy

(* Steps that change neither the counters nor who works.                   *)
LEMMA SameJobs ==
    ASSUME \A t \in Threads : pc'[t] = "job" <=> pc[t] = "job",
           \A t \in Threads : pc[t] = "job" => local'[t] = local[t]
    PROVE  JobsRunning' = JobsRunning
<1>1. {u \in Threads : pc'[u] = "job"} = {u \in Threads : pc[u] = "job"}
  OBVIOUS
<1> QED  BY <1>1 DEF JobsRunning

LEMMA RefineExecute ==
    ASSUME Inv, NEW n \in 1 .. MaxJobs, NEW with_main \in BOOLEAN, Execute(n, with_main)
    PROVE  J!Execute(n)
<1> USE Ids, SliceThreadAssumption DEF Inv
<1>1. ~Busy /\ Busy'
  BY DEF Execute, Goto, TypeOK, Busy
<1>2. Pending' = 0 .. n - 1
  <2>1. nb_active_threads' \in 1 .. n
    BY DEF Execute, MinOf, nb_threads
  <2> QED  BY <1>1, <2>1 DEF Execute, Pending
<1>3. JobsRunning' = JobsRunning
  BY SameJobs DEF Execute, Goto, TypeOK
<1>4. nb_threads' = nb_threads
  BY DEF Execute, nb_threads
<1> QED  BY <1>1, <1>2, <1>3, <1>4 DEF J!Execute

LEMMA RefineTakeFirst ==
    ASSUME Inv, NEW t \in Threads, TakeFirst(t)
    PROVE  J!StartJob(first_job, first_job) /\ first_job \in Pending
           /\ first_job \in 0 .. nb_threads - 1
<1> USE Ids, SliceThreadAssumption DEF Inv
<1>0. pc[t] = "first" /\ pc'[t] = "job"
  BY DEF TakeFirst, Goto, TypeOK
<1>1. Busy /\ t \in Participants /\ t \notin Begun
  BY <1>0, InRunJobs, Ids DEF Begun, Due, MainOut
<1>2. first_job < nb_active_threads /\ nb_active_threads <= nb_threads /\ nb_threads \in Nat
  <2>1. first_job \in 0 .. nb_active_threads /\ first_job # nb_active_threads
    BY <1>1, Counts DEF CountersOK
  <2> QED  BY <2>1, <1>1, Members DEF nb_threads, TypeOK
<1>3. current_job >= nb_active_threads
  BY <1>1, Counts, Members DEF CountersOK, TypeOK
<1>4. Busy'
  BY <1>0, <1>1 DEF TakeFirst, Goto, TypeOK, Busy
<1>5. first_job \in Pending /\ Pending' = Pending \ {first_job}
  <2>1. UNCHANGED <<current_job, nb_active_threads, nb_jobs>> /\ first_job' = first_job + 1
    BY DEF TakeFirst, ctxVars
  <2> QED  BY <1>1, <1>2, <1>3, <1>4, <2>1 DEF Pending, TypeOK
<1>6. \A r \in JobsRunning : r[2] # first_job
  BY DEF JobsRunning, LocalsOK, TypeOK, Locals
<1>7. JobsRunning' = JobsRunning \cup {<<first_job, first_job>>}
  <2>1. local'[t].current = first_job /\ local'[t].first = first_job
    BY DEF TakeFirst, TypeOK, Loc
  <2>2. \A u \in Threads : u # t => pc'[u] = pc[u] /\ local'[u] = local[u]
    BY DEF TakeFirst, Goto, TypeOK
  <2> QED  BY <1>0, <2>1, <2>2 DEF JobsRunning
<1>8. UNCHANGED <<nb_threads, Busy>>
  BY <1>1, <1>4 DEF TakeFirst, ctxVars, nb_threads, Busy
<1> QED  BY <1>2, <1>5, <1>6, <1>7, <1>8 DEF J!StartJob, TypeOK

LEMMA RefineGetsJob ==
    ASSUME Inv, NEW t \in Threads, TakeNext(t), current_job < local[t].nb_jobs
    PROVE  /\ J!StartJob(current_job, local[t].first) /\ current_job \in Pending
           /\ local[t].first \in 0 .. nb_threads - 1
<1> USE Ids, SliceThreadAssumption DEF Inv
<1>0. pc[t] = "next" /\ pc'[t] = "job"
  BY DEF TakeNext, Goto, TypeOK
<1>1. Busy /\ local[t].nb_jobs = nb_jobs /\ local[t].first < first_job
  BY <1>0, InRunJobs DEF LocalsOK
<1>2. /\ first_job <= nb_active_threads /\ nb_active_threads <= nb_threads /\ nb_threads \in Nat
      /\ current_job >= nb_active_threads
  BY <1>1, Counts, Members DEF CountersOK, nb_threads, TypeOK
<1>3. Busy'
  BY <1>0, <1>1 DEF TakeNext, Goto, TypeOK, Busy
<1>4. current_job \in Pending /\ Pending' = Pending \ {current_job}
  <2>1. UNCHANGED <<first_job, nb_active_threads, nb_jobs>> /\ current_job' = current_job + 1
    BY DEF TakeNext, ctxVars
  <2> QED  BY <1>1, <1>2, <1>3, <2>1 DEF Pending, TypeOK
<1>5. \A r \in JobsRunning : r[2] # local[t].first
  <2>1. \A u \in Threads : pc[u] = "job" => local[u].first # local[t].first
    BY <1>0 DEF LocalsOK
  <2>2. ASSUME NEW r \in JobsRunning PROVE r[2] # local[t].first
    <3>1. PICK u \in Threads : pc[u] = "job" /\ r = <<local[u].current, local[u].first>>
      BY <2>2 DEF JobsRunning
    <3> QED  BY <2>1, <3>1
  <2> QED  BY <2>2
<1>6. JobsRunning' = JobsRunning \cup {<<current_job, local[t].first>>}
  <2>1. local'[t].current = current_job /\ local'[t].first = local[t].first
    <3>1. local' = [local EXCEPT ![t] = Loc(local[t].nb_jobs, local[t].nb_active,
                                            local[t].first, current_job)]
      BY <1>0, <1>1 DEF TakeNext
    <3>2. local \in [Threads -> Locals]
      BY DEF TypeOK
    <3> QED  BY <3>1, <3>2 DEF Loc
  <2>2. \A u \in Threads : u # t => pc'[u] = pc[u] /\ local'[u] = local[u]
    BY DEF TakeNext, Goto, TypeOK
  <2> DEFINE AtJob == {u \in Threads : pc[u] = "job"}
  <2>3. {u \in Threads : pc'[u] = "job"} = AtJob \cup {t} /\ t \notin AtJob
    BY <1>0, <2>2
  <2>4. \A u \in AtJob : local'[u] = local[u]
    BY <2>2, <2>3
  <2>5. JobsRunning = {<<local[u].current, local[u].first>> : u \in AtJob}
    BY DEF JobsRunning
  <2>6. JobsRunning' = {<<local'[u].current, local'[u].first>> : u \in AtJob \cup {t}}
    BY <2>3 DEF JobsRunning
  <2> HIDE DEF AtJob
  <2> QED  BY <2>1, <2>4, <2>5, <2>6, ZenonT(30)
<1>7. UNCHANGED <<nb_threads, Busy>>
  BY <1>1, <1>3 DEF TakeNext, ctxVars, nb_threads, Busy
<1>8. local[t].first \in 0 .. nb_threads - 1
  <2>1. local[t].first \in Nat /\ first_job \in Nat /\ nb_active_threads \in Nat
    BY DEF TypeOK, Locals
  <2> QED  BY <2>1, <1>1, <1>2
<1> QED  BY <1>4, <1>5, <1>6, <1>7, <1>8 DEF J!StartJob

LEMMA RefineJobEnds ==
    ASSUME Inv, NEW t \in Threads, JobEnds(t)
    PROVE  \E r \in JobsRunning : J!FinishJob(r)
<1> USE Ids, SliceThreadAssumption DEF Inv
<1> DEFINE r == <<local[t].current, local[t].first>>
<1>0. pc[t] = "job" /\ pc'[t] = "next"
  BY DEF JobEnds, Goto, TypeOK
<1>1. Busy /\ Busy'
  BY <1>0, InRunJobs DEF JobEnds, Goto, TypeOK, Busy
<1>2. UNCHANGED <<ctxVars, first_job, current_job, local>>
  BY DEF JobEnds
<1>3. \A u \in Threads : u # t => pc'[u] = pc[u]
  BY DEF JobEnds, Goto, TypeOK
<1>4. \A u \in Threads : u # t /\ pc[u] = "job" => local[u].first # local[t].first
  BY <1>0 DEF LocalsOK
<1>5. r \in JobsRunning
  BY <1>0 DEF JobsRunning
<1>6. JobsRunning' = JobsRunning \ {r}
  <2>1. JobsRunning = {<<local[u].current, local[u].first>> : u \in {v \in Threads : pc[v] = "job"}}
    BY DEF JobsRunning
  <2>2. JobsRunning' = {<<local[u].current, local[u].first>> : u \in {v \in Threads : pc[v] = "job"} \ {t}}
    <3>1. {v \in Threads : pc'[v] = "job"} = {v \in Threads : pc[v] = "job"} \ {t}
      BY <1>0, <1>3
    <3> QED  BY <3>1, <1>2 DEF JobsRunning
  <2> QED  BY <2>1, <2>2, <1>4
<1>7. Pending' = Pending /\ UNCHANGED <<nb_threads, Busy>>
  BY <1>1, <1>2 DEF Pending, ctxVars, nb_threads
<1> HIDE DEF r
<1> QED  BY <1>5, <1>6, <1>7 DEF J!FinishJob

LEMMA NobodyWorks ==
    ASSUME \A t \in Threads : pc[t] # "job"
    PROVE  JobsRunning = {}
BY DEF JobsRunning

(* The end of an execution, seen by its last thread or told to the caller. *)
LEMMA RefineReturn ==
    ASSUME Inv, NEW t \in Threads,
           \/ WaitDone /\ ctx_done
           \/ t = Main /\ TakeNext(t) /\ ~(current_job < local[t].nb_jobs) /\ IsLast(t)
    PROVE  J!Return
<1> USE Ids, SliceThreadAssumption DEF Inv
<1>1. /\ Busy /\ ~Busy'
      /\ pc[Main] # "job" /\ pc'[Main] # "job"
      /\ \A w \in Workers : pc'[w] = pc[w]
      /\ UNCHANGED <<ctxVars, first_job>>
  BY DEF WaitDone, TakeNext, Goto, TypeOK, Busy
<1>2. first_job = nb_active_threads /\ current_job >= nb_jobs
  <2>1. Begun = Participants
    <3>1. CASE WaitDone /\ ctx_done
      BY <3>1, ReturnQuiet, Members
    <3>2. CASE t = Main /\ TakeNext(t) /\ ~(current_job < local[t].nb_jobs) /\ IsLast(t)
      BY <3>2, <1>1, Leaving, Members DEF TakeNext
    <3> QED  BY <3>1, <3>2
  <2>2. current_job >= nb_jobs
    <3>1. CASE WaitDone /\ ctx_done
      <4>1. Out # {}
        BY <3>1, ReturnQuiet, Members, Counts, FS_EmptySet DEF TypeOK
      <4> QED  BY <4>1, <1>1, Counts DEF CountersOK, TypeOK
    <3>2. CASE t = Main /\ TakeNext(t) /\ ~(current_job < local[t].nb_jobs) /\ IsLast(t)
      BY <3>2 DEF TakeNext, LocalsOK, TypeOK
    <3> QED  BY <3>1, <3>2
  <2> QED  BY <2>1, <2>2, <1>1, Counts DEF CountersOK
<1>3. \A w \in Workers : pc[w] # "job"
  <2>1. CASE WaitDone /\ ctx_done
    BY <2>1, ReturnQuiet DEF Quiet
  <2>2. CASE t = Main /\ TakeNext(t) /\ ~(current_job < local[t].nb_jobs) /\ IsLast(t)
    <3>1. Out \cup {t} = Participants /\ Signalling = {} /\ posted = nb_workers
      BY <2>2, InRunJobs, Leaving DEF TakeNext
    <3>2. \A w \in Workers : w # t => Quiet(w)
      BY <3>1, <1>1, AllQuiet
    <3> QED  BY <2>2, <3>2 DEF Quiet
  <2> QED  BY <2>1, <2>2
<1>4. JobsRunning = {} /\ JobsRunning' = {}
  BY <1>1, <1>3 DEF JobsRunning
<1>5. Pending = {} /\ Pending' = {}
  BY <1>1, <1>2 DEF Pending, TypeOK
<1>6. UNCHANGED nb_threads
  BY <1>1 DEF ctxVars, nb_threads
<1> QED  BY <1>1, <1>4, <1>5, <1>6 DEF J!Return

(* A thread that leaves before the last one, or is not the caller, changes *)
(* current_job beyond the last job only.                                   *)
LEMMA RefineLeaves ==
    ASSUME Inv, NEW t \in Threads, TakeNext(t), ~(current_job < local[t].nb_jobs),
           ~(t = Main /\ IsLast(t))
    PROVE  UNCHANGED <<nb_threads, Busy, Pending, JobsRunning>>
<1> USE Ids, SliceThreadAssumption DEF Inv
<1>1. Busy /\ local[t].nb_jobs = nb_jobs /\ pc[t] = "next"
  BY InRunJobs DEF TakeNext, LocalsOK
<1>2. UNCHANGED <<ctxVars, first_job>> /\ current_job' = current_job + 1
  BY DEF TakeNext
<1>3. \A u \in Threads : u # t => pc'[u] = pc[u] /\ local'[u] = local[u]
  BY DEF TakeNext, Goto, TypeOK
<1>4. /\ t = Main => pc'[t] = "wait"
      /\ pc'[t] # "job"
  BY DEF TakeNext, Goto, TypeOK
<1>5. Busy'
  <2>1. CASE t = Main
    BY <2>1, <1>4 DEF Busy
  <2>2. CASE t # Main
    BY <2>2, <1>1, <1>3 DEF Busy
  <2> QED  BY <2>1, <2>2
<1>6. Pending' = Pending
  BY <1>1, <1>2, <1>5 DEF Pending, ctxVars, TypeOK
<1>7. JobsRunning' = JobsRunning
  BY <1>1, <1>3, <1>4, SameJobs
<1> QED  BY <1>1, <1>2, <1>5, <1>6, <1>7 DEF ctxVars, nb_threads

(* What the other actions do is no concern of the callers.                 *)
LEMMA RefineStutter ==
    ASSUME Inv,
           \/ Post \/ AllPosted \/ MainFunc \/ Free \/ FreePost \/ FreeJoin
           \/ WaitDone /\ ~ctx_done
           \/ \E t \in Threads : SpuriousWakeup(t)
           \/ \E w \in Workers : SignalDone(w) \/ WorkerSleeps(w) \/ WorkerWakes(w)
           \/ UNCHANGED vars
    PROVE  UNCHANGED <<nb_threads, Busy, Pending, JobsRunning>>
<1> USE Ids, SliceThreadAssumption DEF Inv, TypeOK, Goto
<1>1. UNCHANGED <<main_func, nb_jobs, nb_active_threads, first_job, current_job>>
  BY DEF Post, AllPosted, MainFunc, Free, FreePost, FreeJoin, WaitDone, SpuriousWakeup,
         SignalDone, WorkerSleeps, WorkerWakes, ctxVars, vars
<1>2. /\ Busy' <=> Busy
      /\ \A t \in Threads : pc'[t] = "job" <=> pc[t] = "job"
      /\ \A t \in Threads : pc[t] = "job" => local'[t] = local[t]
  <2>1. CASE Post \/ FreePost
    <3>1. posted \in Workers
      BY <2>1, Members DEF Post, FreePost, Busy
    <3>2. local' = local
      BY <2>1 DEF Post, FreePost
    <3>3. pc' = pc \/ (pc[posted] = "asleep" /\ pc' = [pc EXCEPT ![posted] = "awake"])
      BY <2>1 DEF Post, FreePost, Wake
    <3>4. /\ pc'[Main] = pc[Main]
          /\ \A t \in Threads : pc'[t] = pc[t] \/ (pc[t] = "asleep" /\ pc'[t] = "awake")
      BY <3>1, <3>3
    <3> QED  BY <3>2, <3>4 DEF Busy
  <2>2. CASE AllPosted \/ MainFunc \/ Free \/ FreeJoin \/ (WaitDone /\ ~ctx_done)
    <3>1. /\ \A w \in Workers : pc'[w] = pc[w] /\ local'[w] = local[w]
          /\ pc[Main] # "job" /\ pc'[Main] # "job"
      BY <2>2 DEF AllPosted, EnterRunJobs, MainFunc, Free, FreeJoin, WaitDone
    <3>2. Busy' <=> Busy
      BY <2>2 DEF AllPosted, EnterRunJobs, MainFunc, Free, FreeJoin, WaitDone, Busy
    <3> QED  BY <3>1, <3>2
  <2>3. ASSUME NEW t \in Threads, SpuriousWakeup(t)
        PROVE  /\ \A u \in Threads : pc'[u] = "job" <=> pc[u] = "job"
               /\ local' = local
               /\ Busy' <=> Busy
    BY <2>3 DEF SpuriousWakeup, Busy, WorkerPCs, MainPCs
  <2>4. ASSUME NEW w \in Workers, SignalDone(w) \/ WorkerSleeps(w) \/ WorkerWakes(w)
        PROVE  /\ \A u \in Threads : pc'[u] = "job" <=> pc[u] = "job"
               /\ \A u \in Threads : pc[u] = "job" => local'[u] = local[u]
               /\ Busy' <=> Busy
    <3>1. \A u \in Threads : pc'[u] = "job" <=> pc[u] = "job"
      <4>1. pc[w] # "job" /\ pc'[w] # "job"
        BY <2>4 DEF SignalDone, WorkerSleeps, WorkerWakes, EnterRunJobs
      <4>2. ASSUME NEW u \in Threads, u # w
            PROVE  pc'[u] = pc[u] \/ (pc[u] = "blocked" /\ pc'[u] = "wait")
        BY <2>4, <4>2 DEF SignalDone, WorkerSleeps, WorkerWakes, EnterRunJobs
      <4> QED  BY <4>1, <4>2
    <3>2. \A u \in Threads : pc[u] = "job" => local'[u] = local[u]
      BY <2>4 DEF SignalDone, WorkerSleeps, WorkerWakes, EnterRunJobs
    <3>3. pc'[Main] = pc[Main] \/ (pc[Main] = "blocked" /\ pc'[Main] = "wait")
      BY <2>4 DEF SignalDone, WorkerSleeps, WorkerWakes, EnterRunJobs
    <3> QED  BY <3>1, <3>2, <3>3 DEF Busy
  <2>5. CASE UNCHANGED vars
    BY <2>5 DEF vars, Busy
  <2> QED  BY <2>1, <2>2, <2>3, <2>4, <2>5
<1>3. JobsRunning' = JobsRunning
  BY <1>2, SameJobs
<1>4. (Busy' <=> Busy) => Busy' = Busy
  BY DEF Busy
<1> QED  BY <1>1, <1>2, <1>3, <1>4 DEF Pending, nb_threads

LEMMA RefineStep == Inv /\ [Next]_vars => [J!Next]_(J!vars)
<1> SUFFICES ASSUME Inv, [Next]_vars PROVE [J!Next]_(J!vars)
  OBVIOUS
<1> USE DEF J!Next, J!vars
<1>1. ASSUME NEW n \in 1 .. MaxJobs, NEW with_main \in BOOLEAN, Execute(n, with_main)
      PROVE  J!Next
  BY <1>1, RefineExecute
<1>2. ASSUME NEW t \in Threads, TakeFirst(t) PROVE J!Next
  BY <1>2, RefineTakeFirst
<1>3. ASSUME NEW t \in Threads, TakeNext(t) PROVE [J!Next]_(J!vars)
  <2>1. CASE current_job < local[t].nb_jobs
    BY <1>3, <2>1, RefineGetsJob
  <2>2. CASE ~(current_job < local[t].nb_jobs)
    BY <1>3, <2>2, RefineReturn, RefineLeaves
  <2> QED  BY <2>1, <2>2
<1>4. ASSUME NEW t \in Threads, JobEnds(t) PROVE J!Next
  BY <1>4, RefineJobEnds
<1>5. CASE WaitDone
  BY <1>5, Ids, RefineReturn, RefineStutter
<1>6. CASE \/ Post \/ AllPosted \/ MainFunc \/ Free \/ FreePost \/ FreeJoin
           \/ \E t \in Threads : SpuriousWakeup(t)
           \/ \E w \in Workers : SignalDone(w) \/ WorkerSleeps(w) \/ WorkerWakes(w)
           \/ UNCHANGED vars
  BY <1>6, RefineStutter
<1> QED  BY <1>1, <1>2, <1>3, <1>4, <1>5, <1>6, Steps

(* avpriv_slicethread_execute() runs every job once, under thread numbers  *)
(* that differ while the jobs run together, and returns after the last.    *)
THEOREM ImplementsSliceJobs == Spec => SliceJobsSpec
BY RefineInit, RefineStep, InvHolds, PTL DEF Spec, SliceJobsSpec, J!Spec
=============================================================================
