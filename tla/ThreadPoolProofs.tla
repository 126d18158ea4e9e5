-------------------------- MODULE ThreadPoolProofs --------------------------
(* SleepersExact and TypeOK for any pool, any callers and any calls,        *)
(* SingleOwner for a pool that one client resizes, and BoundToThread for a  *)
(* pool that is never resized.                                              *)
EXTENDS ThreadPool, SequenceTheorems, FiniteSetTheorems, TLAPS

Labels == CriticalLabels \cup
            {"unborn", "loop", "private", "deque", "global", "steal", "lock", "waiting",
             "woken", "run", "await", "nested", "finish", "exited"}

WaitLabels == {"wait", "waiting", "woken"}

(* The threads that sleeping_workers_ counts.                               *)
Inside == {h \in Threads : tpc[h] \in WaitLabels}

(* SleepersExact, and a thread that was not created does nothing.           *)
SInv ==
    /\ tpc \in [Threads -> Labels]
    /\ pool_mutex_ \in Threads \cup {None} /\ sleeping_workers_ \in Int
    /\ started \in Nat /\ pool_size_ \in Nat
    /\ \A h \in Threads : h > started => tpc[h] = "unborn"
    /\ sleeping_workers_ = Cardinality(Inside)
    /\ waiting = {h \in Threads : tpc[h] = "waiting"}
    /\ \A h \in Threads : tpc[h] \in CriticalLabels <=> pool_mutex_ = h

LEMMA FiniteThreads == \A S \in SUBSET Threads : IsFiniteSet(S) /\ Cardinality(S) \in Nat
<1>1. IsFiniteSet(Threads)
  BY PoolAssumption, FS_Interval DEF Threads
<1> QED  BY <1>1, FS_Subset, FS_CardinalityType

(* The steps that leave the sleep protocol alone.                           *)
LEMMA Quiet ==
    ASSUME SInv, pool_size_' \in Nat,
           UNCHANGED <<tpc, waiting, sleeping_workers_, pool_mutex_, started>>
    PROVE  SInv'
<1>1. Inside' = Inside
  BY DEF Inside
<1> QED  BY <1>1 DEF SInv

(* A thread moves between labels outside of the wait.                       *)
LEMMA Move ==
    ASSUME SInv, NEW h \in Threads, NEW b \in Labels,
           tpc[h] # "unborn", tpc[h] \notin WaitLabels, b \notin WaitLabels,
           tpc' = [tpc EXCEPT ![h] = b],
           UNCHANGED <<waiting, sleeping_workers_, started, pool_size_>>,
           pool_mutex_' \in Threads \cup {None},
           \A g \in Threads : g # h => (pool_mutex_ = g <=> pool_mutex_' = g),
           b \in CriticalLabels <=> pool_mutex_' = h
    PROVE  SInv'
<1>1. Inside' = Inside
  BY DEF Inside, SInv
<1>2. waiting' = {g \in Threads : tpc'[g] = "waiting"}
  BY DEF SInv, WaitLabels
<1>3. \A g \in Threads : tpc'[g] \in CriticalLabels <=> pool_mutex_' = g
  BY DEF SInv
<1>4. \A g \in Threads : g > started => tpc'[g] = "unborn"
  BY DEF SInv
<1> QED  BY <1>1, <1>2, <1>3, <1>4, Zenon DEF SInv

(* The same, when the thread does not touch the mutex.                      *)
LEMMA MoveOn ==
    ASSUME SInv, NEW h \in Threads, NEW b \in Labels \ (WaitLabels \cup CriticalLabels),
           tpc[h] # "unborn", tpc[h] \notin WaitLabels \cup CriticalLabels,
           tpc' = [tpc EXCEPT ![h] = b],
           UNCHANGED <<waiting, sleeping_workers_, started, pool_size_, pool_mutex_>>
    PROVE  SInv'
  BY Move, Zenon DEF SInv

(* work_cv_.NotifyAll.                                                      *)
LEMMA NotifyKeeps ==
    ASSUME SInv, NotifyAll, UNCHANGED <<sleeping_workers_, started, pool_mutex_>>, pool_size_' \in Nat
    PROVE  SInv'
<1>1. tpc' = [h \in Threads |-> IF h \in waiting THEN "woken" ELSE tpc[h]] /\ waiting' = {}
  BY DEF NotifyAll
<1>2. tpc' \in [Threads -> Labels] /\ "woken" \notin CriticalLabels /\ "waiting" \notin CriticalLabels
  BY <1>1 DEF SInv, Labels, CriticalLabels
<1>3. Inside' = Inside
  BY <1>1 DEF Inside, SInv, WaitLabels
<1>4. waiting' = {g \in Threads : tpc'[g] = "waiting"}
  BY <1>1 DEF SInv
<1>5. \A g \in Threads : tpc'[g] \in CriticalLabels <=> pool_mutex_' = g
  BY <1>1, <1>2, Zenon DEF SInv
<1>6. \A g \in Threads : g > started => tpc'[g] = "unborn"
  BY <1>1 DEF SInv
<1> QED  BY <1>2, <1>3, <1>4, <1>5, <1>6, Zenon DEF SInv

(* One thread is woken.                                                     *)
LEMMA WakeKeeps ==
    ASSUME SInv, NEW h \in waiting, tpc' = [tpc EXCEPT ![h] = "woken"], waiting' = waiting \ {h},
           UNCHANGED <<sleeping_workers_, started, pool_mutex_, pool_size_>>
    PROVE  SInv'
<1>1. h \in Threads /\ tpc[h] = "waiting"
  BY DEF SInv
<1>2. tpc' \in [Threads -> Labels] /\ "woken" \notin CriticalLabels /\ "waiting" \notin CriticalLabels
  BY DEF SInv, Labels, CriticalLabels
<1>3. Inside' = Inside
  BY <1>1 DEF Inside, SInv, WaitLabels
<1>4. waiting' = {g \in Threads : tpc'[g] = "waiting"}
  BY <1>1 DEF SInv
<1>5. \A g \in Threads : tpc'[g] \in CriticalLabels <=> pool_mutex_' = g
  BY <1>1, <1>2, Zenon DEF SInv
<1>6. \A g \in Threads : g > started => tpc'[g] = "unborn"
  BY <1>1 DEF SInv
<1> QED  BY <1>2, <1>3, <1>4, <1>5, <1>6, Zenon DEF SInv
------------------------------------------------------------------------------
LEMMA InitSInv == Init => SInv
<1> SUFFICES ASSUME Init PROVE SInv
  OBVIOUS
<1>1. tpc = [h \in Threads |-> IF h <= InitialPool THEN "loop" ELSE "unborn"] /\ pool_mutex_ = None
      /\ waiting = {} /\ sleeping_workers_ = 0 /\ started = InitialPool /\ pool_size_ = InitialPool
  BY DEF Init
<1>2. Inside = {}
  BY <1>1 DEF Inside, WaitLabels
<1>3. Cardinality(Inside) = 0
  BY <1>2, FS_EmptySet
<1>4. \A h \in Threads : tpc[h] \notin CriticalLabels /\ tpc[h] # "waiting" /\ pool_mutex_ # h
  BY <1>1, PoolAssumption DEF CriticalLabels, Callers
<1>5. InitialPool \in Nat /\ \A h \in Threads : h \in Nat
  BY PoolAssumption DEF Threads
<1>6. tpc \in [Threads -> Labels] /\ \A h \in Threads : h > started => tpc[h] = "unborn"
  BY <1>1, <1>5 DEF Labels
<1> QED  BY <1>1, <1>3, <1>4, <1>5, <1>6 DEF SInv

(* sleeping_workers_.fetch_add and Wait.                                    *)
LEMMA GoToSleepSInv ==
    ASSUME SInv, NEW h \in Threads, GoToSleep(h)
    PROVE  SInv'
<1>0. UNCHANGED <<started, pool_size_>>
  BY DEF GoToSleep, shape
<1>1. CASE tpc[h] = "sleep"
  <2>1. tpc' = [tpc EXCEPT ![h] = "wait"] /\ sleeping_workers_' = sleeping_workers_ + 1
        /\ UNCHANGED <<pool_mutex_, waiting>>
    BY <1>1 DEF GoToSleep, GoTo
  <2>2. Inside' = Inside \cup {h} /\ h \notin Inside
    BY <1>1, <2>1 DEF Inside, SInv, WaitLabels
  <2>3. Cardinality(Inside') = Cardinality(Inside) + 1
    BY <2>2, FiniteThreads, FS_AddElement, Zenon DEF Inside
  <2>4. tpc' \in [Threads -> Labels] /\ "wait" \in CriticalLabels /\ "sleep" \in CriticalLabels
    BY <2>1 DEF SInv, Labels, CriticalLabels
  <2>5. waiting' = {g \in Threads : tpc'[g] = "waiting"}
    BY <1>1, <2>1, Zenon DEF SInv
  <2>6. \A g \in Threads : tpc'[g] \in CriticalLabels <=> pool_mutex_' = g
    BY <1>1, <2>1, <2>4, Zenon DEF SInv
  <2>7. \A g \in Threads : g > started => tpc'[g] = "unborn"
    BY <1>1, <2>1, Zenon DEF SInv
  <2>8. sleeping_workers_' = Cardinality(Inside') /\ sleeping_workers_' \in Int
    BY <2>1, <2>3 DEF SInv
  <2> QED  BY <1>0, <2>1, <2>4, <2>5, <2>6, <2>7, <2>8, Zenon DEF SInv
<1>2. CASE tpc[h] = "wait"
  <2>1. tpc' = [tpc EXCEPT ![h] = "waiting"] /\ sleeping_workers_' = sleeping_workers_
        /\ waiting' = waiting \cup {h} /\ pool_mutex_' = None
    BY <1>2, Zenon DEF GoToSleep, GoTo
  <2>2. Inside' = Inside
    BY <1>2, <2>1, Zenon DEF Inside, SInv, WaitLabels
  <2>3. tpc' \in [Threads -> Labels] /\ "waiting" \notin CriticalLabels /\ "wait" \in CriticalLabels
    BY <2>1, Zenon DEF SInv, Labels, CriticalLabels
  <2>4. waiting' = {g \in Threads : tpc'[g] = "waiting"}
    BY <1>2, <2>1, Zenon DEF SInv
  <2>5. None \notin Threads /\ pool_mutex_ = h
    BY <1>2, <2>3, PoolAssumption, Zenon DEF SInv, Callers
  <2>6. \A g \in Threads : tpc'[g] \in CriticalLabels <=> pool_mutex_' = g
    BY <2>1, <2>3, <2>5, Zenon DEF SInv
  <2>7. \A g \in Threads : g > started => tpc'[g] = "unborn"
    BY <1>2, <2>1, Zenon DEF SInv
  <2> QED  BY <1>0, <2>1, <2>2, <2>3, <2>4, <2>6, <2>7, Zenon DEF SInv
<1> QED  BY <1>1, <1>2 DEF GoToSleep

(* A woken thread gets pool_mutex_ back and leaves the wait.                *)
LEMMA WakeUpSInv ==
    ASSUME SInv, NEW h \in Threads, WakeUp(h)
    PROVE  SInv'
<1>1. tpc[h] = "woken" /\ tpc' = [tpc EXCEPT ![h] = "loop"]
      /\ sleeping_workers_' = sleeping_workers_ - 1
      /\ UNCHANGED <<pool_mutex_, waiting, started, pool_size_>>
  BY DEF WakeUp, GoTo, shape
<1>2. Inside' = Inside \ {h} /\ h \in Inside
  BY <1>1 DEF Inside, SInv, WaitLabels
<1>3. Cardinality(Inside') = Cardinality(Inside) - 1
  BY <1>2, FiniteThreads, FS_RemoveElement, Zenon DEF Inside
<1>4. tpc' \in [Threads -> Labels] /\ "woken" \notin CriticalLabels /\ "loop" \notin CriticalLabels
  BY <1>1 DEF SInv, Labels, CriticalLabels
<1>5. waiting' = {g \in Threads : tpc'[g] = "waiting"}
  BY <1>1, Zenon DEF SInv
<1>6. \A g \in Threads : tpc'[g] \in CriticalLabels <=> pool_mutex_' = g
  BY <1>1, <1>4, Zenon DEF SInv
<1>7. \A g \in Threads : g > started => tpc'[g] = "unborn"
  BY <1>1, Zenon DEF SInv
<1>8. sleeping_workers_' = Cardinality(Inside') /\ sleeping_workers_' \in Int
  BY <1>1, <1>3 DEF SInv
<1> QED  BY <1>1, <1>4, <1>5, <1>6, <1>7, <1>8, Zenon DEF SInv

(* GetTask outside of the critical section.                                 *)
LEMMA SearchSInv ==
    ASSUME SInv, NEW h \in Threads,
           CheckTerminated(h) \/ GetPrivate(h) \/ GetLocal(h) \/ GetGlobal(h) \/ StealFrom(h)
    PROVE  SInv'
<1>1. UNCHANGED <<waiting, sleeping_workers_, started, pool_size_, pool_mutex_>>
  BY Zenon DEF CheckTerminated, GetPrivate, GetLocal, GetGlobal, StealFrom, poolUnchanged, shape
<1>2. tpc[h] \in {"loop", "private", "deque", "global", "steal"}
  BY Zenon DEF CheckTerminated, GetPrivate, GetLocal, GetGlobal, StealFrom
<1>3. \E b \in {"exited", "private", "run", "deque", "global", "steal", "lock"} :
         tpc' = [tpc EXCEPT ![h] = b]
  BY DEF CheckTerminated, GetPrivate, GetLocal, GetGlobal, StealFrom, GoTo, Take
<1>4. {"exited", "private", "run", "deque", "global", "steal", "lock"}
         \subseteq Labels \ (WaitLabels \cup CriticalLabels)
  BY DEF Labels, WaitLabels, CriticalLabels
<1>5. tpc[h] # "unborn" /\ tpc[h] \notin WaitLabels \cup CriticalLabels
  BY <1>2 DEF WaitLabels, CriticalLabels
<1> QED  BY <1>1, <1>3, <1>4, <1>5, MoveOn, Zenon

LEMMA CriticalSInv ==
    ASSUME SInv, NEW h \in Threads, LockPool(h) \/ HasWork(h)
    PROVE  SInv'
<1>0. UNCHANGED <<waiting, sleeping_workers_, started, pool_size_>> /\ None \notin Threads
  BY PoolAssumption, Zenon DEF LockPool, HasWork, shape, Callers
<1>1. CASE LockPool(h)
  <2>1. tpc[h] = "lock" /\ pool_mutex_ = None
        /\ \/ tpc' = [tpc EXCEPT ![h] = "exited"] /\ pool_mutex_' = pool_mutex_
           \/ tpc' = [tpc EXCEPT ![h] = "workPrivate"] /\ pool_mutex_' = h
    BY <1>1 DEF LockPool, GoTo
  <2>2. /\ {"lock", "exited", "workPrivate"} \subseteq Labels \ WaitLabels
        /\ "exited" \notin CriticalLabels /\ "workPrivate" \in CriticalLabels
    BY DEF Labels, WaitLabels, CriticalLabels
  <2>3. CASE tpc' = [tpc EXCEPT ![h] = "exited"] /\ pool_mutex_' = pool_mutex_
    BY <1>0, <2>1, <2>2, <2>3, Move, Zenon DEF SInv
  <2>4. CASE tpc' = [tpc EXCEPT ![h] = "workPrivate"] /\ pool_mutex_' = h
    BY <1>0, <2>1, <2>2, <2>4, Move, Zenon DEF SInv
  <2> QED  BY <2>1, <2>3, <2>4, Zenon
<1>2. CASE HasWork(h)
  <2>1. /\ tpc[h] \in {"workPrivate", "workGlobal", "workDeques"}
        /\ \/ tpc' = [tpc EXCEPT ![h] = "loop"] /\ pool_mutex_' = None
           \/ \E b \in {"workGlobal", "workDeques", "sleep"} :
                tpc' = [tpc EXCEPT ![h] = b] /\ pool_mutex_' = h
    BY <1>2 DEF HasWork, GoTo
  <2>2. /\ {"workPrivate", "workGlobal", "workDeques", "loop", "sleep"} \subseteq Labels \ WaitLabels
        /\ {"workPrivate", "workGlobal", "workDeques", "sleep"} \subseteq CriticalLabels
        /\ "loop" \notin CriticalLabels
    BY DEF Labels, WaitLabels, CriticalLabels
  <2>3. pool_mutex_ = h
    BY <2>1, <2>2 DEF SInv
  <2>4. CASE tpc' = [tpc EXCEPT ![h] = "loop"] /\ pool_mutex_' = None
    <3>1. "loop" \in Labels /\ "loop" \notin WaitLabels /\ tpc[h] \notin WaitLabels
          /\ tpc[h] # "unborn"
      BY <2>1, <2>2, Zenon
    <3>2. \A g \in Threads : g # h => (pool_mutex_ = g <=> pool_mutex_' = g)
      BY <1>0, <2>3, <2>4, Zenon
    <3>3. "loop" \in CriticalLabels <=> pool_mutex_' = h
      BY <1>0, <2>2, <2>4
    <3> QED  BY <1>0, <2>4, <3>1, <3>2, <3>3, Move, Zenon
  <2>5. ASSUME NEW b \in {"workGlobal", "workDeques", "sleep"},
               tpc' = [tpc EXCEPT ![h] = b] /\ pool_mutex_' = h
        PROVE  SInv'
    BY <1>0, <2>1, <2>2, <2>3, <2>5, Move, Zenon DEF SInv
  <2> QED  BY <2>1, <2>4, <2>5, Zenon
<1> QED  BY <1>1, <1>2, Zenon

LEMMA RunSInv ==
    ASSUME SInv, NEW h \in Threads, RunTask(h) \/ PromiseSettled(h)
    PROVE  SInv'
<1>1. UNCHANGED <<waiting, sleeping_workers_, started, pool_size_, pool_mutex_>>
  BY Zenon DEF RunTask, ExecuteTask, AwaitPop, RunNested, FinishTask, PromiseSettled, execUnchanged, shape
<1>2. tpc[h] \in {"run", "await", "nested", "finish"}
  BY Zenon DEF RunTask, ExecuteTask, AwaitPop, RunNested, FinishTask, PromiseSettled
<1>3. \E b \in {"finish", "await", "nested", "loop"} : tpc' = [tpc EXCEPT ![h] = b]
  BY DEF RunTask, ExecuteTask, AwaitPop, RunNested, FinishTask, PromiseSettled
<1>4. {"finish", "await", "nested", "loop"} \subseteq Labels \ (WaitLabels \cup CriticalLabels)
  BY DEF Labels, WaitLabels, CriticalLabels
<1>5. tpc[h] # "unborn" /\ tpc[h] \notin WaitLabels \cup CriticalLabels
  BY <1>2 DEF WaitLabels, CriticalLabels
<1> QED  BY <1>1, <1>3, <1>4, <1>5, MoveOn, Zenon

(* The callers.                                                             *)
LEMMA CallSInv ==
    ASSUME SInv, NEW c \in Callers,
           \/ \E k \in Tasks : Submit(c, k) \/ SubmitFromWorker(c, k)
           \/ \E k \in Tasks, h \in Threads : SubmitToWorker(c, k, h)
           \/ CallerStep(c) \/ Terminate(c)
    PROVE  SInv'
<1>0. pool_size_ \in Nat
  BY Zenon DEF SInv
<1>1. CASE \/ \E k \in Tasks : Submit(c, k) \/ SubmitFromWorker(c, k)
           \/ \E k \in Tasks, h \in Threads : SubmitToWorker(c, k, h)
  BY <1>0, <1>1, Quiet, ZenonT(40) DEF Submit, SubmitFromWorker, SubmitToWorker, BeginCall, shape, worker
<1>2. CASE PushTask(c) \/ CheckSleepers(c)
  BY <1>0, <1>2, Quiet, Zenon DEF PushTask, CheckSleepers, shape, worker
<1>3. CASE JoinExcess(c) \/ JoinAll(c) \/ Drain(c)
  BY <1>0, <1>3, Quiet, Zenon DEF JoinExcess, JoinAll, Drain, shape, worker
<1>4. CASE Terminate(c)
  BY <1>0, <1>4, Quiet, Zenon DEF Terminate, worker
<1>5. CASE TerminateNotify(c)
  BY <1>0, <1>5, NotifyKeeps, Zenon DEF TerminateNotify, shape
<1>6. CASE Notify(c)
  <2>0. UNCHANGED <<sleeping_workers_, started, pool_mutex_, pool_size_>>
    BY <1>6, Zenon DEF Notify, shape
  <2>1. CASE NotifyAll
    BY <1>0, <2>0, <2>1, NotifyKeeps, Zenon
  <2>2. CASE UNCHANGED <<tpc, waiting>>
    BY <1>0, <2>0, <2>2, Quiet, Zenon
  <2>3. CASE \E h \in waiting : /\ tpc' = [tpc EXCEPT ![h] = "woken"]
                                /\ waiting' = waiting \ {h}
    BY <2>0, <2>3, WakeKeeps, Zenon
  <2> QED  BY <1>6, <2>1, <2>2, <2>3, Zenon DEF Notify
<1> QED  BY <1>1, <1>2, <1>3, <1>4, <1>5, <1>6, Zenon DEF CallerStep

(* A Resize that grows the pool creates threads that were not created yet.  *)
LEMMA ResizeSInv ==
    ASSUME SInv, NEW c \in Callers, NEW n \in 1..MaxPool, Resize(c, n)
    PROVE  SInv'
<1>0. pool_size_' = n /\ n \in Nat /\ UNCHANGED <<pool_mutex_, sleeping_workers_>>
  BY DEF Resize
<1>1. CASE NotifyAll /\ UNCHANGED started
  BY <1>0, <1>1, NotifyKeeps, Zenon
<1> DEFINE new == [i \in pool_size_..(n - 1) |-> started + 1 + i - pool_size_]
<1>2. CASE /\ n > pool_size_ /\ started' = started + n - pool_size_ /\ waiting' = waiting
           /\ tpc' = [h \in Threads |-> IF \E i \in DOMAIN new : new[i] = h THEN "loop" ELSE tpc[h]]
  <2>1. ASSUME NEW h \in Threads, NEW i \in DOMAIN new, new[i] = h
        PROVE  h > started /\ tpc[h] = "unborn" /\ h <= started + n - pool_size_
    BY <1>0, <1>2, <2>1 DEF SInv
  <2> HIDE DEF new
  <2>2. \A h \in Threads : tpc'[h] = tpc[h] \/ (tpc[h] = "unborn" /\ tpc'[h] = "loop")
    BY <1>2, <2>1
  <2>3. tpc' \in [Threads -> Labels] /\ "loop" \notin CriticalLabels /\ "unborn" \notin CriticalLabels
    BY <1>2, Zenon DEF SInv, Labels, CriticalLabels
  <2>4. Inside' = Inside
    BY <2>2, Zenon DEF Inside, WaitLabels
  <2>5. waiting' = {h \in Threads : tpc'[h] = "waiting"}
    BY <1>2, <2>2, Zenon DEF SInv
  <2>6. \A h \in Threads : tpc'[h] \in CriticalLabels <=> pool_mutex_' = h
    BY <1>0, <2>2, <2>3, Zenon DEF SInv
  <2>7. \A h \in Threads : h > started' => tpc'[h] = "unborn"
    <3> SUFFICES ASSUME NEW h \in Threads, h > started' PROVE tpc'[h] = "unborn"
      OBVIOUS
    <3>1. h > started + n - pool_size_ /\ h \in Nat /\ started \in Nat /\ pool_size_ \in Nat
      BY <1>2 DEF SInv, Threads
    <3>2. h > started /\ ~\E i \in DOMAIN new : new[i] = h
      BY <1>0, <1>2, <2>1, <3>1
    <3> QED  BY <1>2, <3>1, <3>2, Zenon DEF SInv
  <2>8. started' \in Nat
    BY <1>0, <1>2 DEF SInv
  <2> QED  BY <1>0, <2>3, <2>4, <2>5, <2>6, <2>7, <2>8, Zenon DEF SInv
<1> QED  BY <1>1, <1>2, Zenon DEF Resize

LEMMA NextSInv == SInv /\ [Next]_vars => SInv'
<1> SUFFICES ASSUME SInv, [Next]_vars PROVE SInv'
  OBVIOUS
<1>1. ASSUME NEW c \in Callers,
             \/ \E k \in Tasks : Submit(c, k) \/ SubmitFromWorker(c, k)
             \/ \E k \in Tasks, h \in Threads : SubmitToWorker(c, k, h)
             \/ CallerStep(c) \/ Terminate(c)
      PROVE  SInv'
  BY <1>1, CallSInv
<1>2. ASSUME NEW c \in Callers, NEW n \in 1..MaxPool, Resize(c, n) PROVE SInv'
  BY <1>2, ResizeSInv, Zenon
<1>3. ASSUME NEW h \in Threads, GetTask(h) PROVE SInv'
  BY <1>3, SearchSInv, CriticalSInv, GoToSleepSInv, WakeUpSInv, Zenon DEF GetTask
<1>4. ASSUME NEW h \in Threads, RunTask(h) \/ PromiseSettled(h) PROVE SInv'
  BY <1>4, RunSInv
<1>5. ASSUME NEW h \in Threads, SpuriousWakeUp(h) PROVE SInv'
  BY <1>5, WakeKeeps, Zenon DEF SpuriousWakeUp, GoTo
<1>6. CASE UNCHANGED vars
  <2>1. pool_size_' \in Nat /\ UNCHANGED <<tpc, waiting, sleeping_workers_, pool_mutex_, started>>
    BY <1>6 DEF vars, worker, shape, SInv
  <2> QED  BY <2>1, Quiet, Zenon
<1> QED  BY <1>1, <1>2, <1>3, <1>4, <1>5, <1>6, Zenon DEF Next

(* For any number of workers and callers and any calls, Resize and spurious *)
(* wake-ups included: sleeping_workers_ is the number of threads inside the *)
(* wait of GetTask, and pool_mutex_ excludes the threads from each other.   *)
THEOREM SleepersCounted == Spec => []SleepersExact
<1>1. Init => SInv
  BY InitSInv
<1>2. SInv /\ [Next]_vars => SInv'
  BY NextSInv
<1>3. SInv => SleepersExact
  BY DEF SInv, SleepersExact, Inside, WaitLabels
<1> QED  BY <1>1, <1>2, <1>3, PTL DEF Spec
------------------------------------------------------------------------------
(* Types, in groups of variables that change together.                      *)
QueueType ==
    /\ global_queue_ \in Seq(Tasks)
    /\ private_queues_ \in [Indices -> Seq(Tasks)] /\ deques_ \in [Indices -> Seq(Tasks)]
ShapeType ==
    /\ terminated_ \in BOOLEAN /\ pool_size_ \in 1..MaxPool
    /\ threads_ \in Seq(Threads) /\ started \in 0..MaxThreads /\ index \in [Threads -> Int]
    /\ spurious \in 0..MaxSpurious
WorkerType ==
    /\ cur \in [Threads -> Tasks \cup {None}] /\ nested \in [Threads -> Tasks \cup {None}]
    /\ scan \in [Threads -> 0..MaxPool]
CallerType ==
    /\ cpc \in [Callers -> {"none", "Submit", "SubmitFromWorker", "SubmitToWorker", "checkAll",
                            "checkOne", "notifyAll", "notifyOne", "join", "terminate", "joinAll",
                            "drain", "gone"}]
    /\ ctask \in [Callers -> Tasks \cup {None}] /\ cdest \in [Callers -> -1..(MaxPool - 1)]
    /\ joining \in [Callers -> SUBSET Threads]
HistoryType ==
    /\ submitted \subseteq Tasks /\ bound \in [Tasks -> Threads \cup {None}]
    /\ settled \in [Tasks -> Nat] /\ ranOn \in [Tasks -> Threads \cup {None}]

(* A thread that was created has an index of the pool; so has every thread  *)
(* that ever ran a task; threads_ has one thread for each index; a call     *)
(* under way has its task.                                                  *)
IndexInv == \A h \in Threads : tpc[h] # "unborn" => index[h] \in Indices
RanInv == \A k \in Tasks : ranOn[k] # None => tpc[ranOn[k]] # "unborn"
ThreadsInv == ~terminated_ => Len(threads_) = pool_size_
CallInv ==
    \A c \in Callers :
      /\ cpc[c] \in {"Submit", "SubmitFromWorker", "SubmitToWorker"} => ctask[c] \in Tasks
      /\ cpc[c] \in {"terminate", "joinAll"} => terminated_

PInv ==
    /\ SInv /\ active_tasks_ \in Int
    /\ QueueType /\ ShapeType /\ WorkerType /\ CallerType /\ HistoryType
    /\ IndexInv /\ RanInv /\ ThreadsInv /\ CallInv

LEMMA PInvType == PInv => TypeOK
  BY Zenon DEF PInv, SInv, QueueType, ShapeType, WorkerType, CallerType, HistoryType, TypeOK, Labels

LEMMA InitPInv == Init => PInv
<1> SUFFICES ASSUME Init PROVE PInv
  OBVIOUS
<1>1. SInv
  BY InitSInv
<1>2. \A h \in Threads : h \in Int /\ h >= 1
  BY PoolAssumption DEF Threads
<1>3. InitialPool \in Nat /\ MaxPool \in Nat /\ InitialPool <= MaxPool /\ InitialPool >= 1
      /\ MaxThreads \in Nat /\ InitialPool <= MaxThreads /\ MaxSpurious \in Nat
  BY PoolAssumption
<1>4. QueueType
  BY DEF Init, QueueType
<1>5. threads_ \in Seq(Threads) /\ Len(threads_) = InitialPool
  <2>1. \A k \in 1..InitialPool : k \in Threads
    BY <1>3 DEF Threads
  <2>2. threads_ = [k \in 1..InitialPool |-> k]
    BY DEF Init
  <2>3. threads_ \in [1..InitialPool -> Threads]
    BY <2>1, <2>2, Zenon
  <2> QED  BY <1>3, <2>3
<1>6. ShapeType /\ ThreadsInv
  <2>1. index \in [Threads -> Int]
    BY <1>2 DEF Init
  <2>2. pool_size_ = InitialPool /\ started = InitialPool /\ terminated_ = FALSE /\ spurious = 0
    BY DEF Init
  <2>3. pool_size_ \in 1..MaxPool /\ started \in 0..MaxThreads /\ spurious \in 0..MaxSpurious
    BY <1>3, <2>2
  <2> QED  BY <1>5, <2>1, <2>2, <2>3, Zenon DEF ShapeType, ThreadsInv
<1>7. WorkerType
  BY <1>3 DEF Init, WorkerType
<1>8. CallerType /\ CallInv
  BY <1>3 DEF Init, CallerType, CallInv
<1>9. HistoryType /\ RanInv
  BY Zenon DEF Init, HistoryType, RanInv
<1>10. IndexInv
  BY <1>2, <1>3 DEF Init, IndexInv, Indices
<1> QED  BY <1>1, <1>4, <1>6, <1>7, <1>8, <1>9, <1>10 DEF PInv, Init

(* A created thread stays created.                                          *)
Born == \A h \in Threads : tpc[h] # "unborn" => tpc'[h] # "unborn"

LEMMA BornMove ==
    ASSUME SInv, NEW h \in Threads, NEW b, b # "unborn", tpc' = [tpc EXCEPT ![h] = b]
    PROVE  Born
  BY Zenon DEF Born, SInv

LEMMA BornNotify == ASSUME SInv, NotifyAll PROVE Born
  BY DEF Born, NotifyAll, SInv

(* Facts about created threads survive a step that creates none and runs no *)
(* new task.                                                                *)
LEMMA BornKeeps ==
    ASSUME PInv, Born, index' = index, ranOn' = ranOn,
           \A h \in Threads : tpc'[h] # "unborn" => tpc[h] # "unborn"
    PROVE  IndexInv' /\ RanInv'
<1>1. IndexInv'
  BY Zenon DEF PInv, IndexInv
<1>2. RanInv'
  BY DEF PInv, RanInv, Born, HistoryType
<1> QED  BY <1>1, <1>2, Zenon

(* The steps that only callers make.                                        *)
LEMMA SubmitPInv ==
    ASSUME PInv, NEW c \in Callers, NEW k \in Tasks, NEW op \in {"Submit", "SubmitFromWorker", "SubmitToWorker"},
           NEW d \in -1..(MaxPool - 1), BeginCall(c, k, op, d), SInv',
           bound' \in [Tasks -> Threads \cup {None}]
    PROVE  PInv'
<1>1. /\ UNCHANGED <<queues, shape, worker, joining, settled, ranOn>>
      /\ active_tasks_' = active_tasks_ + 1 /\ submitted' = submitted \cup {k}
      /\ cpc' = [cpc EXCEPT ![c] = op] /\ ctask' = [ctask EXCEPT ![c] = k]
      /\ cdest' = [cdest EXCEPT ![c] = d]
  BY Zenon DEF BeginCall
<1>2. QueueType' /\ ShapeType' /\ WorkerType' /\ ThreadsInv' /\ IndexInv' /\ RanInv'
  BY <1>1, Zenon DEF PInv, queues, shape, worker, QueueType, ShapeType, WorkerType, ThreadsInv, IndexInv, RanInv
<1>3. CallerType'
  BY <1>1 DEF PInv, CallerType
<1>4. HistoryType'
  BY <1>1, Zenon DEF PInv, HistoryType
<1>5. CallInv'
  BY <1>1, Zenon DEF PInv, CallInv, CallerType, shape
<1>6. active_tasks_' \in Int
  BY <1>1 DEF PInv
<1> QED  BY <1>2, <1>3, <1>4, <1>5, <1>6, Zenon DEF PInv

LEMMA CallerPInv ==
    ASSUME PInv, NEW c \in Callers, CallerStep(c) \/ Terminate(c)
    PROVE  PInv'
<1>0. SInv'
  BY CallSInv DEF PInv
<1>1. CASE PushTask(c)
  <2>1. UNCHANGED <<active_tasks_, shape, worker, ctask, cdest, joining, history>>
        /\ cpc' = [cpc EXCEPT ![c] = IF cpc[c] = "SubmitFromWorker" THEN "checkOne" ELSE "checkAll"]
        /\ ctask[c] \in Tasks
    BY <1>1, Zenon DEF PushTask, PInv, CallInv
  <2>2. Append(global_queue_, ctask[c]) \in Seq(Tasks)
        /\ \A i \in Indices : /\ Append(private_queues_[i], ctask[c]) \in Seq(Tasks)
                              /\ Append(deques_[i], ctask[c]) \in Seq(Tasks)
    BY <2>1, AppendProperties, Zenon DEF PInv, QueueType
  <2>3. QueueType'
    <3>1. CASE cpc[c] = "Submit"
      BY <1>1, <2>2, <3>1, Zenon DEF PushTask, PInv, QueueType
    <3>2. CASE cpc[c] = "SubmitToWorker"
      <4>1. private_queues_' = [private_queues_ EXCEPT ![cdest[c]] = Append(private_queues_[cdest[c]], ctask[c])]
            /\ UNCHANGED <<global_queue_, deques_>>
        BY <1>1, <3>2, Zenon DEF PushTask
      <4>2. private_queues_' \in [Indices -> Seq(Tasks)]
        BY <2>2, <4>1, Zenon DEF PInv, QueueType
      <4> QED  BY <4>1, <4>2, Zenon DEF PInv, QueueType
    <3>3. CASE cpc[c] = "SubmitFromWorker"
      <4>1. deques_' = [deques_ EXCEPT ![cdest[c]] = Append(deques_[cdest[c]], ctask[c])]
            /\ UNCHANGED <<global_queue_, private_queues_>>
        BY <1>1, <3>3 DEF PushTask
      <4>2. deques_' \in [Indices -> Seq(Tasks)]
        BY <2>2, <4>1, Zenon DEF PInv, QueueType
      <4> QED  BY <4>1, <4>2, Zenon DEF PInv, QueueType
    <3> QED  BY <1>1, <3>1, <3>2, <3>3, Zenon DEF PushTask
  <2>4. ShapeType' /\ WorkerType' /\ HistoryType' /\ ThreadsInv' /\ IndexInv' /\ RanInv'
    BY <2>1, Zenon DEF PInv, shape, worker, history, ShapeType, WorkerType, HistoryType, ThreadsInv, IndexInv, RanInv
  <2>5. CallerType' /\ CallInv'
    BY <2>1, Zenon DEF PInv, shape, CallerType, CallInv
  <2> QED  BY <1>0, <2>1, <2>3, <2>4, <2>5, Zenon DEF PInv
<1>2. CASE CheckSleepers(c) \/ JoinExcess(c)
  <2>1. UNCHANGED <<queues, active_tasks_, shape, worker, history>>
    BY <1>2, Zenon DEF CheckSleepers, JoinExcess
  <2>2. QueueType' /\ ShapeType' /\ WorkerType' /\ HistoryType' /\ ThreadsInv' /\ IndexInv' /\ RanInv'
        /\ active_tasks_' \in Int
    BY <2>1, Zenon DEF PInv, queues, shape, worker, history, QueueType, ShapeType, WorkerType, HistoryType,
                ThreadsInv, IndexInv, RanInv
  <2>3. CallerType'
    BY <1>2, PoolAssumption DEF CheckSleepers, JoinExcess, EndCall, PInv, CallerType
  <2>4. CallInv'
    BY <1>2, <2>1, Zenon DEF CheckSleepers, JoinExcess, EndCall, PInv, CallerType, CallInv, shape
  <2> QED  BY <1>0, <2>2, <2>3, <2>4, Zenon DEF PInv
<1>3. CASE Notify(c) \/ TerminateNotify(c)
  <2>1. UNCHANGED <<queues, active_tasks_, shape, cur, scan, nested, joining, history>>
    BY <1>3, Zenon DEF Notify, TerminateNotify
  <2>2. QueueType' /\ ShapeType' /\ WorkerType' /\ HistoryType' /\ ThreadsInv' /\ active_tasks_' \in Int
    BY <2>1, Zenon DEF PInv, queues, shape, history, QueueType, ShapeType, WorkerType, HistoryType, ThreadsInv
  <2>3. Born /\ \A h \in Threads : tpc'[h] # "unborn" => tpc[h] # "unborn"
    <3>1. CASE NotifyAll
      BY <3>1, Zenon DEF NotifyAll, Born, PInv, SInv
    <3>2. CASE UNCHANGED tpc
      BY <3>2 DEF Born
    <3>3. ASSUME NEW h \in waiting, tpc' = [tpc EXCEPT ![h] = "woken"]
          PROVE  Born /\ \A g \in Threads : tpc'[g] # "unborn" => tpc[g] # "unborn"
      BY <3>3, Zenon DEF Born, PInv, SInv
    <3> QED  BY <1>3, <3>1, <3>2, <3>3, Zenon DEF Notify, TerminateNotify
  <2>4. IndexInv' /\ RanInv'
    BY <2>1, <2>3, BornKeeps, Zenon DEF shape, history
  <2>5. CallerType'
    BY <1>3, <2>1, PoolAssumption DEF Notify, TerminateNotify, EndCall, PInv, CallerType
  <2>6. CallInv'
    BY <1>3, <2>1, Zenon DEF Notify, TerminateNotify, EndCall, PInv, CallerType, CallInv, shape
  <2> QED  BY <1>0, <2>2, <2>4, <2>5, <2>6, Zenon DEF PInv
<1>4. CASE Terminate(c)
  <2>1. /\ UNCHANGED <<queues, active_tasks_, pool_size_, threads_, started, index, spurious, worker,
                       ctask, cdest, joining, history>>
        /\ terminated_' = TRUE /\ cpc' = [cpc EXCEPT ![c] = "terminate"]
    BY <1>4, Zenon DEF Terminate
  <2>2. QueueType' /\ ShapeType' /\ WorkerType' /\ HistoryType' /\ ThreadsInv' /\ active_tasks_' \in Int
        /\ IndexInv' /\ RanInv'
    BY <2>1, Zenon DEF PInv, queues, worker, history, QueueType, ShapeType, WorkerType, HistoryType, ThreadsInv,
                IndexInv, RanInv
  <2>3. CallerType' /\ CallInv'
    BY <2>1, Zenon DEF PInv, CallerType, CallInv
  <2> QED  BY <1>0, <2>2, <2>3, Zenon DEF PInv
<1>5. CASE JoinAll(c)
  <2>1. /\ UNCHANGED <<queues, active_tasks_, terminated_, pool_size_, started, index, spurious, worker,
                       ctask, cdest, joining, history>>
        /\ threads_' = <<>> /\ cpc' = [cpc EXCEPT ![c] = "drain"] /\ terminated_
    BY <1>5, Zenon DEF JoinAll, PInv, CallInv
  <2>2. QueueType' /\ ShapeType' /\ WorkerType' /\ HistoryType' /\ ThreadsInv' /\ active_tasks_' \in Int
        /\ IndexInv' /\ RanInv'
    BY <2>1 DEF PInv, queues, worker, history, QueueType, ShapeType, WorkerType, HistoryType, ThreadsInv,
                IndexInv, RanInv
  <2>3. CallerType' /\ CallInv'
    BY <2>1 DEF PInv, CallerType, CallInv
  <2> QED  BY <1>0, <2>2, <2>3, Zenon DEF PInv
<1>6. CASE Drain(c)
  <2>1. /\ UNCHANGED <<active_tasks_, shape, worker, ctask, cdest, joining, submitted, bound, ranOn>>
        /\ cpc' = [cpc EXCEPT ![c] = "gone"]
    BY <1>6, Zenon DEF Drain
  <2>2. ShapeType' /\ WorkerType' /\ ThreadsInv' /\ active_tasks_' \in Int /\ IndexInv' /\ RanInv'
    BY <2>1, Zenon DEF PInv, shape, worker, ShapeType, WorkerType, ThreadsInv, IndexInv, RanInv
  <2>3. QueueType'
    <3>1. \A i \in Indices : <<>> \in Seq(Tasks)
      OBVIOUS
    <3>2. global_queue_' = <<>> /\ private_queues_' = [i \in Indices |->
             IF i \in 0..(pool_size_ - 1) THEN <<>> ELSE private_queues_[i]]
          /\ deques_' = [i \in Indices |-> IF i \in 0..(pool_size_ - 1) THEN <<>> ELSE deques_[i]]
      BY <1>6, Zenon DEF Drain
    <3> QED  BY <3>1, <3>2 DEF PInv, QueueType
  <2>4. HistoryType'
    <3>1. \E L \in SUBSET Tasks :
             settled' = [k \in Tasks |-> IF k \in L THEN settled[k] + 1 ELSE settled[k]]
      <4> DEFINE L == {k \in Tasks : \/ InQueue(global_queue_, k)
                                     \/ \E i \in 0..(pool_size_ - 1) :
                                          InQueue(deques_[i], k) \/ InQueue(private_queues_[i], k)}
      <4>1. settled' = [k \in Tasks |-> IF k \in L THEN settled[k] + 1 ELSE settled[k]]
        BY <1>6, Zenon DEF Drain
      <4> QED  BY <4>1, Zenon
    <3>2. settled' \in [Tasks -> Nat]
      BY <3>1 DEF PInv, HistoryType
    <3> QED  BY <2>1, <3>2, Zenon DEF PInv, HistoryType
  <2>5. CallerType' /\ CallInv'
    BY <2>1, Zenon DEF PInv, CallerType, CallInv, shape
  <2> QED  BY <1>0, <2>2, <2>3, <2>4, <2>5, Zenon DEF PInv
<1> QED  BY <1>1, <1>2, <1>3, <1>4, <1>5, <1>6, Zenon DEF CallerStep

(* The steps of a worker: it takes a task, or it moves on without one.      *)
LEMMA TakePInv ==
    ASSUME PInv, NEW h \in Threads, NEW k \in Tasks, tpc[h] # "unborn", Take(h, k), SInv',
           QueueType', scan' \in [Threads -> 0..MaxPool], UNCHANGED poolUnchanged
    PROVE  PInv'
<1>1. /\ tpc' = [tpc EXCEPT ![h] = "run"] /\ cur' = [cur EXCEPT ![h] = k]
      /\ ranOn' = [ranOn EXCEPT ![k] = h]
      /\ UNCHANGED <<active_tasks_, shape, nested, caller, submitted, bound, settled>>
  BY Zenon DEF Take, poolUnchanged
<1>2. ShapeType' /\ ThreadsInv' /\ CallerType' /\ CallInv'
  BY <1>1, Zenon DEF PInv, shape, caller, ShapeType, ThreadsInv, CallerType, CallInv
<1>3. WorkerType'
  BY <1>1, Zenon DEF PInv, WorkerType
<1>4. HistoryType'
  BY <1>1, Zenon DEF PInv, HistoryType
<1>5. \A g \in Threads : tpc'[g] # "unborn" <=> tpc[g] # "unborn"
  BY <1>1, Zenon DEF PInv, SInv
<1>6. IndexInv'
  BY <1>1, <1>5, Zenon DEF PInv, IndexInv, shape
<1>7. RanInv'
  BY <1>1, <1>5, Zenon DEF PInv, RanInv, HistoryType
<1> QED  BY <1>1, <1>2, <1>3, <1>4, <1>6, <1>7, Zenon DEF PInv

LEMMA GoToPInv ==
    ASSUME PInv, NEW h \in Threads, NEW b, b # "unborn", tpc[h] # "unborn", GoTo(h, b), SInv',
           QueueType', scan' \in [Threads -> 0..MaxPool], spurious' \in 0..MaxSpurious,
           UNCHANGED <<active_tasks_, terminated_, pool_size_, threads_, started, index, nested,
                       caller, submitted, bound, settled>>
    PROVE  PInv'
<1>1. tpc' = [tpc EXCEPT ![h] = b] /\ UNCHANGED <<cur, ranOn>>
  BY Zenon DEF GoTo
<1>2. ShapeType' /\ ThreadsInv' /\ CallerType' /\ CallInv'
  BY Zenon DEF PInv, caller, ShapeType, ThreadsInv, CallerType, CallInv
<1>3. WorkerType' /\ HistoryType'
  BY <1>1, Zenon DEF PInv, WorkerType, HistoryType
<1>4. Born /\ \A g \in Threads : tpc'[g] # "unborn" => tpc[g] # "unborn"
  BY <1>1, Zenon DEF PInv, SInv, Born
<1>5. IndexInv' /\ RanInv'
  BY <1>1, <1>4, BornKeeps, Zenon
<1> QED  BY <1>2, <1>3, <1>5, Zenon DEF PInv

(* What is left of a queue after a task is taken off one of its ends.       *)
LEMMA TakenFrom ==
    ASSUME NEW S, NEW q \in Seq(S), q # <<>>
    PROVE  /\ Head(q) \in S /\ Tail(q) \in Seq(S)
           /\ q[Len(q)] \in S /\ SubSeq(q, 1, Len(q) - 1) \in Seq(S)
<1>1. Len(q) \in Nat /\ Len(q) >= 1
  BY EmptySeq, LenProperties
<1>2. \A i \in 1..Len(q) : q[i] \in S
  BY ElementOfSeq, Zenon
<1>3. SubSeq(q, 1, Len(q) - 1) \in Seq(S)
  BY <1>1, <1>2, SubSeqProperties
<1> QED  BY <1>1, <1>2, <1>3, HeadTailProperties

LEMMA Remainder ==
    ASSUME NEW a \in Nat, NEW n \in Nat, n >= 1
    PROVE  a % n \in 0..(n - 1)
  OBVIOUS

(* The deque that StealFrom looks at.                                       *)
LEMMA StealTarget ==
    ASSUME PInv, NEW h \in Threads, index[h] \in Indices
    PROVE  (index[h] + 1 + scan[h]) % pool_size_ \in Indices
<1>1. scan[h] \in 0..MaxPool /\ pool_size_ \in 1..MaxPool
  BY Zenon DEF PInv, ShapeType, WorkerType
<1>2. MaxPool \in Nat
  BY PoolAssumption, Zenon
<1>3. index[h] + 1 + scan[h] \in Nat /\ pool_size_ \in Nat /\ pool_size_ >= 1
  BY <1>1, <1>2 DEF Indices
<1>4. (index[h] + 1 + scan[h]) % pool_size_ \in 0..(pool_size_ - 1)
  BY <1>3, Remainder, Zenon
<1> QED  BY <1>1, <1>2, <1>4 DEF Indices

LEMMA GetTaskPInv ==
    ASSUME PInv, NEW h \in Threads, GetTask(h) \/ SpuriousWakeUp(h), SInv'
    PROVE  PInv'
<1>0. tpc[h] # "unborn" => index[h] \in Indices
  BY DEF PInv, IndexInv
<1>t. QueueType /\ scan \in [Threads -> 0..MaxPool] /\ spurious \in 0..MaxSpurious
  BY Zenon DEF PInv, WorkerType, ShapeType
<1>1. CASE CheckTerminated(h)
  <2>1. /\ tpc[h] = "loop" /\ GoTo(h, IF terminated_ THEN "exited" ELSE "private")
        /\ UNCHANGED <<poolUnchanged, queues, scan>>
    BY <1>1, Zenon DEF CheckTerminated
  <2>2. QueueType'
    BY <1>t, <2>1, Zenon DEF queues, QueueType
  <2> QED  BY <1>t, <2>1, <2>2, GoToPInv, Zenon DEF poolUnchanged, shape
<1>2. CASE GetPrivate(h)
  <2> DEFINE q == private_queues_[index[h]]
  <2>1. tpc[h] = "private" /\ UNCHANGED <<poolUnchanged, global_queue_, deques_, scan>>
    BY <1>2, Zenon DEF GetPrivate
  <2>2. CASE q # <<>>
    <3>1. Take(h, Head(q)) /\ private_queues_' = [private_queues_ EXCEPT ![index[h]] = Tail(q)]
      BY <1>2, <2>2, Zenon DEF GetPrivate
    <3>2. q \in Seq(Tasks)
      BY <1>0, <1>t, <2>1, Zenon DEF QueueType
    <3>3. Head(q) \in Tasks /\ Tail(q) \in Seq(Tasks)
      BY <2>2, <3>2, TakenFrom, Zenon
    <3> HIDE DEF q
    <3>4. QueueType'
      BY <1>t, <2>1, <3>1, <3>3, Zenon DEF QueueType
    <3> QED  BY <1>t, <2>1, <3>1, <3>3, <3>4, TakePInv, Zenon
  <2>3. CASE q = <<>>
    <3>1. GoTo(h, "deque") /\ UNCHANGED private_queues_
      BY <1>2, <2>3, Zenon DEF GetPrivate
    <3>2. QueueType'
      BY <1>t, <2>1, <3>1, Zenon DEF QueueType
    <3> QED  BY <1>t, <2>1, <3>1, <3>2, GoToPInv, Zenon DEF poolUnchanged, shape
  <2> QED  BY <2>2, <2>3, Zenon
<1>3. CASE GetLocal(h)
  <2> DEFINE q == deques_[index[h]]
  <2>1. tpc[h] = "deque" /\ UNCHANGED <<poolUnchanged, global_queue_, private_queues_, scan>>
    BY <1>3, Zenon DEF GetLocal
  <2>2. CASE q # <<>>
    <3>1. Take(h, q[Len(q)])
          /\ deques_' = [deques_ EXCEPT ![index[h]] = SubSeq(q, 1, Len(q) - 1)]
      BY <1>3, <2>2, Zenon DEF GetLocal
    <3>2. q \in Seq(Tasks)
      BY <1>0, <1>t, <2>1, Zenon DEF QueueType
    <3>3. q[Len(q)] \in Tasks /\ SubSeq(q, 1, Len(q) - 1) \in Seq(Tasks)
      BY <2>2, <3>2, TakenFrom, Zenon
    <3> HIDE DEF q
    <3>4. QueueType'
      BY <1>t, <2>1, <3>1, <3>3, Zenon DEF QueueType
    <3> QED  BY <1>t, <2>1, <3>1, <3>3, <3>4, TakePInv, Zenon
  <2>3. CASE q = <<>>
    <3>1. GoTo(h, "global") /\ UNCHANGED deques_
      BY <1>3, <2>3, Zenon DEF GetLocal
    <3>2. QueueType'
      BY <1>t, <2>1, <3>1, Zenon DEF QueueType
    <3> QED  BY <1>t, <2>1, <3>1, <3>2, GoToPInv, Zenon DEF poolUnchanged, shape
  <2> QED  BY <2>2, <2>3, Zenon
<1>4. CASE GetGlobal(h)
  <2>1. /\ tpc[h] = "global" /\ scan' = [scan EXCEPT ![h] = 0]
        /\ UNCHANGED <<poolUnchanged, private_queues_, deques_>>
    BY <1>4, Zenon DEF GetGlobal
  <2>s. scan' \in [Threads -> 0..MaxPool]
    BY <1>t, <2>1, PoolAssumption
  <2>2. CASE global_queue_ # <<>>
    <3>1. Take(h, Head(global_queue_)) /\ global_queue_' = Tail(global_queue_)
      BY <1>4, <2>2, Zenon DEF GetGlobal
    <3>2. Head(global_queue_) \in Tasks /\ Tail(global_queue_) \in Seq(Tasks)
      BY <1>t, <2>2, TakenFrom, Zenon DEF QueueType
    <3>3. QueueType'
      BY <1>t, <2>1, <3>1, <3>2, Zenon DEF QueueType
    <3> QED  BY <2>1, <2>s, <3>1, <3>2, <3>3, TakePInv, Zenon
  <2>3. CASE global_queue_ = <<>>
    <3>1. GoTo(h, "steal") /\ UNCHANGED global_queue_
      BY <1>4, <2>3, Zenon DEF GetGlobal
    <3>2. QueueType'
      BY <1>t, <2>1, <3>1, Zenon DEF QueueType
    <3> QED  BY <1>t, <2>1, <2>s, <3>1, <3>2, GoToPInv, Zenon DEF poolUnchanged, shape
  <2> QED  BY <2>2, <2>3, Zenon
<1>5. CASE StealFrom(h)
  <2>1. tpc[h] = "steal" /\ UNCHANGED <<poolUnchanged, global_queue_, private_queues_>>
    BY <1>5 DEF StealFrom
  <2>2. PICK t \in Indices : t = (index[h] + 1 + scan[h]) % pool_size_
    BY <1>0, <2>1, StealTarget, Zenon
  <2>3. CASE scan[h] >= pool_size_
    <3>1. GoTo(h, "lock") /\ UNCHANGED <<deques_, scan>>
      BY <1>5, <2>3, Zenon DEF StealFrom
    <3>2. QueueType'
      BY <1>t, <2>1, <3>1, Zenon DEF QueueType
    <3> QED  BY <1>t, <2>1, <3>1, <3>2, GoToPInv, Zenon DEF poolUnchanged, shape
  <2>4. CASE ~(scan[h] >= pool_size_) /\ t # index[h] /\ deques_[t] # <<>>
    <3>1. Take(h, Head(deques_[t])) /\ deques_' = [deques_ EXCEPT ![t] = Tail(deques_[t])]
          /\ UNCHANGED scan
      BY <1>5, <2>2, <2>4, Zenon DEF StealFrom
    <3>2. Head(deques_[t]) \in Tasks /\ Tail(deques_[t]) \in Seq(Tasks)
      BY <1>t, <2>4, TakenFrom, Zenon DEF QueueType
    <3>3. QueueType'
      BY <1>t, <2>1, <3>1, <3>2, Zenon DEF QueueType
    <3> QED  BY <1>t, <2>1, <3>1, <3>2, <3>3, TakePInv, Zenon
  <2>5. CASE ~(scan[h] >= pool_size_) /\ ~(t # index[h] /\ deques_[t] # <<>>)
    <3>1. GoTo(h, "steal") /\ UNCHANGED deques_ /\ scan' = [scan EXCEPT ![h] = scan[h] + 1]
      BY <1>5, <2>2, <2>5, Zenon DEF StealFrom
    <3>2. QueueType'
      BY <1>t, <2>1, <3>1, Zenon DEF QueueType
    <3>3. scan[h] + 1 \in 0..MaxPool
      BY <1>t, <2>5, PoolAssumption DEF PInv, ShapeType
    <3>4. scan' \in [Threads -> 0..MaxPool]
      BY <1>t, <3>1, <3>3, Zenon
    <3> QED  BY <1>t, <2>1, <3>1, <3>2, <3>4, GoToPInv, Zenon DEF poolUnchanged, shape
  <2> QED  BY <2>3, <2>4, <2>5, Zenon
<1>6. CASE LockPool(h) \/ HasWork(h) \/ GoToSleep(h) \/ WakeUp(h)
  <2>1. PICK b \in Labels \ {"unborn"} : GoTo(h, b)
    BY <1>6, Zenon DEF LockPool, HasWork, GoToSleep, WakeUp, Labels, CriticalLabels
  <2>2. tpc[h] # "unborn"
    BY <1>6, Zenon DEF LockPool, HasWork, GoToSleep, WakeUp
  <2>3. UNCHANGED <<queues, active_tasks_, shape, scan, nested, caller, submitted, bound, settled>>
    BY <1>6, Zenon DEF LockPool, HasWork, GoToSleep, WakeUp
  <2>4. QueueType'
    BY <1>t, <2>3, Zenon DEF queues, QueueType
  <2> QED  BY <1>t, <2>1, <2>2, <2>3, <2>4, GoToPInv, Zenon DEF shape
<1>7. CASE SpuriousWakeUp(h)
  <2>1. /\ GoTo(h, "woken") /\ spurious < MaxSpurious /\ spurious' = spurious + 1
        /\ tpc[h] # "unborn"
        /\ UNCHANGED <<queues, active_tasks_, terminated_, pool_size_, threads_, started, index,
                       scan, nested, caller, submitted, bound, settled>>
    BY <1>7, Zenon DEF SpuriousWakeUp, PInv, SInv
  <2>2. QueueType' /\ spurious' \in 0..MaxSpurious
    BY <1>t, <2>1, PoolAssumption DEF queues, QueueType
  <2> QED  BY <1>t, <2>1, <2>2, GoToPInv, Zenon
<1> QED  BY <1>1, <1>2, <1>3, <1>4, <1>5, <1>6, <1>7, Zenon DEF GetTask

LEMMA RunPInv ==
    ASSUME PInv, NEW h \in Threads, RunTask(h) \/ PromiseSettled(h), SInv'
    PROVE  PInv'
<1>0. index[h] \in Indices /\ tpc[h] # "unborn"
  BY Zenon DEF RunTask, PromiseSettled, ExecuteTask, AwaitPop, RunNested, FinishTask, PInv, IndexInv
<1>1. /\ UNCHANGED <<global_queue_, deques_, shape, scan, caller, submitted, bound>>
      /\ \E b \in {"finish", "await", "nested", "loop"} : tpc' = [tpc EXCEPT ![h] = b]
  BY Zenon DEF RunTask, PromiseSettled, ExecuteTask, AwaitPop, RunNested, FinishTask, execUnchanged,
         queues, history
<1>2. ShapeType' /\ ThreadsInv' /\ CallerType' /\ CallInv'
  BY <1>1, Zenon DEF PInv, shape, caller, ShapeType, ThreadsInv, CallerType, CallInv
<1>3. \A g \in Threads : tpc'[g] # "unborn" <=> tpc[g] # "unborn"
  BY <1>0, <1>1, Zenon DEF PInv, SInv
<1>4. IndexInv'
  BY <1>1, <1>3, Zenon DEF PInv, IndexInv, shape
<1>5. \A k \in Tasks : [settled EXCEPT ![k] = settled[k] + 1] \in [Tasks -> Nat]
  BY DEF PInv, HistoryType
<1>6. active_tasks_' \in Int
  <2>1. active_tasks_ \in Int
    BY Zenon DEF PInv
  <2>2. CASE FinishTask(h)
    BY <2>1, <2>2, SMTT(40) DEF FinishTask
  <2>3. CASE RunNested(h)
    BY <2>1, <2>3, SMTT(40) DEF RunNested
  <2>4. CASE ExecuteTask(h) \/ AwaitPop(h) \/ PromiseSettled(h)
    <3>1. active_tasks_' = active_tasks_
      BY <2>4, Zenon DEF ExecuteTask, AwaitPop, PromiseSettled
    <3> QED  BY <2>1, <3>1, Zenon
  <2> QED  BY <2>2, <2>3, <2>4, Zenon DEF RunTask
<1>7. CASE AwaitPop(h)
  <2> DEFINE q == private_queues_[index[h]]
  <2>1. /\ q # <<>> /\ nested' = [nested EXCEPT ![h] = Head(q)]
        /\ ranOn' = [ranOn EXCEPT ![Head(q)] = h]
        /\ private_queues_' = [private_queues_ EXCEPT ![index[h]] = Tail(q)]
        /\ UNCHANGED <<cur, settled>>
    BY <1>7, Zenon DEF AwaitPop, execUnchanged
  <2>2. q \in Seq(Tasks)
    BY <1>0, Zenon DEF PInv, QueueType
  <2>3. Head(q) \in Tasks /\ Tail(q) \in Seq(Tasks)
    BY <2>1, <2>2, TakenFrom, Zenon
  <2> HIDE DEF q
  <2>4. QueueType' /\ WorkerType'
    BY <1>1, <2>1, <2>3, Zenon DEF PInv, QueueType, WorkerType
  <2>5. HistoryType'
    BY <1>1, <2>1, <2>3, Zenon DEF PInv, HistoryType
  <2>6. RanInv'
    BY <1>0, <1>3, <2>1, <2>3, Zenon DEF PInv, RanInv, HistoryType
  <2> QED  BY <1>2, <1>4, <1>6, <2>4, <2>5, <2>6, Zenon DEF PInv
<1>8. CASE ~AwaitPop(h)
  <2>1. UNCHANGED <<private_queues_, ranOn>>
    BY <1>8, Zenon DEF RunTask, PromiseSettled, ExecuteTask, RunNested, FinishTask, queues, history
  <2>2. QueueType' /\ RanInv'
    BY <1>1, <1>3, <2>1, Zenon DEF PInv, QueueType, RanInv, HistoryType
  <2>3. WorkerType'
    <3>1. /\ nested' = nested \/ nested' = [nested EXCEPT ![h] = None]
          /\ cur' = cur \/ cur' = [cur EXCEPT ![h] = None]
      BY <1>8, Zenon DEF RunTask, PromiseSettled, ExecuteTask, RunNested, FinishTask, execUnchanged
    <3> QED  BY <1>1, <3>1, Zenon DEF PInv, WorkerType
  <2>4. settled' = settled \/ \E k \in Tasks \cup {None} : settled' = [settled EXCEPT ![k] = settled[k] + 1]
    <3>1. cur[h] \in Tasks \cup {None} /\ nested[h] \in Tasks \cup {None}
      BY Zenon DEF PInv, WorkerType
    <3>2. settled' = settled \/ Settle(cur[h]) \/ Settle(nested[h])
      BY <1>8, Zenon DEF RunTask, PromiseSettled, ExecuteTask, RunNested, FinishTask, history
    <3> QED  BY <3>1, <3>2, Zenon DEF Settle
  <2>5. settled' \in [Tasks -> Nat]
    <3>1. settled \in [Tasks -> Nat] /\ None \notin Tasks
      BY PoolAssumption DEF PInv, HistoryType
    <3>2. [settled EXCEPT ![None] = settled[None] + 1] = settled
      BY <3>1, Zenon
    <3> QED  BY <1>5, <2>4, <3>1, <3>2, Zenon
  <2>6. HistoryType'
    BY <1>1, <2>1, <2>5, Zenon DEF PInv, HistoryType
  <2> QED  BY <1>2, <1>4, <1>6, <2>2, <2>3, <2>6, Zenon DEF PInv
<1> QED  BY <1>7, <1>8, Zenon

LEMMA ResizePInv ==
    ASSUME PInv, NEW c \in Callers, NEW n \in 1..MaxPool, Resize(c, n), SInv'
    PROVE  PInv'
<1>0. /\ pool_size_' = n /\ pool_size_ \in 1..MaxPool /\ n \in Nat /\ pool_size_ \in Nat
      /\ started \in 0..MaxThreads /\ MaxThreads \in Nat /\ MaxPool \in Nat /\ started \in Nat
      /\ UNCHANGED <<queues, active_tasks_, terminated_, spurious, cur, scan, nested, ctask, cdest,
                     history>>
  <2>1. /\ pool_size_' = n
        /\ UNCHANGED <<queues, active_tasks_, terminated_, spurious, cur, scan, nested, ctask, cdest,
                       history>>
    BY Zenon DEF Resize
  <2>2. pool_size_ \in 1..MaxPool /\ started \in 0..MaxThreads
    BY Zenon DEF PInv, ShapeType
  <2>3. MaxThreads \in Nat /\ MaxPool \in Nat
    BY PoolAssumption, Zenon
  <2>4. n \in Nat /\ pool_size_ \in Nat /\ started \in Nat
    BY <2>2, <2>3
  <2> QED  BY <2>1, <2>2, <2>3, <2>4, Zenon
<1>1. /\ threads_ \in Seq(Threads) /\ Len(threads_) = pool_size_
      /\ \A i \in 1..pool_size_ : threads_[i] \in Threads
  <2>1. ~terminated_
    BY DEF Resize, CanCall
  <2>2. threads_ \in Seq(Threads) /\ Len(threads_) = pool_size_
    BY <2>1, Zenon DEF PInv, ShapeType, ThreadsInv
  <2> QED  BY <2>2, ElementOfSeq, Zenon
<1>2. QueueType' /\ WorkerType' /\ HistoryType' /\ active_tasks_' \in Int
  BY <1>0, Zenon DEF PInv, queues, history, QueueType, WorkerType, HistoryType
<1> DEFINE new == [i \in pool_size_..(n - 1) |-> started + 1 + i - pool_size_]
<1>3. CASE /\ n > pool_size_ /\ started + n - pool_size_ <= MaxThreads
           /\ threads_' = [k \in 1..n |-> IF k <= pool_size_ THEN threads_[k] ELSE new[k - 1]]
           /\ index' = [h \in Threads |-> IF \E i \in DOMAIN new : new[i] = h
                           THEN CHOOSE i \in DOMAIN new : new[i] = h ELSE index[h]]
           /\ tpc' = [h \in Threads |-> IF \E i \in DOMAIN new : new[i] = h THEN "loop" ELSE tpc[h]]
           /\ started' = started + n - pool_size_
           /\ UNCHANGED <<waiting, cpc, joining>>
  <2>1. \A i \in DOMAIN new : new[i] \in Threads /\ i \in Indices /\ i \in Int
    BY <1>0, <1>3 DEF Threads, Indices
  <2>2. \A k \in 1..n : ~(k <= pool_size_) => k - 1 \in DOMAIN new
    BY <1>0, <1>3
  <2>3. started' \in 0..MaxThreads
    BY <1>0, <1>3
  <2> HIDE DEF new
  <2>4. ASSUME NEW k \in 1..n PROVE threads_'[k] \in Threads
    <3>1. threads_'[k] = IF k <= pool_size_ THEN threads_[k] ELSE new[k - 1]
      BY <1>3, Zenon
    <3>2. k <= pool_size_ => k \in 1..pool_size_
      BY <1>0
    <3>3. k <= pool_size_ => threads_[k] \in Threads
      BY <1>1, <3>2, Zenon
    <3>4. ~(k <= pool_size_) => new[k - 1] \in Threads
      BY <2>1, <2>2, Zenon
    <3> QED  BY <3>1, <3>3, <3>4, Zenon
  <2>5. threads_' \in Seq(Threads) /\ Len(threads_') = n
    BY <1>0, <1>3, <2>4, SMTT(40)
  <2>6. ASSUME NEW h \in Threads
        PROVE  \/ (index'[h] = index[h] /\ tpc'[h] = tpc[h])
               \/ (index'[h] \in Indices /\ index'[h] \in Int /\ tpc'[h] = "loop")
    <3>1. CASE \E i \in DOMAIN new : new[i] = h
      <4>1. index'[h] = CHOOSE i \in DOMAIN new : new[i] = h
        BY <1>3, <3>1, Zenon
      <4>2. index'[h] \in DOMAIN new
        BY <3>1, <4>1, Zenon
      <4>3. tpc'[h] = "loop"
        BY <1>3, <3>1, Zenon
      <4> QED  BY <2>1, <4>2, <4>3, Zenon
    <3>2. CASE ~\E i \in DOMAIN new : new[i] = h
      BY <1>3, <3>2, Zenon
    <3> QED  BY <3>1, <3>2, Zenon
  <2>7. index' \in [Threads -> Int]
    BY <1>3, <2>6, Zenon DEF PInv, ShapeType
  <2>8. ShapeType' /\ ThreadsInv'
    BY <1>0, <2>3, <2>5, <2>7, Zenon DEF PInv, ShapeType, ThreadsInv
  <2>9. IndexInv'
    BY <2>6, Zenon DEF PInv, IndexInv
  <2>10. RanInv'
    BY <1>0, <2>6, Zenon DEF PInv, RanInv, HistoryType, history
  <2>11. CallerType' /\ CallInv'
    BY <1>0, <1>3, Zenon DEF PInv, CallerType, CallInv
  <2> QED  BY <1>2, <2>8, <2>9, <2>10, <2>11, Zenon DEF PInv
<1>4. CASE /\ n < pool_size_
           /\ joining' = [joining EXCEPT ![c] = {threads_[k] : k \in (n + 1)..pool_size_}]
           /\ threads_' = SubSeq(threads_, 1, n)
           /\ NotifyAll
           /\ cpc' = [cpc EXCEPT ![c] = "join"]
           /\ UNCHANGED <<index, started>>
  <2>1. threads_' \in Seq(Threads) /\ Len(threads_') = n
    BY <1>0, <1>1, <1>4, SubSeqProperties, SMTT(40)
  <2>2. {threads_[k] : k \in (n + 1)..pool_size_} \in SUBSET Threads
    BY <1>0, <1>1, SMTT(40)
  <2>3. ShapeType' /\ ThreadsInv'
    BY <1>0, <1>4, <2>1, Zenon DEF PInv, ShapeType, ThreadsInv
  <2>4. CallerType' /\ CallInv'
    BY <1>0, <1>4, <2>2, Zenon DEF PInv, CallerType, CallInv
  <2>5. Born /\ \A h \in Threads : tpc'[h] # "unborn" => tpc[h] # "unborn"
    BY <1>4, Zenon DEF NotifyAll, Born, PInv, SInv
  <2>6. IndexInv' /\ RanInv'
    BY <1>0, <1>4, <2>5, BornKeeps, Zenon DEF history
  <2> QED  BY <1>2, <2>3, <2>4, <2>6, Zenon DEF PInv
<1> QED  BY <1>3, <1>4, Zenon DEF Resize

LEMMA NextPInv == PInv /\ [Next]_vars => PInv'
<1> SUFFICES ASSUME PInv, [Next]_vars PROVE PInv'
  OBVIOUS
<1>0. SInv'
  BY NextSInv, Zenon DEF PInv
<1>i. -1 \in -1..(MaxPool - 1) /\ \A i \in Indices : i \in -1..(MaxPool - 1)
  BY PoolAssumption, SMTT(40) DEF Indices
<1>1. ASSUME NEW c \in Callers, NEW k \in Tasks, Submit(c, k) PROVE PInv'
  BY <1>0, <1>1, <1>i, SubmitPInv, Zenon DEF Submit, PInv, HistoryType
<1>2. ASSUME NEW c \in Callers, NEW k \in Tasks, SubmitFromWorker(c, k) PROVE PInv'
  <2>1. BeginCall(c, k, "SubmitFromWorker", index[c]) /\ c \in Threads /\ UNCHANGED bound
    BY <1>2, Zenon DEF SubmitFromWorker
  <2>2. tpc[c] # "unborn"
    BY <2>1, PoolAssumption, Zenon DEF BeginCall, CanCall
  <2>3. index[c] \in -1..(MaxPool - 1)
    BY <1>i, <2>1, <2>2, Zenon DEF PInv, IndexInv
  <2> QED  BY <1>0, <2>1, <2>3, SubmitPInv, Zenon DEF PInv, HistoryType
<1>3. ASSUME NEW c \in Callers, NEW k \in Tasks, NEW h \in Threads, SubmitToWorker(c, k, h)
      PROVE  PInv'
  <2>1. /\ BeginCall(c, k, "SubmitToWorker", index[h])
        /\ bound' = [bound EXCEPT ![k] = h] /\ \E j \in Tasks : ranOn[j] = h
    BY <1>3, Zenon DEF SubmitToWorker
  <2>2. index[h] \in -1..(MaxPool - 1)
    BY <1>i, <2>1, PoolAssumption, Zenon DEF PInv, IndexInv, RanInv, Callers
  <2>3. bound' \in [Tasks -> Threads \cup {None}]
    BY <2>1, Zenon DEF PInv, HistoryType
  <2> QED  BY <1>0, <2>1, <2>2, <2>3, SubmitPInv, Zenon
<1>4. ASSUME NEW c \in Callers, CallerStep(c) \/ Terminate(c) PROVE PInv'
  BY <1>4, CallerPInv
<1>5. ASSUME NEW c \in Callers, NEW n \in 1..MaxPool, Resize(c, n) PROVE PInv'
  BY <1>0, <1>5, ResizePInv, Zenon
<1>6. ASSUME NEW h \in Threads, GetTask(h) \/ SpuriousWakeUp(h) PROVE PInv'
  BY <1>0, <1>6, GetTaskPInv, Zenon
<1>7. ASSUME NEW h \in Threads, RunTask(h) \/ PromiseSettled(h) PROVE PInv'
  BY <1>0, <1>7, RunPInv, Zenon
<1>8. CASE UNCHANGED vars
  BY <1>0, <1>8, Zenon DEF vars, queues, shape, worker, caller, history, PInv, QueueType, ShapeType, WorkerType,
                    CallerType, HistoryType, IndexInv, RanInv, ThreadsInv, CallInv
<1> QED  BY <1>1, <1>2, <1>3, <1>4, <1>5, <1>6, <1>7, <1>8, Zenon DEF Next

(* For any number of workers, callers and tasks and across every Resize,    *)
(* the queues hold tasks, every index used is an index of the pool, the     *)
(* steal loop stays within its bound and Resize joins threads of the pool.  *)
THEOREM TypeCorrect == Spec => []TypeOK
<1>1. Init => PInv
  BY InitPInv
<1>2. PInv /\ [Next]_vars => PInv'
  BY NextPInv
<1> QED  BY <1>1, <1>2, PInvType, PTL DEF Spec
------------------------------------------------------------------------------
(* Without Resize the thread of index i is thread i + 1 for ever.  A task   *)
(* for a worker is only ever in the private queue of that worker's index,   *)
(* and the queues that every worker reads hold no such task.                *)
Shared == {k \in submitted : bound[k] = None}
For(i) == {k \in submitted : bound[k] = i + 1}
OwnIndex == \A h \in Threads : index[h] = h - 1
QueuesBound ==
    /\ global_queue_ \in Seq(Shared)
    /\ \A i \in Indices : private_queues_[i] \in Seq(For(i)) /\ deques_[i] \in Seq(Shared)
CallsBound ==
    \A c \in Callers :
      /\ cpc[c] \in {"Submit", "SubmitFromWorker"} => ctask[c] \in Shared
      /\ cpc[c] = "SubmitToWorker" => ctask[c] \in For(cdest[c])
Fresh == \A k \in Tasks : k \notin submitted => bound[k] = None /\ ranOn[k] = None

BInv == PInv /\ OwnIndex /\ QueuesBound /\ CallsBound /\ Fresh /\ BoundToThread

LEMMA InitBInv == Init => BInv
<1> SUFFICES ASSUME Init PROVE BInv
  OBVIOUS
<1>1. PInv
  BY InitPInv
<1>2. OwnIndex /\ Fresh /\ BoundToThread
  BY DEF Init, OwnIndex, Fresh, BoundToThread
<1>3. QueuesBound
  <2>1. global_queue_ = <<>> /\ \A i \in Indices : private_queues_[i] = <<>> /\ deques_[i] = <<>>
    BY DEF Init
  <2>2. \A S : <<>> \in Seq(S)
    OBVIOUS
  <2> QED  BY <2>1, <2>2, Zenon DEF QueuesBound
<1>4. CallsBound
  BY DEF Init, CallsBound
<1> QED  BY <1>1, <1>2, <1>3, <1>4, Zenon DEF BInv

LEMMA WiderSeq ==
    ASSUME NEW S, NEW T, S \subseteq T, NEW q \in Seq(S)
    PROVE  q \in Seq(T)
<1>1. Len(q) \in Nat /\ q \in [1..Len(q) -> S]
  BY LenProperties
<1>2. q \in [1..Len(q) -> T]
  BY <1>1, Zenon
<1> QED  BY <1>1, <1>2, SeqDef, ZenonT(40)

(* A step that submits and runs nothing: whatever call is still pushing its *)
(* task was pushing it before.                                              *)
LEMMA QuietBInv ==
    ASSUME BInv, PInv', UNCHANGED <<index, submitted, bound, ranOn>>, QueuesBound',
           \A c \in Callers : cpc'[c] \in {"Submit", "SubmitFromWorker", "SubmitToWorker"} =>
             cpc'[c] = cpc[c] /\ ctask'[c] = ctask[c] /\ cdest'[c] = cdest[c]
    PROVE  BInv'
<1>1. OwnIndex' /\ Fresh' /\ BoundToThread'
  BY Zenon DEF BInv, OwnIndex, Fresh, BoundToThread
<1>2. Shared' = Shared /\ \A i : For(i)' = For(i)
  BY Zenon DEF Shared, For
<1>3. ASSUME NEW c \in Callers, cpc'[c] \in {"Submit", "SubmitFromWorker"} PROVE ctask'[c] \in Shared'
  BY <1>2, <1>3, Zenon DEF BInv, CallsBound
<1>4. ASSUME NEW c \in Callers, cpc'[c] = "SubmitToWorker"
      PROVE  ctask'[c] \in {k \in submitted' : bound'[k] = cdest'[c] + 1}
  <2>1. ctask[c] \in For(cdest[c]) /\ ctask'[c] = ctask[c] /\ cdest'[c] = cdest[c]
    BY <1>4, Zenon DEF BInv, CallsBound
  <2> QED  BY <2>1, Zenon DEF For
<1>5. CallsBound'
  BY <1>3, <1>4 DEF CallsBound, For
<1> QED  BY <1>1, <1>5, Zenon DEF BInv

LEMMA SameQueues ==
    ASSUME BInv, UNCHANGED <<queues, submitted, bound>>
    PROVE  QueuesBound'
  BY Zenon DEF BInv, QueuesBound, queues, Shared, For

(* Thread h starts a task that it may run.                                  *)
LEMMA TakeBInv ==
    ASSUME BInv, PInv', NEW h \in Threads, NEW k \in Shared \cup For(index[h]),
           ranOn' = [ranOn EXCEPT ![k] = h], QueuesBound',
           UNCHANGED <<index, submitted, bound, caller>>
    PROVE  BInv'
<1>1. OwnIndex' /\ CallsBound'
  BY Zenon DEF BInv, OwnIndex, CallsBound, caller, Shared, For
<1>2. k \in submitted /\ (bound[k] = None \/ bound[k] = h) /\ k \in Tasks /\ ranOn \in [Tasks -> Threads \cup {None}]
  BY SMTT(40) DEF Shared, For, BInv, OwnIndex, PInv, HistoryType, Threads
<1>3. Fresh'
  BY <1>2, Zenon DEF BInv, Fresh
<1>4. BoundToThread'
  BY <1>2, Zenon DEF BInv, BoundToThread
<1> QED  BY <1>1, <1>3, <1>4 DEF BInv

LEMMA SubmitBInv ==
    ASSUME BInv, PInv', NEW c \in Callers, NEW k \in Tasks, NEW d \in Int,
           NEW op \in {"Submit", "SubmitFromWorker", "SubmitToWorker"}, BeginCall(c, k, op, d),
           \/ op # "SubmitToWorker" /\ bound' = bound
           \/ op = "SubmitToWorker" /\ bound' = [bound EXCEPT ![k] = d + 1]
    PROVE  BInv'
<1>1. /\ k \notin submitted /\ submitted' = submitted \cup {k}
      /\ UNCHANGED <<queues, index, ranOn>>
      /\ cpc' = [cpc EXCEPT ![c] = op] /\ ctask' = [ctask EXCEPT ![c] = k]
      /\ cdest' = [cdest EXCEPT ![c] = d]
  BY Zenon DEF BeginCall, shape
<1>2. /\ bound \in [Tasks -> Threads \cup {None}] /\ submitted \subseteq Tasks
      /\ bound[k] = None /\ ranOn[k] = None
      /\ cpc = [b \in Callers |-> cpc[b]] /\ ctask \in [Callers -> Tasks \cup {None}]
      /\ cdest \in [Callers -> -1..(MaxPool - 1)]
  <2>1. cpc \in [Callers -> {"none", "Submit", "SubmitFromWorker", "SubmitToWorker", "checkAll",
                            "checkOne", "notifyAll", "notifyOne", "join", "terminate", "joinAll",
                            "drain", "gone"}]
    BY Zenon DEF BInv, PInv, CallerType
  <2>2. cpc = [b \in Callers |-> cpc[b]]
    BY <2>1, Zenon
  <2> QED  BY <1>1, <2>2, Zenon DEF BInv, PInv, HistoryType, Fresh, CallerType
<1>3. \A j \in submitted : j \in submitted' /\ bound'[j] = bound[j]
  BY <1>1, <1>2, Zenon
<1>4. Shared \subseteq Shared' /\ \A i \in Int : For(i) \subseteq {j \in submitted' : bound'[j] = i + 1}
  BY <1>3, Zenon DEF Shared, For
<1>5. QueuesBound'
  <2>1. global_queue_' \in Seq(Shared')
    BY <1>1, <1>4, WiderSeq, Zenon DEF BInv, QueuesBound, queues
  <2>2. ASSUME NEW i \in Indices
        PROVE  private_queues_'[i] \in Seq({j \in submitted' : bound'[j] = i + 1}) /\ deques_'[i] \in Seq(Shared')
    <3>1. i \in Int /\ private_queues_'[i] \in Seq(For(i)) /\ deques_'[i] \in Seq(Shared)
      BY <1>1 DEF Indices, BInv, QueuesBound, queues
    <3> QED  BY <1>4, <3>1, WiderSeq, Zenon
  <2> QED  BY <2>1, <2>2, Zenon DEF QueuesBound, For
<1>6. OwnIndex'
  BY <1>1, Zenon DEF BInv, OwnIndex
<1>7. Fresh'
  BY <1>1, <1>2, Zenon DEF BInv, Fresh
<1>8. BoundToThread'
  BY <1>1, <1>2, Zenon DEF BInv, BoundToThread
<1>9. CallsBound'
  <2>1. ASSUME NEW b \in Callers, cpc'[b] \in {"Submit", "SubmitFromWorker"} PROVE ctask'[b] \in Shared'
    <3>1. CASE b = c
      BY <1>1, <1>2, <2>1, <3>1, Zenon DEF Shared
    <3>2. CASE b # c
      BY <1>1, <1>2, <1>4, <2>1, <3>2, Zenon DEF BInv, CallsBound
    <3> QED  BY <3>1, <3>2, Zenon
  <2>2. ASSUME NEW b \in Callers, cpc'[b] = "SubmitToWorker"
        PROVE  ctask'[b] \in {j \in submitted' : bound'[j] = cdest'[b] + 1}
    <3>1. CASE b = c
      BY <1>1, <1>2, <2>2, <3>1, Zenon
    <3>2. CASE b # c
      <4>1. ctask[b] \in For(cdest[b]) /\ ctask'[b] = ctask[b] /\ cdest'[b] = cdest[b] /\ cdest[b] \in Int
        BY <1>1, <1>2, <2>2, <3>2 DEF BInv, CallsBound
      <4> QED  BY <1>4, <4>1, Zenon
    <3> QED  BY <3>1, <3>2, Zenon
  <2> QED  BY <2>1, <2>2, Zenon DEF CallsBound, For
<1> QED  BY <1>5, <1>6, <1>7, <1>8, <1>9, Zenon DEF BInv

LEMMA CallerBInv ==
    ASSUME BInv, PInv', NEW c \in Callers, CallerStep(c) \/ Terminate(c)
    PROVE  BInv'
<1>0. cpc = [b \in Callers |-> cpc[b]] /\ ctask = [b \in Callers |-> ctask[b]]
      /\ cdest = [b \in Callers |-> cdest[b]]
  <2>1. CallerType
    BY Zenon DEF BInv, PInv
  <2> QED  BY <2>1, Zenon DEF CallerType
<1>1. CASE PushTask(c)
  <2>1. /\ UNCHANGED <<index, submitted, bound, ranOn, ctask, cdest>>
        /\ cpc[c] \in {"Submit", "SubmitFromWorker", "SubmitToWorker"}
        /\ cpc' = [cpc EXCEPT ![c] = IF cpc[c] = "SubmitFromWorker" THEN "checkOne" ELSE "checkAll"]
    BY <1>1, Zenon DEF PushTask, shape, history
  <2>2. /\ cpc[c] \in {"Submit", "SubmitFromWorker"} => ctask[c] \in Shared
        /\ cpc[c] = "SubmitToWorker" => ctask[c] \in For(cdest[c])
    BY Zenon DEF BInv, CallsBound
  <2>3. Shared' = Shared /\ \A i : For(i)' = For(i)
    BY <2>1, Zenon DEF Shared, For
  <2>4. QueueType
    BY Zenon DEF BInv, PInv
  <2>5. QueuesBound'
    <3>1. CASE cpc[c] = "Submit"
      <4>1. global_queue_' = Append(global_queue_, ctask[c]) /\ UNCHANGED <<private_queues_, deques_>>
        BY <1>1, <3>1, Zenon DEF PushTask
      <4>2. global_queue_' \in Seq(Shared)
        BY <2>2, <3>1, <4>1, AppendProperties, ZenonT(40) DEF BInv, QueuesBound
      <4> QED  BY <2>3, <4>1, <4>2, Zenon DEF BInv, QueuesBound
    <3>2. CASE cpc[c] = "SubmitToWorker"
      <4>1. private_queues_' = [private_queues_ EXCEPT ![cdest[c]] = Append(private_queues_[cdest[c]], ctask[c])]
            /\ UNCHANGED <<global_queue_, deques_>>
        BY <1>1, <3>2, Zenon DEF PushTask
      <4>2. ASSUME NEW i \in Indices PROVE private_queues_'[i] \in Seq(For(i))
        <5>1. CASE i = cdest[c]
          <6>1. private_queues_'[i] = Append(private_queues_[i], ctask[c])
            BY <2>4, <4>1, <5>1, Zenon DEF QueueType
          <6>2. private_queues_[i] \in Seq(For(i)) /\ ctask[c] \in For(i)
            BY <2>2, <3>2, <5>1, Zenon DEF BInv, QueuesBound
          <6> QED  BY <6>1, <6>2, AppendProperties, ZenonT(40)
        <5>2. CASE i # cdest[c]
          BY <2>4, <4>1, <5>2, Zenon DEF QueueType, BInv, QueuesBound
        <5> QED  BY <5>1, <5>2, Zenon
      <4> QED  BY <2>3, <4>1, <4>2, Zenon DEF BInv, QueuesBound
    <3>3. CASE cpc[c] = "SubmitFromWorker"
      <4>1. deques_' = [deques_ EXCEPT ![cdest[c]] = Append(deques_[cdest[c]], ctask[c])]
            /\ UNCHANGED <<global_queue_, private_queues_>>
        BY <1>1, <3>3, Zenon DEF PushTask
      <4>2. ASSUME NEW i \in Indices PROVE deques_'[i] \in Seq(Shared)
        <5>1. CASE i = cdest[c]
          <6>1. deques_'[i] = Append(deques_[i], ctask[c])
            BY <2>4, <4>1, <5>1, Zenon DEF QueueType
          <6>2. deques_[i] \in Seq(Shared) /\ ctask[c] \in Shared
            BY <2>2, <3>3, Zenon DEF BInv, QueuesBound
          <6> QED  BY <6>1, <6>2, AppendProperties, Zenon
        <5>2. CASE i # cdest[c]
          BY <2>4, <4>1, <5>2, Zenon DEF QueueType, BInv, QueuesBound
        <5> QED  BY <5>1, <5>2, Zenon
      <4> QED  BY <2>3, <4>1, <4>2, Zenon DEF BInv, QueuesBound
    <3> QED  BY <2>1, <3>1, <3>2, <3>3, Zenon
  <2>6. \A b \in Callers : cpc'[b] \in {"Submit", "SubmitFromWorker", "SubmitToWorker"} =>
             cpc'[b] = cpc[b] /\ ctask'[b] = ctask[b] /\ cdest'[b] = cdest[b]
    BY <1>0, <2>1, Zenon
  <2> QED  BY <2>1, <2>5, <2>6, QuietBInv, Zenon
<1>2. CASE CheckSleepers(c) \/ Notify(c) \/ JoinExcess(c) \/ TerminateNotify(c) \/ JoinAll(c) \/ Terminate(c)
  <2>1. UNCHANGED <<queues, index, submitted, bound, ranOn>>
    BY <1>2, Zenon DEF CheckSleepers, Notify, JoinExcess, TerminateNotify, JoinAll, Terminate, shape, history
  <2>2. /\ \E l \in {"none", "notifyAll", "notifyOne", "joinAll", "drain", "terminate"} : cpc' = [cpc EXCEPT ![c] = l]
        /\ ctask' = ctask \/ ctask' = [ctask EXCEPT ![c] = None]
        /\ cdest' = cdest \/ cdest' = [cdest EXCEPT ![c] = -1]
    BY <1>2, Zenon DEF CheckSleepers, Notify, JoinExcess, TerminateNotify, JoinAll, Terminate, EndCall
  <2>3. \A b \in Callers : cpc'[b] \in {"Submit", "SubmitFromWorker", "SubmitToWorker"} =>
             cpc'[b] = cpc[b] /\ ctask'[b] = ctask[b] /\ cdest'[b] = cdest[b]
    BY <1>0, <2>2, Zenon
  <2> QED  BY <2>1, <2>3, SameQueues, QuietBInv, Zenon
<1>3. CASE Drain(c)
  <2>1. /\ UNCHANGED <<index, submitted, bound, ranOn, ctask, cdest>> /\ cpc' = [cpc EXCEPT ![c] = "gone"]
        /\ global_queue_' = <<>>
        /\ private_queues_' = [i \in Indices |-> IF i \in 0..(pool_size_ - 1) THEN <<>> ELSE private_queues_[i]]
        /\ deques_' = [i \in Indices |-> IF i \in 0..(pool_size_ - 1) THEN <<>> ELSE deques_[i]]
    BY <1>3, Zenon DEF Drain, shape
  <2>2. Shared' = Shared /\ \A i : For(i)' = For(i)
    BY <2>1, Zenon DEF Shared, For
  <2>3. \A S : <<>> \in Seq(S)
    BY SMTT(40)
  <2>4. \A i \in Indices : private_queues_'[i] \in Seq(For(i)) /\ deques_'[i] \in Seq(Shared)
    BY <2>1, <2>3, Zenon DEF BInv, QueuesBound
  <2>5. QueuesBound'
    BY <2>1, <2>2, <2>3, <2>4, Zenon DEF QueuesBound
  <2>6. \A b \in Callers : cpc'[b] \in {"Submit", "SubmitFromWorker", "SubmitToWorker"} =>
             cpc'[b] = cpc[b] /\ ctask'[b] = ctask[b] /\ cdest'[b] = cdest[b]
    BY <1>0, <2>1, Zenon
  <2> QED  BY <2>1, <2>5, <2>6, QuietBInv, Zenon
<1> QED  BY <1>1, <1>2, <1>3, Zenon DEF CallerStep

LEMMA WorkerBInv ==
    ASSUME BInv, PInv', NEW h \in Threads,
           GetTask(h) \/ RunTask(h) \/ SpuriousWakeUp(h) \/ PromiseSettled(h)
    PROVE  BInv'
<1>0. QueueType /\ (tpc[h] # "unborn" => index[h] \in Indices)
  BY Zenon DEF BInv, PInv, IndexInv
<1>1. CASE UNCHANGED <<queues, index, submitted, bound, ranOn, caller>>
  BY <1>1, SameQueues, QuietBInv, Zenon DEF caller
<1>2. ASSUME NEW k \in For(index[h]), index[h] \in Indices, private_queues_[index[h]] # <<>>,
             private_queues_' = [private_queues_ EXCEPT ![index[h]] = Tail(private_queues_[index[h]])],
             k = Head(private_queues_[index[h]]), ranOn' = [ranOn EXCEPT ![k] = h],
             UNCHANGED <<global_queue_, deques_, index, submitted, bound, caller>>
      PROVE  BInv'
  <2>1. Shared' = Shared /\ \A i : For(i)' = For(i)
    BY <1>2, Zenon DEF Shared, For
  <2>2. ASSUME NEW i \in Indices PROVE private_queues_'[i] \in Seq(For(i))
    <3>1. CASE i = index[h]
      <4>1. private_queues_'[i] = Tail(private_queues_[i]) /\ private_queues_[i] \in Seq(For(i))
            /\ private_queues_[i] # <<>>
        BY <1>0, <1>2, <3>1, Zenon DEF QueueType, BInv, QueuesBound
      <4> QED  BY <4>1, TakenFrom, Zenon
    <3>2. CASE i # index[h]
      BY <1>0, <1>2, <3>2, Zenon DEF QueueType, BInv, QueuesBound
    <3> QED  BY <3>1, <3>2, Zenon
  <2>3. QueuesBound'
    BY <1>2, <2>1, <2>2, Zenon DEF BInv, QueuesBound
  <2> QED  BY <1>2, <2>3, TakeBInv, Zenon
<1>3. ASSUME NEW t \in Indices, NEW k \in Shared, NEW q \in Seq(Shared), deques_' = [deques_ EXCEPT ![t] = q],
             ranOn' = [ranOn EXCEPT ![k] = h],
             UNCHANGED <<global_queue_, private_queues_, index, submitted, bound, caller>>
      PROVE  BInv'
  <2>1. Shared' = Shared /\ \A i : For(i)' = For(i)
    BY <1>3, Zenon DEF Shared, For
  <2>2. \A i \in Indices : deques_'[i] \in Seq(Shared)
    BY <1>0, <1>3, Zenon DEF QueueType, BInv, QueuesBound
  <2>3. QueuesBound'
    BY <1>3, <2>1, <2>2, Zenon DEF BInv, QueuesBound
  <2> QED  BY <1>3, <2>3, TakeBInv, Zenon
<1>4. CASE GetPrivate(h) \/ AwaitPop(h)
  <2> DEFINE q == private_queues_[index[h]]
  <2>1. CASE q = <<>>
    <3>1. UNCHANGED <<queues, index, submitted, bound, ranOn, caller>>
      BY <1>4, <2>1, Zenon DEF GetPrivate, AwaitPop, GoTo, poolUnchanged, shape, queues
    <3> QED  BY <1>1, <3>1, Zenon
  <2>2. CASE q # <<>>
    <3>1. /\ private_queues_' = [private_queues_ EXCEPT ![index[h]] = Tail(q)]
          /\ ranOn' = [ranOn EXCEPT ![Head(q)] = h] /\ tpc[h] # "unborn"
          /\ UNCHANGED <<global_queue_, deques_, index, submitted, bound, caller>>
      BY <1>4, <2>2, Zenon DEF GetPrivate, AwaitPop, Take, poolUnchanged, execUnchanged, shape
    <3>2. q \in Seq(For(index[h])) /\ index[h] \in Indices
      BY <1>0, <3>1, Zenon DEF BInv, QueuesBound
    <3>3. Head(q) \in For(index[h])
      BY <2>2, <3>2, TakenFrom, Zenon
    <3> QED  BY <1>2, <2>2, <3>1, <3>2, <3>3, ZenonT(40)
  <2> QED  BY <2>1, <2>2, Zenon
<1>5. CASE GetLocal(h)
  <2> DEFINE q == deques_[index[h]]
  <2>1. CASE q = <<>>
    <3>1. UNCHANGED <<queues, index, submitted, bound, ranOn, caller>>
      BY <1>5, <2>1, Zenon DEF GetLocal, GoTo, poolUnchanged, shape, queues
    <3> QED  BY <1>1, <3>1
  <2>2. CASE q # <<>>
    <3>1. /\ deques_' = [deques_ EXCEPT ![index[h]] = SubSeq(q, 1, Len(q) - 1)]
          /\ ranOn' = [ranOn EXCEPT ![q[Len(q)]] = h] /\ tpc[h] # "unborn"
          /\ UNCHANGED <<global_queue_, private_queues_, index, submitted, bound, caller>>
      BY <1>5, <2>2, Zenon DEF GetLocal, Take, poolUnchanged, shape
    <3>2. q \in Seq(Shared) /\ index[h] \in Indices
      BY <1>0, <3>1, Zenon DEF BInv, QueuesBound
    <3>3. q[Len(q)] \in Shared /\ SubSeq(q, 1, Len(q) - 1) \in Seq(Shared)
      BY <2>2, <3>2, TakenFrom, Zenon
    <3> QED  BY <1>3, <3>1, <3>2, <3>3, ZenonT(40)
  <2> QED  BY <2>1, <2>2, Zenon
<1>6. CASE GetGlobal(h)
  <2>1. CASE global_queue_ = <<>>
    <3>1. UNCHANGED <<queues, index, submitted, bound, ranOn, caller>>
      BY <1>6, <2>1, Zenon DEF GetGlobal, GoTo, poolUnchanged, shape, queues
    <3> QED  BY <1>1, <3>1
  <2>2. CASE global_queue_ # <<>>
    <3>1. /\ global_queue_' = Tail(global_queue_) /\ ranOn' = [ranOn EXCEPT ![Head(global_queue_)] = h]
          /\ UNCHANGED <<private_queues_, deques_, index, submitted, bound, caller>>
      BY <1>6, <2>2, Zenon DEF GetGlobal, Take, poolUnchanged, shape
    <3>2. Head(global_queue_) \in Shared /\ Tail(global_queue_) \in Seq(Shared)
      BY <2>2, TakenFrom, Zenon DEF BInv, QueuesBound
    <3>3. Shared' = Shared /\ \A i : For(i)' = For(i)
      BY <3>1, Zenon DEF Shared, For
    <3>4. QueuesBound'
      BY <3>1, <3>2, <3>3, Zenon DEF BInv, QueuesBound
    <3> QED  BY <3>1, <3>2, <3>4, TakeBInv, Zenon
  <2> QED  BY <2>1, <2>2, Zenon
<1>7. CASE StealFrom(h)
  <2>1. UNCHANGED <<global_queue_, private_queues_, index, submitted, bound, caller>>
    BY <1>7, Zenon DEF StealFrom, poolUnchanged, shape
  <2>2. PICK t \in Indices : t = (index[h] + 1 + scan[h]) % pool_size_
    <3>1. PInv /\ tpc[h] = "steal"
      BY <1>7, Zenon DEF BInv, StealFrom
    <3> QED  BY <1>0, <3>1, StealTarget, Zenon
  <2>3. CASE ~(scan[h] >= pool_size_) /\ t # index[h] /\ deques_[t] # <<>>
    <3>1. ranOn' = [ranOn EXCEPT ![Head(deques_[t])] = h] /\ deques_' = [deques_ EXCEPT ![t] = Tail(deques_[t])]
      BY <1>7, <2>2, <2>3, Zenon DEF StealFrom, Take
    <3>2. Head(deques_[t]) \in Shared /\ Tail(deques_[t]) \in Seq(Shared)
      BY <2>3, TakenFrom, Zenon DEF BInv, QueuesBound
    <3> QED  BY <1>3, <2>1, <3>1, <3>2, ZenonT(40)
  <2>4. CASE ~(~(scan[h] >= pool_size_) /\ t # index[h] /\ deques_[t] # <<>>)
    <3>1. UNCHANGED <<deques_, ranOn>>
      BY <1>7, <2>2, <2>4, Zenon DEF StealFrom, GoTo
    <3> QED  BY <1>1, <2>1, <3>1, Zenon DEF queues
  <2> QED  BY <2>3, <2>4, Zenon
<1>8. CASE CheckTerminated(h) \/ LockPool(h) \/ HasWork(h) \/ GoToSleep(h) \/ WakeUp(h) \/ SpuriousWakeUp(h)
  <2>1. UNCHANGED <<queues, index, submitted, bound, ranOn, caller>>
    BY <1>8, Zenon DEF CheckTerminated, LockPool, HasWork, GoToSleep, WakeUp, SpuriousWakeUp, GoTo, poolUnchanged, shape
  <2> QED  BY <1>1, <2>1
<1>9. CASE ExecuteTask(h) \/ RunNested(h) \/ PromiseSettled(h) \/ FinishTask(h)
  <2>1. UNCHANGED <<queues, index, submitted, bound, ranOn, caller>>
    BY <1>9, Zenon DEF ExecuteTask, RunNested, PromiseSettled, FinishTask, execUnchanged, shape, queues, history
  <2> QED  BY <1>1, <2>1
<1> QED  BY <1>4, <1>5, <1>6, <1>7, <1>8, <1>9, Zenon DEF GetTask, RunTask

LEMMA NextBInv == "Resize" \notin Calls /\ BInv /\ [Next]_vars => BInv'
<1> SUFFICES ASSUME "Resize" \notin Calls, BInv, [Next]_vars PROVE BInv'
  BY Zenon
<1>0. PInv'
  BY NextPInv, Zenon DEF BInv
<1>i. \A h \in Threads : index[h] = h - 1 /\ h \in Int /\ index[h] \in Int /\ index[h] + 1 = h
  BY DEF BInv, OwnIndex, Threads
<1>1. ASSUME NEW c \in Callers, NEW k \in Tasks, Submit(c, k) PROVE BInv'
  BY <1>0, <1>1, SubmitBInv, SMTT(40) DEF Submit
<1>2. ASSUME NEW c \in Callers, NEW k \in Tasks, SubmitFromWorker(c, k) PROVE BInv'
  BY <1>0, <1>2, <1>i, SubmitBInv, Zenon DEF SubmitFromWorker
<1>3. ASSUME NEW c \in Callers, NEW k \in Tasks, NEW h \in Threads, SubmitToWorker(c, k, h)
      PROVE  BInv'
  BY <1>0, <1>3, <1>i, SubmitBInv, Zenon DEF SubmitToWorker
<1>4. ASSUME NEW c \in Callers, CallerStep(c) \/ Terminate(c) PROVE BInv'
  BY <1>0, <1>4, CallerBInv, Zenon
<1>5. ASSUME NEW c \in Callers, NEW n \in 1..MaxPool PROVE ~Resize(c, n)
  BY Zenon DEF Resize
<1>6. ASSUME NEW h \in Threads, GetTask(h) \/ RunTask(h) \/ SpuriousWakeUp(h) \/ PromiseSettled(h)
      PROVE  BInv'
  BY <1>0, <1>6, WorkerBInv, Zenon
<1>7. CASE UNCHANGED vars
  <2>1. UNCHANGED <<queues, index, submitted, bound, ranOn, cpc, ctask, cdest>>
    BY <1>7, Zenon DEF vars, shape, caller, history
  <2> QED  BY <1>0, <2>1, SameQueues, QuietBInv, Zenon
<1> QED  BY <1>1, <1>2, <1>3, <1>4, <1>5, <1>6, <1>7, Zenon DEF Next

(* As long as nobody calls Resize, whatever the numbers of workers, callers *)
(* and tasks, a task submitted to a worker runs on the thread it was        *)
(* created for, the one whose isolate holds its promise resolver.           *)
THEOREM PrivateTasksStay == "Resize" \notin Calls /\ Spec => []BoundToThread
<1>1. Init => BInv
  BY InitBInv
<1>2. "Resize" \notin Calls /\ BInv /\ [Next]_vars => BInv'
  BY NextBInv, Zenon
<1>3. BInv => BoundToThread
  BY DEF BInv
<1>4. ASSUME "Resize" \notin Calls PROVE Spec => []BoundToThread
  BY <1>1, <1>2, <1>3, <1>4, PTL DEF Spec
<1> QED  BY <1>4, Zenon
------------------------------------------------------------------------------
(* One thread outside the pool makes all the calls of Resize.  A thread     *)
(* that runs is then either the one threads_ holds at its index, or it is   *)
(* being joined by the Resize that gave it up.                              *)
OneClient == \A c, d \in Clients : c = d

Alive(h) == tpc[h] \notin {"unborn", "exited"}
Leaving(h) == \E c \in Clients : cpc[c] = "join" /\ h \in joining[c]
Placed(h) == index[h] \in 0..(pool_size_ - 1) /\ threads_[index[h] + 1] = h
AllPlaced == ~terminated_ => \A h \in Threads : Alive(h) => Leaving(h) \/ Placed(h)

OwnInv == PInv /\ SingleOwner /\ AllPlaced

LEMMA OwnersApart ==
    SingleOwner <=> \A g, h \in Threads : g # h /\ Alive(g) /\ Alive(h) => index[g] # index[h]
  BY Zenon DEF SingleOwner, Alive

(* The steps that start no thread and end no join.                          *)
LEMMA QuietOwn ==
    ASSUME OwnInv, UNCHANGED <<index, threads_, pool_size_, terminated_>>,
           \A h \in Threads : Alive(h)' => Alive(h),
           \A d \in Clients : cpc[d] = "join" => cpc'[d] = "join" /\ joining'[d] = joining[d]
    PROVE  SingleOwner' /\ AllPlaced'
<1>1. \A g, h \in Threads : g # h /\ Alive(g) /\ Alive(h) => index[g] # index[h]
  BY OwnersApart, Zenon DEF OwnInv
<1>2. \A g, h \in Threads : g # h /\ Alive(g)' /\ Alive(h)' => index'[g] # index'[h]
  BY <1>1, Zenon
<1>3. SingleOwner'
  BY <1>2, Zenon DEF SingleOwner, Alive
<1>4. \A h \in Threads : (Leaving(h) => Leaving(h)') /\ (Placed(h) => Placed(h)')
  BY Zenon DEF Leaving, Placed
<1>5. AllPlaced'
  BY <1>4, Zenon DEF OwnInv, AllPlaced
<1> QED  BY <1>3, <1>5, Zenon

(* The steps of a worker thread.                                            *)
LEMMA WorkerOwn ==
    ASSUME OwnInv, NEW h \in Threads,
           GetTask(h) \/ RunTask(h) \/ SpuriousWakeUp(h) \/ PromiseSettled(h)
    PROVE  SingleOwner' /\ AllPlaced'
<1>1. UNCHANGED <<index, threads_, pool_size_, terminated_, cpc, joining>>
  <2>1. CASE GetTask(h)
    BY <2>1, Zenon DEF GetTask, CheckTerminated, GetPrivate, GetLocal, GetGlobal, StealFrom, LockPool,
                  HasWork, GoToSleep, WakeUp, poolUnchanged, shape, caller
  <2>2. CASE RunTask(h) \/ PromiseSettled(h)
    BY <2>2, Zenon DEF RunTask, ExecuteTask, AwaitPop, RunNested, FinishTask, PromiseSettled,
                  execUnchanged, shape, caller
  <2>3. CASE SpuriousWakeUp(h)
    BY <2>3, Zenon DEF SpuriousWakeUp, caller
  <2> QED  BY <2>1, <2>2, <2>3, ZenonT(40)
<1>2. Alive(h) /\ \E b : tpc' = [tpc EXCEPT ![h] = b]
  <2>1. CASE CheckTerminated(h) \/ GetPrivate(h) \/ GetLocal(h) \/ GetGlobal(h) \/ StealFrom(h)
    BY <2>1, Zenon DEF CheckTerminated, GetPrivate, GetLocal, GetGlobal, StealFrom, GoTo, Take, Alive
  <2>2. CASE LockPool(h) \/ HasWork(h) \/ GoToSleep(h) \/ WakeUp(h)
    BY <2>2, Zenon DEF LockPool, HasWork, GoToSleep, WakeUp, GoTo, Alive
  <2>3. CASE RunTask(h) \/ PromiseSettled(h)
    BY <2>3, Zenon DEF RunTask, ExecuteTask, AwaitPop, RunNested, FinishTask, PromiseSettled, Alive
  <2>4. CASE SpuriousWakeUp(h)
    BY <2>4, Zenon DEF SpuriousWakeUp, GoTo, Alive, OwnInv, PInv, SInv
  <2> QED  BY <2>1, <2>2, <2>3, <2>4, ZenonT(40) DEF GetTask
<1>3. \A g \in Threads : Alive(g)' => Alive(g)
  BY <1>2 DEF Alive, OwnInv, PInv, SInv
<1> QED  BY <1>1, <1>3, QuietOwn, Zenon

(* The calls that are not Resize.                                           *)
LEMMA CallOwn ==
    ASSUME OwnInv, NEW c \in Callers,
           \/ \E k \in Tasks : Submit(c, k) \/ SubmitFromWorker(c, k)
           \/ \E k \in Tasks, h \in Threads : SubmitToWorker(c, k, h)
           \/ CallerStep(c) \/ Terminate(c)
    PROVE  SingleOwner' /\ AllPlaced'
<1>t. DOMAIN cpc = Callers /\ DOMAIN joining = Callers /\ Clients \subseteq Callers
  BY Zenon DEF OwnInv, PInv, CallerType, Callers
<1>1. CASE \E k \in Tasks, op \in CallNames : \E d : BeginCall(c, k, op, d)
  <2>1. /\ UNCHANGED <<shape, worker, joining>>
        /\ cpc[c] = "none" /\ \E op : cpc' = [cpc EXCEPT ![c] = op]
    BY <1>1, Zenon DEF BeginCall, CanCall
  <2>2. \A d \in Clients : cpc[d] = "join" => cpc'[d] = "join"
    BY <1>t, <2>1, Zenon
  <2>3. UNCHANGED <<index, threads_, pool_size_, terminated_, tpc, joining>>
    BY <2>1, Zenon DEF shape, worker
  <2> QED  BY <2>2, <2>3, QuietOwn, Zenon DEF Alive
<1>2. CASE PushTask(c) \/ CheckSleepers(c) \/ Drain(c)
  <2>1. /\ UNCHANGED <<shape, worker, joining>>
        /\ cpc[c] # "join" /\ \E op : cpc' = [cpc EXCEPT ![c] = op]
    BY <1>2, Zenon DEF PushTask, CheckSleepers, Drain, EndCall
  <2>2. \A d \in Clients : cpc[d] = "join" => cpc'[d] = "join"
    BY <1>t, <2>1, Zenon
  <2>3. UNCHANGED <<index, threads_, pool_size_, terminated_, tpc, joining>>
    BY <2>1, Zenon DEF shape, worker
  <2> QED  BY <2>2, <2>3, QuietOwn, Zenon DEF Alive
<1>3. CASE Notify(c) \/ TerminateNotify(c)
  <2>1. /\ UNCHANGED <<shape, joining>>
        /\ cpc[c] # "join" /\ \E op : cpc' = [cpc EXCEPT ![c] = op]
    BY <1>3, Zenon DEF Notify, TerminateNotify, EndCall
  <2>2. \A d \in Clients : cpc[d] = "join" => cpc'[d] = "join"
    BY <1>t, <2>1, Zenon
  <2>3. NotifyAll \/ UNCHANGED tpc \/ \E h \in waiting : tpc' = [tpc EXCEPT ![h] = "woken"]
    BY <1>3, Zenon DEF Notify, TerminateNotify
  <2>4. \A h \in Threads : Alive(h)' => Alive(h)
    BY <2>3, Zenon DEF Alive, NotifyAll, OwnInv, PInv, SInv
  <2>5. UNCHANGED <<index, threads_, pool_size_, terminated_, joining>>
    BY <2>1, Zenon DEF shape
  <2> QED  BY <2>2, <2>4, <2>5, QuietOwn, Zenon
<1>4. CASE Terminate(c) \/ JoinAll(c)
  <2>1. ASSUME Terminate(c) PROVE terminated_'
    BY <2>1 DEF Terminate
  <2>2. ASSUME JoinAll(c) PROVE terminated_'
    <3>1. terminated_ /\ terminated_' = terminated_
      BY <2>2, Zenon DEF JoinAll, OwnInv, PInv, CallInv
    <3> QED  BY <3>1
  <2>3. UNCHANGED <<index, tpc>>
    BY <1>4, Zenon DEF Terminate, JoinAll, worker
  <2>4. terminated_'
    BY <1>4, <2>1, <2>2
  <2> QED  BY <2>3, <2>4, Zenon DEF SingleOwner, AllPlaced, OwnInv
<1>5. CASE JoinExcess(c)
  <2>1. /\ UNCHANGED <<shape, worker>> /\ \A h \in joining[c] : tpc[h] = "exited"
        /\ cpc' = [cpc EXCEPT ![c] = "none"] /\ joining' = [joining EXCEPT ![c] = {}]
    BY <1>5, Zenon DEF JoinExcess
  <2>2. UNCHANGED <<index, threads_, pool_size_, terminated_, tpc>>
    BY <2>1, Zenon DEF shape, worker
  <2>3. \A h \in Threads : Alive(h) /\ Leaving(h) => Leaving(h)'
    BY <1>t, <2>1 DEF Alive, Leaving
  <2>4. \A h \in Threads : (Alive(h)' <=> Alive(h)) /\ (Placed(h)' <=> Placed(h))
    BY <2>2, Zenon DEF Alive, Placed
  <2>5. AllPlaced'
    BY <2>2, <2>3, <2>4, Zenon DEF OwnInv, AllPlaced
  <2> QED  BY <2>2, <2>5, Zenon DEF OwnInv, SingleOwner
<1> QED  BY <1>1, <1>2, <1>3, <1>4, <1>5, Zenon
         DEF Submit, SubmitFromWorker, SubmitToWorker, CallerStep, CallNames

(* A Resize begins when no other is under way, so every running thread has  *)
(* its place, below the old pool_size_; each new thread gets an index that  *)
(* is not below it, and each thread given up is joined.                     *)
LEMMA ResizeOwn ==
    ASSUME OneClient, OwnInv, NEW c \in Callers, NEW n \in 1..MaxPool, Resize(c, n)
    PROVE  SingleOwner' /\ AllPlaced'
<1>0. /\ pool_size_' = n /\ n \in Nat /\ pool_size_ \in Nat /\ started \in Nat
      /\ ~terminated_ /\ c \in Clients /\ cpc[c] = "none"
  BY PoolAssumption DEF Resize, CanCall, OwnInv, PInv, SInv
<1>1. \A h \in Threads : Alive(h) => Placed(h)
  BY <1>0, Zenon DEF OneClient, OwnInv, AllPlaced, Leaving
<1>2. \A g, h \in Threads : g # h /\ Alive(g) /\ Alive(h) => index[g] # index[h]
  BY OwnersApart, Zenon DEF OwnInv
<1>3. \A h \in Threads : h \in Nat /\ (Alive(h) => h <= started)
  BY <1>0 DEF Alive, OwnInv, PInv, SInv, Threads
<1> DEFINE new == [i \in pool_size_..(n - 1) |-> started + 1 + i - pool_size_]
<1>4. CASE /\ n > pool_size_
           /\ threads_' = [k \in 1..n |-> IF k <= pool_size_ THEN threads_[k] ELSE new[k - 1]]
           /\ index' = [h \in Threads |-> IF \E i \in DOMAIN new : new[i] = h
                           THEN CHOOSE i \in DOMAIN new : new[i] = h ELSE index[h]]
           /\ tpc' = [h \in Threads |-> IF \E i \in DOMAIN new : new[i] = h THEN "loop" ELSE tpc[h]]
  <2>1. DOMAIN new = pool_size_..(n - 1) /\ \A i \in DOMAIN new : new[i] = started + 1 + i - pool_size_
    BY Zenon
  <2> HIDE DEF new
  <2>4. ASSUME NEW h \in Threads, \E i \in DOMAIN new : new[i] = h
        PROVE  /\ index'[h] \in pool_size_..(n - 1) /\ new[index'[h]] = h
               /\ threads_'[index'[h] + 1] = h
    <3>1. index'[h] = CHOOSE j \in DOMAIN new : new[j] = h
      BY <1>4, <2>4, Zenon
    <3>2. index'[h] \in DOMAIN new /\ new[index'[h]] = h
      BY <2>4, <3>1, Zenon
    <3>3. index'[h] \in pool_size_..(n - 1)
      BY <2>1, <3>2, Zenon
    <3>4. index'[h] + 1 \in 1..n /\ ~(index'[h] + 1 <= pool_size_) /\ (index'[h] + 1) - 1 = index'[h]
      BY <1>0, <3>3
    <3>5. threads_'[index'[h] + 1] = new[(index'[h] + 1) - 1]
      BY <1>4, <3>4, Zenon
    <3> QED  BY <3>2, <3>3, <3>4, <3>5, Zenon
  <2>5. ASSUME NEW h \in Threads, Alive(h)', ~\E i \in DOMAIN new : new[i] = h
        PROVE  Alive(h) /\ index'[h] = index[h] /\ index[h] \in 0..(pool_size_ - 1)
               /\ threads_'[index[h] + 1] = h
    <3>1. tpc'[h] = tpc[h] /\ index'[h] = index[h]
      BY <1>4, <2>5, Zenon
    <3>2. Alive(h)
      BY <2>5, <3>1, Zenon DEF Alive
    <3>3. index[h] \in 0..(pool_size_ - 1) /\ threads_[index[h] + 1] = h
      BY <1>1, <3>2, Zenon DEF Placed
    <3>4. index[h] + 1 \in 1..n /\ index[h] + 1 <= pool_size_
      BY <1>0, <1>4, <3>3
    <3>5. threads_'[index[h] + 1] = threads_[index[h] + 1]
      BY <1>4, <3>4, Zenon
    <3> QED  BY <3>1, <3>2, <3>3, <3>5, Zenon
  <2>6. ASSUME NEW g \in Threads, NEW h \in Threads, g # h, Alive(g)', Alive(h)' PROVE index'[g] # index'[h]
    <3>1. CASE (\E i \in DOMAIN new : new[i] = g) /\ (\E i \in DOMAIN new : new[i] = h)
      BY <2>4, <2>6, <3>1, Zenon
    <3>2. CASE (~\E i \in DOMAIN new : new[i] = g) /\ (~\E i \in DOMAIN new : new[i] = h)
      BY <1>2, <2>5, <2>6, <3>2, Zenon
    <3>3. \A i, j : i \in pool_size_..(n - 1) /\ j \in 0..(pool_size_ - 1) => i # j
      BY <1>0
    <3>4. CASE (\E i \in DOMAIN new : new[i] = g) /\ (~\E i \in DOMAIN new : new[i] = h)
      BY <2>4, <2>5, <2>6, <3>3, <3>4, Zenon
    <3>5. CASE (~\E i \in DOMAIN new : new[i] = g) /\ (\E i \in DOMAIN new : new[i] = h)
      BY <2>4, <2>5, <2>6, <3>3, <3>5, Zenon
    <3> QED  BY <3>1, <3>2, <3>4, <3>5, Zenon
  <2>7. SingleOwner'
    BY <2>6, Zenon DEF SingleOwner, Alive
  <2>8. \A i : (i \in pool_size_..(n - 1) \/ i \in 0..(pool_size_ - 1)) => i \in 0..(pool_size_' - 1)
    BY <1>0, <1>4
  <2>9. ASSUME NEW h \in Threads, Alive(h)' PROVE Placed(h)'
    <3>1. CASE \E i \in DOMAIN new : new[i] = h
      BY <2>4, <2>8, <3>1, Zenon DEF Placed
    <3>2. CASE ~\E i \in DOMAIN new : new[i] = h
      <4>1. index'[h] \in 0..(pool_size_ - 1) /\ threads_'[index'[h] + 1] = h
        BY <2>5, <2>9, <3>2, Zenon
      <4> QED  BY <2>8, <4>1, Zenon DEF Placed
    <3> QED  BY <3>1, <3>2, Zenon
  <2> QED  BY <2>7, <2>9, Zenon DEF AllPlaced
<1>5. CASE /\ n < pool_size_
           /\ joining' = [joining EXCEPT ![c] = {threads_[k] : k \in (n + 1)..pool_size_}]
           /\ threads_' = SubSeq(threads_, 1, n)
           /\ NotifyAll
           /\ cpc' = [cpc EXCEPT ![c] = "join"]
           /\ UNCHANGED index
  <2>1. \A h \in Threads : Alive(h)' => Alive(h)
    BY <1>5, Zenon DEF Alive, NotifyAll, OwnInv, PInv, SInv
  <2>2. SingleOwner'
    BY <1>2, <1>5, <2>1, Zenon DEF SingleOwner, Alive
  <2>3. Len(threads_) = pool_size_ /\ threads_ \in Seq(Threads)
    BY <1>0, Zenon DEF OwnInv, PInv, ThreadsInv, ShapeType
  <2>4. \A k \in 1..n : threads_'[k] = threads_[k]
    BY <1>0, <1>5, <2>3
  <2>5. cpc'[c] = "join" /\ joining'[c] = {threads_[k] : k \in (n + 1)..pool_size_}
    BY <1>5, Zenon DEF OwnInv, PInv, CallerType
  <2>6. ASSUME NEW h \in Threads, Alive(h)' PROVE Leaving(h)' \/ Placed(h)'
    <3>1. index[h] \in 0..(pool_size_ - 1) /\ threads_[index[h] + 1] = h
      BY <1>1, <2>1, <2>6, Zenon DEF Placed
    <3>2. CASE index[h] < n
      <4>1. index[h] + 1 \in 1..n /\ index[h] \in 0..(pool_size_' - 1)
        BY <1>0, <3>1, <3>2
      <4> QED  BY <1>5, <2>4, <3>1, <4>1, Zenon DEF Placed
    <3>3. CASE ~(index[h] < n)
      <4>1. index[h] + 1 \in (n + 1)..pool_size_
        BY <1>0, <3>1, <3>3
      <4> QED  BY <1>0, <2>5, <3>1, <4>1, Zenon DEF Leaving
    <3> QED  BY <3>2, <3>3, Zenon
  <2> QED  BY <2>2, <2>6, Zenon DEF AllPlaced
<1> QED  BY <1>4, <1>5, Zenon DEF Resize

LEMMA NextOwnInv == OneClient /\ OwnInv /\ [Next]_vars => OwnInv'
<1> SUFFICES ASSUME OneClient, OwnInv, [Next]_vars PROVE OwnInv'
  OBVIOUS
<1>1. PInv'
  BY NextPInv, Zenon DEF OwnInv
<1>2. ASSUME NEW c \in Callers,
             \/ \E k \in Tasks : Submit(c, k) \/ SubmitFromWorker(c, k)
             \/ \E k \in Tasks, h \in Threads : SubmitToWorker(c, k, h)
             \/ CallerStep(c) \/ Terminate(c)
      PROVE  SingleOwner' /\ AllPlaced'
  BY <1>2, CallOwn, Zenon
<1>3. ASSUME NEW c \in Callers, NEW n \in 1..MaxPool, Resize(c, n) PROVE SingleOwner' /\ AllPlaced'
  BY <1>3, ResizeOwn, Zenon
<1>4. ASSUME NEW h \in Threads, GetTask(h) \/ RunTask(h) \/ SpuriousWakeUp(h) \/ PromiseSettled(h)
      PROVE  SingleOwner' /\ AllPlaced'
  BY <1>4, WorkerOwn, Zenon
<1>5. CASE UNCHANGED vars
  <2>1. UNCHANGED <<index, threads_, pool_size_, terminated_, tpc, cpc, joining>>
    BY <1>5, Zenon DEF vars, shape, worker, caller
  <2>2. \A h \in Threads : Alive(h)' => Alive(h)
    BY <2>1, Zenon DEF Alive
  <2> QED  BY <2>1, <2>2, QuietOwn, <1>1, Zenon DEF OwnInv
<1> QED  BY <1>1, <1>2, <1>3, <1>4, <1>5, Zenon DEF Next, OwnInv

(* While one thread outside the pool makes the calls of Resize, one after   *)
(* the other, no two running threads ever share a worker_index_, for any    *)
(* number of workers and any sequence of sizes: PushBottom and PopBottom of *)
(* a deque have a single owner because Resize joins the threads it gave up  *)
(* before it returns.                                                       *)
THEOREM DequesHaveOneOwner == OneClient /\ Spec => []SingleOwner
<1>1. Init => OwnInv
  <2> SUFFICES ASSUME Init PROVE OwnInv
    OBVIOUS
  <2>1. \A h \in Threads : h \in Nat /\ h >= 1
    BY PoolAssumption DEF Threads
  <2>2. index = [h \in Threads |-> h - 1] /\ threads_ = [k \in 1..InitialPool |-> k]
        /\ tpc = [h \in Threads |-> IF h <= InitialPool THEN "loop" ELSE "unborn"]
        /\ pool_size_ = InitialPool /\ InitialPool \in Nat
    BY PoolAssumption DEF Init
  <2>3. SingleOwner
    BY <2>1, <2>2 DEF SingleOwner
  <2>4. \A h \in Threads : Alive(h) => h <= InitialPool
    BY <2>2, Zenon DEF Alive
  <2>5. ASSUME NEW h \in Threads, h <= InitialPool PROVE Placed(h)
    BY <2>1, <2>2, <2>5 DEF Placed
  <2> QED  BY <2>3, <2>4, <2>5, InitPInv, Zenon DEF OwnInv, AllPlaced
<1>2. OneClient /\ OwnInv /\ [Next]_vars => OwnInv'
  BY NextOwnInv
<1>3. OwnInv => SingleOwner
  BY DEF OwnInv
<1>4. ASSUME OneClient PROVE Spec => []SingleOwner
  BY <1>1, <1>2, <1>3, <1>4, PTL DEF Spec
<1> QED  BY <1>4
==============================================================================
