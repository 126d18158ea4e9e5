----------------------------- MODULE ThreadPool -----------------------------
(* The pool of src/threading/thread-pool.{h,cc}: its queues, the sleep and  *)
(* wake-up protocol on work_cv_, the loop of a worker thread, Resize, and   *)
(* the teardown.  Every access to an atomic and every critical section is a *)
(* step; the deques are the atomic ones that WorkStealingDeque implements.  *)
(* A task is an opaque value that some caller submits once.                 *)
EXTENDS Integers, Sequences, FiniteSets

CONSTANTS
    Tasks,        \* the ThreadTask objects
    AsyncTasks,   \* those whose function returns a pending promise
    Clients,      \* threads outside the pool that call it
    MaxThreads,   \* bound on the WorkerThreads ever created
    InitialPool,  \* pool_size of the constructor
    MaxPool,      \* bound on the argument of Resize, 128 in the code
    Calls,        \* the operations of the pool that callers use
    MaxSpurious,  \* bound on the wake-ups of work_cv_ that nobody notified
    None

Threads == 1..MaxThreads
Indices == 0..(MaxPool - 1)
Callers == Clients \cup Threads
CallNames == {"Submit", "SubmitFromWorker", "SubmitToWorker", "Resize", "Terminate"}

ASSUME PoolAssumption ==
    /\ InitialPool \in 1..MaxPool /\ MaxPool \in Nat
    /\ MaxThreads \in Nat /\ InitialPool <= MaxThreads
    /\ AsyncTasks \subseteq Tasks /\ Calls \subseteq CallNames /\ MaxSpurious \in Nat
    /\ None \notin Tasks \cup Callers /\ Clients \cap Threads = {}

VARIABLES
    global_queue_, private_queues_, deques_,
    pool_mutex_,        \* the holder, or None
    waiting,            \* the threads blocked in work_cv_.Wait
    sleeping_workers_, active_tasks_, terminated_, pool_size_,
    threads_,           \* threads_[i + 1] is the WorkerThread of index i
    started,            \* WorkerThreads created so far: 1..started
    index,              \* worker_index_ of each WorkerThread
    tpc, cur, scan,     \* worker: where it is, its task, its position in the steal loop
    nested,             \* worker: the task it runs while it awaits the promise of cur
    cpc, ctask, cdest,  \* caller: where it is in a call, the task, the target index
    joining,            \* caller in Resize: the threads it joins
    spurious,           \* spurious wake-ups so far
    submitted, bound,   \* history: tasks submitted; the thread a private task is for
    settled, ranOn      \* history: completions of each task; the thread it ran on

queues == <<global_queue_, private_queues_, deques_>>
shape == <<terminated_, pool_size_, threads_, started, index, spurious>>
worker == <<tpc, cur, scan, nested>>
caller == <<cpc, ctask, cdest, joining>>
history == <<submitted, bound, settled, ranOn>>
vars == <<queues, pool_mutex_, waiting, sleeping_workers_, active_tasks_, shape, worker, caller,
          history>>

Init ==
    /\ global_queue_ = <<>>
    /\ private_queues_ = [i \in Indices |-> <<>>] /\ deques_ = [i \in Indices |-> <<>>]
    /\ pool_mutex_ = None /\ waiting = {} /\ sleeping_workers_ = 0 /\ active_tasks_ = 0
    /\ terminated_ = FALSE /\ pool_size_ = InitialPool
    /\ threads_ = [k \in 1..InitialPool |-> k] /\ started = InitialPool
    /\ index = [h \in Threads |-> h - 1]
    /\ tpc = [h \in Threads |-> IF h <= InitialPool THEN "loop" ELSE "unborn"]
    /\ cur = [h \in Threads |-> None] /\ nested = [h \in Threads |-> None]
    /\ scan = [h \in Threads |-> 0]
    /\ cpc = [c \in Callers |-> "none"] /\ ctask = [c \in Callers |-> None]
    /\ cdest = [c \in Callers |-> -1] /\ joining = [c \in Callers |-> {}] /\ spurious = 0
    /\ submitted = {} /\ bound = [k \in Tasks |-> None]
    /\ settled = [k \in Tasks |-> 0] /\ ranOn = [k \in Tasks |-> None]

------------------------------------------------------------------------------
(* Callers: any client until the teardown, and any worker while its task    *)
(* runs JavaScript.                                                         *)
CanCall(c) ==
    /\ cpc[c] = "none"
    /\ IF c \in Clients THEN ~terminated_ ELSE tpc[c] \in {"run", "await", "nested"}

NotifyAll ==
    /\ tpc' = [h \in Threads |-> IF h \in waiting THEN "woken" ELSE tpc[h]]
    /\ waiting' = {}

(* IncrementActiveTasks of Submit, SubmitFromWorker and SubmitToWorker.     *)
BeginCall(c, k, op, dest) ==
    /\ op \in Calls /\ CanCall(c) /\ k \notin submitted
    /\ active_tasks_' = active_tasks_ + 1
    /\ submitted' = submitted \cup {k}
    /\ cpc' = [cpc EXCEPT ![c] = op]
    /\ ctask' = [ctask EXCEPT ![c] = k]
    /\ cdest' = [cdest EXCEPT ![c] = dest]
    /\ UNCHANGED <<queues, pool_mutex_, waiting, sleeping_workers_, shape, worker, joining,
                   settled, ranOn>>

Submit(c, k) == BeginCall(c, k, "Submit", -1) /\ UNCHANGED bound

SubmitFromWorker(c, k) ==
    c \in Threads /\ BeginCall(c, k, "SubmitFromWorker", index[c]) /\ UNCHANGED bound

(* Mutant: the task goes to the queue of the next worker.                   *)
SubmitToNextWorker(c, k, h) ==
    /\ \E j \in Tasks : ranOn[j] = h
    /\ BeginCall(c, k, "SubmitToWorker", (index[h] + 1) % pool_size_)
    /\ bound' = [bound EXCEPT ![k] = h]

(* A promise resolver created on worker thread h (isolate and               *)
(* g_worker_index) is settled by a task for the private queue of its index. *)
SubmitToWorker(c, k, h) ==
    /\ \E j \in Tasks : ranOn[j] = h
    /\ BeginCall(c, k, "SubmitToWorker", index[h])
    /\ bound' = [bound EXCEPT ![k] = h]

(* The push into the queue, under the mutex of that queue.                  *)
PushTask(c) ==
    /\ cpc[c] \in {"Submit", "SubmitFromWorker", "SubmitToWorker"}
    /\ LET k == ctask[c]  i == cdest[c] IN
         \/ /\ cpc[c] = "Submit"
            /\ global_queue_' = Append(global_queue_, k)
            /\ UNCHANGED <<private_queues_, deques_>>
         \/ /\ cpc[c] = "SubmitToWorker"
            /\ private_queues_' = [private_queues_ EXCEPT ![i] = Append(@, k)]
            /\ UNCHANGED <<global_queue_, deques_>>
         \/ /\ cpc[c] = "SubmitFromWorker"
            /\ deques_' = [deques_ EXCEPT ![i] = Append(@, k)]
            /\ UNCHANGED <<global_queue_, private_queues_>>
    /\ cpc' = [cpc EXCEPT ![c] = IF @ = "SubmitFromWorker" THEN "checkOne" ELSE "checkAll"]
    /\ UNCHANGED <<pool_mutex_, waiting, sleeping_workers_, active_tasks_, shape, worker, ctask,
                   cdest, joining, history>>

EndCall(c) ==
    /\ cpc' = [cpc EXCEPT ![c] = "none"]
    /\ ctask' = [ctask EXCEPT ![c] = None]
    /\ cdest' = [cdest EXCEPT ![c] = -1]

(* if (sleeping_workers_.load() > 0), outside every mutex.                  *)
CheckSleepers(c) ==
    /\ cpc[c] \in {"checkAll", "checkOne"}
    /\ IF sleeping_workers_ > 0
         THEN /\ cpc' = [cpc EXCEPT ![c] = IF @ = "checkAll" THEN "notifyAll" ELSE "notifyOne"]
              /\ UNCHANGED <<ctask, cdest>>
         ELSE EndCall(c)
    /\ UNCHANGED <<queues, pool_mutex_, waiting, sleeping_workers_, active_tasks_, shape, worker,
                   joining, history>>

(* Mutant: every submission wakes one worker only.                          *)
NotifyOneOnly(c) ==
    /\ pool_mutex_ = None /\ cpc[c] \in {"notifyAll", "notifyOne"}
    /\ IF waiting = {} THEN UNCHANGED <<tpc, waiting>>
       ELSE \E h \in waiting : /\ tpc' = [tpc EXCEPT ![h] = "woken"]
                               /\ waiting' = waiting \ {h}
    /\ EndCall(c)
    /\ UNCHANGED <<queues, pool_mutex_, sleeping_workers_, active_tasks_, shape, cur, scan, nested,
                   joining, history>>

Notify(c) ==
    /\ pool_mutex_ = None
    /\ \/ cpc[c] = "notifyAll" /\ NotifyAll
       \/ /\ cpc[c] = "notifyOne"
          /\ IF waiting = {} THEN UNCHANGED <<tpc, waiting>>
             ELSE \E h \in waiting : /\ tpc' = [tpc EXCEPT ![h] = "woken"]
                                     /\ waiting' = waiting \ {h}
    /\ EndCall(c)
    /\ UNCHANGED <<queues, pool_mutex_, sleeping_workers_, active_tasks_, shape, cur, scan, nested,
                   joining, history>>

------------------------------------------------------------------------------
(* GetTask, run by worker thread h.                                         *)
Take(h, k) ==
    /\ tpc' = [tpc EXCEPT ![h] = "run"]
    /\ cur' = [cur EXCEPT ![h] = k]
    /\ ranOn' = [ranOn EXCEPT ![k] = h]

GoTo(h, label) == tpc' = [tpc EXCEPT ![h] = label] /\ UNCHANGED <<cur, ranOn>>

poolUnchanged == <<pool_mutex_, waiting, sleeping_workers_, active_tasks_, shape, nested, caller,
                   submitted, bound, settled>>

CheckTerminated(h) ==
    /\ tpc[h] = "loop"
    /\ GoTo(h, IF terminated_ THEN "exited" ELSE "private")
    /\ UNCHANGED <<poolUnchanged, queues, scan>>

GetPrivate(h) ==
    /\ tpc[h] = "private"
    /\ LET q == private_queues_[index[h]] IN
         IF q # <<>>
           THEN Take(h, Head(q)) /\ private_queues_' = [private_queues_ EXCEPT ![index[h]] = Tail(q)]
           ELSE GoTo(h, "deque") /\ UNCHANGED private_queues_
    /\ UNCHANGED <<poolUnchanged, global_queue_, deques_, scan>>

GetLocal(h) ==
    /\ tpc[h] = "deque"
    /\ LET q == deques_[index[h]] IN
         IF q # <<>>
           THEN /\ Take(h, q[Len(q)])
                /\ deques_' = [deques_ EXCEPT ![index[h]] = SubSeq(q, 1, Len(q) - 1)]
           ELSE GoTo(h, "global") /\ UNCHANGED deques_
    /\ UNCHANGED <<poolUnchanged, global_queue_, private_queues_, scan>>

(* Mutant: the task stays in the global queue.                              *)
GetGlobalPeek(h) ==
    /\ tpc[h] = "global"
    /\ IF global_queue_ # <<>> THEN Take(h, Head(global_queue_)) ELSE GoTo(h, "steal")
    /\ scan' = [scan EXCEPT ![h] = 0]
    /\ UNCHANGED <<poolUnchanged, queues>>

GetGlobal(h) ==
    /\ tpc[h] = "global"
    /\ IF global_queue_ # <<>>
         THEN Take(h, Head(global_queue_)) /\ global_queue_' = Tail(global_queue_)
         ELSE GoTo(h, "steal") /\ UNCHANGED global_queue_
    /\ scan' = [scan EXCEPT ![h] = 0]
    /\ UNCHANGED <<poolUnchanged, private_queues_, deques_>>

(* One round of the loop over the other deques.                             *)
StealFrom(h) ==
    /\ tpc[h] = "steal"
    /\ LET target == (index[h] + 1 + scan[h]) % pool_size_  q == deques_[target] IN
         IF scan[h] >= pool_size_
           THEN GoTo(h, "lock") /\ UNCHANGED <<deques_, scan>>
         ELSE IF target # index[h] /\ q # <<>>
           THEN Take(h, Head(q)) /\ deques_' = [deques_ EXCEPT ![target] = Tail(q)] /\ UNCHANGED scan
           ELSE /\ GoTo(h, "steal") /\ UNCHANGED deques_
                /\ scan' = [scan EXCEPT ![h] = @ + 1]
    /\ UNCHANGED <<poolUnchanged, global_queue_, private_queues_>>

(* Mutants: terminated_ or the index is not checked before the wait.        *)
LockIgnoresTerminated(h) ==
    /\ tpc[h] = "lock" /\ pool_mutex_ = None
    /\ IF index[h] >= pool_size_
         THEN GoTo(h, "exited") /\ UNCHANGED pool_mutex_
         ELSE GoTo(h, "workPrivate") /\ pool_mutex_' = h
    /\ UNCHANGED <<queues, waiting, sleeping_workers_, active_tasks_, shape, scan, nested, caller,
                   submitted, bound, settled>>

LockIgnoresIndex(h) ==
    /\ tpc[h] = "lock" /\ pool_mutex_ = None
    /\ IF terminated_
         THEN GoTo(h, "exited") /\ UNCHANGED pool_mutex_
         ELSE GoTo(h, "workPrivate") /\ pool_mutex_' = h
    /\ UNCHANGED <<queues, waiting, sleeping_workers_, active_tasks_, shape, scan, nested, caller,
                   submitted, bound, settled>>

(* The critical section on pool_mutex_: leave the pool, or find work, or    *)
(* go to sleep.  HasWork looks at the queues one after the other.           *)
LockPool(h) ==
    /\ tpc[h] = "lock" /\ pool_mutex_ = None
    /\ IF terminated_ \/ index[h] >= pool_size_
         THEN GoTo(h, "exited") /\ UNCHANGED pool_mutex_
         ELSE GoTo(h, "workPrivate") /\ pool_mutex_' = h
    /\ UNCHANGED <<queues, waiting, sleeping_workers_, active_tasks_, shape, scan, nested, caller,
                   submitted, bound, settled>>

(* Mutant: the global queue is not looked at.                               *)
HasLocalWork(h) ==
    LET Probe(label, found, next) ==
          /\ tpc[h] = label
          /\ GoTo(h, IF found THEN "loop" ELSE next)
          /\ pool_mutex_' = IF found THEN None ELSE h
    IN  /\ \/ Probe("workPrivate", private_queues_[index[h]] # <<>>, "workDeques")
           \/ Probe("workDeques", \E i \in 0..(pool_size_ - 1) : deques_[i] # <<>>, "sleep")
        /\ UNCHANGED <<queues, waiting, sleeping_workers_, active_tasks_, shape, scan, nested,
                       caller, submitted, bound, settled>>

HasWork(h) ==
    LET Probe(label, found, next) ==
          /\ tpc[h] = label
          /\ GoTo(h, IF found THEN "loop" ELSE next)
          /\ pool_mutex_' = IF found THEN None ELSE h
    IN  /\ \/ Probe("workPrivate", private_queues_[index[h]] # <<>>, "workGlobal")
           \/ Probe("workGlobal", global_queue_ # <<>>, "workDeques")
           \/ Probe("workDeques", \E i \in 0..(pool_size_ - 1) : deques_[i] # <<>>, "sleep")
        /\ UNCHANGED <<queues, waiting, sleeping_workers_, active_tasks_, shape, scan, nested,
                       caller, submitted, bound, settled>>

(* sleeping_workers_.fetch_add, then Wait, which releases pool_mutex_.      *)
GoToSleep(h) ==
    /\ \/ /\ tpc[h] = "sleep"
          /\ sleeping_workers_' = sleeping_workers_ + 1
          /\ GoTo(h, "wait") /\ UNCHANGED <<pool_mutex_, waiting>>
       \/ /\ tpc[h] = "wait"
          /\ waiting' = waiting \cup {h} /\ pool_mutex_' = None
          /\ GoTo(h, "waiting") /\ UNCHANGED sleeping_workers_
    /\ UNCHANGED <<queues, active_tasks_, shape, scan, nested, caller, submitted, bound, settled>>

SpuriousWakeUp(h) ==
    /\ h \in waiting /\ spurious < MaxSpurious /\ spurious' = spurious + 1
    /\ waiting' = waiting \ {h}
    /\ GoTo(h, "woken")
    /\ UNCHANGED <<queues, pool_mutex_, sleeping_workers_, active_tasks_, terminated_, pool_size_,
                   threads_, started, index, scan, nested, caller, submitted, bound, settled>>

(* Mutant: sleeping_workers_ is not decremented.                            *)
WakeUpUncounted(h) ==
    /\ tpc[h] = "woken" /\ pool_mutex_ = None
    /\ GoTo(h, "loop")
    /\ UNCHANGED <<queues, pool_mutex_, waiting, sleeping_workers_, active_tasks_, shape, scan,
                   nested, caller, submitted, bound, settled>>

WakeUp(h) ==
    /\ tpc[h] = "woken" /\ pool_mutex_ = None
    /\ sleeping_workers_' = sleeping_workers_ - 1
    /\ GoTo(h, "loop")
    /\ UNCHANGED <<queues, pool_mutex_, waiting, active_tasks_, shape, scan, nested, caller,
                   submitted, bound, settled>>

------------------------------------------------------------------------------
(* Run and ExecuteTask.  An internal task, the only kind that is submitted  *)
(* to a worker, runs to its end; any other task sets its result exactly     *)
(* once on every path, and its function may leave a pending promise behind. *)
Settle(k) == settled' = [settled EXCEPT ![k] = @ + 1]

execUnchanged == <<global_queue_, deques_, pool_mutex_, waiting, sleeping_workers_, shape, cur,
                   scan, caller, submitted, bound>>

ExecuteTask(h) ==
    /\ tpc[h] = "run" /\ cpc[h] = "none"
    /\ \/ Settle(cur[h]) /\ tpc' = [tpc EXCEPT ![h] = "finish"]
       \/ /\ cur[h] \in AsyncTasks /\ bound[cur[h]] = None
          /\ tpc' = [tpc EXCEPT ![h] = "await"] /\ UNCHANGED settled
    /\ UNCHANGED <<execUnchanged, private_queues_, active_tasks_, nested, ranOn>>

(* The loop on the pending promise runs tasks of the private queue only,    *)
(* and does not look at terminated_.                                        *)
AwaitPop(h) ==
    /\ tpc[h] = "await" /\ cpc[h] = "none"
    /\ LET q == private_queues_[index[h]] IN
         /\ q # <<>>
         /\ nested' = [nested EXCEPT ![h] = Head(q)]
         /\ ranOn' = [ranOn EXCEPT ![Head(q)] = h]
         /\ private_queues_' = [private_queues_ EXCEPT ![index[h]] = Tail(q)]
    /\ tpc' = [tpc EXCEPT ![h] = "nested"]
    /\ UNCHANGED <<execUnchanged, active_tasks_, settled>>

RunNested(h) ==
    /\ tpc[h] = "nested" /\ cpc[h] = "none"
    /\ Settle(nested[h])
    /\ active_tasks_' = active_tasks_ - 1
    /\ nested' = [nested EXCEPT ![h] = None]
    /\ tpc' = [tpc EXCEPT ![h] = "await"]
    /\ UNCHANGED <<execUnchanged, private_queues_, ranOn>>

PromiseSettled(h) ==
    /\ tpc[h] = "await" /\ cpc[h] = "none"
    /\ Settle(cur[h])
    /\ tpc' = [tpc EXCEPT ![h] = "finish"]
    /\ UNCHANGED <<execUnchanged, private_queues_, active_tasks_, nested, ranOn>>

(* Mutant: DecrementActiveTasks is forgotten.                               *)
FinishUncounted(h) ==
    /\ tpc[h] = "finish"
    /\ cur' = [cur EXCEPT ![h] = None]
    /\ tpc' = [tpc EXCEPT ![h] = "loop"]
    /\ UNCHANGED <<queues, pool_mutex_, waiting, sleeping_workers_, active_tasks_, shape, scan,
                   nested, caller, history>>

FinishTask(h) ==
    /\ tpc[h] = "finish"
    /\ active_tasks_' = active_tasks_ - 1
    /\ cur' = [cur EXCEPT ![h] = None]
    /\ tpc' = [tpc EXCEPT ![h] = "loop"]
    /\ UNCHANGED <<queues, pool_mutex_, waiting, sleeping_workers_, shape, scan, nested, caller,
                   history>>

------------------------------------------------------------------------------
(* Resize by a thread outside the pool.  Growing starts a thread for every  *)
(* new index, whose queues may still hold tasks; shrinking gives up the     *)
(* excess threads, wakes everybody and joins them outside the mutex.        *)
Resize(c, n) ==
    /\ "Resize" \in Calls /\ c \in Clients /\ CanCall(c) /\ pool_mutex_ = None
    /\ n # pool_size_
    /\ pool_size_' = n
    /\ LET new == [i \in pool_size_..(n - 1) |-> started + 1 + i - pool_size_] IN
         \/ /\ n > pool_size_ /\ started + n - pool_size_ <= MaxThreads
            /\ threads_' = [k \in 1..n |-> IF k <= pool_size_ THEN threads_[k] ELSE new[k - 1]]
            /\ index' = [h \in Threads |-> IF \E i \in DOMAIN new : new[i] = h
                           THEN CHOOSE i \in DOMAIN new : new[i] = h ELSE index[h]]
            /\ tpc' = [h \in Threads |-> IF \E i \in DOMAIN new : new[i] = h THEN "loop" ELSE tpc[h]]
            /\ started' = started + n - pool_size_
            /\ UNCHANGED <<waiting, cpc, joining>>
         \/ /\ n < pool_size_
            /\ joining' = [joining EXCEPT ![c] = {threads_[k] : k \in (n + 1)..pool_size_}]
            /\ threads_' = SubSeq(threads_, 1, n)
            /\ NotifyAll
            /\ cpc' = [cpc EXCEPT ![c] = "join"]
            /\ UNCHANGED <<index, started>>
    /\ UNCHANGED <<queues, pool_mutex_, sleeping_workers_, active_tasks_, terminated_, spurious, cur,
                   scan, nested, ctask, cdest, history>>

(* Mutant: Resize returns without joining the excess threads.               *)
DetachExcess(c) ==
    /\ cpc[c] = "join"
    /\ cpc' = [cpc EXCEPT ![c] = "none"]
    /\ joining' = [joining EXCEPT ![c] = {}]
    /\ UNCHANGED <<queues, pool_mutex_, waiting, sleeping_workers_, active_tasks_, shape, worker,
                   ctask, cdest, history>>

JoinExcess(c) ==
    /\ cpc[c] = "join" /\ \A h \in joining[c] : tpc[h] = "exited"
    /\ cpc' = [cpc EXCEPT ![c] = "none"]
    /\ joining' = [joining EXCEPT ![c] = {}]
    /\ UNCHANGED <<queues, pool_mutex_, waiting, sleeping_workers_, active_tasks_, shape, worker,
                   ctask, cdest, history>>

------------------------------------------------------------------------------
(* GlobalTearDown, from V8::Dispose, when no client is in a call: set       *)
(* terminated_, wake and join the workers, then give every task that is     *)
(* left in a queue of the current pool a dummy result.                      *)
Terminate(c) ==
    /\ "Terminate" \in Calls /\ c \in Clients /\ ~terminated_
    /\ \A d \in Clients : cpc[d] = "none"
    /\ terminated_' = TRUE
    /\ cpc' = [cpc EXCEPT ![c] = "terminate"]
    /\ UNCHANGED <<queues, pool_mutex_, waiting, sleeping_workers_, active_tasks_, pool_size_,
                   threads_, started, index, spurious, worker, ctask, cdest, joining, history>>

TerminateNotify(c) ==
    /\ cpc[c] = "terminate" /\ pool_mutex_ = None
    /\ NotifyAll
    /\ cpc' = [cpc EXCEPT ![c] = "joinAll"]
    /\ UNCHANGED <<queues, pool_mutex_, sleeping_workers_, active_tasks_, shape, cur, scan, nested,
                   ctask, cdest, joining, history>>

JoinAll(c) ==
    /\ cpc[c] = "joinAll" /\ \A k \in DOMAIN threads_ : tpc[threads_[k]] = "exited"
    /\ cpc' = [cpc EXCEPT ![c] = "drain"]
    /\ threads_' = <<>>
    /\ UNCHANGED <<queues, pool_mutex_, waiting, sleeping_workers_, active_tasks_, terminated_,
                   pool_size_, started, index, spurious, worker, ctask, cdest, joining, history>>

InQueue(q, k) == \E j \in DOMAIN q : q[j] = k

(* Mutant: the private queues are not drained.                              *)
DrainShared(c) ==
    /\ cpc[c] = "drain"
    /\ LET indices == 0..(pool_size_ - 1)
           Left(k) == InQueue(global_queue_, k) \/ \E i \in indices : InQueue(deques_[i], k)
       IN  /\ settled' = [k \in Tasks |-> IF Left(k) THEN settled[k] + 1 ELSE settled[k]]
           /\ global_queue_' = <<>>
           /\ deques_' = [i \in Indices |-> IF i \in indices THEN <<>> ELSE deques_[i]]
           /\ UNCHANGED private_queues_
    /\ cpc' = [cpc EXCEPT ![c] = "gone"]
    /\ UNCHANGED <<pool_mutex_, waiting, sleeping_workers_, active_tasks_, shape, worker, ctask,
                   cdest, joining, submitted, bound, ranOn>>

Drain(c) ==
    /\ cpc[c] = "drain"
    /\ LET indices == 0..(pool_size_ - 1)
           Left(k) == \/ InQueue(global_queue_, k)
                      \/ \E i \in indices : InQueue(deques_[i], k) \/ InQueue(private_queues_[i], k)
           Emptied(qs) == [i \in Indices |-> IF i \in indices THEN <<>> ELSE qs[i]]
       IN  /\ settled' = [k \in Tasks |-> IF Left(k) THEN settled[k] + 1 ELSE settled[k]]
           /\ global_queue_' = <<>>
           /\ deques_' = Emptied(deques_) /\ private_queues_' = Emptied(private_queues_)
    /\ cpc' = [cpc EXCEPT ![c] = "gone"]
    /\ UNCHANGED <<pool_mutex_, waiting, sleeping_workers_, active_tasks_, shape, worker, ctask,
                   cdest, joining, submitted, bound, ranOn>>

------------------------------------------------------------------------------
GetTask(h) ==
    \/ CheckTerminated(h) \/ GetPrivate(h) \/ GetLocal(h) \/ GetGlobal(h) \/ StealFrom(h)
    \/ LockPool(h) \/ HasWork(h) \/ GoToSleep(h) \/ WakeUp(h)

RunTask(h) == ExecuteTask(h) \/ AwaitPop(h) \/ RunNested(h) \/ FinishTask(h)

CallerStep(c) ==
    \/ PushTask(c) \/ CheckSleepers(c) \/ Notify(c) \/ JoinExcess(c)
    \/ TerminateNotify(c) \/ JoinAll(c) \/ Drain(c)

Next ==
    \/ \E c \in Callers, k \in Tasks :
         \/ Submit(c, k) \/ SubmitFromWorker(c, k)
         \/ \E h \in Threads : SubmitToWorker(c, k, h)
    \/ \E c \in Callers : CallerStep(c) \/ Terminate(c) \/ \E n \in 1..MaxPool : Resize(c, n)
    \/ \E h \in Threads : GetTask(h) \/ RunTask(h) \/ SpuriousWakeUp(h) \/ PromiseSettled(h)

Spec == Init /\ [][Next]_vars

(* A thread inside GetTask, a task or a call keeps running, and the promise *)
(* that a task awaits is settled some day; ThreadApi models who settles it, *)
(* and when nobody can.  Nobody has to make a call.                         *)
Fairness ==
    /\ \A h \in Threads : WF_vars(GetTask(h)) /\ WF_vars(RunTask(h) \/ PromiseSettled(h))
    /\ \A c \in Callers : WF_vars(CallerStep(c))

FairSpec == Spec /\ Fairness

------------------------------------------------------------------------------
(* Where a task can be: in a queue, in the hands of a worker, or of a       *)
(* caller that has counted and not yet pushed it.                           *)
Locations ==
    {<<"global", 0>>} \cup ({"private", "deque"} \X Indices)
      \cup ({"cur", "nested"} \X Threads) \cup ({"push"} \X Callers)

At(l, k) ==
    \/ l[1] = "global" /\ InQueue(global_queue_, k)
    \/ l[1] = "private" /\ InQueue(private_queues_[l[2]], k)
    \/ l[1] = "deque" /\ InQueue(deques_[l[2]], k)
    \/ l[1] = "cur" /\ cur[l[2]] = k
    \/ l[1] = "nested" /\ nested[l[2]] = k
    \/ /\ l[1] = "push" /\ ctask[l[2]] = k
       /\ cpc[l[2]] \in {"Submit", "SubmitFromWorker", "SubmitToWorker"}

Where(k) == {l \in Locations : At(l, k)}

Once(q) == \A i, j \in DOMAIN q : q[i] = q[j] => i = j

Gone == \E c \in Clients : cpc[c] = "gone"

CriticalLabels == {"workPrivate", "workGlobal", "workDeques", "sleep", "wait"}

(* Every variable has its type.                                             *)
TypeOK ==
    /\ global_queue_ \in Seq(Tasks)
    /\ private_queues_ \in [Indices -> Seq(Tasks)] /\ deques_ \in [Indices -> Seq(Tasks)]
    /\ pool_mutex_ \in Threads \cup {None} /\ waiting \subseteq Threads
    /\ sleeping_workers_ \in Int /\ active_tasks_ \in Int
    /\ terminated_ \in BOOLEAN /\ pool_size_ \in 1..MaxPool
    /\ threads_ \in Seq(Threads) /\ started \in 0..MaxThreads /\ index \in [Threads -> Int]
    /\ tpc \in [Threads -> CriticalLabels \cup
                  {"unborn", "loop", "private", "deque", "global", "steal", "lock", "waiting",
                   "woken", "run", "await", "nested", "finish", "exited"}]
    /\ cur \in [Threads -> Tasks \cup {None}] /\ nested \in [Threads -> Tasks \cup {None}]
    /\ scan \in [Threads -> 0..MaxPool]
    /\ cpc \in [Callers -> {"none", "Submit", "SubmitFromWorker", "SubmitToWorker", "checkAll",
                            "checkOne", "notifyAll", "notifyOne", "join", "terminate", "joinAll",
                            "drain", "gone"}]
    /\ ctask \in [Callers -> Tasks \cup {None}] /\ cdest \in [Callers -> -1..(MaxPool - 1)]
    /\ joining \in [Callers -> SUBSET Threads] /\ spurious \in 0..MaxSpurious
    /\ submitted \subseteq Tasks /\ bound \in [Tasks -> Threads \cup {None}]
    /\ settled \in [Tasks -> Nat] /\ ranOn \in [Tasks -> Threads \cup {None}]

(* A submitted task is in one place only, until it is completed, once:      *)
(* SetResult, which throws when called twice, is called at most once, and   *)
(* no task object is deleted while a queue or a worker still refers to it.  *)
TaskExactlyOnce ==
    /\ \A k \in Tasks :
         \/ k \notin submitted /\ settled[k] = 0 /\ Where(k) = {}
         \/ k \in submitted /\ settled[k] = 0 /\ \E l \in Locations : Where(k) = {l}
         \/ k \in submitted /\ settled[k] = 1 /\ Where(k) = {}
         \/ /\ k \in submitted /\ settled[k] = 1
            /\ \E h \in Threads : Where(k) = {<<"cur", h>>} /\ tpc[h] = "finish"
    /\ Once(global_queue_) /\ \A i \in Indices : Once(private_queues_[i]) /\ Once(deques_[i])

(* active_tasks_, which HasPendingBackgroundTasks reports, counts exactly   *)
(* the tasks that are being pushed, queued or in the hands of a worker.     *)
ActiveTasksExact == ~Gone => active_tasks_ = Cardinality({k \in Tasks : Where(k) # {}})

(* sleeping_workers_ counts exactly the threads inside the wait, pool_mutex_*)
(* is held only in the critical section, and only there.                    *)
SleepersExact ==
    /\ sleeping_workers_ = Cardinality({h \in Threads : tpc[h] \in {"wait", "waiting", "woken"}})
    /\ waiting = {h \in Threads : tpc[h] = "waiting"}
    /\ \A h \in Threads : tpc[h] \in CriticalLabels <=> pool_mutex_ = h

(* A task for a worker runs on the thread it was created for, whose isolate *)
(* holds its promise: DCHECK_EQ(isolate, receiver_isolate_) in RunInternal. *)
BoundToThread ==
    \A k \in Tasks : bound[k] # None /\ ranOn[k] # None => ranOn[k] = bound[k]

(* "Only owner thread may call this": no two running threads share an index,*)
(* hence a deque.                                                           *)
SingleOwner ==
    \A g, h \in Threads :
      /\ g # h
      /\ tpc[g] \notin {"unborn", "exited"} /\ tpc[h] \notin {"unborn", "exited"}
      => index[g] # index[h]

(* After the teardown every task that was ever submitted has been completed *)
(* or given a dummy result, so nobody waits for a future in vain.           *)
TearDownSettlesAll == Gone => \A k \in submitted : settled[k] = 1

(* A task whose submitter saw a sleeping worker is eventually executed.     *)
NotifiedTaskRuns ==
    \A c \in Callers, k \in Tasks :
      cpc[c] \in {"notifyAll", "notifyOne"} /\ ctask[c] = k ~> settled[k] = 1

(* A task submitted to a queue that every worker reads, by Submit or        *)
(* SubmitFromWorker, is eventually executed or given its dummy result.      *)
SubmittedTaskRuns ==
    \A k \in Tasks : k \in submitted /\ bound[k] = None ~> settled[k] = 1

(* The teardown ends: no worker sleeps through Terminate.                   *)
TearDownCompletes == terminated_ ~> Gone

(* A Resize that shrinks the pool returns: no excess thread sleeps on.      *)
ResizeReturns == \A c \in Clients : cpc[c] = "join" ~> cpc[c] = "none"
==============================================================================
