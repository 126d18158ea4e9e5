----------------------------- MODULE ThreadApi -----------------------------
(* What JavaScript sees of the pool: Thread.spawn, Thread.join and          *)
(* Thread.sleep (src/builtins/builtins-thread.cc), the parallel array       *)
(* methods (src/builtins/builtins-parallel-array.cc), the promise reactions *)
(* that run on the pool (src/execution/microtask-queue.cc), and the message *)
(* loop of d8 that waits for all of them (src/d8/d8.cc).  The pool has a    *)
(* fixed size, and submitting, taking and settling a task are single steps: *)
(* ThreadPool models how it queues, sleeps and wakes.                       *)
EXTENDS Integers, Sequences, FiniteSets

CONSTANTS
    Workers,    \* the threads of the pool
    Main,       \* the thread of d8, whose isolate has a foreground task runner
    Functions,  \* what the pool executes: spawned functions, chunks, reactions
    Reactions,  \* those that are promise reactions without closure
    Async,      \* those that return a pending promise when they await
    Batches,    \* what one promise stands for: {f}, or the chunks of one array
    Sleeps,     \* the calls of Thread.sleep
    Programs,   \* programs: the batches and sleeps that each script may start
    Failing,    \* the functions that throw
    None

Agents == Workers \cup {Main}
Scripts == Functions \cup {Main}
Promises == Batches \cup Sleeps

ASSUME ApiAssumption ==
    /\ Main \notin Workers \cup Functions /\ None \notin Agents \cup Scripts
    /\ Async \subseteq Functions /\ Reactions \subseteq Functions
    /\ Batches \subseteq SUBSET Functions /\ {} \notin Batches
    /\ \A B, C \in Batches : B # C => B \cap C = {}
    /\ Batches \cap Sleeps = {} /\ \A f \in Functions : {f} \notin Sleeps
    /\ Programs \subseteq [Scripts -> SUBSET Promises] /\ Failing \subseteq Functions

VARIABLES
    queue,       \* global_queue_
    private,     \* private_queues_: the resolve tasks of each worker
    foreground,  \* the foreground task runner of Main
    active,      \* active_tasks_
    wpc, wtask,  \* worker: what it does, and the task it holds
    mpc,         \* Main: running script, or its place in the message loop
    wait_for_background_tasks, program,  \* the option of d8, the program it runs
    disposing,   \* g_is_disposing and terminated_
    array, left, \* agent: the array method it is in, the chunks it has yet to submit
    creator,     \* the script that holds the handle or the promise
    promise,     \* the state of each promise, or of the handle that it comes from
    settles,     \* history: how often each promise was settled
    result       \* what each function ended with

pool == <<queue, private, foreground, active>>
d8 == <<wait_for_background_tasks, program>>
main == <<mpc, d8, disposing>>
builtin == <<array, left>>
outcome == <<promise, settles, result>>
vars == <<pool, wpc, wtask, main, builtin, creator, outcome>>

Init ==
    /\ queue = <<>> /\ private = [w \in Workers |-> <<>>] /\ foreground = <<>> /\ active = 0
    /\ wpc = [w \in Workers |-> "idle"] /\ wtask = [w \in Workers |-> None]
    /\ mpc = "script" /\ disposing = FALSE
    /\ wait_for_background_tasks \in BOOLEAN /\ program \in Programs
    /\ array = [a \in Agents |-> {}] /\ left = [a \in Agents |-> {}]
    /\ creator = [p \in Promises |-> None]
    /\ promise = [p \in Promises |-> "none"] /\ settles = [p \in Promises |-> 0]
    /\ result = [f \in Functions |-> "none"]

------------------------------------------------------------------------------
(* The tasks.  All but "call" are internal; only a "resolve" goes to the    *)
(* queue of one worker or to the foreground task runner.                    *)
CallTask(f) == [kind |-> "call", fn |-> f]
AutoTask(f, p, a) == [kind |-> "auto", fn |-> f, for |-> p, home |-> a]
JoinTask(p, a) == [kind |-> "join", for |-> p, home |-> a]
SleepTask(p, a) == [kind |-> "sleep", for |-> p, home |-> a]
ResolveTask(p, ok) == [kind |-> "resolve", for |-> p, ok |-> ok]

Submit(task) ==
    /\ queue' = Append(queue, task) /\ active' = active + 1
    /\ UNCHANGED <<private, foreground>>

(* SubmitToWorker(caller_worker_index, task), or PostTask for Main.         *)
PostBack(a, task) ==
    /\ IF a = Main
         THEN foreground' = Append(foreground, task) /\ UNCHANGED <<private, active>>
         ELSE /\ private' = [private EXCEPT ![a] = Append(@, task)] /\ active' = active + 1
              /\ UNCHANGED foreground
    /\ UNCHANGED queue

------------------------------------------------------------------------------
(* Builtins, called by the script that runs on agent a.                     *)
Script(a) == IF a = Main THEN Main ELSE wtask[a].fn

RunsScript(a) ==
    /\ array[a] = {} /\ left[a] = {}
    /\ IF a = Main THEN mpc = "script" ELSE wpc[a] \in {"call", "auto"}

NewPromise(p, a, state) ==
    /\ creator' = [creator EXCEPT ![p] = Script(a)]
    /\ promise' = [promise EXCEPT ![p] = state]

(* Thread.spawn submits the function and returns its JoinHandle.            *)
ThreadSpawn(a, f) ==
    /\ RunsScript(a) /\ {f} \in program[Script(a)] /\ f \notin Reactions /\ creator[{f}] = None
    /\ Submit(CallTask(f))
    /\ NewPromise({f}, a, "handle")
    /\ UNCHANGED <<wpc, wtask, main, builtin, settles, result>>

(* ArrayParallelCommon: a chunk at a time, each of which Submit hands to    *)
(* the pool at once.                                                        *)
ArrayParallel(a, B) ==
    /\ RunsScript(a) /\ B \in program[Script(a)] /\ B \cap Reactions = {} /\ creator[B] = None
    /\ creator' = [creator EXCEPT ![B] = Script(a)]
    /\ array' = [array EXCEPT ![a] = B] /\ left' = [left EXCEPT ![a] = B]
    /\ UNCHANGED <<pool, wpc, wtask, main, outcome>>

SubmitChunk(a, f) ==
    /\ f \in left[a]
    /\ Submit(CallTask(f))
    /\ left' = [left EXCEPT ![a] = @ \ {f}]
    /\ UNCHANGED <<wpc, wtask, main, array, creator, outcome>>

(* A chunk that cannot be serialized: the method throws, the chunks that    *)
(* were submitted before run on, and nobody waits for them.                 *)
ChunkNotSerializable(a) ==
    /\ left[a] # {}
    /\ array' = [array EXCEPT ![a] = {}] /\ left' = [left EXCEPT ![a] = {}]
    /\ UNCHANGED <<pool, wpc, wtask, main, creator, outcome>>

(* Mutant: the task that waits is submitted before the last chunk.          *)
SubmitJoinEarly(a) ==
    /\ array[a] # {} /\ Cardinality(left[a]) <= 1 /\ promise[array[a]] = "none"
    /\ Submit(JoinTask(array[a], a))
    /\ promise' = [promise EXCEPT ![array[a]] = "pending"]
    /\ array' = [array EXCEPT ![a] = {}]
    /\ UNCHANGED <<wpc, wtask, main, left, creator, settles, result>>

(* ParallelArrayJoinTask, after the last chunk.                             *)
SubmitArrayJoin(a) ==
    /\ array[a] # {} /\ left[a] = {}
    /\ Submit(JoinTask(array[a], a))
    /\ promise' = [promise EXCEPT ![array[a]] = "pending"]
    /\ array' = [array EXCEPT ![a] = {}]
    /\ UNCHANGED <<wpc, wtask, main, left, creator, settles, result>>

(* Mutant: the future stays in the handle.                                  *)
ThreadJoinAgain(a, B) ==
    /\ RunsScript(a) /\ creator[B] = Script(a) /\ promise[B] # "none" /\ active < 6
    /\ Submit(JoinTask(B, a))
    /\ NewPromise(B, a, "pending")
    /\ UNCHANGED <<wpc, wtask, main, builtin, settles, result>>

(* Thread.join moves the future out of the handle: a second call throws.    *)
ThreadJoin(a, B) ==
    /\ RunsScript(a) /\ creator[B] = Script(a) /\ promise[B] = "handle"
    /\ Submit(JoinTask(B, a))
    /\ NewPromise(B, a, "pending")
    /\ UNCHANGED <<wpc, wtask, main, builtin, settles, result>>

ThreadSleep(a, s) ==
    /\ RunsScript(a) /\ s \in program[Script(a)] /\ promise[s] = "none"
    /\ Submit(SleepTask(s, a))
    /\ NewPromise(s, a, "pending")
    /\ UNCHANGED <<wpc, wtask, main, builtin, settles, result>>

(* TryInterceptAutoParallelMicrotask: a reaction without closure runs on    *)
(* the pool and settles the promise that .then returned.                    *)
Intercept(a, f) ==
    /\ RunsScript(a) /\ {f} \in program[Script(a)] /\ f \in Reactions /\ creator[{f}] = None
    /\ Submit(AutoTask(f, {f}, a))
    /\ NewPromise({f}, a, "pending")
    /\ UNCHANGED <<wpc, wtask, main, builtin, settles, result>>

------------------------------------------------------------------------------
(* The loop of worker w.  GetTask tests terminated_ before it looks for a   *)
(* task and after it was woken.                                             *)
GetTask(w) ==
    /\ wpc[w] = "idle"
    /\ LET q == IF private[w] # <<>> THEN private[w] ELSE queue IN
         /\ q # <<>>
         /\ wtask' = [wtask EXCEPT ![w] = Head(q)] /\ wpc' = [wpc EXCEPT ![w] = Head(q).kind]
         /\ IF private[w] # <<>>
              THEN private' = [private EXCEPT ![w] = Tail(@)] /\ UNCHANGED queue
              ELSE queue' = Tail(queue) /\ UNCHANGED private
    /\ UNCHANGED <<foreground, active, main, builtin, creator, outcome>>

(* Mutant: Terminate does not wake the workers.                             *)
LeaveUnwoken(w) ==
    /\ wpc[w] = "idle" /\ disposing /\ private[w] # <<>>
    /\ wpc' = [wpc EXCEPT ![w] = "exited"]
    /\ UNCHANGED <<pool, wtask, main, builtin, creator, outcome>>

LeavePool(w) ==
    /\ wpc[w] = "idle" /\ disposing
    /\ wpc' = [wpc EXCEPT ![w] = "exited"]
    /\ UNCHANGED <<pool, wtask, main, builtin, creator, outcome>>

FinishTask(w) ==
    /\ wpc[w] = "finish"
    /\ active' = active - 1
    /\ wtask' = [wtask EXCEPT ![w] = None]
    /\ wpc' = [wpc EXCEPT ![w] = IF disposing THEN "exited" ELSE "idle"]
    /\ UNCHANGED <<queue, private, foreground, main, builtin, creator, outcome>>

GoTo(w, label) == wpc' = [wpc EXCEPT ![w] = label]

Settle(p, ok) ==
    /\ promise' = [promise EXCEPT ![p] = IF ok THEN "fulfilled" ELSE "rejected"]
    /\ settles' = [settles EXCEPT ![p] = @ + 1]

(* A function ends, with a value or an exception.  SetResult for a call;    *)
(* PostResultBack, which does not test IsDisposing, for a reaction.         *)
EndFunction(w) ==
    /\ RunsScript(w)
    /\ LET ok == wtask[w].fn \notin Failing IN
         /\ result' = [result EXCEPT ![wtask[w].fn] = IF ok THEN "value" ELSE "error"]
         /\ IF wpc[w] = "auto" THEN PostBack(wtask[w].home, ResolveTask(wtask[w].for, ok))
                               ELSE UNCHANGED pool
    /\ GoTo(w, "finish")
    /\ UNCHANGED <<wtask, main, builtin, creator, promise, settles>>

(* A function awaits a promise it holds: the worker stays in ExecuteTask.   *)
Await(w) ==
    /\ RunsScript(w) /\ wtask[w].fn \in Async
    /\ \E p \in Promises : creator[p] = wtask[w].fn /\ promise[p] = "pending"
    /\ GoTo(w, "await")
    /\ UNCHANGED <<pool, wtask, main, builtin, creator, outcome>>

(* Mutants: no call of DecrementActiveTasks; the state of the promise is   *)
(* read once only.                                                          *)
AwaitUncounted(w) ==
    /\ wpc[w] = "await" /\ private[w] # <<>>
    /\ LET task == Head(private[w]) IN
         /\ Settle(task.for, task.ok)
         /\ GoTo(w, IF creator[task.for] = wtask[w].fn THEN wtask[w].kind ELSE "await")
    /\ private' = [private EXCEPT ![w] = Tail(@)]
    /\ UNCHANGED <<queue, foreground, active, wtask, main, builtin, creator, result>>

AwaitForever(w) ==
    /\ wpc[w] = "await" /\ private[w] # <<>>
    /\ LET task == Head(private[w]) IN
         /\ Settle(task.for, task.ok)
         /\ GoTo(w, "await")
    /\ private' = [private EXCEPT ![w] = Tail(@)]
    /\ active' = IF wtask[w].kind = "call" THEN active - 1 ELSE active
    /\ UNCHANGED <<queue, foreground, wtask, main, builtin, creator, result>>

(* The await loop runs the resolve tasks of its own queue only.  The loop   *)
(* of AutoParallelThreadTask does not call DecrementActiveTasks.            *)
AwaitLoop(w) ==
    /\ wpc[w] = "await" /\ private[w] # <<>>
    /\ LET task == Head(private[w]) IN
         /\ Settle(task.for, task.ok)
         /\ GoTo(w, IF creator[task.for] = wtask[w].fn THEN wtask[w].kind ELSE "await")
    /\ private' = [private EXCEPT ![w] = Tail(@)]
    /\ active' = IF wtask[w].kind = "call" THEN active - 1 ELSE active
    /\ UNCHANGED <<queue, foreground, wtask, main, builtin, creator, result>>

(* RunInternal of JoinWaiterTask and ParallelArrayJoinTask: future.get()    *)
(* for every function of the batch.                                         *)
RunJoin(w) ==
    /\ wpc[w] = "join"
    /\ LET B == wtask[w].for IN
         /\ \A f \in B : result[f] # "none"
         /\ IF disposing THEN UNCHANGED pool
            ELSE PostBack(wtask[w].home, ResolveTask(B, \A f \in B : result[f] = "value"))
    /\ GoTo(w, "finish")
    /\ UNCHANGED <<wtask, main, builtin, creator, outcome>>

RunSleep(w) ==
    /\ wpc[w] = "sleep"
    /\ IF disposing THEN UNCHANGED pool
       ELSE PostBack(wtask[w].home, ResolveTask(wtask[w].for, TRUE))
    /\ GoTo(w, "finish")
    /\ UNCHANGED <<wtask, main, builtin, creator, outcome>>

RunResolve(w) ==
    /\ wpc[w] = "resolve"
    /\ Settle(wtask[w].for, wtask[w].ok)
    /\ GoTo(w, "finish")
    /\ UNCHANGED <<pool, wtask, main, builtin, creator, result>>

------------------------------------------------------------------------------
(* Mutant: the comparison with active_tasks_ is off by one.                 *)
EndScriptEarly ==
    /\ mpc = "script" /\ RunsScript(Main)
    /\ mpc' = IF wait_for_background_tasks /\ active > 1 THEN "waitForWork" ELSE "doNotWait"
    /\ UNCHANGED <<pool, wpc, wtask, d8, disposing, builtin, creator, outcome>>

(* ProcessMessages: behavior() decides whether PumpMessageLoop waits for a  *)
(* task; a task is followed by a microtask checkpoint, which runs script.   *)
EndScript ==
    /\ mpc = "script" /\ RunsScript(Main)
    /\ mpc' = IF wait_for_background_tasks /\ active > 0 THEN "waitForWork" ELSE "doNotWait"
    /\ UNCHANGED <<pool, wpc, wtask, d8, disposing, builtin, creator, outcome>>

PumpMessageLoop ==
    /\ mpc \in {"waitForWork", "doNotWait"} /\ foreground # <<>>
    /\ Settle(Head(foreground).for, Head(foreground).ok)
    /\ foreground' = Tail(foreground)
    /\ mpc' = "script"
    /\ UNCHANGED <<queue, private, active, wpc, wtask, d8, disposing,
                   builtin, creator, result>>

LeaveMessageLoop ==
    /\ mpc = "doNotWait" /\ foreground = <<>>
    /\ mpc' = "finished"
    /\ UNCHANGED <<pool, wpc, wtask, d8, disposing, builtin, creator, outcome>>

(* OnExit: V8::Dispose tears the pool down and joins its threads.           *)
Dispose ==
    /\ \/ mpc = "finished" /\ mpc' = "joinAll" /\ disposing' = TRUE
       \/ /\ mpc = "joinAll" /\ \A w \in Workers : wpc[w] = "exited"
          /\ mpc' = "gone" /\ UNCHANGED disposing
    /\ UNCHANGED <<pool, wpc, wtask, d8, builtin, creator, outcome>>

------------------------------------------------------------------------------
Builtin(a) ==
    \/ \E f \in Functions : ThreadSpawn(a, f) \/ Intercept(a, f)
    \/ \E B \in Batches : ArrayParallel(a, B) \/ ThreadJoin(a, B)
    \/ \E s \in Sleeps : ThreadSleep(a, s)
    \/ ChunkNotSerializable(a)

FinishBuiltin(a) == (\E f \in Functions : SubmitChunk(a, f)) \/ SubmitArrayJoin(a)

WorkerStep(w) ==
    \/ GetTask(w) \/ LeavePool(w) \/ FinishTask(w)
    \/ EndFunction(w) \/ Await(w) \/ AwaitLoop(w)
    \/ RunJoin(w) \/ RunSleep(w) \/ RunResolve(w)

MainStep ==
    EndScript \/ PumpMessageLoop \/ LeaveMessageLoop \/ Dispose

Next ==
    \/ \E a \in Agents : Builtin(a) \/ FinishBuiltin(a)
    \/ \E w \in Workers : WorkerStep(w)
    \/ MainStep

Spec == Init /\ [][Next]_vars

(* Threads keep running, a function ends or awaits, a sleep is over some    *)
(* day; no script has to call a builtin.                                    *)
Fairness ==
    /\ \A a \in Agents : WF_vars(FinishBuiltin(a))
    /\ \A w \in Workers : WF_vars(WorkerStep(w))
    /\ WF_vars(MainStep)

FairSpec == Spec /\ Fairness

------------------------------------------------------------------------------
QueuedFn(f) == \E i \in DOMAIN queue : queue[i].kind \in {"call", "auto"} /\ queue[i].fn = f
HeldFn(f) ==
    \E w \in Workers : wtask[w] # None /\ wtask[w].kind \in {"call", "auto"} /\ wtask[w].fn = f

(* The tasks that the pool and the task runner of Main hold.                *)
Tasks ==
    {CallTask(f) : f \in Functions} \cup
    {AutoTask(f, B, a) : f \in Functions, B \in Batches, a \in Agents} \cup
    {JoinTask(B, a) : B \in Batches, a \in Agents} \cup
    {SleepTask(s, a) : s \in Sleeps, a \in Agents}
ResolveTasks == {ResolveTask(p, ok) : p \in Promises, ok \in BOOLEAN}

ASSUME NoneAssumption == None \notin Tasks \cup ResolveTasks

(* Every variable has its type.                                             *)
TypeOK ==
    /\ queue \in Seq(Tasks) /\ private \in [Workers -> Seq(ResolveTasks)]
    /\ foreground \in Seq(ResolveTasks) /\ active \in Int
    /\ wpc \in [Workers -> {"idle", "call", "auto", "join", "sleep", "resolve", "await",
                            "finish", "exited"}]
    /\ wtask \in [Workers -> Tasks \cup ResolveTasks \cup {None}]
    /\ mpc \in {"script", "waitForWork", "doNotWait", "finished", "joinAll", "gone"}
    /\ wait_for_background_tasks \in BOOLEAN /\ program \in Programs /\ disposing \in BOOLEAN
    /\ array \in [Agents -> Batches \cup {{}}]
    /\ left \in [Agents -> SUBSET Functions]
    /\ creator \in [Promises -> Scripts \cup {None}]
    /\ promise \in [Promises -> {"none", "handle", "pending", "fulfilled", "rejected"}]
    /\ settles \in [Promises -> Nat] /\ result \in [Functions -> {"none", "value", "error"}]

(* A worker that blocks in future.get() waits only for functions that some  *)
(* worker has taken already: the queue is first in, first out, and every    *)
(* join is submitted after what it joins.                                   *)
WaitsForStarted ==
    \A w \in Workers : wpc[w] = "join" => \A f \in wtask[w].for : HeldFn(f) \/ result[f] # "none"

(* A promise is settled at most once, whatever race there is, with what its *)
(* functions ended with: by the value if all have one, else by an error.    *)
PromiseTellsResult ==
    \A p \in Promises :
      /\ settles[p] <= 1
      /\ promise[p] \in {"fulfilled", "rejected"} <=> settles[p] = 1
      /\ p \in Batches /\ settles[p] = 1 =>
           promise[p] = "fulfilled" <=> \A f \in p : result[f] = "value"

(* active_tasks_, which HasPendingBackgroundTasks reports, is the number of *)
(* tasks that are queued or held by a worker, as long as no reaction awaits *)
(* on the pool: its await loop leaves every task it runs counted.           *)
ActiveTasksCounted ==
    Async \cap Reactions = {} =>
    active = Len(queue) + Cardinality(UNION {{w} \X DOMAIN private[w] : w \in Workers})
               + Cardinality({w \in Workers : wtask[w] # None})

(* When d8 waits for background tasks, its message loop ends only after     *)
(* every function has ended and every promise of every script is settled:   *)
(* the check of active_tasks_ does not race with a result on its way.       *)
ExitLosesNothing ==
    mpc = "finished" /\ wait_for_background_tasks =>
      /\ \A p \in Promises : promise[p] # "pending"
      /\ \A f \in Functions : ~QueuedFn(f) /\ ~HeldFn(f)

(* A promise of join, sleep, a parallel array method or an intercepted      *)
(* reaction is settled some day, unless V8 is disposed of first.            *)
PromisesSettle ==
    \A p \in Promises : promise[p] = "pending" ~> promise[p] # "pending" \/ disposing

(* V8::Dispose returns when no function that may await is outstanding:      *)
(* workers that sleep or wait for a future leave the pool.                  *)
DisposeReturns ==
    disposing /\ (\A f \in Async : ~QueuedFn(f) /\ ~HeldFn(f)) ~> mpc = "gone"

(* The message loop of d8 ends once everything it waits for is done.        *)
MessageLoopEnds == mpc = "waitForWork" ~> mpc \in {"script", "finished"}
==============================================================================
