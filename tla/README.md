# Verification of the multithreading runtime

This directory holds TLA+ models of the multithreading that this fork adds to
V8: a work-stealing thread pool, channels and mutexes between isolates, the
JavaScript API on top of them, and the microtask queue that hands work to the
pool. TLC checks the models on small instances, and TLAPS proves the most
important properties for every value of the constants. The rest of the engine
(parser, compilers, heap, debugger) is unchanged by the fork and not modelled.

## 1. The system and its parts

Every worker thread has an isolate of its own, with its own heap. JavaScript
values cross from one isolate to another only as serialized bytes, and a promise
is settled only by code that runs on the isolate that created it. So the runtime
is a set of queues of C++ task objects, and its correctness is that of the
protocols on these queues.

| Part | Source (under `src/src`) | Role | Modules |
|---|---|---|---|
| Work-stealing deque | `threading/work-stealing-deque.h` | per-worker Chase-Lev deque; its array grows and shrinks | `WorkStealingDeque`, `Deque` |
| Thread pool | `threading/thread-pool.{h,cc}`, `task.h` | three kinds of queues, sleeping and waking, execution, `Resize`, teardown | `ThreadPool` |
| Channels | `threading/channel.{h,cc}` | bounded or unbounded queue between isolates, with parked senders and receivers | `Channel`, `FifoChannel` |
| Mutexes | `threading/mutex.{h,cc}` | a serialized value updated by callbacks, one at a time, first come first served | `MutexState` |
| Thread builtins | `builtins/builtins-thread.cc` | `Thread.spawn`, `join`, `sleep` | `ThreadApi` |
| Parallel arrays | `builtins/builtins-parallel-array.cc` | `parallelMap`, `parallelFilter`, `parallelReduce` | `ParallelArray` (the data), `ThreadApi` (the tasks) |
| Microtask queue | `execution/microtask-queue.{h,cc}`, `builtins/builtins-microtask-queue-gen.cc` | ring buffer, checkpoints, completed callbacks, interception for the pool | `MicrotaskQueue`, `MicrotaskFifo`, `ThreadApi` (the intercepted reaction) |
| d8 message loop | `d8/d8.cc`, `api/api.cc` | waits for background tasks, disposes of V8 | `ThreadApi` |

How they interact:

- A caller gives the pool a task with `Submit` (global queue), `SubmitFromWorker`
  (the deque of the calling worker) or `SubmitToWorker` (the private queue of one
  worker). The last one is for internal tasks that settle a promise of that
  worker's isolate; promises of the main isolate are settled by a task for its
  foreground task runner. Nothing in the repository calls `SubmitFromWorker`;
  the pool's model has it as a public operation.
- `ChannelState` and `MutexState` keep, for each party that waits, its isolate
  and worker index. Whoever makes progress possible pops the party from the
  queue under the object's mutex and, after unlocking, sends it an internal task.
- A task whose function returns a pending promise keeps its worker in a loop
  that runs private tasks until the promise is settled.
- `join` and the parallel array methods submit a task that blocks its worker in
  `future::get` and then posts a resolve task to the isolate of the caller.
- d8 asks `HasPendingBackgroundTasks`, which is `active_tasks_ > 0`, whether its
  message loop should wait.

Each module `X` is instantiated for TLC by `MCX` and one or more `.cfg` files.

## 2. Models

A program counter value is the point between two atomic accesses to shared
state. Data is abstract: a task, a message, a microtask and a lock request are
model values or numbers; serialization succeeds or fails per value. Variables
have the names of the fields they model; local variables of a thread are
functions of the thread. Definitions headed "Mutant" are no part of any
specification: each is a plausible mistake in one action, kept because the
property it breaks is thereby shown to depend on that action.

### WorkStealingDeque and Deque

One owner, a set of thieves. `Push`, `Pop`, `Steal`, `Resize` and `MaybeShrink`
are cut at each load, store and compare-and-swap of `top_`, `bottom_`,
`active_array_` and the slots. Replaced arrays stay readable, as in the code,
which keeps them until the destructor. `pushed` and `returned` are history.
The initial capacity is any member of `InitialCapacities`, all powers of two, to
which the code's constructor rounds its argument. The atomics are taken as
sequentially consistent: the code has a `seq_cst` fence or CAS where the order of
two accesses to different locations matters. That its choice of orderings is
enough on weak memory is not shown here.

`Deque` is the deque a caller wants: a sequence, with atomic append, remove last
and remove first. The refinement maps it to the slots between `top_` and
`Bottom`, where a slot reserved by an unfinished `Pop` still counts.

### ThreadPool

Uses the atomic deque. Its actions follow `GetTask` (one step per queue looked
at, then the critical section on `pool_mutex_`, `HasWork`, the increment of
`sleeping_workers_`, the wait), `ExecuteTask` (run to the end, or await and run
private tasks), the three submissions (count, push, read `sleeping_workers_`,
notify), `Resize` (a critical section, then the joins outside of it) and the
teardown (`Terminate`, the joins, the drain of the destructor).

`Locations` are the places where a task can be: a queue, the hands of a worker
(`cur`, or `nested` while it awaits), or a caller that has counted it and not yet
pushed it. The properties about tasks are stated with `Where(k)`.

Contracts taken from the callers: `Resize` is called from outside the pool;
`Terminate` (from `V8::Dispose`, in builds with WebAssembly, `init/v8.cc:277`)
when no client is inside a call. The growth of the vectors in `Resize` and the
start of the new threads are one step. `MaxThreads` and `MaxPool` bound what the
code bounds at 128 or not at all.

### Channel and FifoChannel

`send`, `recv`/`next` and `close` with their lock sections, the task posted after
each, and the three resolve tasks run by the isolate they were sent to (`inbox`
is the private queue of a worker or the foreground queue of the main isolate).
`send` reads `closed` before the lock section, as the code does. `close` posts
one task per parked receiver, inside the lock section. Messages may be
impossible to serialize (`Uncloneable`) or to deserialize (`Corrupt`).

`FifoChannel` is the promise: one queue of messages, delivered in order, each at
most once, to one receiver at a time, and `done` only when nothing is left.

### MutexState

`lock` on the fast and on the slow path, the callback, the commit or the
rejection, `ReleaseLock`, the posting of the `ResolveMutexTask`, its run, and
`value()`. The value is the set of requests whose update it contains. The
settling of the promise and the store of the value are one step: the promise
lives in the isolate's own heap, so no other isolate can tell them apart. The
loop in the destructor of `MutexState` is not reached while the pool is alive:
waiting requests imply a holder (`MutualExclusion`).

### ThreadApi

Composes the builtins with a pool and with d8. The pool has a fixed number of
workers; submitting, taking and settling a task are single steps, because
`ThreadPool` has their interleavings. `Programs` says which batches (a spawned
function, the chunks of one array, a reaction) and sleeps each script may start;
a function is itself a script and may start more. An agent inside an array method
submits one chunk at a time, so other agents run in between, and a chunk that
cannot be serialized leaves the earlier ones running for nobody. `AwaitLoop` runs
resolve tasks of the worker's own queue, and in the case of a reaction does not
decrement `active_tasks_`, as in `microtask-queue.cc:248`. d8 waits for background
tasks or not, from the start. A function's result is "value" when it can be
serialized and read back, else "error".

### ParallelArray

One call of a parallel method: the bounds of the chunks in unsigned arithmetic
modulo `Modulus`, the results in any order, the merge. The reference is the
method of `Array` on the whole sequence. Two things that the code does shape the
statement of `LikeArrayMethod`: the callback gets an index that counts within its
chunk, so a callback that uses the index is left out, and each chunk of
`parallelReduce` starts from `initialValue`, so the property asks for a neutral
one. Arrays are dense; in the code a hole becomes `undefined`.

### MicrotaskQueue and MicrotaskFifo

The ring buffer with `EnqueueMicrotask` (the builtin, which uses a mask, and the
C++ code, which uses the modulo), the growth, the collector that visits the slots
and shrinks the buffer, `RunMicrotasks` and its termination, microtask and
suppression scopes under the two policies, completed callbacks with their
copy-on-write list, and the circular list of the queues of an isolate. One thread
runs all of it; script may run in a microtask and in a callback. `MicrotaskFifo`
is a queue from which only a termination drops microtasks. Interception by the
pool is a step that enqueues nothing. It happens in the C++ code only, which the
builtin calls when the buffer is full; `MULTITHREADING_API.md:174` reads as if it
happened for every eligible reaction.

## 3. Runs

| Run | Instance | Properties |
|---|---|---|
| `deque` | 3 items, 2 thieves, initial capacity 1 or 8, shrink floor 1 | `TypeOK`, `ExactlyOnce`, `EmptyPopIsEmpty`, `CapacityIsPowerOfTwo`, refinement of `Deque` (`AtomicSpec`), `StealReturns` |
| `pool` | 2 tasks, one of which awaits a promise, 2 workers, 1 client, 1 spurious wake-up, teardown | `TaskExactlyOnce`, `ActiveTasksExact`, `SleepersExact`, `BoundToThread`, `TearDownSettlesAll`, `NotifiedTaskRuns`, `SubmittedTaskRuns`, `TearDownCompletes` |
| `pool_resize` | 2 tasks, 3 threads, a pool of 1 to 2 workers, a client that submits and resizes | `SingleOwner`, `ResizeReturns` |
| `channel` | 4 messages (one uncloneable, one corrupt), 2 receive calls, 3 isolates, capacity 1 | `BackPressure`, `NobodyWaitsInVain`, refinement of `FifoChannel` (`FifoSpec`), `CloseReleasesReceivers`, `SendersReleased` |
| `mutex` | 4 lock calls, one of which fails, 3 isolates | `MutualExclusion`, `NoLostUpdate`, `FirstComeFirstServed`, `ReadsCommitted`, `EveryLockSettles` |
| `api` | 3 workers and d8, three programs: d8 spawns and joins an async function that awaits an array method with a failing chunk, a sleep next to one of d8, or a reaction | `WaitsForStarted`, `PromiseTellsResult`, `ActiveTasksCounted`, `ExitLosesNothing`, `PromisesSettle`, `DisposeReturns` |
| `microtask` | minimum capacity 2, 6 microtasks, 3 scopes, 2 callbacks, 3 queues | `TypeOK`, `CompletedCallbacks`, `QueueChain`, `MaskIsModulo`, refinement of `MicrotaskFifo` (`FifoSpec`), `MicrotasksRun` |
| `parallel` | all arrays of up to 4 elements of 4 kinds and of 5 elements of 3 kinds, longer ones up to length 15, 1 to 4 workers, modulus 16 | `ChunksPartition`, `LikeArrayMethod` |

These pass. What the less obvious ones show:

- `SubmittedTaskRuns` and `NotifiedTaskRuns`: although the submitter reads
  `sleeping_workers_` without the mutex, with two workers a task of a shared queue
  is executed, and so is a task of a private queue whose submitter saw a sleeper.
- `TearDownCompletes`: `Terminate` wakes and joins every worker, wherever in
  `GetTask` it is, and `TearDownSettlesAll`: no future is then without a result.
- `SendersReleased`: a parked sender is released when there are receive calls
  enough; `CloseReleasesReceivers`: `close` answers every parked receiver.
- `WaitsForStarted`: the global queue is FIFO and joins are submitted after the
  functions they join, so a blocked join never waits for a task still queued.
- `ExitLosesNothing`: a d8 that waits for background tasks leaves its loop only
  when nothing is on its way to it.
- `LikeArrayMethod`: the merged result is that of the sequential method, and with
  several failing chunks the error is that of the first in the array.

### Disagreements between code and documentation

Four runs end in a counterexample, a behaviour of the code that a document of the
repository excludes. `PROJECT.json` quotes the lines.

- `pool_lost_wakeup` (one task, one worker): a submission between `HasWork` and
  the increment of `sleeping_workers_` wakes nobody, and the task stays queued.
- `channel_done` (one message, one receive call, unbounded channel): a `send` that
  read `closed` before `close` delivers after a receiver was told `done`.
- `api_await` (two workers, two async functions that await a sleep): both workers
  stay in their await loops and nobody runs the sleeps.
- `api_exit` (two workers, one function): d8 runs the resolve task of a join before
  the worker has decremented `active_tasks_`, and waits for a task that never comes.

Further differences were met while modelling, and no run is kept for them:

- `thread-pool.cc:196`: an excess worker looks at the pool size only when it finds
  no work, so it keeps taking tasks after a shrink, while
  `MULTITHREADING_API.md:206` says it ends with its current task.
- `thread-pool.cc:116`, `:224`: after a shrink and a growth a private task may run
  on another isolate than its own, against the `DCHECK_EQ` in `RunInternal`. TLC
  finds it when `BoundToThread` is checked with `Resize`.
- `thread-pool.cc:242`: with two overlapping calls of `Resize` a deque can have two
  owners, against "Only owner thread may call this" in
  `work-stealing-deque.h:64`. TLC finds it for `SingleOwner` with two clients.
- `builtins-parallel-array.cc:249`: `initialValue` starts every chunk, while
  `MULTITHREADING_API.md:162` says "the first argument to the first call".
- `microtask-queue.cc:248`: the await loop of an async reaction runs private tasks
  and leaves them counted. `ActiveTasksCounted` is therefore stated for programs
  without async reactions.
- In `builtins-parallel-array.cc` the global handle of the callback is not deleted
  when a chunk fails or cannot be serialized.

### Bounds

Bounds are in the `.cfg` files and act through guards, never by cutting off a
search.

- `deque`: the array grows from 1 to 2 to 4 and shrinks from 8 to 4 with a live
  item, while a thief holds the replaced array. The code never shrinks below 64;
  the floor is a constant so that shrinking happens. The items are symmetric: no
  property and no fairness condition names one. 981,434 states.
- `pool`: two workers and two tasks give every race between a submission, a worker
  that goes to sleep, one that steals and one that awaits; more tasks add no new
  pairs of steps, and the theorems below hold for any number. 125,633 states.
- `pool_resize`: an index is left by one thread and taken by the next. 233,446 states.
- `channel`: capacity 1 makes senders park, with a message in the buffer and two
  parked senders at once. 92,574 states.
- `mutex`: a holder, a request on its way and two that wait. 88,391 states.
- `api`: a spawned function, an array of two chunks and the two joins would fill a
  pool of three; the async function holds one worker. 140,071 states.
- `microtask`: minimum capacity 2 (8 in the code) lets the buffer grow twice, wrap
  and shrink. Scopes, callbacks and queues do not touch each other's state and are
  enumerated in separate programs. 235,484 states.
- `parallel`: modulus 16 in place of 2^32, so that lengths reach the largest number.
  314,085 states.

Deadlock is checked in `deque`, `channel`, `channel_done` and `mutex`, where some
call can always be made (a steal, a close, a read of the value). It is not in the
others: a pool or a d8 that is done really stops.

### Fairness

- Deque: weak fairness of each thief inside `Steal` and of the owner inside an
  operation: a thread that has started a call goes on. Nobody has to start one.
- Pool: weak fairness of every worker and of every caller inside a call, and of the
  execution of a task, which includes that an awaited promise is settled. The last
  is an assumption on the task; `api_await` shows a program that breaks it. Wake-ups
  need no fairness of their own beyond a notified thread running.
- Channel: weak fairness of isolates inside a call and of the task loops of all
  isolates. `SendersReleased` needs more, namely that script goes on receiving
  (`ReceiverFairness`); the property says what the channel does then.
- Mutex: weak fairness of isolates inside a lock call and of their task loops;
  callbacks end.
- Api: weak fairness of an agent inside a builtin (`FinishBuiltin`), of each worker
  and of d8's loop.
- Microtasks: weak fairness of the end of a collection and strong fairness of the
  return from script to its caller. d8 performs a checkpoint after every task.

## 4. Proofs

Theorems hold for every value of the constants that satisfies the named assumption
of the module: distinct model values, natural numbers where the code has counts
and sizes, and for the deque that initial capacities and the shrink floor are
positive powers of two. The assumptions are `DequeAssumption`, `PoolAssumption`,
`ChannelAssumption`, `MutexAssumption`, `ApiAssumption` with `NoneAssumption`,
`MicrotaskAssumption` and `ArrayAssumption`; TLC evaluates them on each instance.
Every component has a theorem `TypeCorrect` except the microtask queue.

**`WorkStealingDequeProofs`**: `ExactlyOnceHolds`, `EmptyPopHolds`,
`Linearizable`. `ExactlyOnce` alone is not inductive: nothing in it says that what
a thief read is what its CAS will take. The inductive invariant `IInv` adds
`OwnerInv` (what the locals of the owner say of the shared indices at each point)
and `ThiefInv`: as long as `top_` still has the value the thief read, the item
there is in the deque, the array it holds has the same item in that slot as the
active one, and the value it read is that item. The `t` of the owner may be stale
but only too small, so its test of the size errs on the safe side. `SlotUnique`
(two live indices never share a slot) and `CopyRangeGet` (the copy keeps every
live item) carry the arithmetic. `Linearizable` says that the deque implements
`Deque`, from `IInv` and one simulation step per action. The linearization points
are the store of `bottom_` in `Push`, the load or the CAS of `top_` in `Pop`, and
the CAS in `Steal`. Arrays may grow, shrink and grow again in any pattern.

**`ThreadPoolProofs`**: `SleepersCounted`, `PrivateTasksStay`. The count of
sleepers follows from the set of threads between the increment and the decrement
(`SInv`), whatever wakes them. `PrivateTasksStay` (`BInv`) needs that the index of
a thread and the pool size are fixed, so it is stated for callers that do not
`Resize`; with `Resize` it is false (section 3).

**`ThreadPoolTaskProofs`**: `TasksRunOnce`, `ActiveTasksBalance`,
`TearDownComplete`, for any number of tasks, threads and clients. That a task is
in one place is not inductive: when a worker finishes, the place of every *other*
task must not change, and a caller that still holds a task must be the only one.
`KInv` adds that no location holds a task twice and no two locations hold the same
one, that what is somewhere was submitted and is not settled, and that the counter
is the size of the set of pending tasks. These hold with `Resize` and through the
teardown. `TearDownComplete` adds `CallsInv` (who may be inside which call),
`FixedInv` (without `Resize` no queue beyond the pool size is used) and `EndInv`
(after the joins all threads have exited, no client is in a call, and the queues
that the destructor has visited stay empty). It is stated for pools that are never
resized, because a worker that has left may leave private tasks behind.

**`ChannelProofs`**: `BackPressureHolds`, `NobodyWaitsInVainHolds`. With the type
invariant the two are inductive together; the interesting steps are `Recv`, which
moves one parked message into the buffer, and `Close`, whose loop empties the
queue of receivers within the lock section.

**`MutexStateProofs`**: `MutualExclusionHolds`, `NoLostUpdateHolds`,
`FirstComeHolds`. The invariant `MInv` speaks of one token, which is a callback,
a release, a hand-over or a task in an inbox (`TokenInv`), and of one line, in
which the granted requests come first, then the one the mutex is on its way to,
then the queue (`LineInv`). `NoLostUpdate` needs both: the value a callback was
given is still the current one when it commits.

**`ThreadApiProofs`**: `JoinsWaitForStarted`, for any program and any pool. The
invariant `JInv` orders the global queue: a function stands before every join that
will wait for it (`QueueInv`), a handle that can still be joined belongs to a
submitted function (`HandleInv`), and an array method submits its join after its
last chunk (`ArrayInv`).

**`MicrotaskQueueProofs`**: `RingBufferIsFifo`. `BufferInv` relates `start`, `size`
and `capacity` to the slots; growth and shrinking copy the live slots in order, so
the buffer read from `start` is the abstract queue.

**`ParallelArrayProofs`**: `ChunksPartitionHolds`, for every length below the
modulus and every pool size. `CInv` says that the chunks submitted so far are those
of `Bounds` and that there are no more chunks than elements; so the product in a
bound stays below the length and the unsigned arithmetic never wraps.

Only model-checked: `SingleOwner`, `ReadsCommitted`, the refinement of
`FifoChannel`, `PromiseTellsResult`, `ExitLosesNothing`, `ActiveTasksCounted`,
`CompletedCallbacks`, `QueueChain`; `CapacityIsPowerOfTwo` and `MaskIsModulo`,
because powers are out of the SMT solver's reach (the proofs use
`index % capacity`, which these two show to be the code's `index & mask`);
`LikeArrayMethod`, which needs induction over the array; and all liveness.
Liveness under fairness, `ENABLED` and induction over data are beyond the provers
used. Conversely the type invariants of the pool, the channel, the mutex, the
builtins and the parallel arrays are proved and therefore in no run.

## 5. Not modelled

- **Weak memory.** All atomics are sequentially consistent. The unsynchronized
  accesses of `Resize` to the vectors of the pool (`thread-pool.cc:220`) are
  undefined behaviour of the program and taken as accesses to arrays of fixed size.
- **Structured clone** (`threading/serializer.{h,cc}`): what the delegates write
  and read is data. Outcomes (uncloneable, corrupt) are in the models; transfer
  lists, the boxed pointers of host objects and their lifetime are not.
- **Channels**: transfer lists, and the destructor of a channel that nobody holds
  any more.
- **Thread builtins**: `Thread.setPoolSize` is `Resize` in `ThreadPool` only; a
  worker that resizes the pool from its own task is left out. `ThreadApi` has a
  fixed pool.
- **Microtask queue**: what a microtask computes, async hooks and the debugger.
  `TryInterceptAutoParallelMicrotask` is its decision and the task it submits; that
  raw pointers survive its allocations (`microtask-queue.cc:378`) is assumed, as is
  that a failed `WriteValue` (`:431`) leaves no exception that matters.
- **d8**: the loop that waits for tasks and the disposal only; workers of d8, the
  REPL and the profiler are not part of the multithreading.
- **Registration of the builtins** is a table of names without state.
- **Upstream V8**: everything else in the repository, more than a million lines
  of compiler, heap and runtime, is the work of another project and has no state in
  common with the parts above but the isolate they run in. That is why the modelled
  lines are a small share of the repository, although they are most of the lines of
  `threading/`, of the two builtins files and of `microtask-queue.cc`.
