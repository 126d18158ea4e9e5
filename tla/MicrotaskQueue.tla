--------------------------- MODULE MicrotaskQueue ---------------------------
(* The microtask queue of src/execution/microtask-queue.{h,cc} and of the   *)
(* builtins EnqueueMicrotask and RunMicrotasks: the ring buffer, which      *)
(* enqueueing grows and the garbage collector shrinks, the checkpoint, the  *)
(* completed callbacks, and the list of the queues of an isolate.  One      *)
(* thread runs all of it; script runs inside a microtask and a callback.    *)
(* A microtask is the number of its call, 1, 2, ...                         *)
EXTENDS Integers, Sequences, FiniteSets

CONSTANTS
    MinimumCapacity,  \* kMinimumCapacity, 8 in the code
    MaxMicrotasks,    \* bound on the calls of EnqueueMicrotask
    MaxScopes,        \* bound on the scopes that script and embedder enter
    Callbacks,        \* the completed callbacks
    Programs,         \* what script and embedder use besides EnqueueMicrotask
    Queues, Default,  \* the MicrotaskQueue objects, the default one among them
    None

ASSUME MicrotaskAssumption ==
    /\ MinimumCapacity \in Nat \ {0} /\ MaxMicrotasks \in Nat /\ MaxScopes \in Nat
    /\ Default \in Queues /\ None \notin Queues \cup Nat /\ None \notin Seq(Callbacks)
    /\ Programs \subseteq SUBSET {"scopes", "callbacks", "queues"}

VARIABLES
    ring_buffer_, capacity_, size_, start_,
    new_capacity,        \* the local of IterateMicrotasks, None outside of its loop
    pc,                  \* place of the thread: script outside of RunMicrotasks, the
                         \* loop of the builtin, a microtask, a completed callback
    is_running_microtasks_, microtasks_depth_, microtasks_suppressions_, microtasks_policy_,
    microtasks_completed_callbacks_, microtasks_completed_callbacks_cow_,
    called,              \* the callbacks that this OnCompleted has called
    registered,          \* history: callbacks added and not removed
    toCall,              \* history: the callbacks when OnCompleted began
    entered,             \* scopes entered so far
    next_, prev_,        \* the list of the queues; None for one that does not exist
    program,             \* member of Programs
    enqueued             \* calls of EnqueueMicrotask

buffer == <<ring_buffer_, capacity_, size_, start_, new_capacity, enqueued>>
scopes == <<microtasks_depth_, microtasks_suppressions_, microtasks_policy_, entered, program>>
list == <<microtasks_completed_callbacks_, microtasks_completed_callbacks_cow_, registered>>
run == <<pc, is_running_microtasks_, called, toCall>>
chain == <<next_, prev_>>
vars == <<buffer, scopes, list, run, chain>>

Init ==
    /\ ring_buffer_ = <<>> /\ capacity_ = 0 /\ size_ = 0 /\ start_ = 0
    /\ new_capacity = None /\ enqueued = 0
    /\ pc = "script" /\ is_running_microtasks_ = FALSE
    /\ microtasks_depth_ = 0 /\ microtasks_suppressions_ = 0
    /\ microtasks_policy_ \in {"kAuto", "kScoped"} /\ entered = 0 /\ program \in Programs
    /\ microtasks_completed_callbacks_ = <<>> /\ microtasks_completed_callbacks_cow_ = None
    /\ called = <<>> /\ registered = {} /\ toCall = <<>>
    /\ next_ = [q \in Queues |-> IF q = Default THEN Default ELSE None] /\ prev_ = next_

------------------------------------------------------------------------------
(* The buffer.  Slots outside of the live ones hold anything, 0 here.  The  *)
(* builtins reduce an index with capacity_ - 1 as a mask, the C++ code with *)
(* the modulo; see MaskIsModulo.                                            *)
MaxOf(a, b) == IF a < b THEN b ELSE a
MinOf(a, b) == IF a < b THEN a ELSE b

(* Mutant: the copy forgets start_.                                         *)
ResizedFromZero(cap) ==
    [i \in 0..(cap - 1) |-> IF i < size_ THEN ring_buffer_[i] ELSE 0]

(* ResizeBuffer moves the first microtask to slot 0.                        *)
Resized(cap) ==
    [i \in 0..(cap - 1) |-> IF i < size_ THEN ring_buffer_[(start_ + i) % capacity_] ELSE 0]

(* Mutant: the capacity grows by a constant.                                *)
GrownLinearly == capacity_ + MinimumCapacity

Grown == MaxOf(MinimumCapacity, 2 * capacity_)

Store(n) ==
    /\ IF size_ = capacity_
         THEN /\ ring_buffer_' = [Resized(Grown) EXCEPT ![size_] = n]
              /\ capacity_' = Grown /\ start_' = 0
         ELSE /\ ring_buffer_' = [ring_buffer_ EXCEPT ![(start_ + size_) % capacity_] = n]
              /\ UNCHANGED <<capacity_, start_>>
    /\ size_' = size_ + 1

RunsScript == pc \in {"script", "task", "callback"}

(* EnqueueMicrotask.  A reaction whose handler captures nothing becomes a   *)
(* task of the pool (TryInterceptAutoParallelMicrotask, see ThreadApi), but *)
(* the builtin calls the C++ code that does so only when the buffer is full.*)
EnqueueMicrotask(builtin, pure) ==
    /\ RunsScript /\ enqueued < MaxMicrotasks
    /\ enqueued' = enqueued + 1
    /\ IF pure /\ (~builtin \/ size_ = capacity_)
         THEN UNCHANGED <<ring_buffer_, capacity_, size_, start_>>
         ELSE Store(enqueued + 1)
    /\ UNCHANGED <<new_capacity, scopes, list, run, chain>>

------------------------------------------------------------------------------
(* Scopes and the checkpoint.                                               *)
ShouldPerfomCheckpoint(depth) ==
    ~is_running_microtasks_ /\ depth = 0 /\ microtasks_suppressions_ = 0

(* RunMicrotasks: OnCompleted at once when the queue is empty.              *)
OnCompleted == pc' = "completed" /\ called' = <<>> /\ toCall' = microtasks_completed_callbacks_

RunMicrotasks ==
    /\ is_running_microtasks_' = TRUE
    /\ microtasks_suppressions_' = microtasks_suppressions_ + 1
    /\ IF size_ = 0 THEN OnCompleted ELSE pc' = "loop" /\ UNCHANGED <<called, toCall>>
    /\ UNCHANGED <<buffer, microtasks_policy_, entered, program, list, chain>>

(* Called at the end of a call into the engine, or by the embedder.         *)
PerformCheckpoint ==
    /\ RunsScript /\ ShouldPerfomCheckpoint(microtasks_depth_)
    /\ RunMicrotasks /\ UNCHANGED microtasks_depth_

EnterMicrotasksScope ==
    /\ RunsScript /\ entered < MaxScopes /\ entered' = entered + 1
    /\ microtasks_depth_' = microtasks_depth_ + 1
    /\ UNCHANGED <<buffer, microtasks_suppressions_, microtasks_policy_, program, list, run, chain>>

(* The destructor performs a checkpoint under the policy kScoped, unless it *)
(* is left with an exception.                                               *)
LeaveMicrotasksScope ==
    /\ RunsScript /\ microtasks_depth_ > 0
    /\ microtasks_depth_' = microtasks_depth_ - 1
    /\ \E has_exception \in BOOLEAN :
         IF /\ microtasks_policy_ = "kScoped" /\ ~has_exception
            /\ ShouldPerfomCheckpoint(microtasks_depth_ - 1)
           THEN RunMicrotasks
           ELSE UNCHANGED <<buffer, microtasks_suppressions_, microtasks_policy_, entered, program,
                            list, run, chain>>

(* The suppression scopes of the embedder; RunMicrotasks holds one itself.  *)
Held == IF is_running_microtasks_ THEN 1 ELSE 0

EnterSuppression ==
    /\ RunsScript /\ entered < MaxScopes /\ entered' = entered + 1
    /\ microtasks_suppressions_' = microtasks_suppressions_ + 1
    /\ UNCHANGED <<buffer, microtasks_depth_, microtasks_policy_, program, list, run, chain>>

LeaveSuppression ==
    /\ RunsScript /\ microtasks_suppressions_ > Held
    /\ microtasks_suppressions_' = microtasks_suppressions_ - 1
    /\ UNCHANGED <<buffer, microtasks_depth_, microtasks_policy_, entered, program, list, run, chain>>

------------------------------------------------------------------------------
(* The builtin RunMicrotasks.                                               *)
RunSingleMicrotask ==
    /\ pc = "loop" /\ size_ # 0
    /\ size_' = size_ - 1 /\ start_' = (start_ + 1) % capacity_
    /\ pc' = "task"
    /\ UNCHANGED <<ring_buffer_, capacity_, new_capacity, enqueued,
                   scopes, list, is_running_microtasks_, called, toCall, chain>>

(* The microtask has left the scopes it entered.                            *)
ScopesLeft == microtasks_depth_ = 0 /\ microtasks_suppressions_ = Held

FinishMicrotask ==
    /\ pc = "task" /\ ScopesLeft
    /\ pc' = "loop"
    /\ UNCHANGED <<buffer, scopes, list, is_running_microtasks_, called, toCall, chain>>

QueueIsEmpty ==
    /\ pc = "loop" /\ size_ = 0
    /\ OnCompleted
    /\ UNCHANGED <<buffer, scopes, list, is_running_microtasks_, chain>>

(* Mutant: the members are not reset.                                       *)
TerminateKeepsStart ==
    /\ pc = "task" /\ ScopesLeft
    /\ ring_buffer_' = <<>> /\ capacity_' = 0 /\ size_' = 0
    /\ OnCompleted
    /\ UNCHANGED <<start_, new_capacity, enqueued, scopes, list, is_running_microtasks_, chain>>

(* The execution is terminated in a microtask: the buffer is deleted.       *)
TerminateExecution ==
    /\ pc = "task" /\ ScopesLeft
    /\ ring_buffer_' = <<>> /\ capacity_' = 0 /\ size_' = 0 /\ start_' = 0
    /\ OnCompleted
    /\ UNCHANGED <<new_capacity, enqueued, scopes, list, is_running_microtasks_, chain>>
------------------------------------------------------------------------------
(* The completed callbacks.                                                 *)
is_running_completed_callbacks_ == pc \in {"completed", "callback"}

Latest ==
    IF microtasks_completed_callbacks_cow_ # None THEN microtasks_completed_callbacks_cow_
                                                  ELSE microtasks_completed_callbacks_

(* Mutant: the vector is changed while OnCompleted iterates over it.        *)
ChangeInPlace(callbacks) ==
    microtasks_completed_callbacks_' = callbacks /\ UNCHANGED microtasks_completed_callbacks_cow_

(* Copy on write while OnCompleted iterates.                                *)
Change(callbacks) ==
    IF is_running_completed_callbacks_
      THEN /\ microtasks_completed_callbacks_cow_' = callbacks
           /\ UNCHANGED microtasks_completed_callbacks_
      ELSE /\ microtasks_completed_callbacks_' = callbacks
           /\ UNCHANGED microtasks_completed_callbacks_cow_

AddMicrotasksCompletedCallback(c) ==
    /\ RunsScript
    /\ Change(IF \E i \in DOMAIN Latest : Latest[i] = c THEN Latest ELSE Append(Latest, c))
    /\ registered' = registered \cup {c}
    /\ UNCHANGED <<buffer, scopes, run, chain>>

(* std::find and vector::erase.                                             *)
Erase(callbacks, c) ==
    IF \E i \in DOMAIN callbacks : callbacks[i] = c
      THEN LET pos == CHOOSE i \in DOMAIN callbacks :
                        callbacks[i] = c /\ \A j \in 1..(i - 1) : callbacks[j] # c
           IN  [j \in 1..(Len(callbacks) - 1) |-> callbacks[IF j < pos THEN j ELSE j + 1]]
      ELSE callbacks

RemoveMicrotasksCompletedCallback(c) ==
    /\ RunsScript
    /\ Change(Erase(Latest, c))
    /\ registered' = registered \ {c}
    /\ UNCHANGED <<buffer, scopes, run, chain>>

CallCallback ==
    /\ pc = "completed" /\ Len(called) < Len(microtasks_completed_callbacks_)
    /\ called' = Append(called, microtasks_completed_callbacks_[Len(called) + 1])
    /\ pc' = "callback"
    /\ UNCHANGED <<buffer, scopes, list, is_running_microtasks_, toCall, chain>>

ReturnFromCallback ==
    /\ pc = "callback" /\ ScopesLeft
    /\ pc' = "completed"
    /\ UNCHANGED <<buffer, scopes, list, is_running_microtasks_, called, toCall, chain>>

(* Mutant: the flag stays set.                                              *)
LeaveStillRunning ==
    /\ pc = "completed" /\ Len(called) >= Len(microtasks_completed_callbacks_)
    /\ microtasks_completed_callbacks_' = Latest /\ microtasks_completed_callbacks_cow_' = None
    /\ microtasks_suppressions_' = microtasks_suppressions_ - 1
    /\ pc' = "script" /\ called' = <<>> /\ toCall' = <<>>
    /\ UNCHANGED <<buffer, microtasks_depth_, microtasks_policy_, entered, program, registered,
                   is_running_microtasks_, chain>>

(* The end of OnCompleted and of RunMicrotasks.                             *)
LeaveRunMicrotasks ==
    /\ pc = "completed" /\ Len(called) >= Len(microtasks_completed_callbacks_)
    /\ microtasks_completed_callbacks_' = Latest /\ microtasks_completed_callbacks_cow_' = None
    /\ is_running_microtasks_' = FALSE
    /\ microtasks_suppressions_' = microtasks_suppressions_ - 1
    /\ pc' = "script" /\ called' = <<>> /\ toCall' = <<>>
    /\ UNCHANGED <<buffer, microtasks_depth_, microtasks_policy_, entered, program, registered, chain>>

------------------------------------------------------------------------------
(* The garbage collector, which stops the thread: IterateMicrotasks visits  *)
(* two ranges of slots, what it does not visit is not kept alive.           *)
VisitedSlots ==
    IF size_ = 0 THEN {}
    ELSE start_..(MinOf(start_ + size_, capacity_) - 1)
           \cup 0..(MaxOf(start_ + size_ - capacity_, 0) - 1)

IterateMicrotasks ==
    /\ new_capacity = None
    /\ ring_buffer_' = [i \in 0..(capacity_ - 1) |-> IF i \in VisitedSlots THEN ring_buffer_[i] ELSE 0]
    /\ new_capacity' = IF capacity_ <= MinimumCapacity THEN None ELSE capacity_
    /\ UNCHANGED <<capacity_, size_, start_, enqueued, scopes, list, run, chain>>

HalveCapacity ==
    /\ new_capacity # None /\ new_capacity > 2 * size_
    /\ new_capacity' = new_capacity \div 2
    /\ UNCHANGED <<ring_buffer_, capacity_, size_, start_, enqueued, scopes, list, run, chain>>

ShrinkBuffer ==
    /\ new_capacity # None /\ new_capacity <= 2 * size_
    /\ LET cap == MaxOf(new_capacity, MinimumCapacity) IN
         IF cap < capacity_
           THEN ring_buffer_' = Resized(cap) /\ capacity_' = cap /\ start_' = 0
           ELSE UNCHANGED <<ring_buffer_, capacity_, start_>>
    /\ new_capacity' = None
    /\ UNCHANGED <<size_, enqueued, scopes, list, run, chain>>

------------------------------------------------------------------------------
(* New inserts a queue before the default one, the destructor unlinks it.   *)
New(q) ==
    /\ next_[q] = None
    /\ LET last == prev_[Default] IN
         /\ next_' = [next_ EXCEPT ![q] = next_[last], ![last] = q]
         /\ prev_' = [prev_ EXCEPT ![q] = last, ![next_[last]] = q]
    /\ UNCHANGED <<buffer, scopes, list, run>>

(* Mutant: the successor keeps its prev_.                                   *)
DeleteHalf(q) ==
    /\ q # Default /\ next_[q] # None
    /\ next_' = [next_ EXCEPT ![prev_[q]] = next_[q], ![q] = None]
    /\ prev_' = [prev_ EXCEPT ![q] = None]
    /\ UNCHANGED <<buffer, scopes, list, run>>

Delete(q) ==
    /\ q # Default /\ next_[q] # None
    /\ next_' = [next_ EXCEPT ![prev_[q]] = next_[q], ![q] = None]
    /\ prev_' = [prev_ EXCEPT ![next_[q]] = prev_[q], ![q] = None]
    /\ UNCHANGED <<buffer, scopes, list, run>>

------------------------------------------------------------------------------
Script ==
    \/ \E builtin, pure \in BOOLEAN : EnqueueMicrotask(builtin, pure)
    \/ TerminateExecution
    \/ "scopes" \in program /\ (EnterMicrotasksScope \/ EnterSuppression)
    \/ /\ "callbacks" \in program
       /\ \E c \in Callbacks : AddMicrotasksCompletedCallback(c) \/ RemoveMicrotasksCompletedCallback(c)
    \/ "queues" \in program /\ RunsScript /\ \E q \in Queues : New(q) \/ Delete(q)

(* What the thread does when script asks for nothing more: it leaves its    *)
(* scopes, performs a checkpoint, and goes through it.                      *)
Return ==
    \/ LeaveMicrotasksScope \/ LeaveSuppression \/ PerformCheckpoint
    \/ RunSingleMicrotask \/ FinishMicrotask \/ QueueIsEmpty
    \/ CallCallback \/ ReturnFromCallback \/ LeaveRunMicrotasks

Collect == HalveCapacity \/ ShrinkBuffer

Next ==
    \/ new_capacity = None /\ (Script \/ Return)
    \/ IterateMicrotasks \/ Collect

Spec == Init /\ [][Next]_vars

(* A collection ends.  Neither collections nor script keep the thread from  *)
(* returning for ever: d8 performs a checkpoint after every task it runs.   *)
Fairness == WF_vars(Collect) /\ SF_vars(new_capacity = None /\ Return)

FairSpec == Spec /\ Fairness

------------------------------------------------------------------------------
(* Every variable has its type.                                             *)
TypeOK ==
    /\ capacity_ \in Nat /\ size_ \in 0..capacity_ /\ start_ \in 0..MaxOf(capacity_ - 1, 0)
    /\ ring_buffer_ \in [0..(capacity_ - 1) -> 0..enqueued]
    /\ new_capacity \in 0..capacity_ \cup {None} /\ enqueued \in 0..MaxMicrotasks
    /\ pc \in {"script", "loop", "task", "completed", "callback"}
    /\ is_running_microtasks_ \in BOOLEAN
    /\ microtasks_depth_ \in Nat /\ microtasks_suppressions_ \in Nat
    /\ microtasks_policy_ \in {"kAuto", "kScoped"} /\ entered \in 0..MaxScopes
    /\ program \in Programs
    /\ microtasks_completed_callbacks_ \in Seq(Callbacks)
    /\ microtasks_completed_callbacks_cow_ \in Seq(Callbacks) \cup {None}
    /\ called \in Seq(Callbacks) /\ toCall \in Seq(Callbacks) /\ registered \subseteq Callbacks
    /\ next_ \in [Queues -> Queues \cup {None}] /\ prev_ \in [Queues -> Queues \cup {None}]

(* The microtasks in the buffer, in order: get(0), get(1), ...              *)
Pending == [i \in 1..size_ |-> ring_buffer_[(start_ + i - 1) % capacity_]]

Fifo == INSTANCE MicrotaskFifo WITH queue <- Pending

(* Growing, shrinking in a collection, wrapping around and terminating: the *)
(* ring buffer is a queue, no microtask is lost, repeated or overtaken, and *)
(* the collector keeps every one of them alive.                             *)
FifoSpec == Fifo!Spec

(* OnCompleted calls each callback that was registered when it began, once  *)
(* and in order, whatever the callbacks add or remove; and no change that   *)
(* they make is forgotten.                                                  *)
CompletedCallbacks ==
    /\ is_running_completed_callbacks_ => called = SubSeq(toCall, 1, Len(called))
    /\ pc = "completed" /\ Len(called) >= Len(microtasks_completed_callbacks_) => called = toCall
    /\ {Latest[i] : i \in DOMAIN Latest} = registered
    /\ Len(Latest) = Cardinality(registered)

(* The queues of the isolate are in one ring: from the default queue, next_ *)
(* leads through every queue, once, and back, so that the collector visits  *)
(* all of them; and prev_ is its inverse.                                   *)
Live == {q \in Queues : next_[q] # None}
After(i, n) == IF i = n THEN 1 ELSE i + 1

QueueChain ==
    LET n == Cardinality(Live) IN
      \E ring \in [1..n -> Live] :
        /\ ring[1] = Default /\ \A q \in Live : \E i \in 1..n : ring[i] = q
        /\ \A i \in 1..n : /\ next_[ring[i]] = ring[After(i, n)]
                           /\ prev_[ring[After(i, n)]] = ring[i]

(* A microtask in the queue leaves it some day: no checkpoint, callback or  *)
(* scope leaves a flag behind that stops the next checkpoint.               *)
MicrotasksRun ==
    \A n \in 1..MaxMicrotasks :
      (\E i \in 1..size_ : Pending[i] = n) ~> ~(\E i \in 1..size_ : Pending[i] = n)
==============================================================================
