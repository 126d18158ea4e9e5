--------------------------- MODULE ThreadApiProofs ---------------------------
(* The thread builtins for any number of workers, functions, arrays and     *)
(* programs: what a join waits for, what a promise tells, how active_tasks_ *)
(* counts, and that a d8 that waits for background tasks loses none.        *)
EXTENDS ThreadApi, TLAPS

(* What the proofs use of sequences.                                        *)
LEMMA SeqFacts ==
    ASSUME NEW S, NEW s \in Seq(S)
    PROVE  /\ Len(s) \in Nat /\ DOMAIN s = 1..Len(s) /\ (Len(s) = 0 <=> s = <<>>)
           /\ \A i \in 1..Len(s) : s[i] \in S
  OBVIOUS

LEMMA AppendFacts ==
    ASSUME NEW S, NEW s \in Seq(S), NEW e \in S
    PROVE  /\ Append(s, e) \in Seq(S) /\ Len(Append(s, e)) = Len(s) + 1
           /\ Append(s, e)[Len(s) + 1] = e /\ \A i \in 1..Len(s) : Append(s, e)[i] = s[i]
  OBVIOUS

LEMMA TailFacts ==
    ASSUME NEW S, NEW s \in Seq(S), s # <<>>
    PROVE  /\ Head(s) \in S /\ Head(s) = s[1] /\ Tail(s) \in Seq(S) /\ Len(Tail(s)) = Len(s) - 1
           /\ \A i \in 1..Len(Tail(s)) : Tail(s)[i] = s[i + 1]
  OBVIOUS

IsFn(t) == t # None /\ t.kind \in {"call", "auto"}

(* What the fields of a task are, by its kind.                              *)
TaskFields(t) ==
    /\ t.kind \in {"call", "auto", "join", "sleep", "resolve"}
    /\ t.kind \in {"call", "auto"} => t.fn \in Functions
    /\ t.kind = "auto" => t.for \in Batches /\ t.home \in Agents
    /\ t.kind = "join" => t.for \in Batches /\ t.home \in Agents
    /\ t.kind = "sleep" => t.for \in Sleeps /\ t.home \in Agents
    /\ t.kind = "resolve" => t.for \in Promises /\ t.ok \in BOOLEAN

LEMMA TaskTypes ==
    /\ \A t \in Tasks : TaskFields(t) /\ t.kind # "resolve"
    /\ \A t \in ResolveTasks : TaskFields(t) /\ t.kind = "resolve"
<1>1. ASSUME NEW t \in Tasks PROVE TaskFields(t) /\ t.kind # "resolve"
  <2>1. CASE \E f \in Functions : t = CallTask(f)
    BY <2>1 DEF CallTask, TaskFields
  <2>2. CASE \E f \in Functions, B \in Batches, a \in Agents : t = AutoTask(f, B, a)
    BY <2>2 DEF AutoTask, TaskFields
  <2>3. CASE \E B \in Batches, a \in Agents : t = JoinTask(B, a)
    BY <2>3 DEF JoinTask, TaskFields
  <2>4. CASE \E s \in Sleeps, a \in Agents : t = SleepTask(s, a)
    BY <2>4 DEF SleepTask, TaskFields
  <2> QED  BY <2>1, <2>2, <2>3, <2>4 DEF Tasks
<1>2. ASSUME NEW t \in ResolveTasks PROVE TaskFields(t) /\ t.kind = "resolve"
  BY DEF ResolveTasks, ResolveTask, TaskFields
<1> QED  BY <1>1, <1>2

(* The tasks that the builtins make.                                        *)
LEMMA NewTasks ==
    /\ \A f \in Functions : CallTask(f) \in Tasks /\ CallTask(f).kind = "call" /\ CallTask(f).fn = f
    /\ \A f \in Functions, B \in Batches, a \in Agents :
         AutoTask(f, B, a) \in Tasks /\ AutoTask(f, B, a).kind = "auto"
    /\ \A B \in Batches, a \in Agents : JoinTask(B, a) \in Tasks /\ JoinTask(B, a).kind = "join"
                                        /\ JoinTask(B, a).for = B
    /\ \A s \in Sleeps, a \in Agents : SleepTask(s, a) \in Tasks /\ SleepTask(s, a).kind = "sleep"
    /\ \A p \in Promises, ok \in BOOLEAN : ResolveTask(p, ok) \in ResolveTasks
<1>1. \A f \in Functions : CallTask(f) \in Tasks /\ CallTask(f).kind = "call" /\ CallTask(f).fn = f
  BY DEF Tasks, CallTask
<1>2. \A f \in Functions, B \in Batches, a \in Agents :
         AutoTask(f, B, a) \in Tasks /\ AutoTask(f, B, a).kind = "auto"
  BY DEF Tasks, AutoTask
<1>3. \A B \in Batches, a \in Agents : JoinTask(B, a) \in Tasks /\ JoinTask(B, a).kind = "join"
                                        /\ JoinTask(B, a).for = B
  BY DEF Tasks, JoinTask
<1>4. \A s \in Sleeps, a \in Agents : SleepTask(s, a) \in Tasks /\ SleepTask(s, a).kind = "sleep"
  BY DEF Tasks, SleepTask
<1>5. \A p \in Promises, ok \in BOOLEAN : ResolveTask(p, ok) \in ResolveTasks
  BY DEF ResolveTasks, ResolveTask
<1> QED  BY <1>1, <1>2, <1>3, <1>4, <1>5

(* What a worker does fits the task it holds, and a function that it is     *)
(* about to let go of has its result.                                       *)
WorkerInv ==
    \A w \in Workers :
      /\ wpc[w] = "idle" => wtask[w] = None
      /\ wpc[w] \in {"call", "auto", "join", "sleep", "resolve"} =>
           wtask[w] # None /\ wtask[w].kind = wpc[w]
      /\ wpc[w] = "await" => IsFn(wtask[w])
      /\ wpc[w] = "finish" /\ IsFn(wtask[w]) => result[wtask[w].fn] # "none"

TInv == TypeOK /\ WorkerInv

LEMMA InvTypes == TInv => TypeOK /\ WorkerInv
  BY DEF TInv

(* The script that runs on an agent.                                        *)
LEMMA ScriptType ==
    ASSUME TInv, NEW a \in Agents, RunsScript(a)
    PROVE  Script(a) \in Scripts
<1>1. CASE a = Main
  BY <1>1 DEF Script, Scripts
<1>2. CASE a # Main
  <2> USE <1>2
  <2> a \in Workers /\ wpc[a] \in {"call", "auto"}
    BY DEF Agents, RunsScript
  <2> wtask[a] # None /\ wtask[a].kind \in {"call", "auto"}
    BY InvTypes DEF WorkerInv
  <2>3. wtask[a] \in Tasks \cup ResolveTasks
    BY InvTypes DEF TypeOK
  <2> QED  BY <2>3, TaskTypes DEF TaskFields, Script, Scripts
<1> QED  BY <1>1, <1>2
------------------------------------------------------------------------------
LEMMA InitTInv == Init => TInv
<1> SUFFICES ASSUME Init PROVE TInv
  OBVIOUS
<1>1. TypeOK
  <2>1. queue \in Seq(Tasks) /\ foreground \in Seq(ResolveTasks) /\ active \in Int
    BY DEF Init
  <2>2. private \in [Workers -> Seq(ResolveTasks)]
    BY DEF Init
  <2>3. wpc \in [Workers -> {"idle", "call", "auto", "join", "sleep", "resolve", "await",
                              "finish", "exited"}]
        /\ wtask \in [Workers -> Tasks \cup ResolveTasks \cup {None}]
    BY DEF Init
  <2>4. creator \in [Promises -> Scripts \cup {None}] /\ settles \in [Promises -> Nat]
        /\ promise \in [Promises -> {"none", "handle", "pending", "fulfilled", "rejected"}]
        /\ result \in [Functions -> {"none", "value", "error"}]
    BY DEF Init
  <2>5. array \in [Agents -> Batches \cup {{}}] /\ left \in [Agents -> SUBSET Functions]
    BY DEF Init
  <2> QED  BY <2>1, <2>2, <2>3, <2>4, <2>5, Zenon DEF Init, TypeOK
<1>2. WorkerInv
  BY DEF Init, WorkerInv
<1> QED  BY <1>1, <1>2 DEF TInv

(* The types of the variables of the pool, and those of the rest.           *)
PoolType ==
    /\ queue \in Seq(Tasks) /\ private \in [Workers -> Seq(ResolveTasks)]
    /\ foreground \in Seq(ResolveTasks) /\ active \in Int

LEMMA SubmitType ==
    ASSUME PoolType, NEW t \in Tasks, Submit(t)
    PROVE  PoolType'
<1>1. Append(queue, t) \in Seq(Tasks)
  BY AppendFacts DEF PoolType
<1> QED  BY <1>1 DEF PoolType, Submit

LEMMA PostBackType ==
    ASSUME PoolType, NEW a \in Agents, NEW t \in ResolveTasks, PostBack(a, t)
    PROVE  PoolType'
<1> Append(foreground, t) \in Seq(ResolveTasks)
      /\ \A w \in Workers : Append(private[w], t) \in Seq(ResolveTasks)
  BY AppendFacts DEF PoolType
<1>2. CASE a = Main
  BY <1>2, Zenon DEF PoolType, PostBack
<1>3. CASE a # Main
  <2> USE <1>3
  <2>1. a \in Workers
    BY DEF Agents
  <2> private' = [private EXCEPT ![a] = Append(private[a], t)] /\ active' = active + 1
        /\ foreground' = foreground /\ queue' = queue
    BY DEF PostBack
  <2>3. private' \in [Workers -> Seq(ResolveTasks)]
    BY <2>1 DEF PoolType
  <2> QED  BY <2>3 DEF PoolType
<1> QED  BY <1>2, <1>3

LEMMA SamePool == ASSUME PoolType, UNCHANGED pool PROVE PoolType'
  BY DEF PoolType, pool

OtherType ==
    /\ wpc \in [Workers -> {"idle", "call", "auto", "join", "sleep", "resolve", "await",
                            "finish", "exited"}]
    /\ wtask \in [Workers -> Tasks \cup ResolveTasks \cup {None}]
    /\ mpc \in {"script", "waitForWork", "doNotWait", "finished", "joinAll", "gone"}
    /\ wait_for_background_tasks \in BOOLEAN /\ program \in Programs /\ disposing \in BOOLEAN
    /\ array \in [Agents -> Batches \cup {{}}]
    /\ left \in [Agents -> SUBSET Functions]
    /\ creator \in [Promises -> Scripts \cup {None}]
    /\ promise \in [Promises -> {"none", "handle", "pending", "fulfilled", "rejected"}]
    /\ settles \in [Promises -> Nat] /\ result \in [Functions -> {"none", "value", "error"}]

LEMMA SplitType == TypeOK <=> PoolType /\ OtherType
  BY DEF TypeOK, PoolType, OtherType

LEMMA SplitTypeNext == TypeOK' <=> PoolType' /\ OtherType'
  BY DEF TypeOK, PoolType, OtherType

(* The builtins.                                                            *)
LEMMA BuiltinTInv ==
    ASSUME TInv, NEW a \in Agents, Builtin(a) \/ FinishBuiltin(a)
    PROVE  TInv'
<1> PoolType /\ OtherType /\ (RunsScript(a) => Script(a) \in Scripts) /\ Batches \subseteq Promises
      /\ Sleeps \subseteq Promises
  BY SplitType, ScriptType DEF TInv, Promises
<1> wpc' = wpc /\ wtask' = wtask /\ main' = main /\ result' = result /\ settles' = settles
  BY Zenon DEF Builtin, FinishBuiltin, ThreadSpawn, Intercept, ArrayParallel, ThreadJoin, ThreadSleep,
         ChunkNotSerializable, SubmitChunk, SubmitArrayJoin, outcome
<1>2. WorkerInv'
  BY InvTypes DEF WorkerInv
<1>3. ASSUME NEW f \in Functions, ThreadSpawn(a, f) PROVE TypeOK'
  <2> USE <1>3
  <2>0. {f} \in Batches
    BY ApiAssumption DEF ThreadSpawn, OtherType, Promises
  <2>1. CallTask(f) \in Tasks /\ Submit(CallTask(f))
    BY NewTasks DEF ThreadSpawn
  <2>2. PoolType'
    BY <2>1, SubmitType, Zenon
  <2>3. OtherType'
    BY <2>0 DEF ThreadSpawn, NewPromise, OtherType, main, d8, builtin
  <2> QED  BY <2>2, <2>3, SplitTypeNext
<1>4. ASSUME NEW f \in Functions, Intercept(a, f) PROVE TypeOK'
  <2> USE <1>4
  <2> {f} \in Batches
    BY ApiAssumption DEF Intercept, OtherType, Promises
  <2>1. AutoTask(f, {f}, a) \in Tasks /\ Submit(AutoTask(f, {f}, a))
    BY NewTasks DEF Intercept
  <2>2. PoolType'
    BY <2>1, SubmitType, Zenon
  <2>3. OtherType'
    BY DEF Intercept, NewPromise, OtherType, main, d8, builtin
  <2> QED  BY <2>2, <2>3, SplitTypeNext
<1>5. ASSUME NEW B \in Batches, ArrayParallel(a, B) PROVE TypeOK'
  <2> USE <1>5
  <2>1. OtherType'
    BY ApiAssumption DEF ArrayParallel, OtherType, main, d8, outcome
  <2> QED  BY <2>1, SamePool, SplitTypeNext, Zenon DEF ArrayParallel
<1>6. ASSUME NEW B \in Batches, ThreadJoin(a, B) PROVE TypeOK'
  <2> USE <1>6
  <2>1. JoinTask(B, a) \in Tasks /\ Submit(JoinTask(B, a))
    BY NewTasks DEF ThreadJoin
  <2>2. PoolType'
    BY <2>1, SubmitType
  <2>3. OtherType'
    BY DEF ThreadJoin, NewPromise, OtherType, main, d8, builtin
  <2> QED  BY <2>2, <2>3, SplitTypeNext, Zenon
<1>7. ASSUME NEW s \in Sleeps, ThreadSleep(a, s) PROVE TypeOK'
  <2> USE <1>7
  <2>1. SleepTask(s, a) \in Tasks /\ Submit(SleepTask(s, a))
    BY NewTasks DEF ThreadSleep
  <2>2. PoolType'
    BY <2>1, SubmitType, Zenon
  <2>3. OtherType'
    BY DEF ThreadSleep, NewPromise, OtherType, main, d8, builtin
  <2> QED  BY <2>2, <2>3, SplitTypeNext, Zenon
<1>8. ASSUME ChunkNotSerializable(a) PROVE TypeOK'
  <2> USE <1>8
  <2>1. OtherType'
    BY DEF ChunkNotSerializable, OtherType, main, d8, outcome
  <2> QED  BY <2>1, SamePool, SplitTypeNext DEF ChunkNotSerializable
<1>9. ASSUME NEW f \in Functions, SubmitChunk(a, f) PROVE TypeOK'
  <2> USE <1>9
  <2>1. CallTask(f) \in Tasks /\ Submit(CallTask(f))
    BY NewTasks DEF SubmitChunk
  <2>2. PoolType'
    BY <2>1, SubmitType
  <2>3. OtherType'
    BY DEF SubmitChunk, OtherType, main, d8, outcome
  <2> QED  BY <2>2, <2>3, SplitTypeNext
<1>10. ASSUME SubmitArrayJoin(a) PROVE TypeOK'
  <2> USE <1>10
  <2> array[a] \in Batches
    BY Zenon DEF SubmitArrayJoin, OtherType
  <2>2. JoinTask(array[a], a) \in Tasks /\ Submit(JoinTask(array[a], a))
    BY NewTasks DEF SubmitArrayJoin
  <2>3. PoolType'
    BY <2>2, SubmitType
  <2>4. OtherType'
    BY DEF SubmitArrayJoin, OtherType, main, d8
  <2> QED  BY <2>3, <2>4, SplitTypeNext
<1> QED  BY <1>2, <1>3, <1>4, <1>5, <1>6, <1>7, <1>8, <1>9, <1>10
         DEF Builtin, FinishBuiltin, TInv

(* The task that a worker holds while it runs it.                           *)
LEMMA HeldTask ==
    ASSUME TInv, NEW w \in Workers, wpc[w] \in {"call", "auto", "join", "sleep", "resolve"}
    PROVE  wtask[w] # None /\ wtask[w].kind = wpc[w] /\ TaskFields(wtask[w])
<1>1. wtask[w] # None /\ wtask[w].kind = wpc[w]
  BY InvTypes DEF WorkerInv
<1>2. wtask[w] \in Tasks \cup ResolveTasks
  BY <1>1, InvTypes DEF TypeOK
<1> QED  BY <1>1, <1>2, TaskTypes

LEMMA GetTaskTInv ==
    ASSUME TInv, NEW w \in Workers, GetTask(w)
    PROVE  TInv'
<1> PoolType /\ OtherType
  BY SplitType DEF TInv
<1> DEFINE q == IF private[w] # <<>> THEN private[w] ELSE queue
<1> /\ q # <<>> /\ wtask' = [wtask EXCEPT ![w] = Head(q)]
      /\ wpc' = [wpc EXCEPT ![w] = Head(q).kind]
  BY DEF GetTask
<1> Head(q) \in Tasks \cup ResolveTasks /\ PoolType'
  <2>1. CASE private[w] # <<>>
    <3> USE <2>1
    <3> Head(private[w]) \in ResolveTasks /\ Tail(private[w]) \in Seq(ResolveTasks)
      BY TailFacts DEF PoolType
    <3> private' = [private EXCEPT ![w] = Tail(private[w])] /\ queue' = queue
          /\ foreground' = foreground /\ active' = active
      BY DEF GetTask
    <3>3. private' \in [Workers -> Seq(ResolveTasks)]
      BY DEF PoolType
    <3> QED  BY <3>3 DEF PoolType
  <2>2. CASE private[w] = <<>>
    <3> USE <2>2
    <3>1. queue # <<>>
      OBVIOUS
    <3>2. Head(queue) \in Tasks /\ Tail(queue) \in Seq(Tasks)
      BY <3>1, TailFacts DEF PoolType
    <3> QED  BY <3>2, Zenon DEF PoolType, GetTask
  <2> QED  BY <2>1, <2>2
<1> HIDE DEF q
<1> Head(q).kind \in {"call", "auto", "join", "sleep", "resolve"}
  BY TaskTypes, Zenon DEF TaskFields
<1>4. OtherType'
  BY DEF OtherType, GetTask, main, d8, builtin, outcome
<1>5. WorkerInv'
  BY NoneAssumption, InvTypes DEF WorkerInv, IsFn, GetTask, OtherType, outcome
<1> QED  BY <1>4, <1>5, SplitTypeNext DEF TInv

LEMMA SettleType ==
    ASSUME OtherType, NEW p \in Promises, NEW ok, Settle(p, ok)
    PROVE  /\ promise' \in [Promises -> {"none", "handle", "pending", "fulfilled", "rejected"}]
           /\ settles' \in [Promises -> Nat]
  BY DEF OtherType, Settle

LEMMA WorkerTInv ==
    ASSUME TInv, NEW w \in Workers, WorkerStep(w)
    PROVE  TInv'
<1> PoolType /\ OtherType /\ w \in Agents
  BY SplitType DEF TInv, Agents
<1>1. CASE GetTask(w)
  BY <1>1, GetTaskTInv
<1>2. CASE LeavePool(w)
  <2>1. PoolType' /\ OtherType'
    BY <1>2, SamePool, Zenon DEF LeavePool, OtherType, main, d8, builtin, outcome
  <2>2. WorkerInv'
    BY <1>2, InvTypes DEF LeavePool, WorkerInv, OtherType, outcome
  <2> QED  BY <2>1, <2>2, SplitTypeNext DEF TInv
<1>3. CASE FinishTask(w)
  <2>1. PoolType'
    BY <1>3 DEF FinishTask, PoolType
  <2>2. OtherType'
    BY <1>3, Zenon DEF FinishTask, OtherType, main, d8, builtin, outcome
  <2>3. WorkerInv'
    BY <1>3, InvTypes, ZenonT(40) DEF FinishTask, WorkerInv, OtherType, IsFn, outcome
  <2> QED  BY <2>1, <2>2, <2>3, SplitTypeNext DEF TInv
<1>4. CASE EndFunction(w)
  <2> wpc[w] \in {"call", "auto"}
    BY <1>4, ApiAssumption DEF EndFunction, RunsScript
  <2> wtask[w] # None /\ wtask[w].kind = wpc[w] /\ TaskFields(wtask[w])
    BY HeldTask
  <2> DEFINE ok == wtask[w].fn \notin Failing
  <2>3. PoolType'
    <3>1. CASE wpc[w] = "auto"
      <4>1. wtask[w].home \in Agents /\ wtask[w].for \in Promises /\ ok \in BOOLEAN
        BY <3>1, Zenon DEF TaskFields, Promises
      <4>2. PostBack(wtask[w].home, ResolveTask(wtask[w].for, ok))
        BY <1>4, <3>1, Zenon DEF EndFunction
      <4> HIDE DEF ok
      <4> QED  BY <4>1, <4>2, NewTasks, PostBackType, Zenon
    <3>2. CASE wpc[w] # "auto"
      BY <1>4, <3>2, SamePool, Zenon DEF EndFunction
    <3> QED  BY <3>1, <3>2, Zenon
  <2> wtask[w].fn \in Functions
    BY Zenon DEF TaskFields
  <2> result' = [result EXCEPT ![wtask[w].fn] = IF ok THEN "value" ELSE "error"]
        /\ wpc' = [wpc EXCEPT ![w] = "finish"] /\ wtask' = wtask
    BY <1>4, Zenon DEF EndFunction, GoTo
  <2>6. OtherType'
    BY <1>4, Zenon DEF EndFunction, OtherType, main, d8, builtin
  <2>7. WorkerInv'
    BY InvTypes DEF WorkerInv, OtherType, IsFn
  <2> QED  BY <2>3, <2>6, <2>7, SplitTypeNext, Zenon DEF TInv
<1>5. CASE Await(w)
  <2> wpc[w] \in {"call", "auto"}
    BY <1>5, ApiAssumption, Zenon DEF Await, RunsScript
  <2>2. wtask[w] # None /\ wtask[w].kind = wpc[w]
    BY HeldTask, Zenon
  <2>3. PoolType' /\ OtherType'
    BY <1>5, SamePool, Zenon DEF Await, GoTo, OtherType, main, d8, builtin, outcome
  <2>4. WorkerInv'
    BY <1>5, <2>2, InvTypes DEF Await, GoTo, WorkerInv, IsFn, OtherType, outcome
  <2> QED  BY <2>3, <2>4, SplitTypeNext, Zenon DEF TInv
<1>6. CASE AwaitLoop(w)
  <2> DEFINE task == Head(private[w])
  <2> task \in ResolveTasks /\ Tail(private[w]) \in Seq(ResolveTasks)
    BY <1>6, TailFacts, Zenon DEF PoolType, AwaitLoop
  <2>2. task.for \in Promises /\ Settle(task.for, task.ok)
    BY <1>6, TaskTypes, Zenon DEF TaskFields, AwaitLoop
  <2> wpc[w] = "await" /\ IsFn(wtask[w])
    BY <1>6, InvTypes DEF AwaitLoop, WorkerInv
  <2> \/ wpc' = [wpc EXCEPT ![w] = wtask[w].kind]
        \/ wpc' = [wpc EXCEPT ![w] = "await"]
    BY <1>6, Zenon DEF AwaitLoop, GoTo
  <2> private' = [private EXCEPT ![w] = Tail(private[w])] /\ queue' = queue
        /\ foreground' = foreground /\ active' \in Int
    BY <1>6 DEF AwaitLoop, PoolType
  <2>6. private' \in [Workers -> Seq(ResolveTasks)]
    BY Zenon DEF PoolType
  <2>7. PoolType'
    BY <2>6, Zenon DEF PoolType
  <2>8. wpc' \in [Workers -> {"idle", "call", "auto", "join", "sleep", "resolve", "await",
                              "finish", "exited"}]
    BY ZenonT(40) DEF OtherType, IsFn
  <2>9. /\ promise' \in [Promises -> {"none", "handle", "pending", "fulfilled", "rejected"}]
        /\ settles' \in [Promises -> Nat]
    BY <2>2, SettleType, Zenon
  <2>10. OtherType'
    BY <1>6, <2>8, <2>9, Zenon DEF OtherType, AwaitLoop, main, d8, builtin
  <2>11. WorkerInv'
    BY <1>6, InvTypes DEF AwaitLoop, WorkerInv, IsFn, OtherType
  <2> QED  BY <2>7, <2>10, <2>11, SplitTypeNext, Zenon DEF TInv
<1>7. CASE RunJoin(w) \/ RunSleep(w)
  <2> wtask[w] # None /\ wtask[w].kind = wpc[w] /\ TaskFields(wtask[w])
        /\ wpc[w] \in {"join", "sleep"}
    BY <1>7, HeldTask, Zenon DEF RunJoin, RunSleep
  <2>2. wtask[w].for \in Promises /\ wtask[w].home \in Agents
    BY DEF TaskFields, Promises
  <2>3. \/ UNCHANGED pool
        \/ \E ok \in BOOLEAN : PostBack(wtask[w].home, ResolveTask(wtask[w].for, ok))
    BY <1>7, Zenon DEF RunJoin, RunSleep
  <2>4. PoolType'
    <3>1. CASE UNCHANGED pool
      BY <3>1, SamePool, Zenon
    <3>2. ASSUME NEW ok \in BOOLEAN, PostBack(wtask[w].home, ResolveTask(wtask[w].for, ok))
          PROVE  PoolType'
      BY <2>2, <3>2, NewTasks, PostBackType
    <3> QED  BY <2>3, <3>1, <3>2
  <2> wpc' = [wpc EXCEPT ![w] = "finish"] /\ wtask' = wtask /\ result' = result
    BY <1>7, Zenon DEF RunJoin, RunSleep, GoTo, outcome
  <2>6. OtherType'
    BY <1>7, Zenon DEF OtherType, RunJoin, RunSleep, main, d8, builtin, outcome
  <2>7. WorkerInv'
    BY InvTypes DEF WorkerInv, IsFn, OtherType
  <2> QED  BY <2>4, <2>6, <2>7, SplitTypeNext DEF TInv
<1>8. CASE RunResolve(w)
  <2> wtask[w] # None /\ wtask[w].kind = "resolve" /\ TaskFields(wtask[w])
    BY <1>8, HeldTask, Zenon DEF RunResolve
  <2>2. wtask[w].for \in Promises /\ Settle(wtask[w].for, wtask[w].ok)
    BY <1>8, Zenon DEF TaskFields, RunResolve
  <2>3. /\ promise' \in [Promises -> {"none", "handle", "pending", "fulfilled", "rejected"}]
        /\ settles' \in [Promises -> Nat]
    BY <2>2, SettleType, Zenon
  <2>4. PoolType' /\ OtherType'
    BY <1>8, <2>3, SamePool, Zenon DEF RunResolve, GoTo, OtherType, main, d8, builtin
  <2>5. WorkerInv'
    BY <1>8, InvTypes DEF RunResolve, GoTo, WorkerInv, IsFn, OtherType
  <2> QED  BY <2>4, <2>5, SplitTypeNext, Zenon DEF TInv
<1> QED  BY <1>1, <1>2, <1>3, <1>4, <1>5, <1>6, <1>7, <1>8 DEF WorkerStep

LEMMA MainTInv ==
    ASSUME TInv, MainStep
    PROVE  TInv'
<1> PoolType /\ OtherType
  BY SplitType, Zenon DEF TInv
<1> wpc' = wpc /\ wtask' = wtask /\ result' = result
  BY Zenon DEF MainStep, EndScript, PumpMessageLoop, LeaveMessageLoop, Dispose, outcome
<1> WorkerInv'
  BY InvTypes DEF WorkerInv
<1>3. CASE PumpMessageLoop
  <2> USE <1>3
  <2> Head(foreground) \in ResolveTasks /\ Tail(foreground) \in Seq(ResolveTasks)
    BY TailFacts, Zenon DEF PoolType, PumpMessageLoop
  <2>2. Head(foreground).for \in Promises /\ Settle(Head(foreground).for, Head(foreground).ok)
    BY TaskTypes DEF TaskFields, PumpMessageLoop
  <2>3. /\ promise' \in [Promises -> {"none", "handle", "pending", "fulfilled", "rejected"}]
        /\ settles' \in [Promises -> Nat]
    BY <2>2, SettleType
  <2>4. PoolType'
    BY Zenon DEF PoolType, PumpMessageLoop
  <2>5. OtherType'
    BY <2>3 DEF PumpMessageLoop, OtherType, d8, builtin
  <2> QED  BY <2>4, <2>5, SplitTypeNext DEF TInv
<1>4. CASE EndScript \/ LeaveMessageLoop \/ Dispose
  <2> USE <1>4
  <2>1. PoolType'
    BY SamePool DEF EndScript, LeaveMessageLoop, Dispose
  <2>2. OtherType'
    BY Zenon DEF EndScript, LeaveMessageLoop, Dispose, OtherType, d8, builtin, outcome
  <2> QED  BY <2>1, <2>2, SplitTypeNext, Zenon DEF TInv
<1> QED  BY <1>3, <1>4 DEF MainStep

LEMMA NextTInv == TInv /\ [Next]_vars => TInv'
<1> SUFFICES ASSUME TInv, [Next]_vars PROVE TInv'
  OBVIOUS
<1>1. ASSUME NEW a \in Agents, Builtin(a) \/ FinishBuiltin(a) PROVE TInv'
  BY <1>1, BuiltinTInv
<1>2. ASSUME NEW w \in Workers, WorkerStep(w) PROVE TInv'
  BY <1>2, WorkerTInv
<1>3. CASE MainStep
  BY <1>3, MainTInv, Zenon
<1>4. CASE UNCHANGED vars
  BY <1>4, InvTypes DEF TInv, vars, pool, main, d8, builtin, outcome, TypeOK, WorkerInv, IsFn
<1> QED  BY <1>1, <1>2, <1>3, <1>4 DEF Next

(* The state of the API has its type for any pool, program and order of     *)
(* steps; in particular only resolve tasks reach a worker's private queue   *)
(* and the foreground task runner.                                          *)
THEOREM TypeCorrect == Spec => []TypeOK
<1>1. Init => TInv
  BY InitTInv
<1>2. TInv /\ [Next]_vars => TInv'
  BY NextTInv
<1>3. TInv => TypeOK
  BY Zenon DEF TInv
<1> QED  BY <1>1, <1>2, <1>3, PTL DEF Spec

------------------------------------------------------------------------------
(* What a step leaves alone, and what it does to the pool.                  *)

(* A worker that finishes holds a task; one that awaits runs a function     *)
(* that may.                                                                *)
HoldInv ==
    \A w \in Workers : /\ wpc[w] = "finish" => wtask[w] # None
                       /\ wpc[w] = "await" => wtask[w].fn \in Async

LEMMA WorkerShape ==
    ASSUME TInv, NEW w \in Workers, WorkerStep(w)
    PROVE  /\ UNCHANGED <<main, builtin, creator>>
           /\ \A v \in Workers : v # w => wpc'[v] = wpc[v] /\ wtask'[v] = wtask[v]
           /\ wpc[w] \in {"call", "auto"} => array[w] = {}
<1>0. wpc \in [Workers -> {"idle", "call", "auto", "join", "sleep", "resolve", "await", "finish", "exited"}]
      /\ wtask \in [Workers -> Tasks \cup ResolveTasks \cup {None}]
  BY InvTypes DEF TypeOK
<1>1. UNCHANGED <<main, builtin, creator>>
  BY Zenon DEF WorkerStep, GetTask, LeavePool, FinishTask, EndFunction, Await, AwaitLoop, RunJoin, RunSleep, RunResolve
<1>2. \E label : wpc' = [wpc EXCEPT ![w] = label]
  BY Zenon DEF WorkerStep, GetTask, LeavePool, FinishTask, EndFunction, Await, AwaitLoop, RunJoin, RunSleep, RunResolve, GoTo
<1>3. wtask' = wtask \/ \E t : wtask' = [wtask EXCEPT ![w] = t]
  BY Zenon DEF WorkerStep, GetTask, LeavePool, FinishTask, EndFunction, Await, AwaitLoop, RunJoin, RunSleep, RunResolve
<1>4. wpc[w] \in {"call", "auto"} => array[w] = {}
  BY Zenon DEF WorkerStep, GetTask, LeavePool, FinishTask, EndFunction, Await, AwaitLoop, RunJoin, RunSleep, RunResolve, RunsScript
<1>5. \A v \in Workers : v # w => wpc'[v] = wpc[v] /\ wtask'[v] = wtask[v]
  BY <1>0, <1>2, <1>3
<1> QED  BY <1>1, <1>4, <1>5, Zenon

LEMMA WorkerPool ==
    ASSUME TInv, NEW w \in Workers, WorkerStep(w)
    PROVE  \/ GetTask(w) \/ FinishTask(w) \/ AwaitLoop(w)
           \/ UNCHANGED <<queue, private, active, wtask>>
           \/ wtask' = wtask /\ \E a \in Agents : \E r \in ResolveTasks : PostBack(a, r)
<1>0. TypeOK /\ WorkerInv
  BY InvTypes, Zenon
<1>1. CASE LeavePool(w) \/ Await(w)
  BY <1>1, Zenon DEF LeavePool, Await, pool
<1>2. CASE EndFunction(w) \/ RunJoin(w) \/ RunSleep(w) \/ RunResolve(w)
  <2> /\ wpc[w] \in {"call", "auto", "join", "sleep", "resolve"} /\ wtask' = wtask
        /\ \/ UNCHANGED pool
           \/ wpc[w] \in {"auto", "join", "sleep"} /\ \E ok \in BOOLEAN : PostBack(wtask[w].home, ResolveTask(wtask[w].for, ok))
    <3>1. CASE EndFunction(w)
      <4> USE <3>1
      <4>1. wpc[w] \in {"call", "auto"} /\ (wtask[w].fn \notin Failing) \in BOOLEAN
        BY ApiAssumption DEF EndFunction, RunsScript
      <4> QED  BY <4>1, Zenon DEF EndFunction
    <3>2. CASE RunJoin(w)
      <4>1. (\A f \in wtask[w].for : result[f] = "value") \in BOOLEAN
        OBVIOUS
      <4> QED  BY <3>2, <4>1, Zenon DEF RunJoin
    <3>3. CASE RunSleep(w)
      BY <3>3, Zenon DEF RunSleep
    <3>4. CASE RunResolve(w)
      BY <3>4, Zenon DEF RunResolve
    <3> QED  BY <1>2, <3>1, <3>2, <3>3, <3>4
  <2>2. CASE UNCHANGED pool
    BY <2>2 DEF pool
  <2>3. CASE wpc[w] \in {"auto", "join", "sleep"} /\ \E ok \in BOOLEAN : PostBack(wtask[w].home, ResolveTask(wtask[w].for, ok))
    <3> USE <2>3
    <3>1. PICK ok \in BOOLEAN : PostBack(wtask[w].home, ResolveTask(wtask[w].for, ok))
      BY Zenon
    <3> wtask[w].home \in Agents /\ wtask[w].for \in Promises
      BY HeldTask DEF TaskFields, Promises
    <3>3. ResolveTask(wtask[w].for, ok) \in ResolveTasks
      BY DEF ResolveTasks
    <3> QED  BY <3>1, <3>3, Zenon
  <2> QED  BY <2>2, <2>3, Zenon
<1> QED  BY <1>1, <1>2, Zenon DEF WorkerStep

LEMMA WorkerHold ==
    ASSUME TInv, HoldInv, NEW w \in Workers, WorkerStep(w)
    PROVE  HoldInv'
<1> TypeOK /\ WorkerInv
  BY InvTypes
<1>1. ASSUME wpc'[w] = "finish" => wtask'[w] # None, wpc'[w] = "await" => wtask'[w].fn \in Async
      PROVE  HoldInv'
  <2>1. \A v \in Workers : v # w => wpc'[v] = wpc[v] /\ wtask'[v] = wtask[v]
    BY WorkerShape, Zenon
  <2> QED  BY <1>1, <2>1, Zenon DEF HoldInv
<1>2. CASE GetTask(w)
  <2>1. PICK t \in Tasks \cup ResolveTasks : wpc' = [wpc EXCEPT ![w] = t.kind]
    BY <1>2, TailFacts, Zenon DEF GetTask, TypeOK
  <2>2. wpc'[w] \notin {"finish", "await"}
    BY <2>1, TaskTypes, Zenon DEF TypeOK, TaskFields
  <2> QED  BY <1>1, <2>2
<1>3. CASE LeavePool(w) \/ FinishTask(w)
  <2>1. wpc'[w] \notin {"finish", "await"}
    BY <1>3, Zenon DEF LeavePool, FinishTask, TypeOK
  <2> QED  BY <1>1, <2>1, Zenon
<1>4. CASE Await(w)
  <2>1. wtask' = wtask /\ wpc'[w] = "await" /\ wtask[w].fn \in Async
    BY <1>4, Zenon DEF Await, GoTo, TypeOK
  <2> QED  BY <1>1, <2>1, Zenon
<1>5. CASE AwaitLoop(w)
  <2> wpc[w] = "await" /\ wtask' = wtask /\ wpc'[w] \in {wtask[w].kind, "await"}
    BY <1>5, Zenon DEF AwaitLoop, GoTo, TypeOK
  <2>2. wtask[w].kind \in {"call", "auto"} /\ wtask[w].fn \in Async
    BY DEF WorkerInv, IsFn, HoldInv
  <2> QED  BY <1>1, <2>2, Zenon
<1>6. CASE EndFunction(w) \/ RunJoin(w) \/ RunSleep(w) \/ RunResolve(w)
  <2> /\ wpc[w] \in {"call", "auto", "join", "sleep", "resolve"} /\ wtask' = wtask
        /\ wpc' = [wpc EXCEPT ![w] = "finish"]
    BY <1>6, ApiAssumption, Zenon DEF EndFunction, RunsScript, RunJoin, RunSleep, RunResolve, GoTo
  <2>2. wtask[w] # None /\ wpc'[w] = "finish"
    BY HeldTask DEF TypeOK
  <2> QED  BY <1>1, <2>2
<1> QED  BY <1>2, <1>3, <1>4, <1>5, <1>6, Zenon DEF WorkerStep

(* A builtin submits one task, or none.                                     *)
LEMMA BuiltinShape ==
    ASSUME TInv, NEW a \in Agents, Builtin(a) \/ FinishBuiltin(a)
    PROVE  /\ UNCHANGED <<wpc, wtask, main>>
           /\ UNCHANGED pool \/ \E t \in Tasks : Submit(t)
           /\ RunsScript(a) \/ array[a] # {} \/ left[a] # {}
           /\ \A b \in Agents : array'[b] # {} => array[b] # {} \/ (b = a /\ RunsScript(a))
<1> array \in [Agents -> Batches \cup {{}}] /\ Batches \subseteq Promises /\ Batches \subseteq SUBSET Functions
  BY ApiAssumption, InvTypes DEF TypeOK, Promises
<1>1. ASSUME NEW f \in Functions, ThreadSpawn(a, f) \/ Intercept(a, f)
      PROVE  /\ UNCHANGED <<wpc, wtask, main, builtin>> /\ RunsScript(a)
             /\ \E t \in Tasks : Submit(t)
  <2>1. CASE ThreadSpawn(a, f)
    BY <2>1, NewTasks, Zenon DEF ThreadSpawn
  <2>2. CASE Intercept(a, f)
    <3> USE <2>2
    <3>1. Script(a) \in Scripts /\ {f} \in program[Script(a)] /\ program \in [Scripts -> SUBSET Promises]
      BY ScriptType, ApiAssumption, InvTypes, Zenon DEF Intercept, TypeOK
    <3>2. {f} \in Batches
      BY <3>1, ApiAssumption DEF Promises
    <3> QED  BY <3>2, NewTasks, Zenon DEF Intercept
  <2> QED  BY <1>1, <2>1, <2>2
<1>2. ASSUME NEW B \in Batches, ThreadJoin(a, B)
      PROVE  UNCHANGED <<wpc, wtask, main, builtin>> /\ RunsScript(a) /\ \E t \in Tasks : Submit(t)
  BY <1>2, NewTasks, Zenon DEF ThreadJoin
<1>3. ASSUME NEW s \in Sleeps, ThreadSleep(a, s)
      PROVE  UNCHANGED <<wpc, wtask, main, builtin>> /\ RunsScript(a) /\ \E t \in Tasks : Submit(t)
  BY <1>3, NewTasks, Zenon DEF ThreadSleep
<1>4. ASSUME NEW B \in Batches, ArrayParallel(a, B)
      PROVE  /\ UNCHANGED <<wpc, wtask, main>> /\ UNCHANGED pool /\ RunsScript(a)
             /\ \A b \in Agents : b # a => array'[b] = array[b]
  BY <1>4, Zenon DEF ArrayParallel
<1>5. CASE ChunkNotSerializable(a)
  <2> USE <1>5
  <2>1. UNCHANGED <<wpc, wtask, main>> /\ UNCHANGED pool /\ left[a] # {}
    BY DEF ChunkNotSerializable
  <2>2. \A b \in Agents : array'[b] # {} => array[b] # {}
    BY Zenon DEF ChunkNotSerializable
  <2> QED  BY <2>1, <2>2, Zenon
<1>6. ASSUME NEW f \in Functions, SubmitChunk(a, f)
      PROVE  UNCHANGED <<wpc, wtask, main>> /\ left[a] # {} /\ array' = array /\ \E t \in Tasks : Submit(t)
  BY <1>6, NewTasks DEF SubmitChunk
<1>7. CASE SubmitArrayJoin(a)
  <2> USE <1>7
  <2>1. UNCHANGED <<wpc, wtask, main>> /\ array[a] # {}
    BY Zenon DEF SubmitArrayJoin
  <2>2. \A b \in Agents : array'[b] # {} => array[b] # {}
    BY Zenon DEF SubmitArrayJoin
  <2>3. array[a] \in Batches /\ Submit(JoinTask(array[a], a))
    BY Zenon DEF SubmitArrayJoin
  <2> QED  BY <2>1, <2>2, <2>3, NewTasks, Zenon
<1> QED  BY <1>1, <1>2, <1>3, <1>4, <1>5, <1>6, <1>7, Zenon DEF Builtin, FinishBuiltin, builtin

------------------------------------------------------------------------------
(* Function f has ended, is held by a worker, or is in the queue at a       *)
(* position before i.                                                       *)
Before(f, i) ==
    \/ HeldFn(f) \/ result[f] # "none"
    \/ \E j \in 1..(i - 1) : queue[j].kind \in {"call", "auto"} /\ queue[j].fn = f

Started(f) == Before(f, Len(queue) + 1)

(* Every join in the queue comes after the functions it waits for; so does  *)
(* every join that a handle or an array method may still submit.            *)
QueueInv == \A i \in 1..Len(queue) : queue[i].kind = "join" => \A f \in queue[i].for : Before(f, i)
HandleInv == \A B \in Batches : promise[B] = "handle" => \A f \in B : Started(f)
ArrayInv == \A a \in Agents : \A f \in array[a] \ left[a] : Started(f)

JInv == TInv /\ QueueInv /\ HandleInv /\ ArrayInv /\ WaitsForStarted

(* A step that leaves the queue and the functions alone, or gives one of    *)
(* them its result.                                                         *)
LEMMA SameQueue ==
    ASSUME TInv, queue' = queue, wtask' = wtask,
           \A f \in Functions : result[f] # "none" => result'[f] # "none"
    PROVE  /\ \A f \in Functions : HeldFn(f) => HeldFn(f)'
           /\ \A f \in Functions, i \in Nat : Before(f, i) => Before(f, i)'
           /\ \A f \in Functions : Started(f) => Started(f)'
<1> \A f \in Functions : HeldFn(f) => HeldFn(f)'
  BY Zenon DEF HeldFn
<1> \A f \in Functions, i \in Nat : Before(f, i) => Before(f, i)'
  BY Zenon DEF Before
<1>3. \A f \in Functions : Started(f) => Started(f)'
  <2>1. Len(queue) + 1 \in Nat
    BY InvTypes DEF TypeOK
  <2>2. \A f : Started(f)' <=> Before(f, Len(queue) + 1)'
    BY Zenon DEF Started, Before
  <2> QED  BY <2>1, <2>2, Zenon DEF Started
<1> QED  BY <1>3, Zenon

(* A new task at the end of the queue.                                      *)
LEMMA SubmitBefore ==
    ASSUME TInv, NEW t \in Tasks, Submit(t), wtask' = wtask, result' = result
    PROVE  /\ Len(queue) \in Nat /\ Len(queue') = Len(queue) + 1 /\ queue'[Len(queue) + 1] = t
           /\ \A i \in 1..Len(queue) : queue'[i] = queue[i]
           /\ \A f \in Functions : HeldFn(f) => HeldFn(f)'
           /\ \A f \in Functions, i \in 1..(Len(queue) + 1) : Before(f, i) => Before(f, i)'
           /\ \A f \in Functions : Started(f) => Started(f)'
           /\ IsFn(t) => Started(t.fn)'
<1>1. queue \in Seq(Tasks) /\ queue' = Append(queue, t)
  BY InvTypes, Zenon DEF TypeOK, Submit
<1> Len(queue) \in Nat /\ Len(queue') = Len(queue) + 1 /\ queue'[Len(queue) + 1] = t
      /\ \A i \in 1..Len(queue) : queue'[i] = queue[i]
  BY <1>1, AppendFacts
<1> \A f \in Functions : HeldFn(f) => HeldFn(f)'
  BY Zenon DEF HeldFn
<1>4. \A f \in Functions, i \in 1..(Len(queue) + 1) : Before(f, i) => Before(f, i)'
  BY DEF Before
<1>5. ASSUME NEW f \in Functions, Started(f) PROVE Started(f)'
  <2>1. Before(f, Len(queue) + 1)
    BY <1>5, Zenon DEF Started
  <2>2. CASE HeldFn(f) \/ result[f] # "none"
    BY <2>2, Zenon DEF Started, Before
  <2>3. ASSUME NEW j \in 1..Len(queue), queue[j].kind \in {"call", "auto"}, queue[j].fn = f
        PROVE  Started(f)'
    <3>1. j \in 1..(Len(queue') + 1 - 1) /\ queue'[j] = queue[j]
      OBVIOUS
    <3> QED  BY <2>3, <3>1 DEF Started, Before
  <2> QED  BY <2>1, <2>2, <2>3 DEF Before
<1>6. ASSUME IsFn(t) PROVE Started(t.fn)'
  <2>1. Len(queue) + 1 \in 1..(Len(queue') + 1 - 1)
    OBVIOUS
  <2> QED  BY <1>6, <2>1 DEF Started, Before, IsFn
<1> QED  BY <1>4, <1>5, <1>6, Zenon
------------------------------------------------------------------------------
(* The functions that a join waits for.                                     *)
LEMMA JoinFunctions ==
    ASSUME TInv
    PROVE  /\ queue \in Seq(Tasks) /\ Len(queue) \in Nat
           /\ \A i \in 1..Len(queue) : queue[i].kind = "join" => queue[i].for \subseteq Functions
           /\ \A w \in Workers : wpc[w] = "join" => wtask[w].for \subseteq Functions
           /\ \A B \in Batches : B \subseteq Functions
           /\ \A a \in Agents : array[a] \subseteq Functions
<1> queue \in Seq(Tasks) /\ Len(queue) \in Nat /\ \A i \in 1..Len(queue) : queue[i] \in Tasks
  BY InvTypes DEF TypeOK
<1> \A B \in Batches : B \subseteq Functions
  BY ApiAssumption, Zenon
<1>3. \A i \in 1..Len(queue) : queue[i].kind = "join" => queue[i].for \subseteq Functions
  BY TaskTypes, Zenon DEF TaskFields
<1>4. \A w \in Workers : wpc[w] = "join" => wtask[w].for \subseteq Functions
  BY HeldTask DEF TaskFields
<1>5. \A a \in Agents : array[a] \subseteq Functions
  BY InvTypes, Zenon DEF TypeOK
<1> QED  BY <1>3, <1>4, <1>5, Zenon

(* Steps that submit nothing and take no task.                              *)
LEMMA QuietKeeps ==
    ASSUME JInv, TInv', queue' = queue, wtask' = wtask,
           \A f \in Functions : result[f] # "none" => result'[f] # "none",
           \A a \in Agents : array'[a] \ left'[a] \subseteq array[a] \ left[a],
           \A B \in Batches : promise'[B] = "handle" => promise[B] = "handle",
           \A w \in Workers : wpc'[w] = "join" => wpc[w] = "join"
    PROVE  JInv'
<1> TInv /\ QueueInv /\ HandleInv /\ ArrayInv /\ WaitsForStarted
  BY Zenon DEF JInv
<1>1. /\ \A f \in Functions : HeldFn(f) => HeldFn(f)'
      /\ \A f \in Functions, i \in Nat : Before(f, i) => Before(f, i)'
      /\ \A f \in Functions : Started(f) => Started(f)'
  BY SameQueue, Zenon
<1>2. /\ \A i \in 1..Len(queue) : queue[i].kind = "join" => queue[i].for \subseteq Functions
      /\ \A w \in Workers : wpc[w] = "join" => wtask[w].for \subseteq Functions
      /\ \A B \in Batches : B \subseteq Functions
      /\ \A a \in Agents : array[a] \subseteq Functions
  BY JoinFunctions, Zenon
<1>3. QueueInv'
  BY <1>1, <1>2 DEF QueueInv
<1>4. HandleInv'
  BY <1>1, <1>2, Zenon DEF HandleInv
<1>5. ArrayInv'
  BY <1>1, <1>2, Zenon DEF ArrayInv
<1>6. WaitsForStarted'
  BY <1>1, <1>2, Zenon DEF WaitsForStarted
<1> QED  BY <1>3, <1>4, <1>5, <1>6, Zenon DEF JInv

(* Steps that submit a task.                                                *)
LEMMA SubmitKeeps ==
    ASSUME JInv, TInv', NEW t \in Tasks, Submit(t), wtask' = wtask, result' = result, wpc' = wpc,
           t.kind = "join" => \A f \in t.for : Started(f),
           \A a \in Agents : \A f \in array'[a] \ left'[a] :
             f \in array[a] \ left[a] \/ (IsFn(t) /\ f = t.fn),
           \A B \in Batches : promise'[B] = "handle" =>
             promise[B] = "handle" \/ (IsFn(t) /\ B = {t.fn})
    PROVE  JInv'
<1>0. TInv /\ QueueInv /\ HandleInv /\ ArrayInv /\ WaitsForStarted
  BY Zenon DEF JInv
<1>1. /\ Len(queue) \in Nat /\ Len(queue') = Len(queue) + 1 /\ queue'[Len(queue) + 1] = t
      /\ \A i \in 1..Len(queue) : queue'[i] = queue[i]
      /\ \A f \in Functions : HeldFn(f) => HeldFn(f)'
      /\ \A f \in Functions, i \in 1..(Len(queue) + 1) : Before(f, i) => Before(f, i)'
      /\ \A f \in Functions : Started(f) => Started(f)'
      /\ IsFn(t) => Started(t.fn)'
  BY <1>0, SubmitBefore, Zenon
<1>2. /\ \A i \in 1..Len(queue) : queue[i].kind = "join" => queue[i].for \subseteq Functions
      /\ \A w \in Workers : wpc[w] = "join" => wtask[w].for \subseteq Functions
      /\ \A B \in Batches : B \subseteq Functions
      /\ \A a \in Agents : array[a] \subseteq Functions
      /\ t.kind = "join" => t.for \subseteq Functions
  <2>1. t.kind = "join" => t.for \subseteq Functions
    BY TaskTypes, ApiAssumption DEF TaskFields
  <2> QED  BY <1>0, <2>1, JoinFunctions, Zenon
<1>3. QueueInv'
  <2> SUFFICES ASSUME NEW i \in 1..(Len(queue) + 1), queue'[i].kind = "join", NEW f \in queue'[i].for
               PROVE  Before(f, i)'
    BY <1>1, Zenon DEF QueueInv
  <2>1. CASE i = Len(queue) + 1
    BY <1>1, <1>2, <2>1 DEF Started
  <2>2. CASE i # Len(queue) + 1
    <3>1. i \in 1..Len(queue) /\ queue'[i] = queue[i]
      BY <1>1, <2>2
    <3> QED  BY <1>0, <1>1, <1>2, <3>1, Zenon DEF QueueInv
  <2> QED  BY <2>1, <2>2, Zenon
<1>4. HandleInv'
  <2> SUFFICES ASSUME NEW B \in Batches, promise'[B] = "handle", NEW f \in B
               PROVE  Started(f)'
    BY Zenon DEF HandleInv
  <2>1. CASE promise[B] = "handle"
    BY <1>0, <1>1, <1>2, <2>1, Zenon DEF HandleInv
  <2>2. CASE IsFn(t) /\ B = {t.fn}
    BY <1>1, <2>2, Zenon
  <2> QED  BY <2>1, <2>2, Zenon
<1>5. ArrayInv'
  <2> SUFFICES ASSUME NEW a \in Agents, NEW f \in array'[a] \ left'[a]
               PROVE  Started(f)'
    BY Zenon DEF ArrayInv
  <2>1. CASE f \in array[a] \ left[a]
    BY <1>0, <1>1, <1>2, <2>1, Zenon DEF ArrayInv
  <2>2. CASE IsFn(t) /\ f = t.fn
    BY <1>1, <2>2, Zenon
  <2> QED  BY <2>1, <2>2, Zenon
<1>6. WaitsForStarted'
  BY <1>0, <1>1, <1>2, Zenon DEF WaitsForStarted
<1> QED  BY <1>3, <1>4, <1>5, <1>6, Zenon DEF JInv

(* The builtins.                                                            *)
LEMMA BuiltinJInv ==
    ASSUME JInv, NEW a \in Agents, Builtin(a) \/ FinishBuiltin(a)
    PROVE  JInv'
<1>0. TInv /\ TInv' /\ QueueInv /\ HandleInv /\ ArrayInv
  BY BuiltinTInv DEF JInv
<1>1. wpc' = wpc /\ wtask' = wtask /\ result' = result
  BY Zenon DEF Builtin, FinishBuiltin, ThreadSpawn, Intercept, ArrayParallel, ThreadJoin, ThreadSleep,
         ChunkNotSerializable, SubmitChunk, SubmitArrayJoin, outcome
<1>2. /\ array \in [Agents -> Batches \cup {{}}] /\ left \in [Agents -> SUBSET Functions]
      /\ promise \in [Promises -> {"none", "handle", "pending", "fulfilled", "rejected"}]
      /\ Batches \subseteq Promises /\ Sleeps \subseteq Promises
  BY <1>0, InvTypes, Zenon DEF TypeOK, Promises
<1>3. ASSUME NEW f \in Functions, ThreadSpawn(a, f) PROVE JInv'
  <2>1. PICK t \in Tasks : t = CallTask(f) /\ t.kind = "call" /\ t.fn = f
    BY NewTasks
  <2>a. IsFn(t) /\ t.kind # "join"
    BY <2>1, NoneAssumption, Zenon DEF IsFn
  <2>2. Submit(t) /\ array' = array /\ left' = left /\ promise' = [promise EXCEPT ![{f}] = "handle"]
    BY <1>3, <2>1, Zenon DEF ThreadSpawn, NewPromise, builtin
  <2>3. \A B \in Batches : promise'[B] = "handle" =>
             promise[B] = "handle" \/ (IsFn(t) /\ B = {t.fn})
    BY <1>2, <2>1, <2>a, <2>2
  <2> QED  BY <1>0, <1>1, <2>1, <2>2, <2>3, <2>a, SubmitKeeps, Zenon
<1>4. ASSUME NEW f \in Functions, Intercept(a, f) PROVE JInv'
  <2>0. {f} \in Batches
    <3>1. Script(a) \in Scripts /\ program \in [Scripts -> SUBSET Promises]
      BY <1>0, <1>4, ScriptType, ApiAssumption, InvTypes, Zenon DEF Intercept, TypeOK
    <3> QED  BY <1>4, <3>1, ApiAssumption, Zenon DEF Intercept, Promises
  <2>1. PICK t \in Tasks : t = AutoTask(f, {f}, a) /\ t.kind = "auto"
    BY <2>0, NewTasks, ZenonT(40)
  <2>2. Submit(t) /\ array' = array /\ left' = left /\ promise' = [promise EXCEPT ![{f}] = "pending"]
    BY <1>4, <2>1, Zenon DEF Intercept, NewPromise, builtin
  <2>3. \A B \in Batches : promise'[B] = "handle" => promise[B] = "handle"
    BY <1>2, <2>2, Zenon
  <2> QED  BY <1>0, <1>1, <2>1, <2>2, <2>3, SubmitKeeps, Zenon
<1>5. ASSUME NEW B \in Batches, ArrayParallel(a, B) PROVE JInv'
  <2>1. queue' = queue /\ promise' = promise
    BY <1>5, Zenon DEF ArrayParallel, pool, outcome
  <2>2. \A b \in Agents : array'[b] \ left'[b] \subseteq array[b] \ left[b]
    BY <1>2, <1>5 DEF ArrayParallel
  <2> QED  BY <1>0, <1>1, <2>1, <2>2, QuietKeeps, Zenon
<1>6. ASSUME NEW B \in Batches, ThreadJoin(a, B) PROVE JInv'
  <2>1. PICK t \in Tasks : t = JoinTask(B, a) /\ t.kind = "join" /\ t.for = B
    BY NewTasks, Zenon
  <2>2. Submit(t) /\ array' = array /\ left' = left /\ promise' = [promise EXCEPT ![B] = "pending"]
        /\ promise[B] = "handle"
    BY <1>6, <2>1, Zenon DEF ThreadJoin, NewPromise, builtin
  <2>3. \A C \in Batches : promise'[C] = "handle" => promise[C] = "handle"
    BY <1>2, <2>2, Zenon
  <2>4. \A f \in t.for : Started(f)
    BY <1>0, <2>1, <2>2, Zenon DEF HandleInv
  <2> QED  BY <1>0, <1>1, <2>1, <2>2, <2>3, <2>4, SubmitKeeps, Zenon
<1>7. ASSUME NEW s \in Sleeps, ThreadSleep(a, s) PROVE JInv'
  <2>1. PICK t \in Tasks : t = SleepTask(s, a) /\ t.kind = "sleep"
    BY NewTasks, ZenonT(40)
  <2>2. Submit(t) /\ array' = array /\ left' = left /\ promise' = [promise EXCEPT ![s] = "pending"]
    BY <1>7, <2>1, Zenon DEF ThreadSleep, NewPromise, builtin
  <2>3. \A B \in Batches : promise'[B] = "handle" => promise[B] = "handle"
    BY <1>2, <2>2, Zenon
  <2> QED  BY <1>0, <1>1, <2>1, <2>2, <2>3, SubmitKeeps, Zenon
<1>8. ASSUME ChunkNotSerializable(a) PROVE JInv'
  <2>1. queue' = queue /\ promise' = promise
    BY <1>8, Zenon DEF ChunkNotSerializable, pool, outcome
  <2>2. \A b \in Agents : array'[b] \ left'[b] \subseteq array[b] \ left[b]
    BY <1>2, <1>8, Zenon DEF ChunkNotSerializable
  <2> QED  BY <1>0, <1>1, <2>1, <2>2, QuietKeeps, Zenon
<1>9. ASSUME NEW f \in Functions, SubmitChunk(a, f) PROVE JInv'
  <2>1. PICK t \in Tasks : t = CallTask(f) /\ t.kind = "call" /\ t.fn = f
    BY NewTasks
  <2>a. IsFn(t) /\ t.kind # "join"
    BY <2>1, NoneAssumption DEF IsFn
  <2>2. Submit(t) /\ array' = array /\ left' = [left EXCEPT ![a] = left[a] \ {f}] /\ promise' = promise
    BY <1>9, <2>1, Zenon DEF SubmitChunk, outcome
  <2>3. \A b \in Agents : \A g \in array'[b] \ left'[b] :
             g \in array[b] \ left[b] \/ (IsFn(t) /\ g = t.fn)
    BY <1>2, <2>1, <2>a, <2>2
  <2> QED  BY <1>0, <1>1, <2>1, <2>a, <2>2, <2>3, SubmitKeeps, Zenon
<1>10. ASSUME SubmitArrayJoin(a) PROVE JInv'
  <2>0. array[a] \in Batches
    BY <1>2, <1>10, Zenon DEF SubmitArrayJoin
  <2>1. PICK t \in Tasks : t = JoinTask(array[a], a) /\ t.kind = "join" /\ t.for = array[a]
    BY <2>0, NewTasks, ZenonT(40)
  <2>2. Submit(t) /\ array' = [array EXCEPT ![a] = {}] /\ left' = left /\ left[a] = {}
        /\ promise' = [promise EXCEPT ![array[a]] = "pending"]
    BY <1>10, <2>1, Zenon DEF SubmitArrayJoin
  <2>3. \A B \in Batches : promise'[B] = "handle" => promise[B] = "handle"
    BY <1>2, <2>2, Zenon
  <2>4. \A f \in t.for : Started(f)
    BY <1>0, <2>1, <2>2, Zenon DEF ArrayInv
  <2>5. \A b \in Agents : \A g \in array'[b] \ left'[b] : g \in array[b] \ left[b]
    BY <1>2, <2>2
  <2> QED  BY <1>0, <1>1, <2>1, <2>2, <2>3, <2>4, <2>5, SubmitKeeps, Zenon
<1> QED  BY <1>3, <1>4, <1>5, <1>6, <1>7, <1>8, <1>9, <1>10, Zenon DEF Builtin, FinishBuiltin
------------------------------------------------------------------------------
(* A worker takes a task: from its private queue, or the head of the queue. *)
LEMMA GetTaskJInv ==
    ASSUME JInv, NEW w \in Workers, GetTask(w)
    PROVE  JInv'
<1>0. TInv /\ TInv' /\ QueueInv /\ HandleInv /\ ArrayInv /\ WaitsForStarted
  BY GetTaskTInv, Zenon DEF JInv
<1>1. wtask[w] = None /\ wpc[w] = "idle" /\ w \in DOMAIN wtask /\ w \in DOMAIN wpc
  BY <1>0, InvTypes, Zenon DEF GetTask, WorkerInv, TypeOK
<1>2. array' = array /\ left' = left /\ promise' = promise /\ result' = result
  BY DEF GetTask, builtin, outcome
<1>3. /\ queue \in Seq(Tasks) /\ Len(queue) \in Nat
      /\ \A i \in 1..Len(queue) : queue[i].kind = "join" => queue[i].for \subseteq Functions
      /\ \A v \in Workers : wpc[v] = "join" => wtask[v].for \subseteq Functions
      /\ \A B \in Batches : B \subseteq Functions
      /\ \A a \in Agents : array[a] \subseteq Functions
  BY <1>0, JoinFunctions, Zenon
<1>4. \A v \in Workers : v # w => wtask'[v] = wtask[v] /\ wpc'[v] = wpc[v]
  BY <1>0, InvTypes, Zenon DEF GetTask, TypeOK
<1>5. \A f \in Functions : HeldFn(f) => HeldFn(f)'
  BY <1>1, <1>4 DEF HeldFn
<1>6. CASE private[w] # <<>>
  <2>1. queue' = queue /\ wpc'[w] = Head(private[w]).kind /\ Head(private[w]) \in ResolveTasks
    BY <1>0, <1>1, <1>6, TailFacts, InvTypes, Zenon DEF GetTask, TypeOK
  <2>2. wpc'[w] # "join"
    BY <2>1, TaskTypes, Zenon
  <2>3. \A f \in Functions, i \in Nat : Before(f, i) => Before(f, i)'
    BY <1>2, <1>5, <2>1, Zenon DEF Before
  <2>4. \A f \in Functions : Started(f) => Started(f)'
    <3>1. Len(queue) + 1 \in Nat
      BY <1>3
    <3>2. \A f : Started(f)' <=> Before(f, Len(queue) + 1)'
      BY <2>1, Zenon DEF Started, Before
    <3> QED  BY <2>1, <2>3, <3>1, <3>2, Zenon DEF Started
  <2>5. QueueInv'
    BY <1>0, <1>3, <2>1, <2>3 DEF QueueInv
  <2>6. HandleInv' /\ ArrayInv'
    BY <1>0, <1>2, <1>3, <2>4, Zenon DEF HandleInv, ArrayInv
  <2>7. WaitsForStarted'
    BY <1>0, <1>2, <1>3, <1>4, <1>5, <2>2, Zenon DEF WaitsForStarted
  <2> QED  BY <1>0, <2>5, <2>6, <2>7, Zenon DEF JInv
<1>7. CASE private[w] = <<>>
  <2>1. queue # <<>> /\ queue' = Tail(queue) /\ wtask'[w] = Head(queue) /\ wpc'[w] = Head(queue).kind
    BY <1>1, <1>7, Zenon DEF GetTask
  <2>2. /\ Len(queue) # 0 /\ Len(queue') = Len(queue) - 1 /\ Head(queue) = queue[1]
        /\ \A i \in 1..Len(queue') : queue'[i] = queue[i + 1]
    BY <1>3, <2>1, TailFacts, SeqFacts
  <2>3. queue[1] \in Tasks /\ queue[1] # None
    BY <1>3, <2>2, NoneAssumption
  <2>4. ASSUME NEW f \in Functions, NEW i \in 2..(Len(queue) + 1), Before(f, i)
        PROVE  Before(f, i - 1)'
    <3>1. CASE HeldFn(f) \/ result[f] # "none"
      BY <1>2, <1>5, <3>1, Zenon DEF Before
    <3>2. ASSUME NEW j \in 1..(i - 1), queue[j].kind \in {"call", "auto"}, queue[j].fn = f
          PROVE  Before(f, i - 1)'
      <4>1. CASE j = 1
        <5>1. HeldFn(f)'
          BY <2>1, <2>2, <2>3, <3>2, <4>1, Zenon DEF HeldFn
        <5> QED  BY <5>1, Zenon DEF Before
      <4>2. CASE j # 1
        <5>1. j - 1 \in 1..(i - 1 - 1) /\ j - 1 \in 1..Len(queue') /\ j - 1 + 1 = j
          BY <1>3, <2>2, <4>2
        <5>2. queue'[j - 1] = queue[j]
          BY <2>2, <5>1, Zenon
        <5> QED  BY <3>2, <5>1, <5>2, Zenon DEF Before
      <4> QED  BY <4>1, <4>2, Zenon
    <3> QED  BY <2>4, <3>1, <3>2, Zenon DEF Before
  <2>5. \A f \in Functions : Started(f) => Started(f)'
    <3> SUFFICES ASSUME NEW f \in Functions, Started(f) PROVE Started(f)'
      BY Zenon
    <3>1. Len(queue) + 1 \in 2..(Len(queue) + 1) /\ Len(queue') + 1 = Len(queue) + 1 - 1
      BY <1>3, <2>2
    <3>2. PICK n \in 2..(Len(queue) + 1) : n = Len(queue) + 1
      BY <3>1
    <3>3. Before(f, n - 1)'
      BY <2>4, <3>2 DEF Started
    <3>4. n - 1 = Len(queue') + 1
      BY <3>1, <3>2
    <3> QED  BY <3>3, <3>4 DEF Started
  <2>6. QueueInv'
    <3> SUFFICES ASSUME NEW i \in 1..Len(queue'), queue'[i].kind = "join", NEW f \in queue'[i].for
                 PROVE  Before(f, i)'
      BY Zenon DEF QueueInv
    <3>1. PICK n \in 2..Len(queue) : n = i + 1
      BY <1>3, <2>2
    <3>2. n \in 1..Len(queue) /\ n \in 2..(Len(queue) + 1) /\ queue'[i] = queue[n] /\ n - 1 = i
      BY <1>3, <2>2, <3>1
    <3>3. f \in Functions /\ Before(f, n)
      BY <1>0, <1>3, <3>2, Zenon DEF QueueInv
    <3>4. Before(f, n - 1)'
      BY <2>4, <3>2, <3>3, Zenon
    <3> QED  BY <3>2, <3>4, Zenon
  <2>7. HandleInv' /\ ArrayInv'
    BY <1>0, <1>2, <1>3, <2>5 DEF HandleInv, ArrayInv
  <2>8. WaitsForStarted'
    <3> SUFFICES ASSUME NEW v \in Workers, wpc'[v] = "join", NEW f \in wtask'[v].for
                 PROVE  HeldFn(f)' \/ result'[f] # "none"
      BY Zenon DEF WaitsForStarted
    <3>1. CASE v # w
      BY <1>0, <1>2, <1>3, <1>4, <1>5, <3>1, Zenon DEF WaitsForStarted
    <3>2. CASE v = w
      <4>1. 1 \in 1..Len(queue) /\ queue[1].kind = "join" /\ f \in queue[1].for
        BY <1>3, <2>1, <2>2, <3>2
      <4>2. f \in Functions /\ Before(f, 1)
        BY <1>0, <1>3, <4>1, Zenon DEF QueueInv
      <4>3. HeldFn(f) \/ result[f] # "none"
        BY <4>2 DEF Before
      <4> QED  BY <1>2, <1>5, <4>2, <4>3, Zenon
    <3> QED  BY <3>1, <3>2, Zenon
  <2> QED  BY <1>0, <2>6, <2>7, <2>8 DEF JInv
<1> QED  BY <1>6, <1>7

(* A worker lets go of a function only when that has its result.            *)
LEMMA FinishTaskJInv ==
    ASSUME JInv, NEW w \in Workers, FinishTask(w), TInv'
    PROVE  JInv'
<1> TInv /\ QueueInv /\ HandleInv /\ ArrayInv /\ WaitsForStarted
  BY Zenon DEF JInv
<1> queue' = queue /\ array' = array /\ left' = left /\ promise' = promise /\ result' = result
  BY Zenon DEF FinishTask, builtin, outcome
<1>2. \A v \in Workers : v # w => wtask'[v] = wtask[v] /\ wpc'[v] = wpc[v]
  BY InvTypes, Zenon DEF FinishTask, TypeOK
<1>3. wpc'[w] # "join"
  BY InvTypes, Zenon DEF FinishTask, TypeOK
<1>4. \A f \in Functions : HeldFn(f) => HeldFn(f)' \/ result'[f] # "none"
  <2> SUFFICES ASSUME NEW f \in Functions, NEW v \in Workers, wtask[v] # None,
                      wtask[v].kind \in {"call", "auto"}, wtask[v].fn = f
               PROVE  HeldFn(f)' \/ result'[f] # "none"
    BY Zenon DEF HeldFn
  <2>1. CASE v = w
    BY <2>1, InvTypes DEF WorkerInv, IsFn, FinishTask
  <2>2. CASE v # w
    BY <1>2, <2>2, Zenon DEF HeldFn
  <2> QED  BY <2>1, <2>2, Zenon
<1>5. /\ Len(queue) \in Nat
      /\ \A i \in 1..Len(queue) : queue[i].kind = "join" => queue[i].for \subseteq Functions
      /\ \A v \in Workers : wpc[v] = "join" => wtask[v].for \subseteq Functions
      /\ \A B \in Batches : B \subseteq Functions
      /\ \A a \in Agents : array[a] \subseteq Functions
  BY JoinFunctions, Zenon
<1>6. \A f \in Functions, i \in Nat : Before(f, i) => Before(f, i)'
  BY <1>4, Zenon DEF Before
<1>7. \A f \in Functions : Started(f) => Started(f)'
  <2>1. Len(queue) + 1 \in Nat
    BY <1>5
  <2>2. \A f : Started(f)' <=> Before(f, Len(queue) + 1)'
    BY Zenon DEF Started, Before
  <2> QED  BY <1>6, <2>1, <2>2, Zenon DEF Started
<1>8. QueueInv'
  BY <1>5, <1>6 DEF QueueInv
<1>9. HandleInv' /\ ArrayInv'
  BY <1>5, <1>7, Zenon DEF HandleInv, ArrayInv
<1>10. WaitsForStarted'
  BY <1>2, <1>3, <1>4, <1>5, Zenon DEF WaitsForStarted
<1> QED  BY <1>8, <1>9, <1>10 DEF JInv

(* A settled promise is no handle.                                          *)
LEMMA SettleNoHandle ==
    ASSUME TInv, NEW p \in Promises, NEW ok, Settle(p, ok)
    PROVE  \A B \in Batches : promise'[B] = "handle" => promise[B] = "handle"
  BY InvTypes, Zenon DEF TypeOK, Settle, Promises

LEMMA NextJInv == JInv /\ [Next]_vars => JInv'
<1> SUFFICES ASSUME JInv, [Next]_vars PROVE JInv'
  OBVIOUS
<1> TInv /\ TInv'
  BY NextTInv DEF JInv
<1>1. ASSUME NEW a \in Agents, Builtin(a) \/ FinishBuiltin(a) PROVE JInv'
  BY <1>1, BuiltinJInv, Zenon
<1>2. ASSUME NEW w \in Workers, WorkerStep(w) PROVE JInv'
  <2>1. CASE GetTask(w)
    BY <2>1, GetTaskJInv
  <2>2. CASE FinishTask(w)
    BY <2>2, FinishTaskJInv, Zenon
  <2>3. CASE LeavePool(w) \/ Await(w) \/ RunJoin(w) \/ RunSleep(w)
    <3> USE <2>3
    <3>1. wtask' = wtask /\ result' = result /\ array' = array /\ left' = left /\ promise' = promise
          /\ queue' = queue
      BY Zenon DEF LeavePool, Await, RunJoin, RunSleep, PostBack, pool, builtin, outcome
    <3>2. \A v \in Workers : wpc'[v] = "join" => wpc[v] = "join"
      BY InvTypes, Zenon DEF LeavePool, Await, RunJoin, RunSleep, GoTo, TypeOK
    <3> QED  BY <3>1, <3>2, QuietKeeps
  <2>4. CASE EndFunction(w)
    <3> USE <2>4
    <3>1. wtask' = wtask /\ array' = array /\ left' = left /\ promise' = promise /\ queue' = queue
      BY Zenon DEF EndFunction, PostBack, pool, builtin
    <3>2. \A v \in Workers : wpc'[v] = "join" => wpc[v] = "join"
      BY InvTypes, Zenon DEF EndFunction, GoTo, TypeOK
    <3>3. \A f \in Functions : result[f] # "none" => result'[f] # "none"
      BY InvTypes DEF EndFunction, TypeOK
    <3> QED  BY <3>1, <3>2, <3>3, QuietKeeps, Zenon
  <2>5. CASE AwaitLoop(w)
    <3> USE <2>5
    <3>1. wtask' = wtask /\ array' = array /\ left' = left /\ result' = result /\ queue' = queue
      BY Zenon DEF AwaitLoop, builtin
    <3>2. IsFn(wtask[w])
      BY InvTypes, Zenon DEF AwaitLoop, WorkerInv
    <3>3. \A v \in Workers : wpc'[v] = "join" => wpc[v] = "join"
      BY <3>2, InvTypes, Zenon DEF AwaitLoop, GoTo, IsFn, TypeOK
    <3>4. Head(private[w]) \in ResolveTasks
      BY TailFacts, InvTypes, Zenon DEF AwaitLoop, TypeOK
    <3>5. \A B \in Batches : promise'[B] = "handle" => promise[B] = "handle"
      BY <3>4, TaskTypes, SettleNoHandle, Zenon DEF TaskFields, AwaitLoop
    <3> QED  BY <3>1, <3>3, <3>5, QuietKeeps, Zenon
  <2>6. CASE RunResolve(w)
    <3> USE <2>6
    <3>1. wtask' = wtask /\ array' = array /\ left' = left /\ result' = result /\ queue' = queue
      BY Zenon DEF RunResolve, builtin, pool
    <3>2. \A v \in Workers : wpc'[v] = "join" => wpc[v] = "join"
      BY InvTypes, Zenon DEF RunResolve, GoTo, TypeOK
    <3>3. \A B \in Batches : promise'[B] = "handle" => promise[B] = "handle"
      BY HeldTask, SettleNoHandle, Zenon DEF TaskFields, RunResolve
    <3> QED  BY <3>1, <3>2, <3>3, QuietKeeps, Zenon
  <2> QED  BY <1>2, <2>1, <2>2, <2>3, <2>4, <2>5, <2>6, Zenon DEF WorkerStep
<1>3. CASE MainStep
  <2> USE <1>3
  <2>1. wpc' = wpc /\ wtask' = wtask /\ array' = array /\ left' = left /\ result' = result
        /\ queue' = queue
    BY Zenon DEF MainStep, EndScript, PumpMessageLoop, LeaveMessageLoop, Dispose, pool, builtin, outcome
  <2>2. \A B \in Batches : promise'[B] = "handle" => promise[B] = "handle"
    <3>1. CASE PumpMessageLoop
      <4> USE <3>1
      <4>1. Head(foreground) \in ResolveTasks
        BY TailFacts, InvTypes, Zenon DEF PumpMessageLoop, TypeOK
      <4> QED  BY <4>1, TaskTypes, SettleNoHandle, Zenon DEF TaskFields, PumpMessageLoop
    <3>2. CASE EndScript \/ LeaveMessageLoop \/ Dispose
      BY <3>2 DEF EndScript, LeaveMessageLoop, Dispose, outcome
    <3> QED  BY <3>1, <3>2, Zenon DEF MainStep
  <2> QED  BY <2>1, <2>2, QuietKeeps, Zenon
<1>4. CASE UNCHANGED vars
  BY <1>4, QuietKeeps, Zenon DEF vars, pool, builtin, outcome
<1> QED  BY <1>1, <1>2, <1>3, <1>4, Zenon DEF Next

LEMMA InitJInv == Init => JInv
<1> SUFFICES ASSUME Init PROVE JInv
  OBVIOUS
<1>1. TInv
  BY InitTInv
<1>2. QueueInv
  <2>1. queue = <<>>
    BY DEF Init
  <2>2. 1..Len(queue) = {}
    BY <2>1
  <2> QED  BY <2>2, Zenon DEF QueueInv
<1>3. HandleInv /\ ArrayInv
  BY Zenon DEF Init, HandleInv, ArrayInv, Promises
<1>4. WaitsForStarted
  BY DEF Init, WaitsForStarted
<1> QED  BY <1>1, <1>2, <1>3, <1>4 DEF JInv

(* A worker that blocks in the future.get() of Thread.join or of a parallel *)
(* array method never waits for a function that is still in the queue of    *)
(* the pool, for any number of workers and any program.                     *)
THEOREM JoinsWaitForStarted == Spec => []WaitsForStarted
<1>1. Init => JInv
  BY InitJInv
<1>2. JInv /\ [Next]_vars => JInv'
  BY NextJInv
<1>3. JInv => WaitsForStarted
  BY DEF JInv
<1> QED  BY <1>1, <1>2, <1>3, PTL DEF Spec

(* The places where a task that is not done yet can be: position i of the   *)
(* global queue (x = None), of the task runner of Main or of the private    *)
(* queue of worker x, and position 0 for the task that worker x runs.       *)
Lines == Agents \cup {None}
Line(x) == IF x = None THEN queue ELSE IF x = Main THEN foreground ELSE private[x]
Running == {"call", "auto", "join", "sleep", "resolve", "await"}
Place(x, i) ==
    \/ x \in Lines /\ i \in 1..Len(Line(x))
    \/ x \in Workers /\ i = 0 /\ wpc[x] \in Running
TaskAt(x, i) == IF i = 0 THEN wtask[x] ELSE Line(x)[i]

(* The tasks that are not done yet; none of them is at two places.          *)
Live == {t \in Tasks \cup ResolveTasks : \E x, i : Place(x, i) /\ TaskAt(x, i) = t}
Distinct == \A x, i, y, j : Place(x, i) /\ Place(y, j) /\ TaskAt(x, i) = TaskAt(y, j) => x = y /\ i = j

LEMMA InLive ==
    /\ \A t : t \in Live <=> t \in Tasks \cup ResolveTasks /\ \E x, i : Place(x, i) /\ TaskAt(x, i) = t
    /\ \A t : t \in Live' <=> t \in Tasks \cup ResolveTasks /\ \E x, i : Place(x, i)' /\ TaskAt(x, i)' = t
<1>1. Agents' = Agents /\ Promises' = Promises
  BY Zenon DEF Agents, Promises
<1>2. Tasks' = Tasks
  BY <1>1 DEF Tasks, CallTask, AutoTask, JoinTask, SleepTask
<1>3. ResolveTasks' = ResolveTasks
  BY <1>1 DEF ResolveTasks, ResolveTask
<1> QED  BY <1>2, <1>3, Zenon DEF Live

LEMMA LineType ==
    ASSUME TInv
    PROVE  /\ \A x \in Lines : Line(x) \in Seq(Tasks \cup ResolveTasks) /\ Len(Line(x)) \in Nat
           /\ \A x, i : Place(x, i) => TaskAt(x, i) \in Tasks \cup ResolveTasks /\ i \in Nat
<1> TypeOK /\ WorkerInv
  BY Zenon DEF TInv
<1>1. \A w \in Workers : w # None /\ w # Main
  BY ApiAssumption, Zenon DEF Agents
<1>2. queue \in Seq(Tasks \cup ResolveTasks) /\ foreground \in Seq(Tasks \cup ResolveTasks)
      /\ \A w \in Workers : private[w] \in Seq(Tasks \cup ResolveTasks)
  BY DEF TypeOK
<1>3. ASSUME NEW x \in Lines
      PROVE  Line(x) \in Seq(Tasks \cup ResolveTasks) /\ Len(Line(x)) \in Nat
  <2>1. Line(x) \in Seq(Tasks \cup ResolveTasks)
    BY <1>2, Zenon DEF Line, Lines, Agents
  <2> QED  BY <2>1, SeqFacts
<1>4. ASSUME NEW x, NEW i, Place(x, i)
      PROVE  TaskAt(x, i) \in Tasks \cup ResolveTasks /\ i \in Nat
  <2>1. CASE x \in Lines /\ i \in 1..Len(Line(x))
    <3>1. i \in Nat /\ i # 0 /\ Line(x)[i] \in Tasks \cup ResolveTasks
      BY <1>3, <2>1, SeqFacts
    <3> QED  BY <3>1, Zenon DEF TaskAt
  <2>2. CASE x \in Workers /\ i = 0 /\ wpc[x] \in Running
    <3> USE <2>2
    <3>1. wtask[x] \in Tasks \cup ResolveTasks
      BY DEF TypeOK, WorkerInv, Running, IsFn
    <3> QED  BY <3>1, Zenon DEF TaskAt
  <2> QED  BY <1>4, <2>1, <2>2, Zenon DEF Place
<1> QED  BY <1>3, <1>4

(* What a worker runs is not done yet; neither is what waits in a line.     *)
LEMMA LiveTasks ==
    ASSUME TInv
    PROVE  /\ \A w \in Workers : wpc[w] \in Running => wtask[w] \in Live
           /\ \A x \in Lines : Line(x) # <<>> => Place(x, 1) /\ TaskAt(x, 1) = Head(Line(x))
                                                 /\ Head(Line(x)) \in Live
<1>1. ASSUME NEW w \in Workers, wpc[w] \in Running PROVE wtask[w] \in Live
  <2>1. Place(w, 0) /\ TaskAt(w, 0) = wtask[w]
    BY <1>1, Zenon DEF Place, TaskAt
  <2> QED  BY <2>1, LineType, Zenon DEF Live
<1>2. ASSUME NEW x \in Lines, Line(x) # <<>>
      PROVE  Place(x, 1) /\ TaskAt(x, 1) = Head(Line(x)) /\ Head(Line(x)) \in Live
  <2>1. Line(x) \in Seq(Tasks \cup ResolveTasks) /\ Len(Line(x)) \in Nat
    BY LineType, Zenon
  <2>2. 1 \in 1..Len(Line(x)) /\ Head(Line(x)) = Line(x)[1]
    BY <1>2, <2>1, SeqFacts
  <2>3. Place(x, 1) /\ TaskAt(x, 1) = Head(Line(x))
    BY <2>2 DEF Place, TaskAt
  <2> QED  BY <2>3, LineType, Zenon DEF Live
<1> QED  BY <1>1, <1>2, Zenon

(* A task is put at the end of line z, and worker g, if g is one, is done   *)
(* with the task it runs.                                                   *)
LEMMA AppendLive ==
    ASSUME TInv, Distinct, NEW z \in Lines, NEW r \in Tasks \cup ResolveTasks, r \notin Live,
           Line(z)' = Append(Line(z), r), \A x \in Lines : x # z => Line(x)' = Line(x),
           wtask' = wtask, NEW g \in Workers \cup {None}, g \in Workers => wpc[g] \in Running,
           \A w \in Workers : wpc'[w] \in Running <=> wpc[w] \in Running /\ w # g
    PROVE  Distinct' /\ \A t : t \in Live' <=> (t \in Live /\ ~(g \in Workers /\ t = wtask[g])) \/ t = r
<1>n. PICK n \in Nat : n = Len(Line(z)) + 1
  BY LineType
<1>0. /\ Len(Line(z)) \in Nat /\ n \in Nat /\ n # 0 /\ Len(Line(z)') = n /\ Line(z)'[n] = r
      /\ \A i \in 1..Len(Line(z)) : Line(z)'[i] = Line(z)[i]
  <2>1. Line(z) \in Seq(Tasks \cup ResolveTasks) /\ Len(Line(z)) \in Nat
    BY LineType, Zenon
  <2>2. Line(z)' = Append(Line(z), r)
    OBVIOUS
  <2> QED  BY <1>n, <2>1, <2>2, AppendFacts
<1>1. ASSUME NEW x, NEW i, Place(x, i)'
      PROVE  \/ Place(x, i) /\ TaskAt(x, i)' = TaskAt(x, i) /\ ~(x = g /\ i = 0)
             \/ x = z /\ i = n /\ TaskAt(x, i)' = r
  <2>1. CASE x \in Lines /\ i \in 1..Len(Line(x)')
    <3>0. i # 0
      BY <2>1
    <3>1. CASE x # z
      BY <2>1, <3>0, <3>1, Zenon DEF Place, TaskAt
    <3>2. CASE x = z
      <4>1. i = n \/ i \in 1..Len(Line(z))
        BY <1>0, <2>1, <3>2
      <4> QED  BY <1>0, <2>1, <3>0, <3>2, <4>1, Zenon DEF Place, TaskAt
    <3> QED  BY <3>1, <3>2, Zenon
  <2>2. CASE x \in Workers /\ i = 0 /\ wpc'[x] \in Running
    BY <2>2 DEF Place, TaskAt
  <2> QED  BY <1>1, <2>1, <2>2, Zenon DEF Place, Lines, Agents, Running
<1>2. ASSUME NEW x, NEW i, Place(x, i), ~(x = g /\ i = 0)
      PROVE  Place(x, i)' /\ TaskAt(x, i)' = TaskAt(x, i)
  <2>1. CASE x \in Lines /\ i \in 1..Len(Line(x))
    <3>a. Len(Line(x)) \in Nat
      BY <2>1, LineType, Zenon
    <3>0. i # 0
      BY <2>1, <3>a
    <3>1. CASE x # z
      BY <2>1, <3>0, <3>1, Zenon DEF Place, TaskAt, Lines, Agents
    <3>2. CASE x = z
      <4>1. i \in 1..n /\ i \in 1..Len(Line(z))
        BY <1>0, <2>1, <3>2
      <4> QED  BY <1>0, <2>1, <3>0, <3>2, <4>1, Zenon DEF Place, TaskAt, Lines, Agents
    <3> QED  BY <3>1, <3>2
  <2>2. CASE x \in Workers /\ i = 0 /\ wpc[x] \in Running
    BY <1>2, <2>2, Zenon DEF Place, TaskAt, Running
  <2> QED  BY <1>2, <2>1, <2>2, Zenon DEF Place
<1>3. Place(z, n)' /\ TaskAt(z, n)' = r
  <2>1. n \in 1..n
    BY <1>0
  <2> QED  BY <1>0, <2>1, Zenon DEF Place, TaskAt, Lines, Agents
<1>4. \A x, i : Place(x, i) => TaskAt(x, i) # r
  BY Zenon DEF Live
<1>5. g \in Workers => Place(g, 0) /\ TaskAt(g, 0) = wtask[g]
  BY DEF Place, TaskAt
<1>6. Distinct'
  <2> SUFFICES ASSUME NEW x, NEW i, NEW y, NEW j, Place(x, i)', Place(y, j)', TaskAt(x, i)' = TaskAt(y, j)'
               PROVE  x = y /\ i = j
    BY Zenon DEF Distinct
  <2>1. CASE x = z /\ i = n /\ TaskAt(x, i)' = r
    BY <1>1, <1>4, <2>1, Zenon
  <2>2. CASE y = z /\ j = n /\ TaskAt(y, j)' = r
    BY <1>1, <1>4, <2>2, Zenon
  <2>3. CASE /\ Place(x, i) /\ TaskAt(x, i)' = TaskAt(x, i)
             /\ Place(y, j) /\ TaskAt(y, j)' = TaskAt(y, j)
    BY <2>3, Zenon DEF Distinct
  <2>4. (Place(x, i) /\ TaskAt(x, i)' = TaskAt(x, i)) \/ (x = z /\ i = n /\ TaskAt(x, i)' = r)
    BY <1>1, Zenon
  <2>5. (Place(y, j) /\ TaskAt(y, j)' = TaskAt(y, j)) \/ (y = z /\ j = n /\ TaskAt(y, j)' = r)
    BY <1>1, Zenon
  <2> QED  BY <2>1, <2>2, <2>3, <2>4, <2>5, Zenon
<1>7. ASSUME NEW t, t \in Live' PROVE (t \in Live /\ ~(g \in Workers /\ t = wtask[g])) \/ t = r
  <2>1. PICK x, i : Place(x, i)' /\ TaskAt(x, i)' = t
    BY <1>7, Zenon DEF Live
  <2>2. t \in Tasks \cup ResolveTasks
    BY <1>7, InLive, Zenon
  <2> QED  BY <1>1, <1>5, <2>1, <2>2, Zenon DEF Distinct, Live
<1>8. ASSUME NEW t, (t \in Live /\ ~(g \in Workers /\ t = wtask[g])) \/ t = r PROVE t \in Live'
  <2>1. t \in Tasks \cup ResolveTasks
    BY <1>8, Zenon DEF Live
  <2>2. \E x, i : Place(x, i)' /\ TaskAt(x, i)' = t
    <3>1. CASE t = r
      BY <1>3, <3>1, Zenon
    <3>2. CASE t \in Live /\ ~(g \in Workers /\ t = wtask[g])
      <4>1. PICK x, i : Place(x, i) /\ TaskAt(x, i) = t
        BY <3>2, Zenon DEF Live
      <4>2. ~(x = g /\ i = 0)
        <5>1. None \notin Workers
          BY ApiAssumption, Zenon DEF Agents
        <5>2. i = 0 => x \in Workers
          BY <4>1 DEF Place
        <5> QED  BY <1>5, <3>2, <4>1, <5>1, <5>2, Zenon
      <4> QED  BY <1>2, <4>1, <4>2, Zenon
    <3> QED  BY <1>8, <3>1, <3>2, Zenon
  <2> QED  BY <2>1, <2>2, InLive, Zenon
<1> QED  BY <1>6, <1>7, <1>8, Zenon

(* The lines stay as they are, and worker g, if g is one, is done with the  *)
(* task it runs.                                                            *)
LEMMA DropLive ==
    ASSUME TInv, Distinct, \A x \in Lines : Line(x)' = Line(x),
           \A w \in Workers : wpc[w] \in Running => wtask'[w] = wtask[w],
           NEW g \in Workers \cup {None}, g \in Workers => wpc[g] \in Running,
           \A w \in Workers : wpc'[w] \in Running <=> wpc[w] \in Running /\ w # g
    PROVE  Distinct' /\ \A t : t \in Live' <=> t \in Live /\ ~(g \in Workers /\ t = wtask[g])
<1>1. ASSUME NEW x, NEW i
      PROVE  /\ Place(x, i)' <=> Place(x, i) /\ ~(x = g /\ i = 0)
             /\ Place(x, i) => TaskAt(x, i)' = TaskAt(x, i)
  <2>1. x = g /\ i = 0 => ~(x \in Lines /\ i \in 1..Len(Line(x)))
    BY LineType
  <2>2. /\ x \in Lines /\ i \in 1..Len(Line(x))' <=> x \in Lines /\ i \in 1..Len(Line(x))
        /\ (x \in Workers /\ i = 0 /\ wpc'[x] \in Running) <=>
           (x \in Workers /\ i = 0 /\ wpc[x] \in Running) /\ ~(x = g /\ i = 0)
    BY Zenon
  <2>3. Place(x, i)' <=> Place(x, i) /\ ~(x = g /\ i = 0)
    BY <2>1, <2>2, Zenon DEF Place, Lines, Agents, Running
  <2>4. ASSUME Place(x, i) PROVE TaskAt(x, i)' = TaskAt(x, i)
    <3>1. CASE x \in Lines /\ i \in 1..Len(Line(x))
      <4> USE <3>1
      <4>1. i # 0
        BY LineType
      <4> QED  BY <4>1, Zenon DEF TaskAt
    <3>2. CASE x \in Workers /\ i = 0 /\ wpc[x] \in Running
      BY <3>2, Zenon DEF TaskAt
    <3> QED  BY <2>4, <3>1, <3>2, Zenon DEF Place
  <2> QED  BY <2>3, <2>4, Zenon
<1> g \in Workers => Place(g, 0) /\ TaskAt(g, 0) = wtask[g]
  BY DEF Place, TaskAt
<1>3. Distinct'
  <2> SUFFICES ASSUME NEW x, NEW i, NEW y, NEW j, Place(x, i)', Place(y, j)', TaskAt(x, i)' = TaskAt(y, j)'
               PROVE  x = y /\ i = j
    BY Zenon DEF Distinct
  <2>1. Place(x, i) /\ TaskAt(x, i)' = TaskAt(x, i)
    BY <1>1, Zenon
  <2>2. Place(y, j) /\ TaskAt(y, j)' = TaskAt(y, j)
    BY <1>1, Zenon
  <2> QED  BY <2>1, <2>2, Zenon DEF Distinct
<1>4. ASSUME NEW t, t \in Live' PROVE t \in Live /\ ~(g \in Workers /\ t = wtask[g])
  <2> USE <1>4
  <2>1. PICK x, i : Place(x, i)' /\ TaskAt(x, i)' = t
    BY Zenon DEF Live
  <2>2. t \in Tasks \cup ResolveTasks
    BY InLive, Zenon
  <2> Place(x, i) /\ ~(x = g /\ i = 0) /\ TaskAt(x, i) = t
    BY <1>1, <2>1, Zenon
  <2>4. t \in Live
    BY <2>2, Zenon DEF Live
  <2>5. g \in Workers => t # wtask[g]
    BY Zenon DEF Distinct
  <2> QED  BY <2>4, <2>5
<1>5. ASSUME NEW t, t \in Live, ~(g \in Workers /\ t = wtask[g]) PROVE t \in Live'
  <2> USE <1>5
  <2> PICK x, i : Place(x, i) /\ TaskAt(x, i) = t
    BY Zenon DEF Live
  <2>2. ~(x = g /\ i = 0)
    <3>1. None \notin Workers
      BY ApiAssumption, Zenon DEF Agents
    <3>2. i = 0 => x \in Workers
      BY DEF Place
    <3> QED  BY <3>1, <3>2, Zenon
  <2>3. Place(x, i)' /\ TaskAt(x, i)' = t
    BY <1>1, <2>2, Zenon
  <2>4. t \in Tasks \cup ResolveTasks
    BY DEF Live
  <2> QED  BY <2>3, <2>4, InLive, Zenon
<1> QED  BY <1>3, <1>4, <1>5, Zenon

(* The first task of line y goes away.                                      *)
LEMMA ShiftLive ==
    ASSUME TInv, Distinct, NEW y \in Lines, Line(y) # <<>>, Line(y)' = Tail(Line(y)),
           \A x \in Lines : x # y => Line(x)' = Line(x), wtask' = wtask,
           \A w \in Workers : wpc'[w] \in Running <=> wpc[w] \in Running
    PROVE  Distinct' /\ \A t : t \in Live' <=> t \in Live /\ t # Head(Line(y))
<1> /\ Len(Line(y)) \in Nat /\ Len(Line(y)') = Len(Line(y)) - 1
      /\ \A i \in 1..(Len(Line(y)) - 1) : Line(y)'[i] = Line(y)[i + 1]
  <2>1. Line(y) \in Seq(Tasks \cup ResolveTasks) /\ Len(Line(y)) \in Nat
    BY LineType
  <2>2. Len(Tail(Line(y))) = Len(Line(y)) - 1
        /\ \A i \in 1..Len(Tail(Line(y))) : Tail(Line(y))[i] = Line(y)[i + 1]
    BY <2>1, TailFacts, Zenon
  <2> QED  BY <2>1, <2>2, Zenon
<1> Place(y, 1) /\ TaskAt(y, 1) = Head(Line(y))
  BY LiveTasks
<1>2. ASSUME NEW x, NEW i
      PROVE  /\ x # y \/ i = 0 => (Place(x, i)' <=> Place(x, i))
                                  /\ (Place(x, i) => TaskAt(x, i)' = TaskAt(x, i))
             /\ x = y /\ i # 0 /\ Place(x, i)' =>
                  i + 1 # 1 /\ i + 1 # 0 /\ Place(x, i + 1) /\ TaskAt(x, i)' = TaskAt(x, i + 1) /\ i \in Nat
             /\ x = y /\ i # 0 /\ i # 1 /\ Place(x, i) =>
                  Place(x, i - 1)' /\ TaskAt(x, i - 1)' = TaskAt(x, i)
  <2>1. ASSUME x # y \/ i = 0
        PROVE  (Place(x, i)' <=> Place(x, i)) /\ (Place(x, i) => TaskAt(x, i)' = TaskAt(x, i))
    <3> USE <2>1
    <3>1. /\ x \in Lines /\ i \in 1..Len(Line(x))' <=> x \in Lines /\ i \in 1..Len(Line(x))
      <4>1. CASE i = 0
        <5>1. ~(i \in 1..Len(Line(x))') /\ ~(i \in 1..Len(Line(x)))
          BY <4>1
        <5> QED  BY <5>1, Zenon
      <4>2. CASE x # y
        BY <4>2, Zenon
      <4> QED  BY <4>1, <4>2, Zenon
    <3>2. Place(x, i)' <=> Place(x, i)
      BY <3>1, Zenon DEF Place, Lines, Agents, Running
    <3>3. Place(x, i) => TaskAt(x, i)' = TaskAt(x, i)
      BY Zenon DEF Place, TaskAt
    <3> QED  BY <3>2, <3>3, Zenon
  <2>2. ASSUME x = y, i # 0, Place(x, i)'
        PROVE  i + 1 # 1 /\ i + 1 # 0 /\ Place(x, i + 1) /\ TaskAt(x, i)' = TaskAt(x, i + 1) /\ i \in Nat
    <3> USE <2>2
    <3>1. i \in 1..Len(Line(y)')
      BY Zenon DEF Place
    <3>2. i + 1 \in 1..Len(Line(y)) /\ i \in Nat /\ i + 1 # 0 /\ i + 1 # 1 /\ Line(y)'[i] = Line(y)[i + 1]
      BY <3>1
    <3> QED  BY <3>2, Zenon DEF Place, TaskAt
  <2>3. ASSUME x = y, i # 0, i # 1, Place(x, i)
        PROVE  Place(x, i - 1)' /\ TaskAt(x, i - 1)' = TaskAt(x, i)
    <3> USE <2>3
    <3>1. i \in 1..Len(Line(y))
      BY Zenon DEF Place
    <3> PICK k \in 1..(Len(Line(y)) - 1) : k = i - 1 /\ k + 1 = i /\ k # 0
      BY <3>1
    <3>3. Line(y)'[k] = Line(y)[i] /\ k \in 1..Len(Line(y)')
      OBVIOUS
    <3>4. Place(x, k)' /\ TaskAt(x, k)' = TaskAt(x, i)
      BY <3>3, Zenon DEF Place, TaskAt, Lines, Agents
    <3> QED  BY <3>4
  <2> QED  BY <2>1, <2>2, <2>3, Zenon
<1>3. ASSUME NEW x, NEW i, Place(x, i)'
      PROVE  \E k : /\ Place(x, k) /\ TaskAt(x, i)' = TaskAt(x, k) /\ ~(x = y /\ k = 1)
                    /\ \/ (x # y \/ i = 0) /\ k = i
                       \/ x = y /\ i \in Nat /\ k = i + 1 /\ k # 0
  <2> USE <1>3
  <2>1. CASE x # y \/ i = 0
    <3> USE <2>1
    <3>1. Place(x, i) /\ TaskAt(x, i)' = TaskAt(x, i)
      BY <1>2, Zenon
    <3>2. ~(x = y /\ i = 1)
      OBVIOUS
    <3> QED  BY <3>1, <3>2
  <2>2. CASE x = y /\ i # 0
    <3> USE <2>2
    <3>1. i + 1 # 1 /\ i + 1 # 0 /\ Place(x, i + 1) /\ TaskAt(x, i)' = TaskAt(x, i + 1) /\ i \in Nat
      BY <1>2, Zenon
    <3> QED  BY <3>1
  <2> QED  BY <2>1, <2>2, Zenon
<1>4. Distinct'
  <2> SUFFICES ASSUME NEW x, NEW i, NEW v, NEW j, Place(x, i)', Place(v, j)', TaskAt(x, i)' = TaskAt(v, j)'
               PROVE  x = v /\ i = j
    BY Zenon DEF Distinct
  <2>1. PICK k : /\ Place(x, k) /\ TaskAt(x, i)' = TaskAt(x, k) /\ ~(x = y /\ k = 1)
                 /\ \/ (x # y \/ i = 0) /\ k = i
                    \/ x = y /\ i \in Nat /\ k = i + 1 /\ k # 0
    BY <1>3, Zenon
  <2>2. PICK m : /\ Place(v, m) /\ TaskAt(v, j)' = TaskAt(v, m) /\ ~(v = y /\ m = 1)
                 /\ \/ (v # y \/ j = 0) /\ m = j
                    \/ v = y /\ j \in Nat /\ m = j + 1 /\ m # 0
    BY <1>3
  <2>3. x = v /\ k = m
    BY <2>1, <2>2, Zenon DEF Distinct
  <2> QED  BY <2>1, <2>2, <2>3
<1>5. ASSUME NEW t, t \in Live' PROVE t \in Live /\ t # Head(Line(y))
  <2> USE <1>5
  <2> PICK x, i : Place(x, i)' /\ TaskAt(x, i)' = t
    BY Zenon DEF Live
  <2>2. t \in Tasks \cup ResolveTasks
    BY InLive, Zenon
  <2>3. PICK k : Place(x, k) /\ TaskAt(x, i)' = TaskAt(x, k) /\ ~(x = y /\ k = 1)
    BY <1>3
  <2>4. t \in Live
    BY <2>2, <2>3, Zenon DEF Live
  <2>5. t # TaskAt(y, 1)
    BY <2>3, Zenon DEF Distinct
  <2> QED  BY <2>4, <2>5
<1>6. ASSUME NEW t, t \in Live, t # Head(Line(y)) PROVE t \in Live'
  <2> USE <1>6
  <2> PICK x, i : Place(x, i) /\ TaskAt(x, i) = t
    BY Zenon DEF Live
  <2>2. \E k : Place(x, k)' /\ TaskAt(x, k)' = t
    <3>1. CASE x # y \/ i = 0
      BY <1>2, <3>1, Zenon
    <3>2. CASE x = y /\ i # 0
      <4> USE <3>2
      <4>1. i # 1
        BY Zenon
      <4> QED  BY <1>2, <4>1, Zenon
    <3> QED  BY <3>1, <3>2, Zenon
  <2>3. t \in Tasks \cup ResolveTasks
    BY DEF Live
  <2> QED  BY <2>2, <2>3, InLive, Zenon
<1> QED  BY <1>4, <1>5, <1>6, Zenon

(* Worker w, which runs no task, takes the first task of line y.            *)
LEMMA TakeLive ==
    ASSUME TInv, Distinct, NEW y \in Lines, Line(y) # <<>>, Line(y)' = Tail(Line(y)),
           \A x \in Lines : x # y => Line(x)' = Line(x),
           NEW w \in Workers, wpc[w] \notin Running, wpc'[w] \in Running, wtask'[w] = Head(Line(y)),
           \A v \in Workers : v # w => wpc'[v] = wpc[v] /\ wtask'[v] = wtask[v]
    PROVE  Distinct' /\ Live' = Live
<1>0. /\ Len(Line(y)) \in Nat /\ Len(Line(y)') = Len(Line(y)) - 1
      /\ \A i \in 1..(Len(Line(y)) - 1) : Line(y)'[i] = Line(y)[i + 1]
  <2>1. Line(y) \in Seq(Tasks \cup ResolveTasks) /\ Len(Line(y)) \in Nat
    BY LineType
  <2>2. Len(Tail(Line(y))) = Len(Line(y)) - 1
        /\ \A i \in 1..Len(Tail(Line(y))) : Tail(Line(y))[i] = Line(y)[i + 1]
    BY <2>1, TailFacts, Zenon
  <2> QED  BY <2>1, <2>2, Zenon
<1> Place(y, 1) /\ TaskAt(y, 1) = Head(Line(y))
  BY LiveTasks
<1> Place(w, 0)' /\ TaskAt(w, 0)' = TaskAt(y, 1) /\ ~Place(w, 0)
  <2>1. Place(w, 0)' /\ TaskAt(w, 0)' = TaskAt(y, 1)
    BY Zenon DEF Place, TaskAt, Running
  <2>2. 0 \notin 1..Len(Line(w))
    BY LineType
  <2> QED  BY <2>1, <2>2, Zenon DEF Place
<1>3. ASSUME NEW x, NEW i, Place(x, i)'
      PROVE  \/ x = w /\ i = 0
             \/ ~(x = w /\ i = 0) /\ (x # y \/ i = 0) /\ Place(x, i) /\ TaskAt(x, i)' = TaskAt(x, i)
             \/ x = y /\ i \in Nat /\ i # 0 /\ Place(y, i + 1) /\ TaskAt(x, i)' = TaskAt(y, i + 1)
  <2>1. CASE x \in Lines /\ i \in 1..Len(Line(x)')
    <3> USE <2>1
    <3>0. i # 0
      OBVIOUS
    <3>1. CASE x # y
      BY <3>0, <3>1, Zenon DEF Place, TaskAt
    <3>2. CASE x = y
      <4> USE <3>2
      <4>1. i + 1 \in 1..Len(Line(y)) /\ i \in Nat /\ i + 1 # 0 /\ Line(y)'[i] = Line(y)[i + 1]
        BY <1>0
      <4> QED  BY <3>0, <4>1, Zenon DEF Place, TaskAt
    <3> QED  BY <3>1, <3>2, Zenon
  <2>2. CASE x \in Workers /\ i = 0 /\ wpc'[x] \in Running
    BY <2>2, Zenon DEF Place, TaskAt
  <2> QED  BY <1>3, <2>1, <2>2, Zenon DEF Place, Lines, Agents, Running
<1>4. Distinct'
  <2> SUFFICES ASSUME NEW x, NEW i, NEW v, NEW j, Place(x, i)', Place(v, j)', TaskAt(x, i)' = TaskAt(v, j)'
               PROVE  x = v /\ i = j
    BY Zenon DEF Distinct
  <2>1. \E u, k : /\ Place(u, k) /\ TaskAt(x, i)' = TaskAt(u, k)
                  /\ \/ x = w /\ i = 0 /\ u = y /\ k = 1
                     \/ ~(x = w /\ i = 0) /\ (x # y \/ i = 0) /\ u = x /\ k = i
                     \/ x = y /\ i \in Nat /\ i # 0 /\ u = y /\ k = i + 1
    BY <1>3, Zenon
  <2>2. \E u, k : /\ Place(u, k) /\ TaskAt(v, j)' = TaskAt(u, k)
                  /\ \/ v = w /\ j = 0 /\ u = y /\ k = 1
                     \/ ~(v = w /\ j = 0) /\ (v # y \/ j = 0) /\ u = v /\ k = j
                     \/ v = y /\ j \in Nat /\ j # 0 /\ u = y /\ k = j + 1
    BY <1>3, Zenon
  <2>3. PICK u, k : /\ Place(u, k) /\ TaskAt(x, i)' = TaskAt(u, k)
                    /\ \/ x = w /\ i = 0 /\ u = y /\ k = 1
                       \/ ~(x = w /\ i = 0) /\ (x # y \/ i = 0) /\ u = x /\ k = i
                       \/ x = y /\ i \in Nat /\ i # 0 /\ u = y /\ k = i + 1
    BY <2>1, Zenon
  <2>4. /\ Place(u, k) /\ TaskAt(v, j)' = TaskAt(u, k)
        /\ \/ v = w /\ j = 0 /\ u = y /\ k = 1
           \/ ~(v = w /\ j = 0) /\ (v # y \/ j = 0) /\ u = v /\ k = j
           \/ v = y /\ j \in Nat /\ j # 0 /\ u = y /\ k = j + 1
    BY <2>2, <2>3, Zenon DEF Distinct
  <2>5. CASE x = w /\ i = 0 /\ u = y /\ k = 1
    BY <2>4, <2>5
  <2>6. CASE ~(x = w /\ i = 0) /\ (x # y \/ i = 0) /\ u = x /\ k = i
    BY <2>4, <2>6
  <2>7. CASE x = y /\ i \in Nat /\ i # 0 /\ u = y /\ k = i + 1
    BY <2>4, <2>7
  <2> QED  BY <2>3, <2>5, <2>6, <2>7, Zenon
<1>5. ASSUME NEW t, t \in Live' PROVE t \in Live
  <2> USE <1>5
  <2>1. PICK x, i : Place(x, i)' /\ TaskAt(x, i)' = t
    BY Zenon DEF Live
  <2>2. t \in Tasks \cup ResolveTasks
    BY InLive, Zenon
  <2>3. \E u, k : Place(u, k) /\ TaskAt(u, k) = t
    BY <1>3, <2>1, Zenon
  <2> QED  BY <2>2, <2>3, Zenon DEF Live
<1>6. ASSUME NEW t, t \in Live PROVE t \in Live'
  <2> USE <1>6
  <2> PICK x, i : Place(x, i) /\ TaskAt(x, i) = t
    BY Zenon DEF Live
  <2>2. \E u, k : Place(u, k)' /\ TaskAt(u, k)' = t
    <3>1. CASE x = y /\ i = 1
      BY <3>1, Zenon
    <3>2. CASE x = y /\ i \in 1..Len(Line(y)) /\ i # 1
      <4> USE <3>2
      <4>n. PICK n \in Nat : n = Len(Line(y))
        BY LineType, Zenon
      <4>k. i \in 1..n /\ i # 1 => i - 1 \in 1..(n - 1) /\ (i - 1) + 1 = i /\ i - 1 # 0
        OBVIOUS
      <4>1. PICK k \in 1..(Len(Line(y)) - 1) : k + 1 = i /\ k # 0
        BY <4>n, <4>k, Zenon
      <4>2. Line(y)'[k] = Line(y)[i] /\ k \in 1..Len(Line(y)') /\ i # 0
        BY <1>0, <4>1
      <4>3. Place(y, k)' /\ TaskAt(y, k)' = t
        BY <4>1, <4>2, Zenon DEF Place, TaskAt, Lines, Agents
      <4> QED  BY <4>3, Zenon
    <3>3. CASE x # y /\ x \in Lines /\ i \in 1..Len(Line(x))
      <4> USE <3>3
      <4>a. Len(Line(x)) \in Nat
        BY LineType, Zenon
      <4>1. i # 0
        BY <4>a
      <4>2. Place(x, i)' /\ TaskAt(x, i)' = t
        BY <4>1, Zenon DEF Place, TaskAt, Lines, Agents
      <4> QED  BY <4>2, Zenon
    <3>4. CASE x \in Workers /\ i = 0 /\ wpc[x] \in Running
      <4> USE <3>4
      <4>1. x # w
        BY Zenon
      <4>2. Place(x, i)' /\ TaskAt(x, i)' = t
        BY <4>1, Zenon DEF Place, TaskAt, Running
      <4> QED  BY <4>2, Zenon
    <3> QED  BY <3>1, <3>2, <3>3, <3>4, Zenon DEF Place
  <2>3. t \in Tasks \cup ResolveTasks
    BY DEF Live
  <2> QED  BY <2>2, <2>3, InLive, Zenon
<1> QED  BY <1>4, <1>5, <1>6, Zenon
------------------------------------------------------------------------------
(* Two tasks that would run the same function or settle the same promise.   *)
SameCharge(t, u) ==
    \/ IsFn(t) /\ IsFn(u) /\ t.fn = u.fn
    \/ t.kind # "call" /\ u.kind # "call" /\ t.for = u.for

(* The functions of B have ended, all with a value if and only if ok.       *)
Tells(B, ok) ==
    /\ \A f \in B : result[f] # "none"
    /\ ok <=> \A f \in B : result[f] = "value"

(* What holds of a task that is not done yet: its function has not ended    *)
(* and will not be submitted again; its promise is pending; what it will    *)
(* settle the promise with is what the functions ended with.                *)
Sound(t) ==
    /\ IsFn(t) => /\ result[t.fn] = "none" /\ \A a \in Agents : t.fn \notin left[a]
                  /\ \A B \in Batches : t.fn \in B => creator[B] # None
    /\ t.kind = "auto" => t.for = {t.fn} /\ t.fn \in Reactions
    /\ t.kind # "call" => promise[t.for] = "pending"
    /\ t.kind = "resolve" /\ t.for \in Batches => Tells(t.for, t.ok)

ChargeInv == \A t, u \in Live : SameCharge(t, u) => t = u
SoundInv == \A t \in Live : Sound(t)

(* An array method under way, and the chunks it has yet to submit.          *)
ChunkInv ==
    /\ \A a \in Agents : array[a] # {} =>
         /\ creator[array[a]] # None /\ promise[array[a]] = "none"
         /\ \A b \in Agents : array[b] = array[a] => a = b
    /\ \A a \in Agents : \A f \in left[a] : f \in array[a] /\ result[f] = "none"

(* A batch that no script has started.                                      *)
FreshInv ==
    \A B \in Batches : creator[B] = None => promise[B] = "none" /\ \A f \in B : result[f] = "none"

SettleInv ==
    \A p \in Promises :
      /\ settles[p] = IF promise[p] \in {"fulfilled", "rejected"} THEN 1 ELSE 0
      /\ p \in Batches /\ promise[p] \in {"fulfilled", "rejected"} => Tells(p, promise[p] = "fulfilled")

(* Until V8 is disposed of, some task will settle each pending promise.     *)
PendingInv ==
    ~disposing => \A p \in Promises : promise[p] = "pending" =>
                    \E t \in Live : t.kind # "call" /\ t.for = p

LInv ==
    /\ TInv /\ Distinct /\ ChargeInv /\ SoundInv
    /\ ChunkInv /\ FreshInv /\ SettleInv /\ PendingInv

LEMMA LInvParts ==
    ASSUME LInv
    PROVE  /\ TInv /\ Distinct /\ ChargeInv /\ SoundInv
           /\ ChunkInv /\ FreshInv /\ SettleInv /\ PendingInv
           /\ TypeOK /\ WorkerInv
  BY Zenon DEF LInv, TInv

LEMMA LiveFields ==
    ASSUME TInv, NEW t \in Live
    PROVE  TaskFields(t) /\ t # None /\ (IsFn(t) => t.fn \in Functions)
           /\ (t.kind # "call" => t.for \in Promises)
<1>1. t \in Tasks \cup ResolveTasks
  BY DEF Live
<1>2. TaskFields(t) /\ t # None
  BY <1>1, TaskTypes, NoneAssumption
<1> QED  BY <1>2, Zenon DEF TaskFields, IsFn, Promises

(* Neither the tasks nor what they tell changes.                            *)
LEMMA SameLInv ==
    ASSUME LInv, TInv', Distinct', Live' = Live, UNCHANGED <<builtin, creator, outcome>>,
           disposing => disposing'
    PROVE  LInv'
<1> ChargeInv /\ SoundInv /\ ChunkInv /\ FreshInv /\ SettleInv /\ PendingInv
  BY LInvParts, Zenon
<1> array' = array /\ left' = left /\ creator' = creator /\ promise' = promise
      /\ settles' = settles /\ result' = result
  BY Zenon DEF builtin, outcome
<1>2. ChargeInv'
  BY DEF ChargeInv, SameCharge, IsFn
<1>3. SoundInv'
  <2>1. \A t : Sound(t) => Sound(t)'
    BY Zenon DEF Sound, Tells, IsFn
  <2> QED  BY <2>1, Zenon DEF SoundInv
<1>4. ChunkInv' /\ FreshInv'
  BY Zenon DEF ChunkInv, FreshInv
<1>5. SettleInv'
  BY Zenon DEF SettleInv, Tells
<1>6. PendingInv'
  BY Zenon DEF PendingInv
<1> QED  BY <1>2, <1>3, <1>4, <1>5, <1>6, Zenon DEF LInv

(* Task t is done; what it ended with, and the task r that it posts, if it  *)
(* posts one, tell the same.                                                *)
LEMMA DoneLInv ==
    ASSUME LInv, TInv', Distinct', NEW t \in Live, NEW r, NEW posts \in BOOLEAN,
           posts => /\ r.kind = "resolve" /\ t.kind # "call" /\ r.for = t.for
                    /\ r.for \in Batches => Tells(r.for, r.ok)',
           ~posts => t.kind = "call" \/ disposing,
           \A u : u \in Live' <=> (u \in Live /\ u # t) \/ (posts /\ u = r),
           \A f \in Functions : result'[f] = result[f] \/ (IsFn(t) /\ f = t.fn /\ result'[f] # "none"),
           UNCHANGED <<disposing, builtin, creator, promise, settles>>
    PROVE  LInv'
<1> TInv /\ ChargeInv /\ SoundInv /\ ChunkInv /\ FreshInv /\ SettleInv /\ PendingInv
  BY LInvParts, Zenon
<1> array' = array /\ left' = left /\ creator' = creator /\ promise' = promise
      /\ settles' = settles /\ disposing' = disposing
  BY DEF builtin
<1> Sound(t)
  BY Zenon DEF SoundInv
<1> \A f \in Functions : result[f] # "none" \/ (\E a \in Agents : f \in left[a])
                           \/ (\E B \in Batches : f \in B /\ creator[B] = None)
                           => result'[f] = result[f]
  BY Zenon DEF Sound
<1> \A B \in Batches : B \subseteq Functions
  BY ApiAssumption, Zenon
<1> \A B \in Batches : \A ok : Tells(B, ok) => Tells(B, ok)'
  BY Zenon DEF Tells
<1>6. ChargeInv'
  <2> SUFFICES ASSUME NEW u \in Live', NEW v \in Live', SameCharge(u, v) PROVE u = v
    BY Zenon DEF ChargeInv, SameCharge, IsFn
  <2>1. CASE u \in Live /\ v \in Live
    BY <2>1, Zenon DEF ChargeInv
  <2>2. ASSUME NEW x \in Live, x # t, posts PROVE ~SameCharge(x, r) /\ ~SameCharge(r, x)
    <3> USE <2>2
    <3>1. ~SameCharge(x, t)
      BY Zenon DEF ChargeInv
    <3> QED  BY <3>1, Zenon DEF SameCharge, IsFn
  <2>3. (u \in Live /\ u # t) \/ (posts /\ u = r)
    BY Zenon
  <2>4. (v \in Live /\ v # t) \/ (posts /\ v = r)
    BY Zenon
  <2> QED  BY <2>1, <2>2, <2>3, <2>4, Zenon
<1>7. SoundInv'
  <2> SUFFICES ASSUME NEW u \in Live' PROVE Sound(u)'
    BY Zenon DEF SoundInv
  <2>1. CASE u \in Live /\ u # t
    <3> USE <2>1
    <3> Sound(u) /\ ~SameCharge(u, t)
      BY Zenon DEF SoundInv, ChargeInv
    <3>2. ASSUME IsFn(u)
          PROVE  /\ result'[u.fn] = "none" /\ \A a \in Agents : u.fn \notin left'[a]
                 /\ \A B \in Batches : u.fn \in B => creator'[B] # None
      <4> USE <3>2
      <4>1. u.fn \in Functions /\ ~(IsFn(t) /\ u.fn = t.fn)
        BY LiveFields, Zenon DEF SameCharge
      <4>2. result'[u.fn] = result[u.fn]
        BY <4>1, Zenon
      <4> QED  BY <4>2, Zenon DEF Sound
    <3> QED  BY <3>2, Zenon DEF Sound, IsFn
  <2>2. CASE posts /\ u = r
    <3> USE <2>2
    <3>1. t.kind # "call" /\ promise[t.for] = "pending"
      BY Zenon DEF Sound
    <3> QED  BY <3>1, Zenon DEF Sound, IsFn
  <2> QED  BY <2>1, <2>2, Zenon
<1>8. ChunkInv'
  <2>1. \A a \in Agents : left[a] \subseteq Functions
    BY InvTypes, Zenon DEF TypeOK
  <2>2. \A a \in Agents : \A f \in left[a] : result'[f] = result[f]
    BY <2>1, Zenon
  <2> QED  BY <2>2, Zenon DEF ChunkInv
<1>9. FreshInv'
  <2>1. \A B \in Batches : creator[B] = None => \A f \in B : result'[f] = result[f]
    BY Zenon
  <2> QED  BY <2>1, Zenon DEF FreshInv
<1>10. SettleInv'
  BY Zenon DEF SettleInv
<1>11. PendingInv'
  <2> SUFFICES ASSUME ~disposing', NEW p \in Promises', promise'[p] = "pending"
               PROVE  \E u \in Live' : u.kind # "call" /\ u.for = p
    BY Zenon DEF PendingInv
  <2> p \in Promises /\ ~disposing /\ promise[p] = "pending"
    BY DEF Promises
  <2> PICK u \in Live : u.kind # "call" /\ u.for = p
    BY Zenon DEF PendingInv
  <2>2. CASE u # t
    BY <2>2, Zenon
  <2>3. CASE u = t
    <3>1. posts /\ r.kind # "call" /\ r.for = p
      BY <2>3, Zenon
    <3> QED  BY <3>1, Zenon
  <2> QED  BY <2>2, <2>3, Zenon
<1> QED  BY <1>6, <1>7, <1>8, <1>9, <1>10, <1>11, Zenon DEF LInv

(* The resolve task r settles its promise.                                  *)
LEMMA SettleLInv ==
    ASSUME LInv, TInv', Distinct', NEW r \in Live, r.kind = "resolve",
           \A u : u \in Live' <=> u \in Live /\ u # r, Settle(r.for, r.ok),
           UNCHANGED <<disposing, builtin, creator, result>>
    PROVE  LInv'
<1>0. TInv /\ ChargeInv /\ SoundInv /\ ChunkInv /\ FreshInv /\ SettleInv /\ PendingInv
  BY LInvParts, Zenon
<1>1. array' = array /\ left' = left /\ creator' = creator /\ result' = result
      /\ disposing' = disposing
  BY DEF builtin
<1> DEFINE p == r.for
           to == IF r.ok THEN "fulfilled" ELSE "rejected"
<1>2. p \in Promises /\ r.ok \in BOOLEAN /\ promise[p] = "pending" /\ (p \in Batches => Tells(p, r.ok))
  <2>1. p \in Promises /\ r.ok \in BOOLEAN
    BY <1>0, LiveFields DEF TaskFields
  <2>2. Sound(r)
    BY <1>0 DEF SoundInv
  <2> QED  BY <2>1, <2>2 DEF Sound
<1>3. /\ promise'[p] = to /\ settles'[p] = settles[p] + 1 /\ settles[p] = 0
      /\ \A q \in Promises : q # p => promise'[q] = promise[q] /\ settles'[q] = settles[q]
  <2>1. settles[p] = 0
    BY <1>0, <1>2, Zenon DEF SettleInv
  <2> QED  BY <1>0, <1>2, <2>1, InvTypes, Zenon DEF Settle, TypeOK
<1>4. to \in {"fulfilled", "rejected"} /\ (to = "fulfilled" <=> r.ok)
  BY <1>2
<1> HIDE DEF p, to
<1>5. ChargeInv'
  <2> SUFFICES ASSUME NEW u \in Live', NEW v \in Live', SameCharge(u, v) PROVE u = v
    BY DEF ChargeInv, SameCharge, IsFn
  <2> QED  BY <1>0, Zenon DEF ChargeInv
<1>6. SoundInv'
  <2> SUFFICES ASSUME NEW u \in Live' PROVE Sound(u)'
    BY DEF SoundInv
  <2>1. u \in Live /\ u # r /\ Sound(u) /\ ~SameCharge(u, r)
    BY <1>0, Zenon DEF SoundInv, ChargeInv
  <2>2. u.kind # "call" => u.for \in Promises /\ u.for # p
    BY <1>0, <2>1, LiveFields DEF SameCharge, p
  <2>3. u.kind # "call" => promise'[u.for] = "pending"
    BY <1>3, <2>1, <2>2, Zenon DEF Sound
  <2> QED  BY <1>1, <2>1, <2>3, Zenon DEF Sound, IsFn, Tells
<1>7. ChunkInv'
  <2>1. \A a \in Agents : array[a] # {} => array[a] \in Promises /\ array[a] # p
    BY <1>0, <1>2, InvTypes, Zenon DEF ChunkInv, TypeOK, Promises
  <2> QED  BY <1>0, <1>1, <1>3, <2>1, Zenon DEF ChunkInv
<1>8. FreshInv'
  <2>1. \A B \in Batches : creator[B] = None => B \in Promises /\ B # p
    BY <1>0, <1>2 DEF FreshInv, Promises
  <2> QED  BY <1>0, <1>1, <1>3, <2>1, Zenon DEF FreshInv
<1>9. SettleInv'
  <2> SUFFICES ASSUME NEW q \in Promises
               PROVE  /\ settles'[q] = IF promise'[q] \in {"fulfilled", "rejected"} THEN 1 ELSE 0
                      /\ q \in Batches /\ promise'[q] \in {"fulfilled", "rejected"} =>
                           /\ \A f \in q : result[f] # "none"
                           /\ promise'[q] = "fulfilled" <=> \A f \in q : result[f] = "value"
    BY <1>1 DEF SettleInv, Tells
  <2>1. CASE q = p
    <3>1. settles'[q] = 1 /\ promise'[q] = to
      BY <1>3, <2>1
    <3>2. q \in Batches => /\ \A f \in q : result[f] # "none"
                           /\ to = "fulfilled" <=> \A f \in q : result[f] = "value"
      BY <1>2, <1>4, <2>1, Zenon DEF Tells
    <3> QED  BY <1>4, <3>1, <3>2, Zenon
  <2>2. CASE q # p
    BY <1>0, <1>3, <2>2, Zenon DEF SettleInv, Tells
  <2> QED  BY <2>1, <2>2, Zenon
<1>10. PendingInv'
  <2> SUFFICES ASSUME ~disposing, NEW q \in Promises, promise'[q] = "pending"
               PROVE  \E u \in Live' : u.kind # "call" /\ u.for = q
    BY <1>1 DEF PendingInv
  <2>1. q # p
    BY <1>3, <1>4
  <2>2. PICK u \in Live : u.kind # "call" /\ u.for = q
    BY <1>0, <1>3, <2>1, Zenon DEF PendingInv
  <2>3. u # r
    BY <2>1, <2>2, Zenon DEF p
  <2> QED  BY <2>2, <2>3, Zenon
<1> QED  BY <1>5, <1>6, <1>7, <1>8, <1>9, <1>10, Zenon DEF LInv

(* A new task t, which nothing that is under way is charged with.           *)
LEMMA AddLInv ==
    ASSUME LInv, TInv', Distinct', NEW t \in Tasks, \A u : u \in Live' <=> u \in Live \/ u = t,
           Sound(t)', \A u \in Live : ~SameCharge(u, t),
           \A p \in Promises : promise'[p] # promise[p] =>
             /\ promise[p] \in {"none", "handle"} /\ promise'[p] \in {"handle", "pending"}
             /\ creator'[p] # None
             /\ promise'[p] = "pending" => t.kind # "call" /\ t.for = p,
           \A p \in Promises : creator[p] # None => creator'[p] # None,
           \A a \in Agents :
             \/ array'[a] = {} /\ left'[a] = {}
             \/ array'[a] = array[a] /\ left'[a] \subseteq left[a]
                /\ (array[a] # {} => promise'[array[a]] = promise[array[a]]),
           UNCHANGED <<disposing, settles, result>>
    PROVE  LInv'
<1> TInv /\ ChargeInv /\ SoundInv /\ ChunkInv /\ FreshInv /\ SettleInv /\ PendingInv
  BY LInvParts, Zenon
<1> t \in Live' /\ \A a \in Agents : left'[a] \subseteq left[a]
  BY Zenon
<1> /\ Batches \subseteq Promises
      /\ \A B \in Batches : \A ok : Tells(B, ok) => Tells(B, ok)'
  BY Zenon DEF Promises, Tells
<1>3. ChargeInv'
  <2> SUFFICES ASSUME NEW u \in Live', NEW v \in Live', SameCharge(u, v) PROVE u = v
    BY Zenon DEF ChargeInv, SameCharge, IsFn
  <2>1. CASE u \in Live /\ v \in Live
    BY <2>1, Zenon DEF ChargeInv
  <2>2. CASE u = t /\ v \in Live
    <3> USE <2>2
    <3>1. SameCharge(v, t)
      BY Zenon DEF SameCharge
    <3> QED  BY <3>1, Zenon
  <2>3. CASE u \in Live /\ v = t
    BY <2>3, Zenon
  <2> QED  BY <2>1, <2>2, <2>3, Zenon
<1>4. SoundInv'
  <2> SUFFICES ASSUME NEW u \in Live' PROVE Sound(u)'
    BY Zenon DEF SoundInv
  <2>1. CASE u \in Live
    <3> Sound(u) /\ (u.kind # "call" => u.for \in Promises)
      BY <2>1, LiveFields, Zenon DEF SoundInv
    <3>2. u.kind # "call" => promise'[u.for] = "pending"
      <4>1. u.kind # "call" => promise[u.for] = "pending" /\ promise[u.for] \notin {"none", "handle"}
        BY Zenon DEF Sound
      <4> QED  BY <4>1, Zenon
    <3>3. IsFn(u) => \A a \in Agents : u.fn \notin left'[a]
      BY Zenon DEF Sound
    <3>4. IsFn(u) => \A B \in Batches : u.fn \in B => creator'[B] # None
      BY Zenon DEF Sound
    <3> QED  BY <3>2, <3>3, <3>4, Zenon DEF Sound, IsFn
  <2>2. CASE u = t
    BY <2>2
  <2> QED  BY <2>1, <2>2, Zenon
<1>5. ChunkInv'
  <2>1. ASSUME NEW a \in Agents, array'[a] # {}
        PROVE  /\ creator'[array'[a]] # None /\ promise'[array'[a]] = "none"
               /\ \A b \in Agents : array'[b] = array'[a] => a = b
    <3> USE <2>1
    <3> array'[a] = array[a] /\ promise'[array[a]] = promise[array[a]] /\ array[a] \in Promises
      BY InvTypes, ZenonT(40) DEF TypeOK, Promises
    <3>2. \A b \in Agents : array'[b] = array'[a] => array[b] = array[a]
      BY Zenon
    <3> /\ creator[array[a]] # None /\ promise[array[a]] = "none"
          /\ \A b \in Agents : array[b] = array[a] => a = b
      BY Zenon DEF ChunkInv
    <3>4. creator'[array[a]] # None
      BY Zenon
    <3> QED  BY <3>2, <3>4, Zenon
  <2>2. ASSUME NEW a \in Agents, NEW f \in left'[a] PROVE f \in array'[a] /\ result'[f] = "none"
    <3>1. array'[a] = array[a] /\ f \in left[a]
      BY <2>2
    <3> QED  BY <3>1, Zenon DEF ChunkInv
  <2> QED  BY <2>1, <2>2, Zenon DEF ChunkInv
<1>6. FreshInv'
  <2> SUFFICES ASSUME NEW B \in Batches, creator'[B] = None
               PROVE  promise'[B] = "none" /\ \A f \in B : result'[f] = "none"
    BY Zenon DEF FreshInv
  <2>1. creator[B] = None /\ promise'[B] = promise[B]
    BY Zenon
  <2> QED  BY <2>1, Zenon DEF FreshInv
<1>7. SettleInv'
  <2> SUFFICES ASSUME NEW q \in Promises
               PROVE  /\ settles'[q] = IF promise'[q] \in {"fulfilled", "rejected"} THEN 1 ELSE 0
                      /\ q \in Batches /\ promise'[q] \in {"fulfilled", "rejected"} =>
                           /\ \A f \in q : result[f] # "none"
                           /\ promise'[q] = "fulfilled" <=> \A f \in q : result[f] = "value"
    BY ZenonT(40) DEF SettleInv, Tells
  <2>1. CASE promise'[q] = promise[q]
    BY <2>1, Zenon DEF SettleInv, Tells
  <2>2. CASE promise'[q] # promise[q]
    <3>1. promise[q] \notin {"fulfilled", "rejected"} /\ promise'[q] \notin {"fulfilled", "rejected"}
      BY <2>2, Zenon
    <3> QED  BY <3>1, Zenon DEF SettleInv
  <2> QED  BY <2>1, <2>2, Zenon
<1>8. PendingInv'
  <2> SUFFICES ASSUME ~disposing, NEW q \in Promises, promise'[q] = "pending"
               PROVE  \E u \in Live' : u.kind # "call" /\ u.for = q
    BY DEF PendingInv
  <2>1. CASE promise[q] = "pending"
    BY <2>1, Zenon DEF PendingInv
  <2>2. CASE promise[q] # "pending"
    BY <2>2, Zenon
  <2> QED  BY <2>1, <2>2, Zenon
<1> QED  BY <1>3, <1>4, <1>5, <1>6, <1>7, <1>8, Zenon DEF LInv

(* The queues of the pool as lines.                                         *)
LEMMA Queues ==
    /\ None \in Lines /\ Main \in Lines /\ Agents \subseteq Lines /\ Workers \subseteq Lines
    /\ Line(None) = queue /\ Line(Main) = foreground /\ \A w \in Workers : Line(w) = private[w]
    /\ Line(None)' = queue' /\ Line(Main)' = foreground' /\ \A w \in Workers : Line(w)' = private'[w]
    /\ \A x \in Lines : x = None \/ x = Main \/ x \in Workers
    /\ None \notin Workers /\ Main \notin Workers /\ None # Main
<1>1. None \notin Workers /\ Main \notin Workers /\ None # Main
  BY ApiAssumption DEF Agents
<1> QED  BY <1>1, Zenon DEF Lines, Line, Agents

LEMMA SamePoolLines == UNCHANGED pool => \A x \in Lines : Line(x)' = Line(x)
  BY Queues, Zenon DEF pool

LEMMA SubmitLive ==
    ASSUME TInv, Distinct, NEW t \in Tasks, t \notin Live, Submit(t), wpc' = wpc, wtask' = wtask
    PROVE  Distinct' /\ \A u : u \in Live' <=> u \in Live \/ u = t
<1>1. /\ Line(None)' = Append(Line(None), t)
      /\ \A x \in Lines : x # None => Line(x)' = Line(x)
  BY Queues, Zenon DEF Submit
<1>2. None \in Lines /\ None \notin Workers /\ t \in Tasks \cup ResolveTasks
      /\ \A w \in Workers : wpc'[w] \in Running <=> wpc[w] \in Running /\ w # None
  BY Queues, Zenon
<1> QED  BY <1>1, <1>2, AppendLive, Zenon

(* Worker w is done with its task and posts r to agent a.                   *)
LEMMA PostLive ==
    ASSUME TInv, Distinct, NEW w \in Workers, wpc[w] \in Running, wtask' = wtask, GoTo(w, "finish"),
           NEW a \in Agents, NEW r \in ResolveTasks, r \notin Live, PostBack(a, r)
    PROVE  Distinct' /\ \A u : u \in Live' <=> (u \in Live /\ u # wtask[w]) \/ u = r
<1>1. /\ Line(a)' = Append(Line(a), r)
      /\ \A x \in Lines : x # a => Line(x)' = Line(x)
  <2>1. private \in [Workers -> Seq(ResolveTasks)]
    BY InvTypes DEF TypeOK
  <2>2. CASE a = Main
    BY <2>2, Queues, Zenon DEF PostBack
  <2>3. CASE a # Main
    <3> USE <2>3
    <3> a \in Workers
      BY Zenon DEF Agents
    <3> private' = [private EXCEPT ![a] = Append(private[a], r)] /\ foreground' = foreground /\ queue' = queue
      BY Zenon DEF PostBack
    <3>3. private'[a] = Append(private[a], r) /\ \A v \in Workers : v # a => private'[v] = private[v]
      BY <2>1, Zenon
    <3> QED  BY <3>3, Queues, Zenon
  <2> QED  BY <2>2, <2>3, Zenon
<1>2. \A v \in Workers : wpc'[v] \in Running <=> wpc[v] \in Running /\ v # w
  BY InvTypes DEF GoTo, TypeOK, Running
<1>3. Distinct' /\ \A u : u \in Live' <=> (u \in Live /\ ~(w \in Workers /\ u = wtask[w])) \/ u = r
  BY <1>1, <1>2, AppendLive, Queues, Zenon
<1> QED  BY <1>3, Zenon

(* Worker w is done with its task and posts nothing.                        *)
LEMMA EndLive ==
    ASSUME TInv, Distinct, NEW w \in Workers, wpc[w] \in Running, wtask' = wtask, GoTo(w, "finish"),
           UNCHANGED pool
    PROVE  Distinct' /\ \A u : u \in Live' <=> u \in Live /\ u # wtask[w]
<1>1. \A v \in Workers : wpc'[v] \in Running <=> wpc[v] \in Running /\ v # w
  BY InvTypes DEF GoTo, TypeOK, Running
<1>2. Distinct' /\ \A u : u \in Live' <=> u \in Live /\ ~(w \in Workers /\ u = wtask[w])
  BY <1>1, SamePoolLines, DropLive, Zenon
<1> QED  BY <1>2, Zenon

(* No task is taken, submitted or done.                                     *)
LEMMA QuietLive ==
    ASSUME TInv, Distinct, UNCHANGED pool,
           \A w \in Workers : wpc[w] \in Running => wtask'[w] = wtask[w],
           \A w \in Workers : wpc'[w] \in Running <=> wpc[w] \in Running
    PROVE  Distinct' /\ Live' = Live
<1> None \notin Workers
  BY Queues
<1>2. \A w \in Workers : wpc'[w] \in Running <=> wpc[w] \in Running /\ w # None
  BY Zenon
<1>3. Distinct' /\ \A u : u \in Live' <=> u \in Live /\ ~(None \in Workers /\ u = wtask[None])
  BY <1>2, SamePoolLines, DropLive, Zenon
<1> QED  BY <1>3, Zenon

(* The functions of a batch that no script has started.                     *)
LEMMA FreshBatch ==
    ASSUME LInv, NEW B \in Batches, creator[B] = None
    PROVE  /\ promise[B] = "none" /\ \A a \in Agents : array[a] # B
           /\ \A f \in B : /\ result[f] = "none" /\ \A a \in Agents : f \notin left[a]
                           /\ \A u \in Live : ~(IsFn(u) /\ u.fn = f)
           /\ \A u \in Live : ~(u.kind # "call" /\ u.for = B)
<1> TInv /\ SoundInv /\ ChunkInv /\ FreshInv /\ B # {}
  BY LInvParts, ApiAssumption, Zenon
<1> promise[B] = "none" /\ \A f \in B : result[f] = "none"
  BY Zenon DEF FreshInv
<1> \A a \in Agents : array[a] # B
  BY Zenon DEF ChunkInv
<1>3. ASSUME NEW f \in B, NEW a \in Agents, f \in left[a] PROVE FALSE
  <2>1. f \in array[a] /\ array[a] \in Batches
    BY <1>3, InvTypes, Zenon DEF ChunkInv, TypeOK
  <2> QED  BY <2>1, ApiAssumption, Zenon
<1>4. ASSUME NEW f \in B, NEW u \in Live, IsFn(u), u.fn = f PROVE FALSE
  BY <1>4, Zenon DEF SoundInv, Sound
<1>5. ASSUME NEW u \in Live, u.kind # "call", u.for = B PROVE FALSE
  <2>1. promise[B] = "pending"
    BY <1>5, Zenon DEF SoundInv, Sound
  <2> QED  BY <2>1
<1> QED  BY <1>3, <1>4, <1>5, Zenon

(* The singleton that Thread.spawn and an interception start.               *)
LEMMA SpawnBatch ==
    ASSUME TInv, NEW a \in Agents, RunsScript(a), NEW f \in Functions, {f} \in program[Script(a)]
    PROVE  {f} \in Batches /\ \A B \in Batches : f \in B => B = {f}
<1>1. Script(a) \in Scripts /\ program \in [Scripts -> SUBSET Promises]
  BY ScriptType, ApiAssumption, InvTypes, Zenon DEF TypeOK
<1> QED  BY <1>1, ApiAssumption, Zenon DEF Promises

LEMMA ScriptName ==
    ASSUME TInv, NEW a \in Agents, RunsScript(a)
    PROVE  Script(a) \in Scripts /\ Script(a) # None
  BY ScriptType, ApiAssumption

LEMMA NewPromiseStep ==
    ASSUME TInv, NEW p \in Promises, NEW a, NEW state, NewPromise(p, a, state)
    PROVE  /\ promise'[p] = state /\ \A q \in Promises : q # p => promise'[q] = promise[q]
           /\ creator'[p] = Script(a) /\ \A q \in Promises : q # p => creator'[q] = creator[q]
  BY InvTypes DEF NewPromise, TypeOK

LEMMA SpawnLInv ==
    ASSUME LInv, TInv', NEW a \in Agents, NEW f \in Functions, ThreadSpawn(a, f)
    PROVE  LInv'
<1>0. TInv /\ Distinct
  BY LInvParts, Zenon
<1>1. /\ RunsScript(a) /\ {f} \in program[Script(a)] /\ creator[{f}] = None
      /\ Submit(CallTask(f)) /\ NewPromise({f}, a, "handle")
      /\ UNCHANGED <<wpc, wtask, main, builtin, settles, result>>
  BY Zenon DEF ThreadSpawn
<1>2. {f} \in Batches /\ {f} \in Promises /\ (\A B \in Batches : f \in B => B = {f})
      /\ Script(a) # None
  BY <1>0, <1>1, SpawnBatch, ScriptName, Zenon DEF Promises
<1>3. PICK t \in Tasks : t = CallTask(f) /\ t.kind = "call" /\ t.fn = f
  BY NewTasks, Zenon
<1>4. t # None /\ IsFn(t)
  BY <1>3, NoneAssumption DEF IsFn
<1>5. /\ promise[{f}] = "none" /\ \A b \in Agents : array[b] # {f}
      /\ result[f] = "none" /\ \A b \in Agents : f \notin left[b]
      /\ \A u \in Live : ~(IsFn(u) /\ u.fn = f)
  BY <1>1, <1>2, FreshBatch, Zenon
<1>6. \A u \in Live : ~SameCharge(u, t)
  BY <1>3, <1>5, Zenon DEF SameCharge
<1>7. t \notin Live
  BY <1>3, <1>4, <1>5, Zenon
<1>8. Distinct' /\ \A u : u \in Live' <=> u \in Live \/ u = t
  BY <1>0, <1>1, <1>3, <1>7, SubmitLive, Zenon
<1>9. /\ promise'[{f}] = "handle" /\ \A q \in Promises : q # {f} => promise'[q] = promise[q]
      /\ creator'[{f}] = Script(a) /\ \A q \in Promises : q # {f} => creator'[q] = creator[q]
  BY <1>0, <1>1, <1>2, NewPromiseStep, Zenon
<1>10. array' = array /\ left' = left /\ result' = result /\ settles' = settles /\ disposing' = disposing
  BY <1>1, Zenon DEF builtin, main
<1>11. Sound(t)'
  BY <1>2, <1>3, <1>4, <1>5, <1>9, <1>10, Zenon DEF Sound, IsFn
<1>12. \A p \in Promises : promise'[p] # promise[p] =>
             /\ promise[p] \in {"none", "handle"} /\ promise'[p] \in {"handle", "pending"}
             /\ creator'[p] # None
             /\ promise'[p] = "pending" => t.kind # "call" /\ t.for = p
  BY <1>2, <1>5, <1>9, Zenon
<1>13. \A p \in Promises : creator[p] # None => creator'[p] # None
  BY <1>2, <1>9, Zenon
<1>14. \A b \in Agents : array'[b] = array[b] /\ left'[b] \subseteq left[b]
                         /\ (array[b] # {} => promise'[array[b]] = promise[array[b]])
  BY <1>0, <1>5, <1>9, <1>10, InvTypes, Zenon DEF TypeOK, Promises
<1> QED  BY <1>6, <1>8, <1>10, <1>11, <1>12, <1>13, <1>14, AddLInv, Zenon

LEMMA InterceptLInv ==
    ASSUME LInv, TInv', NEW a \in Agents, NEW f \in Functions, Intercept(a, f)
    PROVE  LInv'
<1>0. TInv /\ Distinct
  BY LInvParts, Zenon
<1>1. /\ RunsScript(a) /\ {f} \in program[Script(a)] /\ creator[{f}] = None /\ f \in Reactions
      /\ Submit(AutoTask(f, {f}, a)) /\ NewPromise({f}, a, "pending")
      /\ UNCHANGED <<wpc, wtask, main, builtin, settles, result>>
  BY Zenon DEF Intercept
<1>2. {f} \in Batches /\ {f} \in Promises /\ (\A B \in Batches : f \in B => B = {f})
      /\ Script(a) # None
  BY <1>0, <1>1, SpawnBatch, ScriptName, Zenon DEF Promises
<1>3. PICK t \in Tasks : t = AutoTask(f, {f}, a) /\ t.kind = "auto" /\ t.fn = f /\ t.for = {f}
  <2>1. AutoTask(f, {f}, a).fn = f /\ AutoTask(f, {f}, a).for = {f}
    BY DEF AutoTask
  <2>2. AutoTask(f, {f}, a) \in Tasks /\ AutoTask(f, {f}, a).kind = "auto"
    BY <1>2, NewTasks, Zenon
  <2> QED  BY <2>1, <2>2, Zenon
<1>4. t # None /\ IsFn(t)
  BY <1>3, NoneAssumption DEF IsFn
<1>5. /\ promise[{f}] = "none" /\ \A b \in Agents : array[b] # {f}
      /\ result[f] = "none" /\ \A b \in Agents : f \notin left[b]
      /\ \A u \in Live : ~(IsFn(u) /\ u.fn = f)
      /\ \A u \in Live : ~(u.kind # "call" /\ u.for = {f})
  BY <1>1, <1>2, FreshBatch, Zenon
<1>6. \A u \in Live : ~SameCharge(u, t)
  BY <1>3, <1>5, Zenon DEF SameCharge
<1>7. t \notin Live
  BY <1>3, <1>4, <1>5, Zenon
<1>8. Distinct' /\ \A u : u \in Live' <=> u \in Live \/ u = t
  BY <1>0, <1>1, <1>3, <1>7, SubmitLive, Zenon
<1>9. /\ promise'[{f}] = "pending" /\ \A q \in Promises : q # {f} => promise'[q] = promise[q]
      /\ creator'[{f}] = Script(a) /\ \A q \in Promises : q # {f} => creator'[q] = creator[q]
  BY <1>0, <1>1, <1>2, NewPromiseStep, Zenon
<1>10. array' = array /\ left' = left /\ result' = result /\ settles' = settles /\ disposing' = disposing
  BY <1>1, Zenon DEF builtin, main
<1>11. Sound(t)'
  BY <1>1, <1>2, <1>3, <1>4, <1>5, <1>9, <1>10, ZenonT(40) DEF Sound, IsFn
<1>12. \A p \in Promises : promise'[p] # promise[p] =>
             /\ promise[p] \in {"none", "handle"} /\ promise'[p] \in {"handle", "pending"}
             /\ creator'[p] # None
             /\ promise'[p] = "pending" => t.kind # "call" /\ t.for = p
  BY <1>2, <1>3, <1>5, <1>9, Zenon
<1>13. \A p \in Promises : creator[p] # None => creator'[p] # None
  BY <1>2, <1>9, Zenon
<1>14. \A b \in Agents : array'[b] = array[b] /\ left'[b] \subseteq left[b]
                         /\ (array[b] # {} => promise'[array[b]] = promise[array[b]])
  BY <1>0, <1>5, <1>9, <1>10, InvTypes, Zenon DEF TypeOK, Promises
<1> QED  BY <1>6, <1>8, <1>10, <1>11, <1>12, <1>13, <1>14, AddLInv, Zenon

LEMMA JoinLInv ==
    ASSUME LInv, TInv', NEW a \in Agents, NEW B \in Batches, ThreadJoin(a, B)
    PROVE  LInv'
<1> TInv /\ Distinct /\ SoundInv /\ ChunkInv
  BY LInvParts, Zenon
<1> /\ RunsScript(a) /\ promise[B] = "handle"
      /\ Submit(JoinTask(B, a)) /\ NewPromise(B, a, "pending")
      /\ UNCHANGED <<wpc, wtask, main, builtin, settles, result>>
  BY Zenon DEF ThreadJoin
<1>2. B \in Promises /\ Script(a) # None
  BY ScriptName DEF Promises
<1> PICK t \in Tasks : t = JoinTask(B, a) /\ t.kind = "join" /\ t.for = B
  BY NewTasks, ZenonT(40)
<1>4. \A u \in Live : ~(u.kind # "call" /\ u.for = B)
  BY Zenon DEF SoundInv, Sound
<1>5. \A b \in Agents : array[b] # {} => array[b] \in Promises /\ array[b] # B
  BY InvTypes, Zenon DEF ChunkInv, TypeOK, Promises
<1>6. \A u \in Live : ~SameCharge(u, t)
  BY <1>4, Zenon DEF SameCharge, IsFn
<1>7. t \notin Live
  BY <1>4, Zenon
<1>8. Distinct' /\ \A u : u \in Live' <=> u \in Live \/ u = t
  BY <1>7, SubmitLive, Zenon
<1>9. /\ promise'[B] = "pending" /\ \A q \in Promises : q # B => promise'[q] = promise[q]
      /\ creator'[B] = Script(a) /\ \A q \in Promises : q # B => creator'[q] = creator[q]
  BY <1>2, NewPromiseStep, Zenon
<1>10. array' = array /\ left' = left /\ result' = result /\ settles' = settles /\ disposing' = disposing
  BY Zenon DEF builtin, main
<1>11. Sound(t)'
  BY <1>9, Zenon DEF Sound, IsFn
<1>12. \A p \in Promises : promise'[p] # promise[p] =>
             /\ promise[p] \in {"none", "handle"} /\ promise'[p] \in {"handle", "pending"}
             /\ creator'[p] # None
             /\ promise'[p] = "pending" => t.kind # "call" /\ t.for = p
  BY <1>2, <1>9, Zenon
<1>13. \A p \in Promises : creator[p] # None => creator'[p] # None
  BY <1>2, <1>9, Zenon
<1>14. \A b \in Agents : array'[b] = array[b] /\ left'[b] \subseteq left[b]
                         /\ (array[b] # {} => promise'[array[b]] = promise[array[b]])
  BY <1>5, <1>9, <1>10, Zenon
<1> QED  BY <1>6, <1>8, <1>10, <1>11, <1>12, <1>13, <1>14, AddLInv, Zenon

LEMMA SleepLInv ==
    ASSUME LInv, TInv', NEW a \in Agents, NEW s \in Sleeps, ThreadSleep(a, s)
    PROVE  LInv'
<1> TInv /\ Distinct /\ SoundInv /\ ChunkInv
  BY LInvParts, Zenon
<1> /\ RunsScript(a) /\ promise[s] = "none"
      /\ Submit(SleepTask(s, a)) /\ NewPromise(s, a, "pending")
      /\ UNCHANGED <<wpc, wtask, main, builtin, settles, result>>
  BY Zenon DEF ThreadSleep
<1>2. s \in Promises /\ Script(a) # None /\ s \notin Batches
  BY ScriptName, ApiAssumption, Zenon DEF Promises
<1> PICK t \in Tasks : t = SleepTask(s, a) /\ t.kind = "sleep" /\ t.for = s
  <2>1. SleepTask(s, a).for = s
    BY DEF SleepTask
  <2> QED  BY <2>1, NewTasks, Zenon
<1>4. \A u \in Live : ~(u.kind # "call" /\ u.for = s)
  BY Zenon DEF SoundInv, Sound
<1>5. \A b \in Agents : array[b] # {} => array[b] \in Promises /\ array[b] # s
  BY <1>2, InvTypes, Zenon DEF TypeOK, Promises
<1>6. \A u \in Live : ~SameCharge(u, t)
  BY <1>4, Zenon DEF SameCharge, IsFn
<1>7. t \notin Live
  BY <1>4
<1>8. Distinct' /\ \A u : u \in Live' <=> u \in Live \/ u = t
  BY <1>7, SubmitLive, Zenon
<1>9. /\ promise'[s] = "pending" /\ \A q \in Promises : q # s => promise'[q] = promise[q]
      /\ creator'[s] = Script(a) /\ \A q \in Promises : q # s => creator'[q] = creator[q]
  BY <1>2, NewPromiseStep, Zenon
<1>10. array' = array /\ left' = left /\ result' = result /\ settles' = settles /\ disposing' = disposing
  BY Zenon DEF builtin, main
<1>11. Sound(t)'
  BY <1>9, Zenon DEF Sound, IsFn
<1>12. \A p \in Promises : promise'[p] # promise[p] =>
             /\ promise[p] \in {"none", "handle"} /\ promise'[p] \in {"handle", "pending"}
             /\ creator'[p] # None
             /\ promise'[p] = "pending" => t.kind # "call" /\ t.for = p
  BY <1>2, <1>9, Zenon
<1>13. \A p \in Promises : creator[p] # None => creator'[p] # None
  BY <1>2, <1>9, Zenon
<1>14. \A b \in Agents : array'[b] = array[b] /\ left'[b] \subseteq left[b]
                         /\ (array[b] # {} => promise'[array[b]] = promise[array[b]])
  BY <1>5, <1>9, <1>10, Zenon
<1> QED  BY <1>6, <1>8, <1>10, <1>11, <1>12, <1>13, <1>14, AddLInv, Zenon

(* A chunk of the array method that agent a is in.                          *)
LEMMA ChunkLInv ==
    ASSUME LInv, TInv', NEW a \in Agents, NEW f \in Functions, SubmitChunk(a, f)
    PROVE  LInv'
<1>0. TInv /\ Distinct /\ SoundInv /\ ChunkInv
  BY LInvParts, Zenon
<1>1. /\ f \in left[a] /\ Submit(CallTask(f)) /\ left' = [left EXCEPT ![a] = left[a] \ {f}]
      /\ UNCHANGED <<wpc, wtask, main, array, creator, outcome>>
  BY DEF SubmitChunk
<1>2. /\ array[a] \in Batches /\ f \in array[a] /\ creator[array[a]] # None /\ result[f] = "none"
      /\ \A b \in Agents : array[b] = array[a] => a = b
      /\ \A b \in Agents : \A g \in left[b] : g \in array[b] /\ array[b] \in Batches
  BY <1>0, <1>1, InvTypes, Zenon DEF ChunkInv, TypeOK
<1>3. PICK t \in Tasks : t = CallTask(f) /\ t.kind = "call" /\ t.fn = f
  BY NewTasks
<1>4. t # None /\ IsFn(t)
  BY <1>3, NoneAssumption DEF IsFn
<1>5. \A u \in Live : ~(IsFn(u) /\ u.fn = f)
  BY <1>0, <1>1, Zenon DEF SoundInv, Sound
<1>6. \A u \in Live : ~SameCharge(u, t)
  BY <1>3, <1>5, Zenon DEF SameCharge
<1>7. t \notin Live
  BY <1>3, <1>4, <1>5, Zenon
<1>8. Distinct' /\ \A u : u \in Live' <=> u \in Live \/ u = t
  BY <1>0, <1>1, <1>3, <1>7, SubmitLive, Zenon
<1>9. /\ \A b \in Agents : f \notin left'[b] /\ left'[b] \subseteq left[b]
      /\ \A B \in Batches : f \in B => B = array[a]
  <2>1. \A B \in Batches : f \in B => B = array[a]
    BY <1>2, ApiAssumption, Zenon
  <2>2. \A b \in Agents : b # a => f \notin left[b]
    BY <1>2, <2>1, Zenon
  <2>3. left'[a] = left[a] \ {f} /\ \A b \in Agents : b # a => left'[b] = left[b]
    BY <1>0, <1>1, InvTypes, Zenon DEF TypeOK
  <2> QED  BY <2>1, <2>2, <2>3, Zenon
<1>10. array' = array /\ creator' = creator /\ promise' = promise /\ result' = result
       /\ settles' = settles /\ disposing' = disposing
  BY <1>1 DEF outcome, main
<1>11. Sound(t)'
  BY <1>2, <1>3, <1>4, <1>9, <1>10, ZenonT(40) DEF Sound, IsFn
<1> QED  BY <1>6, <1>8, <1>9, <1>10, <1>11, AddLInv, Zenon

(* The task that waits for the chunks.                                      *)
LEMMA ArrayJoinLInv ==
    ASSUME LInv, TInv', NEW a \in Agents, SubmitArrayJoin(a)
    PROVE  LInv'
<1>0. TInv /\ Distinct /\ SoundInv /\ ChunkInv
  BY LInvParts, Zenon
<1>1. PICK B : B = array[a]
  BY Zenon
<1>2. /\ B # {} /\ left[a] = {} /\ Submit(JoinTask(B, a))
      /\ promise' = [promise EXCEPT ![B] = "pending"] /\ array' = [array EXCEPT ![a] = {}]
      /\ UNCHANGED <<wpc, wtask, main, left, creator, settles, result>>
  BY <1>1 DEF SubmitArrayJoin
<1>3. /\ B \in Batches /\ B \in Promises /\ creator[B] # None /\ promise[B] = "none"
      /\ \A b \in Agents : array[b] = B => a = b
      /\ \A b \in Agents : array[b] # {} => array[b] \in Promises
  BY <1>0, <1>1, <1>2, InvTypes, Zenon DEF ChunkInv, TypeOK, Promises
<1>4. PICK t \in Tasks : t = JoinTask(B, a) /\ t.kind = "join" /\ t.for = B
  BY <1>3, NewTasks, Zenon
<1>5. \A u \in Live : ~(u.kind # "call" /\ u.for = B)
  BY <1>0, <1>3, Zenon DEF SoundInv, Sound
<1>6. \A u \in Live : ~SameCharge(u, t)
  BY <1>4, <1>5, Zenon DEF SameCharge, IsFn
<1>7. t \notin Live
  BY <1>4, <1>5, Zenon
<1>8. Distinct' /\ \A u : u \in Live' <=> u \in Live \/ u = t
  BY <1>0, <1>2, <1>4, <1>7, SubmitLive, Zenon
<1>9. /\ promise'[B] = "pending" /\ \A q \in Promises : q # B => promise'[q] = promise[q]
      /\ array'[a] = {} /\ \A b \in Agents : b # a => array'[b] = array[b]
      /\ left' = left /\ creator' = creator /\ result' = result /\ settles' = settles
      /\ disposing' = disposing
  BY <1>0, <1>2, <1>3, InvTypes, Zenon DEF TypeOK, main
<1>10. Sound(t)'
  BY <1>4, <1>9, Zenon DEF Sound, IsFn
<1>11. \A p \in Promises : promise'[p] # promise[p] =>
             /\ promise[p] \in {"none", "handle"} /\ promise'[p] \in {"handle", "pending"}
             /\ creator'[p] # None
             /\ promise'[p] = "pending" => t.kind # "call" /\ t.for = p
  BY <1>3, <1>4, <1>9, Zenon
<1>12. \A b \in Agents :
             \/ array'[b] = {} /\ left'[b] = {}
             \/ array'[b] = array[b] /\ left'[b] \subseteq left[b]
                /\ (array[b] # {} => promise'[array[b]] = promise[array[b]])
  BY <1>2, <1>3, <1>9, Zenon
<1> QED  BY <1>6, <1>8, <1>9, <1>10, <1>11, <1>12, AddLInv, Zenon

(* An array method begins, or ends with an exception.                       *)
LEMMA ArrayLInv ==
    ASSUME LInv, TInv', NEW a \in Agents,
           (\E B \in Batches : ArrayParallel(a, B)) \/ ChunkNotSerializable(a)
    PROVE  LInv'
<1>0. TInv /\ Distinct /\ ChargeInv /\ SoundInv /\ ChunkInv /\ FreshInv /\ SettleInv /\ PendingInv
  BY LInvParts, Zenon
<1>1. UNCHANGED <<pool, wpc, wtask, main, outcome>>
  BY Zenon DEF ArrayParallel, ChunkNotSerializable
<1>2. promise' = promise /\ result' = result /\ settles' = settles /\ disposing' = disposing
  BY <1>1, Zenon DEF outcome, main
<1>3. Distinct' /\ Live' = Live
  BY <1>0, <1>1, QuietLive, Zenon
<1>4. ASSUME SoundInv', ChunkInv', FreshInv' PROVE LInv'
  <2>1. ChargeInv'
    BY <1>0, <1>3 DEF ChargeInv, SameCharge, IsFn
  <2>2. SettleInv'
    BY <1>0, <1>2, Zenon DEF SettleInv, Tells
  <2>3. PendingInv'
    BY <1>0, <1>2, <1>3, Zenon DEF PendingInv
  <2> QED  BY <1>3, <1>4, <2>1, <2>2, <2>3, Zenon DEF LInv
<1>5. ASSUME \A t \in Live : IsFn(t) => /\ \A b \in Agents : t.fn \notin left'[b]
                                       /\ \A B \in Batches : t.fn \in B => creator'[B] # None
      PROVE  SoundInv'
  <2> SUFFICES ASSUME NEW t \in Live PROVE Sound(t)'
    BY <1>3, Zenon DEF SoundInv
  <2>1. Sound(t)
    BY <1>0 DEF SoundInv
  <2>2. IsFn(t) => /\ \A b \in Agents : t.fn \notin left'[b]
                   /\ \A B \in Batches : t.fn \in B => creator'[B] # None
    BY <1>5, Zenon
  <2> QED  BY <1>2, <2>1, <2>2, Zenon DEF Sound, Tells, IsFn
<1>6. ASSUME NEW B \in Batches, ArrayParallel(a, B) PROVE LInv'
  <2>1. RunsScript(a) /\ creator[B] = None /\ creator' = [creator EXCEPT ![B] = Script(a)]
        /\ array' = [array EXCEPT ![a] = B] /\ left' = [left EXCEPT ![a] = B]
    BY <1>6, Zenon DEF ArrayParallel
  <2>2. Script(a) # None /\ B \in Promises
    BY <1>0, <2>1, ScriptName, Zenon DEF Promises
  <2>3. /\ creator'[B] # None /\ \A q \in Promises : q # B => creator'[q] = creator[q]
        /\ array'[a] = B /\ \A b \in Agents : b # a => array'[b] = array[b]
        /\ left'[a] = B /\ \A b \in Agents : b # a => left'[b] = left[b]
        /\ \A b \in Agents : array[b] # {} => array[b] \in Promises
        /\ \A q \in Promises : creator[q] # None => creator'[q] # None
    BY <1>0, <2>1, <2>2, InvTypes, Zenon DEF TypeOK, Promises
  <2>4. /\ promise[B] = "none" /\ \A b \in Agents : array[b] # B
        /\ \A f \in B : /\ result[f] = "none" /\ \A b \in Agents : f \notin left[b]
                        /\ \A u \in Live : ~(IsFn(u) /\ u.fn = f)
    BY <2>1, FreshBatch, Zenon
  <2>5. SoundInv'
    <3>1. ASSUME NEW t \in Live, IsFn(t)
          PROVE  /\ \A b \in Agents : t.fn \notin left'[b]
                 /\ \A C \in Batches : t.fn \in C => creator'[C] # None
      <4>1. Sound(t) /\ t.fn \notin B
        BY <1>0, <2>4, <3>1, Zenon DEF SoundInv
      <4>2. \A b \in Agents : t.fn \notin left'[b]
        BY <2>3, <3>1, <4>1, Zenon DEF Sound
      <4>3. \A C \in Batches : t.fn \in C => creator'[C] # None
        BY <2>3, <3>1, <4>1, Zenon DEF Sound, Promises
      <4> QED  BY <4>2, <4>3, Zenon
    <3> QED  BY <1>5, <3>1, Zenon
  <2>6. ChunkInv'
    <3>1. ASSUME NEW b \in Agents, array'[b] # {}
          PROVE  /\ creator'[array'[b]] # None /\ promise'[array'[b]] = "none"
                 /\ \A c \in Agents : array'[c] = array'[b] => b = c
      <4>1. CASE b = a
        BY <1>2, <2>3, <2>4, <4>1, Zenon
      <4>2. CASE b # a
        <5>1. array'[b] = array[b] /\ array[b] # B /\ array[b] # {} /\ array[b] \in Promises
          BY <2>3, <2>4, <3>1, <4>2, Zenon
        <5>2. creator[array[b]] # None /\ promise[array[b]] = "none"
              /\ \A c \in Agents : array[c] = array[b] => b = c
          BY <1>0, <5>1, Zenon DEF ChunkInv
        <5>3. creator'[array[b]] # None
          BY <2>3, <5>1, <5>2, Zenon
        <5>4. \A c \in Agents : array'[c] = array[b] => b = c
          BY <2>3, <5>1, <5>2, Zenon
        <5> QED  BY <1>2, <5>1, <5>2, <5>3, <5>4, Zenon
      <4> QED  BY <4>1, <4>2, Zenon
    <3>2. ASSUME NEW b \in Agents, NEW f \in left'[b] PROVE f \in array'[b] /\ result'[f] = "none"
      <4>1. CASE b = a
        BY <1>2, <2>3, <2>4, <3>2, <4>1, Zenon
      <4>2. CASE b # a
        BY <1>0, <1>2, <2>3, <3>2, <4>2, Zenon DEF ChunkInv
      <4> QED  BY <4>1, <4>2, Zenon
    <3> QED  BY <3>1, <3>2, Zenon DEF ChunkInv
  <2>7. FreshInv'
    <3>1. \A C \in Batches : creator'[C] = None => creator[C] = None
      BY <2>3, Zenon DEF Promises
    <3> QED  BY <1>0, <1>2, <3>1, Zenon DEF FreshInv
  <2> QED  BY <1>4, <2>5, <2>6, <2>7, Zenon
<1>7. CASE ChunkNotSerializable(a)
  <2>1. array' = [array EXCEPT ![a] = {}] /\ left' = [left EXCEPT ![a] = {}] /\ creator' = creator
    BY <1>7 DEF ChunkNotSerializable
  <2>2. /\ array'[a] = {} /\ \A b \in Agents : b # a => array'[b] = array[b]
        /\ left'[a] = {} /\ \A b \in Agents : b # a => left'[b] = left[b]
    BY <1>0, <2>1, InvTypes, Zenon DEF TypeOK
  <2>3. SoundInv'
    <3>1. ASSUME NEW t \in Live, IsFn(t)
          PROVE  /\ \A b \in Agents : t.fn \notin left'[b]
                 /\ \A C \in Batches : t.fn \in C => creator'[C] # None
      <4>1. Sound(t)
        BY <1>0 DEF SoundInv
      <4>2. \A b \in Agents : t.fn \notin left'[b]
        BY <2>2, <3>1, <4>1, Zenon DEF Sound
      <4> QED  BY <2>1, <3>1, <4>1, <4>2, Zenon DEF Sound
    <3> QED  BY <1>5, <3>1, Zenon
  <2>4. ChunkInv'
    <3>1. \A b \in Agents : array'[b] # {} => array'[b] = array[b]
      BY <2>2, Zenon
    <3>2. \A b \in Agents : \A f \in left'[b] : array'[b] = array[b] /\ f \in left[b]
      BY <2>2, Zenon
    <3>3. ASSUME NEW b \in Agents, array'[b] # {}
          PROVE  /\ creator'[array'[b]] # None /\ promise'[array'[b]] = "none"
                 /\ \A c \in Agents : array'[c] = array'[b] => b = c
      <4>1. array'[b] = array[b] /\ \A c \in Agents : array'[c] = array'[b] => array[c] = array[b]
        BY <3>1, <3>3, Zenon
      <4> QED  BY <1>0, <1>2, <2>1, <3>3, <4>1, Zenon DEF ChunkInv
    <3>4. ASSUME NEW b \in Agents, NEW f \in left'[b] PROVE f \in array'[b] /\ result'[f] = "none"
      BY <1>0, <1>2, <3>2, <3>4, Zenon DEF ChunkInv
    <3> QED  BY <3>3, <3>4, Zenon DEF ChunkInv
  <2>5. FreshInv'
    BY <1>0, <1>2, <2>1, Zenon DEF FreshInv
  <2> QED  BY <1>4, <2>3, <2>4, <2>5, Zenon
<1> QED  BY <1>6, <1>7

LEMMA BuiltinLInv ==
    ASSUME LInv, TInv', NEW a \in Agents, Builtin(a) \/ FinishBuiltin(a)
    PROVE  LInv'
<1>1. ASSUME NEW f \in Functions, ThreadSpawn(a, f) PROVE LInv'
  BY <1>1, SpawnLInv, Zenon
<1>2. ASSUME NEW f \in Functions, Intercept(a, f) PROVE LInv'
  BY <1>2, InterceptLInv, Zenon
<1>3. ASSUME NEW B \in Batches, ArrayParallel(a, B) PROVE LInv'
  BY <1>3, ArrayLInv, Zenon
<1>4. ASSUME NEW B \in Batches, ThreadJoin(a, B) PROVE LInv'
  BY <1>4, JoinLInv
<1>5. ASSUME NEW s \in Sleeps, ThreadSleep(a, s) PROVE LInv'
  BY <1>5, SleepLInv
<1>6. CASE ChunkNotSerializable(a)
  BY <1>6, ArrayLInv, Zenon
<1>7. ASSUME NEW f \in Functions, SubmitChunk(a, f) PROVE LInv'
  BY <1>7, ChunkLInv
<1>8. CASE SubmitArrayJoin(a)
  BY <1>8, ArrayJoinLInv, Zenon
<1> QED  BY <1>1, <1>2, <1>3, <1>4, <1>5, <1>6, <1>7, <1>8, Zenon DEF Builtin, FinishBuiltin

(* A worker takes a task.                                                   *)
LEMMA GetTaskLInv ==
    ASSUME LInv, TInv', NEW w \in Workers, GetTask(w)
    PROVE  LInv'
<1>0. TInv /\ Distinct /\ TypeOK
  BY LInvParts, Zenon
<1>1. wpc[w] = "idle" /\ UNCHANGED <<foreground, active, main, builtin, creator, outcome>>
  BY Zenon DEF GetTask
<1>2. \E y \in Lines : /\ Line(y) # <<>> /\ Line(y)' = Tail(Line(y))
                       /\ \A x \in Lines : x # y => Line(x)' = Line(x)
                       /\ wtask' = [wtask EXCEPT ![w] = Head(Line(y))]
                       /\ wpc' = [wpc EXCEPT ![w] = Head(Line(y)).kind]
  <2>1. CASE private[w] # <<>>
    <3>1. /\ private' = [private EXCEPT ![w] = Tail(private[w])] /\ queue' = queue
          /\ wtask' = [wtask EXCEPT ![w] = Head(private[w])]
          /\ wpc' = [wpc EXCEPT ![w] = Head(private[w]).kind]
      BY <2>1, Zenon DEF GetTask
    <3>2. private'[w] = Tail(private[w]) /\ \A v \in Workers : v # w => private'[v] = private[v]
      BY <1>0, <3>1, Zenon DEF TypeOK
    <3>3. Line(w)' = Tail(Line(w)) /\ \A x \in Lines : x # w => Line(x)' = Line(x)
      BY <1>1, <3>1, <3>2, Queues, Zenon
    <3> QED  BY <2>1, <3>1, <3>3, Queues, Zenon
  <2>2. CASE private[w] = <<>>
    <3>1. /\ queue # <<>> /\ queue' = Tail(queue) /\ private' = private
          /\ wtask' = [wtask EXCEPT ![w] = Head(queue)]
          /\ wpc' = [wpc EXCEPT ![w] = Head(queue).kind]
      BY <2>2 DEF GetTask
    <3>2. Line(None)' = Tail(Line(None)) /\ \A x \in Lines : x # None => Line(x)' = Line(x)
      BY <1>1, <3>1, Queues, Zenon
    <3> QED  BY <3>1, <3>2, Queues, Zenon
  <2> QED  BY <2>1, <2>2, Zenon
<1>3. PICK y \in Lines : /\ Line(y) # <<>> /\ Line(y)' = Tail(Line(y))
                         /\ \A x \in Lines : x # y => Line(x)' = Line(x)
                         /\ wtask' = [wtask EXCEPT ![w] = Head(Line(y))]
                         /\ wpc' = [wpc EXCEPT ![w] = Head(Line(y)).kind]
  BY <1>2, Zenon
<1>4. Head(Line(y)).kind \in Running
  <2>1. Head(Line(y)) \in Live
    BY <1>0, <1>3, LiveTasks, Zenon
  <2> QED  BY <1>0, <2>1, LiveFields, Zenon DEF TaskFields, Running
<1>5. /\ wpc[w] \notin Running /\ wpc'[w] \in Running /\ wtask'[w] = Head(Line(y))
      /\ \A v \in Workers : v # w => wpc'[v] = wpc[v] /\ wtask'[v] = wtask[v]
  BY <1>0, <1>1, <1>3, <1>4, Zenon DEF TypeOK, Running
<1>6. Distinct' /\ Live' = Live
  BY <1>0, <1>3, <1>5, TakeLive, Zenon
<1>7. disposing => disposing'
  BY <1>1 DEF main
<1> QED  BY <1>1, <1>6, <1>7, SameLInv, Zenon

(* A worker runs the task it holds.                                         *)
LEMMA RunsLive ==
    ASSUME TInv, NEW w \in Workers, wpc[w] \in {"call", "auto", "join", "sleep", "resolve"}
    PROVE  wpc[w] \in Running /\ wtask[w] \in Live /\ wtask[w].kind = wpc[w] /\ TaskFields(wtask[w])
<1>1. wpc[w] \in Running
  BY DEF Running
<1> QED  BY <1>1, LiveTasks, HeldTask, Zenon

(* What a join, a sleep or a reaction posts.                                *)
LEMMA PostLInv ==
    ASSUME LInv, TInv', NEW w \in Workers, wpc[w] \in {"auto", "join", "sleep"}, wtask' = wtask,
           GoTo(w, "finish"), NEW ok \in BOOLEAN,
           PostBack(wtask[w].home, ResolveTask(wtask[w].for, ok)),
           wtask[w].for \in Batches => Tells(wtask[w].for, ok)',
           \A f \in Functions : \/ result'[f] = result[f]
                                \/ IsFn(wtask[w]) /\ f = wtask[w].fn /\ result'[f] # "none",
           UNCHANGED <<disposing, builtin, creator, promise, settles>>
    PROVE  LInv'
<1>0. TInv /\ Distinct /\ ChargeInv
  BY LInvParts, Zenon
<1>1. wpc[w] \in Running /\ wtask[w] \in Live /\ wtask[w].kind = wpc[w] /\ TaskFields(wtask[w])
  BY <1>0, RunsLive
<1>2. PICK t : t = wtask[w]
  OBVIOUS
<1>3. t \in Live /\ t.kind \in {"auto", "join", "sleep"} /\ t.home \in Agents /\ t.for \in Promises
  BY <1>1, <1>2, Zenon DEF TaskFields, Promises
<1>4. PICK r \in ResolveTasks : r = ResolveTask(t.for, ok)
  BY <1>3, NewTasks, Zenon
<1>5. r.kind = "resolve" /\ r.for = t.for /\ r.ok = ok
  BY <1>4, Zenon DEF ResolveTask
<1>6. r \notin Live
  BY <1>0, <1>3, <1>5, Zenon DEF ChargeInv, SameCharge
<1>7. Distinct' /\ \A u : u \in Live' <=> (u \in Live /\ u # t) \/ u = r
  BY <1>0, <1>1, <1>2, <1>3, <1>4, <1>6, PostLive, ZenonT(40)
<1>8. r.for \in Batches => Tells(r.for, r.ok)'
  BY <1>2, <1>5, Zenon
<1>9. \A f \in Functions : result'[f] = result[f] \/ (IsFn(t) /\ f = t.fn /\ result'[f] # "none")
  BY <1>2, Zenon
<1> QED  BY <1>3, <1>5, <1>7, <1>8, <1>9, DoneLInv, ZenonT(40)

LEMMA EndFunctionLInv ==
    ASSUME LInv, TInv', NEW w \in Workers, EndFunction(w)
    PROVE  LInv'
<1>0. TInv /\ Distinct /\ SoundInv
  BY LInvParts, Zenon
<1>1. wpc[w] \in {"call", "auto"}
  BY ApiAssumption, Zenon DEF EndFunction, RunsScript
<1>2. wpc[w] \in Running /\ wtask[w] \in Live /\ wtask[w].kind = wpc[w] /\ TaskFields(wtask[w])
  BY <1>0, <1>1, RunsLive
<1>3. PICK ok \in BOOLEAN : ok = (wtask[w].fn \notin Failing)
  BY Zenon
<1>4. /\ result' = [result EXCEPT ![wtask[w].fn] = IF ok THEN "value" ELSE "error"]
      /\ wpc[w] = "auto" => PostBack(wtask[w].home, ResolveTask(wtask[w].for, ok))
      /\ wpc[w] # "auto" => UNCHANGED pool
      /\ GoTo(w, "finish") /\ wtask' = wtask
      /\ UNCHANGED <<disposing, builtin, creator, promise, settles>>
  BY <1>3, Zenon DEF EndFunction, main
<1>5. wtask[w].fn \in Functions /\ IsFn(wtask[w])
  BY <1>0, <1>1, <1>2, LiveFields DEF TaskFields, IsFn
<1>6. /\ result'[wtask[w].fn] = IF ok THEN "value" ELSE "error"
      /\ \A f \in Functions : \/ result'[f] = result[f]
                              \/ IsFn(wtask[w]) /\ f = wtask[w].fn /\ result'[f] # "none"
  BY <1>0, <1>4, <1>5, InvTypes, Zenon DEF TypeOK
<1>7. CASE wpc[w] = "auto"
  <2>1. wtask[w].for = {wtask[w].fn}
    BY <1>0, <1>2, <1>7, Zenon DEF SoundInv, Sound
  <2>2. /\ \A f \in wtask[w].for : result'[f] # "none"
        /\ ok <=> \A f \in wtask[w].for : result'[f] = "value"
    BY <1>6, <2>1, Zenon
  <2>3. PICK B : B = wtask[w].for
    OBVIOUS
  <2>4. Tells(B, ok)'
    BY <2>2, <2>3, Zenon DEF Tells
  <2>5. wtask[w].for \in Batches => Tells(wtask[w].for, ok)'
    BY <1>4, <2>3, <2>4, Zenon DEF Tells
  <2> QED  BY <1>4, <1>6, <1>7, <2>5, PostLInv, Zenon
<1>8. CASE wpc[w] # "auto"
  <2>1. Distinct' /\ \A u : u \in Live' <=> u \in Live /\ u # wtask[w]
    BY <1>0, <1>2, <1>4, <1>8, EndLive, Zenon
  <2>2. PICK t \in Live : t = wtask[w]
    BY <1>2, Zenon
  <2>3. /\ t.kind = "call" /\ \A u : u \in Live' <=> (u \in Live /\ u # t) \/ (FALSE /\ u = t)
        /\ \A f \in Functions : result'[f] = result[f] \/ (IsFn(t) /\ f = t.fn /\ result'[f] # "none")
    BY <1>1, <1>2, <1>6, <1>8, <2>1, <2>2, Zenon
  <2> QED  BY <1>4, <2>1, <2>3, DoneLInv, Zenon
<1> QED  BY <1>7, <1>8

(* The task of a worker that ends without posting, once V8 is disposed of.  *)
LEMMA DisposedLInv ==
    ASSUME LInv, TInv', NEW w \in Workers, wpc[w] \in {"join", "sleep"}, disposing, UNCHANGED pool,
           GoTo(w, "finish"), UNCHANGED <<wtask, main, builtin, creator, outcome>>
    PROVE  LInv'
<1> TInv /\ Distinct
  BY LInvParts, Zenon
<1> wpc[w] \in Running /\ wtask[w] \in Live
  BY RunsLive, Zenon
<1> Distinct' /\ \A u : u \in Live' <=> u \in Live /\ u # wtask[w]
  BY EndLive, Zenon
<1>3. PICK t \in Live : t = wtask[w]
  OBVIOUS
<1>4. \A u : u \in Live' <=> (u \in Live /\ u # t) \/ (FALSE /\ u = t)
  BY <1>3, Zenon
<1>5. result' = result /\ UNCHANGED <<disposing, builtin, creator, promise, settles>>
  BY DEF main, outcome
<1> QED  BY <1>4, <1>5, DoneLInv, Zenon

LEMMA WorkerLInv ==
    ASSUME LInv, TInv', NEW w \in Workers, WorkerStep(w)
    PROVE  LInv'
<1>0. TInv /\ Distinct /\ TypeOK /\ WorkerInv
  BY LInvParts, Zenon
<1>1. CASE GetTask(w)
  BY <1>1, GetTaskLInv, Zenon
<1>2. CASE LeavePool(w) \/ Await(w)
  <2>1. UNCHANGED <<pool, wtask, main, builtin, creator, outcome>>
    BY <1>2, Zenon DEF LeavePool, Await
  <2>2. \A v \in Workers : wpc'[v] \in Running <=> wpc[v] \in Running
    <3>1. CASE LeavePool(w)
      BY <1>0, <3>1, Zenon DEF LeavePool, TypeOK, Running
    <3>2. CASE Await(w)
      <4>1. wpc[w] \in {"call", "auto"} /\ wpc' = [wpc EXCEPT ![w] = "await"]
        BY <3>2, ApiAssumption, Zenon DEF Await, RunsScript, GoTo
      <4> QED  BY <1>0, <4>1, Zenon DEF TypeOK, Running
    <3> QED  BY <1>2, <3>1, <3>2, Zenon
  <2>3. Distinct' /\ Live' = Live
    BY <1>0, <2>1, <2>2, QuietLive, Zenon
  <2> QED  BY <2>1, <2>3, SameLInv, Zenon DEF main
<1>3. CASE FinishTask(w)
  <2>1. /\ UNCHANGED <<queue, private, foreground, main, builtin, creator, outcome>>
        /\ wpc[w] = "finish" /\ wpc' = [wpc EXCEPT ![w] = IF disposing THEN "exited" ELSE "idle"]
        /\ wtask' = [wtask EXCEPT ![w] = None]
    BY <1>3, Zenon DEF FinishTask
  <2>2. /\ \A v \in Workers : wpc[v] \in Running => wtask'[v] = wtask[v]
        /\ \A v \in Workers : wpc'[v] \in Running <=> wpc[v] \in Running /\ v # None
    BY <1>0, <2>1, Queues, Zenon DEF TypeOK, Running
  <2>3. \A x \in Lines : Line(x)' = Line(x)
    BY <2>1, Queues, Zenon
  <2>4. Distinct' /\ \A u : u \in Live' <=> u \in Live /\ ~(None \in Workers /\ u = wtask[None])
    BY <1>0, <2>2, <2>3, Queues, DropLive, Zenon
  <2>5. Live' = Live
    BY <2>4, Queues, Zenon
  <2> QED  BY <2>1, <2>4, <2>5, SameLInv, Zenon DEF main
<1>4. CASE EndFunction(w)
  BY <1>4, EndFunctionLInv
<1>5. CASE AwaitLoop(w)
  <2>1. PICK r : r = Head(private[w])
    OBVIOUS
  <2>2. /\ wpc[w] = "await" /\ private[w] # <<>> /\ Settle(r.for, r.ok)
        /\ wpc' = [wpc EXCEPT ![w] = wtask[w].kind] \/ wpc' = [wpc EXCEPT ![w] = "await"]
        /\ private' = [private EXCEPT ![w] = Tail(private[w])]
        /\ UNCHANGED <<queue, foreground, wtask, main, builtin, creator, result>>
    BY <1>5, <2>1, Zenon DEF AwaitLoop, GoTo
  <2>3. wtask[w].kind \in Running
    BY <1>0, <2>2, Zenon DEF WorkerInv, IsFn, Running
  <2>4. \A v \in Workers : wpc'[v] \in Running <=> wpc[v] \in Running
    BY <1>0, <2>2, <2>3, Zenon DEF TypeOK, Running
  <2>5. private'[w] = Tail(private[w]) /\ \A v \in Workers : v # w => private'[v] = private[v]
    BY <1>0, <2>2, Zenon DEF TypeOK
  <2>6. /\ w \in Lines /\ Line(w) # <<>> /\ Line(w)' = Tail(Line(w)) /\ Head(Line(w)) = r
        /\ \A x \in Lines : x # w => Line(x)' = Line(x)
    <3>1. w \in Lines /\ Line(w) = private[w] /\ Line(w)' = private'[w]
      BY Queues, Zenon
    <3>2. ASSUME NEW x \in Lines, x # w PROVE Line(x)' = Line(x)
      <4>1. CASE x \in Workers
        BY <2>5, <3>2, <4>1, Queues, Zenon
      <4>2. CASE x = None \/ x = Main
        BY <2>2, <4>2, Queues, Zenon
      <4> QED  BY <4>1, <4>2, Queues, Zenon
    <3> QED  BY <2>1, <2>2, <2>5, <3>1, <3>2, Zenon
  <2>7. Distinct' /\ \A u : u \in Live' <=> u \in Live /\ u # r
    BY <1>0, <2>2, <2>4, <2>6, ShiftLive, Zenon
  <2>8. r \in Live
    BY <1>0, <2>6, LiveTasks, Zenon
  <2>9. r.kind = "resolve"
    <3>1. r \in ResolveTasks
      BY <1>0, <2>1, <2>2, TailFacts, Zenon DEF TypeOK
    <3> QED  BY <3>1, TaskTypes, Zenon
  <2> QED  BY <2>2, <2>7, <2>8, <2>9, SettleLInv, Zenon DEF main
<1>6. CASE RunJoin(w)
  <2>1. PICK B : B = wtask[w].for
    OBVIOUS
  <2>2. PICK ok \in BOOLEAN : ok <=> \A f \in B : result[f] = "value"
    BY Zenon
  <2>3. /\ wpc[w] = "join" /\ \A f \in B : result[f] # "none"
        /\ disposing => UNCHANGED pool
        /\ ~disposing => PostBack(wtask[w].home, ResolveTask(wtask[w].for, \A f \in B : result[f] = "value"))
        /\ GoTo(w, "finish") /\ UNCHANGED <<wtask, main, builtin, creator, outcome>>
    BY <1>6, <2>1, Zenon DEF RunJoin
  <2>4. (\A f \in B : result[f] = "value") = ok
    BY <2>2, Zenon
  <2>5. ~disposing => PostBack(wtask[w].home, ResolveTask(wtask[w].for, ok))
    BY <2>3, <2>4, Zenon
  <2>6. CASE disposing
    BY <2>3, <2>6, DisposedLInv, Zenon
  <2>7. CASE ~disposing
    <3>1. result' = result /\ wtask' = wtask /\ UNCHANGED <<disposing, builtin, creator, promise, settles>>
      BY <2>3, Zenon DEF main, outcome
    <3>2. wtask[w].for \in Batches => Tells(wtask[w].for, ok)'
      <4>1. Tells(B, ok)'
        BY <2>2, <2>3, <3>1, Zenon DEF Tells
      <4> QED  BY <2>1, <3>1, <4>1, Zenon DEF Tells
    <3> QED  BY <2>3, <2>5, <2>7, <3>1, <3>2, PostLInv, Zenon
  <2> QED  BY <2>6, <2>7, Zenon
<1>7. CASE RunSleep(w)
  <2>1. /\ wpc[w] = "sleep" /\ disposing => UNCHANGED pool
        /\ ~disposing => PostBack(wtask[w].home, ResolveTask(wtask[w].for, TRUE))
        /\ GoTo(w, "finish") /\ UNCHANGED <<wtask, main, builtin, creator, outcome>>
    BY <1>7, Zenon DEF RunSleep
  <2>2. CASE disposing
    BY <2>1, <2>2, DisposedLInv, <1>7, Zenon DEF RunSleep
  <2>3. CASE ~disposing
    <3>1. result' = result /\ wtask' = wtask /\ UNCHANGED <<disposing, builtin, creator, promise, settles>>
          /\ wpc[w] = "sleep"
      BY <1>7, Zenon DEF RunSleep, main, outcome
    <3>2. wtask[w].kind = "sleep" /\ TaskFields(wtask[w])
      BY <1>0, <3>1, HeldTask, Zenon
    <3>3. wtask[w].for \notin Batches
      BY <3>2, ApiAssumption, ZenonT(40) DEF TaskFields
    <3> QED  BY <2>1, <2>3, <3>1, <3>3, PostLInv, Zenon
  <2> QED  BY <2>2, <2>3
<1>8. CASE RunResolve(w)
  <2>1. PICK r : r = wtask[w]
    OBVIOUS
  <2>2. wpc[w] = "resolve" /\ Settle(r.for, r.ok) /\ GoTo(w, "finish")
        /\ UNCHANGED <<pool, wtask, main, builtin, creator, result>>
    BY <1>8, <2>1, Zenon DEF RunResolve
  <2>3. wpc[w] \in Running /\ r \in Live /\ r.kind = "resolve"
    BY <1>0, <2>1, <2>2, RunsLive, Zenon
  <2>4. Distinct' /\ \A u : u \in Live' <=> u \in Live /\ u # r
    BY <1>0, <2>1, <2>2, <2>3, EndLive, Zenon
  <2> QED  BY <2>2, <2>3, <2>4, SettleLInv, Zenon DEF main
<1> QED  BY <1>1, <1>2, <1>3, <1>4, <1>5, <1>6, <1>7, <1>8, Zenon DEF WorkerStep

LEMMA MainLInv ==
    ASSUME LInv, TInv', MainStep
    PROVE  LInv'
<1> TInv /\ Distinct /\ TypeOK
  BY LInvParts, Zenon
<1> wpc' = wpc /\ wtask' = wtask
  BY Zenon DEF MainStep, EndScript, PumpMessageLoop, LeaveMessageLoop, Dispose
<1>2. CASE PumpMessageLoop
  <2> PICK r : r = Head(foreground)
    OBVIOUS
  <2> /\ foreground # <<>> /\ Settle(r.for, r.ok) /\ foreground' = Tail(foreground)
        /\ UNCHANGED <<queue, private, disposing, builtin, creator, result>>
    BY <1>2, Zenon DEF PumpMessageLoop
  <2> /\ Main \in Lines /\ Line(Main) # <<>> /\ Line(Main)' = Tail(Line(Main)) /\ Head(Line(Main)) = r
        /\ \A x \in Lines : x # Main => Line(x)' = Line(x)
    BY Queues, Zenon
  <2>4. Distinct' /\ \A u : u \in Live' <=> u \in Live /\ u # r
    BY ShiftLive
  <2>5. r \in Live
    BY LiveTasks, Zenon
  <2>6. r.kind = "resolve"
    <3>1. r \in ResolveTasks
      BY TailFacts DEF TypeOK
    <3> QED  BY <3>1, TaskTypes, Zenon
  <2> QED  BY <2>4, <2>5, <2>6, SettleLInv, Zenon
<1>3. CASE EndScript \/ LeaveMessageLoop \/ Dispose
  <2> UNCHANGED <<pool, builtin, creator, outcome>> /\ (disposing => disposing')
    BY <1>3 DEF EndScript, LeaveMessageLoop, Dispose
  <2>2. Distinct' /\ Live' = Live
    BY QuietLive, Zenon
  <2> QED  BY <2>2, SameLInv, Zenon
<1> QED  BY <1>2, <1>3 DEF MainStep

LEMMA NextLInv == LInv /\ [Next]_vars => LInv'
<1> SUFFICES ASSUME LInv, [Next]_vars PROVE LInv'
  OBVIOUS
<1> TInv /\ TInv' /\ Distinct
  BY LInvParts, NextTInv, Zenon
<1>1. ASSUME NEW a \in Agents, Builtin(a) \/ FinishBuiltin(a) PROVE LInv'
  BY <1>1, BuiltinLInv, Zenon
<1>2. ASSUME NEW w \in Workers, WorkerStep(w) PROVE LInv'
  BY <1>2, WorkerLInv, Zenon
<1>3. CASE MainStep
  BY <1>3, MainLInv, Zenon
<1>4. CASE UNCHANGED vars
  <2> UNCHANGED <<pool, wpc, wtask, disposing, builtin, creator, outcome>>
    BY <1>4, Zenon DEF vars, main
  <2>2. Distinct' /\ Live' = Live
    BY QuietLive, Zenon
  <2> QED  BY <2>2, SameLInv, Zenon
<1> QED  BY <1>1, <1>2, <1>3, <1>4, Zenon DEF Next

LEMMA InitLInv == Init => LInv
<1> SUFFICES ASSUME Init PROVE LInv
  OBVIOUS
<1>1. TInv
  BY InitTInv
<1>2. ASSUME NEW x, NEW i PROVE ~Place(x, i)
  <2>1. x \in Lines => Line(x) = <<>>
    BY Queues, Zenon DEF Init
  <2>2. Len(<<>>) = 0 /\ 1..0 = {}
    OBVIOUS
  <2>3. x \in Workers => wpc[x] \notin Running
    BY DEF Init, Running
  <2> QED  BY <2>1, <2>2, <2>3, Zenon DEF Place
<1>3. Live = {} /\ Distinct
  BY <1>2, Zenon DEF Live, Distinct
<1>4. ChargeInv /\ SoundInv
  BY <1>3 DEF ChargeInv, SoundInv
<1>5. ChunkInv /\ FreshInv
  <2>1. \A a \in Agents : array[a] = {} /\ left[a] = {}
    BY Zenon DEF Init
  <2>2. \A p \in Batches : promise[p] = "none" /\ \A f \in p : f \in Functions
    BY ApiAssumption, Zenon DEF Init, Promises
  <2>3. \A f \in Functions : result[f] = "none"
    BY Zenon DEF Init
  <2> QED  BY <2>1, <2>2, <2>3, Zenon DEF ChunkInv, FreshInv
<1>6. SettleInv /\ PendingInv
  BY Zenon DEF Init, SettleInv, PendingInv
<1> QED  BY <1>1, <1>3, <1>4, <1>5, <1>6, Zenon DEF LInv

(* Every promise of join, sleep, a parallel array method or an intercepted  *)
(* reaction is settled at most once, by the value or the error that its     *)
(* functions ended with, for any pool, program and order of steps.          *)
THEOREM PromisesTellResults == Spec => []PromiseTellsResult
<1>1. Init => LInv
  BY InitLInv
<1>2. LInv /\ [Next]_vars => LInv'
  BY NextLInv
<1>3. LInv => PromiseTellsResult
  <2> SUFFICES ASSUME LInv, NEW p \in Promises
               PROVE  /\ settles[p] <= 1
                      /\ promise[p] \in {"fulfilled", "rejected"} <=> settles[p] = 1
                      /\ p \in Batches /\ settles[p] = 1 =>
                           (promise[p] = "fulfilled" <=> \A f \in p : result[f] = "value")
    BY Zenon DEF PromiseTellsResult
  <2>1. /\ settles[p] = IF promise[p] \in {"fulfilled", "rejected"} THEN 1 ELSE 0
        /\ p \in Batches /\ promise[p] \in {"fulfilled", "rejected"} => Tells(p, promise[p] = "fulfilled")
    BY LInvParts, Zenon DEF SettleInv
  <2>2. promise[p] \in {"fulfilled", "rejected"} <=> settles[p] = 1
    BY <2>1
  <2>3. settles[p] <= 1
    BY <2>1
  <2> QED  BY <2>1, <2>2, <2>3, Zenon DEF Tells
<1> QED  BY <1>1, <1>2, <1>3, PTL DEF Spec

(* Only a function that may await is in the await loop.                     *)
LEMMA AwaitKind ==
    ASSUME LInv, HoldInv, NEW w \in Workers, wpc[w] = "await"
    PROVE  wtask[w].kind = "call" \/ Async \cap Reactions # {}
<1> TInv /\ SoundInv
  BY LInvParts, Zenon
<1> wtask[w] \in Live /\ IsFn(wtask[w]) /\ wtask[w].fn \in Async
  BY LiveTasks, InvTypes, Zenon DEF Running, WorkerInv, HoldInv
<1>2. wtask[w].kind = "auto" => wtask[w].fn \in Reactions
  BY DEF SoundInv, Sound
<1> QED  BY <1>2 DEF IsFn

(* Nothing is live when nothing is queued or held.                          *)
LEMMA NothingLive ==
    ASSUME TInv, queue = <<>>, foreground = <<>>, \A w \in Workers : private[w] = <<>> /\ wtask[w] = None
    PROVE  Live = {}
<1>1. \A x \in Lines : Len(Line(x)) = 0
  <2>1. Len(<<>>) = 0
    BY Zenon
  <2> QED  BY <2>1, Queues, Zenon
<1>2. ASSUME NEW w \in Workers PROVE wpc[w] \notin Running
  <2>1. wpc[w] \in Running => wtask[w] \in Live
    BY LiveTasks, Zenon
  <2>2. None \notin Live
    BY NoneAssumption, Zenon DEF Live
  <2> QED  BY <2>1, <2>2, Zenon
<1>3. ASSUME NEW x, NEW i PROVE ~Place(x, i)
  <2>1. 1..0 = {}
    OBVIOUS
  <2> QED  BY <1>1, <1>2, <2>1, Zenon DEF Place
<1> QED  BY <1>3, Zenon DEF Live

------------------------------------------------------------------------------
(* What active_tasks_ counts: the tasks of the global queue, those of the   *)
(* private queues, and one for each worker that holds a task.               *)
PrivatePlaces == UNION {{w} \X DOMAIN private[w] : w \in Workers}
Busy == {w \in Workers : wtask[w] # None}
Counted == Len(queue) + Cardinality(PrivatePlaces) + Cardinality(Busy)

(* What the count rests on: theorems about finite sets.                     *)
CardFacts ==
    /\ IsFiniteSet({}) /\ Cardinality({}) = 0
    /\ \A S : IsFiniteSet(S) =>
          /\ Cardinality(S) \in Nat /\ (Cardinality(S) = 0 => S = {})
          /\ \A x, T : x \notin S /\ T = S \cup {x} => IsFiniteSet(T) /\ Cardinality(T) = Cardinality(S) + 1
          /\ \A x : x \in S => IsFiniteSet(S \ {x}) /\ Cardinality(S \ {x}) = Cardinality(S) - 1

(* A reaction that awaits leaves tasks counted that are done: active_tasks_ *)
(* is then too large, never too small.                                      *)
Tally ==
    /\ IsFiniteSet(PrivatePlaces) /\ IsFiniteSet(Busy)
    /\ Counted <= active
    /\ Async \cap Reactions = {} => active = Counted

LEMMA CardAdd ==
    ASSUME CardFacts, NEW S, NEW x, IsFiniteSet(S), x \notin S
    PROVE  IsFiniteSet(S \cup {x}) /\ Cardinality(S \cup {x}) = Cardinality(S) + 1
<1>1. PICK T : T = S \cup {x}
  BY Zenon
<1>2. IsFiniteSet(T) /\ Cardinality(T) = Cardinality(S) + 1
  BY <1>1, Zenon DEF CardFacts
<1> QED  BY <1>1, <1>2, Zenon

LEMMA CardRemove ==
    ASSUME CardFacts, NEW S, NEW x, IsFiniteSet(S), x \in S
    PROVE  IsFiniteSet(S \ {x}) /\ Cardinality(S \ {x}) = Cardinality(S) - 1
  BY Zenon DEF CardFacts

LEMMA TallyTypes ==
    ASSUME CardFacts, TInv, Tally
    PROVE  Len(queue) \in Nat /\ Cardinality(PrivatePlaces) \in Nat /\ Cardinality(Busy) \in Nat
           /\ active \in Int /\ \A w \in Workers : Len(private[w]) \in Nat /\ DOMAIN private[w] = 1..Len(private[w])
<1>1. queue \in Seq(Tasks) /\ active \in Int /\ \A w \in Workers : private[w] \in Seq(ResolveTasks)
  BY InvTypes DEF TypeOK
<1>2. Cardinality(PrivatePlaces) \in Nat /\ Cardinality(Busy) \in Nat
  BY Zenon DEF Tally, CardFacts
<1> QED  BY <1>1, <1>2, SeqFacts

LEMMA InPrivate ==
    /\ \A w, i : <<w, i>> \in PrivatePlaces <=> w \in Workers /\ i \in DOMAIN private[w]
    /\ \A w, i : <<w, i>> \in PrivatePlaces' <=> w \in Workers /\ i \in DOMAIN private'[w]
    /\ \A x \in PrivatePlaces : \E w, i : x = <<w, i>>
    /\ \A x \in PrivatePlaces' : \E w, i : x = <<w, i>>
  BY DEF PrivatePlaces

(* The private queue of one worker grows or shrinks at its end.             *)
LEMMA GrowPrivate ==
    ASSUME CardFacts, TInv, Tally, NEW a \in Workers, NEW r \in ResolveTasks,
           private' = [private EXCEPT ![a] = Append(@, r)]
    PROVE  IsFiniteSet(PrivatePlaces') /\ Cardinality(PrivatePlaces') = Cardinality(PrivatePlaces) + 1
<1>n. PICK n \in Nat : n = Len(private[a]) + 1
  BY TallyTypes
<1> private[a] \in Seq(ResolveTasks) /\ private'[a] = Append(private[a], r)
      /\ \A v \in Workers : v # a => private'[v] = private[v]
  BY InvTypes, Zenon DEF TypeOK
<1>1. private'[a] \in Seq(ResolveTasks) /\ Len(private'[a]) = Len(private[a]) + 1
  BY AppendFacts
<1>2. n # 0 /\ DOMAIN private[a] = 1..(n - 1) /\ DOMAIN private'[a] = 1..n
  <2>1. Len(private[a]) \in Nat /\ DOMAIN private[a] = 1..Len(private[a]) /\ DOMAIN private'[a] = 1..Len(private'[a])
    BY <1>1, SeqFacts, Zenon
  <2>2. n # 0 /\ n - 1 = Len(private[a]) /\ n = Len(private'[a])
    BY <1>n, <1>1, <2>1
  <2> QED  BY <2>1, <2>2, Zenon
<1> n \notin DOMAIN private[a] /\ \A i : i \in DOMAIN private'[a] <=> i \in DOMAIN private[a] \/ i = n
  BY <1>2
<1> \A v, i : <<v, i>> \in PrivatePlaces' <=> <<v, i>> \in PrivatePlaces \/ (v = a /\ i = n)
  BY InPrivate, Zenon
<1>5. PrivatePlaces' = PrivatePlaces \cup {<<a, n>>}
  <2>1. ASSUME NEW x \in PrivatePlaces' PROVE x \in PrivatePlaces \cup {<<a, n>>}
    <3>1. PICK v, i : x = <<v, i>>
      BY InPrivate, Zenon
    <3> QED  BY <3>1, Zenon
  <2>2. ASSUME NEW x \in PrivatePlaces PROVE x \in PrivatePlaces'
    <3>1. PICK v, i : x = <<v, i>>
      BY InPrivate, Zenon
    <3> QED  BY <3>1, Zenon
  <2>3. <<a, n>> \in PrivatePlaces'
    BY Zenon
  <2> QED  BY <2>1, <2>2, <2>3, Zenon
<1>6. <<a, n>> \notin PrivatePlaces
  BY InPrivate, Zenon
<1> QED  BY <1>5, <1>6, CardAdd, Zenon DEF Tally

LEMMA ShrinkPrivate ==
    ASSUME CardFacts, TInv, Tally, NEW a \in Workers, private[a] # <<>>,
           private' = [private EXCEPT ![a] = Tail(@)]
    PROVE  IsFiniteSet(PrivatePlaces') /\ Cardinality(PrivatePlaces') = Cardinality(PrivatePlaces) - 1
<1> PICK n \in Nat : n = Len(private[a])
  BY TallyTypes, Zenon
<1> private[a] \in Seq(ResolveTasks) /\ private'[a] = Tail(private[a])
      /\ \A v \in Workers : v # a => private'[v] = private[v]
  BY InvTypes, Zenon DEF TypeOK
<1>2. n # 0 /\ DOMAIN private[a] = 1..n /\ DOMAIN private'[a] = 1..(n - 1)
  <2>1. n # 0
    BY SeqFacts, Zenon
  <2>2. Tail(private[a]) \in Seq(ResolveTasks) /\ Len(Tail(private[a])) = n - 1
    BY TailFacts, Zenon
  <2> QED  BY <2>1, <2>2, SeqFacts, Zenon
<1> n \in DOMAIN private[a] /\ \A i : i \in DOMAIN private'[a] <=> i \in DOMAIN private[a] /\ i # n
  BY <1>2
<1> \A v, i : <<v, i>> \in PrivatePlaces' <=> <<v, i>> \in PrivatePlaces /\ ~(v = a /\ i = n)
  BY InPrivate, Zenon
<1>5. PrivatePlaces' = PrivatePlaces \ {<<a, n>>}
  <2>1. ASSUME NEW x \in PrivatePlaces' PROVE x \in PrivatePlaces \ {<<a, n>>}
    <3> PICK v, i : x = <<v, i>>
      BY InPrivate, Zenon
    <3>2. <<v, i>> # <<a, n>>
      BY Zenon
    <3> QED  BY <3>2, Zenon
  <2>2. ASSUME NEW x \in PrivatePlaces \ {<<a, n>>} PROVE x \in PrivatePlaces'
    <3> PICK v, i : x = <<v, i>>
      BY InPrivate, Zenon
    <3>2. <<v, i>> # <<a, n>>
      OBVIOUS
    <3> QED  BY <3>2
  <2> QED  BY <2>1, <2>2, Zenon
<1>6. <<a, n>> \in PrivatePlaces
  BY InPrivate, Zenon
<1> QED  BY <1>5, <1>6, CardRemove, Zenon DEF Tally

(* A worker takes a task or lets go of it.                                  *)
LEMMA TakeBusy ==
    ASSUME CardFacts, TInv, Tally, NEW w \in Workers, wtask[w] = None, NEW t \in Tasks \cup ResolveTasks,
           wtask' = [wtask EXCEPT ![w] = t]
    PROVE  IsFiniteSet(Busy') /\ Cardinality(Busy') = Cardinality(Busy) + 1
<1>1. t # None
  BY NoneAssumption, Zenon
<1>2. wtask'[w] = t /\ \A v \in Workers : v # w => wtask'[v] = wtask[v]
  BY InvTypes DEF TypeOK
<1>3. Busy' = Busy \cup {w} /\ w \notin Busy
  BY <1>1, <1>2, Zenon DEF Busy
<1> QED  BY <1>3, CardAdd, Zenon DEF Tally

LEMMA DropBusy ==
    ASSUME CardFacts, TInv, Tally, NEW w \in Workers, wtask[w] # None, wtask' = [wtask EXCEPT ![w] = None]
    PROVE  IsFiniteSet(Busy') /\ Cardinality(Busy') = Cardinality(Busy) - 1
<1>2. wtask'[w] = None /\ \A v \in Workers : v # w => wtask'[v] = wtask[v]
  BY InvTypes, Zenon DEF TypeOK
<1>3. Busy' = Busy \ {w} /\ w \in Busy
  BY <1>2, Zenon DEF Busy
<1> QED  BY <1>3, CardRemove, Zenon DEF Tally

(* The steps, by what they do to the pool.                                  *)
LEMMA SubmitTally ==
    ASSUME CardFacts, TInv, Tally, NEW t \in Tasks, Submit(t), wtask' = wtask
    PROVE  Tally'
<1> queue \in Seq(Tasks) /\ queue' = Append(queue, t) /\ active' = active + 1 /\ private' = private
  BY InvTypes, Zenon DEF TypeOK, Submit
<1>2. Len(queue') = Len(queue) + 1
  BY AppendFacts, Zenon
<1>3. PrivatePlaces' = PrivatePlaces /\ Busy' = Busy
  BY Zenon DEF PrivatePlaces, Busy
<1> QED  BY <1>2, <1>3, TallyTypes DEF Tally, Counted

LEMMA SameTally ==
    ASSUME CardFacts, TInv, Tally, UNCHANGED <<queue, private, active, wtask>>
    PROVE  Tally'
  BY Zenon DEF Tally, Counted, PrivatePlaces, Busy

LEMMA PostTally ==
    ASSUME CardFacts, TInv, Tally, NEW a \in Agents, NEW r \in ResolveTasks, PostBack(a, r), wtask' = wtask
    PROVE  Tally'
<1>1. CASE a = Main
  BY <1>1, SameTally, Zenon DEF PostBack
<1>2. CASE a # Main
  <2>1. a \in Workers /\ private' = [private EXCEPT ![a] = Append(@, r)] /\ active' = active + 1
        /\ queue' = queue
    BY <1>2 DEF PostBack, Agents
  <2>2. IsFiniteSet(PrivatePlaces') /\ Cardinality(PrivatePlaces') = Cardinality(PrivatePlaces) + 1
    BY <2>1, GrowPrivate, Zenon
  <2>3. Busy' = Busy
    BY Zenon DEF Busy
  <2> QED  BY <2>1, <2>2, <2>3, TallyTypes DEF Tally, Counted
<1> QED  BY <1>1, <1>2, Zenon

LEMMA GetTaskTally ==
    ASSUME CardFacts, TInv, Tally, NEW w \in Workers, GetTask(w)
    PROVE  Tally'
<1> wtask[w] = None /\ active' = active
  BY InvTypes, Zenon DEF GetTask, WorkerInv
<1>1. CASE private[w] # <<>>
  <2> USE <1>1
  <2> /\ private' = [private EXCEPT ![w] = Tail(@)] /\ queue' = queue
        /\ wtask' = [wtask EXCEPT ![w] = Head(private[w])]
    BY Zenon DEF GetTask
  <2>2. Head(private[w]) \in Tasks \cup ResolveTasks
    BY TailFacts, InvTypes, Zenon DEF TypeOK
  <2> IsFiniteSet(PrivatePlaces') /\ Cardinality(PrivatePlaces') = Cardinality(PrivatePlaces) - 1
    BY ShrinkPrivate, Zenon
  <2> IsFiniteSet(Busy') /\ Cardinality(Busy') = Cardinality(Busy) + 1
    BY <2>2, TakeBusy, Zenon
  <2>5. Counted' = Counted
    BY TallyTypes DEF Counted
  <2> QED  BY <2>5, Zenon DEF Tally
<1>2. CASE private[w] = <<>>
  <2> queue # <<>> /\ queue' = Tail(queue) /\ private' = private /\ wtask' = [wtask EXCEPT ![w] = Head(queue)]
    BY <1>2, Zenon DEF GetTask
  <2> queue \in Seq(Tasks) /\ Head(queue) \in Tasks \cup ResolveTasks
    BY TailFacts, InvTypes, Zenon DEF TypeOK
  <2>3. Len(queue') = Len(queue) - 1
    BY TailFacts, Zenon
  <2> IsFiniteSet(Busy') /\ Cardinality(Busy') = Cardinality(Busy) + 1
    BY TakeBusy, Zenon
  <2> PrivatePlaces' = PrivatePlaces
    BY Zenon DEF PrivatePlaces
  <2>6. Counted' = Counted
    BY <2>3, TallyTypes DEF Counted
  <2> QED  BY <2>6, Zenon DEF Tally
<1> QED  BY <1>1, <1>2, Zenon

LEMMA FinishTally ==
    ASSUME CardFacts, TInv, Tally, HoldInv, NEW w \in Workers, FinishTask(w)
    PROVE  Tally'
<1> wtask[w] # None /\ active' = active - 1 /\ queue' = queue /\ private' = private
      /\ wtask' = [wtask EXCEPT ![w] = None]
  BY DEF FinishTask, HoldInv
<1>2. IsFiniteSet(Busy') /\ Cardinality(Busy') = Cardinality(Busy) - 1
  BY DropBusy, Zenon
<1>3. PrivatePlaces' = PrivatePlaces
  BY DEF PrivatePlaces
<1>4. /\ Len(queue) \in Nat /\ Cardinality(PrivatePlaces) \in Nat /\ Cardinality(Busy) \in Nat /\ active \in Int
  BY TallyTypes, Zenon
<1> QED  BY <1>2, <1>3, <1>4 DEF Tally, Counted

(* The await loop of a call counts the task it ran; that of a reaction does *)
(* not, and only a reaction that may await is in it.                        *)
LEMMA AwaitTally ==
    ASSUME CardFacts, LInv, Tally, HoldInv, NEW w \in Workers, AwaitLoop(w)
    PROVE  Tally'
<1>0. TInv /\ SoundInv
  BY LInvParts, Zenon
<1>1. /\ wpc[w] = "await" /\ private[w] # <<>> /\ private' = [private EXCEPT ![w] = Tail(@)]
      /\ active' = IF wtask[w].kind = "call" THEN active - 1 ELSE active
      /\ queue' = queue /\ wtask' = wtask
  BY Zenon DEF AwaitLoop
<1>2. IsFiniteSet(PrivatePlaces') /\ Cardinality(PrivatePlaces') = Cardinality(PrivatePlaces) - 1
  BY <1>0, <1>1, ShrinkPrivate, Zenon
<1>3. Busy' = Busy
  BY <1>1, Zenon DEF Busy
<1>4. wtask[w].kind = "call" \/ Async \cap Reactions # {}
  BY <1>1, AwaitKind, Zenon
<1> QED  BY <1>0, <1>1, <1>2, <1>3, <1>4, TallyTypes DEF Tally, Counted

(* An agent in an array method is still in the script that called it.       *)
ScriptInv ==
    \A a \in Agents : array[a] # {} => IF a = Main THEN mpc = "script" ELSE wpc[a] \in {"call", "auto"}

(* d8 stops waiting when active_tasks_ is 0, and then nobody is left who    *)
(* could submit or post a task.                                             *)
ExitInv ==
    /\ mpc \in {"doNotWait", "finished"} /\ wait_for_background_tasks => active = 0
    /\ mpc = "finished" /\ wait_for_background_tasks => foreground = <<>>
    /\ disposing => mpc \in {"joinAll", "gone"}

CInv == LInv /\ Tally /\ HoldInv /\ ScriptInv /\ ExitInv

LEMMA WorkerTally ==
    ASSUME CardFacts, LInv, Tally, HoldInv, NEW w \in Workers, WorkerStep(w)
    PROVE  Tally'
<1> TInv
  BY LInvParts, Zenon
<1>2. CASE GetTask(w)
  BY <1>2, GetTaskTally, Zenon
<1>3. CASE FinishTask(w)
  BY <1>3, FinishTally, Zenon
<1>4. CASE AwaitLoop(w)
  BY <1>4, AwaitTally, Zenon
<1>5. CASE UNCHANGED <<queue, private, active, wtask>>
  BY <1>5, SameTally, Zenon
<1>6. CASE wtask' = wtask /\ \E a \in Agents : \E r \in ResolveTasks : PostBack(a, r)
  BY <1>6, PostTally, Zenon
<1> QED  BY <1>2, <1>3, <1>4, <1>5, <1>6, WorkerPool, Zenon

(* Nothing is queued or held when active_tasks_ is 0.                       *)
LEMMA NothingActive ==
    ASSUME CardFacts, TInv, Tally, active = 0
    PROVE  /\ queue = <<>> /\ \A w \in Workers : private[w] = <<>> /\ wtask[w] = None
<1>1. Len(queue) = 0 /\ Cardinality(PrivatePlaces) = 0 /\ Cardinality(Busy) = 0
  BY TallyTypes DEF Tally, Counted
<1>2. PrivatePlaces = {} /\ Busy = {}
  BY <1>1, Zenon DEF Tally, CardFacts
<1>3. ASSUME NEW w \in Workers PROVE private[w] = <<>>
  <2>1. DOMAIN private[w] = {}
    BY <1>2, InPrivate, Zenon
  <2>2. private[w] \in Seq(ResolveTasks)
    BY InvTypes, Zenon DEF TypeOK
  <2>3. Len(private[w]) \in Nat /\ 1..Len(private[w]) = {}
    BY <2>1, <2>2, SeqFacts, Zenon
  <2>4. \A n \in Nat : n # 0 => 1 \in 1..n
    OBVIOUS
  <2>5. Len(private[w]) = 0
    BY <2>3, <2>4, Zenon
  <2> QED  BY <2>2, <2>5, SeqFacts, Zenon
<1>4. \A w \in Workers : wtask[w] = None
  BY <1>2, Zenon DEF Busy
<1>5. queue = <<>>
  BY <1>1, SeqFacts, InvTypes DEF TypeOK
<1> QED  BY <1>3, <1>4, <1>5, Zenon

LEMMA CInvParts ==
    ASSUME CInv
    PROVE  LInv /\ Tally /\ HoldInv /\ ScriptInv /\ ExitInv /\ TInv /\ TypeOK /\ WorkerInv /\ ChunkInv /\ PendingInv
  BY LInvParts, Zenon DEF CInv

LEMMA WorkerCInv ==
    ASSUME CardFacts, CInv, LInv', NEW w \in Workers, WorkerStep(w)
    PROVE  CInv'
<1> TInv /\ TypeOK /\ WorkerInv /\ ChunkInv /\ HoldInv /\ LInv /\ Tally /\ ScriptInv /\ ExitInv
  BY CInvParts, Zenon
<1>1. Tally' /\ HoldInv'
  BY WorkerTally, WorkerHold, Zenon
<1>2. /\ UNCHANGED <<mpc, wait_for_background_tasks, disposing, array>>
      /\ \A v \in Workers : v # w => wpc'[v] = wpc[v]
      /\ wpc[w] \in {"call", "auto"} => array[w] = {}
  BY WorkerShape, Zenon DEF main, d8, builtin
<1>3. ScriptInv'
  <2> SUFFICES ASSUME NEW a \in Agents, array'[a] # {}
               PROVE  IF a = Main THEN mpc' = "script" ELSE wpc'[a] \in {"call", "auto"}
    BY Zenon DEF ScriptInv
  <2>1. CASE a = Main
    BY <1>2, <2>1, Zenon DEF ScriptInv
  <2>2. CASE a # Main
    <3>1. a \in Workers /\ array[a] # {} /\ wpc[a] \in {"call", "auto"}
      BY <1>2, <2>2, Zenon DEF ScriptInv, Agents
    <3> QED  BY <1>2, <2>2, <3>1, Zenon
  <2> QED  BY <2>1, <2>2, Zenon
<1>4. ExitInv'
  <2>1. CASE mpc \in {"doNotWait", "finished"} /\ wait_for_background_tasks
    <3>1. active = 0
      BY <2>1, Zenon DEF ExitInv
    <3>2. queue = <<>> /\ private[w] = <<>> /\ wtask[w] = None
      BY <3>1, NothingActive, Zenon
    <3>3. ~GetTask(w) /\ ~FinishTask(w) /\ ~AwaitLoop(w)
      BY <3>2, Zenon DEF GetTask, FinishTask, AwaitLoop, HoldInv
    <3>4. wpc[w] \notin {"call", "auto", "join", "sleep", "resolve"} /\ w # Main
      BY <3>2, Queues, Zenon DEF WorkerInv
    <3>5. LeavePool(w)
      BY <3>3, <3>4, Zenon DEF WorkerStep, EndFunction, Await, RunsScript, RunJoin, RunSleep, RunResolve
    <3>6. UNCHANGED <<active, foreground>>
      BY <3>5, Zenon DEF LeavePool, pool
    <3> QED  BY <1>2, <3>6, Zenon DEF ExitInv
  <2>2. CASE ~(mpc \in {"doNotWait", "finished"} /\ wait_for_background_tasks)
    BY <1>2, <2>2, Zenon DEF ExitInv
  <2> QED  BY <2>1, <2>2, Zenon
<1> QED  BY <1>1, <1>3, <1>4, Zenon DEF CInv

LEMMA BuiltinCInv ==
    ASSUME CardFacts, CInv, LInv', NEW a \in Agents, Builtin(a) \/ FinishBuiltin(a)
    PROVE  CInv'
<1> TInv /\ TypeOK /\ WorkerInv /\ ChunkInv /\ HoldInv /\ LInv /\ Tally /\ ScriptInv /\ ExitInv
  BY CInvParts, Zenon
<1>1. /\ UNCHANGED <<wpc, wtask, mpc, wait_for_background_tasks, disposing>>
      /\ UNCHANGED pool \/ \E t \in Tasks : Submit(t)
      /\ RunsScript(a) \/ array[a] # {} \/ left[a] # {}
      /\ \A b \in Agents : array'[b] # {} => array[b] # {} \/ (b = a /\ RunsScript(a))
  BY BuiltinShape, Zenon DEF main, d8
<1>2. Tally'
  BY <1>1, SubmitTally, SameTally, Zenon DEF pool
<1>3. HoldInv'
  BY <1>1, Zenon DEF HoldInv
<1>4. IF a = Main THEN mpc = "script" ELSE wpc[a] \in {"call", "auto"}
  <2>1. CASE RunsScript(a)
    BY <2>1, Zenon DEF RunsScript
  <2>2. CASE array[a] # {} \/ left[a] # {}
    <3>1. array[a] # {}
      BY <2>2, Zenon DEF ChunkInv
    <3> QED  BY <3>1, Zenon DEF ScriptInv
  <2> QED  BY <1>1, <2>1, <2>2, Zenon
<1>5. ScriptInv'
  BY <1>1, <1>4, Zenon DEF ScriptInv
<1>6. ExitInv'
  <2>1. CASE mpc \in {"doNotWait", "finished"} /\ wait_for_background_tasks
    <3>1. active = 0 /\ mpc # "script"
      BY <2>1, Zenon DEF ExitInv
    <3>2. a \in Workers /\ wpc[a] \in {"call", "auto"}
      BY <1>4, <3>1, Zenon DEF Agents
    <3> QED  BY <3>1, <3>2, NothingActive, Zenon DEF WorkerInv
  <2>2. CASE ~(mpc \in {"doNotWait", "finished"} /\ wait_for_background_tasks)
    BY <1>1, <2>2, Zenon DEF ExitInv
  <2> QED  BY <2>1, <2>2, Zenon
<1> QED  BY <1>2, <1>3, <1>5, <1>6, Zenon DEF CInv

LEMMA MainCInv ==
    ASSUME CardFacts, CInv, LInv', MainStep
    PROVE  CInv'
<1> TInv /\ TypeOK /\ HoldInv /\ LInv /\ Tally /\ ScriptInv /\ ExitInv
  BY CInvParts, Zenon
<1> UNCHANGED <<queue, private, active, wpc, wtask, wait_for_background_tasks, array>>
  BY Zenon DEF MainStep, EndScript, PumpMessageLoop, LeaveMessageLoop, Dispose, pool, d8, builtin
<1>2. Tally' /\ HoldInv'
  BY SameTally, Zenon DEF HoldInv
<1>3. ScriptInv'
  <2>1. mpc' = "script" \/ mpc # "script" \/ array[Main] = {}
    BY Zenon DEF MainStep, EndScript, PumpMessageLoop, LeaveMessageLoop, Dispose, RunsScript
  <2> QED  BY <2>1, Zenon DEF ScriptInv
<1>4. ExitInv'
  <2> (disposing => mpc \in {"joinAll", "gone"}) /\ active \in Int
    BY DEF ExitInv, TypeOK
  <2>m. Len(queue) \in Nat /\ Cardinality(PrivatePlaces) \in Nat /\ Cardinality(Busy) \in Nat /\ Counted <= active
    BY TallyTypes, Zenon DEF Tally
  <2>n. active >= 0
    BY <2>m DEF Counted
  <2>1. CASE EndScript
    BY <2>n, <2>1 DEF EndScript, ExitInv
  <2>2. CASE PumpMessageLoop
    BY <2>2, Zenon DEF PumpMessageLoop, ExitInv
  <2>3. CASE LeaveMessageLoop
    <3> mpc = "doNotWait" /\ foreground = <<>> /\ mpc' = "finished" /\ UNCHANGED <<foreground, disposing>>
      BY <2>3, Zenon DEF LeaveMessageLoop, pool
    <3>2. wait_for_background_tasks => active = 0
      BY Zenon DEF ExitInv
    <3> QED  BY <3>2, Zenon DEF ExitInv
  <2>4. CASE Dispose
    BY <2>4, Zenon DEF Dispose, ExitInv
  <2> QED  BY <2>1, <2>2, <2>3, <2>4, Zenon DEF MainStep
<1> QED  BY <1>2, <1>3, <1>4, Zenon DEF CInv

LEMMA NextCInv == ASSUME CardFacts, CInv, [Next]_vars PROVE CInv'
<1> LInv'
  BY CInvParts, NextLInv, Zenon
<1>1. ASSUME NEW a \in Agents, Builtin(a) \/ FinishBuiltin(a) PROVE CInv'
  BY <1>1, BuiltinCInv, Zenon
<1>2. ASSUME NEW w \in Workers, WorkerStep(w) PROVE CInv'
  BY <1>2, WorkerCInv, Zenon
<1>3. CASE MainStep
  BY <1>3, MainCInv, Zenon
<1>4. CASE UNCHANGED vars
  <2> UNCHANGED <<queue, private, active, foreground, wpc, wtask, mpc, wait_for_background_tasks,
                    disposing, array>>
    BY <1>4, Zenon DEF vars, pool, main, d8, builtin
  <2>2. Tally' /\ HoldInv'
    BY CInvParts, SameTally, Zenon DEF HoldInv
  <2>3. ScriptInv' /\ ExitInv'
    BY CInvParts, Zenon DEF ScriptInv, ExitInv
  <2> QED  BY <2>2, <2>3, Zenon DEF CInv
<1> QED  BY <1>1, <1>2, <1>3, <1>4, Zenon DEF Next

LEMMA InitCInv == ASSUME CardFacts, Init PROVE CInv
<1>1. LInv
  BY InitLInv, Zenon
<1>2. PrivatePlaces = {} /\ Busy = {} /\ Len(queue) = 0 /\ active = 0
  <2>1. ASSUME NEW w \in Workers PROVE private[w] = <<>> /\ wtask[w] = None
    BY DEF Init
  <2>2. DOMAIN <<>> = {} /\ Len(<<>>) = 0
    OBVIOUS
  <2>3. PrivatePlaces = {}
    BY <2>1, <2>2, Zenon DEF PrivatePlaces
  <2> QED  BY <2>1, <2>2, <2>3, Zenon DEF Busy, Init
<1>3. Tally
  BY <1>2 DEF Tally, Counted, CardFacts
<1>4. HoldInv /\ ScriptInv /\ ExitInv
  BY DEF Init, HoldInv, ScriptInv, ExitInv
<1> QED  BY <1>1, <1>3, <1>4, Zenon DEF CInv

LEMMA CInvCounts == CInv => ActiveTasksCounted
  BY Zenon DEF CInv, Tally, Counted, PrivatePlaces, Busy, ActiveTasksCounted

LEMMA CInvExit == CardFacts /\ CInv => ExitLosesNothing
<1> SUFFICES ASSUME CardFacts, CInv, mpc = "finished", wait_for_background_tasks
             PROVE  /\ \A p \in Promises : promise[p] # "pending"
                    /\ \A f \in Functions : ~QueuedFn(f) /\ ~HeldFn(f)
  BY DEF ExitLosesNothing
<1> TInv /\ Tally /\ PendingInv /\ ExitInv
  BY CInvParts, Zenon
<1> active = 0 /\ foreground = <<>> /\ ~disposing
  BY Zenon DEF ExitInv
<1> queue = <<>> /\ \A w \in Workers : private[w] = <<>> /\ wtask[w] = None
  BY NothingActive, Zenon
<1>3. Live = {}
  BY NothingLive, Zenon
<1>4. \A p \in Promises : promise[p] # "pending"
  BY <1>3, Zenon DEF PendingInv
<1>5. \A f \in Functions : ~QueuedFn(f) /\ ~HeldFn(f)
  <2>1. DOMAIN <<>> = {}
    OBVIOUS
  <2> QED  BY <2>1, Zenon DEF QueuedFn, HeldFn
<1> QED  BY <1>4, <1>5, Zenon

INSTANCE FiniteSetTheorems

LEMMA CardHolds == CardFacts
<1>1. ASSUME NEW S, IsFiniteSet(S), NEW x
      PROVE  /\ \A T : x \notin S /\ T = S \cup {x} => IsFiniteSet(T) /\ Cardinality(T) = Cardinality(S) + 1
             /\ x \in S => IsFiniteSet(S \ {x}) /\ Cardinality(S \ {x}) = Cardinality(S) - 1
  BY <1>1, FS_AddElement, FS_RemoveElement, Zenon
<1> QED  BY <1>1, FS_EmptySet, FS_CardinalityType, Zenon DEF CardFacts

LEMMA SpecCInv == Spec => []CInv
<1>1. Init => CInv
  BY CardHolds, InitCInv, Zenon
<1>2. CInv /\ [Next]_vars => CInv'
  BY CardHolds, NextCInv, Zenon
<1> QED  BY <1>1, <1>2, PTL DEF Spec

(* active_tasks_ counts the tasks that are queued or held, whatever the     *)
(* order of Submit, GetTask and DecrementActiveTasks, unless a reaction     *)
(* awaits on the pool.                                                      *)
THEOREM ActiveTasksAreCounted == Spec => []ActiveTasksCounted
  BY SpecCInv, CInvCounts, PTL

(* d8 --wait-for-background-tasks does not leave its message loop while a   *)
(* function is queued or runs, or a promise waits to be settled.            *)
THEOREM ExitWaitsForAll == Spec => []ExitLosesNothing
<1>1. CInv => ExitLosesNothing
  BY CardHolds, CInvExit, Zenon
<1> QED  BY <1>1, SpecCInv, PTL
==============================================================================
