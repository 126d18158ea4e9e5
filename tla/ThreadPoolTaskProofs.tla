------------------------ MODULE ThreadPoolTaskProofs ------------------------
(* TaskExactlyOnce and ActiveTasksExact for any pool and any calls, and     *)
(* TearDownSettlesAll for a pool that is never resized.                     *)
EXTENDS ThreadPoolProofs

Submitting == {"Submit", "SubmitFromWorker", "SubmitToWorker"}

(* The tasks at each location, and all of them.                             *)
Holds == [l \in Locations |-> {k \in Tasks : At(l, k)}]
TasksOf(H) == {k \in Tasks : \E l \in Locations : k \in H[l]}
Pending == TasksOf(Holds)

(* No task is at two locations.                                             *)
Unique(H) == \A k \in Tasks : \A l, m \in Locations : k \in H[l] /\ k \in H[m] => l = m

(* The completed tasks that a worker has not let go yet.                    *)
Finished == {k \in Tasks : \E h \in Threads : tpc[h] = "finish" /\ cur[h] = k}

BusyInv ==
    \A h \in Threads :
      /\ cur[h] # None <=> tpc[h] \in {"run", "await", "nested", "finish"}
      /\ nested[h] # None <=> tpc[h] = "nested"
OnceInv ==
    Once(global_queue_) /\ \A i \in Indices : Once(private_queues_[i]) /\ Once(deques_[i])
SettledInv ==
    \A k \in Tasks :
      settled[k] = IF k \in submitted /\ (k \notin Pending \/ k \in Finished) THEN 1 ELSE 0
CountInv == ~Gone => IsFiniteSet(Pending) /\ active_tasks_ = Cardinality(Pending)

KInv ==
    /\ PInv /\ BusyInv /\ OnceInv /\ Unique(Holds) /\ Pending \subseteq submitted
    /\ SettledInv /\ CountInv

------------------------------------------------------------------------------
(* Moving, adding and removing a task.                                      *)
Shifted(H, k, l, m) == [H EXCEPT ![l] = H[l] \ {k}, ![m] = H[m] \cup {k}]

LEMMA MoveOne ==
    ASSUME NEW H, H \in [Locations -> SUBSET Tasks], Unique(H), NEW l, l \in Locations,
           NEW m, m \in Locations, l # m, NEW k, k \in H[l]
    PROVE  Unique(Shifted(H, k, l, m)) /\ TasksOf(Shifted(H, k, l, m)) = TasksOf(H)
<1> DEFINE G == Shifted(H, k, l, m)
<1>0. k \in Tasks
  OBVIOUS
<1>1. \A x \in Locations : G[x] = IF x = m THEN H[x] \cup {k} ELSE IF x = l THEN H[x] \ {k} ELSE H[x]
  BY Zenon DEF Shifted
<1> HIDE DEF G
<1>2. \A x \in Locations : k \in G[x] <=> x = m
  BY <1>0, <1>1, Zenon DEF Unique
<1>3. \A x \in Locations, j \in Tasks : j # k => (j \in G[x] <=> j \in H[x])
  BY <1>1, Zenon
<1>4. Unique(G)
  BY <1>2, <1>3 DEF Unique
<1>5. TasksOf(G) = TasksOf(H)
  BY <1>0, <1>2, <1>3, Zenon DEF TasksOf
<1> QED  BY <1>4, <1>5, Zenon DEF G

LEMMA AddOne ==
    ASSUME NEW H \in [Locations -> SUBSET Tasks], Unique(H), NEW m \in Locations,
           NEW k \in Tasks, k \notin TasksOf(H), NEW G, G = [H EXCEPT ![m] = H[m] \cup {k}]
    PROVE  Unique(G) /\ TasksOf(G) = TasksOf(H) \cup {k}
<1>2. \A x \in Locations : k \in G[x] <=> x = m
  BY DEF TasksOf
<1>3. \A x \in Locations, j \in Tasks : j # k => (j \in G[x] <=> j \in H[x])
  OBVIOUS
<1>4. Unique(G)
  BY <1>2, <1>3 DEF Unique
<1>5. TasksOf(G) = TasksOf(H) \cup {k}
  BY <1>2, <1>3 DEF TasksOf
<1> QED  BY <1>4, <1>5, Zenon

LEMMA RemoveOne ==
    ASSUME NEW H \in [Locations -> SUBSET Tasks], Unique(H), NEW l \in Locations, NEW k \in H[l],
           NEW G, G = [H EXCEPT ![l] = H[l] \ {k}]
    PROVE  Unique(G) /\ TasksOf(G) = TasksOf(H) \ {k}
<1>0. k \in Tasks
  OBVIOUS
<1>2. \A x \in Locations : k \notin G[x]
  BY <1>0 DEF Unique
<1>3. \A x \in Locations, j \in Tasks : j # k => (j \in G[x] <=> j \in H[x])
  OBVIOUS
<1>4. Unique(G)
  BY <1>2, <1>3, Zenon DEF Unique
<1>5. TasksOf(G) = TasksOf(H) \ {k}
  BY <1>2, <1>3, Zenon DEF TasksOf
<1> QED  BY <1>4, <1>5, Zenon

------------------------------------------------------------------------------
(* Queues.                                                                  *)
InQ(q) == {k \in Tasks : InQueue(q, k)}

LEMMA QueueHead ==
    ASSUME NEW q \in Seq(Tasks), q # <<>>, Once(q)
    PROVE  /\ Head(q) \in Tasks /\ Head(q) \in InQ(q)
           /\ Once(Tail(q)) /\ InQ(Tail(q)) = InQ(q) \ {Head(q)}
<1>1. Len(q) \in Nat /\ Len(q) >= 1 /\ DOMAIN q = 1..Len(q) /\ \A i \in 1..Len(q) : q[i] \in Tasks
  BY EmptySeq, LenProperties, ElementOfSeq
<1>2. Head(q) = q[1] /\ Tail(q) \in Seq(Tasks) /\ Len(Tail(q)) = Len(q) - 1
      /\ \A i \in 1..(Len(q) - 1) : Tail(q)[i] = q[i + 1]
  BY HeadTailProperties
<1>3. DOMAIN Tail(q) = 1..(Len(q) - 1)
  BY <1>2, LenProperties, Zenon
<1>4. Once(Tail(q))
  BY <1>1, <1>2, <1>3 DEF Once
<1>5. ASSUME NEW k \in Tasks PROVE InQueue(Tail(q), k) <=> InQueue(q, k) /\ k # Head(q)
  <2>1. ASSUME InQueue(Tail(q), k) PROVE InQueue(q, k) /\ k # Head(q)
    <3>1. PICK i \in 1..(Len(q) - 1) : q[i + 1] = k
      BY <1>2, <1>3, <2>1, Zenon DEF InQueue
    <3> QED  BY <1>1, <1>2, <3>1 DEF InQueue, Once
  <2>2. ASSUME InQueue(q, k), k # Head(q) PROVE InQueue(Tail(q), k)
    <3>1. PICK i \in 1..Len(q) : q[i] = k
      BY <1>1, <2>2, Zenon DEF InQueue
    <3>2. i - 1 \in 1..(Len(q) - 1) /\ Tail(q)[i - 1] = k
      BY <1>1, <1>2, <2>2, <3>1
    <3> QED  BY <1>3, <3>2, Zenon DEF InQueue
  <2> QED  BY <2>1, <2>2, Zenon
<1>6. Head(q) \in Tasks /\ InQueue(q, Head(q))
  BY <1>1, <1>2 DEF InQueue
<1> QED  BY <1>4, <1>5, <1>6, Zenon DEF InQ

LEMMA QueueLast ==
    ASSUME NEW q \in Seq(Tasks), q # <<>>, Once(q)
    PROVE  /\ q[Len(q)] \in Tasks /\ q[Len(q)] \in InQ(q)
           /\ Once(SubSeq(q, 1, Len(q) - 1)) /\ InQ(SubSeq(q, 1, Len(q) - 1)) = InQ(q) \ {q[Len(q)]}
<1> DEFINE p == SubSeq(q, 1, Len(q) - 1)
<1>1. Len(q) \in Nat /\ Len(q) >= 1 /\ DOMAIN q = 1..Len(q) /\ \A i \in 1..Len(q) : q[i] \in Tasks
  BY EmptySeq, LenProperties, ElementOfSeq
<1>2. Len(p) = Len(q) - 1 /\ \A i \in 1..(Len(q) - 1) : p[i] = q[i]
  BY <1>1, SubSeqProperties
<1>3. p \in Seq(Tasks) /\ DOMAIN p = 1..(Len(q) - 1)
  BY <1>2, TakenFrom, LenProperties, Zenon
<1> HIDE DEF p
<1>4. Once(p)
  BY <1>1, <1>2, <1>3 DEF Once
<1>5. ASSUME NEW k \in Tasks PROVE InQueue(p, k) <=> InQueue(q, k) /\ k # q[Len(q)]
  <2>1. ASSUME InQueue(p, k) PROVE InQueue(q, k) /\ k # q[Len(q)]
    <3>1. PICK i \in 1..(Len(q) - 1) : q[i] = k
      BY <1>2, <1>3, <2>1, Zenon DEF InQueue
    <3> QED  BY <1>1, <3>1 DEF InQueue, Once
  <2>2. ASSUME InQueue(q, k), k # q[Len(q)] PROVE InQueue(p, k)
    <3>1. PICK i \in 1..Len(q) : q[i] = k
      BY <1>1, <2>2, Zenon DEF InQueue
    <3>2. i \in 1..(Len(q) - 1) /\ p[i] = k
      BY <1>1, <1>2, <2>2, <3>1
    <3> QED  BY <1>3, <3>2, Zenon DEF InQueue
  <2> QED  BY <2>1, <2>2, Zenon
<1>6. q[Len(q)] \in Tasks /\ InQueue(q, q[Len(q)])
  BY <1>1 DEF InQueue
<1> QED  BY <1>4, <1>5, <1>6, Zenon DEF InQ, p

LEMMA QueueAppend ==
    ASSUME NEW q \in Seq(Tasks), Once(q), NEW k \in Tasks, k \notin InQ(q)
    PROVE  Once(Append(q, k)) /\ InQ(Append(q, k)) = InQ(q) \cup {k}
<1>1. Len(q) \in Nat /\ DOMAIN q = 1..Len(q) /\ ~InQueue(q, k)
  BY LenProperties, Zenon DEF InQ
<1>2. /\ Append(q, k) \in Seq(Tasks) /\ Len(Append(q, k)) = Len(q) + 1
      /\ \A i \in 1..Len(q) : Append(q, k)[i] = q[i]
      /\ Append(q, k)[Len(q) + 1] = k
  BY AppendProperties
<1>3. DOMAIN Append(q, k) = 1..(Len(q) + 1)
  BY <1>2, LenProperties, Zenon
<1>4. Once(Append(q, k))
  BY <1>1, <1>2, <1>3 DEF Once, InQueue
<1>5. ASSUME NEW j \in Tasks PROVE InQueue(Append(q, k), j) <=> InQueue(q, j) \/ j = k
  BY <1>1, <1>2, <1>3 DEF InQueue
<1> QED  BY <1>4, <1>5, Zenon DEF InQ

------------------------------------------------------------------------------
(* Locations, one kind after the other.                                     *)
LEMMA Kinds ==
    /\ <<"global", 0>> \in Locations
    /\ \A i \in Indices : <<"private", i>> \in Locations /\ <<"deque", i>> \in Locations
    /\ \A h \in Threads : <<"cur", h>> \in Locations /\ <<"nested", h>> \in Locations
    /\ \A c \in Callers : <<"push", c>> \in Locations
    /\ \A l \in Locations :
         \/ l = <<"global", 0>>
         \/ \E i \in Indices : l = <<"private", i>> \/ l = <<"deque", i>>
         \/ \E h \in Threads : l = <<"cur", h>> \/ l = <<"nested", h>>
         \/ \E c \in Callers : l = <<"push", c>>
  BY DEF Locations

Held(f, h) == {k \in Tasks : f[h] = k}
Pushed(c) == {k \in Tasks : ctask[c] = k /\ cpc[c] \in Submitting}

(* What Holds is, and is after a step, at each kind of location.            *)
LEMMA HoldsAt ==
    /\ Holds \in [Locations -> SUBSET Tasks]
    /\ Holds[<<"global", 0>>] = InQ(global_queue_)
    /\ \A i \in Indices : /\ Holds[<<"private", i>>] = InQ(private_queues_[i])
                           /\ Holds[<<"deque", i>>] = InQ(deques_[i])
    /\ \A h \in Threads : /\ Holds[<<"cur", h>>] = Held(cur, h)
                           /\ Holds[<<"nested", h>>] = Held(nested, h)
    /\ \A c \in Callers : Holds[<<"push", c>>] = Pushed(c)
<1>1. Holds \in [Locations -> SUBSET Tasks]
  BY Zenon DEF Holds
<1>2. Holds[<<"global", 0>>] = InQ(global_queue_)
  BY Kinds, Zenon DEF Holds, At, InQ
<1>3. \A i \in Indices : Holds[<<"private", i>>] = InQ(private_queues_[i])
  BY Kinds DEF Holds, At, InQ
<1>4. \A i \in Indices : Holds[<<"deque", i>>] = InQ(deques_[i])
  BY Kinds DEF Holds, At, InQ
<1>5. \A h \in Threads : Holds[<<"cur", h>>] = Held(cur, h)
  BY Kinds DEF Holds, At, Held
<1>6. \A h \in Threads : Holds[<<"nested", h>>] = Held(nested, h)
  BY Kinds DEF Holds, At, Held
<1>7. \A c \in Callers : Holds[<<"push", c>>] = Pushed(c)
  BY Kinds DEF Holds, At, Pushed, Submitting
<1> QED  BY <1>1, <1>2, <1>3, <1>4, <1>5, <1>6, <1>7, ZenonT(40)

LEMMA HoldsNext ==
    ASSUME NEW G \in [Locations -> SUBSET Tasks],
           G[<<"global", 0>>] = InQ(global_queue_'),
           \A i \in Indices : /\ G[<<"private", i>>] = InQ(private_queues_'[i])
                              /\ G[<<"deque", i>>] = InQ(deques_'[i]),
           \A h \in Threads : G[<<"cur", h>>] = Held(cur', h) /\ G[<<"nested", h>>] = Held(nested', h),
           \A c \in Callers : G[<<"push", c>>] = Pushed(c)'
    PROVE  Holds' = G
<1>1. Holds' = [l \in Locations |-> {k \in Tasks : At(l, k)'}]
  BY DEF Holds
<1>2. ASSUME NEW l \in Locations PROVE Holds'[l] = G[l]
  <2>1. CASE l = <<"global", 0>>
    BY <1>1, <2>1, Zenon DEF At, InQ
  <2>2. ASSUME NEW i \in Indices, l = <<"private", i>> PROVE Holds'[l] = G[l]
    BY <1>1, <2>2, Zenon DEF At, InQ
  <2>3. ASSUME NEW i \in Indices, l = <<"deque", i>> PROVE Holds'[l] = G[l]
    BY <1>1, <2>3, Zenon DEF At, InQ
  <2>4. ASSUME NEW h \in Threads, l = <<"cur", h>> PROVE Holds'[l] = G[l]
    BY <1>1, <2>4, Zenon DEF At, Held
  <2>5. ASSUME NEW h \in Threads, l = <<"nested", h>> PROVE Holds'[l] = G[l]
    BY <1>1, <2>5, Zenon DEF At, Held
  <2>6. ASSUME NEW c \in Callers, l = <<"push", c>> PROVE Holds'[l] = G[l]
    BY <1>1, <2>6, Zenon DEF At, Pushed, Submitting
  <2> QED  BY <2>1, <2>2, <2>3, <2>4, <2>5, <2>6, Kinds, ZenonT(40)
<1> QED  BY <1>1, <1>2, Zenon

------------------------------------------------------------------------------
(* A step that completes no task and lets none go keeps the invariant if it *)
(* leaves every task at one location.                                       *)
LEMMA Kept ==
    ASSUME KInv, PInv', BusyInv', OnceInv', Unique(Holds'), TasksOf(Holds') = TasksOf(Holds),
           Finished' = Finished, UNCHANGED <<active_tasks_, submitted, settled>>, Gone => Gone'
    PROVE  KInv'
<1>1. Pending' = Pending
  BY DEF Pending, TasksOf
<1>2. SettledInv'
  BY <1>1, Zenon DEF KInv, SettledInv
<1>3. CountInv'
  BY <1>1, Zenon DEF KInv, CountInv
<1>4. Unique(Holds)'
  BY DEF Unique
<1> QED  BY <1>1, <1>2, <1>3, <1>4, Zenon DEF KInv

(* The steps that touch no queue and no task in somebody's hands.           *)
LEMMA Quietly ==
    ASSUME KInv, PInv', BusyInv', UNCHANGED <<queues, cur, nested, active_tasks_, submitted, settled>>,
           \A c \in Callers : Pushed(c)' = Pushed(c), Finished' = Finished, Gone => Gone'
    PROVE  KInv'
<1>1. OnceInv'
  BY DEF KInv, OnceInv, queues
<1>2. Holds' = Holds
  <2>1. UNCHANGED <<global_queue_, private_queues_, deques_, cur, nested>>
    BY DEF queues
  <2> QED  BY <2>1, HoldsAt, HoldsNext, Zenon
<1>3. Unique(Holds') /\ TasksOf(Holds') = TasksOf(Holds)
  BY <1>2, Zenon DEF KInv
<1> QED  BY <1>1, <1>3, Kept, Zenon

(* A task moves from one location to another.                               *)
LEMMA Moved ==
    ASSUME KInv, PInv', BusyInv', OnceInv', NEW l \in Locations, NEW m \in Locations, l # m,
           NEW k \in Holds[l], Holds' = Shifted(Holds, k, l, m),
           Finished' = Finished, UNCHANGED <<active_tasks_, submitted, settled>>, Gone => Gone'
    PROVE  KInv'
<1>1. Unique(Holds') /\ TasksOf(Holds') = TasksOf(Holds)
  <2>1. Holds \in [Locations -> SUBSET Tasks] /\ Unique(Holds)
    BY HoldsAt, Zenon DEF KInv
  <2> QED  BY <2>1, MoveOne, Zenon
<1> QED  BY <1>1, Kept, Zenon

(* A task leaves for good, and is uncounted.                                *)
LEMMA Left ==
    ASSUME KInv, PInv', BusyInv', OnceInv', NEW l \in Locations, NEW k \in Holds[l],
           Holds' = [Holds EXCEPT ![l] = Holds[l] \ {k}], Finished' = Finished \ {k},
           active_tasks_' = active_tasks_ - 1, submitted' = submitted, Gone => Gone',
           settled'[k] = 1, \A j \in Tasks \ {k} : settled'[j] = settled[j]
    PROVE  KInv'
<1>0. Holds \in [Locations -> SUBSET Tasks] /\ Unique(Holds)
  BY HoldsAt, Zenon DEF KInv
<1>1. Unique(Holds') /\ TasksOf(Holds') = TasksOf(Holds) \ {k}
  BY <1>0, RemoveOne, Zenon
<1>2. Pending' = Pending \ {k} /\ k \in Pending /\ k \in Tasks
  BY <1>0, <1>1, Zenon DEF Pending, TasksOf
<1>3. SettledInv'
  <2>1. k \in submitted
    BY <1>2, Zenon DEF KInv
  <2> QED  BY <1>2, <2>1, Zenon DEF KInv, SettledInv
<1>4. CountInv'
  <2>1. CASE Gone'
    BY <2>1, Zenon DEF CountInv
  <2>2. CASE ~Gone'
    <3>1. IsFiniteSet(Pending) /\ active_tasks_ = Cardinality(Pending)
      BY <2>2, Zenon DEF KInv, CountInv
    <3>2. IsFiniteSet(Pending \ {k}) /\ Cardinality(Pending \ {k}) = Cardinality(Pending) - 1
      BY <1>2, <3>1, FS_RemoveElement, Zenon
    <3> QED  BY <1>2, <3>1, <3>2, Zenon DEF CountInv
  <2> QED  BY <2>1, <2>2, Zenon
<1>5. Unique(Holds)'
  BY <1>1, Zenon DEF Unique
<1>6. Pending' \subseteq submitted'
  BY <1>2, Zenon DEF KInv
<1> QED  BY <1>3, <1>4, <1>5, <1>6, ZenonT(40) DEF KInv

(* A task comes, and is counted.                                            *)
LEMMA Entered ==
    ASSUME KInv, PInv', BusyInv', OnceInv', NEW m \in Locations, NEW k \in Tasks, k \notin submitted,
           Holds' = [Holds EXCEPT ![m] = Holds[m] \cup {k}], Finished' = Finished,
           active_tasks_' = active_tasks_ + 1, submitted' = submitted \cup {k}, settled' = settled,
           Gone => Gone'
    PROVE  KInv'
<1>0. Holds \in [Locations -> SUBSET Tasks] /\ Unique(Holds) /\ k \notin TasksOf(Holds)
  BY HoldsAt, Zenon DEF KInv, Pending
<1>1. Unique(Holds') /\ TasksOf(Holds') = TasksOf(Holds) \cup {k}
  BY <1>0, AddOne, Zenon
<1>2. Pending' = Pending \cup {k} /\ k \notin Pending
  BY <1>0, <1>1, Zenon DEF Pending, TasksOf
<1>3. SettledInv'
  <2>1. k \notin Finished
    <3>1. ASSUME k \in Finished PROVE k \in Pending
      <4>1. PICK h \in Threads : cur[h] = k
        BY <3>1, Zenon DEF Finished
      <4> QED  BY <4>1, HoldsAt, Kinds, Zenon DEF Pending, TasksOf, Held
    <3> QED  BY <3>1, <1>2, Zenon
  <2> QED  BY <1>2, <2>1, Zenon DEF KInv, SettledInv
<1>4. CountInv'
  <2>1. CASE Gone'
    BY <2>1, Zenon DEF CountInv
  <2>2. CASE ~Gone'
    <3>1. IsFiniteSet(Pending) /\ active_tasks_ = Cardinality(Pending)
      BY <2>2, Zenon DEF KInv, CountInv
    <3>2. IsFiniteSet(Pending \cup {k}) /\ Cardinality(Pending \cup {k}) = Cardinality(Pending) + 1
      BY <1>2, <3>1, FS_AddElement, Zenon
    <3> QED  BY <1>2, <3>1, <3>2, Zenon DEF CountInv
  <2> QED  BY <2>1, <2>2, Zenon
<1>5. Unique(Holds)'
  BY <1>1, Zenon DEF Unique
<1>6. Pending' \subseteq submitted'
  BY <1>2, Zenon DEF KInv
<1> QED  BY <1>3, <1>4, <1>5, <1>6, Zenon DEF KInv

(* A worker completes its task and still has it in its hands.               *)
LEMMA Completed ==
    ASSUME KInv, PInv', BusyInv', NEW k \in Tasks, k \in Pending \ Finished,
           UNCHANGED <<queues, cur, nested, cpc, ctask, active_tasks_, submitted>>,
           Finished' = Finished \cup {k}, settled' = [settled EXCEPT ![k] = settled[k] + 1]
    PROVE  KInv'
<1>1. OnceInv'
  BY Zenon DEF KInv, OnceInv, queues
<1>2. Holds' = Holds
  <2>1. UNCHANGED <<global_queue_, private_queues_, deques_, cur, nested>>
    BY DEF queues
  <2>2. \A c \in Callers : Pushed(c)' = Pushed(c)
    BY Zenon DEF Pushed
  <2> QED  BY <2>1, <2>2, HoldsAt, HoldsNext, Zenon
<1>3. Pending' = Pending
  BY <1>2, Zenon DEF Pending, TasksOf
<1>4. SettledInv'
  <2>1. settled \in [Tasks -> Nat] /\ k \in submitted /\ settled[k] = 0
    BY Zenon DEF KInv, PInv, HistoryType, SettledInv
  <2> QED  BY <1>3, <2>1 DEF KInv, SettledInv
<1>5. CountInv' /\ Pending' \subseteq submitted'
  BY <1>3, Zenon DEF KInv, CountInv, Gone
<1>6. Unique(Holds)'
  BY <1>2, Zenon DEF KInv, Unique
<1> QED  BY <1>1, <1>4, <1>5, <1>6, Zenon DEF KInv

------------------------------------------------------------------------------
Busy == {"run", "await", "nested", "finish"}

(* Steps of a worker without a task, and wake-ups.                          *)
LEMMA IdleMove ==
    ASSUME KInv, NEW h \in Threads, NEW b, tpc[h] \notin Busy, b \notin Busy,
           tpc' = [tpc EXCEPT ![h] = b], UNCHANGED <<cur, nested>>
    PROVE  BusyInv' /\ Finished' = Finished
<1>1. tpc \in [Threads -> Labels]
  BY Zenon DEF KInv, PInv, SInv
<1>2. BusyInv'
  BY <1>1, Zenon DEF KInv, BusyInv, Busy
<1>3. Finished' = Finished
  BY <1>1, Zenon DEF Finished, Busy
<1> QED  BY <1>2, <1>3, Zenon

LEMMA IdleNotify ==
    ASSUME KInv, NotifyAll, UNCHANGED <<cur, nested>>
    PROVE  BusyInv' /\ Finished' = Finished
<1>1. tpc \in [Threads -> Labels] /\ waiting = {h \in Threads : tpc[h] = "waiting"}
  BY Zenon DEF KInv, PInv, SInv
<1>2. \A h \in Threads : tpc'[h] = tpc[h] \/ (tpc[h] = "waiting" /\ tpc'[h] = "woken")
  BY <1>1, Zenon DEF NotifyAll
<1>3. BusyInv'
  BY <1>2, Zenon DEF KInv, BusyInv
<1>4. Finished' = Finished
  BY <1>2, Zenon DEF Finished
<1> QED  BY <1>3, <1>4, Zenon

(* Task k is taken from the queue at location l.                            *)
Minus(x, l, k) == IF x = l THEN Holds[x] \ {k} ELSE Holds[x]
QueuesMinus(l, k) ==
    /\ InQ(global_queue_') = Minus(<<"global", 0>>, l, k)
    /\ \A i \in Indices : /\ InQ(private_queues_'[i]) = Minus(<<"private", i>>, l, k)
                          /\ InQ(deques_'[i]) = Minus(<<"deque", i>>, l, k)

LEMMA TakeGlobal ==
    ASSUME KInv, global_queue_ # <<>>, global_queue_' = Tail(global_queue_),
           UNCHANGED <<private_queues_, deques_>>
    PROVE  /\ OnceInv' /\ Head(global_queue_) \in Holds[<<"global", 0>>]
           /\ QueuesMinus(<<"global", 0>>, Head(global_queue_))
<1>1. global_queue_ \in Seq(Tasks) /\ Once(global_queue_)
  BY DEF KInv, PInv, QueueType, OnceInv
<1>2. /\ Head(global_queue_) \in InQ(global_queue_) /\ Once(Tail(global_queue_))
      /\ InQ(Tail(global_queue_)) = InQ(global_queue_) \ {Head(global_queue_)}
  BY <1>1, QueueHead, Zenon
<1>3. OnceInv'
  BY <1>2, Zenon DEF KInv, OnceInv
<1>4. QueuesMinus(<<"global", 0>>, Head(global_queue_))
  BY <1>2, HoldsAt, Zenon DEF QueuesMinus, Minus
<1> QED  BY <1>2, <1>3, <1>4, HoldsAt, Zenon

LEMMA TakePrivate ==
    ASSUME KInv, NEW x \in Indices, private_queues_[x] # <<>>,
           private_queues_' = [private_queues_ EXCEPT ![x] = Tail(private_queues_[x])],
           UNCHANGED <<global_queue_, deques_>>
    PROVE  /\ OnceInv' /\ Head(private_queues_[x]) \in Holds[<<"private", x>>]
           /\ QueuesMinus(<<"private", x>>, Head(private_queues_[x]))
<1> DEFINE q == private_queues_[x]
<1>1. q \in Seq(Tasks) /\ Once(q) /\ private_queues_ \in [Indices -> Seq(Tasks)]
  BY Zenon DEF KInv, PInv, QueueType, OnceInv
<1>2. Head(q) \in InQ(q) /\ Once(Tail(q)) /\ InQ(Tail(q)) = InQ(q) \ {Head(q)}
  BY <1>1, QueueHead, Zenon
<1>3. /\ private_queues_'[x] = Tail(q)
      /\ \A i \in Indices \ {x} : private_queues_'[i] = private_queues_[i]
  BY <1>1, Zenon
<1>4. OnceInv'
  BY <1>2, <1>3, Zenon DEF KInv, OnceInv
<1>5. QueuesMinus(<<"private", x>>, Head(q))
  BY <1>2, <1>3, HoldsAt, Zenon DEF QueuesMinus, Minus
<1> QED  BY <1>2, <1>4, <1>5, HoldsAt, Zenon

LEMMA TakeDeque ==
    ASSUME KInv, NEW x \in Indices, deques_[x] # <<>>, NEW k \in InQ(deques_[x]), NEW rest,
           Once(rest), InQ(rest) = InQ(deques_[x]) \ {k},
           deques_' = [deques_ EXCEPT ![x] = rest], UNCHANGED <<global_queue_, private_queues_>>
    PROVE  OnceInv' /\ k \in Holds[<<"deque", x>>] /\ QueuesMinus(<<"deque", x>>, k)
<1>1. deques_ \in [Indices -> Seq(Tasks)]
  BY Zenon DEF KInv, PInv, QueueType
<1>2. deques_'[x] = rest /\ \A i \in Indices \ {x} : deques_'[i] = deques_[i]
  BY <1>1, Zenon
<1>3. OnceInv'
  BY <1>2, Zenon DEF KInv, OnceInv
<1>4. QueuesMinus(<<"deque", x>>, k)
  BY <1>2, HoldsAt, ZenonT(40) DEF QueuesMinus, Minus
<1> QED  BY <1>3, <1>4, HoldsAt, Zenon

(* It goes to a worker.                                                     *)
QueueKinds == {<<"global", 0>>} \cup ({"private", "deque"} \X Indices)

LEMMA TakeMoves ==
    ASSUME KInv, NEW l \in QueueKinds, NEW k \in Holds[l], QueuesMinus(l, k), NEW h \in Threads,
           UNCHANGED <<cpc, ctask>>,
           NEW m, \/ m = <<"cur", h>> /\ cur[h] = None /\ cur' = [cur EXCEPT ![h] = k] /\ nested' = nested
                  \/ m = <<"nested", h>> /\ nested[h] = None /\ nested' = [nested EXCEPT ![h] = k] /\ cur' = cur
    PROVE  m \in Locations /\ l \in Locations /\ l # m /\ Holds' = Shifted(Holds, k, l, m)
<1>1. m \in Locations /\ l \in Locations /\ l # m
  BY DEF QueueKinds, Locations
<1>0. Holds \in [Locations -> SUBSET Tasks] /\ k \in Tasks
  BY <1>1, HoldsAt, Zenon
<1> DEFINE G == Shifted(Holds, k, l, m)
<1>2. /\ G \in [Locations -> SUBSET Tasks]
      /\ \A x \in Locations : G[x] = IF x = m THEN Holds[x] \cup {k} ELSE Minus(x, l, k)
  BY <1>0, <1>1, Zenon DEF Shifted, Minus
<1>k. l[1] \in {"global", "private", "deque"} /\ (m = <<"cur", h>> \/ m = <<"nested", h>>)
      /\ m[1] \in {"cur", "nested"}
  BY DEF QueueKinds
<1> HIDE DEF G
<1>3. G[<<"global", 0>>] = InQ(global_queue_')
  BY <1>2, <1>k, Kinds DEF QueuesMinus
<1>4. ASSUME NEW i \in Indices
      PROVE  G[<<"private", i>>] = InQ(private_queues_'[i]) /\ G[<<"deque", i>>] = InQ(deques_'[i])
  <2>1. <<"private", i>> # m /\ <<"deque", i>> # m
    BY <1>k, SMTT(40)
  <2> QED  BY <1>2, <2>1, Kinds, Zenon DEF QueuesMinus
<1>6. cur \in [Threads -> Tasks \cup {None}] /\ nested \in [Threads -> Tasks \cup {None}]
      /\ None \notin Tasks
  BY PoolAssumption, Zenon DEF KInv, PInv, WorkerType
<1>7. ASSUME NEW g \in Threads
      PROVE  G[<<"cur", g>>] = Held(cur', g) /\ G[<<"nested", g>>] = Held(nested', g)
  <2>1. <<"cur", g>>[1] = "cur" /\ <<"nested", g>>[1] = "nested"
    BY Zenon
  <2>2. /\ <<"cur", g>> # l /\ <<"nested", g>> # l
        /\ <<"cur", g>> \in Locations /\ <<"nested", g>> \in Locations
    BY <1>k, <2>1, Kinds, Zenon
  <2>3. Holds[<<"cur", g>>] = Held(cur, g) /\ Holds[<<"nested", g>>] = Held(nested, g)
    BY HoldsAt, Zenon
  <2>4. /\ G[<<"cur", g>>] = IF <<"cur", g>> = m THEN Held(cur, g) \cup {k} ELSE Held(cur, g)
        /\ G[<<"nested", g>>] = IF <<"nested", g>> = m THEN Held(nested, g) \cup {k} ELSE Held(nested, g)
    BY <1>2, <2>2, <2>3, Zenon DEF Minus
  <2>5. CASE m = <<"cur", h>> /\ cur[h] = None /\ cur' = [cur EXCEPT ![h] = k] /\ nested' = nested
    <3>1. <<"nested", g>> # m /\ (<<"cur", g>> = m <=> g = h)
      BY <2>5, Zenon
    <3>2. Held(cur', g) = IF g = h THEN Held(cur, g) \cup {k} ELSE Held(cur, g)
      BY <1>0, <1>6, <2>5, Zenon DEF Held
    <3> QED  BY <2>4, <2>5, <3>1, <3>2, Zenon
  <2>6. CASE m = <<"nested", h>> /\ nested[h] = None /\ nested' = [nested EXCEPT ![h] = k] /\ cur' = cur
    <3>1. <<"cur", g>> # m /\ (<<"nested", g>> = m <=> g = h)
      BY <2>6, Zenon
    <3>2. Held(nested', g) = IF g = h THEN Held(nested, g) \cup {k} ELSE Held(nested, g)
      BY <1>0, <1>6, <2>6, Zenon DEF Held
    <3> QED  BY <2>4, <2>6, <3>1, <3>2, Zenon
  <2> QED  BY <2>5, <2>6, Zenon
<1>9. ASSUME NEW c \in Callers PROVE G[<<"push", c>>] = Pushed(c)'
  <2>1. <<"push", c>>[1] = "push"
    BY Zenon
  <2>2. <<"push", c>> # l /\ <<"push", c>> # m /\ <<"push", c>> \in Locations
    BY <1>k, <2>1, Kinds, Zenon
  <2> QED  BY <1>2, <2>2, HoldsAt, Zenon DEF Minus, Pushed
<1> QED  BY <1>1, <1>2, <1>3, <1>4, <1>7, <1>9, HoldsNext, ZenonT(40) DEF G

------------------------------------------------------------------------------
(* GetTask.                                                                 *)
LEMMA TakeKInv ==
    ASSUME KInv, PInv', NEW h \in Threads, tpc[h] \notin Busy, NEW l \in QueueKinds, NEW k \in Holds[l],
           QueuesMinus(l, k), OnceInv', Take(h, k),
           UNCHANGED <<nested, caller, submitted, settled, active_tasks_>>
    PROVE  KInv'
<1>1. /\ cur' = [cur EXCEPT ![h] = k] /\ tpc' = [tpc EXCEPT ![h] = "run"]
      /\ UNCHANGED <<cpc, ctask, nested>>
  BY Zenon DEF Take, caller
<1>2. l \in Locations /\ k \in Tasks
  BY HoldsAt, Zenon DEF QueueKinds, Locations
<1>3. /\ tpc \in [Threads -> Labels] /\ cur \in [Threads -> Tasks \cup {None}] /\ None \notin Tasks
      /\ cur[h] = None /\ tpc[h] # "finish"
  BY PoolAssumption, Zenon DEF KInv, PInv, SInv, WorkerType, BusyInv, Busy
<1>4. BusyInv'
  BY <1>1, <1>2, <1>3, Zenon DEF KInv, BusyInv, Busy
<1>5. Finished' = Finished
  BY <1>1, <1>3, Zenon DEF Finished
<1>6. Gone => Gone'
  BY <1>1, Zenon DEF Gone
<1>7. /\ <<"cur", h>> \in Locations /\ l \in Locations /\ l # <<"cur", h>>
      /\ Holds' = Shifted(Holds, k, l, <<"cur", h>>)
  BY <1>1, <1>3, TakeMoves, Zenon
<1> QED  BY <1>4, <1>5, <1>6, <1>7, Moved, Zenon

LEMMA GoToKInv ==
    ASSUME KInv, PInv', NEW h \in Threads, NEW b, tpc[h] \notin Busy, b \notin Busy, GoTo(h, b),
           UNCHANGED <<queues, nested, caller, submitted, settled, active_tasks_>>
    PROVE  KInv'
<1>1. tpc' = [tpc EXCEPT ![h] = b] /\ UNCHANGED <<cur, cpc, ctask>>
  BY DEF GoTo, caller
<1>2. BusyInv' /\ Finished' = Finished
  BY <1>1, IdleMove, Zenon
<1>3. (\A c \in Callers : Pushed(c)' = Pushed(c)) /\ (Gone => Gone')
  BY <1>1, Zenon DEF Pushed, Gone
<1> QED  BY <1>1, <1>2, <1>3, Quietly, ZenonT(40)

LEMMA SearchKInv ==
    ASSUME KInv, PInv', NEW h \in Threads,
           GetPrivate(h) \/ GetLocal(h) \/ GetGlobal(h) \/ StealFrom(h)
    PROVE  KInv'
<1>0. tpc[h] # "unborn" => index[h] \in Indices
  BY Zenon DEF KInv, PInv, IndexInv
<1>q. \A i \in Indices : deques_[i] \in Seq(Tasks) /\ Once(deques_[i])
  BY Zenon DEF KInv, PInv, QueueType, OnceInv
<1>1. CASE GetPrivate(h)
  <2> DEFINE x == index[h]  q == private_queues_[x]
  <2>1. /\ tpc[h] = "private" /\ UNCHANGED <<global_queue_, deques_>> /\ x \in Indices
        /\ UNCHANGED <<nested, caller, submitted, settled, active_tasks_>>
    BY <1>0, <1>1, Zenon DEF GetPrivate, poolUnchanged
  <2>2. CASE q # <<>>
    <3>1. Take(h, Head(q)) /\ private_queues_' = [private_queues_ EXCEPT ![x] = Tail(private_queues_[x])]
      BY <1>1, <2>2, Zenon DEF GetPrivate
    <3>2. OnceInv' /\ Head(q) \in Holds[<<"private", x>>] /\ QueuesMinus(<<"private", x>>, Head(q))
      BY <2>1, <2>2, <3>1, TakePrivate, ZenonT(40)
    <3>3. <<"private", x>> \in QueueKinds
      BY <2>1, Zenon DEF QueueKinds
    <3> QED  BY <2>1, <3>1, <3>2, <3>3, TakeKInv, Zenon DEF Busy
  <2>3. CASE q = <<>>
    <3>1. GoTo(h, "deque") /\ UNCHANGED queues
      BY <1>1, <2>1, <2>3, Zenon DEF GetPrivate, queues
    <3> QED  BY <2>1, <3>1, GoToKInv, Zenon DEF Busy
  <2> QED  BY <2>2, <2>3, Zenon
<1>2. CASE GetGlobal(h)
  <2> DEFINE q == global_queue_
  <2>1. /\ tpc[h] = "global" /\ UNCHANGED <<private_queues_, deques_>>
        /\ UNCHANGED <<nested, caller, submitted, settled, active_tasks_>>
    BY <1>2, Zenon DEF GetGlobal, poolUnchanged
  <2>2. CASE q # <<>>
    <3>1. Take(h, Head(q)) /\ global_queue_' = Tail(q)
      BY <1>2, <2>2, Zenon DEF GetGlobal
    <3>2. OnceInv' /\ Head(q) \in Holds[<<"global", 0>>] /\ QueuesMinus(<<"global", 0>>, Head(q))
      BY <2>1, <2>2, <3>1, TakeGlobal, Zenon
    <3>3. <<"global", 0>> \in QueueKinds
      BY Zenon DEF QueueKinds
    <3> QED  BY <2>1, <3>1, <3>2, <3>3, TakeKInv, Zenon DEF Busy
  <2>3. CASE q = <<>>
    <3>1. GoTo(h, "steal") /\ UNCHANGED queues
      BY <1>2, <2>1, <2>3, Zenon DEF GetGlobal, queues
    <3> QED  BY <2>1, <3>1, GoToKInv, Zenon DEF Busy
  <2> QED  BY <2>2, <2>3, Zenon
<1>3. CASE GetLocal(h)
  <2> DEFINE x == index[h]  q == deques_[x]
  <2>1. /\ tpc[h] = "deque" /\ UNCHANGED <<global_queue_, private_queues_>> /\ x \in Indices
        /\ UNCHANGED <<nested, caller, submitted, settled, active_tasks_>>
    BY <1>0, <1>3, Zenon DEF GetLocal, poolUnchanged
  <2>2. CASE q # <<>>
    <3>1. Take(h, q[Len(q)]) /\ deques_' = [deques_ EXCEPT ![x] = SubSeq(q, 1, Len(q) - 1)]
      BY <1>3, <2>2, Zenon DEF GetLocal
    <3>2. /\ q[Len(q)] \in InQ(q) /\ Once(SubSeq(q, 1, Len(q) - 1))
          /\ InQ(SubSeq(q, 1, Len(q) - 1)) = InQ(q) \ {q[Len(q)]}
      BY <1>q, <2>1, <2>2, QueueLast, Zenon
    <3>3. OnceInv' /\ q[Len(q)] \in Holds[<<"deque", x>>] /\ QueuesMinus(<<"deque", x>>, q[Len(q)])
      BY <2>1, <2>2, <3>1, <3>2, TakeDeque, Zenon
    <3>4. <<"deque", x>> \in QueueKinds
      BY <2>1, Zenon DEF QueueKinds
    <3> QED  BY <2>1, <3>1, <3>3, <3>4, TakeKInv, ZenonT(40) DEF Busy
  <2>3. CASE q = <<>>
    <3>1. GoTo(h, "global") /\ UNCHANGED queues
      BY <1>3, <2>1, <2>3, Zenon DEF GetLocal, queues
    <3> QED  BY <2>1, <3>1, GoToKInv, Zenon DEF Busy
  <2> QED  BY <2>2, <2>3, Zenon
<1>4. CASE StealFrom(h)
  <2> DEFINE x == (index[h] + 1 + scan[h]) % pool_size_  q == deques_[x]
  <2>1. /\ tpc[h] = "steal" /\ UNCHANGED <<global_queue_, private_queues_>> /\ index[h] \in Indices
        /\ UNCHANGED <<nested, caller, submitted, settled, active_tasks_>>
    BY <1>0, <1>4, Zenon DEF StealFrom, poolUnchanged
  <2>2. CASE scan[h] < pool_size_ /\ x # index[h] /\ q # <<>>
    <3>0. x \in Indices
      BY <2>1, StealTarget, Zenon DEF KInv
    <3>1. Take(h, Head(q)) /\ deques_' = [deques_ EXCEPT ![x] = Tail(q)]
      <4>1. scan[h] \in Int /\ pool_size_ \in Int
        BY SMTT(40) DEF KInv, PInv, WorkerType, ShapeType
      <4>2. ~(scan[h] >= pool_size_)
        BY <2>2, <4>1, SMTT(40)
      <4> QED  BY <1>4, <2>2, <4>2, ZenonT(40) DEF StealFrom
    <3>2. Head(q) \in InQ(q) /\ Once(Tail(q)) /\ InQ(Tail(q)) = InQ(q) \ {Head(q)}
      BY <1>q, <2>2, <3>0, QueueHead, Zenon
    <3> HIDE DEF x
    <3>3. OnceInv' /\ Head(q) \in Holds[<<"deque", x>>] /\ QueuesMinus(<<"deque", x>>, Head(q))
      BY <2>1, <2>2, <3>0, <3>1, <3>2, TakeDeque, ZenonT(40)
    <3>4. <<"deque", x>> \in QueueKinds
      BY <3>0, Zenon DEF QueueKinds
    <3> QED  BY <2>1, <3>1, <3>3, <3>4, TakeKInv, ZenonT(40) DEF Busy
  <2>3. CASE ~(scan[h] < pool_size_ /\ x # index[h] /\ q # <<>>)
    <3>1. scan[h] \in Int /\ pool_size_ \in Int
      BY DEF KInv, PInv, WorkerType, ShapeType
    <3>2. scan[h] >= pool_size_ \/ ~(x # index[h] /\ q # <<>>)
      <4>1. scan[h] >= pool_size_ \/ scan[h] < pool_size_
        BY <3>1
      <4> QED  BY <2>3, <4>1, Zenon
    <3>3. (GoTo(h, "lock") \/ GoTo(h, "steal")) /\ UNCHANGED deques_
      BY <1>4, <3>2, Zenon DEF StealFrom
    <3>4. UNCHANGED queues
      BY <2>1, <3>3, Zenon DEF queues
    <3> QED  BY <2>1, <3>3, <3>4, GoToKInv, Zenon DEF Busy
  <2> QED  BY <2>2, <2>3, Zenon
<1> QED  BY <1>1, <1>2, <1>3, <1>4, Zenon

------------------------------------------------------------------------------
(* The other steps of GetTask, and a wake-up that nobody notified.          *)
LEMMA IdleKInv ==
    ASSUME KInv, PInv', NEW h \in Threads,
           \/ CheckTerminated(h) \/ LockPool(h) \/ HasWork(h) \/ GoToSleep(h) \/ WakeUp(h)
           \/ SpuriousWakeUp(h)
    PROVE  KInv'
<1>0. SInv
  BY Zenon DEF KInv, PInv
<1>1. CASE CheckTerminated(h)
  <2>1. /\ tpc[h] = "loop" /\ (GoTo(h, "exited") \/ GoTo(h, "private"))
        /\ UNCHANGED <<queues, nested, caller, submitted, settled, active_tasks_>>
    BY <1>1, Zenon DEF CheckTerminated, poolUnchanged
  <2> QED  BY <2>1, GoToKInv, Zenon DEF Busy
<1>2. CASE LockPool(h)
  <2>1. /\ tpc[h] = "lock" /\ (GoTo(h, "exited") \/ GoTo(h, "workPrivate"))
        /\ UNCHANGED <<queues, nested, caller, submitted, settled, active_tasks_>>
    BY <1>2, Zenon DEF LockPool
  <2> QED  BY <2>1, GoToKInv, Zenon DEF Busy
<1>3. CASE HasWork(h)
  <2>1. /\ tpc[h] \in {"workPrivate", "workGlobal", "workDeques"}
        /\ \/ GoTo(h, "loop") \/ GoTo(h, "workGlobal") \/ GoTo(h, "workDeques") \/ GoTo(h, "sleep")
        /\ UNCHANGED <<queues, nested, caller, submitted, settled, active_tasks_>>
    BY <1>3, Zenon DEF HasWork
  <2> QED  BY <2>1, GoToKInv, Zenon DEF Busy
<1>4. CASE GoToSleep(h)
  <2>1. /\ tpc[h] \in {"sleep", "wait"} /\ (GoTo(h, "wait") \/ GoTo(h, "waiting"))
        /\ UNCHANGED <<queues, nested, caller, submitted, settled, active_tasks_>>
    BY <1>4, Zenon DEF GoToSleep
  <2> QED  BY <2>1, GoToKInv, Zenon DEF Busy
<1>5. CASE WakeUp(h)
  <2>1. /\ tpc[h] = "woken" /\ GoTo(h, "loop")
        /\ UNCHANGED <<queues, nested, caller, submitted, settled, active_tasks_>>
    BY <1>5, Zenon DEF WakeUp
  <2> QED  BY <2>1, GoToKInv, Zenon DEF Busy
<1>6. CASE SpuriousWakeUp(h)
  <2>1. /\ tpc[h] = "waiting" /\ GoTo(h, "woken")
        /\ UNCHANGED <<queues, nested, caller, submitted, settled, active_tasks_>>
    BY <1>0, <1>6, Zenon DEF SpuriousWakeUp, SInv
  <2> QED  BY <2>1, GoToKInv, Zenon DEF Busy
<1> QED  BY <1>1, <1>2, <1>3, <1>4, <1>5, <1>6, Zenon

(* ExecuteTask, the wait for a promise, and the end of a task.              *)
LEMMA SettleKInv ==
    ASSUME KInv, PInv', NEW h \in Threads, tpc[h] \in {"run", "await"}, Settle(cur[h]),
           tpc' = [tpc EXCEPT ![h] = "finish"],
           UNCHANGED <<queues, cur, nested, caller, active_tasks_, submitted>>
    PROVE  KInv'
<1> DEFINE k == cur[h]
<1>1. /\ tpc \in [Threads -> Labels] /\ cur \in [Threads -> Tasks \cup {None}]
      /\ k # None /\ k \in Tasks
  BY DEF KInv, PInv, SInv, WorkerType, BusyInv
<1>2. \A g \in Threads : cur[g] = k => g = h
  <2>1. ASSUME NEW g \in Threads, cur[g] = k PROVE g = h
    <3>1. k \in Holds[<<"cur", g>>] /\ k \in Holds[<<"cur", h>>]
      BY <1>1, <2>1, HoldsAt, Zenon DEF Held
    <3>2. <<"cur", g>> = <<"cur", h>>
      BY <1>1, <3>1, Kinds, ZenonT(40) DEF KInv, Unique
    <3> QED  BY <3>2, Zenon
  <2> QED  BY <2>1, Zenon
<1>3. k \in Pending \ Finished
  <2>1. k \in Pending
    BY <1>1, HoldsAt, Kinds, Zenon DEF Pending, TasksOf, Held
  <2>2. k \notin Finished
    BY <1>2, Zenon DEF Finished
  <2> QED  BY <2>1, <2>2, Zenon
<1>4. Finished' = Finished \cup {k}
  BY <1>1, <1>2, Zenon DEF Finished
<1>5. BusyInv'
  BY <1>1, Zenon DEF KInv, BusyInv
<1>6. settled' = [settled EXCEPT ![k] = settled[k] + 1]
  BY Zenon DEF Settle
<1> HIDE DEF k
<1> QED  BY <1>1, <1>3, <1>4, <1>5, <1>6, Completed, Zenon DEF caller

(* The one slot of a worker that held a task becomes free.                  *)
LEMMA FreeSlot ==
    ASSUME KInv, NEW h \in Threads, NEW k \in Tasks, UNCHANGED <<queues, cpc, ctask>>,
           NEW l, \/ l = <<"cur", h>> /\ cur[h] = k /\ cur' = [cur EXCEPT ![h] = None] /\ nested' = nested
                  \/ l = <<"nested", h>> /\ nested[h] = k /\ nested' = [nested EXCEPT ![h] = None] /\ cur' = cur
    PROVE  l \in Locations /\ k \in Holds[l] /\ Holds' = [Holds EXCEPT ![l] = Holds[l] \ {k}]
<1>1. l \in Locations /\ k \in Holds[l]
  BY HoldsAt, Kinds, Zenon DEF Held
<1> DEFINE G == [Holds EXCEPT ![l] = Holds[l] \ {k}]
<1>2. G \in [Locations -> SUBSET Tasks] /\ \A x \in Locations : G[x] = Minus(x, l, k)
  BY <1>1, HoldsAt, Zenon DEF Minus
<1> HIDE DEF G
<1>3. l[1] \in {"cur", "nested"}
  OBVIOUS
<1>4. G[<<"global", 0>>] = InQ(global_queue_')
  BY <1>2, <1>3, Kinds, HoldsAt DEF Minus, queues
<1>5. ASSUME NEW i \in Indices
      PROVE  G[<<"private", i>>] = InQ(private_queues_'[i]) /\ G[<<"deque", i>>] = InQ(deques_'[i])
  <2>1. <<"private", i>>[1] = "private" /\ <<"deque", i>>[1] = "deque"
    BY Zenon
  <2>2. <<"private", i>> # l /\ <<"deque", i>> # l
    BY <1>3, <2>1, Zenon
  <2> QED  BY <1>2, <2>2, Kinds, HoldsAt, Zenon DEF Minus, queues
<1>6. cur \in [Threads -> Tasks \cup {None}] /\ nested \in [Threads -> Tasks \cup {None}]
      /\ None \notin Tasks
  BY PoolAssumption, Zenon DEF KInv, PInv, WorkerType
<1>7. ASSUME NEW g \in Threads
      PROVE  G[<<"cur", g>>] = Held(cur', g) /\ G[<<"nested", g>>] = Held(nested', g)
  <2>1. /\ G[<<"cur", g>>] = IF <<"cur", g>> = l THEN Held(cur, g) \ {k} ELSE Held(cur, g)
        /\ G[<<"nested", g>>] = IF <<"nested", g>> = l THEN Held(nested, g) \ {k} ELSE Held(nested, g)
    BY <1>2, Kinds, HoldsAt, ZenonT(40) DEF Minus
  <2>2. CASE l = <<"cur", h>> /\ cur[h] = k /\ cur' = [cur EXCEPT ![h] = None] /\ nested' = nested
    <3>1. <<"nested", g>> # l /\ (<<"cur", g>> = l <=> g = h)
      BY <2>2, Zenon
    <3>2. Held(cur', g) = IF g = h THEN Held(cur, g) \ {k} ELSE Held(cur, g)
      BY <1>6, <2>2, Zenon DEF Held
    <3> QED  BY <2>1, <2>2, <3>1, <3>2, ZenonT(40)
  <2>3. CASE l = <<"nested", h>> /\ nested[h] = k /\ nested' = [nested EXCEPT ![h] = None] /\ cur' = cur
    <3>1. <<"cur", g>> # l /\ (<<"nested", g>> = l <=> g = h)
      BY <2>3, Zenon
    <3>2. Held(nested', g) = IF g = h THEN Held(nested, g) \ {k} ELSE Held(nested, g)
      BY <1>6, <2>3, Zenon DEF Held
    <3> QED  BY <2>1, <2>3, <3>1, <3>2, Zenon
  <2> QED  BY <2>2, <2>3, Zenon
<1>8. ASSUME NEW c \in Callers PROVE G[<<"push", c>>] = Pushed(c)'
  <2>1. <<"push", c>>[1] = "push"
    BY Zenon
  <2>2. <<"push", c>> # l
    BY <1>3, <2>1, Zenon
  <2> QED  BY <1>2, <2>2, Kinds, HoldsAt, Zenon DEF Minus, Pushed
<1> QED  BY <1>1, <1>2, <1>4, <1>5, <1>7, <1>8, HoldsNext, ZenonT(40) DEF G

(* A worker lets a completed task go.                                       *)
LEMMA LetGoKInv ==
    ASSUME KInv, PInv', NEW h \in Threads, RunNested(h) \/ FinishTask(h)
    PROVE  KInv'
<1>1. /\ tpc \in [Threads -> Labels] /\ cur \in [Threads -> Tasks \cup {None}]
      /\ nested \in [Threads -> Tasks \cup {None}] /\ settled \in [Tasks -> Nat] /\ None \notin Tasks
  BY PoolAssumption, Zenon DEF KInv, PInv, SInv, WorkerType, HistoryType
<1>o. UNCHANGED queues => OnceInv'
  BY Zenon DEF KInv, OnceInv, queues
<1>2. CASE RunNested(h)
  <2> DEFINE k == nested[h]
  <2>1. /\ tpc[h] = "nested" /\ settled' = [settled EXCEPT ![k] = settled[k] + 1]
        /\ active_tasks_' = active_tasks_ - 1 /\ nested' = [nested EXCEPT ![h] = None]
        /\ tpc' = [tpc EXCEPT ![h] = "await"] /\ UNCHANGED <<queues, cur, cpc, ctask, submitted>>
    BY <1>2, Zenon DEF RunNested, Settle, execUnchanged, caller, queues
  <2>2. k \in Tasks /\ nested[h] = k
    BY <1>1, <2>1, Zenon DEF KInv, BusyInv
  <2> HIDE DEF k
  <2>3. /\ <<"nested", h>> \in Locations /\ k \in Holds[<<"nested", h>>]
        /\ Holds' = [Holds EXCEPT ![<<"nested", h>>] = Holds[<<"nested", h>>] \ {k}]
    BY <2>1, <2>2, FreeSlot, ZenonT(40)
  <2>4. k \notin Finished
    <3>1. ASSUME NEW g \in Threads, cur[g] = k PROVE FALSE
      <4>1. k \in Holds[<<"cur", g>>] /\ <<"cur", g>> \in Locations
        BY <2>2, <3>1, HoldsAt, Kinds, ZenonT(40) DEF Held
      <4>2. <<"cur", g>> = <<"nested", h>>
        BY <2>2, <2>3, <4>1, Zenon DEF KInv, Unique
      <4> QED  BY <4>2, Zenon
    <3> QED  BY <3>1, Zenon DEF Finished
  <2>5. Finished' = Finished \ {k}
    BY <1>1, <2>1, <2>4, Zenon DEF Finished
  <2>6. BusyInv'
    BY <1>1, <2>1, Zenon DEF KInv, BusyInv
  <2>7. settled'[k] = 1 /\ \A j \in Tasks \ {k} : settled'[j] = settled[j]
    <3>1. k \in Pending
      BY <2>2, <2>3, Zenon DEF Pending, TasksOf
    <3>2. settled[k] = 0
      BY <2>2, <2>4, <3>1, Zenon DEF KInv, SettledInv
    <3> QED  BY <1>1, <2>1, <2>2, <3>2, SMTT(40)
  <2>8. Gone => Gone'
    BY <2>1, Zenon DEF Gone
  <2> QED  BY <1>o, <2>1, <2>3, <2>5, <2>6, <2>7, <2>8, Left, ZenonT(40)
<1>3. CASE FinishTask(h)
  <2> DEFINE k == cur[h]
  <2>1. /\ tpc[h] = "finish" /\ UNCHANGED <<queues, nested, cpc, ctask, submitted, settled>>
        /\ active_tasks_' = active_tasks_ - 1 /\ cur' = [cur EXCEPT ![h] = None]
        /\ tpc' = [tpc EXCEPT ![h] = "loop"]
    BY <1>3, Zenon DEF FinishTask, caller, history
  <2>2. k \in Tasks /\ cur[h] = k
    BY <1>1, <2>1, Zenon DEF KInv, BusyInv
  <2> HIDE DEF k
  <2>3. /\ <<"cur", h>> \in Locations /\ k \in Holds[<<"cur", h>>]
        /\ Holds' = [Holds EXCEPT ![<<"cur", h>>] = Holds[<<"cur", h>>] \ {k}]
    BY <2>1, <2>2, FreeSlot, Zenon
  <2>4. \A g \in Threads : cur[g] = k => g = h
    <3>1. ASSUME NEW g \in Threads, cur[g] = k PROVE g = h
      <4>1. k \in Holds[<<"cur", g>>] /\ <<"cur", g>> \in Locations
        BY <2>2, <3>1, HoldsAt, Kinds, ZenonT(40) DEF Held
      <4>2. <<"cur", g>> = <<"cur", h>>
        BY <2>2, <2>3, <4>1, Zenon DEF KInv, Unique
      <4> QED  BY <4>2, Zenon
    <3> QED  BY <3>1, Zenon
  <2>5. Finished' = Finished \ {k}
    BY <1>1, <2>1, <2>2, <2>4, Zenon DEF Finished
  <2>6. BusyInv'
    BY <1>1, <2>1, Zenon DEF KInv, BusyInv
  <2>7. settled'[k] = 1 /\ \A j \in Tasks \ {k} : settled'[j] = settled[j]
    <3>1. k \in Pending /\ k \in Finished
      BY <2>1, <2>2, <2>3, Zenon DEF Pending, TasksOf, Finished
    <3>2. settled[k] = 1
      BY <2>2, <3>1, Zenon DEF KInv, SettledInv
    <3> QED  BY <2>1, <3>2, Zenon
  <2>8. Gone => Gone'
    BY <2>1, Zenon DEF Gone
  <2> QED  BY <1>o, <2>1, <2>3, <2>5, <2>6, <2>7, <2>8, Left, ZenonT(40)
<1> QED  BY <1>2, <1>3, Zenon

LEMMA RunKInv ==
    ASSUME KInv, PInv', NEW h \in Threads, RunTask(h) \/ PromiseSettled(h)
    PROVE  KInv'
<1>1. /\ tpc \in [Threads -> Labels] /\ cur \in [Threads -> Tasks \cup {None}]
      /\ nested \in [Threads -> Tasks \cup {None}] /\ None \notin Tasks
  BY PoolAssumption, Zenon DEF KInv, PInv, SInv, WorkerType
<1>2. CASE ExecuteTask(h)
  <2>1. tpc[h] = "run" /\ UNCHANGED <<queues, cur, nested, caller, active_tasks_, submitted>>
    BY <1>2, Zenon DEF ExecuteTask, execUnchanged, queues
  <2>2. CASE Settle(cur[h]) /\ tpc' = [tpc EXCEPT ![h] = "finish"]
    BY <2>1, <2>2, SettleKInv, ZenonT(40)
  <2>3. CASE tpc' = [tpc EXCEPT ![h] = "await"] /\ UNCHANGED settled
    <3>1. BusyInv' /\ Finished' = Finished
      BY <1>1, <2>1, <2>3, ZenonT(40) DEF KInv, BusyInv, Finished
    <3>2. (\A c \in Callers : Pushed(c)' = Pushed(c)) /\ (Gone => Gone')
      BY <2>1, Zenon DEF Pushed, Gone, caller
    <3> QED  BY <2>1, <2>3, <3>1, <3>2, Quietly, ZenonT(40)
  <2> QED  BY <1>2, <2>2, <2>3, ZenonT(40) DEF ExecuteTask
<1>3. CASE PromiseSettled(h)
  BY <1>3, SettleKInv, ZenonT(40) DEF PromiseSettled, execUnchanged, queues
<1>4. CASE AwaitPop(h)
  <2> DEFINE x == index[h]  q == private_queues_[x]
  <2>1. /\ tpc[h] = "await" /\ q # <<>> /\ nested' = [nested EXCEPT ![h] = Head(q)]
        /\ private_queues_' = [private_queues_ EXCEPT ![x] = Tail(private_queues_[x])]
        /\ tpc' = [tpc EXCEPT ![h] = "nested"]
        /\ UNCHANGED <<global_queue_, deques_, cur, cpc, ctask, active_tasks_, submitted, settled>>
    BY <1>4, Zenon DEF AwaitPop, execUnchanged, caller
  <2>2. x \in Indices
    BY <2>1, Zenon DEF KInv, PInv, IndexInv
  <2>3. OnceInv' /\ Head(q) \in Holds[<<"private", x>>] /\ QueuesMinus(<<"private", x>>, Head(q))
    BY <2>1, <2>2, TakePrivate, ZenonT(40)
  <2>4. <<"private", x>> \in QueueKinds
    BY <2>2, Zenon DEF QueueKinds
  <2>5. nested[h] = None
    BY <2>1, Zenon DEF KInv, BusyInv
  <2>6. /\ <<"nested", h>> \in Locations /\ <<"private", x>> \in Locations
        /\ <<"private", x>> # <<"nested", h>>
        /\ Holds' = Shifted(Holds, Head(q), <<"private", x>>, <<"nested", h>>)
    BY <2>1, <2>3, <2>4, <2>5, TakeMoves, ZenonT(40)
  <2>7. Head(q) \in Tasks
    BY <2>3, <2>6, HoldsAt, ZenonT(40)
  <2>8. BusyInv' /\ Finished' = Finished
    <3>1. BusyInv'
      BY <1>1, <2>1, <2>7, Zenon DEF KInv, BusyInv
    <3>2. Finished' = Finished
      BY <1>1, <2>1, Zenon DEF Finished
    <3> QED  BY <3>1, <3>2, Zenon
  <2>9. Gone => Gone'
    BY <2>1, Zenon DEF Gone
  <2> QED  BY <2>1, <2>3, <2>6, <2>8, <2>9, Moved, ZenonT(40)
<1> QED  BY <1>2, <1>3, <1>4, LetGoKInv, Zenon DEF RunTask

------------------------------------------------------------------------------
(* A call that pushes to the queue of a worker has an index, and only a     *)
(* client tears the pool down.                                              *)
CallsInv ==
    \A c \in Callers :
      /\ cpc[c] \in {"SubmitFromWorker", "SubmitToWorker"} => cdest[c] \in Indices
      /\ cpc[c] \in {"terminate", "joinAll", "drain"} => c \in Clients

LEMMA NextCallsInv ==
    ASSUME PInv, CallsInv, [Next]_vars
    PROVE  CallsInv'
<1>0. cpc = [c \in Callers |-> cpc[c]] /\ cdest = [c \in Callers |-> cdest[c]]
  BY Zenon DEF PInv, CallerType
<1>1. ASSUME NEW c \in Callers, NEW k \in Tasks, NEW op \in Submitting, NEW d, BeginCall(c, k, op, d),
             op # "Submit" => d \in Indices
      PROVE  CallsInv'
  BY <1>0, <1>1, Zenon DEF BeginCall, CallsInv, Submitting
<1>2. ASSUME NEW c \in Callers, NEW k \in Tasks, Submit(c, k) PROVE CallsInv'
  BY <1>1, <1>2, Zenon DEF Submit, Submitting
<1>3. ASSUME NEW c \in Callers, NEW k \in Tasks, SubmitFromWorker(c, k) PROVE CallsInv'
  <2>1. c \in Threads /\ BeginCall(c, k, "SubmitFromWorker", index[c])
    BY <1>3, Zenon DEF SubmitFromWorker
  <2>2. tpc[c] # "unborn"
    BY <2>1, PoolAssumption, Zenon DEF BeginCall, CanCall
  <2> QED  BY <1>1, <2>1, <2>2, Zenon DEF PInv, IndexInv, Submitting
<1>4. ASSUME NEW c \in Callers, NEW k \in Tasks, NEW h \in Threads, SubmitToWorker(c, k, h)
      PROVE  CallsInv'
  <2>1. BeginCall(c, k, "SubmitToWorker", index[h]) /\ \E j \in Tasks : ranOn[j] = h
    BY <1>4, Zenon DEF SubmitToWorker
  <2>2. index[h] \in Indices
    BY <2>1, PoolAssumption, Zenon DEF PInv, IndexInv, RanInv, Callers
  <2> QED  BY <1>1, <2>1, <2>2, Zenon DEF Submitting
<1>5. ASSUME NEW c \in Callers, NEW b, cpc' = [cpc EXCEPT ![c] = b],
             b \notin {"SubmitFromWorker", "SubmitToWorker"},
             b \in {"terminate", "joinAll", "drain"} => c \in Clients,
             cdest' = cdest \/ cdest' = [cdest EXCEPT ![c] = -1]
      PROVE  CallsInv'
  BY <1>0, <1>5, Zenon DEF CallsInv
<1>6. ASSUME NEW c \in Callers, CallerStep(c) \/ Terminate(c) PROVE CallsInv'
  <2>1. CASE PushTask(c)
    <3>1. /\ cdest' = cdest
          /\ cpc' = [cpc EXCEPT ![c] = "checkOne"] \/ cpc' = [cpc EXCEPT ![c] = "checkAll"]
      BY <2>1, Zenon DEF PushTask
    <3> QED  BY <1>5, <3>1, Zenon
  <2>2. CASE CheckSleepers(c)
    BY <1>5, <2>2, ZenonT(40) DEF CheckSleepers, EndCall
  <2>3. CASE Notify(c)
    <3>1. cpc' = [cpc EXCEPT ![c] = "none"] /\ cdest' = [cdest EXCEPT ![c] = -1]
      BY <2>3 DEF Notify, EndCall
    <3> QED  BY <1>5, <3>1, Zenon
  <2>4. CASE JoinExcess(c)
    BY <1>5, <2>4, ZenonT(40) DEF JoinExcess
  <2>5. CASE TerminateNotify(c)
    BY <1>5, <2>5 DEF TerminateNotify, CallsInv
  <2>6. CASE JoinAll(c)
    BY <1>5, <2>6 DEF JoinAll, CallsInv
  <2>7. CASE Drain(c)
    <3>1. cpc' = [cpc EXCEPT ![c] = "gone"] /\ cdest' = cdest
      BY <2>7, Zenon DEF Drain
    <3> QED  BY <1>5, <3>1, Zenon
  <2>8. CASE Terminate(c)
    BY <1>5, <2>8, Zenon DEF Terminate
  <2> QED  BY <1>6, <2>1, <2>2, <2>3, <2>4, <2>5, <2>6, <2>7, <2>8, ZenonT(40) DEF CallerStep
<1>7. ASSUME NEW c \in Callers, NEW n \in 1..MaxPool, Resize(c, n) PROVE CallsInv'
  <2>1. (cpc' = cpc \/ cpc' = [cpc EXCEPT ![c] = "join"]) /\ cdest' = cdest
    BY <1>7, Zenon DEF Resize
  <2> QED  BY <1>5, <2>1, ZenonT(40) DEF CallsInv
<1>8. ASSUME UNCHANGED <<cpc, cdest>> PROVE CallsInv'
  BY <1>8, Zenon DEF CallsInv
<1>9. ASSUME NEW h \in Threads, GetTask(h) \/ RunTask(h) \/ SpuriousWakeUp(h) \/ PromiseSettled(h)
      PROVE  UNCHANGED <<cpc, cdest>>
  <2>1. ASSUME GetTask(h) \/ SpuriousWakeUp(h) PROVE UNCHANGED <<cpc, cdest>>
    BY <2>1, ZenonT(40) DEF GetTask, CheckTerminated, GetPrivate, GetLocal, GetGlobal, StealFrom, LockPool, HasWork,
                GoToSleep, WakeUp, SpuriousWakeUp, poolUnchanged, caller
  <2>2. ASSUME RunTask(h) \/ PromiseSettled(h) PROVE UNCHANGED <<cpc, cdest>>
    BY <2>2, Zenon DEF RunTask, ExecuteTask, AwaitPop, RunNested, FinishTask, PromiseSettled, execUnchanged, caller
  <2> QED  BY <1>9, <2>1, <2>2, ZenonT(40)
<1>10. CASE UNCHANGED vars
  BY <1>8, <1>10, Zenon DEF vars, caller
<1> QED  BY <1>2, <1>3, <1>4, <1>6, <1>7, <1>8, <1>9, <1>10, Zenon DEF Next

(* IncrementActiveTasks.                                                    *)
LEMMA BeginKInv ==
    ASSUME KInv, PInv', NEW c \in Callers, NEW k \in Tasks, NEW op \in Submitting, NEW d,
           BeginCall(c, k, op, d)
    PROVE  KInv'
<1>1. /\ cpc[c] = "none" /\ k \notin submitted /\ submitted' = submitted \cup {k}
      /\ active_tasks_' = active_tasks_ + 1 /\ cpc' = [cpc EXCEPT ![c] = op]
      /\ ctask' = [ctask EXCEPT ![c] = k]
      /\ UNCHANGED <<global_queue_, private_queues_, deques_, tpc, cur, nested, settled>>
  BY DEF BeginCall, CanCall, queues, worker
<1>2. cpc = [b \in Callers |-> cpc[b]] /\ ctask = [b \in Callers |-> ctask[b]]
  BY Zenon DEF KInv, PInv, CallerType
<1>3. BusyInv' /\ OnceInv' /\ Finished' = Finished
  BY <1>1, ZenonT(40) DEF KInv, BusyInv, OnceInv, Finished
<1>4. Gone => Gone'
  BY <1>1, <1>2, SMTT(40) DEF Gone
<1> DEFINE m == <<"push", c>>  G == [Holds EXCEPT ![m] = Holds[m] \cup {k}]
<1>5. m \in Locations /\ G \in [Locations -> SUBSET Tasks]
      /\ \A x \in Locations : G[x] = IF x = m THEN Holds[x] \cup {k} ELSE Holds[x]
  BY HoldsAt, Kinds, Zenon
<1>6. Holds' = G
  <2> HIDE DEF G
  <2>1. G[<<"global", 0>>] = InQ(global_queue_')
    BY <1>1, <1>5, HoldsAt, Kinds, ZenonT(40)
  <2>2. ASSUME NEW i \in Indices
        PROVE  G[<<"private", i>>] = InQ(private_queues_'[i]) /\ G[<<"deque", i>>] = InQ(deques_'[i])
    BY <1>1, <1>5, HoldsAt, Kinds, ZenonT(40)
  <2>3. ASSUME NEW g \in Threads
        PROVE  G[<<"cur", g>>] = Held(cur', g) /\ G[<<"nested", g>>] = Held(nested', g)
    BY <1>1, <1>5, HoldsAt, Kinds, ZenonT(40)
  <2>4. ASSUME NEW b \in Callers PROVE G[<<"push", b>>] = Pushed(b)'
    <3>1. G[<<"push", b>>] = IF b = c THEN Pushed(b) \cup {k} ELSE Pushed(b)
      BY <1>5, HoldsAt, Kinds, ZenonT(40)
    <3>2. Pushed(b)' = IF b = c THEN {k} ELSE Pushed(b)
      BY <1>1, <1>2, Zenon DEF Pushed
    <3>3. Pushed(c) = {}
      BY <1>1, Zenon DEF Pushed, Submitting
    <3> QED  BY <3>1, <3>2, <3>3, ZenonT(40)
  <2> QED  BY <1>5, <2>1, <2>2, <2>3, <2>4, HoldsNext, Zenon
<1> QED  BY <1>1, <1>3, <1>4, <1>5, <1>6, Entered, Zenon

(* The push: task k goes from its caller to the queue at location m.        *)
QueuesPlus(m, k) ==
    /\ InQ(global_queue_') = IF m = <<"global", 0>> THEN InQ(global_queue_) \cup {k} ELSE InQ(global_queue_)
    /\ \A i \in Indices :
         /\ InQ(private_queues_'[i]) = IF m = <<"private", i>> THEN InQ(private_queues_[i]) \cup {k}
                                                              ELSE InQ(private_queues_[i])
         /\ InQ(deques_'[i]) = IF m = <<"deque", i>> THEN InQ(deques_[i]) \cup {k} ELSE InQ(deques_[i])

LEMMA PushMoves ==
    ASSUME KInv, PInv', NEW c \in Callers, cpc[c] \in Submitting, NEW m \in QueueKinds,
           QueuesPlus(m, ctask[c]), OnceInv', NEW b, b \notin Submitting \cup {"gone"},
           cpc' = [cpc EXCEPT ![c] = b],
           UNCHANGED <<ctask, tpc, cur, nested, active_tasks_, submitted, settled>>
    PROVE  KInv'
<1> DEFINE k == ctask[c]  l == <<"push", c>>  G == Shifted(Holds, k, l, m)
<1>1. k \in Tasks /\ cpc = [d \in Callers |-> cpc[d]]
  BY Zenon DEF KInv, PInv, CallInv, CallerType, Submitting
<1>2. l \in Locations /\ m \in Locations /\ k \in Holds[l]
  BY <1>1, HoldsAt, Kinds, Zenon DEF Pushed, QueueKinds, Locations
<1>3. m[1] \in {"global", "private", "deque"} /\ l # m
  BY SMTT(40) DEF QueueKinds
<1>4. /\ G \in [Locations -> SUBSET Tasks]
      /\ \A x \in Locations : G[x] = IF x = m THEN Holds[x] \cup {k} ELSE Minus(x, l, k)
  BY <1>1, <1>2, HoldsAt, ZenonT(40) DEF Shifted, Minus
<1> HIDE DEF G, k
<1>5. G[<<"global", 0>>] = InQ(global_queue_')
  BY <1>4, HoldsAt, Kinds, Zenon DEF QueuesPlus, Minus, k
<1>6. ASSUME NEW i \in Indices
      PROVE  G[<<"private", i>>] = InQ(private_queues_'[i]) /\ G[<<"deque", i>>] = InQ(deques_'[i])
  <2>1. <<"private", i>> # l /\ <<"deque", i>> # l
    BY Zenon
  <2> QED  BY <1>4, <2>1, HoldsAt, Kinds, ZenonT(40) DEF QueuesPlus, Minus, k
<1>7. ASSUME NEW g \in Threads
      PROVE  G[<<"cur", g>>] = Held(cur', g) /\ G[<<"nested", g>>] = Held(nested', g)
  <2>1. <<"cur", g>>[1] = "cur" /\ <<"nested", g>>[1] = "nested"
    BY Zenon
  <2>2. <<"cur", g>> # l /\ <<"nested", g>> # l /\ <<"cur", g>> # m /\ <<"nested", g>> # m
    BY <1>3, <2>1, Zenon
  <2> QED  BY <1>4, <2>2, HoldsAt, Kinds, ZenonT(40) DEF Minus
<1>8. ASSUME NEW d \in Callers PROVE G[<<"push", d>>] = Pushed(d)'
  <2>1. <<"push", d>>[1] = "push"
    BY Zenon
  <2>2. <<"push", d>> # m /\ (<<"push", d>> = l <=> d = c)
    BY <1>3, <2>1, Zenon
  <2>3. G[<<"push", d>>] = IF d = c THEN Pushed(d) \ {k} ELSE Pushed(d)
    BY <1>4, <2>2, HoldsAt, Kinds, ZenonT(40) DEF Minus
  <2>4. Pushed(d)' = IF d = c THEN {} ELSE Pushed(d)
    BY <1>1, Zenon DEF Pushed
  <2>5. Pushed(c) \ {k} = {}
    BY Zenon DEF Pushed, k
  <2> QED  BY <2>3, <2>4, <2>5, Zenon
<1>9. Holds' = G
  BY <1>4, <1>5, <1>6, <1>7, <1>8, HoldsNext, ZenonT(40)
<1>10. BusyInv' /\ Finished' = Finished
  BY Zenon DEF KInv, BusyInv, Finished
<1>11. Gone => Gone'
  BY <1>1, SMTT(40) DEF Gone, Submitting
<1> QED  BY <1>2, <1>3, <1>9, <1>10, <1>11, Moved, ZenonT(40) DEF G

LEMMA PushKInv ==
    ASSUME KInv, CallsInv, PInv', NEW c \in Callers, PushTask(c)
    PROVE  KInv'
<1> DEFINE k == ctask[c]  i == cdest[c]
<1>1. /\ cpc[c] \in Submitting
      /\ cpc' = [cpc EXCEPT ![c] = "checkOne"] \/ cpc' = [cpc EXCEPT ![c] = "checkAll"]
      /\ UNCHANGED <<ctask, tpc, cur, nested, active_tasks_, submitted, settled>>
  BY Zenon DEF PushTask, Submitting, worker, history
<1>2. k \in Tasks
  BY <1>1, Zenon DEF KInv, PInv, CallInv, Submitting
<1>3. QueueType /\ OnceInv
  BY DEF KInv, PInv
<1>4. ASSUME NEW m \in QueueKinds, QueuesPlus(m, ctask[c]), OnceInv' PROVE KInv'
  BY <1>1, <1>4, PushMoves, Zenon DEF Submitting
<1>5. \A l \in Locations : k \in Holds[l] => l = <<"push", c>>
  <2>1. k \in Holds[<<"push", c>>]
    BY <1>1, <1>2, HoldsAt, Zenon DEF Pushed
  <2> QED  BY <1>2, <2>1, Kinds, Zenon DEF KInv, Unique
<1>6. k \notin InQ(global_queue_)
  BY <1>5, HoldsAt, Kinds, ZenonT(40)
<1>7. \A j \in Indices : k \notin InQ(private_queues_[j]) /\ k \notin InQ(deques_[j])
  BY <1>5, HoldsAt, Kinds, ZenonT(40)
<1>8. CASE /\ global_queue_' = Append(global_queue_, k) /\ UNCHANGED <<private_queues_, deques_>>
  <2>1. Once(Append(global_queue_, k)) /\ InQ(Append(global_queue_, k)) = InQ(global_queue_) \cup {k}
    BY <1>2, <1>3, <1>6, QueueAppend, Zenon DEF QueueType, OnceInv
  <2>2. OnceInv' /\ QueuesPlus(<<"global", 0>>, k)
    BY <1>3, <1>8, <2>1, ZenonT(40) DEF OnceInv, QueuesPlus
  <2> QED  BY <1>4, <2>2, Zenon DEF QueueKinds
<1>9. CASE /\ private_queues_' = [private_queues_ EXCEPT ![i] = Append(private_queues_[i], k)]
           /\ UNCHANGED <<global_queue_, deques_>> /\ i \in Indices
  <2> DEFINE q == private_queues_[i]
  <2>1. q \in Seq(Tasks) /\ Once(q) /\ private_queues_ \in [Indices -> Seq(Tasks)] /\ k \notin InQ(q)
    BY <1>3, <1>7, <1>9, ZenonT(40) DEF QueueType, OnceInv
  <2>2. Once(Append(q, k)) /\ InQ(Append(q, k)) = InQ(q) \cup {k}
    BY <1>2, <2>1, QueueAppend, Zenon
  <2>3. \A j \in Indices : private_queues_'[j] = IF j = i THEN Append(q, k) ELSE private_queues_[j]
    BY <1>9, <2>1, ZenonT(40)
  <2>4. OnceInv'
    BY <1>3, <1>9, <2>2, <2>3, Zenon DEF OnceInv
  <2>5. QueuesPlus(<<"private", i>>, k)
    <3>1. <<"private", i>> # <<"global", 0>>
      BY Zenon
    <3>2. \A j \in Indices : /\ <<"private", i>> = <<"private", j>> <=> j = i
                             /\ <<"private", i>> # <<"deque", j>>
      OBVIOUS
    <3>3. ASSUME NEW j \in Indices
          PROVE  InQ(private_queues_'[j]) = IF j = i THEN InQ(private_queues_[j]) \cup {k} ELSE InQ(private_queues_[j])
      BY <2>2, <2>3, Zenon
    <3> HIDE DEF k, i
    <3> QED  BY <1>9, <3>1, <3>2, <3>3, ZenonT(40) DEF QueuesPlus
  <2> QED  BY <1>4, <1>9, <2>4, <2>5, Zenon DEF QueueKinds
<1>10. CASE /\ deques_' = [deques_ EXCEPT ![i] = Append(deques_[i], k)]
            /\ UNCHANGED <<global_queue_, private_queues_>> /\ i \in Indices
  <2> DEFINE q == deques_[i]
  <2>1. q \in Seq(Tasks) /\ Once(q) /\ deques_ \in [Indices -> Seq(Tasks)] /\ k \notin InQ(q)
    BY <1>3, <1>7, <1>10, ZenonT(40) DEF QueueType, OnceInv
  <2>2. Once(Append(q, k)) /\ InQ(Append(q, k)) = InQ(q) \cup {k}
    BY <1>2, <2>1, QueueAppend, ZenonT(40)
  <2>3. \A j \in Indices : deques_'[j] = IF j = i THEN Append(q, k) ELSE deques_[j]
    BY <1>10, <2>1, Zenon
  <2>4. OnceInv'
    BY <1>3, <1>10, <2>2, <2>3, ZenonT(40) DEF OnceInv
  <2>5. QueuesPlus(<<"deque", i>>, k)
    <3>1. <<"deque", i>> # <<"global", 0>>
      BY Zenon
    <3>2. \A j \in Indices : /\ <<"deque", i>> = <<"deque", j>> <=> j = i
                             /\ <<"deque", i>> # <<"private", j>>
      BY Zenon
    <3>3. ASSUME NEW j \in Indices
          PROVE  InQ(deques_'[j]) = IF j = i THEN InQ(deques_[j]) \cup {k} ELSE InQ(deques_[j])
      BY <2>2, <2>3, Zenon
    <3> HIDE DEF k, i
    <3> QED  BY <1>10, <3>1, <3>2, <3>3, ZenonT(40) DEF QueuesPlus
  <2> QED  BY <1>4, <1>10, <2>4, <2>5, Zenon DEF QueueKinds
<1>11. cpc[c] # "Submit" => i \in Indices
  BY <1>1, Zenon DEF CallsInv, Submitting
<1> QED  BY <1>8, <1>9, <1>10, <1>11, ZenonT(40) DEF PushTask

(* The steps of a call that move no task.                                   *)
LEMMA CallerKInv ==
    ASSUME KInv, PInv', NEW c \in Callers,
           \/ CheckSleepers(c) \/ Notify(c) \/ JoinExcess(c) \/ TerminateNotify(c) \/ JoinAll(c)
           \/ Terminate(c)
    PROVE  KInv'
<1>0. /\ cpc = [b \in Callers |-> cpc[b]] /\ ctask = [b \in Callers |-> ctask[b]]
      /\ tpc \in [Threads -> Labels] /\ waiting = {h \in Threads : tpc[h] = "waiting"}
  BY Zenon DEF KInv, PInv, CallerType, SInv
<1>1. ASSUME NEW b, b \notin Submitting, cpc' = [cpc EXCEPT ![c] = b],
             cpc[c] \notin Submitting \cup {"gone"},
             ctask' = ctask \/ ctask' = [ctask EXCEPT ![c] = None],
             UNCHANGED <<queues, cur, nested, active_tasks_, submitted, settled>>,
             BusyInv', Finished' = Finished
      PROVE  KInv'
  <2>1. \A d \in Callers : Pushed(d)' = Pushed(d)
    BY <1>0, <1>1, Zenon DEF Pushed
  <2>2. Gone => Gone'
    BY <1>0, <1>1, SMTT(40) DEF Gone
  <2> QED  BY <1>1, <2>1, <2>2, Quietly, Zenon
<1>2. ASSUME UNCHANGED <<tpc, cur, nested>> PROVE BusyInv' /\ Finished' = Finished
  BY <1>2, Zenon DEF KInv, BusyInv, Finished
<1>3. CASE CheckSleepers(c)
  <2>1. /\ cpc[c] \in {"checkAll", "checkOne"}
        /\ \/ cpc' = [cpc EXCEPT ![c] = "notifyAll"] \/ cpc' = [cpc EXCEPT ![c] = "notifyOne"]
           \/ cpc' = [cpc EXCEPT ![c] = "none"]
        /\ ctask' = ctask \/ ctask' = [ctask EXCEPT ![c] = None]
        /\ UNCHANGED <<queues, tpc, cur, nested, active_tasks_, submitted, settled>>
    BY <1>3, Zenon DEF CheckSleepers, EndCall, worker, history
  <2> QED  BY <1>1, <1>2, <2>1, Zenon DEF Submitting
<1>4. CASE Notify(c)
  <2>1. /\ cpc[c] \in {"notifyAll", "notifyOne"} /\ cpc' = [cpc EXCEPT ![c] = "none"]
        /\ ctask' = [ctask EXCEPT ![c] = None]
        /\ UNCHANGED <<queues, cur, nested, active_tasks_, submitted, settled>>
    BY <1>4, Zenon DEF Notify, EndCall, history
  <2>2. BusyInv' /\ Finished' = Finished
    <3>1. CASE NotifyAll
      BY <2>1, <3>1, IdleNotify, Zenon
    <3>2. CASE UNCHANGED tpc
      BY <1>2, <2>1, <3>2, Zenon
    <3>3. ASSUME NEW h \in waiting, tpc' = [tpc EXCEPT ![h] = "woken"] PROVE BusyInv' /\ Finished' = Finished
      <4>1. h \in Threads /\ tpc[h] \notin Busy /\ "woken" \notin Busy
        BY <1>0, Zenon DEF Busy
      <4> QED  BY <2>1, <3>3, <4>1, IdleMove, Zenon
    <3> QED  BY <1>4, <3>1, <3>2, <3>3, Zenon DEF Notify
  <2> QED  BY <1>1, <2>1, <2>2, ZenonT(40) DEF Submitting
<1>5. CASE JoinExcess(c)
  <2>1. /\ cpc[c] = "join" /\ cpc' = [cpc EXCEPT ![c] = "none"] /\ ctask' = ctask
        /\ UNCHANGED <<queues, tpc, cur, nested, active_tasks_, submitted, settled>>
    BY <1>5, Zenon DEF JoinExcess, worker, history
  <2> QED  BY <1>1, <1>2, <2>1, Zenon DEF Submitting
<1>6. CASE TerminateNotify(c)
  <2>1. /\ cpc[c] = "terminate" /\ cpc' = [cpc EXCEPT ![c] = "joinAll"] /\ ctask' = ctask /\ NotifyAll
        /\ UNCHANGED <<queues, cur, nested, active_tasks_, submitted, settled>>
    BY <1>6, Zenon DEF TerminateNotify, history
  <2> QED  BY <1>1, <2>1, IdleNotify, Zenon DEF Submitting
<1>7. CASE JoinAll(c)
  <2>1. /\ cpc[c] = "joinAll" /\ cpc' = [cpc EXCEPT ![c] = "drain"] /\ ctask' = ctask
        /\ UNCHANGED <<queues, tpc, cur, nested, active_tasks_, submitted, settled>>
    BY <1>7, Zenon DEF JoinAll, worker, history
  <2> QED  BY <1>1, <1>2, <2>1, ZenonT(40) DEF Submitting
<1>8. CASE Terminate(c)
  <2>1. /\ cpc[c] = "none" /\ cpc' = [cpc EXCEPT ![c] = "terminate"] /\ ctask' = ctask
        /\ UNCHANGED <<queues, tpc, cur, nested, active_tasks_, submitted, settled>>
    BY <1>8, Zenon DEF Terminate, worker, history
  <2> QED  BY <1>1, <1>2, <2>1, Zenon DEF Submitting
<1> QED  BY <1>3, <1>4, <1>5, <1>6, <1>7, <1>8

(* The tasks left in the queues of the pool get their dummy result.         *)
Drained == {<<"global", 0>>} \cup ({"private", "deque"} \X (0..(pool_size_ - 1)))

LEMMA DrainKInv ==
    ASSUME KInv, CallsInv, PInv', NEW c \in Callers, Drain(c)
    PROVE  KInv'
<1> DEFINE D == 0..(pool_size_ - 1)
           IsLeft(k) == \/ InQueue(global_queue_, k)
                        \/ \E i \in D : InQueue(deques_[i], k) \/ InQueue(private_queues_[i], k)
           G == [l \in Locations |-> IF l \in Drained THEN {} ELSE Holds[l]]
<1>1. /\ cpc[c] = "drain" /\ cpc' = [cpc EXCEPT ![c] = "gone"] /\ global_queue_' = <<>>
      /\ settled' = [k \in Tasks |-> IF IsLeft(k) THEN settled[k] + 1 ELSE settled[k]]
      /\ deques_' = [i \in Indices |-> IF i \in D THEN <<>> ELSE deques_[i]]
      /\ private_queues_' = [i \in Indices |-> IF i \in D THEN <<>> ELSE private_queues_[i]]
      /\ UNCHANGED <<tpc, cur, nested, ctask, submitted, active_tasks_>>
  BY Zenon DEF Drain, worker
<1>2. cpc = [b \in Callers |-> cpc[b]] /\ D \subseteq Indices
  BY PoolAssumption, SMTT(40) DEF KInv, PInv, CallerType, ShapeType, Indices
<1>3. InQ(<<>>) = {} /\ Once(<<>>)
  BY SMTT(40) DEF InQ, InQueue, Once
<1>4. BusyInv' /\ Finished' = Finished
  BY <1>1, Zenon DEF KInv, BusyInv, Finished
<1>5. OnceInv'
  <2>1. \A i \in Indices : Once(private_queues_[i]) /\ Once(deques_[i])
    BY Zenon DEF KInv, OnceInv
  <2>2. \A i \in Indices : Once(private_queues_'[i]) /\ Once(deques_'[i])
    BY <1>1, <1>3, <2>1, Zenon
  <2> QED  BY <1>1, <1>3, <2>2, Zenon DEF OnceInv
<1>6. CountInv'
  BY <1>1, <1>2, Zenon DEF CountInv, CallsInv, Gone
<1>7. Holds' = G
  <2>0. G \in [Locations -> SUBSET Tasks] /\ \A l \in Locations : G[l] = IF l \in Drained THEN {} ELSE Holds[l]
    BY HoldsAt, Zenon
  <2> HIDE DEF G
  <2>1. G[<<"global", 0>>] = InQ(global_queue_')
    BY <1>1, <1>3, <2>0, Kinds, ZenonT(40) DEF Drained
  <2>2. ASSUME NEW i \in Indices
        PROVE  G[<<"private", i>>] = InQ(private_queues_'[i]) /\ G[<<"deque", i>>] = InQ(deques_'[i])
    <3>1. (<<"private", i>> \in Drained <=> i \in D) /\ (<<"deque", i>> \in Drained <=> i \in D)
      BY Zenon DEF Drained
    <3> HIDE DEF D
    <3>2. /\ InQ(private_queues_'[i]) = IF i \in D THEN {} ELSE InQ(private_queues_[i])
          /\ InQ(deques_'[i]) = IF i \in D THEN {} ELSE InQ(deques_[i])
      BY <1>1, <1>3, ZenonT(40)
    <3> QED  BY <2>0, <3>1, <3>2, HoldsAt, Kinds, ZenonT(40)
  <2>3. ASSUME NEW g \in Threads
        PROVE  G[<<"cur", g>>] = Held(cur', g) /\ G[<<"nested", g>>] = Held(nested', g)
    <3>1. <<"cur", g>> \notin Drained /\ <<"nested", g>> \notin Drained
      BY Zenon DEF Drained
    <3> QED  BY <1>1, <2>0, <3>1, HoldsAt, Kinds, ZenonT(40)
  <2>4. ASSUME NEW b \in Callers PROVE G[<<"push", b>>] = Pushed(b)'
    <3>1. <<"push", b>> \notin Drained
      BY Zenon DEF Drained
    <3>2. Pushed(b)' = Pushed(b)
      BY <1>1, <1>2, Zenon DEF Pushed, Submitting
    <3> QED  BY <2>0, <3>1, <3>2, HoldsAt, Kinds, ZenonT(40)
  <2> QED  BY <2>0, <2>1, <2>2, <2>3, <2>4, HoldsNext, ZenonT(40)
<1>8. \A k \in Tasks : IsLeft(k) <=> \E l \in Locations : l \in Drained /\ k \in Holds[l]
  <2>1. ASSUME NEW k \in Tasks, IsLeft(k) PROVE \E l \in Locations : l \in Drained /\ k \in Holds[l]
    <3>1. CASE InQueue(global_queue_, k)
      BY <3>1, HoldsAt, Kinds, ZenonT(40) DEF InQ, Drained
    <3>2. ASSUME NEW i \in D, InQueue(deques_[i], k) PROVE \E l \in Locations : l \in Drained /\ k \in Holds[l]
      <4>1. <<"deque", i>> \in Locations /\ <<"deque", i>> \in Drained /\ k \in Holds[<<"deque", i>>]
        BY <1>2, <3>2, HoldsAt, Kinds, Zenon DEF InQ, Drained
      <4> QED  BY <4>1, Zenon
    <3>3. ASSUME NEW i \in D, InQueue(private_queues_[i], k)
          PROVE  \E l \in Locations : l \in Drained /\ k \in Holds[l]
      <4>1. <<"private", i>> \in Locations /\ <<"private", i>> \in Drained /\ k \in Holds[<<"private", i>>]
        BY <1>2, <3>3, HoldsAt, Kinds, Zenon DEF InQ, Drained
      <4> QED  BY <4>1, Zenon
    <3> QED  BY <2>1, <3>1, <3>2, <3>3, Zenon
  <2>2. ASSUME NEW k \in Tasks, NEW l \in Locations, l \in Drained, k \in Holds[l] PROVE IsLeft(k)
    <3>1. l = <<"global", 0>> \/ \E i \in D : l = <<"private", i>> \/ l = <<"deque", i>>
      BY <2>2 DEF Drained
    <3> QED  BY <1>2, <2>2, <3>1, HoldsAt, Zenon DEF InQ
  <2> QED  BY <2>1, <2>2, Zenon
<1> HIDE DEF IsLeft, G, D
<1>9. \A l \in Locations : Holds'[l] = IF l \in Drained THEN {} ELSE Holds[l]
  BY <1>7, Zenon DEF G
<1>10. \A k \in Tasks : k \in Pending' <=> k \in Pending /\ ~IsLeft(k)
  <2>1. \A k \in Tasks : k \in Pending' <=> \E l \in Locations : k \in Holds'[l]
    BY DEF Pending, TasksOf
  <2>2. \A k \in Tasks : k \in Pending <=> \E l \in Locations : k \in Holds[l]
    BY DEF Pending, TasksOf
  <2>3. Unique(Holds)
    BY DEF KInv
  <2> QED  BY <1>8, <1>9, <2>1, <2>2, <2>3, ZenonT(40) DEF Unique
<1>11. Unique(Holds)' /\ Pending' \subseteq submitted'
  <2>1. Unique(Holds)'
    BY <1>9, Zenon DEF KInv, Unique
  <2>2. Pending' \subseteq Tasks
    BY Zenon DEF Pending, TasksOf
  <2> QED  BY <1>1, <1>10, <2>1, <2>2, Zenon DEF KInv
<1>12. \A k \in Tasks : IsLeft(k) => k \in Pending \ Finished
  <2> SUFFICES ASSUME NEW k \in Tasks, IsLeft(k) PROVE k \in Pending \ Finished
    BY Zenon
  <2>1. PICK l \in Locations : l \in Drained /\ k \in Holds[l]
    BY <1>8, Zenon
  <2>2. k \in Pending
    BY <2>1, Zenon DEF Pending, TasksOf
  <2>3. ASSUME NEW h \in Threads, cur[h] = k PROVE FALSE
    <3>1. k \in Holds[<<"cur", h>>] /\ <<"cur", h>> \in Locations
      BY <2>3, HoldsAt, Kinds, ZenonT(40) DEF Held
    <3>2. l = <<"cur", h>>
      BY <2>1, <3>1, Zenon DEF KInv, Unique
    <3> QED  BY <2>1, <3>2, ZenonT(40) DEF Drained
  <2> QED  BY <2>2, <2>3, Zenon DEF Finished
<1>13. SettledInv'
  <2>1. SettledInv /\ Pending \subseteq submitted
    BY Zenon DEF KInv
  <2>2. ASSUME NEW k \in Tasks
        PROVE  settled'[k] = IF k \in submitted' /\ (k \notin Pending' \/ k \in Finished') THEN 1 ELSE 0
    <3>1. settled[k] = IF k \in submitted /\ (k \notin Pending \/ k \in Finished) THEN 1 ELSE 0
      BY <2>1, Zenon DEF SettledInv
    <3>2. submitted' = submitted /\ Finished' = Finished
      BY <1>1, <1>4, Zenon
    <3>3. k \in Pending' <=> k \in Pending /\ ~IsLeft(k)
      BY <1>10, Zenon
    <3>4. CASE IsLeft(k)
      <4>1. settled'[k] = settled[k] + 1
        BY <1>1, <3>4, Zenon
      <4>2. k \in Pending /\ k \notin Finished /\ k \in submitted
        BY <1>12, <2>1, <3>4, Zenon
      <4>3. settled'[k] = 1
        BY <3>1, <4>1, <4>2
      <4> QED  BY <3>2, <3>3, <3>4, <4>2, <4>3, Zenon
    <3>5. CASE ~IsLeft(k)
      <4>1. settled'[k] = settled[k]
        BY <1>1, <3>5, Zenon
      <4> QED  BY <3>1, <3>2, <3>3, <3>5, <4>1, Zenon
    <3> QED  BY <3>4, <3>5, Zenon
  <2> QED  BY <2>2, Zenon DEF SettledInv
<1> QED  BY <1>4, <1>5, <1>6, <1>11, <1>13, Zenon DEF KInv

(* Resize moves no task: a thread that is created has none.                 *)
LEMMA ResizeKInv ==
    ASSUME KInv, PInv', NEW c \in Callers, NEW n \in 1..MaxPool, Resize(c, n)
    PROVE  KInv'
<1>0. /\ cpc = [b \in Callers |-> cpc[b]] /\ tpc \in [Threads -> Labels] /\ started \in Nat
      /\ pool_size_ \in Nat /\ \A h \in Threads : h > started => tpc[h] = "unborn"
  BY Zenon DEF KInv, PInv, CallerType, SInv
<1>1. /\ cpc[c] = "none" /\ UNCHANGED <<queues, cur, nested, ctask, active_tasks_, submitted, settled>>
      /\ cpc' = cpc \/ cpc' = [cpc EXCEPT ![c] = "join"]
  BY Zenon DEF Resize, CanCall, history
<1>2. (\A d \in Callers : Pushed(d)' = Pushed(d)) /\ (Gone => Gone')
  <2>1. CASE cpc' = cpc
    BY <1>1, <2>1, Zenon DEF Pushed, Gone
  <2>2. CASE cpc' = [cpc EXCEPT ![c] = "join"]
    <3>1. \A d \in Callers : cpc'[d] = IF d = c THEN "join" ELSE cpc[d]
      BY <1>0, <2>2, Zenon
    <3>2. \A d \in Callers : Pushed(d)' = Pushed(d)
      BY <1>1, <3>1, Zenon DEF Pushed, Submitting
    <3>3. Gone => Gone'
      BY <1>1, <3>1, Zenon DEF Gone, Callers
    <3> QED  BY <3>2, <3>3, Zenon
  <2> QED  BY <1>1, <2>1, <2>2, Zenon
<1>3. BusyInv' /\ Finished' = Finished
  <2>1. CASE NotifyAll
    BY <1>1, <2>1, IdleNotify, Zenon
  <2>2. CASE ~NotifyAll
    <3> DEFINE new == [i \in pool_size_..(n - 1) |-> started + 1 + i - pool_size_]
    <3>1. tpc' = [h \in Threads |-> IF \E i \in DOMAIN new : new[i] = h THEN "loop" ELSE tpc[h]]
      BY <2>2, Zenon DEF Resize
    <3>2. \A i \in DOMAIN new : new[i] > started
      BY <1>0, SMTT(40)
    <3> HIDE DEF new
    <3>3. \A h \in Threads : tpc'[h] = tpc[h] \/ (tpc[h] = "unborn" /\ tpc'[h] = "loop")
      BY <1>0, <3>1, <3>2, Zenon
    <3>4. BusyInv'
      BY <1>1, <3>3, ZenonT(40) DEF KInv, BusyInv
    <3>5. Finished' = Finished
      BY <1>1, <3>3, Zenon DEF Finished
    <3> QED  BY <3>4, <3>5, Zenon
  <2> QED  BY <2>1, <2>2, Zenon
<1> QED  BY <1>1, <1>2, <1>3, Quietly, ZenonT(40)

LEMMA InitKInv == Init => KInv /\ CallsInv
<1> SUFFICES ASSUME Init PROVE KInv /\ CallsInv
  BY Zenon
<1>1. PInv
  BY InitPInv, Zenon
<1>2. BusyInv
  BY PoolAssumption, Zenon DEF Init, BusyInv
<1>3. OnceInv
  BY SMTT(40) DEF Init, OnceInv, Once
<1>4. ASSUME NEW k \in Tasks, NEW l \in Locations PROVE ~At(l, k)
  <2>1. k # None
    BY PoolAssumption, Zenon
  <2>2. ~InQueue(<<>>, k)
    BY DEF InQueue
  <2>3. l[1] \in {"private", "deque"} => l[2] \in Indices
    BY DEF Locations
  <2>4. l[1] \in {"cur", "nested"} => l[2] \in Threads
    BY DEF Locations
  <2>5. l[1] = "push" => l[2] \in Callers
    BY DEF Locations
  <2> QED  BY <2>1, <2>2, <2>3, <2>4, <2>5, ZenonT(40) DEF Init, At
<1>5. Pending = {} /\ Unique(Holds)
  BY <1>4, Zenon DEF Pending, TasksOf, Holds, Unique
<1>6. SettledInv /\ CountInv
  <2>1. SettledInv
    BY Zenon DEF Init, SettledInv
  <2>2. CountInv
    BY <1>5, FS_EmptySet, Zenon DEF Init, CountInv
  <2> QED  BY <2>1, <2>2, Zenon
<1>7. CallsInv
  BY Zenon DEF Init, CallsInv
<1> QED  BY <1>1, <1>2, <1>3, <1>5, <1>6, <1>7, Zenon DEF KInv

LEMMA NextKInv == KInv /\ CallsInv /\ [Next]_vars => KInv' /\ CallsInv'
<1> SUFFICES ASSUME KInv, CallsInv, [Next]_vars PROVE KInv' /\ CallsInv'
  BY Zenon
<1>0. PInv /\ PInv'
  BY NextPInv, Zenon DEF KInv
<1>1. CallsInv'
  BY <1>0, NextCallsInv, Zenon
<1>2. ASSUME NEW c \in Callers, NEW k \in Tasks,
             \/ Submit(c, k) \/ SubmitFromWorker(c, k)
             \/ \E h \in Threads : SubmitToWorker(c, k, h)
      PROVE  KInv'
  <2>1. \E op \in Submitting, d \in {-1, index[c]} \cup {index[h] : h \in Threads} : BeginCall(c, k, op, d)
    BY <1>2, Zenon DEF Submit, SubmitFromWorker, SubmitToWorker, Submitting
  <2> QED  BY <1>0, <2>1, BeginKInv, ZenonT(40)
<1>3. ASSUME NEW c \in Callers, CallerStep(c) \/ Terminate(c) PROVE KInv'
  BY <1>0, <1>3, PushKInv, DrainKInv, CallerKInv, ZenonT(40) DEF CallerStep
<1>4. ASSUME NEW c \in Callers, NEW n \in 1..MaxPool, Resize(c, n) PROVE KInv'
  BY <1>0, <1>4, ResizeKInv, Zenon
<1>5. ASSUME NEW h \in Threads, GetTask(h) \/ SpuriousWakeUp(h) PROVE KInv'
  BY <1>0, <1>5, SearchKInv, IdleKInv, Zenon DEF GetTask
<1>6. ASSUME NEW h \in Threads, RunTask(h) \/ PromiseSettled(h) PROVE KInv'
  BY <1>0, <1>6, RunKInv, Zenon
<1>7. ASSUME UNCHANGED vars PROVE KInv'
  <2>1. /\ UNCHANGED <<tpc, cpc, ctask>>
        /\ UNCHANGED <<queues, cur, nested, active_tasks_, submitted, settled>>
    BY <1>7, Zenon DEF vars, worker, caller, history
  <2>2. BusyInv' /\ Finished' = Finished
    BY <2>1, Zenon DEF KInv, BusyInv, Finished
  <2>3. (\A d \in Callers : Pushed(d)' = Pushed(d)) /\ (Gone => Gone')
    BY <2>1, Zenon DEF Pushed, Gone
  <2> QED  BY <1>0, <2>1, <2>2, <2>3, Quietly, Zenon
<1> QED  BY <1>1, <1>2, <1>3, <1>4, <1>5, <1>6, <1>7, Zenon DEF Next

LEMMA WhereHolds ==
    ASSUME NEW k \in Tasks
    PROVE  Where(k) = {l \in Locations : k \in Holds[l]} /\ (k \in Pending <=> Where(k) # {})
  BY Zenon DEF Where, Holds, Pending, TasksOf

LEMMA KInvOnce == KInv => TaskExactlyOnce
<1> SUFFICES ASSUME KInv PROVE TaskExactlyOnce
  BY Zenon
<1>1. ASSUME NEW k \in Tasks
      PROVE  \/ k \notin submitted /\ settled[k] = 0 /\ Where(k) = {}
             \/ k \in submitted /\ settled[k] = 0 /\ \E l \in Locations : Where(k) = {l}
             \/ k \in submitted /\ settled[k] = 1 /\ Where(k) = {}
             \/ /\ k \in submitted /\ settled[k] = 1
                /\ \E h \in Threads : Where(k) = {<<"cur", h>>} /\ tpc[h] = "finish"
  <2>1. settled[k] = IF k \in submitted /\ (k \notin Pending \/ k \in Finished) THEN 1 ELSE 0
    BY Zenon DEF KInv, SettledInv
  <2>2. \A l \in Locations : l \in Where(k) => Where(k) = {l}
    BY WhereHolds, Zenon DEF KInv, Unique
  <2>3. CASE k \notin Pending
    BY <2>1, <2>3, WhereHolds, Zenon
  <2>4. CASE k \in Pending
    <3>1. k \in submitted /\ \E l \in Locations : Where(k) = {l}
      BY <2>2, <2>4, WhereHolds, Zenon DEF KInv, Where
    <3>2. CASE k \notin Finished
      BY <2>1, <2>4, <3>1, <3>2, Zenon
    <3>3. CASE k \in Finished
      <4>1. PICK h \in Threads : tpc[h] = "finish" /\ cur[h] = k
        BY <3>3, Zenon DEF Finished
      <4>2. <<"cur", h>> \in Where(k) /\ <<"cur", h>> \in Locations
        BY <4>1, WhereHolds, HoldsAt, Kinds, ZenonT(40) DEF Held
      <4> QED  BY <2>1, <2>2, <3>1, <3>3, <4>1, <4>2, Zenon
    <3> QED  BY <3>2, <3>3, ZenonT(40)
  <2> QED  BY <2>3, <2>4, Zenon
<1> QED  BY <1>1, Zenon DEF TaskExactlyOnce, KInv, OnceInv

LEMMA KInvCount == KInv => ActiveTasksExact
<1> SUFFICES ASSUME KInv PROVE ActiveTasksExact
  OBVIOUS
<1>1. Pending = {k \in Tasks : Where(k) # {}}
  <2>1. Pending \subseteq Tasks
    BY DEF Pending, TasksOf
  <2> QED  BY <2>1, WhereHolds, Zenon
<1> QED  BY <1>1, Zenon DEF KInv, CountInv, ActiveTasksExact

(* For any number of workers, callers and tasks and across every Resize and *)
(* the teardown, no queue operation of thread-pool.cc loses or doubles a    *)
(* task: a task is in one place until it is completed, and completed once.  *)
THEOREM TasksRunOnce == Spec => []TaskExactlyOnce
<1>1. Init => KInv /\ CallsInv
  BY InitKInv, Zenon
<1>2. KInv /\ CallsInv /\ [Next]_vars => KInv' /\ CallsInv'
  BY NextKInv, Zenon
<1> QED  BY <1>1, <1>2, KInvOnce, PTL DEF Spec

(* The increments of the three submissions and the decrements of Run and of *)
(* the await loop balance: until the teardown active_tasks_ is the number   *)
(* of tasks that the pool still has, whatever the interleaving.             *)
THEOREM ActiveTasksBalance == Spec => []ActiveTasksExact
<1>1. Init => KInv /\ CallsInv
  BY InitKInv, Zenon
<1>2. KInv /\ CallsInv /\ [Next]_vars => KInv' /\ CallsInv'
  BY NextKInv, Zenon
<1> QED  BY <1>1, <1>2, KInvCount, PTL DEF Spec

------------------------------------------------------------------------------
(* Without Resize the pool keeps its threads and indices, and the queues    *)
(* beyond its size stay empty.                                              *)
Within(i) == i \in 0..(InitialPool - 1)
FixedInv ==
    /\ pool_size_ = InitialPool /\ started = InitialPool /\ \A h \in Threads : index[h] = h - 1
    /\ \A i \in Indices : ~Within(i) => private_queues_[i] = <<>> /\ deques_[i] = <<>>
    /\ \A c \in Callers : cpc[c] \in {"SubmitFromWorker", "SubmitToWorker"} => Within(cdest[c])

LEMMA WithinBorn ==
    ASSUME PInv, FixedInv, NEW h \in Threads, tpc[h] # "unborn"
    PROVE  Within(index[h])
<1>1. h \in Nat /\ h >= 1 /\ ~(h > started)
  BY SMTT(40) DEF Threads, PInv, SInv
<1> QED  BY <1>1, PoolAssumption, SMTT(40) DEF FixedInv, Within

LEMMA NextFixedInv ==
    ASSUME "Resize" \notin Calls, PInv, FixedInv, [Next]_vars
    PROVE  FixedInv'
<1>0. /\ cpc = [c \in Callers |-> cpc[c]] /\ cdest = [c \in Callers |-> cdest[c]]
      /\ private_queues_ = [i \in Indices |-> private_queues_[i]]
      /\ deques_ = [i \in Indices |-> deques_[i]]
  BY Zenon DEF PInv, CallerType, QueueType
<1>1. ASSUME NEW c \in Callers, NEW k \in Tasks, NEW op, NEW d, BeginCall(c, k, op, d),
             op # "Submit" => Within(d)
      PROVE  FixedInv'
  <2>1. UNCHANGED <<pool_size_, started, index, private_queues_, deques_>>
        /\ cpc' = [cpc EXCEPT ![c] = op] /\ cdest' = [cdest EXCEPT ![c] = d]
    BY <1>1, Zenon DEF BeginCall, queues, shape
  <2>2. \A b \in Callers : cpc'[b] \in {"SubmitFromWorker", "SubmitToWorker"} => Within(cdest'[b])
    BY <1>0, <1>1, <2>1, Zenon DEF FixedInv
  <2> QED  BY <2>1, <2>2, ZenonT(40) DEF FixedInv, Within
<1>2. ASSUME NEW c \in Callers, NEW k \in Tasks, Submit(c, k) PROVE FixedInv'
  BY <1>1, <1>2, Zenon DEF Submit
<1>3. ASSUME NEW c \in Callers, NEW k \in Tasks, SubmitFromWorker(c, k) PROVE FixedInv'
  <2>1. c \in Threads /\ BeginCall(c, k, "SubmitFromWorker", index[c])
    BY <1>3, Zenon DEF SubmitFromWorker
  <2>2. tpc[c] # "unborn"
    BY <2>1, PoolAssumption, Zenon DEF BeginCall, CanCall
  <2> QED  BY <1>1, <2>1, <2>2, WithinBorn, Zenon
<1>4. ASSUME NEW c \in Callers, NEW k \in Tasks, NEW h \in Threads, SubmitToWorker(c, k, h)
      PROVE  FixedInv'
  <2>1. BeginCall(c, k, "SubmitToWorker", index[h]) /\ \E j \in Tasks : ranOn[j] = h
    BY <1>4, Zenon DEF SubmitToWorker
  <2>2. tpc[h] # "unborn"
    BY <2>1, PoolAssumption, ZenonT(40) DEF PInv, RanInv, Callers
  <2> QED  BY <1>1, <2>1, <2>2, WithinBorn, ZenonT(40)
<1>5. ASSUME UNCHANGED <<pool_size_, started, index>>,
             \A i \in Indices : ~Within(i) =>
               /\ private_queues_'[i] = private_queues_[i] \/ private_queues_'[i] = <<>>
               /\ deques_'[i] = deques_[i] \/ deques_'[i] = <<>>,
             \A b \in Callers : cpc'[b] \in {"SubmitFromWorker", "SubmitToWorker"} =>
               cpc'[b] = cpc[b] /\ cdest'[b] = cdest[b]
      PROVE  FixedInv'
  BY <1>5, ZenonT(40) DEF FixedInv, Within
<1>6. ASSUME NEW c \in Callers, CallerStep(c) \/ Terminate(c) PROVE FixedInv'
  <2>1. UNCHANGED <<pool_size_, started, index>>
    BY <1>6, ZenonT(40) DEF CallerStep, PushTask, CheckSleepers, Notify, JoinExcess, TerminateNotify, JoinAll, Drain,
                Terminate, shape
  <2>2. \A b \in Callers : cpc'[b] \in {"SubmitFromWorker", "SubmitToWorker"} =>
               cpc'[b] = cpc[b] /\ cdest'[b] = cdest[b]
    <3>1. /\ cdest' = cdest \/ cdest' = [cdest EXCEPT ![c] = -1]
          /\ \E b \in {"checkOne", "checkAll", "notifyAll", "notifyOne", "none", "joinAll", "drain",
                       "gone", "terminate"} : cpc' = [cpc EXCEPT ![c] = b]
      <4>1. CASE PushTask(c)
        BY <4>1, ZenonT(40) DEF PushTask
      <4>2. CASE CheckSleepers(c)
        BY <4>2, Zenon DEF CheckSleepers, EndCall
      <4>3. CASE Notify(c)
        BY <4>3, Zenon DEF Notify, EndCall
      <4>4. CASE JoinExcess(c) \/ TerminateNotify(c) \/ JoinAll(c) \/ Drain(c) \/ Terminate(c)
        BY <4>4, ZenonT(40) DEF JoinExcess, TerminateNotify, JoinAll, Drain, Terminate
      <4> QED  BY <1>6, <4>1, <4>2, <4>3, <4>4, ZenonT(40) DEF CallerStep
    <3>2. PICK b \in {"checkOne", "checkAll", "notifyAll", "notifyOne", "none", "joinAll", "drain",
                      "gone", "terminate"} : cpc' = [cpc EXCEPT ![c] = b]
      BY <3>1, ZenonT(40)
    <3> QED  BY <1>0, <3>1, <3>2, Zenon
  <2>3. ASSUME NEW i \in Indices, ~Within(i)
        PROVE  /\ private_queues_'[i] = private_queues_[i] \/ private_queues_'[i] = <<>>
               /\ deques_'[i] = deques_[i] \/ deques_'[i] = <<>>
    <3>1. CASE PushTask(c)
      <4>1. cpc[c] \in {"SubmitFromWorker", "SubmitToWorker"} => cdest[c] # i
        BY <2>3, ZenonT(40) DEF FixedInv
      <4> QED  BY <1>0, <3>1, <4>1, Zenon DEF PushTask
    <3>2. CASE Drain(c)
      BY <3>2, ZenonT(40) DEF Drain
    <3>3. CASE UNCHANGED queues
      BY <3>3, Zenon DEF queues
    <3> QED  BY <1>6, <3>1, <3>2, <3>3, Zenon DEF CallerStep, CheckSleepers, Notify, JoinExcess, TerminateNotify,
                                           JoinAll, Terminate
  <2> QED  BY <1>5, <2>1, <2>2, <2>3, ZenonT(40)
<1>7. ASSUME NEW h \in Threads, GetTask(h) \/ RunTask(h) \/ SpuriousWakeUp(h) \/ PromiseSettled(h)
      PROVE  FixedInv'
  <2>1. UNCHANGED <<pool_size_, started, index, cpc, cdest>>
    <3>1. ASSUME GetTask(h) \/ SpuriousWakeUp(h) PROVE UNCHANGED <<pool_size_, started, index, cpc, cdest>>
      BY <3>1, ZenonT(40) DEF GetTask, CheckTerminated, GetPrivate, GetLocal, GetGlobal, StealFrom, LockPool, HasWork,
                  GoToSleep, WakeUp, SpuriousWakeUp, poolUnchanged, caller, shape
    <3>2. ASSUME RunTask(h) \/ PromiseSettled(h) PROVE UNCHANGED <<pool_size_, started, index, cpc, cdest>>
      BY <3>2, ZenonT(40) DEF RunTask, ExecuteTask, AwaitPop, RunNested, FinishTask, PromiseSettled, execUnchanged,
                  caller, shape
    <3> QED  BY <1>7, <3>1, <3>2, ZenonT(40)
  <2>2. ASSUME NEW i \in Indices, ~Within(i)
        PROVE  private_queues_'[i] = <<>> /\ deques_'[i] = <<>>
    <3>0. private_queues_[i] = <<>> /\ deques_[i] = <<>>
      BY <2>2, Zenon DEF FixedInv
    <3>1. CASE GetPrivate(h)
      BY <1>0, <3>0, <3>1, Zenon DEF GetPrivate
    <3>2. CASE GetLocal(h)
      BY <1>0, <3>0, <3>2, Zenon DEF GetLocal
    <3>3. CASE StealFrom(h)
      BY <1>0, <3>0, <3>3, Zenon DEF StealFrom
    <3>4. CASE AwaitPop(h)
      BY <1>0, <3>0, <3>4, Zenon DEF AwaitPop, execUnchanged
    <3>5. CASE UNCHANGED <<private_queues_, deques_>>
      BY <3>0, <3>5, ZenonT(40)
    <3>6. CASE CheckTerminated(h) \/ GetGlobal(h) \/ LockPool(h) \/ HasWork(h) \/ GoToSleep(h) \/ WakeUp(h)
               \/ SpuriousWakeUp(h)
      BY <3>5, <3>6, ZenonT(40) DEF CheckTerminated, GetGlobal, LockPool, HasWork, GoToSleep, WakeUp, SpuriousWakeUp,
                        queues
    <3>7. CASE ExecuteTask(h) \/ RunNested(h) \/ FinishTask(h) \/ PromiseSettled(h)
      BY <3>5, <3>7, ZenonT(40) DEF ExecuteTask, RunNested, FinishTask, PromiseSettled, execUnchanged, queues
    <3> QED  BY <1>7, <3>1, <3>2, <3>3, <3>4, <3>6, <3>7, ZenonT(40) DEF GetTask, RunTask
  <2> QED  BY <1>5, <2>1, <2>2, ZenonT(40)
<1>8. CASE UNCHANGED vars
  BY <1>5, <1>8, ZenonT(40) DEF vars, queues, shape, caller
<1>9. \A c \in Callers, n \in 1..MaxPool : ~Resize(c, n)
  BY Zenon DEF Resize
<1> QED  BY <1>2, <1>3, <1>4, <1>6, <1>7, <1>8, <1>9, Zenon DEF Next

------------------------------------------------------------------------------
(* Once the teardown has joined the threads nobody holds a task, nobody can *)
(* submit one, and the drain leaves the queues empty for good.              *)
Ending == {"terminate", "joinAll", "drain", "gone"}
Idle == \A h \in Threads : tpc[h] \in {"unborn", "exited"}
EndInv ==
    /\ Idle \/ threads_ = [k \in 1..InitialPool |-> k]
    /\ \A c \in Clients : /\ cpc[c] \in {"drain", "gone"} => Idle
                          /\ terminated_ => cpc[c] \in Ending \cup {"none"}
                          /\ cpc[c] \in Ending => terminated_
    /\ \A h \in Threads : cpc[h] # "none" => tpc[h] \in {"run", "await", "nested"}
    /\ Gone => global_queue_ = <<>> /\ \A i \in Indices : private_queues_[i] = <<>> /\ deques_[i] = <<>>

LEMMA WorkerEndInv ==
    ASSUME PInv, EndInv, NEW h \in Threads, GetTask(h) \/ RunTask(h) \/ SpuriousWakeUp(h) \/ PromiseSettled(h)
    PROVE  EndInv'
<1>0. tpc \in [Threads -> Labels] /\ waiting = {g \in Threads : tpc[g] = "waiting"}
  BY Zenon DEF PInv, SInv
<1>1. UNCHANGED <<threads_, terminated_, cpc>>
  <2>1. ASSUME GetTask(h) \/ SpuriousWakeUp(h) PROVE UNCHANGED <<threads_, terminated_, cpc>>
    BY <2>1, ZenonT(40) DEF GetTask, CheckTerminated, GetPrivate, GetLocal, GetGlobal, StealFrom, LockPool, HasWork,
                GoToSleep, WakeUp, SpuriousWakeUp, poolUnchanged, caller, shape
  <2>2. ASSUME RunTask(h) \/ PromiseSettled(h) PROVE UNCHANGED <<threads_, terminated_, cpc>>
    BY <2>2, ZenonT(40) DEF RunTask, ExecuteTask, AwaitPop, RunNested, FinishTask, PromiseSettled, execUnchanged,
                caller, shape
  <2> QED  BY <2>1, <2>2, ZenonT(40)
<1>2. tpc[h] \notin {"unborn", "exited"} /\ (tpc[h] \in {"run", "await", "nested"} => cpc[h] = "none")
  <2>1. ASSUME GetTask(h) \/ SpuriousWakeUp(h)
        PROVE  tpc[h] \notin {"unborn", "exited", "run", "await", "nested"}
    BY <1>0, <2>1, ZenonT(40) DEF GetTask, CheckTerminated, GetPrivate, GetLocal, GetGlobal, StealFrom, LockPool, HasWork,
                GoToSleep, WakeUp, SpuriousWakeUp
  <2>2. ASSUME RunTask(h) \/ PromiseSettled(h)
        PROVE  /\ tpc[h] \in {"run", "await", "nested", "finish"}
               /\ tpc[h] \in {"run", "await", "nested"} => cpc[h] = "none"
    BY <2>2, ZenonT(40) DEF RunTask, ExecuteTask, AwaitPop, RunNested, FinishTask, PromiseSettled
  <2> QED  BY <2>1, <2>2, ZenonT(40)
<1>3. \A g \in Threads : g # h => tpc'[g] = tpc[g]
  <2>1. ASSUME GetTask(h) \/ SpuriousWakeUp(h) PROVE \E b \in Labels : tpc' = [tpc EXCEPT ![h] = b]
    BY <2>1, ZenonT(40) DEF GetTask, CheckTerminated, GetPrivate, GetLocal, GetGlobal, StealFrom, LockPool, HasWork,
                GoToSleep, WakeUp, SpuriousWakeUp, GoTo, Take, Labels, CriticalLabels
  <2>2. ASSUME RunTask(h) \/ PromiseSettled(h) PROVE \E b \in Labels : tpc' = [tpc EXCEPT ![h] = b]
    BY <2>2, ZenonT(40) DEF RunTask, ExecuteTask, AwaitPop, RunNested, FinishTask, PromiseSettled, Labels
  <2> QED  BY <1>0, <2>1, <2>2, ZenonT(40)
<1>4. ~Idle /\ cpc[h] = "none"
  BY <1>2, Zenon DEF Idle, EndInv
<1>5. \A c \in Clients : cpc[c] \notin {"drain", "gone"}
  BY <1>4, Zenon DEF EndInv
<1>6. ~Gone'
  BY <1>1, <1>5, ZenonT(40) DEF Gone
<1>7. \A g \in Threads : cpc'[g] # "none" => tpc'[g] \in {"run", "await", "nested"}
  BY <1>1, <1>3, <1>4, ZenonT(40) DEF EndInv
<1>8. threads_' = [k \in 1..InitialPool |-> k]
  BY <1>1, <1>4, ZenonT(40) DEF EndInv
<1>9. \A c \in Clients : /\ cpc'[c] \notin {"drain", "gone"}
                         /\ terminated_' => cpc'[c] \in Ending \cup {"none"}
                         /\ cpc'[c] \in Ending => terminated_'
  BY <1>1, <1>5, ZenonT(40) DEF EndInv
<1> QED  BY <1>6, <1>7, <1>8, <1>9, ZenonT(40) DEF EndInv

LEMMA CallerEndInv ==
    ASSUME PInv, FixedInv, CallsInv, EndInv, NEW c \in Callers,
           \/ CallerStep(c) \/ Terminate(c) \/ \E k \in Tasks, op \in Submitting, d \in Int : BeginCall(c, k, op, d)
    PROVE  EndInv'
<1>0. /\ cpc = [b \in Callers |-> cpc[b]] /\ tpc \in [Threads -> Labels]
      /\ waiting = {g \in Threads : tpc[g] = "waiting"} /\ Clients \subseteq Callers
      /\ Threads \subseteq Callers /\ Clients \cap Threads = {}
  BY PoolAssumption, ZenonT(40) DEF PInv, CallerType, SInv, Callers
(* A step that sends caller c to b and wakes some sleepers.                 *)
<1>1. ASSUME NEW b, cpc' = [cpc EXCEPT ![c] = b], UNCHANGED <<threads_, terminated_>>,
             \A h \in Threads : tpc'[h] = tpc[h] \/ (tpc[h] = "waiting" /\ tpc'[h] = "woken"),
             c \in Clients => /\ b \in {"drain", "gone"} => Idle
                              /\ terminated_ => b \in Ending \cup {"none"}
                              /\ b \in Ending => terminated_,
             c \in Threads /\ b # "none" => tpc[c] \in {"run", "await", "nested"},
             Gone' => global_queue_' = <<>> /\ \A i \in Indices : private_queues_'[i] = <<>> /\ deques_'[i] = <<>>
      PROVE  EndInv'
  <2>1. \A d \in Callers : cpc'[d] = IF d = c THEN b ELSE cpc[d]
    BY <1>0, <1>1, Zenon
  <2>2. Idle => Idle'
    BY <1>1, Zenon DEF Idle
  <2>3. \A h \in Threads : cpc'[h] # "none" => tpc'[h] \in {"run", "await", "nested"}
    BY <1>0, <1>1, <2>1, Zenon DEF EndInv
  <2>4. Idle' \/ threads_' = [k \in 1..InitialPool |-> k]
    BY <1>1, <2>2, ZenonT(40) DEF EndInv
  <2>5. \A d \in Clients : /\ cpc'[d] \in {"drain", "gone"} => Idle'
                           /\ terminated_' => cpc'[d] \in Ending \cup {"none"}
                           /\ cpc'[d] \in Ending => terminated_'
    BY <1>0, <1>1, <2>1, <2>2, ZenonT(40) DEF EndInv
  <2> QED  BY <1>1, <2>3, <2>4, <2>5, ZenonT(40) DEF EndInv
<1>2. ASSUME NEW b, b # "gone", cpc' = [cpc EXCEPT ![c] = b], UNCHANGED queues
      PROVE  Gone' => global_queue_' = <<>> /\ \A i \in Indices : private_queues_'[i] = <<>> /\ deques_'[i] = <<>>
  <2>1. Gone' => Gone
    BY <1>0, <1>2, Zenon DEF Gone
  <2> QED  BY <1>2, <2>1, ZenonT(40) DEF EndInv, queues
(* A caller in the middle of a submission.                                  *)
<1>3. ASSUME cpc[c] \notin Ending \cup {"none"}
      PROVE  /\ c \in Clients => ~terminated_
             /\ c \in Threads => tpc[c] \in {"run", "await", "nested"}
  BY <1>3, Zenon DEF EndInv
<1>4. ASSUME NEW k \in Tasks, NEW op \in Submitting, NEW d \in Int, BeginCall(c, k, op, d) PROVE EndInv'
  <2>1. /\ cpc' = [cpc EXCEPT ![c] = op] /\ UNCHANGED <<queues, threads_, terminated_, tpc>>
        /\ IF c \in Clients THEN ~terminated_ ELSE tpc[c] \in {"run", "await", "nested"}
    BY <1>4, Zenon DEF BeginCall, CanCall, shape, worker
  <2>2. op # "gone" /\ op \notin Ending
    BY Zenon DEF Submitting, Ending
  <2> QED  BY <1>0, <1>1, <1>2, <2>1, <2>2, Zenon DEF Ending
<1>5. CASE PushTask(c)
  <2>1. /\ cpc[c] \in Submitting /\ UNCHANGED <<threads_, terminated_, tpc>>
        /\ \E b \in {"checkOne", "checkAll"} : cpc' = [cpc EXCEPT ![c] = b]
    BY <1>5, Zenon DEF PushTask, Submitting, shape, worker
  <2>2. PICK b \in {"checkOne", "checkAll"} : cpc' = [cpc EXCEPT ![c] = b]
    BY <2>1, Zenon
  <2>3. (c \in Clients => ~terminated_) /\ (c \in Threads => tpc[c] \in {"run", "await", "nested"})
    BY <1>3, <2>1, ZenonT(40) DEF Submitting, Ending
  <2>4. ~Gone
    <3>1. CASE c \in Clients
      BY <2>3, <3>1, ZenonT(40) DEF EndInv, Gone, Ending
    <3>2. CASE c \in Threads
      BY <2>3, <3>2, ZenonT(40) DEF EndInv, Gone, Idle
    <3> QED  BY <3>1, <3>2, ZenonT(40) DEF Callers
  <2>5. ~Gone'
    BY <1>0, <2>2, <2>4, ZenonT(40) DEF Gone
  <2> QED  BY <1>1, <2>1, <2>2, <2>3, <2>5, Zenon DEF Ending
<1>6. CASE CheckSleepers(c)
  <2>1. /\ cpc[c] \in {"checkAll", "checkOne"} /\ UNCHANGED <<queues, threads_, terminated_, tpc>>
        /\ \E b \in {"notifyAll", "notifyOne", "none"} : cpc' = [cpc EXCEPT ![c] = b]
    BY <1>6, ZenonT(40) DEF CheckSleepers, EndCall, shape, worker
  <2>2. PICK b \in {"notifyAll", "notifyOne", "none"} : cpc' = [cpc EXCEPT ![c] = b]
    BY <2>1, ZenonT(40)
  <2>3. (c \in Clients => ~terminated_) /\ (c \in Threads => tpc[c] \in {"run", "await", "nested"})
    BY <1>3, <2>1, ZenonT(40) DEF Ending
  <2> QED  BY <1>1, <1>2, <2>1, <2>2, <2>3, ZenonT(40) DEF Ending
<1>7. CASE Notify(c)
  <2>1. /\ cpc[c] \in {"notifyAll", "notifyOne"} /\ UNCHANGED <<queues, threads_, terminated_>>
        /\ cpc' = [cpc EXCEPT ![c] = "none"]
    BY <1>7, Zenon DEF Notify, EndCall, shape
  <2>2. \A h \in Threads : tpc'[h] = tpc[h] \/ (tpc[h] = "waiting" /\ tpc'[h] = "woken")
    BY <1>0, <1>7, Zenon DEF Notify, NotifyAll
  <2> QED  BY <1>1, <1>2, <2>1, <2>2, Zenon DEF Ending
<1>8. CASE JoinExcess(c)
  <2>1. UNCHANGED <<queues, threads_, terminated_, tpc>> /\ cpc' = [cpc EXCEPT ![c] = "none"]
    BY <1>8, Zenon DEF JoinExcess, shape, worker
  <2> QED  BY <1>1, <1>2, <2>1, ZenonT(40) DEF Ending
<1>9. CASE TerminateNotify(c)
  <2>1. /\ cpc[c] = "terminate" /\ UNCHANGED <<queues, threads_, terminated_>>
        /\ cpc' = [cpc EXCEPT ![c] = "joinAll"] /\ c \in Clients /\ terminated_
    BY <1>9, ZenonT(40) DEF TerminateNotify, shape, CallsInv, EndInv, Ending
  <2>2. \A h \in Threads : tpc'[h] = tpc[h] \/ (tpc[h] = "waiting" /\ tpc'[h] = "woken")
    BY <1>0, <1>9, ZenonT(40) DEF TerminateNotify, NotifyAll
  <2> QED  BY <1>0, <1>1, <1>2, <2>1, <2>2, Zenon DEF Ending
<1>10. CASE JoinAll(c)
  <2>1. /\ cpc[c] = "joinAll" /\ UNCHANGED <<queues, terminated_, tpc>>
        /\ cpc' = [cpc EXCEPT ![c] = "drain"] /\ c \in Clients /\ terminated_
        /\ \A k \in DOMAIN threads_ : tpc[threads_[k]] = "exited"
    BY <1>10, ZenonT(40) DEF JoinAll, worker, CallsInv, EndInv, Ending
  <2>2. Idle
    <3>1. CASE threads_ = [k \in 1..InitialPool |-> k]
      <4>1. \A h \in Threads : h > InitialPool => tpc[h] = "unborn"
        BY Zenon DEF PInv, SInv, FixedInv
      <4>2. \A h \in Threads : ~(h > InitialPool) => h \in 1..InitialPool
        BY PoolAssumption, SMTT(40) DEF Threads
      <4> QED  BY <2>1, <3>1, <4>1, <4>2, Zenon DEF Idle
    <3> QED  BY <3>1, ZenonT(40) DEF EndInv
  <2>3. Idle'
    BY <2>1, <2>2, Zenon DEF Idle
  <2>4. Gone' => Gone
    BY <1>0, <2>1, Zenon DEF Gone
  <2>5. \A d \in Callers : cpc'[d] = IF d = c THEN "drain" ELSE cpc[d]
    BY <1>0, <2>1, Zenon
  <2>6. \A h \in Threads : cpc'[h] # "none" => tpc'[h] \in {"run", "await", "nested"}
    BY <1>0, <2>1, <2>5, Zenon DEF EndInv
  <2>7. \A d \in Clients : /\ terminated_' => cpc'[d] \in Ending \cup {"none"}
                           /\ cpc'[d] \in Ending => terminated_'
    BY <1>0, <2>1, <2>5, Zenon DEF EndInv, Ending
  <2>8. Gone' => global_queue_' = <<>> /\ \A i \in Indices : private_queues_'[i] = <<>> /\ deques_'[i] = <<>>
    BY <2>1, <2>4, ZenonT(40) DEF EndInv, queues
  <2> QED  BY <2>3, <2>6, <2>7, <2>8, ZenonT(40) DEF EndInv
<1>11. CASE Drain(c)
  <2>1. /\ cpc[c] = "drain" /\ UNCHANGED <<threads_, terminated_, tpc>>
        /\ cpc' = [cpc EXCEPT ![c] = "gone"] /\ c \in Clients /\ terminated_ /\ Idle
    BY <1>11, ZenonT(40) DEF Drain, shape, worker, CallsInv, EndInv, Ending
  <2>2. global_queue_' = <<>> /\ \A i \in Indices : private_queues_'[i] = <<>> /\ deques_'[i] = <<>>
    BY <1>11, ZenonT(40) DEF Drain, FixedInv, Within
  <2> QED  BY <1>0, <1>1, <2>1, <2>2, Zenon DEF Ending
<1>12. CASE Terminate(c)
  <2>1. /\ c \in Clients /\ ~terminated_ /\ \A d \in Clients : cpc[d] = "none"
        /\ terminated_' /\ cpc' = [cpc EXCEPT ![c] = "terminate"] /\ UNCHANGED <<queues, threads_, tpc>>
    BY <1>12, Zenon DEF Terminate, worker
  <2>2. \A d \in Callers : cpc'[d] = IF d = c THEN "terminate" ELSE cpc[d]
    BY <1>0, <2>1, Zenon
  <2>3. ~Gone' /\ \A d \in Clients : cpc'[d] \in {"none", "terminate"}
    BY <1>0, <2>1, <2>2, Zenon DEF Gone
  <2>4. \A h \in Threads : cpc'[h] # "none" => tpc'[h] \in {"run", "await", "nested"}
    BY <1>0, <2>1, <2>2, Zenon DEF EndInv
  <2>5. Idle' \/ threads_' = [k \in 1..InitialPool |-> k]
    BY <2>1, Zenon DEF EndInv, Idle
  <2> QED  BY <2>1, <2>3, <2>4, <2>5, ZenonT(40) DEF EndInv, Ending
<1> QED  BY <1>4, <1>5, <1>6, <1>7, <1>8, <1>9, <1>10, <1>11, <1>12, ZenonT(40) DEF CallerStep

TInv == KInv /\ CallsInv /\ FixedInv /\ EndInv

LEMMA InitTInv == Init => TInv
<1> SUFFICES ASSUME Init PROVE TInv
  BY Zenon
<1>1. KInv /\ CallsInv
  BY InitKInv, Zenon
<1>2. FixedInv
  BY Zenon DEF Init, FixedInv
<1>3. EndInv
  <2>1. Clients \subseteq Callers /\ Threads \subseteq Callers
    BY Zenon DEF Callers
  <2>2. (\A c \in Clients : cpc[c] = "none") /\ (\A h \in Threads : cpc[h] = "none") /\ ~Gone
    BY <2>1, Zenon DEF Init, Gone
  <2> QED  BY <2>2, Zenon DEF Init, EndInv, Ending
<1> QED  BY <1>1, <1>2, <1>3, Zenon DEF TInv

LEMMA NextTInv == "Resize" \notin Calls /\ TInv /\ [Next]_vars => TInv'
<1> SUFFICES ASSUME "Resize" \notin Calls, TInv, [Next]_vars PROVE TInv'
  BY Zenon
<1>0. PInv /\ KInv /\ CallsInv /\ FixedInv /\ EndInv
  BY Zenon DEF TInv, KInv
<1>1. KInv' /\ CallsInv'
  BY <1>0, NextKInv, Zenon
<1>2. FixedInv'
  BY <1>0, NextFixedInv, Zenon
<1>3. ASSUME NEW c \in Callers, NEW k \in Tasks,
             \/ Submit(c, k) \/ SubmitFromWorker(c, k)
             \/ \E h \in Threads : SubmitToWorker(c, k, h)
      PROVE  EndInv'
  <2>1. index \in [Threads -> Int]
    BY <1>0, Zenon DEF PInv, ShapeType
  <2>2. \E op \in Submitting, d \in Int : BeginCall(c, k, op, d)
    BY <1>3, <2>1, SMTT(40) DEF Submit, SubmitFromWorker, SubmitToWorker, Submitting
  <2> QED  BY <1>0, <2>2, CallerEndInv, Zenon
<1>4. ASSUME NEW c \in Callers, CallerStep(c) \/ Terminate(c) PROVE EndInv'
  BY <1>0, <1>4, CallerEndInv, Zenon
<1>5. ASSUME NEW h \in Threads, GetTask(h) \/ RunTask(h) \/ SpuriousWakeUp(h) \/ PromiseSettled(h)
      PROVE  EndInv'
  BY <1>0, <1>5, WorkerEndInv, Zenon
<1>6. ASSUME UNCHANGED vars PROVE EndInv'
  <2>1. UNCHANGED <<global_queue_, private_queues_, deques_, threads_, terminated_, tpc, cpc>>
    BY <1>6, Zenon DEF vars, queues, shape, worker, caller
  <2>2. Idle' = Idle /\ Gone' = Gone
    BY <2>1, Zenon DEF Idle, Gone
  <2> QED  BY <1>0, <2>1, <2>2, Zenon DEF EndInv
<1>7. \A c \in Callers, n \in 1..MaxPool : ~Resize(c, n)
  BY Zenon DEF Resize
<1>8. EndInv'
  <2>1. ASSUME Next PROVE EndInv'
    BY <1>3, <1>4, <1>5, <1>7, <2>1, Zenon DEF Next
  <2> QED  BY <1>6, <2>1, Zenon
<1> QED  BY <1>1, <1>2, <1>8, Zenon DEF TInv

LEMMA TInvSettles == TInv => TearDownSettlesAll
<1> SUFFICES ASSUME TInv, Gone PROVE \A k \in submitted : settled[k] = 1
  BY Zenon DEF TearDownSettlesAll
<1>1. KInv /\ EndInv /\ submitted \subseteq Tasks
  BY Zenon DEF TInv, KInv, PInv, HistoryType
<1>2. Idle /\ terminated_
  BY <1>1, Zenon DEF EndInv, Gone, Ending
<1>3. ASSUME NEW k \in Tasks, NEW l \in Locations PROVE k \notin Holds[l]
  <2>0. k # None
    BY PoolAssumption, Zenon
  <2>1. ~InQueue(<<>>, k)
    BY SMTT(40) DEF InQueue
  <2>2. CASE l = <<"global", 0>>
    BY <1>1, <2>1, <2>2, HoldsAt, ZenonT(40) DEF EndInv, InQ
  <2>3. ASSUME NEW i \in Indices, l = <<"private", i>> \/ l = <<"deque", i>> PROVE k \notin Holds[l]
    <3>1. private_queues_[i] = <<>> /\ deques_[i] = <<>>
      BY <1>1, Zenon DEF EndInv
    <3>2. k \notin InQ(private_queues_[i]) /\ k \notin InQ(deques_[i])
      BY <2>1, <3>1, ZenonT(40) DEF InQ
    <3> QED  BY <2>3, <3>2, HoldsAt, ZenonT(40)
  <2>4. ASSUME NEW h \in Threads, l = <<"cur", h>> \/ l = <<"nested", h>> PROVE k \notin Holds[l]
    <3>1. cur[h] = None /\ nested[h] = None
      BY <1>1, <1>2, Zenon DEF KInv, BusyInv, Idle
    <3> QED  BY <2>0, <2>4, <3>1, HoldsAt, ZenonT(40) DEF Held
  <2>5. ASSUME NEW c \in Callers, l = <<"push", c>> PROVE k \notin Holds[l]
    <3>1. CASE c \in Clients
      BY <1>1, <1>2, <2>5, <3>1, HoldsAt, ZenonT(40) DEF EndInv, Ending, Pushed, Submitting
    <3>2. CASE c \in Threads
      BY <1>1, <1>2, <2>5, <3>2, HoldsAt, ZenonT(40) DEF EndInv, Idle, Pushed, Submitting
    <3> QED  BY <3>1, <3>2, ZenonT(40) DEF Callers
  <2> QED  BY <2>2, <2>3, <2>4, <2>5, Kinds, Zenon
<1>4. Pending = {}
  BY <1>3, Zenon DEF Pending, TasksOf
<1> QED  BY <1>1, <1>4, Zenon DEF KInv, SettledInv

(* In a pool that is never resized, GlobalTearDown leaves no future behind: *)
(* whatever was submitted before it, from outside or by a task that still   *)
(* ran, has its result, or a dummy one, when the threads are joined and the *)
(* queues are drained.                                                      *)
THEOREM TearDownComplete == "Resize" \notin Calls /\ Spec => []TearDownSettlesAll
<1>1. Init => TInv
  BY InitTInv, Zenon
<1>2. "Resize" \notin Calls /\ TInv /\ [Next]_vars => TInv'
  BY NextTInv, Zenon
<1>3. ASSUME "Resize" \notin Calls PROVE Spec => []TearDownSettlesAll
  <2>1. TInv /\ [Next]_vars => TInv'
    BY <1>2, <1>3, Zenon
  <2> QED  BY <1>1, <2>1, TInvSettles, PTL DEF Spec
<1> QED  BY <1>3, Zenon
==============================================================================
