------------------------- MODULE WorkStealingDeque -------------------------
(* The Chase-Lev deque of src/threading/work-stealing-deque.h, one atomic   *)
(* access to shared memory per step.  One owner thread pushes and pops at   *)
(* the bottom, any number of thieves steal at the top.  Sequentially        *)
(* consistent: the code puts a seq_cst fence or CAS wherever the order of   *)
(* two accesses to different locations matters.                             *)
EXTENDS Integers

CONSTANTS
    Items,            \* the pointers that are pushed, each at most once
    Thieves,          \* the threads that call Steal
    InitialCapacities,\* initial_capacity of the constructor, rounded; 64 in the pool
    ShrinkFloor,      \* the capacity MaybeShrink never goes below, 64 in the code
    None              \* no item: an uninitialised slot, or nothing returned

(* The powers of two: positive, without an odd divisor above one.           *)
IsPowerOfTwo(n) == n # 0 /\ \A d \in 2..n : n % d = 0 => d % 2 = 0

(* The constructor rounds up to a power of two; the pool always uses 64.    *)
ASSUME DequeAssumption ==
    /\ \A cap \in InitialCapacities : cap \in Nat \ {0} /\ IsPowerOfTwo(cap)
    /\ ShrinkFloor \in Nat \ {0} /\ IsPowerOfTwo(ShrinkFloor)
    /\ None \notin Items

VARIABLES
    top_, bottom_,    \* the two shared indices
    capacity, buffer, \* every Array allocated so far: none is freed before ~WorkStealingDeque
    active_array_,    \* the Array in use, the last one allocated
    pc, b, t, val,    \* the owner: where it is in Push, Pop or MaybeShrink, and its locals
    tpc, tt, ta, tval,\* the same for each thief in Steal
    pushed,           \* history: the items whose Push has published them
    returned          \* history: how often each item was handed to a caller

ownerVars == <<pc, b, t, val>>
thiefVars == <<tpc, tt, ta, tval>>
arrays == <<capacity, buffer>>
vars == <<top_, bottom_, arrays, active_array_, ownerVars, thiefVars, pushed, returned>>

------------------------------------------------------------------------------
(* Array: capacities are powers of two (CapacityIsPowerOfTwo), so that      *)
(* index & mask_ is the remainder modulo the capacity.                      *)
Array(cap) == [s \in 0..(cap - 1) |-> None]
Get(a, i) == buffer[a][i % capacity[a]]
Capacity == capacity[active_array_]

(* The fresh Array that Resize and MaybeShrink fill with the items lo..hi-1 *)
(* of the active one before they publish it; only the owner writes to it.   *)
CopyRange(lo, hi, cap) ==
    [s \in 0..(cap - 1) |->
        IF \E i \in lo..(hi - 1) : i % cap = s
          THEN Get(active_array_, CHOOSE i \in lo..(hi - 1) : i % cap = s)
          ELSE None]

(* Mutant: the new array is filled but never stored in active_array_.       *)
PublishForgotten(cap, buf) ==
    LET new == active_array_ + 1 IN
    /\ capacity' = [a \in 1..new |-> IF a = new THEN cap ELSE capacity[a]]
    /\ buffer' = [a \in 1..new |-> IF a = new THEN buf ELSE buffer[a]]
    /\ UNCHANGED active_array_

(* active_array_.store(new_arr): the replaced array becomes obsolete.       *)
Publish(cap, buf) ==
    LET new == active_array_ + 1 IN
    /\ capacity' = [a \in 1..new |-> IF a = new THEN cap ELSE capacity[a]]
    /\ buffer' = [a \in 1..new |-> IF a = new THEN buf ELSE buffer[a]]
    /\ active_array_' = new

Init ==
    /\ top_ = 0 /\ bottom_ = 0
    /\ \E cap \in InitialCapacities :
          capacity = [a \in {1} |-> cap] /\ buffer = [a \in {1} |-> Array(cap)]
    /\ active_array_ = 1
    /\ pc = "idle" /\ b = 0 /\ t = 0 /\ val = None
    /\ tpc = [h \in Thieves |-> "idle"] /\ tt = [h \in Thieves |-> 0]
    /\ ta = [h \in Thieves |-> 1] /\ tval = [h \in Thieves |-> None]
    /\ pushed = {} /\ returned = [x \in Items |-> 0]

------------------------------------------------------------------------------
(* Mutant: the test for a full array is off by one.                         *)
PushOverfull(item) ==
    /\ pc = "idle" /\ item \notin pushed
    /\ b' = bottom_ /\ t' = top_ /\ val' = item
    /\ pc' = IF bottom_ - top_ > Capacity THEN "resize" ELSE "set"
    /\ UNCHANGED <<top_, bottom_, arrays, active_array_, thiefVars, pushed, returned>>

(* Push(item): load top_, resize when full, write the slot, store bottom_.  *)
Push(item) ==
    /\ pc = "idle" /\ item \notin pushed
    /\ b' = bottom_ /\ t' = top_ /\ val' = item
    /\ pc' = IF bottom_ - top_ > Capacity - 1 THEN "resize" ELSE "set"
    /\ UNCHANGED <<top_, bottom_, arrays, active_array_, thiefVars, pushed, returned>>

Resize ==
    /\ pc = "resize"
    /\ Publish(2 * Capacity, CopyRange(t, b, 2 * Capacity))
    /\ pc' = "set"
    /\ UNCHANGED <<top_, bottom_, b, t, val, thiefVars, pushed, returned>>

PushSet ==
    /\ pc = "set"
    /\ buffer' = [buffer EXCEPT ![active_array_][b % Capacity] = val]
    /\ pc' = "publish"
    /\ UNCHANGED <<top_, bottom_, capacity, active_array_, b, t, val, thiefVars, pushed, returned>>

PushPublish ==
    /\ pc = "publish"
    /\ bottom_' = b + 1
    /\ pushed' = pushed \cup {val}
    /\ pc' = "idle"
    /\ UNCHANGED <<top_, arrays, active_array_, b, t, val, thiefVars, returned>>

------------------------------------------------------------------------------
(* Pop: reserve the last slot by lowering bottom_, then look at top_.       *)
Return(x) == returned' = [returned EXCEPT ![x] = @ + 1]

Pop ==
    /\ pc = "idle"
    /\ b' = bottom_ - 1
    /\ bottom_' = bottom_ - 1
    /\ pc' = "reserved"
    /\ UNCHANGED <<top_, arrays, active_array_, t, val, thiefVars, pushed, returned>>

(* Mutant: the last item is taken without the CAS.                          *)
PopWithoutCas ==
    /\ pc = "reserved"
    /\ t' = top_
    /\ \/ /\ top_ <= b
          /\ val' = Get(active_array_, b) /\ Return(Get(active_array_, b))
          /\ pc' = "shrink"
       \/ /\ top_ > b
          /\ val' = None /\ UNCHANGED returned
          /\ pc' = "restore"
    /\ UNCHANGED <<top_, bottom_, arrays, active_array_, b, thiefVars, pushed>>

(* Mutant: the last item is reported as an empty deque.                     *)
PopMissesLast ==
    /\ pc = "reserved"
    /\ t' = top_
    /\ \/ /\ top_ < b
          /\ val' = Get(active_array_, b) /\ Return(Get(active_array_, b))
          /\ pc' = "shrink"
       \/ /\ top_ >= b
          /\ val' = None /\ UNCHANGED returned
          /\ pc' = "restore"
    /\ UNCHANGED <<top_, bottom_, arrays, active_array_, b, thiefVars, pushed>>

(* t < b: the item is the owner's.  t = b: the last one, decided by CAS.    *)
(* t > b: empty.                                                            *)
PopLoadTop ==
    /\ pc = "reserved"
    /\ t' = top_
    /\ \/ /\ top_ < b
          /\ val' = Get(active_array_, b) /\ Return(Get(active_array_, b))
          /\ pc' = "shrink"
       \/ /\ top_ = b
          /\ val' = Get(active_array_, b) /\ UNCHANGED returned
          /\ pc' = "cas"
       \/ /\ top_ > b
          /\ val' = None /\ UNCHANGED returned
          /\ pc' = "restore"
    /\ UNCHANGED <<top_, bottom_, arrays, active_array_, b, thiefVars, pushed>>

(* Only the loser of the race returns without a call of MaybeShrink.        *)
PopCas ==
    /\ pc = "cas"
    /\ \/ /\ top_ = t
          /\ top_' = t + 1 /\ Return(val)
          /\ pc' = "restore" /\ UNCHANGED val
       \/ /\ top_ # t
          /\ UNCHANGED <<top_, returned>>
          /\ pc' = "lost" /\ val' = None
    /\ UNCHANGED <<bottom_, arrays, active_array_, b, t, thiefVars, pushed>>

PopRestore ==
    /\ pc \in {"restore", "lost"}
    /\ bottom_' = b + 1
    /\ pc' = IF pc = "lost" THEN "idle" ELSE "shrink"
    /\ UNCHANGED <<top_, arrays, active_array_, b, t, val, thiefVars, pushed, returned>>

(* MaybeShrink: load top_, then publish a smaller array when less than a    *)
(* quarter of the capacity is in use.                                       *)
CurrentSize == IF bottom_ > top_ THEN bottom_ - top_ ELSE 0
ShrunkCapacity == IF Capacity \div 2 > ShrinkFloor THEN Capacity \div 2 ELSE ShrinkFloor

MaybeShrink ==
    /\ pc = "shrink"
    /\ b' = bottom_ /\ t' = top_
    /\ pc' = IF Capacity > ShrinkFloor /\ CurrentSize < Capacity \div 4
               THEN "shrunk" ELSE "idle"
    /\ UNCHANGED <<top_, bottom_, arrays, active_array_, val, thiefVars, pushed, returned>>

(* Mutant: the loop that copies the items starts one too late.              *)
ShrinkDropsOldest ==
    /\ pc = "shrunk"
    /\ Publish(ShrunkCapacity, CopyRange(t + 1, b, ShrunkCapacity))
    /\ pc' = "idle"
    /\ UNCHANGED <<top_, bottom_, b, t, val, thiefVars, pushed, returned>>

ShrinkPublish ==
    /\ pc = "shrunk"
    /\ Publish(ShrunkCapacity, CopyRange(t, b, ShrunkCapacity))
    /\ pc' = "idle"
    /\ UNCHANGED <<top_, bottom_, b, t, val, thiefVars, pushed, returned>>

------------------------------------------------------------------------------
(* Steal by thief h: top_, bottom_, active_array_, the slot, then the CAS   *)
(* that claims it; a lost CAS starts over.                                  *)
StealLoadTop(h) ==
    /\ tpc[h] \in {"idle", "retry"}
    /\ tt' = [tt EXCEPT ![h] = top_]
    /\ tpc' = [tpc EXCEPT ![h] = "bottom"]
    /\ UNCHANGED <<top_, bottom_, arrays, active_array_, ownerVars, ta, tval, pushed, returned>>

StealLoadBottom(h) ==
    /\ tpc[h] = "bottom"
    /\ tpc' = [tpc EXCEPT ![h] = IF tt[h] < bottom_ THEN "array" ELSE "idle"]
    /\ UNCHANGED <<top_, bottom_, arrays, active_array_, ownerVars, tt, ta, tval, pushed, returned>>

StealLoadArray(h) ==
    /\ tpc[h] = "array"
    /\ ta' = [ta EXCEPT ![h] = active_array_]
    /\ tpc' = [tpc EXCEPT ![h] = "get"]
    /\ UNCHANGED <<top_, bottom_, arrays, active_array_, ownerVars, tt, tval, pushed, returned>>

StealGet(h) ==
    /\ tpc[h] = "get"
    /\ tval' = [tval EXCEPT ![h] = Get(ta[h], tt[h])]
    /\ tpc' = [tpc EXCEPT ![h] = "cas"]
    /\ UNCHANGED <<top_, bottom_, arrays, active_array_, ownerVars, tt, ta, pushed, returned>>

(* Mutant: a lost CAS is retried with the same expected value.              *)
StealSpins(h) ==
    /\ tpc[h] = "cas"
    /\ \/ /\ top_ = tt[h]
          /\ top_' = top_ + 1 /\ Return(tval[h])
          /\ tpc' = [tpc EXCEPT ![h] = "idle"]
       \/ /\ top_ # tt[h]
          /\ UNCHANGED <<top_, returned, tpc>>
    /\ UNCHANGED <<bottom_, arrays, active_array_, ownerVars, tt, ta, tval, pushed>>

StealCas(h) ==
    /\ tpc[h] = "cas"
    /\ \/ /\ top_ = tt[h]
          /\ top_' = top_ + 1 /\ Return(tval[h])
          /\ tpc' = [tpc EXCEPT ![h] = "idle"]
       \/ /\ top_ # tt[h]
          /\ UNCHANGED <<top_, returned>>
          /\ tpc' = [tpc EXCEPT ![h] = "retry"]
    /\ UNCHANGED <<bottom_, arrays, active_array_, ownerVars, tt, ta, tval, pushed>>

------------------------------------------------------------------------------
OwnerStep ==
    \/ Resize \/ PushSet \/ PushPublish
    \/ PopLoadTop \/ PopCas \/ PopRestore
    \/ MaybeShrink \/ ShrinkPublish

StealStep(h) ==
    StealLoadTop(h) \/ StealLoadBottom(h) \/ StealLoadArray(h) \/ StealGet(h) \/ StealCas(h)

Next ==
    \/ \E item \in Items : Push(item)
    \/ Pop
    \/ OwnerStep
    \/ \E h \in Thieves : StealStep(h)

Spec == Init /\ [][Next]_vars

(* A thread that is inside a call keeps taking steps; nobody has to start   *)
(* another call.                                                            *)
Fairness ==
    /\ WF_vars(OwnerStep)
    /\ \A h \in Thieves : WF_vars(tpc[h] # "idle" /\ StealStep(h))

FairSpec == Spec /\ Fairness

------------------------------------------------------------------------------
(* The index after the last item of the deque: a reserved slot still counts *)
(* until the load or the CAS of top_ in Pop decides who gets it.            *)
Bottom == IF pc \in {"reserved", "cas", "restore", "lost"} THEN bottom_ + 1 ELSE bottom_

(* The item at index i, and the contents of the deque, top first.           *)
At(i) == Get(active_array_, i)
Live == top_..(Bottom - 1)
Contents == [k \in 1..(Bottom - top_) |-> At(top_ + k - 1)]

(* Every variable has its type; every array has as many slots as its        *)
(* capacity says, and the active one is the newest.                         *)
TypeOK ==
    /\ top_ \in Nat /\ bottom_ \in Int /\ active_array_ \in Nat \ {0}
    /\ DOMAIN capacity = 1..active_array_ /\ DOMAIN buffer = 1..active_array_
    /\ \A a \in 1..active_array_ :
         /\ capacity[a] \in Nat \ {0}
         /\ buffer[a] \in [0..(capacity[a] - 1) -> Items \cup {None}]
    /\ pc \in {"idle", "resize", "set", "publish", "reserved", "cas", "restore", "lost",
               "shrink", "shrunk"}
    /\ b \in Int /\ t \in Nat /\ val \in Items \cup {None}
    /\ tpc \in [Thieves -> {"idle", "retry", "bottom", "array", "get", "cas"}]
    /\ tt \in [Thieves -> Nat] /\ tval \in [Thieves -> Items \cup {None}]
    /\ ta \in [Thieves -> 1..active_array_]
    /\ pushed \subseteq Items /\ returned \in [Items -> Nat]

(* Every pushed item is either in the deque, once and not yet returned, or  *)
(* was returned to exactly one caller of Pop or Steal: the races of Pop     *)
(* with Steal, of two Steals, and of either with the replacement of the     *)
(* array neither lose a task nor run it twice.                              *)
ExactlyOnce ==
    /\ top_ <= Bottom
    /\ \A i \in Live : At(i) \in pushed /\ returned[At(i)] = 0
    /\ \A i, j \in Live : At(i) = At(j) => i = j
    /\ \A x \in pushed : returned[x] = 1 \/ \E i \in Live : At(i) = x
    /\ \A x \in Items \ pushed : returned[x] = 0

(* Pop reports an empty deque only when the deque is empty at its return.   *)
EmptyPopIsEmpty ==
    pc \in {"restore", "lost"} => top_ = bottom_ + 1

(* mask_ = capacity - 1 selects a slot only if the capacity is a power of   *)
(* two: doubling in Resize and halving in MaybeShrink keep it one, and the  *)
(* live items always fit.                                                   *)
CapacityIsPowerOfTwo ==
    /\ \A a \in 1..active_array_ : IsPowerOfTwo(capacity[a])
    /\ Bottom - top_ <= Capacity

(* The deque is linearizable: every step of the code is a step of the       *)
(* atomic deque or leaves it unchanged.                                     *)
Atomic == INSTANCE Deque WITH items <- Contents
AtomicSpec == Atomic!Spec

(* No thief is inside a Steal for ever, however often it loses the CAS:    *)
(* each loss means that another thread took an item.                        *)
StealReturns == \A h \in Thieves : []<>(tpc[h] = "idle")
==============================================================================
