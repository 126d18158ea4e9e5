---------------------- MODULE WorkStealingDequeProofs ----------------------
(* WorkStealingDeque keeps ExactlyOnce and the powers of two, and           *)
(* implements Deque, for any set of items, any number of thieves and any    *)
(* capacities.                                                              *)
EXTENDS WorkStealingDeque, SequenceTheorems, TLAPS

(* What the owner knows while it is inside a call.                          *)
OwnerInv ==
    /\ pc \in {"resize", "set", "publish"} =>
         b = bottom_ /\ t <= top_ /\ val \in Items \ pushed
    /\ pc = "resize" => b - t <= Capacity
    /\ pc \in {"set", "publish"} => b - t < Capacity
    /\ pc = "publish" => At(b) = val
    /\ pc \in {"reserved", "cas", "restore", "lost"} => b = bottom_
    /\ pc = "cas" => t = b /\ top_ >= b /\ (top_ = b => val = At(b))
    /\ pc \in {"restore", "lost"} => top_ = b + 1
    /\ pc = "shrunk" => b = bottom_ /\ t <= top_ /\ b - t <= ShrunkCapacity

(* What a thief knows: as long as top_ is what it read, the item there is   *)
(* in the deque, and the array and the value it read are not stale.         *)
ThiefInv ==
    \A h \in Thieves :
      /\ tpc[h] \in {"bottom", "array", "get", "cas"} => tt[h] <= top_
      /\ tpc[h] \in {"array", "get", "cas"} /\ tt[h] = top_ => top_ < Bottom
      /\ tpc[h] = "get" /\ tt[h] = top_ => Get(ta[h], top_) = At(top_)
      /\ tpc[h] = "cas" /\ tt[h] = top_ => tval[h] = At(top_)

IInv ==
    /\ TypeOK /\ OwnerInv /\ ThiefInv /\ ExactlyOnce
    /\ Bottom - top_ <= Capacity

------------------------------------------------------------------------------
(* Slots: two indices less than a capacity apart have different slots.      *)
LEMMA ModRange ==
    ASSUME NEW c \in Nat \ {0}, NEW i \in Int
    PROVE  i % c \in 0..(c - 1)
  BY SMT

LEMMA ModDistinct ==
    ASSUME NEW c \in Nat \ {0}, NEW i \in Int, NEW j \in Int, i < j, j - i < c
    PROVE  i % c # j % c
<1>1. i = c * (i \div c) + (i % c) /\ i \div c \in Int /\ i % c \in 0..(c - 1)
  BY SMT
<1>2. j = c * (j \div c) + (j % c) /\ j \div c \in Int /\ j % c \in 0..(c - 1)
  BY SMT
<1>3. SUFFICES ASSUME i % c = j % c PROVE FALSE
  OBVIOUS
<1> DEFINE k == (j \div c) - (i \div c)
<1>4. k \in Int /\ j - i = c * k
  BY <1>1, <1>2, <1>3
<1>5. k <= 0 \/ k >= 1
  BY <1>4
<1> HIDE DEF k
<1>6. CASE k <= 0
  BY <1>4, <1>6
<1>7. CASE k >= 1
  BY <1>4, <1>7
<1>8. QED
  BY <1>5, <1>6, <1>7

(* The indices lo..hi-1 fit into an array of hi - lo slots or more.         *)
LEMMA SlotUnique ==
    ASSUME NEW c \in Nat \ {0}, NEW lo \in Int, NEW hi \in Int, hi - lo <= c,
           NEW i \in lo..(hi - 1), NEW j \in lo..(hi - 1), i % c = j % c
    PROVE  i = j
<1>1. CASE i < j
  <2>1. j - i < c /\ i \in Int /\ j \in Int
    OBVIOUS
  <2> QED  BY <1>1, <2>1, ModDistinct
<1>2. CASE j < i
  <2>1. i - j < c /\ i \in Int /\ j \in Int
    OBVIOUS
  <2> QED  BY <1>2, <2>1, ModDistinct
<1>3. i < j \/ j < i \/ i = j
  OBVIOUS
<1> QED  BY <1>1, <1>2, <1>3

(* Get reads a slot of the array.                                           *)
LEMMA GetType ==
    ASSUME TypeOK, NEW a \in 1..active_array_, NEW i \in Int
    PROVE  Get(a, i) \in Items \cup {None}
  BY ModRange DEF TypeOK, Get

(* CopyRange keeps every index it copies.                                   *)
LEMMA CopyRangeGet ==
    ASSUME TypeOK, NEW c \in Nat \ {0}, NEW lo \in Int, NEW hi \in Int, hi - lo <= c
    PROVE  /\ CopyRange(lo, hi, c) \in [0..(c - 1) -> Items \cup {None}]
           /\ \A i \in lo..(hi - 1) : CopyRange(lo, hi, c)[i % c] = At(i)
<1> DEFINE Src(s) == CHOOSE i \in lo..(hi - 1) : i % c = s
<1>1. ASSUME NEW s, NEW i \in lo..(hi - 1), i % c = s
      PROVE  Src(s) = i
  <2>1. Src(s) \in lo..(hi - 1) /\ Src(s) % c = s
    BY <1>1
  <2> HIDE DEF Src
  <2> QED  BY <1>1, <2>1, SlotUnique
<1>2. ASSUME NEW s \in 0..(c - 1), \E i \in lo..(hi - 1) : i % c = s
      PROVE  Src(s) \in Int /\ Get(active_array_, Src(s)) \in Items \cup {None}
  <2>1. PICK i \in lo..(hi - 1) : i % c = s
    BY <1>2
  <2>2. Src(s) = i
    BY <1>1, <2>1
  <2>3. active_array_ \in 1..active_array_
    BY DEF TypeOK
  <2> HIDE DEF Src
  <2> QED  BY <2>2, <2>3, GetType
<1>3. CopyRange(lo, hi, c) = [s \in 0..(c - 1) |->
        IF \E i \in lo..(hi - 1) : i % c = s THEN Get(active_array_, Src(s)) ELSE None]
  BY DEF CopyRange
<1> HIDE DEF Src
<1>4. CopyRange(lo, hi, c) \in [0..(c - 1) -> Items \cup {None}]
  BY <1>2, <1>3
<1>5. ASSUME NEW i \in lo..(hi - 1)
      PROVE  CopyRange(lo, hi, c)[i % c] = At(i)
  <2>1. i % c \in 0..(c - 1)
    BY ModRange
  <2>2. Src(i % c) = i
    BY <1>1
  <2> QED  BY <1>3, <2>1, <2>2 DEF At
<1> QED  BY <1>4, <1>5

------------------------------------------------------------------------------
(* A step that keeps the two ends and the items between them.               *)
LEMMA SameContents ==
    ASSUME ExactlyOnce, UNCHANGED <<top_, pushed, returned>>, Bottom' = Bottom,
           \A i \in Live : At(i)' = At(i)
    PROVE  ExactlyOnce'
<1>1. Live' = Live
  BY DEF Live
<1> QED  BY <1>1 DEF ExactlyOnce

LEMMA SameArrays ==
    ASSUME UNCHANGED <<arrays, active_array_>>
    PROVE  Capacity' = Capacity /\ \A i : At(i)' = At(i) /\ \A a : Get(a, i)' = Get(a, i)
  BY DEF arrays, Capacity, At, Get

(* A step that keeps top_ and the arrays keeps what the thieves know.       *)
LEMMA SameThieves ==
    ASSUME ThiefInv, UNCHANGED <<thiefVars, arrays, active_array_, top_>>,
           top_ < Bottom => top_ < Bottom'
    PROVE  ThiefInv'
<1>1. \A i : At(i)' = At(i) /\ \A a : Get(a, i)' = Get(a, i)
  BY SameArrays
<1> QED  BY <1>1 DEF ThiefInv, thiefVars

(* Publish adds an array and touches no other.                              *)
LEMMA PublishType ==
    ASSUME TypeOK, NEW c \in Nat \ {0}, NEW buf \in [0..(c - 1) -> Items \cup {None}],
           Publish(c, buf)
    PROVE  /\ active_array_' \in Nat \ {0}
           /\ DOMAIN capacity' = 1..active_array_' /\ DOMAIN buffer' = 1..active_array_'
           /\ \A a \in (1..active_array_)' :
                /\ capacity'[a] \in Nat \ {0}
                /\ buffer'[a] \in [0..(capacity'[a] - 1) -> Items \cup {None}]
           /\ \A h \in Thieves : ta[h] \in (1..active_array_)'
  BY DEF TypeOK, Publish

LEMMA PublishKeeps ==
    ASSUME IInv, NEW c \in Nat \ {0}, NEW lo \in Int, NEW hi \in Int, hi - lo <= c,
           lo <= top_, hi = Bottom, Publish(c, CopyRange(lo, hi, c))
    PROVE  /\ Capacity' = c
           /\ \A i \in Live : At(i)' = At(i)
           /\ \A a \in 1..active_array_ : \A i : Get(a, i)' = Get(a, i)
<1> DEFINE buf == CopyRange(lo, hi, c)
<1>1. TypeOK
  BY DEF IInv
<1>2. /\ active_array_' = active_array_ + 1 /\ active_array_ \in Nat \ {0}
      /\ capacity'[active_array_'] = c /\ buffer'[active_array_'] = buf
      /\ \A a \in 1..active_array_ : capacity'[a] = capacity[a] /\ buffer'[a] = buffer[a]
  BY <1>1 DEF Publish, TypeOK
<1>3. Capacity' = c
  BY <1>2 DEF Capacity
<1>4. \A i \in lo..(hi - 1) : buf[i % c] = At(i)
  BY <1>1, CopyRangeGet
<1>5. \A i \in Live : i \in lo..(hi - 1)
  BY <1>1 DEF Live, TypeOK, Bottom
<1>6. \A i : At(i)' = buf[i % c]
  BY <1>2 DEF At, Get
<1> HIDE DEF buf
<1>7. \A i \in Live : At(i)' = At(i)
  BY <1>4, <1>5, <1>6
<1>8. \A a \in 1..active_array_ : \A i : Get(a, i)' = Get(a, i)
  BY <1>2 DEF Get
<1> QED  BY <1>3, <1>7, <1>8

(* The step that publishes a copy of the live items keeps the invariant.    *)
LEMMA PublishStep ==
    ASSUME IInv, NEW c \in Nat \ {0}, NEW lo \in Int, NEW hi \in Int, hi - lo <= c,
           lo <= top_, hi = Bottom, Publish(c, CopyRange(lo, hi, c)), Bottom' = Bottom,
           UNCHANGED <<top_, thiefVars, pushed, returned>>
    PROVE  ThiefInv' /\ ExactlyOnce' /\ (Bottom - top_ <= Capacity)'
<1>1. /\ Capacity' = c
      /\ \A i \in Live : At(i)' = At(i)
      /\ \A a \in 1..active_array_ : \A i : Get(a, i)' = Get(a, i)
  BY PublishKeeps
<1>2. ExactlyOnce'
  BY <1>1, SameContents DEF IInv
<1>3. top_ < Bottom => top_ \in Live
  BY DEF IInv, TypeOK, Live, Bottom
<1>4. ThiefInv'
  BY <1>1, <1>3 DEF IInv, TypeOK, ThiefInv, thiefVars
<1>5. (Bottom - top_ <= Capacity)'
  BY <1>1 DEF IInv, TypeOK, Bottom
<1> QED  BY <1>2, <1>4, <1>5

------------------------------------------------------------------------------
LEMMA PushStep ==
    ASSUME IInv, NEW item \in Items, Push(item)
    PROVE  IInv'
<1>1. UNCHANGED <<top_, bottom_, arrays, active_array_, thiefVars, pushed, returned>>
  BY DEF Push
<1>2. Bottom' = Bottom /\ Capacity' = Capacity
  BY <1>1, SameArrays DEF Push, Bottom
<1>3. TypeOK'
  BY <1>1, SMTT(30) DEF IInv, TypeOK, Push, arrays, thiefVars, ExactlyOnce
<1>4. Capacity \in Nat \ {0}
  BY DEF IInv, TypeOK, Capacity
<1>5. OwnerInv'
  BY <1>1, <1>2, <1>4 DEF IInv, TypeOK, Push, OwnerInv, Bottom
<1>6. ThiefInv'
  BY <1>1, <1>2, SameThieves DEF IInv
<1>7. ExactlyOnce'
  BY <1>1, <1>2, SameArrays, SameContents DEF IInv
<1> QED  BY <1>1, <1>2, <1>3, <1>5, <1>6, <1>7 DEF IInv

LEMMA ResizeStep ==
    ASSUME IInv, Resize
    PROVE  IInv'
<1> DEFINE c == 2 * Capacity
<1>1. Capacity \in Nat \ {0} /\ c \in Nat \ {0} /\ t \in Int /\ b \in Int
  BY DEF IInv, TypeOK, Capacity
<1>2. b - t <= c /\ t <= top_ /\ b = Bottom /\ Bottom' = Bottom
  <2>1. pc = "resize" /\ pc' = "set" /\ bottom_' = bottom_ /\ b = bottom_ /\ t <= top_ /\ b - t <= Capacity
    BY DEF IInv, Resize, OwnerInv
  <2>2. b = Bottom /\ Bottom' = Bottom
    BY <2>1 DEF Bottom
  <2> QED  BY <1>1, <2>1, <2>2
<1>3. Publish(c, CopyRange(t, b, c)) /\ UNCHANGED <<top_, bottom_, thiefVars, pushed, returned>>
  BY DEF Resize
<1>4. CopyRange(t, b, c) \in [0..(c - 1) -> Items \cup {None}]
  BY <1>1, <1>2, CopyRangeGet DEF IInv
<1>5. Capacity' = c
  BY <1>1, <1>2, <1>3, PublishKeeps
<1>6. ThiefInv' /\ ExactlyOnce' /\ (Bottom - top_ <= Capacity)'
  BY <1>1, <1>2, <1>3, PublishStep
<1> HIDE DEF c
<1>7. TypeOK'
  BY <1>1, <1>3, <1>4, PublishType DEF IInv, TypeOK, Resize, thiefVars
<1>8. OwnerInv'
  <2>1. b - t < c
    BY <1>1 DEF IInv, Resize, OwnerInv, TypeOK, c
  <2> QED  BY <1>5, <2>1 DEF IInv, Resize, OwnerInv
<1> QED  BY <1>6, <1>7, <1>8 DEF IInv

(* The slot that Push writes holds no live item.                            *)
LEMMA PushSetStep ==
    ASSUME IInv, PushSet
    PROVE  IInv' /\ \A i \in Live : At(i)' = At(i)
<1> DEFINE c == Capacity
<1>1. c \in Nat \ {0} /\ active_array_ \in 1..active_array_
  BY DEF IInv, TypeOK, Capacity
<1>2. /\ b = bottom_ /\ t <= top_ /\ val \in Items \ pushed /\ b - t < c
      /\ Bottom = b /\ Bottom' = b /\ b - top_ < c
  BY <1>1 DEF IInv, PushSet, OwnerInv, Bottom, TypeOK
<1>3. UNCHANGED <<top_, bottom_, capacity, active_array_, b, t, val, thiefVars, pushed, returned>>
  BY DEF PushSet
<1>4. b % c \in 0..(c - 1)
  BY <1>1, ModRange DEF IInv, TypeOK
<1>5. buffer' = [buffer EXCEPT ![active_array_] = [buffer[active_array_] EXCEPT ![b % c] = val]]
  BY <1>1 DEF PushSet, IInv, TypeOK
<1>6. buffer[active_array_] \in [0..(c - 1) -> Items \cup {None}]
  BY <1>1 DEF IInv, TypeOK, Capacity
<1>7. TypeOK'
  BY <1>1, <1>2, <1>3, <1>4, <1>5, <1>6 DEF IInv, TypeOK, PushSet, thiefVars, Capacity
<1>8. Capacity' = c /\ At(b)' = val
  BY <1>1, <1>3, <1>4, <1>5, <1>6 DEF IInv, TypeOK, Capacity, At, Get
<1>9. ASSUME NEW i \in Live
      PROVE  i % c # b % c
  <2>1. i \in Int /\ b \in Int /\ i < b /\ b - i < c
    BY <1>1, <1>2 DEF IInv, TypeOK, Live
  <2> HIDE DEF c
  <2> QED  BY <1>1, <2>1, ModDistinct
<1>10. ASSUME NEW i \in Live, NEW a \in 1..active_array_
       PROVE  Get(a, i)' = Get(a, i)
  <2>1. i % c # b % c
    BY <1>9
  <2>2. CASE a = active_array_
    <3>1. buffer'[a] = [buffer[a] EXCEPT ![b % c] = val] /\ capacity'[a] = c /\ capacity[a] = c
      BY <1>3, <1>5, <2>2 DEF IInv, TypeOK, Capacity
    <3>2. i \in Int
      BY DEF IInv, TypeOK, Live, Bottom
    <3> HIDE DEF c
    <3>3. i % c \in 0..(c - 1)
      BY <1>1, <3>2, ModRange
    <3>4. Get(a, i)' = buffer'[a][i % c] /\ Get(a, i) = buffer[a][i % c]
      BY <3>1 DEF Get
    <3> QED  BY <1>6, <2>1, <2>2, <3>1, <3>3, <3>4
  <2>3. CASE a # active_array_
    BY <1>3, <1>5, <2>3 DEF IInv, TypeOK, Get
  <2> QED  BY <2>2, <2>3
<1>11. \A i \in Live : At(i)' = At(i)
  BY <1>1, <1>3, <1>10 DEF At
<1>12. OwnerInv'
  BY <1>2, <1>3, <1>8 DEF IInv, PushSet, OwnerInv
<1>13. ThiefInv'
  <2>1. top_ < Bottom => top_ \in Live
    BY <1>2 DEF IInv, TypeOK, Live
  <2> QED  BY <1>2, <1>3, <1>10, <1>11, <2>1 DEF IInv, TypeOK, ThiefInv, thiefVars
<1>14. ExactlyOnce'
  BY <1>2, <1>3, <1>11, SameContents DEF IInv
<1> QED  BY <1>2, <1>3, <1>7, <1>8, <1>11, <1>12, <1>13, <1>14 DEF IInv

LEMMA PushPublishStep ==
    ASSUME IInv, PushPublish
    PROVE  IInv'
<1>1. UNCHANGED <<top_, arrays, active_array_, thiefVars, returned>> /\ pushed' = pushed \cup {val}
  BY DEF PushPublish
<1>2. /\ Bottom = b /\ Bottom' = b + 1 /\ b - top_ < Capacity /\ top_ <= b
      /\ val \in Items \ pushed /\ At(b) = val
  BY DEF IInv, OwnerInv, PushPublish, Bottom, TypeOK, ExactlyOnce, Capacity
<1>3. TypeOK'
  BY <1>1, <1>2 DEF IInv, TypeOK, PushPublish, arrays, thiefVars
<1>4. OwnerInv'
  BY DEF PushPublish, OwnerInv
<1>5. ThiefInv'
  BY <1>1, <1>2, SameThieves DEF IInv, TypeOK
<1>6. ExactlyOnce'
  <2>1. Live' = Live \cup {b} /\ b \notin Live
    BY <1>1, <1>2 DEF Live, IInv, TypeOK
  <2>2. \A i : At(i)' = At(i)
    BY <1>1, SameArrays
  <2>3. returned[val] = 0 /\ top_' <= Bottom'
    BY <1>1, <1>2 DEF IInv, ExactlyOnce, TypeOK
  <2> QED  BY <1>1, <1>2, <2>1, <2>2, <2>3 DEF IInv, ExactlyOnce
<1>7. (Bottom - top_ <= Capacity)'
  BY <1>1, <1>2, SameArrays DEF IInv, TypeOK, Capacity
<1> QED  BY <1>3, <1>4, <1>5, <1>6, <1>7 DEF IInv

------------------------------------------------------------------------------
(* Return counts one more delivery.                                         *)
LEMMA ReturnType ==
    ASSUME TypeOK, NEW x \in Items \cup {None}, Return(x)
    PROVE  returned' \in [Items -> Nat]
<1>1. returned \in [Items -> Nat]
  BY DEF TypeOK
<1>2. CASE x \in Items
  BY <1>1, <1>2 DEF Return
<1>3. CASE x \notin Items
  BY <1>1, <1>3 DEF Return
<1> QED  BY <1>2, <1>3

(* One item leaves the deque and is handed to a caller.                     *)
LEMMA RemoveOne ==
    ASSUME TypeOK, ExactlyOnce, NEW k \in Live, Live' = Live \ {k}, Return(At(k)),
           UNCHANGED <<arrays, active_array_, pushed>>, top_' <= Bottom'
    PROVE  ExactlyOnce'
<1>1. \A i : At(i)' = At(i)
  BY SameArrays
<1>2. At(k) \in pushed /\ returned[At(k)] = 0 /\ \A i \in Live \ {k} : At(i) # At(k)
  BY DEF ExactlyOnce
<1>3. returned' \in [Items -> Nat] /\ \A x \in Items : returned'[x] = IF x = At(k) THEN 1 ELSE returned[x]
  BY <1>2 DEF Return, TypeOK
<1>4. \A i \in Live' : At(i)' \in pushed' /\ returned'[At(i)'] = 0
  BY <1>1, <1>2, <1>3 DEF ExactlyOnce, TypeOK
<1>5. \A x \in pushed' : returned'[x] = 1 \/ \E i \in Live' : At(i)' = x
  BY <1>1, <1>2, <1>3 DEF ExactlyOnce, TypeOK
<1>6. \A x \in Items \ pushed' : returned'[x] = 0
  BY <1>2, <1>3 DEF ExactlyOnce
<1>7. \A i, j \in Live' : At(i)' = At(j)' => i = j
  BY <1>1 DEF ExactlyOnce
<1> QED  BY <1>4, <1>5, <1>6, <1>7 DEF ExactlyOnce

LEMMA PopStep ==
    ASSUME IInv, Pop
    PROVE  IInv'
<1>1. UNCHANGED <<top_, arrays, active_array_, thiefVars, pushed, returned>> /\ Bottom' = Bottom
  BY DEF Pop, Bottom, IInv, TypeOK
<1>2. TypeOK'
  BY <1>1 DEF IInv, TypeOK, Pop, arrays, thiefVars
<1>3. OwnerInv'
  BY DEF Pop, OwnerInv
<1>4. ThiefInv'
  BY <1>1, SameThieves DEF IInv
<1>5. ExactlyOnce' /\ (Bottom - top_ <= Capacity)'
  BY <1>1, SameArrays, SameContents DEF IInv
<1> QED  BY <1>2, <1>3, <1>4, <1>5 DEF IInv

(* The three cases of Pop: the owner's item, the last item, no item.        *)
LEMMA PopLoadTopStep ==
    ASSUME IInv, PopLoadTop
    PROVE  IInv'
<1>1. UNCHANGED <<top_, bottom_, arrays, active_array_, b, thiefVars, pushed>> /\ t' = top_
  BY DEF PopLoadTop
<1>2. /\ b = bottom_ /\ Bottom = b + 1 /\ top_ <= b + 1 /\ b \in Int /\ top_ \in Nat
      /\ pc' \in {"shrink", "cas", "restore"}
      /\ pc' = "shrink" => Bottom' = b
      /\ pc' # "shrink" => Bottom' = b + 1
  BY <1>1 DEF IInv, OwnerInv, PopLoadTop, Bottom, TypeOK, ExactlyOnce
<1>3. /\ \A i : At(i)' = At(i) /\ (top_ <= b => At(b) \in Items)
      /\ Capacity' = Capacity /\ Capacity \in Nat
  <2>1. top_ <= b => b \in Live
    BY <1>2 DEF Live
  <2> QED  BY <1>1, <2>1, SameArrays DEF IInv, ExactlyOnce, TypeOK, Capacity
<1>4. TypeOK'
  <2>1. returned' \in [Items -> Nat]
    <3>1. (top_ <= b /\ Return(At(b))) \/ UNCHANGED returned
      BY <1>2 DEF PopLoadTop, At
    <3> QED  BY <1>3, <3>1, ReturnType DEF IInv, TypeOK
  <2>2. val' \in Items \cup {None}
    BY <1>2, <1>3 DEF PopLoadTop, At
  <2> QED  BY <1>1, <1>2, <2>1, <2>2 DEF IInv, TypeOK, arrays, thiefVars
<1>5. OwnerInv'
  BY <1>1, <1>2, <1>3 DEF PopLoadTop, OwnerInv, At
<1>6. ThiefInv'
  BY <1>1, <1>2, SameThieves DEF IInv, PopLoadTop
<1>7. ExactlyOnce'
  <2>1. CASE pc' = "shrink"
    <3>1. top_ < b /\ Return(At(b)) /\ b \in Live /\ Live' = Live \ {b}
      BY <1>1, <1>2, <2>1 DEF PopLoadTop, At, Live
    <3> QED  BY <1>1, <1>2, <2>1, <3>1, RemoveOne DEF IInv
  <2>2. CASE pc' # "shrink"
    <3>1. UNCHANGED returned
      BY <2>2 DEF PopLoadTop
    <3> QED  BY <1>1, <1>2, <1>3, <2>2, <3>1, SameContents DEF IInv
  <2> QED  BY <2>1, <2>2
<1>8. (Bottom - top_ <= Capacity)'
  BY <1>1, <1>2, <1>3 DEF IInv
<1> QED  BY <1>4, <1>5, <1>6, <1>7, <1>8 DEF IInv

LEMMA PopCasStep ==
    ASSUME IInv, PopCas
    PROVE  IInv'
<1>1. UNCHANGED <<bottom_, arrays, active_array_, b, t, thiefVars, pushed>>
  BY DEF PopCas
<1>2. /\ b = bottom_ /\ t = b /\ Bottom = b + 1 /\ Bottom' = b + 1
      /\ top_ >= b /\ top_ <= b + 1 /\ top_ \in Nat /\ b \in Int
      /\ top_' = b + 1 /\ pc' \in {"restore", "lost"}
  BY <1>1 DEF IInv, OwnerInv, PopCas, Bottom, TypeOK, ExactlyOnce
<1>3. /\ \A i : At(i)' = At(i) /\ \A a : Get(a, i)' = Get(a, i)
      /\ Capacity' = Capacity /\ Capacity \in Nat
  BY <1>1, SameArrays DEF IInv, TypeOK, Capacity
<1>4. TypeOK'
  <2>0. TypeOK /\ val \in Items \cup {None} /\ returned \in [Items -> Nat]
    BY DEF IInv, TypeOK
  <2>1. CASE top_ = t
    <3>1. Return(val) /\ val' = val
      BY <2>1 DEF PopCas
    <3>2. returned' \in [Items -> Nat]
      BY <2>0, <3>1, ReturnType
    <3> QED  BY <2>0, <3>1, <3>2, <1>1, <1>2 DEF TypeOK, arrays, thiefVars
  <2>2. CASE top_ # t
    <3>1. returned' = returned /\ val' = None
      BY <2>2 DEF PopCas
    <3> QED  BY <2>0, <3>1, <1>1, <1>2 DEF TypeOK, arrays, thiefVars
  <2> QED  BY <2>1, <2>2
<1>5. OwnerInv'
  BY <1>1, <1>2 DEF OwnerInv
<1>6. ThiefInv'
  BY <1>1, <1>2, <1>3 DEF IInv, TypeOK, ThiefInv, thiefVars
<1>7. ExactlyOnce'
  <2>1. CASE top_ = t
    <3>1. Return(At(b)) /\ b \in Live /\ Live' = Live \ {b}
      BY <1>2, <2>1 DEF PopCas, Live, IInv, OwnerInv
    <3> QED  BY <1>1, <1>2, <3>1, RemoveOne DEF IInv
  <2>2. CASE top_ # t
    <3>1. UNCHANGED <<top_, returned>>
      BY <2>2 DEF PopCas
    <3> QED  BY <1>1, <1>2, <1>3, <3>1, SameContents DEF IInv
  <2> QED  BY <2>1, <2>2
<1>8. (Bottom - top_ <= Capacity)'
  BY <1>2, <1>3
<1> QED  BY <1>4, <1>5, <1>6, <1>7, <1>8 DEF IInv

LEMMA PopRestoreStep ==
    ASSUME IInv, PopRestore
    PROVE  IInv'
<1>1. UNCHANGED <<top_, arrays, active_array_, b, t, val, thiefVars, pushed, returned>>
  BY DEF PopRestore
<1>2. Bottom' = Bottom /\ pc' \in {"idle", "shrink"}
  BY DEF IInv, OwnerInv, PopRestore, Bottom, TypeOK
<1>3. TypeOK'
  BY <1>1, <1>2 DEF IInv, TypeOK, PopRestore, arrays, thiefVars
<1>4. OwnerInv'
  BY <1>2 DEF OwnerInv
<1>5. ThiefInv'
  BY <1>1, <1>2, SameThieves DEF IInv
<1>6. ExactlyOnce' /\ (Bottom - top_ <= Capacity)'
  BY <1>1, <1>2, SameArrays, SameContents DEF IInv
<1> QED  BY <1>3, <1>4, <1>5, <1>6 DEF IInv

(* A quarter of the capacity fits into the smaller array.                   *)
LEMMA MaybeShrinkStep ==
    ASSUME IInv, MaybeShrink
    PROVE  IInv'
<1>1. UNCHANGED <<top_, bottom_, arrays, active_array_, thiefVars, pushed, returned>>
  BY DEF MaybeShrink
<1>2. /\ Bottom = bottom_ /\ Bottom' = bottom_ /\ Capacity \in Nat \ {0} /\ Capacity' = Capacity
      /\ ShrunkCapacity' = ShrunkCapacity /\ pc' \in {"idle", "shrunk"}
  BY <1>1, SameArrays DEF IInv, MaybeShrink, Bottom, TypeOK, Capacity, ShrunkCapacity
<1>3. TypeOK'
  BY <1>1, <1>2 DEF IInv, TypeOK, MaybeShrink, arrays, thiefVars
<1>4. pc' = "shrunk" => bottom_ - top_ <= ShrunkCapacity
  BY <1>2, DequeAssumption DEF MaybeShrink, CurrentSize, ShrunkCapacity, IInv, TypeOK
<1>5. OwnerInv'
  BY <1>1, <1>2, <1>4 DEF MaybeShrink, OwnerInv, IInv, TypeOK
<1>6. ThiefInv'
  BY <1>1, <1>2, SameThieves DEF IInv
<1>7. ExactlyOnce' /\ (Bottom - top_ <= Capacity)'
  BY <1>1, <1>2, SameArrays, SameContents DEF IInv
<1> QED  BY <1>3, <1>5, <1>6, <1>7 DEF IInv

LEMMA ShrinkPublishStep ==
    ASSUME IInv, ShrinkPublish
    PROVE  IInv'
<1> DEFINE c == ShrunkCapacity
<1>1. c \in Nat \ {0} /\ t \in Int /\ b \in Int
  BY DequeAssumption DEF IInv, TypeOK, Capacity, ShrunkCapacity
<1>2. b - t <= c /\ t <= top_ /\ b = Bottom /\ Bottom' = Bottom
  BY DEF IInv, ShrinkPublish, OwnerInv, Bottom
<1>3. Publish(c, CopyRange(t, b, c)) /\ UNCHANGED <<top_, bottom_, thiefVars, pushed, returned>>
  BY DEF ShrinkPublish
<1> HIDE DEF c
<1>4. CopyRange(t, b, c) \in [0..(c - 1) -> Items \cup {None}]
  BY <1>1, <1>2, CopyRangeGet DEF IInv
<1>5. ThiefInv' /\ ExactlyOnce' /\ (Bottom - top_ <= Capacity)'
  BY <1>1, <1>2, <1>3, PublishStep
<1>6. TypeOK'
  BY <1>1, <1>3, <1>4, PublishType DEF IInv, TypeOK, ShrinkPublish, thiefVars
<1>7. OwnerInv'
  BY DEF ShrinkPublish, OwnerInv
<1> QED  BY <1>5, <1>6, <1>7 DEF IInv

------------------------------------------------------------------------------
(* The steps of Steal before the CAS change only the thief's own locals.    *)
LEMMA StealFrame ==
    ASSUME IInv, UNCHANGED <<top_, bottom_, arrays, active_array_, ownerVars, pushed, returned>>,
           TypeOK', ThiefInv'
    PROVE  IInv'
<1>1. Bottom' = Bottom /\ Capacity' = Capacity /\ ShrunkCapacity' = ShrunkCapacity
  BY SameArrays DEF Bottom, ownerVars, ShrunkCapacity
<1>2. \A i : At(i)' = At(i)
  BY SameArrays
<1>3. OwnerInv'
  BY <1>1, <1>2 DEF IInv, OwnerInv, ownerVars
<1>4. ExactlyOnce'
  BY <1>1, <1>2, SameContents DEF IInv
<1> QED  BY <1>1, <1>3, <1>4 DEF IInv

(* The part of the type invariant that the steps of a thief need, and the   *)
(* type invariant when the locals of the thieves keep their types.          *)
LEMMA ThiefTypes ==
    ASSUME TypeOK
    PROVE  /\ top_ \in Nat /\ bottom_ \in Int /\ active_array_ \in 1..active_array_
           /\ tpc \in [Thieves -> {"idle", "retry", "bottom", "array", "get", "cas"}]
           /\ tt \in [Thieves -> Nat] /\ ta \in [Thieves -> 1..active_array_]
           /\ tval \in [Thieves -> Items \cup {None}]
  BY DEF TypeOK

LEMMA StealType ==
    ASSUME TypeOK, UNCHANGED <<top_, bottom_, arrays, active_array_, ownerVars, pushed, returned>>,
           tpc' \in [Thieves -> {"idle", "retry", "bottom", "array", "get", "cas"}],
           tt' \in [Thieves -> Nat], ta' \in [Thieves -> 1..active_array_],
           tval' \in [Thieves -> Items \cup {None}]
    PROVE  TypeOK'
  BY DEF TypeOK, arrays, ownerVars

LEMMA StealLoadStep ==
    ASSUME IInv, NEW h \in Thieves,
           StealLoadTop(h) \/ StealLoadBottom(h) \/ StealLoadArray(h) \/ StealGet(h)
    PROVE  IInv'
<1> USE DEF thiefVars
<1>0. TypeOK /\ ThiefInv /\ top_ \in Nat /\ bottom_ \in Int
  BY ThiefTypes DEF IInv
<1>1. UNCHANGED <<top_, bottom_, arrays, active_array_, ownerVars, pushed, returned>>
  BY DEF StealLoadTop, StealLoadBottom, StealLoadArray, StealGet
<1>2. /\ \A i : At(i)' = At(i) /\ \A a : Get(a, i)' = Get(a, i)
      /\ Bottom' = Bottom /\ top_' = top_ /\ bottom_ <= Bottom
  BY <1>0, <1>1, SameArrays DEF Bottom, ownerVars
<1>3. CASE StealLoadTop(h)
  <2>1. TypeOK'
    <3>1. /\ tt' \in [Thieves -> Nat]
          /\ tpc' \in [Thieves -> {"idle", "retry", "bottom", "array", "get", "cas"}]
      BY <1>0, <1>3, ThiefTypes DEF StealLoadTop
    <3>2. ta' \in [Thieves -> 1..active_array_] /\ tval' \in [Thieves -> Items \cup {None}]
      BY <1>0, <1>3, ThiefTypes DEF StealLoadTop
    <3> QED  BY <1>1, <3>1, <3>2, StealType DEF IInv
  <2>2. ThiefInv'
    BY <1>0, <1>2, <1>3, ThiefTypes DEF ThiefInv, StealLoadTop
  <2> QED  BY <1>1, <2>1, <2>2, StealFrame
<1>4. CASE StealLoadBottom(h)
  <2>1. TypeOK'
    <3>1. tpc' \in [Thieves -> {"idle", "retry", "bottom", "array", "get", "cas"}]
      BY <1>0, <1>4, ThiefTypes DEF StealLoadBottom
    <3>2. /\ tt' \in [Thieves -> Nat] /\ ta' \in [Thieves -> 1..active_array_]
          /\ tval' \in [Thieves -> Items \cup {None}]
      BY <1>0, <1>4, ThiefTypes DEF StealLoadBottom
    <3> QED  BY <1>1, <3>1, <3>2, StealType DEF IInv
  <2>2. tt[h] < bottom_ /\ tt[h] = top_ => top_ < Bottom
    BY DEF IInv, TypeOK, Bottom
  <2>3. ThiefInv'
    BY <1>0, <1>2, <1>4, <2>2, ThiefTypes DEF ThiefInv, StealLoadBottom
  <2> QED  BY <1>1, <2>1, <2>3, StealFrame
<1>5. CASE StealLoadArray(h)
  <2>1. TypeOK'
    <3>1. ta' \in [Thieves -> 1..active_array_]
      BY <1>0, <1>5, ThiefTypes DEF StealLoadArray
    <3>2. tpc' \in [Thieves -> {"idle", "retry", "bottom", "array", "get", "cas"}]
      BY <1>0, <1>5, ThiefTypes DEF StealLoadArray
    <3>3. tt' \in [Thieves -> Nat] /\ tval' \in [Thieves -> Items \cup {None}]
      BY <1>0, <1>5, ThiefTypes DEF StealLoadArray
    <3> QED  BY <1>1, <3>1, <3>2, <3>3, StealType DEF IInv
  <2>2. ThiefInv'
    BY <1>0, <1>1, <1>2, <1>5, ThiefTypes DEF ThiefInv, StealLoadArray, At
  <2> QED  BY <1>1, <2>1, <2>2, StealFrame
<1>6. CASE StealGet(h)
  <2>1. Get(ta[h], tt[h]) \in Items \cup {None}
    <3>1. ta[h] \in 1..active_array_ /\ tt[h] \in Int
      BY <1>0, ThiefTypes
    <3> QED  BY <1>0, <3>1, GetType
  <2>2. TypeOK'
    <3>1. tval' \in [Thieves -> Items \cup {None}]
      BY <1>0, <1>6, <2>1, ThiefTypes DEF StealGet
    <3>2. tpc' \in [Thieves -> {"idle", "retry", "bottom", "array", "get", "cas"}]
      BY <1>0, <1>6, ThiefTypes DEF StealGet
    <3>3. tt' \in [Thieves -> Nat] /\ ta' \in [Thieves -> 1..active_array_]
      BY <1>0, <1>6, ThiefTypes DEF StealGet
    <3> QED  BY <1>1, <3>1, <3>2, <3>3, StealType DEF IInv
  <2>3. ThiefInv'
    BY <1>0, <1>2, <1>6, ThiefTypes DEF ThiefInv, StealGet
  <2> QED  BY <1>1, <2>2, <2>3, StealFrame
<1> QED  BY <1>3, <1>4, <1>5, <1>6

(* The winner of the CAS takes the item at top_; everyone else who read the *)
(* same top_ has now lost.                                                  *)
LEMMA StealCasStep ==
    ASSUME IInv, NEW h \in Thieves, StealCas(h)
    PROVE  IInv'
<1>0. TypeOK /\ ThiefInv /\ top_ \in Nat /\ bottom_ \in Int
  BY ThiefTypes DEF IInv
<1>1. UNCHANGED <<bottom_, arrays, active_array_, ownerVars, tt, ta, tval, pushed>>
  BY DEF StealCas
<1>2. /\ \A i : At(i)' = At(i) /\ \A a : Get(a, i)' = Get(a, i)
      /\ Bottom' = Bottom /\ Capacity' = Capacity /\ ShrunkCapacity' = ShrunkCapacity
  BY <1>1, SameArrays DEF Bottom, ownerVars, ShrunkCapacity
<1>3. tpc' \in [Thieves -> {"idle", "retry", "bottom", "array", "get", "cas"}]
  BY <1>0, ThiefTypes DEF StealCas
<1>4. CASE top_ = tt[h]
  <2>1. top_' = top_ + 1 /\ Return(tval[h]) /\ tpc' = [tpc EXCEPT ![h] = "idle"]
    BY <1>4 DEF StealCas
  <2>2. top_ < Bottom /\ tval[h] = At(top_) /\ top_ \in Nat /\ Bottom \in Int /\ Capacity \in Nat
    <3>1. Capacity \in Nat
      BY DEF IInv, TypeOK, Capacity
    <3>2. Bottom \in Int
      BY <1>0 DEF Bottom
    <3> QED  BY <1>0, <1>4, <3>1, <3>2 DEF ThiefInv, StealCas
  <2>3. TypeOK'
    <3>1. returned' \in [Items -> Nat]
      <4>1. tval[h] \in Items \cup {None}
        BY <1>0, ThiefTypes
      <4> QED  BY <1>0, <2>1, <4>1, ReturnType
    <3>2. top_' \in Nat
      BY <2>1, <2>2
    <3> QED  BY <1>0, <1>1, <1>3, <3>1, <3>2 DEF TypeOK, arrays, ownerVars
  <2>4. OwnerInv'
    <3>1. OwnerInv /\ b \in Int /\ t \in Nat /\ bottom_ \in Int
      BY DEF IInv, TypeOK
    <3> QED  BY <1>1, <1>2, <2>1, <2>2, <3>1 DEF OwnerInv, ownerVars, Bottom
  <2>5. ThiefInv'
    <3>1. SUFFICES ASSUME NEW g \in Thieves, tpc'[g] \in {"bottom", "array", "get", "cas"}
                   PROVE  tt'[g] < top_'
      BY <1>1, <2>1, <2>2, <1>0, ThiefTypes DEF ThiefInv
    <3>2. tpc[g] = tpc'[g] /\ tt'[g] = tt[g] /\ tt[g] \in Nat
      BY <1>0, <1>1, <2>1, <3>1, ThiefTypes
    <3>3. tt[g] <= top_
      BY <1>0, <3>1, <3>2 DEF ThiefInv
    <3> QED  BY <2>1, <2>2, <3>2, <3>3
  <2>6. ExactlyOnce'
    <3>1. top_ \in Live /\ Live' = Live \ {top_} /\ top_' <= Bottom'
      BY <1>2, <2>1, <2>2 DEF Live
    <3> QED  BY <1>1, <2>1, <2>2, <3>1, RemoveOne DEF IInv
  <2>7. (Bottom - top_ <= Capacity)'
    BY <1>2, <2>1, <2>2 DEF IInv
  <2> QED  BY <2>3, <2>4, <2>5, <2>6, <2>7 DEF IInv
<1>5. CASE top_ # tt[h]
  <2>1. UNCHANGED <<top_, returned>> /\ tpc' = [tpc EXCEPT ![h] = "retry"]
    BY <1>5 DEF StealCas
  <2>2. TypeOK'
    BY <1>0, <1>1, <1>3, <2>1, ThiefTypes, StealType
  <2>3. ThiefInv'
    BY <1>0, <1>1, <1>2, <2>1, ThiefTypes DEF ThiefInv
  <2> QED  BY <1>1, <2>1, <2>2, <2>3, StealFrame
<1> QED  BY <1>4, <1>5

------------------------------------------------------------------------------
LEMMA InitIInv == Init => IInv
<1> SUFFICES ASSUME Init PROVE IInv
  OBVIOUS
<1>0. PICK cap \in InitialCapacities :
         capacity = [a \in {1} |-> cap] /\ buffer = [a \in {1} |-> Array(cap)]
  BY DEF Init
<1>a. cap \in Nat \ {0}
  BY DequeAssumption
<1>1. Bottom = 0 /\ top_ = 0 /\ Live = {} /\ Capacity = cap
  BY <1>0 DEF Init, Bottom, Live, Capacity
<1>2. Array(cap) \in [0..(cap - 1) -> Items \cup {None}]
  BY DEF Array
<1>3. TypeOK
  BY <1>0, <1>a, <1>2 DEF Init, TypeOK
<1>4. OwnerInv /\ ThiefInv
  BY DEF Init, OwnerInv, ThiefInv
<1>5. ExactlyOnce
  BY <1>1 DEF Init, ExactlyOnce
<1> QED  BY <1>1, <1>3, <1>4, <1>5, <1>a DEF IInv

LEMMA StutterIInv == IInv /\ UNCHANGED vars => IInv'
<1> SUFFICES ASSUME IInv, UNCHANGED vars PROVE IInv'
  OBVIOUS
<1>1. UNCHANGED <<top_, bottom_, arrays, active_array_, ownerVars, thiefVars, pushed, returned>>
  BY DEF vars
<1>2. TypeOK'
  BY <1>1 DEF IInv, TypeOK, arrays, ownerVars, thiefVars
<1>3. Bottom' = Bottom
  BY <1>1 DEF Bottom, ownerVars
<1>4. ThiefInv'
  BY <1>1, <1>3, SameThieves DEF IInv
<1> QED  BY <1>1, <1>2, <1>4, StealFrame

(* Every step of the deque keeps the inductive invariant.                   *)
LEMMA NextIInv == IInv /\ [Next]_vars => IInv'
<1> SUFFICES ASSUME IInv, [Next]_vars PROVE IInv'
  OBVIOUS
<1>1. ASSUME NEW item \in Items, Push(item) PROVE IInv'
  BY <1>1, PushStep
<1>2. CASE Pop
  BY <1>2, PopStep
<1>3. CASE OwnerStep
  BY <1>3, ResizeStep, PushSetStep, PushPublishStep, PopLoadTopStep, PopCasStep,
     PopRestoreStep, MaybeShrinkStep, ShrinkPublishStep DEF OwnerStep
<1>4. ASSUME NEW h \in Thieves, StealStep(h) PROVE IInv'
  BY <1>4, StealLoadStep, StealCasStep DEF StealStep
<1>5. CASE UNCHANGED vars
  BY <1>5, StutterIInv
<1> QED  BY <1>1, <1>2, <1>3, <1>4, <1>5 DEF Next

(* The inductive invariant holds in every reachable state.                  *)
THEOREM Invariance == Spec => []IInv
  BY InitIInv, NextIInv, PTL DEF Spec

(* No array is ever read outside its slots, by the owner or by a thief that *)
(* holds an array replaced long ago.                                        *)
THEOREM TypeCorrect == Spec => []TypeOK
<1>1. IInv => TypeOK
  BY DEF IInv
<1> QED  BY <1>1, Invariance, PTL

(* No task is lost and none is run twice, for any number of thieves, any    *)
(* capacities and any history of resizes and shrinks.                       *)
THEOREM ExactlyOnceHolds == Spec => []ExactlyOnce
<1>1. IInv => ExactlyOnce
  BY DEF IInv
<1> QED  BY <1>1, Invariance, PTL

(* Pop never reports an empty deque while there is an item in it.           *)
THEOREM EmptyPopHolds == Spec => []EmptyPopIsEmpty
<1>1. IInv => EmptyPopIsEmpty
  BY DEF IInv, OwnerInv, EmptyPopIsEmpty
<1> QED  BY <1>1, Invariance, PTL

------------------------------------------------------------------------------
(* WorkStealingDeque implements Deque: its operations are linearizable.     *)
(* Tail and Append as functions of the index.                               *)
LEMMA TailFcn ==
    ASSUME NEW S, NEW s \in Seq(S), s # <<>>
    PROVE  Head(s) = s[1] /\ Tail(s) = [k \in 1..(Len(s) - 1) |-> s[k + 1]]
<1> DEFINE f == [k \in 1..(Len(s) - 1) |-> s[k + 1]]
<1>1. Len(s) \in Nat /\ Len(s) # 0
  BY EmptySeq
<1>2. f \in Seq(S) /\ Len(f) = Len(s) - 1
  BY <1>1
<1>3. Tail(s) \in Seq(S) /\ Len(Tail(s)) = Len(s) - 1
      /\ \A i \in 1..(Len(s) - 1) : Tail(s)[i] = f[i]
  BY <1>1, HeadTailProperties
<1> HIDE DEF f
<1>4. Tail(s) = f
  BY <1>2, <1>3, SeqEqual
<1> QED  BY <1>1, <1>4 DEF f

LEMMA AppendFcn ==
    ASSUME NEW S, NEW s \in Seq(S), NEW x \in S
    PROVE  Append(s, x) = [k \in 1..(Len(s) + 1) |-> IF k = Len(s) + 1 THEN x ELSE s[k]]
<1> DEFINE f == [k \in 1..(Len(s) + 1) |-> IF k = Len(s) + 1 THEN x ELSE s[k]]
<1>1. Len(s) \in Nat
  OBVIOUS
<1>2. f \in Seq(S) /\ Len(f) = Len(s) + 1
  BY <1>1
<1>3. Append(s, x) \in Seq(S) /\ Len(Append(s, x)) = Len(s) + 1
      /\ \A i \in 1..(Len(s) + 1) : Append(s, x)[i] = f[i]
  BY <1>1, AppendProperties
<1> HIDE DEF f
<1>4. Append(s, x) = f
  BY <1>2, <1>3, SeqEqual
<1> QED  BY <1>4 DEF f

(* The contents are a sequence of items, as long as the live range.         *)
LEMMA ContentsSeq ==
    ASSUME IInv
    PROVE  /\ Bottom - top_ \in Nat
           /\ Contents \in Seq(Items) /\ Len(Contents) = Bottom - top_
           /\ \A k \in 1..(Bottom - top_) : Contents[k] = At(top_ + k - 1)
<1> DEFINE n == Bottom - top_
<1>1. n \in Nat /\ top_ \in Nat
  BY DEF IInv, TypeOK, ExactlyOnce, Bottom
<1>2. \A k \in 1..n : top_ + k - 1 \in Live
  BY <1>1 DEF Live, IInv, TypeOK, Bottom
<1>3. \A k \in 1..n : At(top_ + k - 1) \in Items
  BY <1>2 DEF IInv, ExactlyOnce, TypeOK
<1>4. Contents = [k \in 1..n |-> At(top_ + k - 1)]
  BY DEF Contents
<1> HIDE DEF n
<1>5. Contents \in Seq(Items) /\ Len(Contents) = n
  BY <1>1, <1>3, <1>4
<1> QED  BY <1>1, <1>4, <1>5 DEF n

(* A step that keeps the ends and the items between them is invisible.      *)
LEMMA SameContentsSeq ==
    ASSUME IInv, top_' = top_, Bottom' = Bottom, \A i \in Live : At(i)' = At(i)
    PROVE  Contents' = Contents
<1>1. \A k \in 1..(Bottom - top_) : top_ + k - 1 \in Live
  BY DEF Live, IInv, TypeOK, Bottom
<1>2. \A k \in 1..(Bottom - top_) : At(top_ + k - 1)' = At(top_ + k - 1)
  BY <1>1
<1> QED  BY <1>2 DEF Contents

(* The item at the top leaves: Contents loses its head.                     *)
LEMMA TakeTop ==
    ASSUME IInv, IInv', top_ < Bottom, top_' = top_ + 1, Bottom' = Bottom,
           \A i : At(i)' = At(i), Return(At(top_)), pushed' = pushed
    PROVE  Atomic!StealTop
<1>1. Contents \in Seq(Items) /\ Len(Contents) = Bottom - top_ /\ Bottom - top_ \in Nat
      /\ \A k \in 1..(Bottom - top_) : Contents[k] = At(top_ + k - 1)
  BY ContentsSeq
<1>2. top_ \in Nat /\ Bottom \in Int /\ Contents # <<>>
  <2>1. top_ \in Nat /\ Bottom \in Int
    BY DEF IInv, TypeOK, Bottom
  <2> QED  BY <1>1, <2>1
<1>3. Contents' = [k \in 1..(Bottom - top_ - 1) |-> At(top_ + k)]
  <2>1. (Bottom - top_)' = Bottom - top_ - 1
    BY <1>2
  <2>2. \A k \in 1..(Bottom - top_ - 1) : At(top_ + k - 1)' = At(top_ + k)
    BY <1>2
  <2> QED  BY <2>1, <2>2 DEF Contents
<1>4. /\ Head(Contents) = Contents[1]
      /\ Tail(Contents) = [k \in 1..(Bottom - top_ - 1) |-> Contents[k + 1]]
  BY <1>1, <1>2, TailFcn
<1>5. \A k \in 1..(Bottom - top_ - 1) : Contents[k + 1] = At(top_ + k)
  BY <1>1, <1>2
<1>6. Contents' = Tail(Contents)
  BY <1>3, <1>4, <1>5
<1>7. Head(Contents) = At(top_)
  BY <1>1, <1>2, <1>4
<1> QED  BY <1>2, <1>6, <1>7 DEF Atomic!StealTop, Return

(* The item at the bottom leaves: Contents loses its last element.          *)
LEMMA TakeBottom ==
    ASSUME IInv, IInv', top_ < Bottom, top_' = top_, Bottom' = Bottom - 1,
           \A i : At(i)' = At(i), Return(At(Bottom - 1)), pushed' = pushed
    PROVE  Atomic!PopBottom
<1>1. Contents \in Seq(Items) /\ Len(Contents) = Bottom - top_ /\ Bottom - top_ \in Nat
      /\ \A k \in 1..(Bottom - top_) : Contents[k] = At(top_ + k - 1)
  BY ContentsSeq
<1>2. top_ \in Nat /\ Bottom \in Int
  BY DEF IInv, TypeOK, Bottom
<1>3. Contents # <<>> /\ Contents[Len(Contents)] = At(Bottom - 1)
  BY <1>1, <1>2
<1>4. Contents' = [k \in 1..(Bottom - top_ - 1) |-> At(top_ + k - 1)]
  <2>1. (Bottom - top_)' = Bottom - top_ - 1
    BY <1>2
  <2>2. \A k \in 1..(Bottom - top_ - 1) : At(top_ + k - 1)' = At(top_ + k - 1)
    OBVIOUS
  <2> QED  BY <2>1, <2>2 DEF Contents
<1>5. SubSeq(Contents, 1, Len(Contents) - 1) = [k \in 1..(Bottom - top_ - 1) |-> Contents[k]]
  BY <1>1, <1>2
<1>6. Contents' = SubSeq(Contents, 1, Len(Contents) - 1)
  BY <1>1, <1>2, <1>4, <1>5
<1> QED  BY <1>3, <1>6 DEF Atomic!PopBottom, Return

(* The store of bottom_ in Push appends the item.                           *)
LEMMA PublishAppends ==
    ASSUME IInv, IInv', PushPublish
    PROVE  Atomic!PushBottom(val)
<1>1. Contents \in Seq(Items) /\ Len(Contents) = Bottom - top_ /\ Bottom - top_ \in Nat
      /\ \A k \in 1..(Bottom - top_) : Contents[k] = At(top_ + k - 1)
  BY ContentsSeq
<1>2. top_ \in Nat /\ Bottom \in Int /\ Bottom' = Bottom + 1 /\ top_' = top_
      /\ At(Bottom) = val /\ val \in Items \ pushed
  BY DEF IInv, TypeOK, OwnerInv, Bottom, PushPublish
<1>3. \A i : At(i)' = At(i)
  BY SameArrays DEF PushPublish
<1>4. Contents' = [k \in 1..(Bottom - top_ + 1) |-> At(top_ + k - 1)]
  <2>1. (Bottom - top_)' = Bottom - top_ + 1
    BY <1>2
  <2>2. \A k \in 1..(Bottom - top_ + 1) : At(top_ + k - 1)' = At(top_ + k - 1)
    BY <1>2, <1>3
  <2> QED  BY <2>1, <2>2 DEF Contents
<1>5. Append(Contents, val) = [k \in 1..(Bottom - top_ + 1) |->
                                 IF k = Bottom - top_ + 1 THEN val ELSE Contents[k]]
  BY <1>1, <1>2, AppendFcn
<1>6. \A k \in 1..(Bottom - top_ + 1) :
        At(top_ + k - 1) = IF k = Bottom - top_ + 1 THEN val ELSE Contents[k]
  BY <1>1, <1>2
<1>7. Contents' = Append(Contents, val)
  BY <1>4, <1>5, <1>6
<1> QED  BY <1>2, <1>7 DEF Atomic!PushBottom, PushPublish

------------------------------------------------------------------------------
(* The steps that leave the ends and the arrays alone are stutters.         *)
LEMMA QuietStutters ==
    ASSUME IInv, UNCHANGED <<top_, arrays, active_array_, pushed, returned>>, Bottom' = Bottom
    PROVE  UNCHANGED <<Contents, pushed, returned>>
  BY SameArrays, SameContentsSeq

LEMMA PublishStutters ==
    ASSUME IInv, Resize \/ ShrinkPublish
    PROVE  UNCHANGED <<Contents, pushed, returned>>
<1>1. PICK c \in Nat \ {0} :
        b - t <= c /\ Publish(c, CopyRange(t, b, c))
  <2>1. Capacity \in Nat \ {0} /\ ShrunkCapacity \in Nat \ {0} /\ 2 * Capacity \in Nat \ {0}
    BY DequeAssumption DEF IInv, TypeOK, Capacity, ShrunkCapacity
  <2>2. CASE Resize
    <3>1. b - t <= 2 * Capacity
      BY <2>1, <2>2 DEF IInv, TypeOK, OwnerInv, Resize
    <3> QED  BY <2>1, <2>2, <3>1 DEF Resize
  <2>3. CASE ShrinkPublish
    BY <2>1, <2>3 DEF IInv, OwnerInv, ShrinkPublish
  <2> QED  BY <2>2, <2>3
<1>2. t <= top_ /\ b = Bottom /\ Bottom' = Bottom /\ t \in Int /\ b \in Int
      /\ UNCHANGED <<top_, pushed, returned>>
  BY DEF IInv, TypeOK, OwnerInv, Bottom, Resize, ShrinkPublish
<1>3. \A i \in Live : At(i)' = At(i)
  BY <1>1, <1>2, PublishKeeps
<1> QED  BY <1>2, <1>3, SameContentsSeq

(* The write of Push goes to a slot that holds no live item.                *)
LEMMA PushSetStutters ==
    ASSUME IInv, PushSet
    PROVE  UNCHANGED <<Contents, pushed, returned>>
<1>1. Bottom' = Bottom /\ UNCHANGED <<top_, pushed, returned>>
  BY DEF PushSet, Bottom
<1> QED  BY <1>1, PushSetStep, SameContentsSeq

(* Every step of the code is a step of the atomic deque or a stutter.       *)
LEMMA StepSimulation ==
    ASSUME IInv, IInv', [Next]_vars
    PROVE  [Atomic!Next]_(Atomic!vars)
<1> USE DEF Atomic!vars
<1>1. ASSUME NEW item \in Items, Push(item) PROVE UNCHANGED <<Contents, pushed, returned>>
  BY <1>1, QuietStutters DEF Push, Bottom
<1>2. CASE Pop
  BY <1>2, QuietStutters DEF Pop, Bottom, IInv, TypeOK
<1>3. CASE Resize \/ ShrinkPublish
  BY <1>3, PublishStutters
<1>4. CASE PushSet
  BY <1>4, PushSetStutters
<1>5. CASE PushPublish
  <2>1. val \in Items /\ Atomic!PushBottom(val)
    BY <1>5, PublishAppends DEF IInv, OwnerInv, PushPublish
  <2> QED  BY <2>1 DEF Atomic!Next
<1>6. CASE PopLoadTop
  <2>1. b = bottom_ /\ Bottom = b + 1 /\ b \in Int
    BY <1>6 DEF IInv, TypeOK, OwnerInv, Bottom, PopLoadTop
  <2>2. CASE top_ < b
    <3>1. /\ Return(Get(active_array_, b)) /\ pc' = "shrink"
          /\ top_' = top_ /\ bottom_' = bottom_ /\ pushed' = pushed
      <4>1. top_ # b /\ ~(top_ > b)
        BY <2>1, <2>2 DEF IInv, TypeOK
      <4> QED  BY <1>6, <2>2, <4>1, Zenon DEF PopLoadTop
    <3>2. Bottom - 1 = b /\ top_ < Bottom
      BY <2>1, <2>2 DEF IInv, TypeOK
    <3>3. Bottom' = b
      BY <2>1, <3>1 DEF Bottom
    <3>4. Bottom' = Bottom - 1 /\ Return(At(Bottom - 1))
      BY <3>1, <3>2, <3>3, Zenon DEF At
    <3>5. \A i : At(i)' = At(i)
      BY <1>6, SameArrays DEF PopLoadTop
    <3> QED  BY <3>1, <3>2, <3>4, <3>5, TakeBottom DEF Atomic!Next
  <2>3. CASE ~(top_ < b)
    <3>1. pc' \in {"cas", "restore"} /\ UNCHANGED returned
      BY <1>6, <2>1, <2>3 DEF PopLoadTop
    <3>2. Bottom' = Bottom
      BY <1>6, <2>1, <3>1 DEF PopLoadTop, Bottom
    <3> QED  BY <1>6, <3>1, <3>2, QuietStutters DEF PopLoadTop
  <2> QED  BY <2>2, <2>3
<1>7. CASE PopCas
  <2>1. Bottom' = Bottom /\ t = b /\ Bottom = b + 1 /\ b \in Int
    BY <1>7 DEF PopCas, Bottom, IInv, TypeOK, OwnerInv
  <2>2. CASE top_ = t
    <3>1. top_ < Bottom /\ top_' = top_ + 1 /\ Return(At(top_)) /\ pushed' = pushed
      BY <1>7, <2>1, <2>2 DEF PopCas, IInv, OwnerInv
    <3>2. \A i : At(i)' = At(i)
      BY <1>7, SameArrays DEF PopCas
    <3> QED  BY <2>1, <3>1, <3>2, TakeTop DEF Atomic!Next
  <2>3. CASE top_ # t
    BY <1>7, <2>1, <2>3, QuietStutters DEF PopCas
  <2> QED  BY <2>2, <2>3
<1>8. CASE PopRestore
  <2>1. Bottom' = Bottom
    BY <1>8 DEF PopRestore, Bottom, IInv, TypeOK, OwnerInv
  <2> QED  BY <1>8, <2>1, QuietStutters DEF PopRestore
<1>9. CASE MaybeShrink
  BY <1>9, QuietStutters DEF MaybeShrink, Bottom
<1>10. ASSUME NEW h \in Thieves, StealStep(h) PROVE [Atomic!Next]_(Atomic!vars)
  <2>1. Bottom' = Bottom /\ UNCHANGED <<arrays, active_array_, pushed>>
    BY <1>10 DEF StealStep, StealLoadTop, StealLoadBottom, StealLoadArray, StealGet, StealCas,
       Bottom, ownerVars
  <2>2. CASE UNCHANGED <<top_, returned>>
    BY <2>1, <2>2, QuietStutters
  <2>3. CASE StealCas(h) /\ top_ = tt[h]
    <3>1. top_ < Bottom /\ top_' = top_ + 1 /\ Return(At(top_))
      BY <2>3 DEF StealCas, IInv, ThiefInv
    <3>2. \A i : At(i)' = At(i)
      BY <2>1, SameArrays
    <3> QED  BY <2>1, <3>1, <3>2, TakeTop DEF Atomic!Next
  <2> QED  BY <1>10, <2>2, <2>3 DEF StealStep, StealLoadTop, StealLoadBottom, StealLoadArray,
              StealGet, StealCas
<1>11. CASE UNCHANGED vars
  BY <1>11, QuietStutters DEF vars, Bottom, ownerVars
<1> QED  BY <1>1, <1>2, <1>3, <1>4, <1>5, <1>6, <1>7, <1>8, <1>9, <1>10, <1>11
         DEF Next, OwnerStep

(* The deque is linearizable: what owner and thieves observe of Push, Pop   *)
(* and Steal is what they would observe of a deque whose operations are     *)
(* atomic, for any number of thieves and any capacities.                    *)
THEOREM Linearizable == Spec => AtomicSpec
<1>1. Init => Atomic!Init
  <2> SUFFICES ASSUME Init PROVE Atomic!Init
    OBVIOUS
  <2>1. Bottom - top_ = 0
    BY DEF Init, Bottom
  <2>2. Contents = <<>>
    BY <2>1 DEF Contents
  <2> QED  BY <2>2 DEF Init, Atomic!Init
<1>2. IInv /\ IInv' /\ [Next]_vars => [Atomic!Next]_(Atomic!vars)
  BY StepSimulation
<1> QED  BY <1>1, <1>2, Invariance, PTL DEF Spec, AtomicSpec, Atomic!Spec
------------------------------------------------------------------------------
(* Powers of two: doubling keeps one, and so does halving one above one.    *)
LEMMA Divides ==
    ASSUME NEW n \in Nat, NEW d \in Nat \ {0}
    PROVE  n % d = 0 <=> \E q \in Nat : n = d * q
<1>1. /\ n = d * (n \div d) + (n % d) /\ n \div d \in Int /\ n % d \in 0..(d - 1)
  BY SMT
<1>2. ASSUME n % d = 0 PROVE \E q \in Nat : n = d * q
  <2>1. n \div d \in Nat /\ n = d * (n \div d)
    BY <1>1, <1>2
  <2> QED  BY <2>1, Zenon
<1>3. ASSUME NEW q \in Nat, n = d * q PROVE n % d = 0
  <2> DEFINE k == q - (n \div d)
  <2>1. k \in Int /\ n % d = d * k
    BY <1>1, <1>3
  <2>2. k <= 0 \/ k >= 1
    BY <2>1
  <2> HIDE DEF k
  <2>3. CASE k <= 0
    BY <1>1, <2>1, <2>3
  <2>4. CASE k >= 1
    BY <1>1, <2>1, <2>4
  <2> QED  BY <2>2, <2>3, <2>4
<1> QED  BY <1>2, <1>3

LEMMA DoublePower ==
    ASSUME NEW n \in Nat \ {0}, IsPowerOfTwo(n)
    PROVE  IsPowerOfTwo(2 * n)
<1> SUFFICES ASSUME NEW d \in 2..(2 * n), (2 * n) % d = 0, d % 2 # 0 PROVE FALSE
  BY DEF IsPowerOfTwo
<1>1. PICK q \in Nat : 2 * n = d * q
  BY Divides
<1>2. PICK e \in Nat : d = 2 * e + 1
  <2>1. d = 2 * (d \div 2) + (d % 2) /\ d \div 2 \in Nat /\ d % 2 = 1
    BY SMT
  <2> QED  BY <2>1
<1>3. q = 2 * (n - e * q)
  BY <1>1, <1>2
<1>4. PICK r \in Int : r = n - e * q
  OBVIOUS
<1>5. q = 2 * r /\ r \in Nat
  BY <1>3, <1>4
<1>6. n = d * r
  BY <1>1, <1>5
<1>7. n % d = 0
  BY <1>5, <1>6, Divides
<1>8. d <= n
  BY <1>5, <1>6
<1> QED  BY <1>7, <1>8 DEF IsPowerOfTwo

LEMMA HalfPower ==
    ASSUME NEW n \in Nat, n > 1, IsPowerOfTwo(n)
    PROVE  IsPowerOfTwo(n \div 2)
<1>1. n % 2 = 0
  <2>1. n % n = 0
    BY Divides, n = n * 1
  <2> QED  BY <2>1 DEF IsPowerOfTwo
<1>2. PICK h \in Nat : h = n \div 2 /\ n = 2 * h
  BY <1>1
<1>3. ASSUME NEW d \in 2..h, h % d = 0 PROVE d % 2 = 0
  <2>1. PICK q \in Nat : h = d * q
    BY <1>3, Divides
  <2>2. n = d * (2 * q)
    BY <1>2, <2>1
  <2>3. n % d = 0 /\ d \in 2..n
    BY <1>2, <2>2, Divides
  <2> QED  BY <2>3 DEF IsPowerOfTwo
<1> QED  BY <1>2, <1>3 DEF IsPowerOfTwo

PowerInv == \A a \in 1..active_array_ : IsPowerOfTwo(capacity[a])

LEMMA PublishPower ==
    ASSUME IInv, PowerInv, NEW cap \in Nat, IsPowerOfTwo(cap), NEW buf, Publish(cap, buf)
    PROVE  PowerInv'
<1>1. /\ active_array_ \in Nat /\ active_array_' = active_array_ + 1
      /\ capacity' = [a \in 1..(active_array_ + 1) |-> IF a = active_array_ + 1 THEN cap ELSE capacity[a]]
  BY DEF IInv, TypeOK, Publish
<1>2. ASSUME NEW a \in 1..(active_array_ + 1) PROVE IsPowerOfTwo(capacity'[a])
  <2>1. CASE a = active_array_ + 1
    BY <1>1, <2>1
  <2>2. CASE a # active_array_ + 1
    <3>1. a \in 1..active_array_ /\ capacity'[a] = capacity[a]
      BY <1>1, <2>2
    <3> QED  BY <3>1 DEF PowerInv
  <2> QED  BY <2>1, <2>2
<1> QED  BY <1>1, <1>2 DEF PowerInv, IsPowerOfTwo

LEMMA NextPower == IInv /\ PowerInv /\ [Next]_vars => PowerInv'
<1> SUFFICES ASSUME IInv, PowerInv, [Next]_vars PROVE PowerInv'
  OBVIOUS
<1>1. Capacity \in Nat \ {0} /\ IsPowerOfTwo(Capacity) /\ ShrinkFloor \in Nat \ {0} /\ IsPowerOfTwo(ShrinkFloor)
  BY DequeAssumption DEF IInv, TypeOK, PowerInv, Capacity
<1>2. CASE Resize
  <2>1. 2 * Capacity \in Nat /\ IsPowerOfTwo(2 * Capacity)
    BY <1>1, DoublePower
  <2> QED  BY <1>2, <2>1, PublishPower, Zenon DEF Resize
<1>3. CASE ShrinkPublish
  <2>1. ShrunkCapacity \in Nat /\ IsPowerOfTwo(ShrunkCapacity)
    <3>1. CASE Capacity \div 2 > ShrinkFloor
      <4>1. Capacity \in Nat /\ Capacity > 1 /\ Capacity \div 2 \in Nat /\ ShrunkCapacity = Capacity \div 2
        BY <1>1, <3>1 DEF ShrunkCapacity
      <4> QED  BY <1>1, <4>1, HalfPower
    <3>2. CASE ~(Capacity \div 2 > ShrinkFloor)
      BY <1>1, <3>2 DEF ShrunkCapacity
    <3> QED  BY <3>1, <3>2
  <2> QED  BY <1>3, <2>1, PublishPower, Zenon DEF ShrinkPublish
<1>4. UNCHANGED <<capacity, active_array_>> => PowerInv'
  BY DEF PowerInv
<1>5. ASSUME ~Resize, ~ShrinkPublish PROVE UNCHANGED <<capacity, active_array_>>
  BY <1>5, Zenon DEF Next, OwnerStep, StealStep, Push, PushSet, PushPublish, Pop, PopLoadTop,
     PopCas, PopRestore, MaybeShrink, StealLoadTop, StealLoadBottom, StealLoadArray, StealGet,
     StealCas, arrays, vars
<1> QED  BY <1>2, <1>3, <1>4, <1>5, Zenon

(* Resize doubles and MaybeShrink halves: from the powers of two that the   *)
(* constructor accepts every array ever published has one as its capacity,  *)
(* and the items in the deque fit into the active one.                      *)
THEOREM CapacitiesArePowers == Spec => []CapacityIsPowerOfTwo
<1>1. Init => PowerInv
  BY DequeAssumption DEF Init, PowerInv
<1>2. IInv /\ PowerInv => CapacityIsPowerOfTwo
  BY DEF IInv, PowerInv, CapacityIsPowerOfTwo
<1> QED  BY <1>1, <1>2, NextPower, Invariance, PTL DEF Spec
=============================================================================
