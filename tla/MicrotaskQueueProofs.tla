------------------------ MODULE MicrotaskQueueProofs ------------------------
(* The ring buffer of MicrotaskQueue implements MicrotaskFifo, for every    *)
(* minimum capacity and any number of microtasks; the completed callbacks   *)
(* that it calls; and the ring of the queues of an isolate.                 *)
EXTENDS MicrotaskQueue, SequenceTheorems, TLAPS

(* One turn around the buffer.                                              *)
LEMMA Wrap ==
    ASSUME NEW c \in Nat \ {0}, NEW x \in Nat, x < 2 * c
    PROVE  /\ x % c = IF x < c THEN x ELSE x - c
           /\ x % c \in 0..(c - 1)
<1>1. x % c \in 0..(c - 1) /\ x \div c \in Int /\ x = c * (x \div c) + (x % c)
  OBVIOUS
<1>2. x \div c < 2 /\ x \div c > -1
  <2>1. ASSUME x \div c >= 2 PROVE FALSE
    <3>1. c * (x \div c) >= 2 * c
      BY <1>1, <2>1
    <3> QED  BY <1>1, <3>1
  <2>2. ASSUME x \div c <= -1 PROVE FALSE
    <3>1. c * (x \div c) <= -c
      BY <1>1, <2>2
    <3> QED  BY <1>1, <3>1
  <2> QED  BY <1>1, <2>1, <2>2
<1>3. CASE x \div c = 0
  BY <1>1, <1>3
<1>4. CASE x \div c = 1
  BY <1>1, <1>4
<1> QED  BY <1>1, <1>2, <1>3, <1>4

(* The buffer is a legal ring buffer, and a shrink keeps room for what is   *)
(* in it: halving stops at twice the size.                                  *)
BufferInv ==
    /\ capacity_ \in Nat /\ size_ \in 0..capacity_ /\ start_ \in Nat
    /\ start_ = 0 \/ start_ < capacity_
    /\ ring_buffer_ \in [0..(capacity_ - 1) -> Nat]
    /\ enqueued \in Nat
    /\ new_capacity # None => new_capacity \in Nat /\ size_ <= new_capacity

(* The slot of the j-th microtask.                                          *)
Slot(j) == (start_ + j - 1) % capacity_

LEMMA SlotValue ==
    ASSUME BufferInv, NEW j \in 1..capacity_
    PROVE  /\ Slot(j) = IF start_ + j - 1 < capacity_ THEN start_ + j - 1
                                                      ELSE start_ + j - 1 - capacity_
           /\ Slot(j) \in 0..(capacity_ - 1)
<1> DEFINE x == start_ + j - 1
<1>1. capacity_ \in Nat \ {0} /\ x \in Nat /\ x < 2 * capacity_
  BY DEF BufferInv
<1>2. Slot(j) = x % capacity_
  BY DEF Slot
<1> HIDE DEF x
<1>3. Slot(j) = (IF x < capacity_ THEN x ELSE x - capacity_) /\ Slot(j) \in 0..(capacity_ - 1)
  BY <1>1, <1>2, Wrap
<1>4. capacity_ \in Nat /\ start_ \in Nat /\ j \in Nat
  BY DEF BufferInv
<1> QED  BY <1>3, <1>4 DEF x

PendingFacts ==
    /\ Pending \in Seq(Nat) /\ Len(Pending) = size_
    /\ \A j \in 1..size_ : Pending[j] = ring_buffer_[Slot(j)]

LEMMA PendingSeq == BufferInv => PendingFacts
<1> SUFFICES ASSUME BufferInv PROVE PendingFacts
  OBVIOUS
<1>1. \A j \in 1..size_ : ring_buffer_[Slot(j)] \in Nat
  BY SlotValue DEF BufferInv
<1>2. Pending = [j \in 1..size_ |-> ring_buffer_[Slot(j)]] /\ size_ \in Nat
  BY DEF Pending, Slot, BufferInv
<1> QED  BY <1>1, <1>2 DEF PendingFacts

LEMMA PendingSeqNext == BufferInv' => PendingFacts'
  BY PendingSeq, PTL

(* Sequences of numbers are equal when their elements are.                  *)
LEMMA SameSeq ==
    ASSUME NEW s \in Seq(Nat), NEW t \in Seq(Nat), Len(s) = Len(t),
           \A j \in 1..Len(s) : s[j] = t[j]
    PROVE  s = t
  BY SeqEqual

(* A step that keeps the microtasks is invisible.                           *)
LEMMA SamePending ==
    ASSUME BufferInv, BufferInv', size_' = size_,
           \A j \in 1..size_ : ring_buffer_'[Slot(j)'] = ring_buffer_[Slot(j)]
    PROVE  Pending' = Pending
  BY PendingSeq, PendingSeqNext, SameSeq DEF PendingFacts
------------------------------------------------------------------------------
(* What ResizeBuffer copies, for a capacity with room for all microtasks.   *)
LEMMA ResizedBuffer ==
    ASSUME BufferInv, NEW cap \in Nat, size_ <= cap
    PROVE  /\ Resized(cap) \in [0..(cap - 1) -> Nat]
           /\ \A j \in 1..size_ : Resized(cap)[j - 1] = ring_buffer_[Slot(j)]
<1>1. \A j \in 1..size_ : j - 1 \in 0..(cap - 1) /\ j \in 1..capacity_ /\ start_ + (j - 1) = start_ + j - 1
  BY DEF BufferInv
<1>2. \A k \in 0..(cap - 1) : k < size_ => ring_buffer_[(start_ + k) % capacity_] \in Nat
  <2> SUFFICES ASSUME NEW k \in 0..(cap - 1), k < size_
               PROVE  ring_buffer_[(start_ + k) % capacity_] \in Nat
    OBVIOUS
  <2>1. k + 1 \in 1..capacity_ /\ start_ + (k + 1) - 1 = start_ + k
    BY DEF BufferInv
  <2>2. Slot(k + 1) \in 0..(capacity_ - 1) /\ Slot(k + 1) = (start_ + k) % capacity_
    BY <2>1, SlotValue DEF Slot
  <2> QED  BY <2>2 DEF BufferInv
<1>3. Resized(cap) \in [0..(cap - 1) -> Nat]
  BY <1>2 DEF Resized
<1>4. ASSUME NEW j \in 1..size_ PROVE Resized(cap)[j - 1] = ring_buffer_[Slot(j)]
  <2>1. j - 1 \in 0..(cap - 1) /\ j - 1 < size_ /\ start_ + (j - 1) = start_ + j - 1
    BY <1>1 DEF BufferInv
  <2>2. Resized(cap)[j - 1] = ring_buffer_[(start_ + (j - 1)) % capacity_]
    BY <2>1 DEF Resized
  <2> QED  BY <2>1, <2>2 DEF Slot
<1> QED  BY <1>3, <1>4

(* In a buffer that starts at slot 0 the j-th microtask is in slot j - 1.   *)
LEMMA SlotFromZero ==
    ASSUME NEW c \in Nat, capacity_' = c, start_' = 0, NEW j \in 1..c
    PROVE  Slot(j)' = j - 1
<1>1. c \in Nat \ {0} /\ j - 1 \in Nat /\ j - 1 < c /\ j - 1 < 2 * c /\ 0 + j - 1 = j - 1
  OBVIOUS
<1>2. Slot(j)' = (0 + j - 1) % c
  BY DEF Slot
<1>3. Slot(j)' = (j - 1) % c
  BY <1>1, <1>2
<1> QED  BY <1>1, <1>3, Wrap

(* Storing a microtask in a buffer with room.                               *)
LEMMA StoreInRoom ==
    ASSUME BufferInv, NEW n \in Nat, size_ # capacity_,
           ring_buffer_' = [ring_buffer_ EXCEPT ![(start_ + size_) % capacity_] = n],
           size_' = size_ + 1, UNCHANGED <<capacity_, start_, new_capacity>>, new_capacity = None,
           enqueued' \in Nat
    PROVE  BufferInv' /\ \A j \in 1..size_' : ring_buffer_'[Slot(j)'] =
                             IF j = size_ + 1 THEN n ELSE ring_buffer_[Slot(j)]
<1>1. size_ + 1 \in 1..capacity_ /\ start_ + (size_ + 1) - 1 = start_ + size_
  BY DEF BufferInv
<1>2. (start_ + size_) % capacity_ = Slot(size_ + 1) /\ Slot(size_ + 1) \in 0..(capacity_ - 1)
  BY <1>1, SlotValue DEF Slot
<1>3. BufferInv'
  BY <1>1, <1>2 DEF BufferInv
<1>4. ASSUME NEW j \in 1..size_'
      PROVE  ring_buffer_'[Slot(j)'] = IF j = size_ + 1 THEN n ELSE ring_buffer_[Slot(j)]
  <2>1. Slot(j)' = Slot(j) /\ j \in 1..capacity_
    BY <1>1 DEF Slot, BufferInv
  <2>2. Slot(j) \in 0..(capacity_ - 1)
    BY <2>1, SlotValue
  <2>3. j # size_ + 1 => Slot(j) # Slot(size_ + 1)
    <3>1. /\ Slot(j) = IF start_ + j - 1 < capacity_ THEN start_ + j - 1
                                                     ELSE start_ + j - 1 - capacity_
          /\ Slot(size_ + 1) = IF start_ + (size_ + 1) - 1 < capacity_ THEN start_ + (size_ + 1) - 1
                                                     ELSE start_ + (size_ + 1) - 1 - capacity_
      BY <1>1, <2>1, SlotValue
    <3>2. /\ capacity_ \in Nat /\ start_ \in Nat /\ size_ \in Nat /\ j \in Nat
          /\ j <= size_ + 1 /\ j >= 1 /\ size_ < capacity_
      BY <1>1, <2>1 DEF BufferInv
    <3> QED  BY <3>1, <3>2
  <2> QED  BY <1>2, <2>1, <2>2, <2>3 DEF BufferInv
<1> QED  BY <1>3, <1>4

(* Storing a microtask in a buffer that is full grows it first.             *)
LEMMA StoreInGrown ==
    ASSUME BufferInv, NEW n \in Nat, size_ = capacity_,
           ring_buffer_' = [Resized(Grown) EXCEPT ![size_] = n], capacity_' = Grown,
           start_' = 0, size_' = size_ + 1, UNCHANGED new_capacity, new_capacity = None,
           enqueued' \in Nat
    PROVE  BufferInv' /\ \A j \in 1..size_' : ring_buffer_'[Slot(j)'] =
                             IF j = size_ + 1 THEN n ELSE ring_buffer_[Slot(j)]
<1>1. Grown \in Nat /\ size_ + 1 <= Grown /\ size_ \in Nat
  BY MicrotaskAssumption DEF BufferInv, Grown, MaxOf
<1>2. /\ Resized(Grown) \in [0..(Grown - 1) -> Nat]
      /\ \A j \in 1..size_ : Resized(Grown)[j - 1] = ring_buffer_[Slot(j)]
  <2>1. size_ <= Grown
    BY <1>1
  <2> HIDE DEF Grown
  <2> QED  BY <1>1, <2>1, ResizedBuffer
<1>3. BufferInv'
  <2> HIDE DEF Grown
  <2> QED  BY <1>1, <1>2 DEF BufferInv
<1>4. ASSUME NEW j \in 1..size_'
      PROVE  ring_buffer_'[Slot(j)'] = IF j = size_ + 1 THEN n ELSE ring_buffer_[Slot(j)]
  <2>1. j \in 1..capacity_' /\ j - 1 \in 0..(Grown - 1) /\ size_ \in 0..(Grown - 1)
    BY <1>1
  <2>2. Slot(j)' = j - 1
    BY <1>1, <2>1, SlotFromZero
  <2>3. CASE j = size_ + 1
    BY <1>2, <2>1, <2>2, <2>3
  <2>4. CASE j # size_ + 1
    <3>1. j \in 1..size_ /\ j - 1 # size_
      BY <1>1, <2>4
    <3> QED  BY <1>2, <2>1, <2>2, <3>1
  <2> QED  BY <2>3, <2>4
<1> QED  BY <1>3, <1>4

(* Store appends the microtask.                                             *)
LEMMA StoreAppends ==
    ASSUME BufferInv, Store(enqueued + 1), enqueued' = enqueued + 1,
           UNCHANGED new_capacity, new_capacity = None
    PROVE  BufferInv' /\ Pending' = Append(Pending, enqueued')
<1>1. enqueued + 1 \in Nat /\ enqueued' \in Nat /\ size_ \in Nat /\ size_' = size_ + 1
  BY DEF BufferInv, Store
<1>2. BufferInv' /\ \A j \in 1..size_' : ring_buffer_'[Slot(j)'] =
                        IF j = size_ + 1 THEN enqueued + 1 ELSE ring_buffer_[Slot(j)]
  <2>1. CASE size_ = capacity_
    BY <1>1, <2>1, StoreInGrown DEF Store
  <2>2. CASE size_ # capacity_
    BY <1>1, <2>2, StoreInRoom DEF Store
  <2> QED  BY <2>1, <2>2
<1>3. PendingFacts /\ PendingFacts'
  BY <1>2, PendingSeq, PendingSeqNext
<1>4. /\ Append(Pending, enqueued') \in Seq(Nat) /\ Len(Append(Pending, enqueued')) = size_ + 1
      /\ \A j \in 1..(size_ + 1) : Append(Pending, enqueued')[j] =
                                      IF j = size_ + 1 THEN enqueued' ELSE Pending[j]
  BY <1>1, <1>3, AppendProperties DEF PendingFacts
<1>5. ASSUME NEW j \in 1..size_' PROVE Pending'[j] = Append(Pending, enqueued')[j]
  <2>1. j \in 1..(size_ + 1) /\ (j # size_ + 1 => j \in 1..size_)
    BY <1>1
  <2>2. Pending'[j] = IF j = size_ + 1 THEN enqueued + 1 ELSE ring_buffer_[Slot(j)]
    BY <1>2, <1>3, Zenon DEF PendingFacts
  <2>3. Append(Pending, enqueued')[j] = IF j = size_ + 1 THEN enqueued' ELSE Pending[j]
    BY <1>4, <2>1, Zenon
  <2>4. j # size_ + 1 => Pending[j] = ring_buffer_[Slot(j)]
    BY <1>3, <2>1, Zenon DEF PendingFacts
  <2>5. CASE j = size_ + 1
    BY <2>2, <2>3, <2>5, Zenon
  <2>6. CASE j # size_ + 1
    BY <2>2, <2>3, <2>4, <2>6, Zenon
  <2> QED  BY <2>5, <2>6
<1> QED  BY <1>1, <1>2, <1>3, <1>4, <1>5, SameSeq DEF PendingFacts
------------------------------------------------------------------------------
(* RunSingleMicrotask removes the first microtask.                          *)
LEMMA RunRemovesFirst ==
    ASSUME BufferInv, RunSingleMicrotask, new_capacity = None
    PROVE  BufferInv' /\ Pending # <<>> /\ Pending' = Tail(Pending)
<1>1. /\ size_ \in Nat \ {0} /\ capacity_ \in Nat \ {0} /\ size_' = size_ - 1 /\ size_' \in Nat
      /\ start_ \in Nat /\ start_ < capacity_ /\ capacity_' = capacity_
      /\ start_' = (start_ + 1) % capacity_ /\ start_ + 1 < 2 * capacity_
  BY DEF BufferInv, RunSingleMicrotask
<1>2. /\ start_' = IF start_ + 1 < capacity_ THEN start_ + 1 ELSE start_ + 1 - capacity_
      /\ start_' \in 0..(capacity_ - 1)
  <2> DEFINE x == start_ + 1
  <2>1. capacity_ \in Nat \ {0} /\ x \in Nat /\ x < 2 * capacity_ /\ start_' = x % capacity_
    BY <1>1
  <2> HIDE DEF x
  <2>2. start_' = (IF x < capacity_ THEN x ELSE x - capacity_) /\ start_' \in 0..(capacity_ - 1)
    BY <2>1, Wrap
  <2> QED  BY <1>1, <2>2 DEF x
<1>3. BufferInv'
  BY <1>1, <1>2 DEF BufferInv, RunSingleMicrotask
<1>4. PendingFacts /\ PendingFacts'
  BY <1>3, PendingSeq, PendingSeqNext
<1>5. ASSUME NEW j \in 1..size_' PROVE Slot(j)' = Slot(j + 1)
  <2>1. j \in Nat /\ j >= 1 /\ j + 1 \in 1..capacity_ /\ start_' + j - 1 \in Nat
        /\ start_' + j - 1 < 2 * capacity_
    BY <1>1, <1>2 DEF BufferInv
  <2>2. PICK x \in Nat : x = start_' + j - 1
    BY <2>1
  <2>3. Slot(j)' = IF x < capacity_ THEN x ELSE x - capacity_
    <3>1. x < 2 * capacity_ /\ Slot(j)' = x % capacity_
      BY <1>1, <2>1, <2>2 DEF Slot
    <3> QED  BY <1>1, <3>1, Wrap
  <2>4. Slot(j + 1) = IF start_ + (j + 1) - 1 < capacity_ THEN start_ + (j + 1) - 1
                                                  ELSE start_ + (j + 1) - 1 - capacity_
    BY <2>1, SlotValue
  <2>5. j + 1 <= size_ /\ size_ <= capacity_
    BY <1>1 DEF BufferInv
  <2> QED  BY <1>1, <1>2, <2>1, <2>2, <2>3, <2>4, <2>5
<1>6. Pending \in Seq(Nat) /\ Pending # <<>> /\ Len(Pending) = size_
  BY <1>1, <1>4 DEF PendingFacts
<1>7. /\ Tail(Pending) \in Seq(Nat) /\ Len(Tail(Pending)) = size_ - 1
      /\ \A j \in 1..(size_ - 1) : Tail(Pending)[j] = Pending[j + 1]
  BY <1>1, <1>6, HeadTailProperties
<1>8. \A j \in 1..size_' : Pending'[j] = Tail(Pending)[j]
  <2> SUFFICES ASSUME NEW j \in 1..size_' PROVE Pending'[j] = Tail(Pending)[j]
    OBVIOUS
  <2>1. j \in 1..(size_ - 1) /\ j + 1 \in 1..size_
    BY <1>1
  <2> QED  BY <1>4, <1>5, <1>7, <2>1 DEF PendingFacts, RunSingleMicrotask
<1> QED  BY <1>1, <1>3, <1>4, <1>6, <1>7, <1>8, SameSeq DEF PendingFacts

(* The collector visits every slot in use.                                  *)
LEMMA IterateKeeps ==
    ASSUME BufferInv, IterateMicrotasks
    PROVE  BufferInv' /\ Pending' = Pending
<1>1. ASSUME NEW j \in 1..size_ PROVE Slot(j) \in VisitedSlots /\ Slot(j) \in 0..(capacity_ - 1)
  <2>1. j \in 1..capacity_ /\ size_ # 0 /\ capacity_ \in Nat /\ start_ \in Nat /\ size_ \in Nat
        /\ j \in Nat /\ size_ <= capacity_ /\ j <= size_ /\ j >= 1
    BY DEF BufferInv
  <2>2. /\ Slot(j) = IF start_ + j - 1 < capacity_ THEN start_ + j - 1
                                                   ELSE start_ + j - 1 - capacity_
        /\ Slot(j) \in 0..(capacity_ - 1)
    BY <2>1, SlotValue
  <2>3. CASE start_ + j - 1 < capacity_
    BY <2>1, <2>2, <2>3 DEF VisitedSlots, MinOf, MaxOf
  <2>4. CASE ~(start_ + j - 1 < capacity_)
    BY <2>1, <2>2, <2>4 DEF VisitedSlots, MinOf, MaxOf
  <2> QED  BY <2>2, <2>3, <2>4
<1>2. /\ capacity_' = capacity_ /\ size_' = size_ /\ start_' = start_
      /\ ring_buffer_' = [i \in 0..(capacity_ - 1) |-> IF i \in VisitedSlots THEN ring_buffer_[i] ELSE 0]
  BY DEF IterateMicrotasks
<1>3. BufferInv'
  <2>1. ring_buffer_' \in [0..(capacity_ - 1) -> Nat]
    BY <1>2 DEF BufferInv
  <2>2. new_capacity' # None => new_capacity' \in Nat /\ size_ <= new_capacity'
    BY DEF BufferInv, IterateMicrotasks
  <2> QED  BY <1>2, <2>1, <2>2 DEF BufferInv, IterateMicrotasks
<1>4. \A j \in 1..size_ : ring_buffer_'[Slot(j)'] = ring_buffer_[Slot(j)]
  BY <1>1, <1>2 DEF Slot
<1> QED  BY <1>2, <1>3, <1>4, SamePending

(* Shrinking copies all the microtasks, in order.                           *)
LEMMA ShrinkKeeps ==
    ASSUME BufferInv, ShrinkBuffer
    PROVE  BufferInv' /\ Pending' = Pending
<1> DEFINE cap == MaxOf(new_capacity, MinimumCapacity)
<1>1. cap \in Nat /\ size_ <= cap /\ size_ \in Nat /\ size_' = size_ /\ new_capacity' = None
      /\ enqueued' \in Nat /\ (cap < capacity_ => cap > 0)
  BY MicrotaskAssumption DEF BufferInv, ShrinkBuffer, MaxOf
<1>2. CASE cap < capacity_
  <2>1. ring_buffer_' = Resized(cap) /\ capacity_' = cap /\ start_' = 0
    BY <1>2 DEF ShrinkBuffer
  <2> HIDE DEF cap
  <2>2. /\ Resized(cap) \in [0..(cap - 1) -> Nat]
        /\ \A j \in 1..size_ : Resized(cap)[j - 1] = ring_buffer_[Slot(j)]
    BY <1>1, ResizedBuffer
  <2>3. BufferInv'
    BY <1>1, <2>1, <2>2 DEF BufferInv
  <2>4. \A j \in 1..size_ : ring_buffer_'[Slot(j)'] = ring_buffer_[Slot(j)]
    <3> SUFFICES ASSUME NEW j \in 1..size_
                 PROVE  ring_buffer_'[Slot(j)'] = ring_buffer_[Slot(j)]
      OBVIOUS
    <3>1. j \in 1..cap
      BY <1>1
    <3>2. Slot(j)' = j - 1
      BY <1>1, <2>1, <3>1, SlotFromZero
    <3> QED  BY <2>1, <2>2, <3>2
  <2> QED  BY <1>1, <2>3, <2>4, SamePending
<1>3. CASE ~(cap < capacity_)
  <2>1. UNCHANGED <<ring_buffer_, capacity_, start_>>
    BY <1>3 DEF ShrinkBuffer
  <2> HIDE DEF cap
  <2> QED  BY <1>1, <2>1 DEF BufferInv, Pending
<1> QED  BY <1>2, <1>3
------------------------------------------------------------------------------
LEMMA InitFifo == Init => BufferInv /\ Fifo!Init
<1> SUFFICES ASSUME Init PROVE BufferInv /\ Fifo!Init
  OBVIOUS
<1>1. size_ = 0 /\ capacity_ = 0 /\ start_ = 0 /\ new_capacity = None /\ enqueued = 0
      /\ ring_buffer_ = <<>>
  BY DEF Init
<1>2. BufferInv
  BY <1>1 DEF BufferInv
<1>3. Pending = <<>>
  BY <1>1 DEF Pending
<1> QED  BY <1>1, <1>2, <1>3 DEF Fifo!Init

(* The steps that leave the buffer alone.                                   *)
LEMMA SameBuffer ==
    ASSUME BufferInv, UNCHANGED buffer
    PROVE  BufferInv' /\ UNCHANGED Fifo!vars
  BY DEF buffer, BufferInv, Pending, Fifo!vars

(* One step of script.                                                      *)
LEMMA ScriptFifo ==
    ASSUME BufferInv, Script, new_capacity = None
    PROVE  BufferInv' /\ [Fifo!Next]_(Fifo!vars)
<1>1. CASE \E builtin, pure \in BOOLEAN : EnqueueMicrotask(builtin, pure)
  <2>1. /\ enqueued' = enqueued + 1 /\ UNCHANGED new_capacity
        /\ \/ UNCHANGED <<ring_buffer_, capacity_, size_, start_>>
           \/ Store(enqueued + 1)
    BY <1>1 DEF EnqueueMicrotask
  <2>2. CASE UNCHANGED <<ring_buffer_, capacity_, size_, start_>>
    <3>1. BufferInv'
      BY <2>1, <2>2 DEF BufferInv
    <3>2. Pending' = Pending
      BY <2>2 DEF Pending
    <3> QED  BY <2>1, <3>1, <3>2 DEF Fifo!Next, Fifo!HandOver
  <2>3. CASE Store(enqueued + 1)
    <3>1. BufferInv' /\ Pending' = Append(Pending, enqueued')
      BY <2>1, <2>3, StoreAppends
    <3> QED  BY <2>1, <3>1 DEF Fifo!Next, Fifo!Enqueue
  <2> QED  BY <2>1, <2>2, <2>3
<1>2. CASE TerminateExecution
  <2>1. size_' = 0 /\ capacity_' = 0 /\ start_' = 0 /\ ring_buffer_' = <<>>
        /\ enqueued' = enqueued /\ new_capacity' = new_capacity
    BY <1>2 DEF TerminateExecution
  <2>2. BufferInv'
    BY <2>1 DEF BufferInv
  <2>3. Pending' = <<>>
    BY <2>1 DEF Pending
  <2> QED  BY <2>1, <2>2, <2>3 DEF Fifo!Next, Fifo!Terminate
<1>3. CASE EnterMicrotasksScope \/ EnterSuppression
  BY <1>3, SameBuffer DEF EnterMicrotasksScope, EnterSuppression
<1>4. CASE \E c \in Callbacks : AddMicrotasksCompletedCallback(c) \/ RemoveMicrotasksCompletedCallback(c)
  BY <1>4, SameBuffer DEF AddMicrotasksCompletedCallback, RemoveMicrotasksCompletedCallback
<1>5. CASE \E q \in Queues : New(q) \/ Delete(q)
  BY <1>5, SameBuffer DEF New, Delete
<1> QED  BY <1>1, <1>2, <1>3, <1>4, <1>5 DEF Script

(* One step of the thread's way back.                                       *)
LEMMA ReturnFifo ==
    ASSUME BufferInv, Return, new_capacity = None
    PROVE  BufferInv' /\ [Fifo!Next]_(Fifo!vars)
<1>1. CASE RunSingleMicrotask
  <2>1. BufferInv' /\ Pending # <<>> /\ Pending' = Tail(Pending)
    BY <1>1, RunRemovesFirst
  <2>2. enqueued' = enqueued
    BY <1>1 DEF RunSingleMicrotask
  <2> QED  BY <2>1, <2>2 DEF Fifo!Next, Fifo!Run
<1>2. CASE LeaveMicrotasksScope
  BY <1>2, SameBuffer DEF LeaveMicrotasksScope, RunMicrotasks
<1>3. CASE LeaveSuppression
  BY <1>3, SameBuffer DEF LeaveSuppression
<1>4. CASE PerformCheckpoint
  BY <1>4, SameBuffer DEF PerformCheckpoint, RunMicrotasks
<1>5. CASE FinishMicrotask \/ QueueIsEmpty
  BY <1>5, SameBuffer DEF FinishMicrotask, QueueIsEmpty
<1>6. CASE CallCallback \/ ReturnFromCallback \/ LeaveRunMicrotasks
  BY <1>6, SameBuffer DEF CallCallback, ReturnFromCallback, LeaveRunMicrotasks
<1> QED  BY <1>1, <1>2, <1>3, <1>4, <1>5, <1>6 DEF Return

LEMMA NextFifo ==
    BufferInv /\ [Next]_vars => BufferInv' /\ [Fifo!Next]_(Fifo!vars)
<1> SUFFICES ASSUME BufferInv, [Next]_vars PROVE BufferInv' /\ [Fifo!Next]_(Fifo!vars)
  OBVIOUS
<1>1. CASE new_capacity = None /\ Script
  BY <1>1, ScriptFifo
<1>2. CASE new_capacity = None /\ Return
  BY <1>2, ReturnFifo
<1>3. CASE IterateMicrotasks
  <2>1. BufferInv' /\ Pending' = Pending
    BY <1>3, IterateKeeps
  <2>2. enqueued' = enqueued
    BY <1>3 DEF IterateMicrotasks
  <2> QED  BY <2>1, <2>2 DEF Fifo!vars
<1>4. CASE HalveCapacity
  <2>1. UNCHANGED <<ring_buffer_, capacity_, size_, start_, enqueued>>
    BY <1>4 DEF HalveCapacity
  <2>2. new_capacity' \in Nat /\ size_ <= new_capacity'
    BY <1>4 DEF HalveCapacity, BufferInv
  <2>3. BufferInv'
    BY <2>1, <2>2 DEF BufferInv
  <2> QED  BY <2>1, <2>3 DEF Fifo!vars, Pending
<1>5. CASE ShrinkBuffer
  <2>1. BufferInv' /\ Pending' = Pending
    BY <1>5, ShrinkKeeps
  <2>2. enqueued' = enqueued
    BY <1>5 DEF ShrinkBuffer
  <2> QED  BY <2>1, <2>2 DEF Fifo!vars
<1>6. CASE UNCHANGED vars
  BY <1>6, SameBuffer DEF vars
<1> QED  BY <1>1, <1>2, <1>3, <1>4, <1>5, <1>6 DEF Next, Collect

(* The ring buffer of the microtask queue implements a first-in first-out   *)
(* queue for every kMinimumCapacity and any number of microtasks: wrapping, *)
(* growing in EnqueueMicrotask, shrinking in IterateMicrotasks and the      *)
(* reset of a termination lose, repeat and reorder nothing.                 *)
THEOREM RingBufferIsFifo == Spec => FifoSpec
<1>1. Init => BufferInv /\ Fifo!Init
  BY InitFifo
<1>2. BufferInv /\ [Next]_vars => BufferInv' /\ [Fifo!Next]_(Fifo!vars)
  BY NextFifo
<1> QED  BY <1>1, <1>2, PTL DEF Spec, FifoSpec, Fifo!Spec
------------------------------------------------------------------------------
(* Where the thread is and what it holds.  RunMicrotasks holds a            *)
(* suppression, so the count never goes below what LeaveRunMicrotasks takes.*)
RunInv ==
    /\ pc \in {"script", "loop", "task", "completed", "callback"}
    /\ is_running_microtasks_ \in BOOLEAN /\ (is_running_microtasks_ <=> pc # "script")
    /\ microtasks_depth_ \in Nat /\ microtasks_suppressions_ \in Nat
    /\ is_running_microtasks_ => microtasks_suppressions_ >= 1
    /\ microtasks_policy_ \in {"kAuto", "kScoped"} /\ entered \in 0..MaxScopes
    /\ program \in Programs

LEMMA BeginRunInv ==
    ASSUME RunInv, ~is_running_microtasks_, RunMicrotasks, microtasks_depth_' \in Nat
    PROVE  RunInv'
<1>1. pc' \in {"loop", "completed"} /\ is_running_microtasks_' = TRUE
      /\ microtasks_suppressions_' = microtasks_suppressions_ + 1
      /\ UNCHANGED <<microtasks_policy_, entered, program>>
  BY DEF RunMicrotasks, OnCompleted
<1> QED  BY <1>1 DEF RunInv

LEMMA SameRunInv ==
    ASSUME RunInv, UNCHANGED <<scopes, is_running_microtasks_, pc>>
    PROVE  RunInv'
  BY Zenon DEF RunInv, scopes

LEMMA ScriptRunInv ==
    ASSUME RunInv, Script
    PROVE  RunInv'
<1>1. CASE \/ \E builtin, pure \in BOOLEAN : EnqueueMicrotask(builtin, pure)
           \/ \E q \in Queues : New(q) \/ Delete(q)
           \/ \E c \in Callbacks : \/ AddMicrotasksCompletedCallback(c)
                                   \/ RemoveMicrotasksCompletedCallback(c)
  BY <1>1, SameRunInv, Zenon DEF EnqueueMicrotask, New, Delete, AddMicrotasksCompletedCallback,
                  RemoveMicrotasksCompletedCallback, run
<1>2. CASE TerminateExecution
  <2>1. pc = "task" /\ pc' = "completed" /\ UNCHANGED <<scopes, is_running_microtasks_>>
    BY <1>2, Zenon DEF TerminateExecution, OnCompleted
  <2> QED  BY <2>1 DEF RunInv, scopes
<1>3. CASE EnterMicrotasksScope \/ EnterSuppression
  <2>1. /\ UNCHANGED <<pc, is_running_microtasks_, microtasks_policy_, program>>
        /\ entered < MaxScopes /\ entered' = entered + 1
        /\ \/ microtasks_depth_' = microtasks_depth_ + 1 /\ UNCHANGED microtasks_suppressions_
           \/ microtasks_suppressions_' = microtasks_suppressions_ + 1 /\ UNCHANGED microtasks_depth_
    BY <1>3, Zenon DEF EnterMicrotasksScope, EnterSuppression, run
  <2> QED  BY <2>1, MicrotaskAssumption DEF RunInv
<1> QED  BY <1>1, <1>2, <1>3, Zenon DEF Script

LEMMA ReturnRunInv ==
    ASSUME RunInv, Return
    PROVE  RunInv'
<1>1. CASE PerformCheckpoint
  BY <1>1, BeginRunInv, Zenon DEF PerformCheckpoint, ShouldPerfomCheckpoint, RunInv
<1>2. CASE LeaveMicrotasksScope
  <2>1. microtasks_depth_ > 0 /\ microtasks_depth_' = microtasks_depth_ - 1
    BY <1>2, Zenon DEF LeaveMicrotasksScope
  <2>2. microtasks_depth_' \in Nat
    BY <2>1 DEF RunInv
  <2>3. CASE RunMicrotasks /\ ~is_running_microtasks_
    BY <2>2, <2>3, BeginRunInv, Zenon
  <2>4. CASE UNCHANGED <<microtasks_suppressions_, microtasks_policy_, entered, program, run>>
    BY <2>2, <2>4, Zenon DEF RunInv, run
  <2> QED  BY <1>2, <2>3, <2>4, Zenon DEF LeaveMicrotasksScope, ShouldPerfomCheckpoint
<1>3. CASE LeaveSuppression
  <2>1. /\ UNCHANGED <<pc, is_running_microtasks_, microtasks_depth_, microtasks_policy_, entered, program>>
        /\ microtasks_suppressions_ > Held /\ microtasks_suppressions_' = microtasks_suppressions_ - 1
    BY <1>3, Zenon DEF LeaveSuppression, run
  <2> QED  BY <2>1 DEF RunInv, Held
<1>4. CASE RunSingleMicrotask \/ FinishMicrotask \/ QueueIsEmpty \/ CallCallback \/ ReturnFromCallback
  <2>1. /\ pc # "script" /\ pc' \in {"loop", "task", "completed", "callback"}
        /\ UNCHANGED <<scopes, is_running_microtasks_>>
    BY <1>4 DEF RunSingleMicrotask, FinishMicrotask, QueueIsEmpty, CallCallback, ReturnFromCallback,
                OnCompleted
  <2> QED  BY <2>1 DEF RunInv, scopes
<1>5. CASE LeaveRunMicrotasks
  <2>1. /\ pc = "completed" /\ pc' = "script" /\ is_running_microtasks_' = FALSE
        /\ microtasks_suppressions_' = microtasks_suppressions_ - 1
        /\ UNCHANGED <<microtasks_depth_, microtasks_policy_, entered, program>>
    BY <1>5, Zenon DEF LeaveRunMicrotasks
  <2>2. microtasks_suppressions_ \in Nat /\ microtasks_suppressions_ >= 1
    BY <2>1, Zenon DEF RunInv
  <2>3. microtasks_suppressions_' \in Nat
    BY <2>1, <2>2
  <2> QED  BY <2>1, <2>3, Zenon DEF RunInv
<1> QED  BY <1>1, <1>2, <1>3, <1>4, <1>5, Zenon DEF Return

(* A collection, or nothing.                                                *)
LEMMA CollectQuiet ==
    ASSUME IterateMicrotasks \/ Collect \/ UNCHANGED vars
    PROVE  UNCHANGED <<scopes, list, run, chain>>
  BY Zenon DEF IterateMicrotasks, Collect, HalveCapacity, ShrinkBuffer, vars

LEMMA NextRunInv == RunInv /\ [Next]_vars => RunInv'
<1> SUFFICES ASSUME RunInv, [Next]_vars PROVE RunInv'
  OBVIOUS
<1>1. CASE IterateMicrotasks \/ Collect \/ UNCHANGED vars
  BY <1>1, CollectQuiet, SameRunInv, Zenon DEF run
<1> QED  BY <1>1, ScriptRunInv, ReturnRunInv, Zenon DEF Next
------------------------------------------------------------------------------
(* A vector without repetition that holds exactly the callbacks of R.       *)
Lists(s, R) ==
    /\ s \in Seq(Callbacks) /\ R \subseteq Callbacks
    /\ \A i, j \in 1..Len(s) : s[i] = s[j] => i = j
    /\ \A c \in Callbacks : c \in R <=> \E i \in 1..Len(s) : s[i] = c

LEMMA AppendLists ==
    ASSUME NEW s, NEW R, Lists(s, R), NEW c \in Callbacks, ~\E i \in 1..Len(s) : s[i] = c
    PROVE  Lists(Append(s, c), R \cup {c})
<1>1. /\ s \in Seq(Callbacks) /\ Len(s) \in Nat
      /\ Append(s, c) \in Seq(Callbacks) /\ Len(Append(s, c)) = Len(s) + 1
      /\ \A i \in 1..Len(s) : Append(s, c)[i] = s[i]
      /\ Append(s, c)[Len(s) + 1] = c
  <2>1. s \in Seq(Callbacks)
    BY Zenon DEF Lists
  <2> QED  BY <2>1, AppendProperties, LenProperties
<1>2. \A i \in 1..(Len(s) + 1) : i \in 1..Len(s) \/ i = Len(s) + 1
  BY <1>1
<1>3. \A i \in 1..Len(s) : i \in 1..(Len(s) + 1)
  BY <1>1
<1>4. Len(s) + 1 \in 1..(Len(s) + 1)
  BY <1>1
<1>5. \A i, j \in 1..Len(Append(s, c)) : Append(s, c)[i] = Append(s, c)[j] => i = j
  BY <1>1, <1>2, Zenon DEF Lists
<1>6. \A d \in Callbacks : d \in R \cup {c} <=> \E i \in 1..Len(Append(s, c)) : Append(s, c)[i] = d
  BY <1>1, <1>2, <1>3, <1>4, Zenon DEF Lists
<1> QED  BY <1>1, <1>5, <1>6, Zenon DEF Lists

LEMMA EraseLists ==
    ASSUME NEW s, NEW R, Lists(s, R), NEW c \in Callbacks
    PROVE  Lists(Erase(s, c), R \ {c})
<1>0. s \in Seq(Callbacks) /\ Len(s) \in Nat /\ DOMAIN s = 1..Len(s)
  BY LenProperties, Zenon DEF Lists
<1>1. CASE ~\E i \in DOMAIN s : s[i] = c
  <2>1. Erase(s, c) = s
    BY <1>1, Zenon DEF Erase
  <2>2. R \ {c} = R
    BY <1>0, <1>1, Zenon DEF Lists
  <2> QED  BY <2>1, <2>2, Zenon
<1>2. CASE \E i \in DOMAIN s : s[i] = c
  <2> DEFINE pos == CHOOSE i \in DOMAIN s : s[i] = c /\ \A j \in 1..(i - 1) : s[j] # c
             k(j) == IF j < pos THEN j ELSE j + 1
             e == [j \in 1..(Len(s) - 1) |-> s[k(j)]]
  <2>1. Erase(s, c) = e
    BY <1>2, Zenon DEF Erase
  <2>2. \E i \in DOMAIN s : s[i] = c /\ \A j \in 1..(i - 1) : s[j] # c
    <3>1. PICK i \in 1..Len(s) : s[i] = c
      BY <1>0, <1>2, Zenon
    <3>2. \A j \in 1..(i - 1) : j \in 1..Len(s) /\ j # i
      BY <1>0, <3>1
    <3> QED  BY <1>0, <3>1, <3>2, Zenon DEF Lists
  <2>3. pos \in 1..Len(s) /\ s[pos] = c
    BY <1>0, <2>2, Zenon
  <2> HIDE DEF pos
  <2>4. \A j \in 1..(Len(s) - 1) : k(j) \in 1..Len(s) /\ k(j) # pos
    BY <1>0, <2>3
  <2>5. \A i, j \in 1..(Len(s) - 1) : k(i) = k(j) => i = j
    BY <1>0, <2>3
  <2>6. \A i \in 1..Len(s) : i # pos => \E j \in 1..(Len(s) - 1) : k(j) = i
    <3> TAKE i \in 1..Len(s)
    <3> HAVE i # pos
    <3>1. CASE i < pos
      <4>1. i \in 1..(Len(s) - 1) /\ k(i) = i
        BY <1>0, <2>3, <3>1
      <4> QED  BY <4>1
    <3>2. CASE i > pos
      <4>1. i - 1 \in 1..(Len(s) - 1) /\ k(i - 1) = i
        BY <1>0, <2>3, <3>2
      <4> QED  BY <4>1
    <3> QED  BY <2>3, <3>1, <3>2
  <2> HIDE DEF k
  <2>7. \A j \in 1..(Len(s) - 1) : e[j] = s[k(j)] /\ s[k(j)] \in Callbacks
    BY <1>0, <2>4, ElementOfSeq, Zenon
  <2>8. Len(s) - 1 \in Nat
    BY <1>0, <2>3
  <2>9. e \in [1..(Len(s) - 1) -> Callbacks]
    BY <2>7, Zenon
  <2> HIDE DEF e
  <2>10. e \in Seq(Callbacks) /\ Len(e) = Len(s) - 1
    BY <2>8, <2>9
  <2>11. \A i, j \in 1..Len(e) : e[i] = e[j] => i = j
    <3> SUFFICES ASSUME NEW i \in 1..(Len(s) - 1), NEW j \in 1..(Len(s) - 1), e[i] = e[j] PROVE i = j
      BY <2>10, Zenon
    <3>1. k(i) \in 1..Len(s) /\ k(j) \in 1..Len(s) /\ s[k(i)] = s[k(j)]
      BY <2>4, <2>7
    <3>2. k(i) = k(j)
      BY <3>1, Zenon DEF Lists
    <3> QED  BY <2>5, <3>2, Zenon
  <2>12. ASSUME NEW d \in Callbacks PROVE d \in R \ {c} <=> \E i \in 1..Len(e) : e[i] = d
    <3>1. ASSUME d \in R, d # c PROVE \E i \in 1..Len(e) : e[i] = d
      <4>1. PICK i \in 1..Len(s) : s[i] = d
        BY <3>1, Zenon DEF Lists
      <4>2. i # pos
        BY <2>3, <3>1, <4>1, Zenon
      <4> QED  BY <2>6, <2>7, <2>10, <4>1, <4>2, Zenon
    <3>2. ASSUME NEW i \in 1..Len(e), e[i] = d PROVE d \in R /\ d # c
      <4>1. k(i) \in 1..Len(s) /\ k(i) # pos /\ s[k(i)] = d
        BY <2>4, <2>7, <2>10, <3>2, Zenon
      <4> QED  BY <2>3, <4>1, Zenon DEF Lists
    <3> QED  BY <3>1, <3>2, Zenon
  <2>13. R \ {c} \subseteq Callbacks
    BY Zenon DEF Lists
  <2> QED  BY <2>1, <2>10, <2>11, <2>12, <2>13, Zenon DEF Lists
<1> QED  BY <1>1, <1>2

(* While OnCompleted iterates, the vector is the one it began with, and the *)
(* callbacks called so far are its beginning; outside, there is no copy.    *)
ListInv ==
    /\ microtasks_completed_callbacks_ \in Seq(Callbacks)
    /\ called \in Seq(Callbacks) /\ toCall \in Seq(Callbacks)
    /\ is_running_completed_callbacks_ =>
         /\ toCall = microtasks_completed_callbacks_ /\ Len(called) <= Len(toCall)
         /\ \A i \in 1..Len(called) : called[i] = toCall[i]
    /\ ~is_running_completed_callbacks_ => microtasks_completed_callbacks_cow_ = None
    /\ microtasks_completed_callbacks_cow_ \in Seq(Callbacks) \cup {None}
    /\ Lists(Latest, registered)

LEMMA SameListInv ==
    ASSUME ListInv, UNCHANGED <<list, called, toCall>>,
           is_running_completed_callbacks_' <=> is_running_completed_callbacks_
    PROVE  ListInv'
<1>1. Latest' = Latest
  BY Zenon DEF list, Latest
<1>2. Lists(Latest', registered')
  BY <1>1, Zenon DEF list, ListInv
<1> QED  BY <1>2, Zenon DEF ListInv, list

LEMMA OnCompletedListInv ==
    ASSUME ListInv, OnCompleted, UNCHANGED list
    PROVE  ListInv'
<1>1. /\ is_running_completed_callbacks_' /\ called' = <<>> /\ UNCHANGED list
      /\ toCall' = microtasks_completed_callbacks_
  BY DEF OnCompleted, is_running_completed_callbacks_
<1>2. Latest' = Latest
  BY <1>1, Zenon DEF list, Latest
<1>3. Lists(Latest', registered')
  BY <1>1, <1>2, Zenon DEF list, ListInv
<1>4. Len(called') = 0 /\ called' \in Seq(Callbacks) /\ Len(toCall') \in Nat /\ toCall' \in Seq(Callbacks)
  BY <1>1 DEF ListInv
<1>5. Len(called') <= Len(toCall') /\ \A i \in 1..Len(called') : called'[i] = toCall'[i]
  BY <1>4
<1>6. toCall' = microtasks_completed_callbacks_' /\ UNCHANGED <<microtasks_completed_callbacks_,
         microtasks_completed_callbacks_cow_>>
  BY <1>1, Zenon DEF list
<1> QED  BY <1>1, <1>3, <1>4, <1>5, <1>6, Zenon DEF ListInv

(* Copy on write.                                                           *)
LEMMA ChangeListInv ==
    ASSUME ListInv, NEW s, NEW R, Lists(s, R), Change(s), registered' = R, UNCHANGED run
    PROVE  ListInv'
<1>1. s \in Seq(Callbacks) /\ s # None
  BY MicrotaskAssumption, Zenon DEF Lists
<1>2. UNCHANGED <<pc, called, toCall>>
        /\ (is_running_completed_callbacks_' <=> is_running_completed_callbacks_)
  BY Zenon DEF run, is_running_completed_callbacks_
<1>3. CASE is_running_completed_callbacks_
  <2>1. microtasks_completed_callbacks_cow_' = s /\ UNCHANGED microtasks_completed_callbacks_
    BY <1>3, Zenon DEF Change
  <2>2. Latest' = s
    BY <1>1, <2>1, Zenon DEF Latest
  <2> QED  BY <1>1, <1>2, <1>3, <2>1, <2>2, Zenon DEF ListInv
<1>4. CASE ~is_running_completed_callbacks_
  <2>1. microtasks_completed_callbacks_' = s /\ UNCHANGED microtasks_completed_callbacks_cow_
        /\ microtasks_completed_callbacks_cow_ = None
    BY <1>4, Zenon DEF Change, ListInv
  <2>2. Latest' = s
    BY <2>1, Zenon DEF Latest
  <2> QED  BY <1>1, <1>2, <1>4, <2>1, <2>2, Zenon DEF ListInv
<1> QED  BY <1>3, <1>4

LEMMA ScriptListInv ==
    ASSUME RunInv, ListInv, Script
    PROVE  ListInv'
<1>1. CASE \/ \E builtin, pure \in BOOLEAN : EnqueueMicrotask(builtin, pure)
           \/ EnterMicrotasksScope \/ EnterSuppression \/ \E q \in Queues : New(q) \/ Delete(q)
  <2>1. UNCHANGED <<list, run>>
    BY <1>1, Zenon DEF EnqueueMicrotask, EnterMicrotasksScope, EnterSuppression, New, Delete
  <2> QED  BY <2>1, SameListInv, Zenon DEF run, is_running_completed_callbacks_
<1>2. CASE TerminateExecution
  BY <1>2, OnCompletedListInv, Zenon DEF TerminateExecution
<1>3. ASSUME NEW c \in Callbacks, AddMicrotasksCompletedCallback(c) PROVE ListInv'
  <2>0. Lists(Latest, registered) /\ DOMAIN Latest = 1..Len(Latest)
    BY LenProperties DEF ListInv, Lists
  <2>1. UNCHANGED run /\ registered' = registered \cup {c}
    BY <1>3, Zenon DEF AddMicrotasksCompletedCallback
  <2>2. CASE \E i \in DOMAIN Latest : Latest[i] = c
    <3>1. Change(Latest)
      BY <1>3, <2>2, Zenon DEF AddMicrotasksCompletedCallback
    <3>2. registered \cup {c} = registered
      BY <2>0, <2>2, Zenon DEF Lists
    <3> QED  BY <2>0, <2>1, <3>1, <3>2, ChangeListInv, Zenon
  <2>3. CASE ~\E i \in DOMAIN Latest : Latest[i] = c
    <3>1. Change(Append(Latest, c))
      BY <1>3, <2>3, Zenon DEF AddMicrotasksCompletedCallback
    <3>2. Lists(Append(Latest, c), registered \cup {c})
      BY <2>0, <2>3, AppendLists, Zenon
    <3> QED  BY <2>1, <3>1, <3>2, ChangeListInv, Zenon
  <2> QED  BY <2>2, <2>3
<1>4. ASSUME NEW c \in Callbacks, RemoveMicrotasksCompletedCallback(c) PROVE ListInv'
  <2>1. UNCHANGED run /\ registered' = registered \ {c} /\ Change(Erase(Latest, c))
    BY <1>4, Zenon DEF RemoveMicrotasksCompletedCallback
  <2>2. Lists(Erase(Latest, c), registered \ {c})
    BY EraseLists, Zenon DEF ListInv
  <2> QED  BY <2>1, <2>2, ChangeListInv, Zenon
<1> QED  BY <1>1, <1>2, <1>3, <1>4, Zenon DEF Script

LEMMA ReturnListInv ==
    ASSUME RunInv, ListInv, Return
    PROVE  ListInv'
<1>1. ASSUME RunMicrotasks, ~is_running_microtasks_ PROVE ListInv'
  <2>1. UNCHANGED list /\ pc = "script"
    BY <1>1, Zenon DEF RunMicrotasks, RunInv
  <2>2. CASE OnCompleted
    BY <2>1, <2>2, OnCompletedListInv, Zenon
  <2>3. CASE pc' = "loop" /\ UNCHANGED <<called, toCall>>
    BY <2>1, <2>3, SameListInv, Zenon DEF is_running_completed_callbacks_
  <2> QED  BY <1>1, <2>2, <2>3, Zenon DEF RunMicrotasks
<1>2. CASE PerformCheckpoint
  BY <1>1, <1>2, Zenon DEF PerformCheckpoint, ShouldPerfomCheckpoint
<1>3. CASE LeaveMicrotasksScope \/ LeaveSuppression
  <2>1. (RunMicrotasks /\ ~is_running_microtasks_) \/ UNCHANGED <<list, run>>
    BY <1>3, Zenon DEF LeaveMicrotasksScope, LeaveSuppression, ShouldPerfomCheckpoint
  <2>2. CASE UNCHANGED <<list, run>>
    BY <2>2, SameListInv, Zenon DEF run, is_running_completed_callbacks_
  <2> QED  BY <1>1, <2>1, <2>2, Zenon
<1>4. CASE RunSingleMicrotask \/ FinishMicrotask \/ ReturnFromCallback
  <2>1. UNCHANGED <<list, called, toCall>> /\ (is_running_completed_callbacks_' <=> is_running_completed_callbacks_)
    BY <1>4 DEF RunSingleMicrotask, FinishMicrotask, ReturnFromCallback, is_running_completed_callbacks_
  <2> QED  BY <2>1, SameListInv, Zenon
<1>5. CASE QueueIsEmpty
  BY <1>5, OnCompletedListInv, Zenon DEF QueueIsEmpty
<1>6. CASE CallCallback
  <2>1. /\ is_running_completed_callbacks_ /\ is_running_completed_callbacks_' /\ UNCHANGED <<list, toCall>>
        /\ Len(called) < Len(microtasks_completed_callbacks_)
        /\ called' = Append(called, microtasks_completed_callbacks_[Len(called) + 1])
    BY <1>6 DEF CallCallback, is_running_completed_callbacks_
  <2>2. /\ called \in Seq(Callbacks) /\ toCall \in Seq(Callbacks)
        /\ toCall = microtasks_completed_callbacks_ /\ \A i \in 1..Len(called) : called[i] = toCall[i]
    BY <2>1, Zenon DEF ListInv
  <2>3. Len(called) \in Nat /\ Len(toCall) \in Nat /\ Len(called) + 1 \in 1..Len(toCall)
    BY <2>1, <2>2
  <2>4. toCall[Len(called) + 1] \in Callbacks
    BY <2>2, <2>3, ElementOfSeq, Zenon
  <2>5. /\ called' \in Seq(Callbacks) /\ Len(called') = Len(called) + 1
        /\ \A i \in 1..Len(called) : called'[i] = called[i]
        /\ called'[Len(called) + 1] = toCall[Len(called) + 1]
    BY <2>1, <2>2, <2>4, AppendProperties
  <2>6. Len(called') <= Len(toCall) /\ \A i \in 1..Len(called') : i \in 1..Len(called) \/ i = Len(called) + 1
    BY <2>3, <2>5
  <2>7. \A i \in 1..Len(called') : called'[i] = toCall[i]
    BY <2>2, <2>5, <2>6, Zenon
  <2>8. Latest' = Latest /\ UNCHANGED <<microtasks_completed_callbacks_,
                                        microtasks_completed_callbacks_cow_, registered>>
    BY <2>1, Zenon DEF list, Latest
  <2>9. Lists(Latest', registered')
    BY <2>8, Zenon DEF ListInv
  <2> QED  BY <2>1, <2>2, <2>5, <2>6, <2>7, <2>8, <2>9, Zenon DEF ListInv
<1>7. CASE LeaveRunMicrotasks
  <2>1. /\ microtasks_completed_callbacks_' = Latest /\ microtasks_completed_callbacks_cow_' = None
        /\ called' = <<>> /\ toCall' = <<>> /\ registered' = registered
        /\ ~is_running_completed_callbacks_'
    BY <1>7 DEF LeaveRunMicrotasks, is_running_completed_callbacks_
  <2>2. Latest' = Latest
    BY <2>1, Zenon DEF Latest
  <2>3. Lists(Latest', registered') /\ Latest \in Seq(Callbacks)
    BY <2>1, <2>2, Zenon DEF ListInv, Lists
  <2>4. <<>> \in Seq(Callbacks)
    OBVIOUS
  <2> QED  BY <2>1, <2>3, <2>4, Zenon DEF ListInv
<1> QED  BY <1>2, <1>3, <1>4, <1>5, <1>6, <1>7, Zenon DEF Return

LEMMA NextListInv == RunInv /\ ListInv /\ [Next]_vars => ListInv'
<1> SUFFICES ASSUME RunInv, ListInv, [Next]_vars PROVE ListInv'
  OBVIOUS
<1>1. CASE IterateMicrotasks \/ Collect \/ UNCHANGED vars
  BY <1>1, CollectQuiet, SameListInv, Zenon DEF run, is_running_completed_callbacks_
<1> QED  BY <1>1, ScriptListInv, ReturnListInv, Zenon DEF Next

LEMMA InitRunListInv == Init => RunInv /\ ListInv
<1> SUFFICES ASSUME Init PROVE RunInv /\ ListInv
  OBVIOUS
<1>1. RunInv
  <2>1. 0 \in 0..MaxScopes /\ 0 \in Nat
    BY MicrotaskAssumption
  <2>2. pc = "script" /\ is_running_microtasks_ = FALSE
    BY Zenon DEF Init
  <2> QED  BY <2>1, <2>2, Zenon DEF Init, RunInv
<1>2. /\ Latest = <<>> /\ registered = {} /\ microtasks_completed_callbacks_ = <<>>
      /\ microtasks_completed_callbacks_cow_ = None /\ called = <<>> /\ toCall = <<>>
      /\ ~is_running_completed_callbacks_
  BY DEF Init, Latest, is_running_completed_callbacks_
<1>3. <<>> \in Seq(Callbacks) /\ Len(<<>>) = 0 /\ 1..0 = {}
  OBVIOUS
<1>4. Lists(Latest, registered)
  BY <1>2, <1>3, Zenon DEF Lists
<1>5. ListInv
  BY <1>2, <1>3, <1>4, Zenon DEF ListInv
<1> QED  BY <1>1, <1>5
------------------------------------------------------------------------------
(* r names the n queues of the list in the order of next_.                  *)
IsRing(r, n) ==
    /\ n \in Nat /\ n >= 1 /\ r \in [1..n -> Queues] /\ r[1] = Default
    /\ \A i, j \in 1..n : r[i] = r[j] => i = j
    /\ \A q \in Queues : next_[q] # None <=> \E i \in 1..n : r[i] = q
    /\ \A i \in 1..n : next_[r[i]] = r[After(i, n)] /\ prev_[r[After(i, n)]] = r[i]

ChainInv ==
    /\ next_ \in [Queues -> Queues \cup {None}] /\ prev_ \in [Queues -> Queues \cup {None}]
    /\ \E n \in Nat : \E r \in [1..n -> Queues] : IsRing(r, n)

LEMMA AfterFacts ==
    ASSUME NEW n \in Nat, n >= 1
    PROVE  /\ \A i \in 1..n : After(i, n) \in 1..n
           /\ \A i \in 1..n : i # n => After(i, n) = i + 1
           /\ After(n, n) = 1 /\ n \in 1..n /\ 1 \in 1..n
           /\ \A i, j \in 1..n : After(i, n) = After(j, n) => i = j
  BY DEF After

(* New: the ring gets a last element.                                       *)
LEMMA NewChain ==
    ASSUME ChainInv, NEW q \in Queues, New(q)
    PROVE  ChainInv'
<1>0. PICK n \in Nat : \E r \in [1..n -> Queues] : IsRing(r, n)
  BY Zenon DEF ChainInv
<1>1. PICK r \in [1..n -> Queues] : IsRing(r, n)
  BY <1>0, Zenon
<1>2. n >= 1 /\ r[1] = Default /\ \A i, j \in 1..n : r[i] = r[j] => i = j
  BY <1>1, Zenon DEF IsRing
<1>3. \A i \in 1..n : next_[r[i]] = r[After(i, n)] /\ prev_[r[After(i, n)]] = r[i] /\ r[i] \in Queues
  BY <1>1, Zenon DEF IsRing
<1>4. \A p \in Queues : next_[p] # None <=> \E i \in 1..n : r[i] = p
  BY <1>1, Zenon DEF IsRing
<1>5. n \in 1..n /\ 1 \in 1..n /\ After(n, n) = 1
  BY <1>2, AfterFacts, Zenon
<1>6. prev_[Default] = r[n] /\ next_[r[n]] = Default /\ r[n] \in Queues /\ Default \in Queues
  BY <1>2, <1>3, <1>5, Zenon
<1>7. next_[q] = None /\ \A i \in 1..n : r[i] # q
  BY <1>4, Zenon DEF New
<1>8. /\ next_' = [next_ EXCEPT ![q] = Default, ![r[n]] = q]
      /\ prev_' = [prev_ EXCEPT ![q] = r[n], ![Default] = q]
  BY <1>6, Zenon DEF New
<1>9. next_ \in [Queues -> Queues \cup {None}] /\ prev_ \in [Queues -> Queues \cup {None}]
      /\ None \notin Queues
  BY MicrotaskAssumption, Zenon DEF ChainInv
<1>10. /\ next_' \in [Queues -> Queues \cup {None}] /\ next_'[q] = Default /\ next_'[r[n]] = q
       /\ \A p \in Queues : p # q /\ p # r[n] => next_'[p] = next_[p]
  BY <1>5, <1>6, <1>7, <1>8, <1>9
<1>11. /\ prev_' \in [Queues -> Queues \cup {None}] /\ prev_'[q] = r[n] /\ prev_'[Default] = q
       /\ \A p \in Queues : p # q /\ p # Default => prev_'[p] = prev_[p]
  BY <1>2, <1>5, <1>6, <1>7, <1>8, <1>9
<1>12. PICK m \in Nat : m = n + 1
  OBVIOUS
<1>13. m >= 1 /\ m \in 1..m /\ (\A i \in 1..m : i = m \/ i \in 1..n) /\ \A i \in 1..n : i \in 1..m /\ i # m
  BY <1>2, <1>12
<1>14. PICK s \in [1..m -> Queues] : s[m] = q /\ \A i \in 1..n : s[i] = r[i]
  <2> DEFINE t == [i \in 1..m |-> IF i = m THEN q ELSE r[i]]
  <2>1. t[m] = q /\ \A i \in 1..n : t[i] = r[i]
    BY <1>13, Zenon
  <2>2. t \in [1..m -> Queues]
    BY <1>3, <1>13, Zenon
  <2> QED  BY <2>1, <2>2, Zenon
<1>16. After(m, m) = 1 /\ After(n, m) = m /\ \A i \in 1..n : i # n => After(i, m) = After(i, n)
  BY <1>2, <1>12 DEF After
<1>17. \A i \in 1..n : i # n => After(i, n) \in 1..n /\ After(i, n) # 1
  BY <1>2 DEF After
<1>18. s[1] = Default
  BY <1>2, <1>5, <1>14, Zenon
<1>19. \A i, j \in 1..m : s[i] = s[j] => i = j
  BY <1>2, <1>7, <1>13, <1>14, Zenon
<1>20. ASSUME NEW p \in Queues PROVE next_'[p] # None <=> \E i \in 1..m : s[i] = p
  <2>1. CASE p = q
    BY <1>6, <1>9, <1>10, <1>13, <1>14, <2>1, Zenon
  <2>2. CASE p = r[n]
    BY <1>5, <1>9, <1>10, <1>13, <1>14, <2>2, Zenon
  <2>3. CASE p # q /\ p # r[n]
    <3>1. next_'[p] = next_[p]
      BY <1>10, <2>3, Zenon
    <3>2. (\E i \in 1..m : s[i] = p) <=> \E i \in 1..n : r[i] = p
      BY <1>13, <1>14, <2>3, Zenon
    <3> QED  BY <1>4, <3>1, <3>2, Zenon
  <2> QED  BY <2>1, <2>2, <2>3
<1>21. ASSUME NEW i \in 1..m PROVE next_'[s[i]] = s[After(i, m)] /\ prev_'[s[After(i, m)]] = s[i]
  <2>1. CASE i = m
    BY <1>10, <1>11, <1>14, <1>16, <1>18, <2>1, Zenon
  <2>2. CASE i = n
    BY <1>5, <1>10, <1>11, <1>14, <1>16, <2>2, Zenon
  <2>3. CASE i # m /\ i # n
    <3>1. i \in 1..n /\ After(i, m) = After(i, n) /\ After(i, n) \in 1..n /\ After(i, n) # 1
      BY <1>13, <1>16, <1>17, <2>3, Zenon
    <3>2. s[i] = r[i] /\ s[After(i, m)] = r[After(i, n)]
      BY <1>14, <3>1, Zenon
    <3>3. r[i] # q /\ r[i] # r[n] /\ r[After(i, n)] # q /\ r[After(i, n)] # Default
      BY <1>2, <1>5, <1>7, <2>3, <3>1, Zenon
    <3>4. r[i] \in Queues /\ r[After(i, n)] \in Queues
      BY <3>1
    <3>5. next_'[r[i]] = next_[r[i]] /\ prev_'[r[After(i, n)]] = prev_[r[After(i, n)]]
      BY <1>10, <1>11, <3>3, <3>4, Zenon
    <3> QED  BY <1>3, <3>1, <3>2, <3>5, Zenon
  <2> QED  BY <2>1, <2>2, <2>3
<1>22. IsRing(s, m)'
  BY <1>13, <1>18, <1>19, <1>20, <1>21, Zenon DEF IsRing
<1> QED  BY <1>10, <1>11, <1>22, Zenon DEF ChainInv

(* The positions that are left when position j is taken out.                *)
Skip(i, j) == IF i < j THEN i ELSE i + 1

LEMMA SkipFacts ==
    ASSUME NEW n \in Nat, NEW j \in 2..n, NEW m \in Nat, m = n - 1
    PROVE  /\ \A i \in 1..m : Skip(i, j) \in 1..n /\ Skip(i, j) # j /\ After(i, m) \in 1..m
           /\ \A i, l \in 1..m : Skip(i, j) = Skip(l, j) => i = l
           /\ \A i \in 1..n : i # j => \E l \in 1..m : Skip(l, j) = i
           /\ m >= 1 /\ 1 \in 1..m /\ Skip(1, j) = 1 /\ j - 1 \in 1..n /\ j \in 1..n /\ 1 \in 1..n
           /\ After(j - 1, n) = j /\ After(j, n) # j /\ After(j, n) \in 1..n /\ j - 1 # j
<1>1. ASSUME NEW i \in 1..n, i # j PROVE \E l \in 1..m : Skip(l, j) = i
  <2>1. CASE i < j
    <3>1. i \in 1..m /\ Skip(i, j) = i
      BY <2>1 DEF Skip
    <3> QED  BY <3>1
  <2>2. CASE i > j
    <3>1. i - 1 \in 1..m /\ Skip(i - 1, j) = i
      BY <2>2 DEF Skip
    <3> QED  BY <3>1
  <2> QED  BY <1>1, <2>1, <2>2
<1>2. \A i \in 1..m : Skip(i, j) \in 1..n /\ Skip(i, j) # j /\ After(i, m) \in 1..m
  BY DEF Skip, After
<1>3. \A i, l \in 1..m : Skip(i, j) = Skip(l, j) => i = l
  BY DEF Skip
<1>4. m >= 1 /\ 1 \in 1..m /\ Skip(1, j) = 1 /\ j - 1 \in 1..n /\ j \in 1..n /\ 1 \in 1..n
  BY DEF Skip
<1>5. After(j - 1, n) = j /\ After(j, n) # j /\ After(j, n) \in 1..n /\ j - 1 # j
  BY DEF After
<1> QED  BY <1>1, <1>2, <1>3, <1>4, <1>5

LEMMA SkipAfter ==
    ASSUME NEW n \in Nat, NEW j \in 2..n, NEW m \in Nat, m = n - 1, NEW i \in 1..m
    PROVE  /\ Skip(i, j) = j - 1 => Skip(After(i, m), j) = After(j, n)
           /\ Skip(i, j) # j - 1 => /\ Skip(After(i, m), j) = After(Skip(i, j), n)
                                    /\ After(Skip(i, j), n) # After(j, n)
  BY DEF Skip, After

(* The destructor: the ring loses an element.                               *)
LEMMA DeleteChain ==
    ASSUME ChainInv, NEW q \in Queues, Delete(q)
    PROVE  ChainInv'
<1>0. PICK n \in Nat : \E r \in [1..n -> Queues] : IsRing(r, n)
  BY Zenon DEF ChainInv
<1>1. PICK r \in [1..n -> Queues] : IsRing(r, n)
  BY <1>0, Zenon
<1>2. n >= 1 /\ r[1] = Default /\ \A i, l \in 1..n : r[i] = r[l] => i = l
  BY <1>1, Zenon DEF IsRing
<1>3. \A i \in 1..n : next_[r[i]] = r[After(i, n)] /\ prev_[r[After(i, n)]] = r[i] /\ r[i] \in Queues
  BY <1>1, Zenon DEF IsRing
<1>4. \A p \in Queues : next_[p] # None <=> \E i \in 1..n : r[i] = p
  BY <1>1, Zenon DEF IsRing
<1>5. PICK j \in 1..n : r[j] = q
  BY <1>4, Zenon DEF Delete
<1>6. j \in 2..n
  <2>1. j # 1
    BY <1>2, <1>5, Zenon DEF Delete
  <2> QED  BY <2>1
<1>7. PICK m \in Nat : m = n - 1
  BY <1>6
<1> DEFINE a == r[j - 1]
           b == r[After(j, n)]
<1>8. /\ j - 1 \in 1..n /\ 1 \in 1..n /\ After(j - 1, n) = j /\ After(j, n) # j /\ After(j, n) \in 1..n
      /\ j - 1 # j /\ m >= 1 /\ 1 \in 1..m /\ Skip(1, j) = 1
  BY <1>6, <1>7, SkipFacts
<1>9. \A i \in 1..m : Skip(i, j) \in 1..n /\ Skip(i, j) # j /\ After(i, m) \in 1..m
  BY <1>6, <1>7 DEF Skip, After
<1>10. \A i, l \in 1..m : Skip(i, j) = Skip(l, j) => i = l
  BY <1>6, <1>7, SkipFacts
<1>11. \A i \in 1..n : i # j => \E l \in 1..m : Skip(l, j) = i
  BY <1>6, <1>7, SkipFacts
<1>12. prev_[q] = a /\ next_[q] = b /\ a # q /\ b # q /\ a \in Queues /\ b \in Queues
  BY <1>2, <1>3, <1>5, <1>8, Zenon
<1>13. /\ next_' = [next_ EXCEPT ![a] = b, ![q] = None]
       /\ prev_' = [prev_ EXCEPT ![b] = a, ![q] = None]
  BY <1>12, Zenon DEF Delete
<1>14. next_ \in [Queues -> Queues \cup {None}] /\ prev_ \in [Queues -> Queues \cup {None}]
       /\ None \notin Queues
  BY MicrotaskAssumption, Zenon DEF ChainInv
<1> HIDE DEF a, b
<1>15. /\ next_' \in [Queues -> Queues \cup {None}] /\ next_'[q] = None /\ next_'[a] = b
       /\ \A p \in Queues : p # q /\ p # a => next_'[p] = next_[p]
  BY <1>12, <1>13, <1>14
<1>16. /\ prev_' \in [Queues -> Queues \cup {None}] /\ prev_'[b] = a
       /\ \A p \in Queues : p # q /\ p # b => prev_'[p] = prev_[p]
  BY <1>12, <1>13, <1>14
<1> USE DEF a, b
<1>17. PICK s \in [1..m -> Queues] : \A i \in 1..m : s[i] = r[Skip(i, j)]
  <2> DEFINE t == [i \in 1..m |-> r[Skip(i, j)]]
  <2>1. t \in [1..m -> Queues] /\ \A i \in 1..m : t[i] = r[Skip(i, j)]
    BY <1>3, <1>9, Zenon
  <2> QED  BY <2>1, Zenon
<1>18. s[1] = Default
  BY <1>2, <1>8, <1>17, Zenon
<1>19. ASSUME NEW i \in 1..m, NEW l \in 1..m, s[i] = s[l] PROVE i = l
  <2>1. Skip(i, j) \in 1..n /\ Skip(l, j) \in 1..n /\ r[Skip(i, j)] = r[Skip(l, j)]
    BY <1>9, <1>17, <1>19
  <2> QED  BY <1>2, <1>10, <2>1, Zenon
<1>20. ASSUME NEW p \in Queues PROVE next_'[p] # None <=> \E i \in 1..m : s[i] = p
  <2>1. CASE p = q
    <3>1. \A i \in 1..m : s[i] # q
      BY <1>2, <1>5, <1>9, <1>17, Zenon
    <3> QED  BY <1>15, <2>1, <3>1, Zenon
  <2>2. CASE p # q
    <3>1. next_'[p] # None <=> next_[p] # None
      <4>1. CASE p = a
        BY <1>4, <1>8, <1>12, <1>14, <1>15, <4>1, Zenon
      <4>2. CASE p # a
        BY <1>15, <2>2, <4>2, Zenon
      <4> QED  BY <4>1, <4>2
    <3>2. ASSUME NEW i \in 1..n, r[i] = p PROVE \E l \in 1..m : s[l] = p
      <4>1. i # j
        BY <1>5, <2>2, <3>2, Zenon
      <4>2. PICK l \in 1..m : Skip(l, j) = i
        BY <1>11, <4>1, Zenon
      <4> QED  BY <1>17, <3>2, <4>2, Zenon
    <3>3. (\E i \in 1..m : s[i] = p) => \E i \in 1..n : r[i] = p
      BY <1>9, <1>17, Zenon
    <3> QED  BY <1>4, <3>1, <3>2, <3>3, Zenon
  <2> QED  BY <2>1, <2>2
<1>21. ASSUME NEW i \in 1..m PROVE next_'[s[i]] = s[After(i, m)] /\ prev_'[s[After(i, m)]] = s[i]
  <2>1. s[i] = r[Skip(i, j)] /\ s[After(i, m)] = r[Skip(After(i, m), j)]
    BY <1>9, <1>17, Zenon
  <2>2. CASE Skip(i, j) = j - 1
    <3>1. Skip(After(i, m), j) = After(j, n)
      BY <1>6, <1>7, <2>2, SkipAfter, Zenon
    <3> QED  BY <1>15, <1>16, <2>1, <2>2, <3>1, Zenon
  <2>3. CASE Skip(i, j) # j - 1
    <3>1. Skip(After(i, m), j) = After(Skip(i, j), n) /\ After(Skip(i, j), n) # After(j, n)
      BY <1>6, <1>7, <2>3, SkipAfter
    <3>2. Skip(i, j) \in 1..n /\ Skip(i, j) # j /\ After(Skip(i, j), n) \in 1..n /\ After(Skip(i, j), n) # j
      BY <1>9, <3>1, Zenon
    <3>3. r[Skip(i, j)] # q /\ r[Skip(i, j)] # a /\ r[After(Skip(i, j), n)] # q /\ r[After(Skip(i, j), n)] # b
      BY <1>2, <1>5, <1>8, <2>3, <3>1, <3>2, Zenon
    <3>4. next_[r[Skip(i, j)]] = r[After(Skip(i, j), n)] /\ prev_[r[After(Skip(i, j), n)]] = r[Skip(i, j)]
      BY <1>3, <3>2, Zenon
    <3>5. r[Skip(i, j)] \in Queues /\ r[After(Skip(i, j), n)] \in Queues
      BY <1>3, <3>2, Zenon
    <3>6. next_'[r[Skip(i, j)]] = next_[r[Skip(i, j)]]
          /\ prev_'[r[After(Skip(i, j), n)]] = prev_[r[After(Skip(i, j), n)]]
      BY <1>15, <1>16, <3>3, <3>5, Zenon
    <3> QED  BY <2>1, <3>1, <3>4, <3>6
  <2> QED  BY <2>2, <2>3
<1>22. IsRing(s, m)'
  BY <1>8, <1>18, <1>19, <1>20, <1>21, Zenon DEF IsRing
<1> QED  BY <1>15, <1>16, <1>22, Zenon DEF ChainInv

LEMMA NextChain == ChainInv /\ [Next]_vars => ChainInv'
<1> SUFFICES ASSUME ChainInv, [Next]_vars PROVE ChainInv'
  OBVIOUS
<1>1. ASSUME UNCHANGED chain PROVE ChainInv'
  <2>1. next_' = next_ /\ prev_' = prev_
    BY <1>1, Zenon DEF chain
  <2>2. \A n, r : IsRing(r, n) => IsRing(r, n)'
    BY <2>1, Zenon DEF IsRing
  <2> QED  BY <2>1, <2>2, Zenon DEF ChainInv
<1>2. CASE IterateMicrotasks \/ Collect \/ UNCHANGED vars
  BY <1>1, <1>2, CollectQuiet, Zenon
<1>3. CASE Return
  <2>1. UNCHANGED chain
    BY <1>3, Zenon DEF Return, LeaveMicrotasksScope, RunMicrotasks, LeaveSuppression, PerformCheckpoint,
         RunSingleMicrotask, FinishMicrotask, QueueIsEmpty, CallCallback, ReturnFromCallback,
         LeaveRunMicrotasks
  <2> QED  BY <1>1, <2>1
<1>4. CASE Script
  <2>1. ASSUME NEW q \in Queues, New(q) \/ Delete(q) PROVE ChainInv'
    BY <2>1, NewChain, DeleteChain, Zenon
  <2>2. UNCHANGED chain \/ \E q \in Queues : New(q) \/ Delete(q)
    BY <1>4, Zenon DEF Script, EnqueueMicrotask, TerminateExecution, EnterMicrotasksScope,
         EnterSuppression, AddMicrotasksCompletedCallback, RemoveMicrotasksCompletedCallback
  <2> QED  BY <1>1, <2>1, <2>2, Zenon
<1> QED  BY <1>2, <1>3, <1>4, Zenon DEF Next

LEMMA InitChain == Init => ChainInv
<1> SUFFICES ASSUME Init PROVE ChainInv
  OBVIOUS
<1>1. Default \in Queues /\ None \notin Queues
  BY MicrotaskAssumption, Zenon
<1>2. next_ = [q \in Queues |-> IF q = Default THEN Default ELSE None] /\ prev_ = next_
  BY Zenon DEF Init
<1>3. next_ \in [Queues -> Queues \cup {None}] /\ next_[Default] = Default
      /\ \A q \in Queues : next_[q] # None <=> q = Default
  BY <1>1, <1>2, Zenon
<1> DEFINE r == [i \in 1..1 |-> Default]
<1>4. 1 \in Nat /\ 1 >= 1 /\ After(1, 1) = 1 /\ 1..1 = {1}
  BY DEF After
<1>5. r \in [1..1 -> Queues] /\ \A i \in 1..1 : r[i] = Default
  BY <1>1, Zenon
<1> HIDE DEF r
<1>6. IsRing(r, 1)
  BY <1>2, <1>3, <1>4, <1>5, Zenon DEF IsRing
<1> QED  BY <1>2, <1>3, <1>4, <1>5, <1>6, Zenon DEF ChainInv
------------------------------------------------------------------------------
(* The bounds of TypeOK on the buffer.                                      *)
BoundInv ==
    /\ enqueued <= MaxMicrotasks
    /\ \A i \in 0..(capacity_ - 1) : ring_buffer_[i] <= enqueued
    /\ new_capacity # None => new_capacity <= capacity_

LEMMA ResizedBound ==
    ASSUME BufferInv, BoundInv, NEW cap \in Nat, size_ <= cap
    PROVE  \A i \in 0..(cap - 1) : Resized(cap)[i] <= enqueued
<1> SUFFICES ASSUME NEW i \in 0..(cap - 1) PROVE Resized(cap)[i] <= enqueued
  OBVIOUS
<1>1. CASE i < size_
  <2>1. i + 1 \in 1..size_ /\ i + 1 \in 1..capacity_ /\ (i + 1) - 1 = i
    BY <1>1 DEF BufferInv
  <2>2. Resized(cap)[(i + 1) - 1] = ring_buffer_[Slot(i + 1)]
    BY <2>1, ResizedBuffer
  <2>3. Slot(i + 1) \in 0..(capacity_ - 1)
    BY <2>1, SlotValue
  <2>4. ring_buffer_[Slot(i + 1)] <= enqueued
    BY <2>3, Zenon DEF BoundInv
  <2> QED  BY <2>1, <2>2, <2>4
<1>2. CASE ~(i < size_)
  <2>1. Resized(cap)[i] = 0
    BY <1>2, Zenon DEF Resized
  <2> QED  BY <2>1 DEF BufferInv
<1> QED  BY <1>1, <1>2

LEMMA EnqueueBound ==
    ASSUME BufferInv, BoundInv, NEW builtin, NEW pure, EnqueueMicrotask(builtin, pure), new_capacity = None
    PROVE  BoundInv'
<1>1. enqueued' = enqueued + 1 /\ enqueued < MaxMicrotasks /\ new_capacity' = None
      /\ enqueued \in Nat /\ MaxMicrotasks \in Nat
  BY MicrotaskAssumption DEF EnqueueMicrotask, BufferInv
<1>2. enqueued' <= MaxMicrotasks /\ enqueued' \in Nat /\ enqueued <= enqueued'
  BY <1>1
<1>3. /\ ring_buffer_ \in [0..(capacity_ - 1) -> Nat] /\ capacity_ \in Nat /\ size_ \in Nat
      /\ \A i \in 0..(capacity_ - 1) : ring_buffer_[i] <= enqueued
  BY DEF BufferInv, BoundInv
<1>4. \A i \in 0..(capacity_ - 1) : ring_buffer_[i] <= enqueued'
  BY <1>1, <1>3
<1>5. CASE UNCHANGED <<ring_buffer_, capacity_, size_, start_>>
  BY <1>1, <1>2, <1>4, <1>5, Zenon DEF BoundInv
<1>6. CASE size_ = capacity_ /\ Store(enqueued + 1)
  <2>1. ring_buffer_' = [Resized(Grown) EXCEPT ![size_] = enqueued'] /\ capacity_' = Grown
    BY <1>1, <1>6, Zenon DEF Store
  <2>2. Grown \in Nat /\ size_ <= Grown
    BY <1>6, MicrotaskAssumption DEF Grown, MaxOf, BufferInv
  <2> HIDE DEF Grown
  <2>3. Resized(Grown) \in [0..(Grown - 1) -> Nat] /\ \A i \in 0..(Grown - 1) : Resized(Grown)[i] <= enqueued
    BY <2>2, ResizedBuffer, ResizedBound
  <2>4. \A i \in 0..(capacity_' - 1) : ring_buffer_'[i] <= enqueued'
    BY <1>1, <2>1, <2>3
  <2> QED  BY <1>1, <1>2, <2>4, Zenon DEF BoundInv
<1>7. CASE size_ # capacity_ /\ Store(enqueued + 1)
  <2>1. ring_buffer_' = [ring_buffer_ EXCEPT ![(start_ + size_) % capacity_] = enqueued']
        /\ capacity_' = capacity_
    BY <1>1, <1>7, Zenon DEF Store
  <2>2. \A i \in 0..(capacity_' - 1) : ring_buffer_'[i] <= enqueued'
    BY <1>2, <1>3, <1>4, <2>1
  <2> QED  BY <1>1, <1>2, <2>2, Zenon DEF BoundInv
<1> QED  BY <1>5, <1>6, <1>7, Zenon DEF EnqueueMicrotask

LEMMA NextBound == BufferInv /\ BoundInv /\ [Next]_vars => BoundInv'
<1> SUFFICES ASSUME BufferInv, BoundInv, [Next]_vars PROVE BoundInv'
  OBVIOUS
<1>1. ASSUME UNCHANGED <<ring_buffer_, capacity_, new_capacity, enqueued>> PROVE BoundInv'
  BY <1>1, Zenon DEF BoundInv
<1>2. ASSUME UNCHANGED buffer PROVE BoundInv'
  BY <1>1, <1>2, Zenon DEF buffer
<1>3. CASE new_capacity = None /\ Script
  <2>1. CASE TerminateExecution
    <3>1. capacity_' = 0 /\ enqueued' = enqueued /\ new_capacity' = None
      BY <1>3, <2>1, Zenon DEF TerminateExecution
    <3>2. 0..(0 - 1) = {}
      OBVIOUS
    <3> QED  BY <3>1, <3>2, Zenon DEF BoundInv
  <2>2. \/ UNCHANGED buffer \/ TerminateExecution
        \/ \E builtin, pure \in BOOLEAN : EnqueueMicrotask(builtin, pure)
    BY <1>3, Zenon DEF Script, EnterMicrotasksScope, EnterSuppression, AddMicrotasksCompletedCallback,
         RemoveMicrotasksCompletedCallback, New, Delete
  <2> QED  BY <1>2, <1>3, <2>1, <2>2, EnqueueBound, Zenon
<1>4. CASE Return
  <2>1. UNCHANGED <<ring_buffer_, capacity_, new_capacity, enqueued>>
    BY <1>4, Zenon DEF Return, LeaveMicrotasksScope, RunMicrotasks, LeaveSuppression, PerformCheckpoint,
         RunSingleMicrotask, FinishMicrotask, QueueIsEmpty, CallCallback, ReturnFromCallback,
         LeaveRunMicrotasks, buffer
  <2> QED  BY <1>1, <2>1
<1>5. CASE IterateMicrotasks
  <2>1. /\ UNCHANGED <<capacity_, enqueued>> /\ new_capacity' \in {None, capacity_}
        /\ ring_buffer_' = [i \in 0..(capacity_ - 1) |-> IF i \in VisitedSlots THEN ring_buffer_[i] ELSE 0]
    BY <1>5 DEF IterateMicrotasks
  <2>2. capacity_ <= capacity_ /\ 0 <= enqueued
    BY DEF BufferInv
  <2> QED  BY <2>1, <2>2, Zenon DEF BoundInv
<1>6. CASE HalveCapacity
  <2>1. /\ UNCHANGED <<ring_buffer_, capacity_, enqueued>> /\ new_capacity # None
        /\ new_capacity' = new_capacity \div 2
    BY <1>6, Zenon DEF HalveCapacity
  <2>2. new_capacity \in Nat /\ new_capacity <= capacity_ /\ capacity_ \in Nat
    BY <2>1, Zenon DEF BufferInv, BoundInv
  <2>3. new_capacity' <= capacity_
    BY <2>1, <2>2
  <2> QED  BY <2>1, <2>3, Zenon DEF BoundInv
<1>7. CASE ShrinkBuffer
  <2> DEFINE cap == MaxOf(new_capacity, MinimumCapacity)
  <2>1. cap \in Nat /\ size_ <= cap
    BY <1>7, MicrotaskAssumption DEF BufferInv, ShrinkBuffer, MaxOf
  <2>2. /\ new_capacity' = None /\ enqueued' = enqueued
        /\ \/ ring_buffer_' = Resized(cap) /\ capacity_' = cap
           \/ UNCHANGED <<ring_buffer_, capacity_>>
    BY <1>7, Zenon DEF ShrinkBuffer
  <2> HIDE DEF cap
  <2>3. \A i \in 0..(cap - 1) : Resized(cap)[i] <= enqueued
    BY <2>1, ResizedBound, Zenon
  <2> QED  BY <2>2, <2>3, Zenon DEF BoundInv
<1> QED  BY <1>2, <1>3, <1>4, <1>5, <1>6, <1>7, Zenon DEF Next, Collect, vars
------------------------------------------------------------------------------
INSTANCE FiniteSetTheorems

(* The size of a set that a function numbers without repetition.            *)
LEMMA NumberedSet ==
    ASSUME NEW S, NEW n \in Nat, NEW f \in [1..n -> S],
           \A i, j \in 1..n : f[i] = f[j] => i = j, \A x \in S : \E i \in 1..n : f[i] = x
    PROVE  Cardinality(S) = n
<1>1. f \in Injection(1..n, S)
  BY Zenon DEF Injection, IsInjective
<1>2. f \in Surjection(1..n, S)
  BY Zenon DEF Surjection
<1>3. ExistsBijection(1..n, S)
  BY <1>1, <1>2, Zenon DEF ExistsBijection, Bijection
<1> QED  BY <1>3, FS_CountingElements

LEMMA ListInvCallbacks == ListInv => CompletedCallbacks
<1> SUFFICES ASSUME ListInv PROVE CompletedCallbacks
  OBVIOUS
<1>1. /\ called \in Seq(Callbacks) /\ toCall \in Seq(Callbacks) /\ Len(called) \in Nat /\ Len(toCall) \in Nat
  BY DEF ListInv
<1>2. ASSUME is_running_completed_callbacks_
      PROVE  /\ called = SubSeq(toCall, 1, Len(called)) /\ toCall = microtasks_completed_callbacks_
             /\ Len(called) >= Len(toCall) => called = toCall
  <2>1. /\ Len(called) <= Len(toCall) /\ \A i \in 1..Len(called) : called[i] = toCall[i]
        /\ toCall = microtasks_completed_callbacks_
    BY <1>2, Zenon DEF ListInv
  <2>2. called = SubSeq(toCall, 1, Len(called))
    <3>1. \A i \in 1..Len(called) : toCall[i] \in Callbacks
      BY <1>1, <2>1
    <3>2. /\ SubSeq(toCall, 1, Len(called)) \in Seq(Callbacks)
          /\ Len(SubSeq(toCall, 1, Len(called))) = Len(called)
          /\ \A i \in 1..Len(called) : SubSeq(toCall, 1, Len(called))[i] = toCall[i]
      BY <1>1, <2>1, <3>1
    <3>3. \A i \in 1..Len(called) : SubSeq(toCall, 1, Len(called))[i] = called[i]
      BY <2>1, <3>2, Zenon
    <3> QED  BY <1>1, <3>2, <3>3, SeqEqual, Zenon
  <2>3. ASSUME Len(called) >= Len(toCall) PROVE called = toCall
    <3>1. Len(called) = Len(toCall)
      BY <1>1, <2>1, <2>3
    <3> QED  BY <1>1, <2>1, <3>1, SeqEqual, Zenon
  <2> QED  BY <2>1, <2>2, <2>3
<1>3. /\ Latest \in Seq(Callbacks) /\ registered \subseteq Callbacks
      /\ \A i, j \in 1..Len(Latest) : Latest[i] = Latest[j] => i = j
      /\ \A c \in Callbacks : c \in registered <=> \E i \in 1..Len(Latest) : Latest[i] = c
  BY Zenon DEF ListInv, Lists
<1>4. Len(Latest) \in Nat /\ DOMAIN Latest = 1..Len(Latest) /\ Latest \in [1..Len(Latest) -> Callbacks]
  BY <1>3, LenProperties, Zenon
<1>5. {Latest[i] : i \in DOMAIN Latest} = registered
  BY <1>3, <1>4
<1>6. Latest \in [1..Len(Latest) -> registered]
  BY <1>3, <1>4, Zenon
<1>7. Len(Latest) = Cardinality(registered)
  <2>1. \A x \in registered : \E i \in 1..Len(Latest) : Latest[i] = x
    BY <1>3, Zenon
  <2> QED  BY <1>3, <1>4, <1>6, <2>1, NumberedSet
<1>8. pc = "completed" => is_running_completed_callbacks_
  BY DEF is_running_completed_callbacks_
<1> QED  BY <1>2, <1>5, <1>7, <1>8, Zenon DEF CompletedCallbacks

LEMMA ChainInvRing == ChainInv => QueueChain
<1> SUFFICES ASSUME ChainInv PROVE QueueChain
  OBVIOUS
<1>1. PICK n \in Nat : \E r \in [1..n -> Queues] : IsRing(r, n)
  BY Zenon DEF ChainInv
<1>2. PICK r \in [1..n -> Queues] : IsRing(r, n)
  BY <1>1, Zenon
<1>3. /\ n >= 1 /\ r[1] = Default /\ \A i, j \in 1..n : r[i] = r[j] => i = j
      /\ \A q \in Queues : next_[q] # None <=> \E i \in 1..n : r[i] = q
      /\ \A i \in 1..n : next_[r[i]] = r[After(i, n)] /\ prev_[r[After(i, n)]] = r[i]
  BY <1>2, Zenon DEF IsRing
<1>4. r \in [1..n -> Live] /\ \A q \in Live : \E i \in 1..n : r[i] = q
  BY <1>3, Zenon DEF Live
<1>5. Cardinality(Live) = n
  BY <1>3, <1>4, NumberedSet
<1> QED  BY <1>3, <1>4, <1>5 DEF QueueChain

(* The four invariants together.                                            *)
MInv == BufferInv /\ BoundInv /\ RunInv /\ ListInv /\ ChainInv

LEMMA SpecMInv == Spec => []MInv
<1>1. Init => MInv
  <2> SUFFICES ASSUME Init PROVE MInv
    OBVIOUS
  <2>1. BoundInv
    BY MicrotaskAssumption DEF Init, BoundInv
  <2> QED  BY <2>1, InitFifo, InitRunListInv, InitChain, Zenon DEF MInv
<1>2. MInv /\ [Next]_vars => MInv'
  BY NextFifo, NextBound, NextRunInv, NextListInv, NextChain, Zenon DEF MInv
<1> QED  BY <1>1, <1>2, PTL DEF Spec

LEMMA MInvType == MInv => TypeOK
<1> SUFFICES ASSUME MInv PROVE TypeOK
  OBVIOUS
<1>1. /\ capacity_ \in Nat /\ size_ \in 0..capacity_ /\ start_ \in 0..MaxOf(capacity_ - 1, 0)
      /\ new_capacity \in 0..capacity_ \cup {None} /\ enqueued \in 0..MaxMicrotasks
  BY MicrotaskAssumption DEF MInv, BufferInv, BoundInv, MaxOf
<1>2. ring_buffer_ \in [0..(capacity_ - 1) -> 0..enqueued]
  BY DEF MInv, BufferInv, BoundInv
<1>3. /\ microtasks_completed_callbacks_ \in Seq(Callbacks)
      /\ microtasks_completed_callbacks_cow_ \in Seq(Callbacks) \cup {None}
      /\ called \in Seq(Callbacks) /\ toCall \in Seq(Callbacks) /\ registered \subseteq Callbacks
  BY Zenon DEF MInv, ListInv, Lists
<1> QED  BY <1>1, <1>2, <1>3, Zenon DEF TypeOK, MInv, RunInv, ChainInv

(* For any numbers of microtasks, scopes, callbacks and queues: start_ and  *)
(* size_ stay within the buffer, IterateMicrotasks never asks for a         *)
(* capacity above the current one, and neither a scope nor RunMicrotasks    *)
(* brings a depth or a suppression count below zero.                        *)
THEOREM MicrotaskTypes == Spec => []TypeOK
  BY SpecMInv, MInvType, PTL

(* Whatever the completed callbacks add and remove while they run:          *)
(* OnCompleted calls exactly the callbacks that were registered when it     *)
(* began, once each and in order, and copy on write loses no change.        *)
THEOREM CallbacksComplete == Spec => []CompletedCallbacks
<1>1. MInv => CompletedCallbacks
  BY ListInvCallbacks DEF MInv
<1> QED  BY <1>1, SpecMInv, PTL

(* However many queues are created and destroyed in whatever order, next_   *)
(* and prev_ link them into one ring with the default queue, so that the    *)
(* loop over the queues of an isolate visits every one and ends.            *)
THEOREM QueuesInOneRing == Spec => []QueueChain
<1>1. MInv => QueueChain
  BY ChainInvRing DEF MInv
<1> QED  BY <1>1, SpecMInv, PTL
==============================================================================
