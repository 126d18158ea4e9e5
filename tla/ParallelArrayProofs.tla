------------------------- MODULE ParallelArrayProofs -------------------------
(* For arrays and pools of any size the chunks of ParallelArray partition   *)
(* the array, and merging their results gives that of the method of Array.  *)
EXTENDS ParallelArray, SequenceTheorems, WellFoundedInduction, TLAPS

(* The product of a chunk's index and its length grows with the index.      *)
LEMMA TimesMonotonic ==
    ASSUME NEW a \in Nat, NEW b \in Nat, NEW q \in Nat, a <= b
    PROVE  a * q <= b * q
<1>1. b * q - a * q = (b - a) * q
  OBVIOUS
<1>2. (b - a) * q >= 0
  OBVIOUS
<1>3. a * q \in Int /\ b * q \in Int
  OBVIOUS
<1> QED  BY <1>1, <1>2, <1>3

(* n chunks of length L \div n fit into L elements, and are not empty.      *)
LEMMA ChunkLength ==
    ASSUME NEW L \in Nat, NEW n \in Nat \ {0}, n <= L
    PROVE  L \div n \in Nat \ {0} /\ n * (L \div n) <= L
<1>1. L \div n \in Int /\ L % n \in 0..(n - 1) /\ L = n * (L \div n) + (L % n)
  OBVIOUS
<1>2. n * (L \div n) <= L
  BY <1>1
<1>3. L \div n > 0
  <2>1. SUFFICES ASSUME L \div n <= 0 PROVE FALSE
    BY <1>1
  <2>2. n * (L \div n) <= 0
    BY <1>1, <2>1
  <2> QED  BY <1>1, <2>2
<1> QED  BY <1>1, <1>2, <1>3

(* Below the modulus, unsigned arithmetic is exact.                         *)
LEMMA UnsignedExact ==
    ASSUME NEW x \in Nat, x < Modulus
    PROVE  Unsigned(x) = x
  BY ArrayAssumption DEF Unsigned

(* The bounds of chunk k, computed without overflow.                        *)
LEMMA ExactBounds ==
    ASSUME NEW k \in Nat, k < num_chunks, num_chunks \in Nat \ {0}, receiver \in Arrays,
           num_chunks <= length
    PROVE  LET q == length \div num_chunks IN
           /\ q \in Nat \ {0}
           /\ Bounds(k).start = k * q
           /\ Bounds(k).end = IF k = num_chunks - 1 THEN length ELSE (k + 1) * q
           /\ k * q \in Nat /\ (k + 1) * q \in Nat /\ (k + 1) * q = k * q + q /\ (k + 1) * q <= length
<1> DEFINE q == length \div num_chunks
<1>1. length \in Nat /\ length < Modulus /\ Modulus \in Nat
  BY ArrayAssumption DEF length
<1>2. q \in Nat \ {0} /\ num_chunks * q <= length
  BY <1>1, ChunkLength
<1> HIDE DEF q
<1>3. k * q <= num_chunks * q /\ (k + 1) * q <= num_chunks * q
  BY <1>2, TimesMonotonic
<1>4. k * q \in Nat /\ (k + 1) * q \in Nat /\ (k + 1) * q = k * q + q /\ num_chunks * q \in Nat
  BY <1>2
<1>5. Unsigned(k * q) = k * q /\ Unsigned((k + 1) * q) = (k + 1) * q
  BY <1>1, <1>2, <1>3, <1>4, UnsignedExact
<1>6. /\ Bounds(k).start = Unsigned(k * q)
      /\ Bounds(k).end = IF k = num_chunks - 1 THEN length ELSE Unsigned((k + 1) * q)
  BY DEF Bounds, q
<1> QED  BY <1>1, <1>2, <1>3, <1>4, <1>5, <1>6 DEF q

------------------------------------------------------------------------------
(* The chunks submitted so far are the first i ones; nothing is submitted   *)
(* for an empty array.                                                      *)
CInv ==
    /\ TypeOK
    /\ chunks = [k \in 1..i |-> Bounds(k - 1)]
    /\ pc = "submit" \/ i > 0 => num_chunks <= length
    /\ pc = "join" => i = num_chunks

LEMMA InitCInv == Init => CInv
<1> SUFFICES ASSUME Init PROVE CInv
  OBVIOUS
<1>1. PICK pool_size \in PoolSizes : num_chunks = NumChunks(Unsigned(pool_size))
  BY DEF Init
<1>2. receiver \in Arrays /\ length \in Nat
  BY ArrayAssumption DEF Init, length
<1>3. Unsigned(pool_size) \in Nat
  BY ArrayAssumption DEF Unsigned
<1>4. num_chunks \in Nat \ {0} /\ (length # 0 => num_chunks <= length)
  BY <1>1, <1>2, <1>3 DEF NumChunks
<1>5. TypeOK
  BY <1>4 DEF Init, TypeOK
<1>6. chunks = [k \in 1..i |-> Bounds(k - 1)]
  BY DEF Init
<1> QED  BY <1>2, <1>4, <1>5, <1>6 DEF Init, CInv

LEMMA NextCInv == CInv /\ [Next]_vars => CInv'
<1> SUFFICES ASSUME CInv, [Next]_vars PROVE CInv'
  OBVIOUS
<1> USE DEF CInv, TypeOK, call
<1>1. CASE SubmitChunk
  <2>1. i' = i + 1 /\ i' \in 0..num_chunks /\ UNCHANGED <<receiver, action, initial, num_chunks, pc>>
    BY <1>1 DEF SubmitChunk
  <2>2. \A k : Bounds(k)' = Bounds(k)
    BY <2>1 DEF Bounds, length, Unsigned
  <2>3. chunks' = [k \in 1..i' |-> Bounds(k - 1)]
    <3> DEFINE S == {Bounds(k - 1) : k \in 1..i}
    <3>0. chunks \in [1..i -> S] /\ i \in Nat
      OBVIOUS
    <3> HIDE DEF S
    <3>1. Len(chunks) = i /\ chunks \in Seq(S)
      BY <3>0
    <3> QED  BY <1>1, <2>1, <3>1 DEF SubmitChunk
  <2>4. DOMAIN results' = 1..i'
    BY <1>1, <2>1 DEF SubmitChunk
  <2> QED  BY <1>1, <2>1, <2>2, <2>3, <2>4 DEF SubmitChunk, length
<1>2. CASE \/ ThrowNotSerializable \/ SubmitJoin \/ Resolve
           \/ \E k \in DOMAIN results : ExecuteChunk(k)
  <2>1. /\ UNCHANGED <<receiver, action, initial, num_chunks, i, chunks>> /\ DOMAIN results' = DOMAIN results
        /\ pc' \in {"submit", "join", "done"} /\ (pc' = "submit" => pc = "submit")
        /\ pc' = "join" => i' = num_chunks
    BY <1>2 DEF ThrowNotSerializable, SubmitJoin, Resolve, ExecuteChunk
  <2>2. \A k : Bounds(k)' = Bounds(k)
    BY <2>1 DEF Bounds, length, Unsigned
  <2> QED  BY <2>1, <2>2 DEF length
<1>3. CASE UNCHANGED vars
  <2>1. \A k : Bounds(k)' = Bounds(k)
    BY <1>3 DEF Bounds, length, Unsigned, vars
  <2> QED  BY <1>3, <2>1 DEF vars, length
<1> QED  BY <1>1, <1>2, <1>3 DEF Next

LEMMA CInvPartition == CInv => ChunksPartition
<1> SUFFICES ASSUME CInv PROVE ChunksPartition
  OBVIOUS
<1>1. length \in Nat /\ num_chunks \in Nat \ {0} /\ i \in 0..num_chunks
  BY ArrayAssumption DEF CInv, TypeOK, length
<1>2. ASSUME NEW k \in 1..i
      PROVE  /\ chunks[k].start < chunks[k].end /\ chunks[k].end <= length
             /\ chunks[k].start = IF k = 1 THEN 0 ELSE chunks[k - 1].end
  <2> DEFINE q == length \div num_chunks
  <2>1. /\ k - 1 \in Nat /\ k - 1 < num_chunks /\ num_chunks <= length /\ receiver \in Arrays
        /\ chunks[k] = Bounds(k - 1)
    BY <1>1 DEF CInv, TypeOK
  <2>2. /\ q \in Nat \ {0} /\ chunks[k].start = (k - 1) * q
        /\ chunks[k].end = IF k - 1 = num_chunks - 1 THEN length ELSE ((k - 1) + 1) * q
        /\ (k - 1) * q \in Nat /\ ((k - 1) + 1) * q = (k - 1) * q + q
        /\ ((k - 1) + 1) * q \in Nat /\ ((k - 1) + 1) * q <= length
    BY <1>1, <2>1, ExactBounds
  <2>3. chunks[k].start < chunks[k].end /\ chunks[k].end <= length
    <3> HIDE DEF q
    <3> QED  BY <1>1, <2>2
  <2>4. CASE k = 1
    <3> HIDE DEF q
    <3> QED  BY <2>2, <2>3, <2>4
  <2>5. CASE k # 1
    <3>1. k - 2 \in Nat /\ k - 2 < num_chunks /\ k - 1 \in 1..i /\ k - 2 # num_chunks - 1
      BY <1>1, <2>5
    <3>2. chunks[k - 1] = Bounds(k - 2)
      BY <3>1 DEF CInv
    <3>3. chunks[k - 1].end = ((k - 2) + 1) * q
      BY <1>1, <2>1, <3>1, <3>2, ExactBounds
    <3>4. (k - 2) + 1 = k - 1
      OBVIOUS
    <3> HIDE DEF q
    <3> QED  BY <2>2, <2>3, <2>5, <3>3, <3>4
  <2> QED  BY <2>3, <2>4, <2>5
<1>3. ASSUME pc = "join" PROVE chunks[num_chunks].end = length
  <2>1. i = num_chunks /\ num_chunks <= length /\ receiver \in Arrays
    BY <1>1, <1>3 DEF CInv, TypeOK
  <2>2. chunks[num_chunks] = Bounds(num_chunks - 1)
    BY <1>1, <2>1 DEF CInv
  <2> QED  BY <1>1, <2>1, <2>2, ExactBounds
<1> QED  BY <1>2, <1>3 DEF ChunksPartition

------------------------------------------------------------------------------
(* ArrayParallelCommon computes chunk bounds of the right type for every    *)
(* length below 2^32 and every pool size.                                   *)
THEOREM TypeCorrect == Spec => []TypeOK
<1>1. CInv => TypeOK
  BY DEF CInv
<1> QED  BY InitCInv, NextCInv, <1>1, PTL DEF Spec

(* The chunks of ArrayParallelCommon are not empty, do not overlap and are  *)
(* together the array, without overflow, for every array and pool.          *)
THEOREM ChunksPartitionHolds == Spec => []ChunksPartition
  BY InitCInv, NextCInv, CInvPartition, PTL DEF Spec
------------------------------------------------------------------------------
(* A set of natural numbers has a least element: induction for a set.       *)
LEMMA LeastNatural ==
    ASSUME NEW T, T \subseteq Nat, T # {}
    PROVE  \E m \in T : \A n \in T : m <= n
<1>1. PICK m \in T : \A n \in T : ~(<<n, m>> \in OpToRel(<, Nat))
  BY WFMin, NatLessThanWellFounded, Zenon
<1>2. \A n \in T : ~(n < m)
  BY <1>1, Zenon DEF OpToRel
<1> QED  BY <1>2

ConcatAssoc(V) == \A x, y, z \in Seq(V) : (x \o y) \o z = x \o (y \o z)

LEMMA Associative ==
    ASSUME NEW V
    PROVE  ConcatAssoc(V)
<1>1. ASSUME NEW x \in Seq(V), NEW y \in Seq(V), NEW z \in Seq(V)
      PROVE  (x \o y) \o z = x \o (y \o z)
  BY ConcatAssociative, SMT
<1> QED  BY <1>1, Zenon DEF ConcatAssoc

(* w[k] is the concatenation of the first k sequences of parts.             *)
Joined(w, parts, n) ==
    /\ w[1] = parts[1]
    /\ \A k \in 2..n : w[k] = w[k - 1] \o parts[k]

LEMMA FlattenUnique ==
    ASSUME NEW n \in Nat \ {0}, NEW V, NEW parts \in [1..n -> Seq(V)],
           NEW w \in [1..n -> Seq(V)], Joined(w, parts, n)
    PROVE  FlattenSeq(parts) = w[n]
<1> DEFINE P(g) == g = [j \in 1..n |-> IF j = 1 THEN parts[j] ELSE g[j - 1] \o parts[j]]
<1> DEFINE f == CHOOSE g : P(g)
<1>1. Len(parts) = n
  OBVIOUS
<1>2. FlattenSeq(parts) = f[n]
  BY <1>1 DEF FlattenSeq
<1>3. P(w)
  <2>1. \A j \in 1..n : w[j] = IF j = 1 THEN parts[j] ELSE w[j - 1] \o parts[j]
    <3>1. \A j \in 1..n : j = 1 \/ j \in 2..n
      OBVIOUS
    <3> QED  BY <3>1, Zenon DEF Joined
  <2> QED  BY <2>1, Zenon
<1>4. P(f)
  BY <1>3, Zenon
<1> HIDE DEF f
<1>5. \A j \in 1..n : f[j] = IF j = 1 THEN parts[j] ELSE f[j - 1] \o parts[j]
  BY <1>4, Zenon
<1> DEFINE T == {j \in 1..n : f[j] # w[j]}
<1>6. ASSUME T # {} PROVE FALSE
  <2>0. T \subseteq Nat
    OBVIOUS
  <2>1. PICK m \in T : \A k \in T : m <= k
    BY <1>6, <2>0, LeastNatural, Zenon
  <2>2. CASE m = 1
    BY <1>5, <2>1, <2>2 DEF Joined
  <2>3. CASE m # 1
    <3>1. m - 1 \in 1..n /\ m - 1 \notin T /\ m \in 2..n
      BY <2>1, <2>3
    <3>2. f[m - 1] = w[m - 1]
      BY <3>1
    <3>3. f[m] = w[m]
      <4>1. f[m] = f[m - 1] \o parts[m]
        BY <1>5, <2>3, Zenon
      <4>2. w[m] = w[m - 1] \o parts[m]
        BY <3>1, Zenon DEF Joined
      <4> QED  BY <3>2, <4>1, <4>2, Zenon
    <3> QED  BY <2>1, <3>3
  <2> QED  BY <2>2, <2>3
<1>7. n \in 1..n
  OBVIOUS
<1> QED  BY <1>2, <1>6, <1>7, Zenon

LEMMA FlattenEmpty == FlattenSeq(<<>>) = <<>>
  BY DEF FlattenSeq

LEMMA JoinedExists ==
    ASSUME NEW n \in Nat \ {0}, NEW V, NEW parts \in [1..n -> Seq(V)]
    PROVE  \E w \in [1..n -> Seq(V)] : Joined(w, parts, n)
<1> DEFINE Good(m) == \E w \in [1..m -> Seq(V)] : Joined(w, parts, m)
<1> DEFINE T == {m \in 1..n : ~Good(m)}
<1>1. Good(1)
  <2> DEFINE w == [k \in 1..1 |-> parts[1]]
  <2>1. w \in [1..1 -> Seq(V)] /\ w[1] = parts[1]
    OBVIOUS
  <2>2. Joined(w, parts, 1)
    BY <2>1 DEF Joined
  <2> QED  BY <2>1, <2>2, Zenon
<1>2. ASSUME NEW m \in 2..n, Good(m - 1) PROVE Good(m)
  <2>1. PICK v \in [1..(m - 1) -> Seq(V)] : Joined(v, parts, m - 1)
    BY <1>2, Zenon
  <2> DEFINE w == [k \in 1..m |-> IF k = m THEN v[m - 1] \o parts[m] ELSE v[k]]
  <2>2. v[m - 1] \in Seq(V) /\ parts[m] \in Seq(V)
    OBVIOUS
  <2>3. v[m - 1] \o parts[m] \in Seq(V)
    BY <2>2
  <2>4. \A k \in 1..m : w[k] \in Seq(V)
    <3>1. \A k \in 1..m : k # m => v[k] \in Seq(V)
      OBVIOUS
    <3> QED  BY <2>3, <3>1, Zenon
  <2>5. /\ w \in [1..m -> Seq(V)] /\ w[m] = v[m - 1] \o parts[m]
        /\ \A k \in 1..(m - 1) : w[k] = v[k]
    <3>1. m \in 1..m /\ \A k \in 1..(m - 1) : k \in 1..m /\ k # m
      OBVIOUS
    <3> QED  BY <2>4, <3>1, Zenon
  <2> HIDE DEF w
  <2>6. w[1] = parts[1]
    BY <2>1, <2>5 DEF Joined
  <2>7. ASSUME NEW k \in 2..m PROVE w[k] = w[k - 1] \o parts[k]
    <3>1. k - 1 \in 1..(m - 1) /\ (k = m \/ k \in 2..(m - 1)) /\ \A l \in 2..(m - 1) : l \in 1..(m - 1)
      OBVIOUS
    <3> QED  BY <2>1, <2>5, <3>1, Zenon DEF Joined
  <2>8. Joined(w, parts, m)
    BY <2>6, <2>7, Zenon DEF Joined
  <2> QED  BY <2>5, <2>8, Zenon
<1> HIDE DEF Good
<1>3. ASSUME T # {} PROVE FALSE
  <2>0. T \subseteq Nat
    OBVIOUS
  <2>1. PICK m \in T : \A k \in T : m <= k
    BY <1>3, <2>0, LeastNatural, Zenon
  <2>2. m # 1
    BY <1>1, <2>1
  <2>3. m \in 2..n /\ m - 1 \in 1..n /\ m - 1 \notin T
    BY <2>1, <2>2
  <2>4. Good(m - 1)
    BY <2>3
  <2> QED  BY <1>2, <2>1, <2>3, <2>4
<1>4. Good(n)
  BY <1>3
<1> QED  BY <1>4 DEF Good

LEMMA FlattenConcat ==
    ASSUME NEW V, NEW a \in Seq(Seq(V)), NEW b \in Seq(Seq(V)), a # <<>>, b # <<>>
    PROVE  FlattenSeq(a \o b) = FlattenSeq(a) \o FlattenSeq(b) /\ FlattenSeq(a) \in Seq(V)
<1>1. PICK p \in Nat \ {0} : p = Len(a)
  OBVIOUS
<1>2. PICK q \in Nat \ {0} : q = Len(b)
  OBVIOUS
<1>0. a \in [1..p -> Seq(V)] /\ b \in [1..q -> Seq(V)]
  BY <1>1, <1>2
<1>3. PICK v \in [1..p -> Seq(V)] : Joined(v, a, p)
  BY <1>0, JoinedExists, Zenon
<1>4. PICK w \in [1..q -> Seq(V)] : Joined(w, b, q)
  BY <1>0, JoinedExists, Zenon
<1>5. FlattenSeq(a) = v[p] /\ FlattenSeq(b) = w[q] /\ v[p] \in Seq(V) /\ w[q] \in Seq(V)
  <2>2. FlattenSeq(a) = v[p]
    BY <1>0, <1>3, FlattenUnique, Zenon
  <2>3. FlattenSeq(b) = w[q]
    BY <1>0, <1>4, FlattenUnique, Zenon
  <2> QED  BY <2>2, <2>3
<1> DEFINE c == a \o b
           u == [k \in 1..(p + q) |-> IF k <= p THEN v[k] ELSE v[p] \o w[k - p]]
<1>6. /\ c \in [1..(p + q) -> Seq(V)]
      /\ \A k \in 1..p : c[k] = a[k]
      /\ \A k \in 1..q : c[p + k] = b[k]
  <2>1. /\ c \in Seq(Seq(V)) /\ Len(c) = p + q
        /\ \A k \in 1..(p + q) : c[k] = IF k <= p THEN a[k] ELSE b[k - p]
    BY <1>1, <1>2, ConcatProperties
  <2> HIDE DEF c
  <2>2. c \in [1..(p + q) -> Seq(V)]
    BY <2>1
  <2>3. \A k \in 1..p : k \in 1..(p + q) /\ k <= p
    OBVIOUS
  <2>4. \A k \in 1..q : p + k \in 1..(p + q) /\ ~(p + k <= p) /\ (p + k) - p = k
    OBVIOUS
  <2> QED  BY <2>1, <2>2, <2>3, <2>4, Zenon
<1> HIDE DEF c
<1>7. /\ \A k \in 1..p : u[k] = v[k]
      /\ \A k \in 1..q : u[p + k] = v[p] \o w[k]
  <2>1. \A k \in 1..p : k \in 1..(p + q) /\ k <= p
    OBVIOUS
  <2>2. \A k \in 1..q : p + k \in 1..(p + q) /\ ~(p + k <= p) /\ (p + k) - p = k
    OBVIOUS
  <2> QED  BY <2>1, <2>2, Zenon
<1>8. u \in [1..(p + q) -> Seq(V)]
  <2>1. ASSUME NEW k \in 1..(p + q) PROVE u[k] \in Seq(V)
    <3>1. CASE k <= p
      <4>1. k \in 1..p
        BY <3>1
      <4> QED  BY <1>7, <4>1
    <3>2. CASE ~(k <= p)
      <4>0. k - p \in 1..q /\ p + (k - p) = k
        BY <3>2
      <4>1. k - p \in 1..q /\ u[k] = v[p] \o w[k - p]
        BY <1>7, <4>0, Zenon
      <4> HIDE DEF u
      <4>2. w[k - p] \in Seq(V)
        BY <4>1
      <4> QED  BY <1>5, <4>1, <4>2, ConcatProperties
    <3> QED  BY <3>1, <3>2
  <2> QED  BY <2>1, Zenon
<1> HIDE DEF u
<1>9. Joined(u, c, p + q)
  <2>1. u[1] = c[1]
    <3>1. 1 \in 1..p
      OBVIOUS
    <3> QED  BY <1>3, <1>6, <1>7, <3>1, Zenon DEF Joined
  <2>2. ASSUME NEW k \in 2..(p + q) PROVE u[k] = u[k - 1] \o c[k]
    <3>1. CASE k <= p
      <4>1. k \in 2..p /\ k \in 1..p /\ k - 1 \in 1..p
        BY <3>1
      <4> QED  BY <1>3, <1>6, <1>7, <4>1, Zenon DEF Joined
    <3>2. CASE k = p + 1
      <4>1. 1 \in 1..q /\ p \in 1..p /\ k - 1 = p
        BY <3>2
      <4>2. u[k] = v[p] \o w[1] /\ u[k - 1] = v[p] /\ c[k] = b[1]
        BY <1>6, <1>7, <3>2, <4>1, Zenon
      <4> QED  BY <1>4, <4>2, Zenon DEF Joined
    <3>3. CASE k > p + 1
      <4>1. PICK l \in 2..q : l = k - p
        BY <3>3
      <4>2. l \in 1..q /\ l - 1 \in 1..q /\ k = p + l /\ k - 1 = p + (l - 1)
        BY <4>1
      <4>3. u[k] = v[p] \o w[l] /\ u[k - 1] = v[p] \o w[l - 1] /\ c[k] = b[l]
        BY <1>6, <1>7, <4>2, Zenon
      <4>4. w[l] = w[l - 1] \o b[l] /\ w[l - 1] \in Seq(V) /\ b[l] \in Seq(V)
        <5>1. w[l] = w[l - 1] \o b[l]
          BY <1>4, <4>1, Zenon DEF Joined
        <5> QED  BY <1>0, <4>2, <5>1
      <4>5. (v[p] \o w[l - 1]) \o b[l] = v[p] \o (w[l - 1] \o b[l])
        <5>1. ConcatAssoc(V)
          BY Associative, Zenon
        <5> QED  BY <1>5, <4>4, <5>1, Zenon DEF ConcatAssoc
      <4> QED  BY <4>3, <4>4, <4>5, Zenon
    <3>4. k <= p \/ k = p + 1 \/ k > p + 1
      OBVIOUS
    <3> QED  BY <3>1, <3>2, <3>3, <3>4, Zenon
  <2> QED  BY <2>1, <2>2, Zenon DEF Joined
<1>10. FlattenSeq(c) = u[p + q]
  <2>1. p + q \in Nat \ {0}
    OBVIOUS
  <2> QED  BY <1>6, <1>8, <1>9, <2>1, FlattenUnique, Zenon
<1>11. q \in 1..q
  OBVIOUS
<1> QED  BY <1>5, <1>7, <1>10, <1>11, Zenon DEF c

------------------------------------------------------------------------------
(* r is cut at the positions e[0] < e[1] < ... < e[n] into n pieces.        *)
Cuts(e, n, r) ==
    /\ e \in [0..n -> 0..Len(r)] /\ e[0] = 0 /\ e[n] = Len(r)
    /\ \A k \in 1..n : e[k - 1] < e[k]

Piece(e, k, r) == SubSeq(r, e[k - 1] + 1, e[k])

LEMMA PieceFacts ==
    ASSUME NEW E, NEW r \in Seq(E), NEW n \in Nat \ {0}, NEW e, Cuts(e, n, r), NEW k \in 1..n
    PROVE  /\ Piece(e, k, r) \in Seq(E) /\ Len(Piece(e, k, r)) = e[k] - e[k - 1]
           /\ \A j \in 1..(e[k] - e[k - 1]) : Piece(e, k, r)[j] = r[e[k - 1] + j]
           /\ e[k] \in Nat /\ e[k - 1] \in Nat /\ e[k - 1] < e[k] /\ e[k] <= Len(r)
           /\ k \in 0..n /\ k - 1 \in 0..n
<1>1. k \in 0..n /\ k - 1 \in 0..n
  OBVIOUS
<1>2. e[k] \in 0..Len(r) /\ e[k - 1] \in 0..Len(r) /\ e[k - 1] < e[k]
  BY <1>1 DEF Cuts
<1>3. PICK a \in Nat : a = e[k - 1]
  BY <1>2
<1>4. PICK z \in Nat : z = e[k]
  BY <1>2
<1>5. a < z /\ z <= Len(r)
  BY <1>2, <1>3, <1>4
<1>6. /\ SubSeq(r, a + 1, z) \in Seq(E) /\ Len(SubSeq(r, a + 1, z)) = z - a
      /\ \A j \in 1..(z - a) : SubSeq(r, a + 1, z)[j] = r[a + j]
  <2>1. \A j \in (a + 1)..z : r[j] \in E
    BY <1>5
  <2>2. a + 1 \in Int /\ z \in Int /\ a + 1 <= z
    BY <1>5
  <2>3. /\ SubSeq(r, a + 1, z) \in Seq(E) /\ Len(SubSeq(r, a + 1, z)) = z - (a + 1) + 1
        /\ \A j \in 1..(z - (a + 1) + 1) : SubSeq(r, a + 1, z)[j] = r[(a + 1) + j - 1]
    BY <2>1, <2>2, SubSeqProperties
  <2>4. z - (a + 1) + 1 = z - a /\ \A j \in 1..(z - a) : (a + 1) + j - 1 = a + j
    OBVIOUS
  <2> QED  BY <2>3, <2>4, Zenon
<1> QED  BY <1>1, <1>2, <1>3, <1>4, <1>5, <1>6 DEF Piece

(* Every element is in a piece, the first one that ends behind it.          *)
LEMMA InPiece ==
    ASSUME NEW E, NEW r \in Seq(E), NEW n \in Nat \ {0}, NEW e, Cuts(e, n, r), NEW p \in 1..Len(r)
    PROVE  \E k \in 1..n : /\ e[k - 1] < p /\ p <= e[k]
                           /\ \A m \in 0..n : p <= e[m] => k <= m
<1> DEFINE T == {m \in 0..n : p <= e[m]}
<1>1. T \subseteq Nat /\ n \in T
  BY DEF Cuts
<1>2. PICK k \in T : \A m \in T : k <= m
  BY <1>1, LeastNatural, Zenon
<1>3. k # 0
  BY <1>2 DEF Cuts
<1>4. k \in 1..n /\ k - 1 \in 0..n /\ k - 1 \notin T
  BY <1>2, <1>3
<1>5. e[k - 1] < p
  BY <1>4 DEF Cuts
<1> QED  BY <1>2, <1>4, <1>5

------------------------------------------------------------------------------
LEMMA FirstThrow ==
    ASSUME NEW E, NEW s \in Seq(E), Throws(s)
    PROVE  \E j \in 1..Len(s) : /\ s[j] \in Throwing /\ FirstError(s) = s[j]
                                /\ \A l \in 1..(j - 1) : s[l] \notin Throwing
<1>1. DOMAIN s = 1..Len(s) /\ Len(s) \in Nat
  OBVIOUS
<1> DEFINE T == {j \in 1..Len(s) : s[j] \in Throwing}
           First(j) == s[j] \in Throwing /\ \A l \in 1..(j - 1) : s[l] \notin Throwing
<1>2. T \subseteq Nat /\ T # {}
  BY <1>1 DEF Throws
<1>3. PICK m \in T : \A l \in T : m <= l
  BY <1>2, LeastNatural, Zenon
<1>4. m \in 1..Len(s) /\ First(m)
  <2>1. \A l \in 1..(m - 1) : l \in 1..Len(s) /\ ~(m <= l)
    BY <1>1, <1>3
  <2> QED  BY <1>3, <2>1, Zenon
<1> DEFINE j == CHOOSE j \in DOMAIN s : First(j)
<1>5. j \in 1..Len(s) /\ First(j)
  BY <1>1, <1>4, Zenon
<1>6. FirstError(s) = s[j]
  BY Zenon DEF FirstError
<1> HIDE DEF j
<1> QED  BY <1>5, <1>6, Zenon

LEMMA ThrowsInPiece ==
    ASSUME NEW E, NEW r \in Seq(E), NEW n \in Nat \ {0}, NEW e, Cuts(e, n, r)
    PROVE  Throws(r) <=> \E k \in 1..n : Throws(Piece(e, k, r))
<1>1. ASSUME Throws(r) PROVE \E k \in 1..n : Throws(Piece(e, k, r))
  <2>1. PICK p \in 1..Len(r) : r[p] \in Throwing
    BY <1>1 DEF Throws
  <2>2. PICK k \in 1..n : e[k - 1] < p /\ p <= e[k]
    BY InPiece
  <2>3. /\ Piece(e, k, r) \in Seq(E) /\ Len(Piece(e, k, r)) = e[k] - e[k - 1]
        /\ \A j \in 1..(e[k] - e[k - 1]) : Piece(e, k, r)[j] = r[e[k - 1] + j]
        /\ e[k] \in Nat /\ e[k - 1] \in Nat
    BY PieceFacts
  <2>4. p - e[k - 1] \in 1..(e[k] - e[k - 1]) /\ e[k - 1] + (p - e[k - 1]) = p
    BY <2>2, <2>3
  <2>5. Piece(e, k, r)[p - e[k - 1]] \in Throwing
    BY <2>1, <2>3, <2>4
  <2>6. DOMAIN Piece(e, k, r) = 1..(e[k] - e[k - 1])
    BY <2>3
  <2> QED  BY <2>4, <2>5, <2>6, Zenon DEF Throws
<1>2. ASSUME NEW k \in 1..n, Throws(Piece(e, k, r)) PROVE Throws(r)
  <2>1. /\ Piece(e, k, r) \in Seq(E) /\ Len(Piece(e, k, r)) = e[k] - e[k - 1]
        /\ \A j \in 1..(e[k] - e[k - 1]) : Piece(e, k, r)[j] = r[e[k - 1] + j]
        /\ e[k] \in Nat /\ e[k - 1] \in Nat /\ e[k] <= Len(r)
    BY PieceFacts
  <2>2. DOMAIN Piece(e, k, r) = 1..(e[k] - e[k - 1]) /\ DOMAIN r = 1..Len(r) /\ Len(r) \in Nat
    BY <2>1
  <2>3. PICK j \in 1..(e[k] - e[k - 1]) : Piece(e, k, r)[j] \in Throwing
    BY <1>2, <2>2, Zenon DEF Throws
  <2>4. e[k - 1] + j \in 1..Len(r)
    BY <2>1, <2>2
  <2> QED  BY <2>1, <2>2, <2>3, <2>4, Zenon DEF Throws
<1> QED  BY <1>1, <1>2

(* The first error of the first piece that throws is the first error.       *)
LEMMA FirstErrorInPiece ==
    ASSUME NEW E, NEW r \in Seq(E), NEW n \in Nat \ {0}, NEW e, Cuts(e, n, r), NEW k \in 1..n,
           Throws(Piece(e, k, r)), \A l \in 1..n : Throws(Piece(e, l, r)) => k <= l
    PROVE  FirstError(Piece(e, k, r)) = FirstError(r)
<1>1. /\ Piece(e, k, r) \in Seq(E) /\ Len(Piece(e, k, r)) = e[k] - e[k - 1]
      /\ \A j \in 1..(e[k] - e[k - 1]) : Piece(e, k, r)[j] = r[e[k - 1] + j]
      /\ e[k] \in Nat /\ e[k - 1] \in Nat /\ e[k] <= Len(r) /\ k - 1 \in 0..n
  BY PieceFacts
<1>2. PICK j \in 1..(e[k] - e[k - 1]) :
        /\ Piece(e, k, r)[j] \in Throwing /\ FirstError(Piece(e, k, r)) = Piece(e, k, r)[j]
        /\ \A l \in 1..(j - 1) : Piece(e, k, r)[l] \notin Throwing
  BY <1>1, FirstThrow
<1>3. PICK p \in 1..Len(r) : /\ r[p] \in Throwing /\ FirstError(r) = r[p]
                             /\ \A l \in 1..(p - 1) : r[l] \notin Throwing
  <2>1. Throws(r)
    BY ThrowsInPiece
  <2> QED  BY <2>1, FirstThrow
<1>4. r[e[k - 1] + j] \in Throwing /\ FirstError(Piece(e, k, r)) = r[e[k - 1] + j]
  BY <1>1, <1>2, Zenon
<1>5. p <= e[k - 1] + j
  <2>1. CASE p > e[k - 1] + j
    <3>1. e[k - 1] + j \in 1..(p - 1)
      BY <1>1, <2>1
    <3> QED  BY <1>3, <1>4, <3>1, Zenon
  <2> QED  BY <1>1, <2>1
<1>6. p > e[k - 1]
  <2>1. PICK l \in 1..n : e[l - 1] < p /\ p <= e[l] /\ \A m \in 0..n : p <= e[m] => l <= m
    BY InPiece
  <2>2. CASE p <= e[k - 1]
    <3>1. l <= k - 1
      BY <1>1, <2>1, <2>2
    <3>2. /\ Piece(e, l, r) \in Seq(E) /\ Len(Piece(e, l, r)) = e[l] - e[l - 1]
          /\ \A m \in 1..(e[l] - e[l - 1]) : Piece(e, l, r)[m] = r[e[l - 1] + m]
          /\ e[l] \in Nat /\ e[l - 1] \in Nat
      BY PieceFacts
    <3>3. p - e[l - 1] \in 1..(e[l] - e[l - 1]) /\ e[l - 1] + (p - e[l - 1]) = p
      <4>1. e[l - 1] < p /\ p <= e[l] /\ e[l] \in Nat /\ e[l - 1] \in Nat /\ p \in Nat
        BY <2>1, <3>2
      <4> QED  BY <4>1
    <3>4. DOMAIN Piece(e, l, r) = 1..(e[l] - e[l - 1])
      BY <3>2
    <3>5. Throws(Piece(e, l, r))
      BY <1>3, <3>2, <3>3, <3>4, Zenon DEF Throws
    <3> QED  BY <3>1, <3>5
  <2> QED  BY <1>1, <2>2
<1>7. p = e[k - 1] + j
  <2>1. CASE p < e[k - 1] + j
    <3>1. p - e[k - 1] \in 1..(j - 1) /\ p - e[k - 1] \in 1..(e[k] - e[k - 1]) /\ e[k - 1] + (p - e[k - 1]) = p
      BY <1>1, <1>6, <2>1
    <3> QED  BY <1>1, <1>2, <1>3, <3>1, Zenon
  <2> QED  BY <1>1, <1>5, <2>1
<1> QED  BY <1>3, <1>4, <1>7, Zenon

------------------------------------------------------------------------------
(* A prefix of r that ends at a cut is the prefix before and the piece.     *)
LEMMA PrefixFacts ==
    ASSUME NEW E, NEW r \in Seq(E), NEW n \in Nat \ {0}, NEW e, Cuts(e, n, r), NEW k \in 1..n
    PROVE  /\ SubSeq(r, 1, e[k]) \in Seq(E) /\ Len(SubSeq(r, 1, e[k])) = e[k]
           /\ \A j \in 1..e[k] : SubSeq(r, 1, e[k])[j] = r[j]
<1>1. e[k] \in Nat /\ e[k] <= Len(r) /\ e[k] >= 1
  <2>1. e[k] \in Nat /\ e[k - 1] \in Nat /\ e[k - 1] < e[k] /\ e[k] <= Len(r)
    BY PieceFacts, Zenon
  <2> QED  BY <2>1
<1>2. PICK z \in Nat : z = e[k]
  BY <1>1
<1>3. \A j \in 1..z : r[j] \in E
  BY <1>1, <1>2
<1>4. 1 \in Int /\ z \in Int /\ 1 <= z
  BY <1>1, <1>2
<1>5. /\ SubSeq(r, 1, z) \in Seq(E) /\ Len(SubSeq(r, 1, z)) = z - 1 + 1
      /\ \A j \in 1..(z - 1 + 1) : SubSeq(r, 1, z)[j] = r[1 + j - 1]
  BY <1>3, <1>4, SubSeqProperties
<1>6. z - 1 + 1 = z /\ \A j \in 1..z : 1 + j - 1 = j
  OBVIOUS
<1> QED  BY <1>2, <1>5, <1>6, Zenon

LEMMA PrefixSplit ==
    ASSUME NEW E, NEW r \in Seq(E), NEW n \in Nat \ {0}, NEW e, Cuts(e, n, r)
    PROVE  /\ SubSeq(r, 1, e[1]) = Piece(e, 1, r) /\ SubSeq(r, 1, e[n]) = r
           /\ \A k \in 2..n : SubSeq(r, 1, e[k]) = SubSeq(r, 1, e[k - 1]) \o Piece(e, k, r)
<1>1. SubSeq(r, 1, e[1]) = Piece(e, 1, r)
  <2>1. e[1 - 1] + 1 = 1
    BY DEF Cuts
  <2> QED  BY <2>1 DEF Piece
<1>2. SubSeq(r, 1, e[n]) = r
  <2>1. n \in 1..n /\ e[n] = Len(r)
    BY DEF Cuts
  <2>2. /\ SubSeq(r, 1, e[n]) \in Seq(E) /\ Len(SubSeq(r, 1, e[n])) = Len(r)
        /\ \A j \in 1..Len(r) : SubSeq(r, 1, e[n])[j] = r[j]
    BY <2>1, PrefixFacts
  <2> QED  BY <2>2, SeqEqual, Zenon
<1>3. ASSUME NEW k \in 2..n PROVE SubSeq(r, 1, e[k]) = SubSeq(r, 1, e[k - 1]) \o Piece(e, k, r)
  <2>1. k \in 1..n /\ k - 1 \in 1..n
    OBVIOUS
  <2>2. PICK s \in Seq(E) : s = SubSeq(r, 1, e[k])
    BY <2>1, PrefixFacts
  <2>3. PICK t \in Seq(E) : t = SubSeq(r, 1, e[k - 1])
    BY <2>1, PrefixFacts
  <2>4. PICK c \in Seq(E) : c = Piece(e, k, r)
    BY <2>1, PieceFacts
  <2>5. Len(s) = e[k] /\ \A j \in 1..e[k] : s[j] = r[j]
    BY <2>1, <2>2, PrefixFacts
  <2>6. Len(t) = e[k - 1] /\ \A j \in 1..e[k - 1] : t[j] = r[j]
    BY <2>1, <2>3, PrefixFacts
  <2>7. /\ Len(c) = e[k] - e[k - 1] /\ \A j \in 1..(e[k] - e[k - 1]) : c[j] = r[e[k - 1] + j]
        /\ e[k] \in Nat /\ e[k - 1] \in Nat /\ e[k - 1] < e[k]
    <3>1. /\ Len(Piece(e, k, r)) = e[k] - e[k - 1]
          /\ \A j \in 1..(e[k] - e[k - 1]) : Piece(e, k, r)[j] = r[e[k - 1] + j]
          /\ e[k] \in Nat /\ e[k - 1] \in Nat /\ e[k - 1] < e[k]
      BY <2>1, PieceFacts
    <3> QED  BY <2>4, <3>1, Zenon
  <2>8. PICK a \in Nat : a = e[k - 1]
    BY <2>7
  <2>9. PICK z \in Nat : z = e[k]
    BY <2>7
  <2>10. /\ t \o c \in Seq(E) /\ Len(t \o c) = z
         /\ \A j \in 1..z : (t \o c)[j] = IF j <= a THEN t[j] ELSE c[j - a]
    <3>1. Len(t) = a /\ Len(c) = z - a /\ a + (z - a) = z
      BY <2>6, <2>7, <2>8, <2>9
    <3>2. /\ t \o c \in Seq(E) /\ Len(t \o c) = Len(t) + Len(c)
          /\ \A j \in 1..(Len(t) + Len(c)) : (t \o c)[j] = IF j <= Len(t) THEN t[j] ELSE c[j - Len(t)]
      BY ConcatProperties
    <3> QED  BY <3>1, <3>2, Zenon
  <2>11. ASSUME NEW j \in 1..z PROVE (t \o c)[j] = s[j]
    <3>1. CASE j <= a
      <4>1. j \in 1..a
        BY <3>1
      <4>2. (t \o c)[j] = t[j]
        BY <2>10, <3>1, Zenon
      <4> QED  BY <2>5, <2>6, <2>8, <2>9, <4>1, <4>2, Zenon
    <3>2. CASE ~(j <= a)
      <4>1. j - a \in 1..(z - a) /\ a + (j - a) = j
        BY <3>2
      <4>2. c[j - a] = r[j]
        BY <2>7, <2>8, <2>9, <4>1, Zenon
      <4>3. (t \o c)[j] = c[j - a]
        BY <2>10, <3>2, Zenon
      <4> QED  BY <2>5, <2>9, <4>2, <4>3, Zenon
    <3> QED  BY <3>1, <3>2
  <2>12. s = t \o c
    BY <2>5, <2>9, <2>10, <2>11, SeqEqual
  <2> QED  BY <2>2, <2>3, <2>4, <2>12
<1> QED  BY <1>1, <1>2, <1>3

(* g applied to every element of s.                                         *)
Apply(g, s) == [j \in DOMAIN s |-> g[s[j]]]

Morphism(g, E, V) ==
    \A s, t \in Seq(E) : /\ Apply(g, s) \in Seq(V) /\ Len(Apply(g, s)) = Len(s)
                         /\ Apply(g, s \o t) = Apply(g, s) \o Apply(g, t)

LEMMA ApplyConcat ==
    ASSUME NEW E, NEW V, NEW g \in [E -> V]
    PROVE  Morphism(g, E, V)
<1> SUFFICES ASSUME NEW s \in Seq(E), NEW t \in Seq(E)
             PROVE  /\ Apply(g, s) \in Seq(V) /\ Len(Apply(g, s)) = Len(s)
                    /\ Apply(g, s \o t) = Apply(g, s) \o Apply(g, t)
  BY Zenon DEF Morphism
<1>1. ASSUME NEW u \in Seq(E)
      PROVE  /\ Apply(g, u) \in Seq(V) /\ Len(Apply(g, u)) = Len(u)
             /\ \A j \in 1..Len(u) : Apply(g, u)[j] = g[u[j]]
  <2>1. DOMAIN u = 1..Len(u) /\ Len(u) \in Nat /\ \A j \in 1..Len(u) : u[j] \in E
    OBVIOUS
  <2>2. \A j \in 1..Len(u) : g[u[j]] \in V
    BY <2>1, Zenon
  <2>3. Apply(g, u) \in [1..Len(u) -> V] /\ \A j \in 1..Len(u) : Apply(g, u)[j] = g[u[j]]
    BY <2>1, <2>2, Zenon DEF Apply
  <2> QED  BY <2>1, <2>3
<1>2. /\ s \o t \in Seq(E) /\ Len(s \o t) = Len(s) + Len(t) /\ Len(s) \in Nat /\ Len(t) \in Nat
      /\ \A j \in 1..(Len(s) + Len(t)) : (s \o t)[j] = IF j <= Len(s) THEN s[j] ELSE t[j - Len(s)]
  BY ConcatProperties
<1>3. PICK x \in Seq(V) : x = Apply(g, s) /\ Len(x) = Len(s) /\ \A j \in 1..Len(s) : x[j] = g[s[j]]
  BY <1>1, Zenon
<1>4. PICK y \in Seq(V) : y = Apply(g, t) /\ Len(y) = Len(t) /\ \A j \in 1..Len(t) : y[j] = g[t[j]]
  BY <1>1, Zenon
<1>5. PICK c \in Seq(V) : /\ c = Apply(g, s \o t) /\ Len(c) = Len(s) + Len(t)
                          /\ \A j \in 1..(Len(s) + Len(t)) : c[j] = g[(s \o t)[j]]
  <2>1. PICK u \in Seq(E) : u = s \o t
    BY <1>2, Zenon
  <2>2. /\ Apply(g, u) \in Seq(V) /\ Len(Apply(g, u)) = Len(u)
        /\ \A j \in 1..Len(u) : Apply(g, u)[j] = g[u[j]]
    BY <1>1, Zenon
  <2> QED  BY <1>2, <2>1, <2>2, Zenon
<1>6. /\ x \o y \in Seq(V) /\ Len(x \o y) = Len(s) + Len(t)
      /\ \A j \in 1..(Len(s) + Len(t)) : (x \o y)[j] = IF j <= Len(s) THEN x[j] ELSE y[j - Len(s)]
  <2>1. /\ x \o y \in Seq(V) /\ Len(x \o y) = Len(x) + Len(y)
        /\ \A j \in 1..(Len(x) + Len(y)) : (x \o y)[j] = IF j <= Len(x) THEN x[j] ELSE y[j - Len(x)]
    BY ConcatProperties
  <2> QED  BY <1>3, <1>4, <2>1, Zenon
<1>7. ASSUME NEW j \in 1..(Len(s) + Len(t)) PROVE c[j] = (x \o y)[j]
  <2>1. CASE j <= Len(s)
    <3>1. j \in 1..Len(s)
      BY <1>2, <2>1
    <3> QED  BY <1>2, <1>3, <1>5, <1>6, <2>1, <3>1, Zenon
  <2>2. CASE ~(j <= Len(s))
    <3>1. j - Len(s) \in 1..Len(t)
      BY <1>2, <2>2
    <3> QED  BY <1>2, <1>4, <1>5, <1>6, <2>2, <3>1, Zenon
  <2> QED  BY <2>1, <2>2
<1>8. c = x \o y
  BY <1>5, <1>6, <1>7, SeqEqual, Zenon
<1> QED  BY <1>3, <1>4, <1>5, <1>8, Zenon

(* Joining the results of the pieces gives the result for the whole: for a  *)
(* function of the elements, and for one that keeps or drops each.          *)
JoinsPieces(g, e, n, r) == FlattenSeq([k \in 1..n |-> Apply(g, Piece(e, k, r))]) = Apply(g, r)

LEMMA FlattenApplied ==
    ASSUME NEW E, NEW r \in Seq(E), NEW n \in Nat \ {0}, NEW e, Cuts(e, n, r),
           NEW V, NEW g \in [E -> V]
    PROVE  JoinsPieces(g, e, n, r)
<1> DEFINE parts == [k \in 1..n |-> Apply(g, Piece(e, k, r))]
           w == [k \in 1..n |-> Apply(g, SubSeq(r, 1, e[k]))]
<1>1. ASSUME NEW k \in 1..n PROVE Piece(e, k, r) \in Seq(E) /\ SubSeq(r, 1, e[k]) \in Seq(E)
  BY PieceFacts, PrefixFacts
<1>2. ASSUME NEW s \in Seq(E), NEW t \in Seq(E)
      PROVE  Apply(g, s) \in Seq(V) /\ Apply(g, s \o t) = Apply(g, s) \o Apply(g, t)
  <2>1. Morphism(g, E, V)
    BY ApplyConcat, Zenon
  <2> QED  BY <2>1, Zenon DEF Morphism
<1>3. parts \in [1..n -> Seq(V)] /\ w \in [1..n -> Seq(V)]
  BY <1>1, <1>2, Zenon
<1>4. 1 \in 1..n /\ n \in 1..n /\ \A k \in 2..n : k \in 1..n /\ k - 1 \in 1..n
  OBVIOUS
<1>5. w[1] = parts[1] /\ w[n] = Apply(g, r)
  BY <1>4, PrefixSplit, Zenon
<1>6. ASSUME NEW k \in 2..n PROVE w[k] = w[k - 1] \o parts[k]
  <2>1. SubSeq(r, 1, e[k]) = SubSeq(r, 1, e[k - 1]) \o Piece(e, k, r)
    BY PrefixSplit, Zenon
  <2>2. /\ w[k] = Apply(g, SubSeq(r, 1, e[k])) /\ w[k - 1] = Apply(g, SubSeq(r, 1, e[k - 1]))
        /\ parts[k] = Apply(g, Piece(e, k, r))
    BY <1>4, Zenon
  <2> QED  BY <1>1, <1>2, <1>4, <2>1, <2>2, Zenon
<1> HIDE DEF parts, w
<1>7. Joined(w, parts, n)
  BY <1>5, <1>6, Zenon DEF Joined
<1>8. FlattenSeq(parts) = w[n]
  BY <1>3, <1>7, FlattenUnique, Zenon
<1> QED  BY <1>5, <1>8, Zenon DEF parts, JoinsPieces

LEMMA FlattenFlattened ==
    ASSUME NEW E, NEW r \in Seq(E), NEW n \in Nat \ {0}, NEW e, Cuts(e, n, r),
           NEW V, NEW g \in [E -> Seq(V)]
    PROVE  FlattenSeq([k \in 1..n |-> FlattenSeq(Apply(g, Piece(e, k, r)))]) = FlattenSeq(Apply(g, r))
<1> DEFINE parts == [k \in 1..n |-> FlattenSeq(Apply(g, Piece(e, k, r)))]
           w == [k \in 1..n |-> FlattenSeq(Apply(g, SubSeq(r, 1, e[k])))]
<1>1. ASSUME NEW k \in 1..n
      PROVE  /\ Piece(e, k, r) \in Seq(E) /\ Piece(e, k, r) # <<>>
             /\ SubSeq(r, 1, e[k]) \in Seq(E) /\ SubSeq(r, 1, e[k]) # <<>>
  <2>1. /\ Piece(e, k, r) \in Seq(E) /\ Len(Piece(e, k, r)) # 0
        /\ SubSeq(r, 1, e[k]) \in Seq(E) /\ Len(SubSeq(r, 1, e[k])) # 0
    <3>1. /\ Piece(e, k, r) \in Seq(E) /\ Len(Piece(e, k, r)) = e[k] - e[k - 1]
          /\ e[k] \in Nat /\ e[k - 1] \in Nat /\ e[k - 1] < e[k]
      BY PieceFacts
    <3>2. SubSeq(r, 1, e[k]) \in Seq(E) /\ Len(SubSeq(r, 1, e[k])) = e[k]
      BY PrefixFacts
    <3> QED  BY <3>1, <3>2
  <2>2. \A s \in Seq(E) : Len(s) # 0 => s # <<>>
    OBVIOUS
  <2> QED  BY <2>1, <2>2, Zenon
<1>2. ASSUME NEW s \in Seq(E), NEW t \in Seq(E), s # <<>>, t # <<>>
      PROVE  /\ FlattenSeq(Apply(g, s)) \in Seq(V)
             /\ FlattenSeq(Apply(g, s \o t)) = FlattenSeq(Apply(g, s)) \o FlattenSeq(Apply(g, t))
  <2>0. Morphism(g, E, Seq(V))
    BY ApplyConcat, Zenon
  <2>1. PICK x \in Seq(Seq(V)) : x = Apply(g, s) /\ Len(x) = Len(s)
    BY <2>0, Zenon DEF Morphism
  <2>2. PICK y \in Seq(Seq(V)) : y = Apply(g, t) /\ Len(y) = Len(t)
    BY <2>0, Zenon DEF Morphism
  <2>3. Apply(g, s \o t) = Apply(g, s) \o Apply(g, t)
    BY <2>0, Zenon DEF Morphism
  <2>4. x # <<>> /\ y # <<>>
    BY <1>2, <2>1, <2>2
  <2>5. FlattenSeq(x \o y) = FlattenSeq(x) \o FlattenSeq(y) /\ FlattenSeq(x) \in Seq(V)
    BY <2>4, FlattenConcat, Zenon
  <2> QED  BY <2>1, <2>2, <2>3, <2>5, Zenon
<1>3. parts \in [1..n -> Seq(V)] /\ w \in [1..n -> Seq(V)]
  BY <1>1, <1>2, Zenon
<1>4. 1 \in 1..n /\ n \in 1..n /\ \A k \in 2..n : k \in 1..n /\ k - 1 \in 1..n
  OBVIOUS
<1>5. w[1] = parts[1] /\ w[n] = FlattenSeq(Apply(g, r))
  BY <1>4, PrefixSplit, Zenon
<1>6. ASSUME NEW k \in 2..n PROVE w[k] = w[k - 1] \o parts[k]
  <2>1. SubSeq(r, 1, e[k]) = SubSeq(r, 1, e[k - 1]) \o Piece(e, k, r)
    BY PrefixSplit, Zenon
  <2>2. /\ w[k] = FlattenSeq(Apply(g, SubSeq(r, 1, e[k])))
        /\ w[k - 1] = FlattenSeq(Apply(g, SubSeq(r, 1, e[k - 1])))
        /\ parts[k] = FlattenSeq(Apply(g, Piece(e, k, r)))
    BY <1>4, Zenon
  <2> QED  BY <1>1, <1>2, <1>4, <2>1, <2>2, Zenon
<1> HIDE DEF parts, w
<1>7. Joined(w, parts, n)
  BY <1>5, <1>6, Zenon DEF Joined
<1>8. FlattenSeq(parts) = w[n]
  BY <1>3, <1>7, FlattenUnique, Zenon
<1> QED  BY <1>5, <1>8, Zenon DEF parts

------------------------------------------------------------------------------
(* The results of the chunks are those of the pieces of r.                  *)
LEMMA MergedErrors ==
    ASSUME NEW E, NEW r \in Seq(E), NEW n \in Nat \ {0}, NEW e, Cuts(e, n, r), DOMAIN results = 1..n,
           \A k \in 1..n : IF Throws(Piece(e, k, r)) THEN results[k] = Error(FirstError(Piece(e, k, r)))
                                                     ELSE results[k].ok
    PROVE  /\ Throws(r) => Merged = Error(FirstError(r))
           /\ ~Throws(r) => Failed = {}
<1>1. \A x : ~Error(x).ok
  BY DEF Error
<1>2. \A k \in 1..n : k \in Failed <=> Throws(Piece(e, k, r))
  BY <1>1, Zenon DEF Failed
<1>3. Failed \subseteq 1..n /\ Failed \subseteq Nat
  BY DEF Failed
<1>4. ASSUME Throws(r) PROVE Merged = Error(FirstError(r))
  <2>1. Failed # {}
    BY <1>2, <1>4, ThrowsInPiece
  <2>2. PICK m \in Failed : \A l \in Failed : m <= l
    BY <1>3, <2>1, LeastNatural, Zenon
  <2> DEFINE k == CHOOSE k \in Failed : \A l \in Failed : k <= l
  <2>3. k \in Failed /\ \A l \in Failed : k <= l
    BY <2>2, Zenon
  <2>4. FirstFailure = results[k]
    BY Zenon DEF FirstFailure
  <2> HIDE DEF k
  <2>5. k \in 1..n /\ Throws(Piece(e, k, r)) /\ \A l \in 1..n : Throws(Piece(e, l, r)) => k <= l
    BY <1>2, <1>3, <2>3, Zenon
  <2>6. FirstError(Piece(e, k, r)) = FirstError(r)
    BY <2>5, FirstErrorInPiece
  <2>7. FirstFailure = Error(FirstError(r))
    BY <2>4, <2>5, <2>6, Zenon
  <2> QED  BY <2>1, <2>7 DEF Merged
<1>5. ASSUME ~Throws(r) PROVE Failed = {}
  BY <1>2, <1>3, <1>5, ThrowsInPiece
<1> QED  BY <1>4, <1>5

LEMMA MergedMap ==
    ASSUME NEW E, NEW r \in Seq(E), NEW n \in Nat \ {0}, NEW e, Cuts(e, n, r), DOMAIN results = 1..n,
           action = "MAP", \A k \in 1..n : results[k] = ArrayMap(Piece(e, k, r))
    PROVE  Merged = ArrayMap(r)
<1>1. \A x : Value(x).ok /\ Value(x).val = x
  BY DEF Value
<1>2. \A k \in 1..n : IF Throws(Piece(e, k, r)) THEN results[k] = Error(FirstError(Piece(e, k, r)))
                                                ELSE results[k].ok
  BY <1>1, Zenon DEF ArrayMap
<1>3. CASE Throws(r)
  BY <1>2, <1>3, MergedErrors DEF ArrayMap
<1>4. CASE ~Throws(r)
  <2>1. Failed = {} /\ \A k \in 1..n : ~Throws(Piece(e, k, r))
    BY <1>2, <1>4, MergedErrors, ThrowsInPiece
  <2> DEFINE g == [x \in E |-> <<x>>]
  <2>2. g \in [E -> Seq(E)]
    OBVIOUS
  <2>3. ASSUME NEW s \in Seq(E) PROVE [j \in DOMAIN s |-> <<s[j]>>] = Apply(g, s)
    <3>1. \A j \in DOMAIN s : s[j] \in E
      OBVIOUS
    <3> QED  BY <3>1, Zenon DEF Apply
  <2> HIDE DEF g
  <2>4. \A k \in 1..n : Piece(e, k, r) \in Seq(E)
    BY PieceFacts
  <2>5. \A k \in 1..n : results[k].val = Apply(g, Piece(e, k, r))
    BY <1>1, <2>1, <2>3, <2>4, Zenon DEF ArrayMap
  <2>6. Parts = [k \in 1..n |-> Apply(g, Piece(e, k, r))]
    BY <2>5, Zenon DEF Parts
  <2>7. FlattenSeq(Parts) = Apply(g, r)
    <3>1. JoinsPieces(g, e, n, r)
      BY <2>2, FlattenApplied, Zenon
    <3> QED  BY <2>6, <3>1, Zenon DEF JoinsPieces
  <2>8. Merged = Value(FlattenSeq(Parts))
    BY <2>1 DEF Merged
  <2>9. ArrayMap(r) = Value(Apply(g, r))
    BY <1>4, <2>3, Zenon DEF ArrayMap
  <2> QED  BY <2>7, <2>8, <2>9, Zenon
<1> QED  BY <1>3, <1>4

LEMMA MergedFilter ==
    ASSUME NEW E, NEW r \in Seq(E), NEW n \in Nat \ {0}, NEW e, Cuts(e, n, r), DOMAIN results = 1..n,
           action = "FILTER", \A k \in 1..n : results[k] = ArrayFilter(Piece(e, k, r))
    PROVE  Merged = ArrayFilter(r)
<1>1. \A x : Value(x).ok /\ Value(x).val = x
  BY DEF Value
<1>2. \A k \in 1..n : IF Throws(Piece(e, k, r)) THEN results[k] = Error(FirstError(Piece(e, k, r)))
                                                ELSE results[k].ok
  BY <1>1, Zenon DEF ArrayFilter
<1>3. CASE Throws(r)
  BY <1>2, <1>3, MergedErrors DEF ArrayFilter
<1>4. CASE ~Throws(r)
  <2>1. Failed = {} /\ \A k \in 1..n : ~Throws(Piece(e, k, r))
    BY <1>2, <1>4, MergedErrors, ThrowsInPiece
  <2> DEFINE g == [x \in E |-> IF x \in Dropped THEN <<>> ELSE <<x>>]
  <2>2. g \in [E -> Seq(E)]
    OBVIOUS
  <2>3. ASSUME NEW s \in Seq(E) PROVE Kept(s) = Apply(g, s)
    <3>1. \A j \in DOMAIN s : s[j] \in E
      OBVIOUS
    <3> QED  BY <3>1, Zenon DEF Apply, Kept
  <2> HIDE DEF g
  <2>4. \A k \in 1..n : Piece(e, k, r) \in Seq(E)
    BY PieceFacts
  <2>5. \A k \in 1..n : results[k].val = FlattenSeq(Apply(g, Piece(e, k, r)))
    BY <1>1, <2>1, <2>3, <2>4, Zenon DEF ArrayFilter
  <2>6. Parts = [k \in 1..n |-> FlattenSeq(Apply(g, Piece(e, k, r)))]
    BY <2>5, Zenon DEF Parts
  <2>7. FlattenSeq(Parts) = FlattenSeq(Apply(g, r))
    BY <2>2, <2>6, FlattenFlattened
  <2>8. Merged = Value(FlattenSeq(Parts))
    BY <2>1 DEF Merged
  <2>9. ArrayFilter(r) = Value(FlattenSeq(Apply(g, r)))
    BY <1>4, <2>3, Zenon DEF ArrayFilter
  <2> QED  BY <2>7, <2>8, <2>9, Zenon
<1> QED  BY <1>3, <1>4

(* Without an initial value the callback never sees the first element of a  *)
(* chunk as its second argument: it sees it when the chunks are combined.   *)
LEMMA ThrowsInTail ==
    ASSUME NEW E, NEW s \in Seq(E), s # <<>>
    PROVE  Throws(Tail(s)) <=> \E j \in 2..Len(s) : s[j] \in Throwing
<1>1. /\ Tail(s) \in Seq(E) /\ Len(Tail(s)) = Len(s) - 1 /\ Len(s) \in Nat
      /\ \A j \in 1..(Len(s) - 1) : Tail(s)[j] = s[j + 1]
  BY HeadTailProperties
<1>2. DOMAIN Tail(s) = 1..(Len(s) - 1)
  BY <1>1
<1>3. /\ \A j \in 1..(Len(s) - 1) : j + 1 \in 2..Len(s)
      /\ \A j \in 2..Len(s) : j - 1 \in 1..(Len(s) - 1) /\ (j - 1) + 1 = j
  BY <1>1
<1>4. ASSUME NEW j \in 1..(Len(s) - 1), Tail(s)[j] \in Throwing PROVE \E l \in 2..Len(s) : s[l] \in Throwing
  BY <1>1, <1>3, <1>4, Zenon
<1>5. ASSUME NEW j \in 2..Len(s), s[j] \in Throwing PROVE Tail(s)[j - 1] \in Throwing
  BY <1>1, <1>3, <1>5, Zenon
<1> QED  BY <1>2, <1>3, <1>4, <1>5, Zenon DEF Throws

LEMMA FlattenPieces ==
    ASSUME NEW E, NEW r \in Seq(E), NEW n \in Nat \ {0}, NEW e, Cuts(e, n, r)
    PROVE  FlattenSeq([k \in 1..n |-> Piece(e, k, r)]) = r
<1> DEFINE g == [x \in E |-> x]
<1>1. g \in [E -> E]
  OBVIOUS
<1>2. ASSUME NEW s \in Seq(E) PROVE Apply(g, s) = s
  <2>1. s \in [1..Len(s) -> E] /\ DOMAIN s = 1..Len(s)
    OBVIOUS
  <2> QED  BY <2>1, Zenon DEF Apply
<1> HIDE DEF g
<1>3. \A k \in 1..n : Piece(e, k, r) \in Seq(E)
  BY PieceFacts
<1>4. [k \in 1..n |-> Piece(e, k, r)] = [k \in 1..n |-> Apply(g, Piece(e, k, r))]
  BY <1>2, <1>3, Zenon
<1>5. JoinsPieces(g, e, n, r)
  BY <1>1, FlattenApplied, Zenon
<1> QED  BY <1>2, <1>4, <1>5, Zenon DEF JoinsPieces

(* Every chunk succeeded: the values to combine are the pieces.             *)
LEMMA ReduceParts ==
    ASSUME NEW E, NEW r \in Seq(E), NEW n \in Nat \ {0}, NEW e, Cuts(e, n, r), DOMAIN results = 1..n,
           action = "REDUCE", Failed = {}, \A k \in 1..n : results[k] = Value(Piece(e, k, r))
    PROVE  Merged = IF \E k \in 2..n : Throws(Piece(e, k, r)) THEN Error("FinalReduce") ELSE Value(r)
<1>1. \A x : Value(x).val = x
  BY DEF Value
<1>2. Parts = [k \in 1..n |-> Piece(e, k, r)]
  BY <1>1, Zenon DEF Parts
<1>3. \A k \in 1..n : Piece(e, k, r) \in Seq(E)
  BY PieceFacts
<1>4. Parts \in [1..n -> Seq(E)]
  BY <1>2, <1>3, Zenon
<1>5. Len(Parts) = n
  BY <1>4
<1>6. \A k \in 2..n : Parts[k] = Piece(e, k, r)
  BY <1>2
<1>7. FlattenSeq(Parts) = r
  BY <1>2, FlattenPieces, Zenon
<1>8. Merged = MergedReduce
  BY DEF Merged
<1> QED  BY <1>5, <1>6, <1>7, <1>8, Zenon DEF MergedReduce

LEMMA MergedWithInitial ==
    ASSUME NEW E, NEW r \in Seq(E), NEW n \in Nat \ {0}, NEW e, Cuts(e, n, r), DOMAIN results = 1..n,
           action = "REDUCE", initial # None, initial = <<>>,
           \A k \in 1..n : results[k] = ArrayReduce(Piece(e, k, r), initial)
    PROVE  Merged = ArrayReduce(r, initial)
<1>1. ASSUME NEW s \in Seq(E)
      PROVE  ArrayReduce(s, initial) = IF Throws(s) THEN Error(FirstError(s)) ELSE Value(s)
  <2>1. ArrayReduce(s, initial) = IF Throws(s) THEN Error(FirstError(s)) ELSE Value(initial \o s)
    BY DEF ArrayReduce
  <2>2. initial \o s = s
    BY ConcatEmptySeq
  <2> QED  BY <2>1, <2>2, Zenon
<1>2. \A k \in 1..n : Piece(e, k, r) \in Seq(E)
  BY PieceFacts
<1>3. \A k \in 1..n : results[k] = IF Throws(Piece(e, k, r)) THEN Error(FirstError(Piece(e, k, r)))
                                                          ELSE Value(Piece(e, k, r))
  BY <1>1, <1>2, Zenon
<1>4. \A x : Value(x).ok
  BY DEF Value
<1>5. \A k \in 1..n : IF Throws(Piece(e, k, r)) THEN results[k] = Error(FirstError(Piece(e, k, r)))
                                                ELSE results[k].ok
  BY <1>3, <1>4, Zenon
<1>6. CASE Throws(r)
  BY <1>1, <1>5, <1>6, MergedErrors
<1>7. CASE ~Throws(r)
  <2>1. Failed = {} /\ \A k \in 1..n : ~Throws(Piece(e, k, r))
    BY <1>5, <1>7, MergedErrors, ThrowsInPiece
  <2>2. \A k \in 1..n : results[k] = Value(Piece(e, k, r))
    BY <1>3, <2>1, Zenon
  <2>3. \A k \in 2..n : k \in 1..n
    OBVIOUS
  <2>4. Merged = Value(r)
    BY <2>1, <2>2, <2>3, ReduceParts
  <2> QED  BY <1>1, <1>7, <2>4, Zenon
<1> QED  BY <1>6, <1>7

LEMMA MergedWithout ==
    ASSUME NEW E, NEW r \in Seq(E), NEW n \in Nat \ {0}, NEW e, Cuts(e, n, r), DOMAIN results = 1..n,
           action = "REDUCE", initial = None,
           \A k \in 1..n : results[k] = ArrayReduce(Piece(e, k, r), initial)
    PROVE  /\ Merged.ok = ArrayReduce(r, initial).ok
           /\ Merged.ok => Merged.val = ArrayReduce(r, initial).val
<1>1. ASSUME NEW s \in Seq(E), s # <<>>
      PROVE  ArrayReduce(s, initial) = IF Throws(Tail(s)) THEN Error(FirstError(Tail(s))) ELSE Value(s)
  BY <1>1 DEF ArrayReduce
<1>2. ASSUME NEW k \in 1..n
      PROVE  /\ Piece(e, k, r) \in Seq(E) /\ Piece(e, k, r) # <<>>
             /\ Len(Piece(e, k, r)) = e[k] - e[k - 1] /\ e[k] \in Nat /\ e[k - 1] \in Nat /\ e[k] <= Len(r)
             /\ \A j \in 1..(e[k] - e[k - 1]) : Piece(e, k, r)[j] = r[e[k - 1] + j]
  <2>1. /\ Piece(e, k, r) \in Seq(E) /\ Len(Piece(e, k, r)) = e[k] - e[k - 1]
        /\ \A j \in 1..(e[k] - e[k - 1]) : Piece(e, k, r)[j] = r[e[k - 1] + j]
        /\ e[k] \in Nat /\ e[k - 1] \in Nat /\ e[k - 1] < e[k] /\ e[k] <= Len(r)
    BY PieceFacts
  <2>2. Len(Piece(e, k, r)) # 0
    BY <2>1
  <2>3. Piece(e, k, r) # <<>>
    BY <2>2
  <2> QED  BY <2>1, <2>3, Zenon
<1>3. r # <<>> /\ Len(r) \in Nat
  <2>1. 1 \in 1..n /\ Len(r) \in Nat
    OBVIOUS
  <2>2. Len(r) >= 1
    BY <2>1, PieceFacts
  <2> QED  BY <2>2
<1>4. \A k \in 1..n : results[k] = IF Throws(Tail(Piece(e, k, r)))
                                    THEN Error(FirstError(Tail(Piece(e, k, r)))) ELSE Value(Piece(e, k, r))
  BY <1>1, <1>2, Zenon
<1>5. \A x : Error(x).ok = FALSE /\ Value(x).ok = TRUE /\ Value(x).val = x
  BY DEF Error, Value
<1>6. \A k \in 1..n : k \in Failed <=> Throws(Tail(Piece(e, k, r)))
  BY <1>4, <1>5, Zenon DEF Failed
<1>7. Failed \subseteq 1..n /\ Failed \subseteq Nat
  BY DEF Failed
<1>8. ASSUME Failed # {} PROVE Merged.ok = FALSE
  <2>1. PICK m \in Failed : \A l \in Failed : m <= l
    BY <1>7, <1>8, LeastNatural, Zenon
  <2> DEFINE k == CHOOSE k \in Failed : \A l \in Failed : k <= l
  <2>2. k \in Failed
    BY <2>1, Zenon
  <2>3. FirstFailure = results[k]
    BY Zenon DEF FirstFailure
  <2> HIDE DEF k
  <2>4. FirstFailure.ok = FALSE
    BY <1>4, <1>5, <1>6, <1>7, <2>2, <2>3, Zenon
  <2> QED  BY <1>8, <2>4 DEF Merged
<1>9. ASSUME Failed = {}
      PROVE  Merged = IF \E k \in 2..n : Throws(Piece(e, k, r)) THEN Error("FinalReduce") ELSE Value(r)
  <2>1. \A k \in 1..n : results[k] = Value(Piece(e, k, r))
    BY <1>4, <1>6, <1>9, Zenon
  <2> QED  BY <1>9, <2>1, ReduceParts
<1>10. ASSUME NEW k \in 1..n, NEW j \in 1..(e[k] - e[k - 1]), Piece(e, k, r)[j] \in Throwing, k # 1 \/ j # 1
       PROVE  Throws(Tail(r))
  <2>1. e[k - 1] + j \in 2..Len(r)
    <3>1. CASE k = 1
      BY <1>2, <1>3, <1>10, <3>1
    <3>2. CASE k # 1
      <4>1. k - 1 \in 1..n
        BY <3>2
      <4> DEFINE l == k - 1
      <4>2. l \in 1..n
        BY <4>1
      <4> HIDE DEF l
      <4>3. e[l] \in Nat /\ e[l - 1] \in Nat /\ e[l - 1] < e[l]
        BY <4>2, PieceFacts
      <4>4. e[l] \in Nat /\ e[l] >= 1
        BY <4>3
      <4>5. e[k] \in Nat /\ e[k] <= Len(r) /\ e[k - 1] \in Nat /\ e[k - 1] >= 1
        BY <1>2, <4>4 DEF l
      <4> QED  BY <1>3, <4>5
    <3> QED  BY <3>1, <3>2
  <2>2. r[e[k - 1] + j] \in Throwing
    BY <1>2, <1>10, Zenon
  <2> QED  BY <1>3, <2>1, <2>2, ThrowsInTail
<1>11. CASE Throws(Tail(r))
  <2>1. Merged.ok = FALSE
    <3>1. CASE Failed = {}
      <4>1. PICK p \in 2..Len(r) : r[p] \in Throwing
        BY <1>3, <1>11, ThrowsInTail
      <4>2. PICK k \in 1..n : e[k - 1] < p /\ p <= e[k]
        BY <1>3, InPiece
      <4>3. /\ p - e[k - 1] \in 1..(e[k] - e[k - 1]) /\ e[k - 1] + (p - e[k - 1]) = p
        BY <1>2, <4>2
      <4>4. Piece(e, k, r)[p - e[k - 1]] \in Throwing
        BY <1>2, <4>1, <4>3, Zenon
      <4>5. CASE k = 1
        <5>1. e[1 - 1] = 0 /\ p - 0 = p
          BY DEF Cuts
        <5>2. p \in 2..Len(Piece(e, 1, r)) /\ Piece(e, 1, r)[p] \in Throwing
          BY <1>2, <4>2, <4>4, <4>5, <5>1
        <5>3. Throws(Tail(Piece(e, 1, r)))
          BY <1>2, <4>5, <5>2, ThrowsInTail
        <5> QED  BY <1>6, <3>1, <4>5, <5>3
      <4>6. CASE k # 1
        <5>1. k \in 2..n
          BY <4>6
        <5>2. DOMAIN Piece(e, k, r) = 1..(e[k] - e[k - 1])
          BY <1>2
        <5>3. Throws(Piece(e, k, r))
          BY <4>3, <4>4, <5>2, Zenon DEF Throws
        <5>4. Merged = Error("FinalReduce")
          BY <1>9, <3>1, <5>1, <5>3, Zenon
        <5> QED  BY <1>5, <5>4, Zenon
      <4> QED  BY <4>5, <4>6
    <3> QED  BY <1>8, <3>1
  <2>2. ArrayReduce(r, initial).ok = FALSE
    BY <1>1, <1>3, <1>5, <1>11, Zenon
  <2> QED  BY <2>1, <2>2
<1>12. CASE ~Throws(Tail(r))
  <2>1. ASSUME NEW k \in 1..n PROVE ~Throws(Tail(Piece(e, k, r)))
    <3>1. ASSUME NEW j \in 2..Len(Piece(e, k, r)), Piece(e, k, r)[j] \in Throwing PROVE FALSE
      <4>1. j \in 1..(e[k] - e[k - 1]) /\ j # 1
        BY <1>2
      <4> QED  BY <1>10, <1>12, <3>1, <4>1, Zenon
    <3> QED  BY <1>2, <3>1, ThrowsInTail
  <2>2. Failed = {}
    BY <1>6, <1>7, <2>1
  <2>3. ASSUME NEW k \in 2..n, Throws(Piece(e, k, r)) PROVE FALSE
    <3>1. k \in 1..n /\ k # 1
      OBVIOUS
    <3>2. DOMAIN Piece(e, k, r) = 1..(e[k] - e[k - 1])
      BY <1>2, <3>1
    <3> QED  BY <1>10, <1>12, <2>3, <3>1, <3>2, Zenon DEF Throws
  <2>4. Merged = Value(r)
    BY <1>9, <2>2, <2>3, Zenon
  <2>5. ArrayReduce(r, initial) = Value(r)
    BY <1>1, <1>3, <1>12, Zenon
  <2> QED  BY <2>4, <2>5
<1> QED  BY <1>11, <1>12

------------------------------------------------------------------------------
(* What has been computed is the method of Array on the chunk it is for.    *)
Chunk(k) == SubSeq(receiver, chunks[k].start + 1, chunks[k].end)

LInv ==
    /\ CInv
    /\ \A k \in 1..i : results[k] \in {None, ArrayMethod(Chunk(k))}
    /\ LikeArrayMethod

LEMMA ReceiverType ==
    ASSUME receiver \in Arrays
    PROVE  receiver \in Seq(Range(receiver)) /\ length = Len(receiver) /\ length \in Nat
  BY ArrayAssumption DEF length

(* The chunks cut the array where they end.                                 *)
LEMMA ChunksCut ==
    ASSUME CInv, pc = "join"
    PROVE  \E e : /\ Cuts(e, num_chunks, receiver)
                  /\ \A k \in 1..num_chunks : Piece(e, k, receiver) = Chunk(k)
<1> DEFINE e == [k \in 0..num_chunks |-> IF k = 0 THEN 0 ELSE chunks[k].end]
<1>1. /\ num_chunks \in Nat \ {0} /\ i = num_chunks /\ chunks = [k \in 1..i |-> Bounds(k - 1)]
      /\ num_chunks <= length /\ receiver \in Arrays
  BY DEF CInv, TypeOK
<1>2. length = Len(receiver) /\ length \in Nat
  BY <1>1, ReceiverType
<1>3. ASSUME NEW k \in 1..num_chunks
      PROVE  chunks[k].start \in Nat /\ chunks[k].end \in Nat
  <2>1. k - 1 \in Nat /\ k - 1 < num_chunks
    BY <1>1
  <2>2. chunks[k] = Bounds(k - 1)
    BY <1>1
  <2> QED  BY <1>1, <1>2, <2>1, <2>2, ExactBounds
<1>4. /\ \A k \in 1..num_chunks :
           /\ chunks[k].start < chunks[k].end /\ chunks[k].end <= length
           /\ chunks[k].start = IF k = 1 THEN 0 ELSE chunks[k - 1].end
      /\ chunks[num_chunks].end = length
  BY <1>1, CInvPartition DEF ChunksPartition
<1>5. ASSUME NEW k \in 1..num_chunks
      PROVE  k \in 0..num_chunks /\ k - 1 \in 0..num_chunks /\ k # 0 /\ (k - 1 = 0 <=> k = 1)
  BY <1>1
<1>6. \A k \in 1..num_chunks : e[k] = chunks[k].end /\ e[k - 1] = chunks[k].start
  BY <1>4, <1>5
<1>7. e[0] = 0 /\ e[num_chunks] = length
  BY <1>1, <1>4
<1>8. e \in [0..num_chunks -> 0..Len(receiver)]
  <2>1. ASSUME NEW k \in 0..num_chunks
        PROVE  (IF k = 0 THEN 0 ELSE chunks[k].end) \in 0..Len(receiver)
    <3>1. CASE k = 0
      BY <1>2, <3>1
    <3>2. CASE k # 0
      <4>1. k \in 1..num_chunks
        BY <1>1, <3>2
      <4> QED  BY <1>2, <1>3, <1>4, <3>2, <4>1
    <3> QED  BY <3>1, <3>2
  <2> QED  BY <2>1, Zenon
<1> HIDE DEF e
<1>9. Cuts(e, num_chunks, receiver)
  BY <1>2, <1>4, <1>6, <1>7, <1>8, Zenon DEF Cuts
<1>10. \A k \in 1..num_chunks : Piece(e, k, receiver) = Chunk(k)
  BY <1>6, Zenon DEF Piece, Chunk
<1> QED  BY <1>9, <1>10, Zenon

LEMMA EmptyMethod ==
    ASSUME Init, length = 0
    PROVE  LikeArrayMethod
<1>1. receiver \in Seq(Range(receiver)) /\ Len(receiver) = 0
  BY ReceiverType DEF Init
<1>2. receiver = <<>>
  BY <1>1
<1>3. ~Throws(receiver)
  BY <1>2 DEF Throws
<1>4. action \in {"MAP", "FILTER", "REDUCE"} /\ initial \in (IF action = "REDUCE" THEN Initials ELSE {}) \cup {None}
  BY DEF Init
<1>5. outcome = CASE action # "REDUCE" -> Value(<<>>)
                  [] action = "REDUCE" /\ initial # None -> Value(initial)
                  [] OTHER -> Error("TypeError")
  BY DEF Init
<1>6. CASE action = "MAP"
  <2>1. [j \in DOMAIN receiver |-> <<receiver[j]>>] = <<>>
    BY <1>2
  <2>2. ArrayMap(receiver) = Value(<<>>)
    BY <1>3, <2>1, Zenon DEF ArrayMap
  <2> QED  BY <1>5, <1>6, <2>2 DEF LikeArrayMethod, ArrayMethod
<1>7. CASE action = "FILTER"
  <2>1. Kept(receiver) = <<>>
    BY <1>2 DEF Kept
  <2>2. FlattenSeq(Kept(receiver)) = <<>>
    BY <2>1, FlattenEmpty, Zenon
  <2>3. ArrayFilter(receiver) = Value(<<>>)
    BY <1>3, <2>2, Zenon DEF ArrayFilter
  <2> QED  BY <1>5, <1>7, <2>3 DEF LikeArrayMethod, ArrayMethod
<1>8. CASE action = "REDUCE"
  <2>1. ArrayMethod(receiver) = ArrayReduce(receiver, initial)
    BY <1>8 DEF ArrayMethod
  <2>2. CASE initial = None
    <3>1. ArrayReduce(receiver, initial) = Error("TypeError")
      BY <1>2, <2>2 DEF ArrayReduce
    <3>2. outcome = Error("TypeError")
      BY <1>5, <1>8, <2>2
    <3> QED  BY <1>8, <2>1, <3>1, <3>2 DEF LikeArrayMethod
  <2>3. CASE initial # None /\ initial = <<>>
    <3>1. initial \o receiver = <<>>
      BY <1>2, <2>3
    <3>2. ArrayReduce(receiver, initial) = Value(<<>>)
      BY <1>3, <2>3, <3>1 DEF ArrayReduce
    <3>3. outcome = Value(<<>>)
      BY <1>5, <1>8, <2>3
    <3> QED  BY <1>8, <2>1, <3>2, <3>3 DEF LikeArrayMethod
  <2> QED  BY <1>8, <2>2, <2>3 DEF LikeArrayMethod
<1> QED  BY <1>4, <1>6, <1>7, <1>8

LEMMA InitLInv == Init => LInv
<1> SUFFICES ASSUME Init PROVE LInv
  OBVIOUS
<1>1. CInv
  BY InitCInv
<1>2. 1..i = {}
  BY DEF Init
<1>3. length # 0 => pc = "submit"
  BY DEF Init
<1>4. LikeArrayMethod
  BY <1>3, EmptyMethod DEF LikeArrayMethod
<1> QED  BY <1>1, <1>2, <1>4 DEF LInv

(* Merging the results of all chunks gives the result of the method.        *)
LEMMA MergedLikeMethod ==
    ASSUME CInv, pc = "join", \A k \in 1..i : results[k] = ArrayMethod(Chunk(k))
    PROVE  IF action = "REDUCE"
             THEN initial \in {None, <<>>} =>
                    /\ Merged.ok = ArrayMethod(receiver).ok
                    /\ Merged.ok => Merged.val = ArrayMethod(receiver).val
             ELSE Merged = ArrayMethod(receiver)
<1>1. /\ num_chunks \in Nat \ {0} /\ i = num_chunks /\ DOMAIN results = 1..num_chunks
      /\ receiver \in Arrays /\ action \in {"MAP", "FILTER", "REDUCE"}
  BY DEF CInv, TypeOK
<1>2. receiver \in Seq(Range(receiver))
  BY <1>1, ReceiverType
<1>3. PICK e : /\ Cuts(e, num_chunks, receiver)
               /\ \A k \in 1..num_chunks : Piece(e, k, receiver) = Chunk(k)
  BY ChunksCut, Zenon
<1>4. \A k \in 1..num_chunks : results[k] = ArrayMethod(Piece(e, k, receiver))
  BY <1>1, <1>3, Zenon
<1>5. CASE action = "MAP"
  <2>1. \A s : ArrayMethod(s) = ArrayMap(s)
    BY <1>5 DEF ArrayMethod
  <2>2. \A k \in 1..num_chunks : results[k] = ArrayMap(Piece(e, k, receiver))
    BY <1>4, <2>1, Zenon
  <2>3. Merged = ArrayMap(receiver)
    BY <1>1, <1>2, <1>3, <1>5, <2>2, MergedMap
  <2> QED  BY <1>5, <2>1, <2>3
<1>6. CASE action = "FILTER"
  <2>1. \A s : ArrayMethod(s) = ArrayFilter(s)
    BY <1>6 DEF ArrayMethod
  <2>2. \A k \in 1..num_chunks : results[k] = ArrayFilter(Piece(e, k, receiver))
    BY <1>4, <2>1, Zenon
  <2>3. Merged = ArrayFilter(receiver)
    BY <1>1, <1>2, <1>3, <1>6, <2>2, MergedFilter
  <2> QED  BY <1>6, <2>1, <2>3
<1>7. CASE action = "REDUCE"
  <2>1. \A s : ArrayMethod(s) = ArrayReduce(s, initial)
    BY <1>7 DEF ArrayMethod
  <2>2. \A k \in 1..num_chunks : results[k] = ArrayReduce(Piece(e, k, receiver), initial)
    BY <1>4, <2>1, Zenon
  <2>3. CASE initial = None
    <3>1. /\ Merged.ok = ArrayReduce(receiver, initial).ok
          /\ Merged.ok => Merged.val = ArrayReduce(receiver, initial).val
      BY <1>1, <1>2, <1>3, <1>7, <2>2, <2>3, MergedWithout
    <3> QED  BY <1>7, <2>1, <3>1
  <2>4. CASE initial # None /\ initial = <<>>
    <3>1. Merged = ArrayReduce(receiver, initial)
      BY <1>1, <1>2, <1>3, <1>7, <2>2, <2>4, MergedWithInitial
    <3> QED  BY <1>7, <2>1, <3>1
  <2> QED  BY <1>7, <2>3, <2>4
<1> QED  BY <1>1, <1>5, <1>6, <1>7

LEMMA NextLInv == LInv /\ [Next]_vars => LInv'
<1> SUFFICES ASSUME LInv, [Next]_vars PROVE LInv'
  OBVIOUS
<1>1. CInv /\ CInv'
  BY NextCInv DEF LInv
<1>2. /\ i \in Nat /\ DOMAIN results = 1..i /\ DOMAIN chunks = 1..i
      /\ chunks = [k \in 1..i |-> Bounds(k - 1)]
  BY <1>1 DEF CInv, TypeOK
<1>3. UNCHANGED <<receiver, action, initial>>
  BY DEF Next, vars, call, SubmitChunk, ThrowNotSerializable, SubmitJoin, Resolve, ExecuteChunk
<1>4. \A s : ArrayMethod(s)' = ArrayMethod(s)
  BY <1>3 DEF ArrayMethod, ArrayMap, ArrayFilter, ArrayReduce, Throws, FirstError, Kept, Value, Error
<1>5. CASE UNCHANGED vars
  <2>1. UNCHANGED <<i, chunks, results, pc, outcome>>
    BY <1>5 DEF vars
  <2>2. \A k : Chunk(k)' = Chunk(k)
    BY <1>3, <2>1 DEF Chunk
  <2>3. LikeArrayMethod'
    BY <1>3, <1>4, <2>1 DEF LInv, LikeArrayMethod, Error
  <2> QED  BY <1>1, <1>4, <2>1, <2>2, <2>3 DEF LInv
<1>6. CASE SubmitChunk
  <2>1. /\ pc' = "submit" /\ i' = i + 1 /\ chunks' = Append(chunks, Bounds(i))
        /\ results' = Append(results, None)
    BY <1>6 DEF SubmitChunk
  <2>2. LikeArrayMethod'
    BY <2>1 DEF LikeArrayMethod
  <2>3. ASSUME NEW k \in 1..(i + 1) PROVE results'[k] \in {None, ArrayMethod(Chunk(k)')}
    <3>1. CASE k = i + 1
      <4>1. results'[k] = None
        BY <1>2, <2>1, <3>1
      <4> QED  BY <4>1
    <3>2. CASE k # i + 1
      <4>1. k \in 1..i
        BY <1>2, <3>2
      <4>2. results'[k] = results[k]
        BY <1>2, <2>1, <4>1
      <4>3. chunks'[k] = chunks[k]
        BY <1>2, <2>1, <4>1
      <4>4. Chunk(k)' = Chunk(k)
        BY <1>3, <4>3 DEF Chunk
      <4> QED  BY <4>1, <4>2, <4>4 DEF LInv
    <3> QED  BY <3>1, <3>2
  <2> QED  BY <1>1, <1>4, <2>1, <2>2, <2>3 DEF LInv
<1>7. CASE \E k \in DOMAIN results : ExecuteChunk(k)
  <2>1. PICK k \in 1..i : ExecuteChunk(k)
    BY <1>2, <1>7
  <2>2. /\ UNCHANGED <<i, chunks, pc, outcome>>
        /\ results' = [results EXCEPT ![k] = ArrayMethod(Chunk(k))]
    BY <2>1 DEF ExecuteChunk, Chunk
  <2>3. \A l : Chunk(l)' = Chunk(l)
    BY <1>3, <2>2 DEF Chunk
  <2>4. LikeArrayMethod'
    BY <1>3, <1>4, <2>2 DEF LInv, LikeArrayMethod, Error
  <2>5. \A l \in 1..i : results'[l] \in {None, ArrayMethod(Chunk(l))}
    BY <1>2, <2>2 DEF LInv
  <2> QED  BY <1>1, <1>4, <2>2, <2>3, <2>4, <2>5 DEF LInv
<1>8. CASE ThrowNotSerializable
  <2>1. UNCHANGED <<i, chunks, results>> /\ outcome' = Error("NotSerializable")
    BY <1>8 DEF ThrowNotSerializable
  <2>2. \A k : Chunk(k)' = Chunk(k)
    BY <1>3, <2>1 DEF Chunk
  <2>3. LikeArrayMethod'
    BY <2>1 DEF LikeArrayMethod, Error
  <2> QED  BY <1>1, <1>4, <2>1, <2>2, <2>3 DEF LInv
<1>9. CASE SubmitJoin
  <2>1. UNCHANGED <<i, chunks, results>> /\ pc' = "join"
    BY <1>9 DEF SubmitJoin
  <2>2. \A k : Chunk(k)' = Chunk(k)
    BY <1>3, <2>1 DEF Chunk
  <2>3. LikeArrayMethod'
    BY <2>1 DEF LikeArrayMethod
  <2> QED  BY <1>1, <1>4, <2>1, <2>2, <2>3 DEF LInv
<1>10. CASE Resolve
  <2>1. /\ UNCHANGED <<i, chunks, results>> /\ pc = "join" /\ outcome' = Merged
        /\ \A k \in 1..i : results[k] # None
    BY <1>2, <1>10 DEF Resolve
  <2>2. \A k : Chunk(k)' = Chunk(k)
    BY <1>3, <2>1 DEF Chunk
  <2>3. \A k \in 1..i : results[k] = ArrayMethod(Chunk(k))
    BY <2>1 DEF LInv
  <2>4. IF action = "REDUCE"
          THEN initial \in {None, <<>>} =>
                 /\ Merged.ok = ArrayMethod(receiver).ok
                 /\ Merged.ok => Merged.val = ArrayMethod(receiver).val
          ELSE Merged = ArrayMethod(receiver)
    BY <1>1, <2>1, <2>3, MergedLikeMethod
  <2>5. LikeArrayMethod'
    BY <1>3, <1>4, <2>1, <2>4 DEF LikeArrayMethod
  <2> QED  BY <1>1, <1>4, <2>1, <2>2, <2>5 DEF LInv
<1> QED  BY <1>5, <1>6, <1>7, <1>8, <1>9, <1>10 DEF Next

(* The promise of parallelMap, parallelFilter or parallelReduce gets what   *)
(* the method of Array gives, for every array, pool, callback and order of  *)
(* the chunks: ResolveParallelArrayTask undoes what ArrayParallelCommon cut.*)
THEOREM ParallelLikeArray == Spec => []LikeArrayMethod
<1>1. LInv => LikeArrayMethod
  BY DEF LInv
<1> QED  BY InitLInv, NextLInv, <1>1, PTL DEF Spec
==============================================================================
