---------------------------- MODULE ParallelArray ----------------------------
(* One call of Array.prototype.parallelMap, parallelFilter or               *)
(* parallelReduce (src/builtins/builtins-parallel-array.cc): the chunks     *)
(* that ArrayParallelCommon submits, their results, which come in any       *)
(* order, and how ResolveParallelArrayTask merges them.  ThreadApi models   *)
(* how the tasks are scheduled.                                             *)
EXTENDS Integers, Sequences, SequencesExt

CONSTANTS
    Modulus,     \* chunks are computed with integers below this one, 2^32 in the code
    Arrays,      \* the receivers, sequences of elements
    PoolSizes,   \* what pool_size() may return
    Initials,    \* values for the argument initialValue of parallelReduce
    Throwing,    \* the elements for which the callback throws
    Dropped,     \* the elements that the callback of parallelFilter rejects
    None

ASSUME ArrayAssumption ==
    /\ Modulus \in Nat \ {0} /\ PoolSizes \subseteq Nat
    /\ \A arr \in Arrays : arr \in Seq(Range(arr)) /\ Len(arr) \in 0..(Modulus - 1)

VARIABLES
    receiver, action,
    initial,       \* initialValue in a sequence of its own, or None
    num_chunks,
    i,             \* the chunks that are submitted
    chunks,        \* their bounds: elements from .start to .end - 1
    results,       \* the result of each chunk, None while it runs
    pc, outcome    \* what the caller gets: a promise's result, an exception

call == <<receiver, action, initial, num_chunks>>
vars == <<call, i, chunks, results, pc, outcome>>

length == Len(receiver)
Unsigned(n) == n % Modulus

------------------------------------------------------------------------------
(* The methods of Array, on a sequence of elements.  The result of a map    *)
(* shows which elements it is made of; reducing is concatenation, the       *)
(* operation from which every associative one is obtained.                  *)
Throws(s) == \E j \in DOMAIN s : s[j] \in Throwing
FirstError(s) == s[CHOOSE j \in DOMAIN s : s[j] \in Throwing /\ \A l \in 1..(j - 1) : s[l] \notin Throwing]

Value(v) == [ok |-> TRUE, val |-> v]
Error(e) == [ok |-> FALSE, val |-> e]

ArrayMap(s) == IF Throws(s) THEN Error(FirstError(s)) ELSE Value([j \in DOMAIN s |-> <<s[j]>>])

(* What each element contributes to the result of a filter.                 *)
Kept(s) == [j \in DOMAIN s |-> IF s[j] \in Dropped THEN <<>> ELSE <<s[j]>>]

ArrayFilter(s) == IF Throws(s) THEN Error(FirstError(s)) ELSE Value(FlattenSeq(Kept(s)))

(* Without initialValue the first element is not passed as currentValue.    *)
ArrayReduce(s, init) ==
    CASE init # None -> IF Throws(s) THEN Error(FirstError(s)) ELSE Value(init \o s)
      [] init = None /\ s = <<>> -> Error("TypeError")
      [] OTHER -> IF Throws(Tail(s)) THEN Error(FirstError(Tail(s))) ELSE Value(s)

ArrayMethod(s) ==
    CASE action = "MAP" -> ArrayMap(s)
      [] action = "FILTER" -> ArrayFilter(s)
      [] action = "REDUCE" -> ArrayReduce(s, initial)

------------------------------------------------------------------------------
NumChunks(pool_size) ==
    LET n == IF length < pool_size THEN length ELSE pool_size IN IF n = 0 THEN 1 ELSE n

(* ArrayParallelCommon up to the loop; it settles the promise of an empty   *)
(* array itself.                                                            *)
Init ==
    /\ receiver \in Arrays /\ action \in {"MAP", "FILTER", "REDUCE"}
    /\ initial \in (IF action = "REDUCE" THEN Initials ELSE {}) \cup {None}
    /\ \E pool_size \in PoolSizes : num_chunks = NumChunks(Unsigned(pool_size))
    /\ i = 0 /\ chunks = <<>> /\ results = <<>>
    /\ IF length = 0
         THEN /\ pc = "done"
              /\ outcome = CASE action # "REDUCE" -> Value(<<>>)
                             [] action = "REDUCE" /\ initial # None -> Value(initial)
                             [] OTHER -> Error("TypeError")
         ELSE pc = "submit" /\ outcome = None

(* Mutant: the last chunk is as long as the others.                         *)
BoundsEven(k) ==
    LET len == length \div num_chunks
    IN  [start |-> Unsigned(k * len), end |-> Unsigned((k + 1) * len)]

(* The last chunk takes the remainder.                                      *)
Bounds(k) ==
    LET len == length \div num_chunks
    IN  [start |-> Unsigned(k * len),
         end   |-> IF k = num_chunks - 1 THEN length ELSE Unsigned((k + 1) * len)]

SubmitChunk ==
    /\ pc = "submit" /\ i < num_chunks
    /\ chunks' = Append(chunks, Bounds(i)) /\ results' = Append(results, None)
    /\ i' = i + 1
    /\ UNCHANGED <<call, pc, outcome>>

(* A chunk that cannot be serialized; those before it run for nobody.       *)
ThrowNotSerializable ==
    /\ pc = "submit" /\ i < num_chunks
    /\ pc' = "done" /\ outcome' = Error("NotSerializable")
    /\ UNCHANGED <<call, i, chunks, results>>

SubmitJoin ==
    /\ pc = "submit" /\ i = num_chunks
    /\ pc' = "join"
    /\ UNCHANGED <<call, i, chunks, results, outcome>>

(* A worker executes chunk k: the method of Array on a copy of its elements.*)
ExecuteChunk(k) ==
    /\ results[k] = None
    /\ results' = [results EXCEPT ![k] =
                     ArrayMethod(SubSeq(receiver, chunks[k].start + 1, chunks[k].end))]
    /\ UNCHANGED <<call, i, chunks, pc, outcome>>

------------------------------------------------------------------------------
Failed == {k \in DOMAIN results : ~results[k].ok}

(* Mutant: the error of the last chunk that failed.                         *)
LastFailure == results[CHOOSE k \in Failed : \A l \in Failed : l <= k]

FirstFailure == results[CHOOSE k \in Failed : \A l \in Failed : k <= l]

(* The results of the chunks in order: for map and filter their elements,   *)
(* for reduce the values, which the callback of the caller then combines.   *)
Parts == [k \in DOMAIN results |-> results[k].val]

MergedReduce ==
    IF \E k \in 2..Len(Parts) : Throws(Parts[k]) THEN Error("FinalReduce")
                                               ELSE Value(FlattenSeq(Parts))

Merged ==
    CASE Failed # {} -> FirstFailure
      [] Failed = {} /\ action = "REDUCE" -> MergedReduce
      [] OTHER -> Value(FlattenSeq(Parts))

(* ParallelArrayJoinTask got every future; ResolveParallelArrayTask.        *)
Resolve ==
    /\ pc = "join" /\ \A k \in DOMAIN results : results[k] # None
    /\ pc' = "done" /\ outcome' = Merged
    /\ UNCHANGED <<call, i, chunks, results>>

Next ==
    \/ SubmitChunk \/ ThrowNotSerializable \/ SubmitJoin \/ Resolve
    \/ \E k \in DOMAIN results : ExecuteChunk(k)

Spec == Init /\ [][Next]_vars

------------------------------------------------------------------------------
(* Every variable has its type.                                             *)
TypeOK ==
    /\ receiver \in Arrays /\ action \in {"MAP", "FILTER", "REDUCE"}
    /\ initial \in Initials \cup {None} /\ num_chunks \in Nat \ {0} /\ i \in 0..num_chunks
    /\ DOMAIN chunks = 1..i /\ DOMAIN results = 1..i
    /\ pc \in {"submit", "join", "done"}

(* The chunks divide the array: every one has an element, no computation of *)
(* a bound leaves the 32 bits, the next chunk begins where the last one     *)
(* ended, and together they are the array.                                  *)
ChunksPartition ==
    /\ \A k \in 1..i :
         /\ chunks[k].start < chunks[k].end /\ chunks[k].end <= length
         /\ chunks[k].start = IF k = 1 THEN 0 ELSE chunks[k - 1].end
    /\ pc = "join" => chunks[num_chunks].end = length

(* The promise gets what the method of Array returns or throws, in whatever *)
(* order the chunks end and however many fail.  The callback looks at its   *)
(* element only: the index that it is passed counts within the chunk.  For  *)
(* parallelReduce it is associative and initialValue, from which every      *)
(* chunk starts, is absent or neutral; an error need not be the same one.   *)
LikeArrayMethod ==
    pc = "done" /\ outcome # Error("NotSerializable") =>
      IF action = "REDUCE"
        THEN initial \in {None, <<>>} =>
               /\ outcome.ok = ArrayMethod(receiver).ok
               /\ outcome.ok => outcome.val = ArrayMethod(receiver).val
        ELSE outcome = ArrayMethod(receiver)
==============================================================================
