--------------------------- MODULE MutexStateProofs ---------------------------
(* Mutual exclusion, no lost update, first come, first served, and that only *)
(* committed values are read, for MutexState with any number of requests and *)
(* isolates.                                                                 *)
EXTENDS MutexState, TLAPS, SequenceTheorems

Busy(i) == pc[i] # "idle"
InFlight(i) == pc[i] = "post" \/ inbox[i] # <<>>

(* The number of requests that the mutex is on its way to.                   *)
Flight == IF \E i \in Isolates : InFlight(i) THEN 1 ELSE 0

(* One token: MutualExclusion, said of pairs of isolates.                    *)
TokenInv ==
    /\ \A i, j \in Isolates : (Busy(i) \/ inbox[i] # <<>>) /\ (Busy(j) \/ inbox[j] # <<>>) => i = j
    /\ \A i \in Isolates : inbox[i] # <<>> => ~Busy(i) /\ Len(inbox[i]) = 1
    /\ locked <=> \E i \in Isolates : Busy(i) \/ inbox[i] # <<>>
    /\ pending_locks # <<>> => locked

(* The line: asked is granted, then the request in flight, then the queue.   *)
LineInv ==
    /\ Len(asked) = Len(granted) + Flight + Len(pending_locks)
    /\ \A k \in 1..Len(granted) : granted[k] = asked[k]
    /\ \A i \in Isolates : pc[i] = "post" => to[i] \in Pending /\ to[i].req = asked[Len(granted) + 1]
    /\ \A i \in Isolates : inbox[i] # <<>> => Head(inbox[i]) = asked[Len(granted) + 1]
    /\ \A k \in 1..Len(pending_locks) : pending_locks[k].req = asked[Len(granted) + Flight + k]

(* Who is in line has not been answered, and stands there once.              *)
PromiseInv ==
    /\ \A j, k \in 1..Len(asked) : asked[j] = asked[k] => j = k
    /\ \A k \in 1..Len(asked) : promise[asked[k]] # "unasked"
    /\ \A k \in 1..Len(asked) : k > Len(granted) => promise[asked[k]] = "pending"
    /\ \A i \in Isolates : pc[i] = "callback" =>
         /\ Len(granted) > 0 /\ req[i] = asked[Len(granted)] /\ req[i] \in Requests
         /\ promise[req[i]] = "pending" /\ cur[i] = serialized_value

MInv == TypeOK /\ TokenInv /\ LineInv /\ PromiseInv /\ NoLostUpdate

------------------------------------------------------------------------------
(* Append, Head and Tail of a typed sequence.                                *)
LEMMA SeqAppend ==
    ASSUME NEW S, NEW s \in Seq(S), NEW x \in S
    PROVE  /\ Append(s, x) \in Seq(S) /\ Append(s, x) # <<>> /\ Len(Append(s, x)) = Len(s) + 1
           /\ \A k \in 1..Len(s) : Append(s, x)[k] = s[k]
           /\ Append(s, x)[Len(s) + 1] = x /\ Len(s) \in Nat
  BY AppendProperties

LEMMA SeqTail ==
    ASSUME NEW S, NEW s \in Seq(S), s # <<>>
    PROVE  /\ Head(s) \in S /\ Head(s) = s[1] /\ Len(s) \in Nat \ {0}
           /\ Tail(s) \in Seq(S) /\ Len(Tail(s)) = Len(s) - 1
           /\ \A k \in 1..Len(Tail(s)) : Tail(s)[k] = s[k + 1]
  BY HeadTailProperties, EmptySeq

LEMMA SeqLen ==
    ASSUME NEW S, NEW s \in Seq(S)
    PROVE  Len(s) \in Nat /\ (s = <<>> <=> Len(s) = 0)
  BY EmptySeq

LEMMA Lengths ==
    ASSUME TypeOK
    PROVE  /\ Len(asked) \in Nat /\ Len(granted) \in Nat /\ Len(pending_locks) \in Nat
           /\ (pending_locks = <<>> <=> Len(pending_locks) = 0)
           /\ \A i \in Isolates : Len(inbox[i]) \in Nat /\ (inbox[i] = <<>> <=> Len(inbox[i]) = 0)
           /\ Flight \in {0, 1} /\ \A k \in 1..Len(asked) : asked[k] \in Requests
  BY SeqLen DEF TypeOK, Flight

(* The token and the line, as the run states them.                           *)
LEMMA TokenMutualExclusion == TypeOK /\ TokenInv => MutualExclusion
  BY DEF TokenInv, MutualExclusion, Busy, TypeOK

LEMMA LineFirstCome == TypeOK /\ LineInv => FirstComeFirstServed
  BY Lengths DEF LineInv, FirstComeFirstServed

------------------------------------------------------------------------------
(* The fast path of Lock: nobody else is in line.                            *)
LEMMA LockFast ==
    ASSUME MInv, NEW i \in Isolates, NEW r \in Requests, Lock(i, r), ~locked
    PROVE  MInv'
<1>1. /\ promise[r] = "unasked" /\ promise' = [promise EXCEPT ![r] = "pending"]
      /\ asked' = Append(asked, r) /\ pc[i] = "idle" /\ locked' = TRUE /\ RunCallback(i, r)
      /\ UNCHANGED <<pending_locks, serialized_value, to, inbox, seen>>
  BY DEF Lock, Taken
<1>2. /\ \A j \in Isolates : pc[j] = "idle" /\ inbox[j] = <<>>
      /\ pending_locks = <<>> /\ Flight = 0
  BY DEF MInv, TokenInv, Busy, Flight, InFlight
<1>3. /\ asked' \in Seq(Requests) /\ Len(asked') = Len(asked) + 1
      /\ \A k \in 1..Len(asked) : asked'[k] = asked[k]
      /\ asked'[Len(asked) + 1] = r
  BY <1>1, SeqAppend DEF MInv, TypeOK
<1>4. /\ granted' \in Seq(Requests) /\ Len(granted') = Len(granted) + 1
      /\ \A k \in 1..Len(granted) : granted'[k] = granted[k]
      /\ granted'[Len(granted) + 1] = r
  BY <1>1, SeqAppend DEF MInv, TypeOK, RunCallback
<1>5. /\ Len(asked) = Len(granted) /\ Len(asked) \in Nat /\ Len(pending_locks) = 0
      /\ \A k \in 1..Len(asked) : granted[k] = asked[k] /\ asked[k] \in Requests
                                  /\ promise[asked[k]] # "unasked"
  BY <1>2, Lengths DEF MInv, LineInv, PromiseInv
<1>6. TypeOK'
  BY <1>1, <1>3, <1>4 DEF MInv, TypeOK, RunCallback
<1>7. /\ \A j \in Isolates : pc'[j] = IF j = i THEN "callback" ELSE "idle"
      /\ \A j \in Isolates : inbox'[j] = <<>>
      /\ Flight' = 0
  <2>1. /\ \A j \in Isolates : pc'[j] = IF j = i THEN "callback" ELSE "idle"
        /\ \A j \in Isolates : inbox'[j] = <<>>
    BY <1>1, <1>2 DEF RunCallback, MInv, TypeOK
  <2> QED  BY <2>1 DEF Flight, InFlight
<1>8. TokenInv'
  BY <1>1, <1>7 DEF TokenInv, Busy
<1>9. LineInv'
  <2>1. \A k \in 1..Len(granted') : granted'[k] = asked'[k]
    BY <1>3, <1>4, <1>5
  <2> QED  BY <1>1, <1>3, <1>4, <1>5, <1>7, <2>1 DEF LineInv
<1>10. PromiseInv'
  <2>1. \A k \in 1..Len(asked) : asked[k] # r
    BY <1>1, <1>5
  <2>2. \A j, k \in 1..Len(asked') : asked'[j] = asked'[k] => j = k
    BY <1>3, <1>5, <2>1 DEF MInv, PromiseInv
  <2>3. \A k \in 1..Len(asked') : promise'[asked'[k]] # "unasked"
    BY <1>1, <1>3, <1>5, <2>1 DEF MInv, TypeOK
  <2>4. req'[i] = r /\ cur'[i] = serialized_value' /\ promise'[r] = "pending"
    BY <1>1 DEF RunCallback, MInv, TypeOK
  <2>5. Len(granted') = Len(asked') /\ Len(granted') > 0 /\ asked'[Len(granted')] = r
    BY <1>3, <1>4, <1>5
  <2> QED  BY <1>7, <2>2, <2>3, <2>4, <2>5 DEF PromiseInv
<1>11. NoLostUpdate'
  BY <1>1 DEF MInv, NoLostUpdate, TypeOK
<1> QED  BY <1>6, <1>8, <1>9, <1>10, <1>11 DEF MInv

(* The slow path of Lock: the request goes to the end of the line.           *)
LEMMA LockSlow ==
    ASSUME MInv, NEW i \in Isolates, NEW r \in Requests, Lock(i, r), locked
    PROVE  MInv'
<1>1. /\ promise[r] = "unasked" /\ promise' = [promise EXCEPT ![r] = "pending"]
      /\ asked' = Append(asked, r)
      /\ pending_locks' = Append(pending_locks, [req |-> r, isolate |-> i])
      /\ UNCHANGED <<locked, pc, req, cur, granted, serialized_value, to, inbox, seen>>
  BY DEF Lock
<1>2. /\ asked' \in Seq(Requests) /\ Len(asked') = Len(asked) + 1
      /\ \A k \in 1..Len(asked) : asked'[k] = asked[k]
      /\ asked'[Len(asked) + 1] = r
  BY <1>1, SeqAppend DEF MInv, TypeOK
<1>3. /\ pending_locks' \in Seq(Pending) /\ Len(pending_locks') = Len(pending_locks) + 1
      /\ \A k \in 1..Len(pending_locks) : pending_locks'[k] = pending_locks[k]
      /\ pending_locks'[Len(pending_locks) + 1].req = r
  <2>1. [req |-> r, isolate |-> i] \in Pending
    BY DEF Pending
  <2> QED  BY <1>1, <2>1, SeqAppend DEF MInv, TypeOK
<1>4. /\ Len(asked) \in Nat /\ Len(granted) \in Nat /\ Len(pending_locks) \in Nat
      /\ Flight \in {0, 1} /\ Flight' = Flight
      /\ Len(asked) = Len(granted) + Flight + Len(pending_locks)
      /\ \A k \in 1..Len(asked) : asked[k] \in Requests /\ promise[asked[k]] # "unasked"
  BY <1>1, Lengths DEF MInv, LineInv, PromiseInv, Flight, InFlight
<1>5. TypeOK'
  BY <1>1, <1>2, <1>3 DEF MInv, TypeOK
<1>6. TokenInv'
  BY <1>1 DEF MInv, TokenInv, Busy
<1>7. LineInv'
  <2>1. \A k \in 1..Len(granted') : granted'[k] = asked'[k]
    BY <1>1, <1>2, <1>4 DEF MInv, LineInv
  <2>2. \A k \in 1..Len(pending_locks') :
          pending_locks'[k].req = asked'[Len(granted') + Flight' + k]
    BY <1>1, <1>2, <1>3, <1>4 DEF MInv, LineInv
  <2>3. (\E j \in Isolates : InFlight(j)) => asked'[Len(granted) + 1] = asked[Len(granted) + 1]
    BY <1>2, <1>4 DEF Flight
  <2> QED  BY <1>1, <1>2, <1>3, <1>4, <2>1, <2>2, <2>3 DEF MInv, LineInv, InFlight
<1>8. PromiseInv'
  <2>1. \A k \in 1..Len(asked) : asked[k] # r
    BY <1>1, <1>4
  <2>2. \A j, k \in 1..Len(asked') : asked'[j] = asked'[k] => j = k
    BY <1>2, <1>4, <2>1 DEF MInv, PromiseInv
  <2>3. \A k \in 1..Len(asked') : /\ promise'[asked'[k]] # "unasked"
                                  /\ k > Len(granted) => promise'[asked'[k]] = "pending"
    BY <1>1, <1>2, <1>4, <2>1 DEF MInv, TypeOK, PromiseInv
  <2>4. \A j \in Isolates : pc[j] = "callback" =>
          /\ Len(granted) > 0 /\ req[j] = asked'[Len(granted)] /\ req[j] \in Requests
          /\ promise'[req[j]] = "pending" /\ cur[j] = serialized_value
    BY <1>1, <1>2, <1>4, <2>1 DEF MInv, TypeOK, PromiseInv
  <2> QED  BY <1>1, <2>2, <2>3, <2>4 DEF PromiseInv
<1>9. NoLostUpdate'
  BY <1>1 DEF MInv, NoLostUpdate, TypeOK
<1> QED  BY <1>5, <1>6, <1>7, <1>8, <1>9 DEF MInv

(* The value read is still current when the callback returns.                *)
LEMMA CommitStep ==
    ASSUME MInv, NEW i \in Isolates, Commit(i)
    PROVE  MInv'
<1>1. /\ pc[i] = "callback" /\ pc' = [pc EXCEPT ![i] = "release"]
      /\ UNCHANGED <<locked, pending_locks, req, cur, to, inbox, asked, granted, seen>>
  BY DEF Commit
<1>2. /\ Len(granted) > 0 /\ req[i] = asked[Len(granted)] /\ req[i] \in Requests
      /\ promise[req[i]] = "pending" /\ cur[i] = serialized_value
      /\ Len(granted) \in 1..Len(asked) /\ Len(asked) \in Nat /\ Len(granted) \in Nat
  BY <1>1, Lengths DEF MInv, PromiseInv, LineInv
<1>3. /\ \A j \in Isolates \ {i} : pc'[j] = pc[j] /\ pc[j] = "idle"
      /\ pc'[i] = "release"
  BY <1>1 DEF MInv, TypeOK, TokenInv, Busy
<1>4. \/ /\ serialized_value' = serialized_value \cup {req[i]}
         /\ promise' = [promise EXCEPT ![req[i]] = "resolved"]
      \/ /\ serialized_value' = serialized_value
         /\ promise' = [promise EXCEPT ![req[i]] = "rejected"]
  BY <1>2 DEF Commit
<1>5. TypeOK'
  BY <1>1, <1>2, <1>4 DEF MInv, TypeOK
<1>6. TokenInv'
  BY <1>1, <1>3 DEF MInv, TokenInv, Busy
<1>7. Flight' = Flight
  BY <1>1, <1>3 DEF Flight, InFlight
<1>8. LineInv'
  BY <1>1, <1>3, <1>7 DEF MInv, LineInv
<1>9. PromiseInv'
  <2>1. \A k \in 1..Len(asked) : k > Len(granted) => asked[k] # req[i]
    BY <1>2 DEF MInv, PromiseInv
  <2>2. \A k \in 1..Len(asked) : asked[k] \in Requests
    BY Lengths DEF MInv
  <2>3. \A k \in 1..Len(asked) : /\ promise'[asked[k]] # "unasked"
                                 /\ k > Len(granted) => promise'[asked[k]] = "pending"
    BY <1>2, <1>4, <2>1, <2>2 DEF MInv, TypeOK, PromiseInv
  <2>4. \A j \in Isolates : pc'[j] # "callback"
    BY <1>3
  <2> QED  BY <1>1, <2>3, <2>4 DEF MInv, PromiseInv
<1>10. NoLostUpdate'
  BY <1>2, <1>4 DEF MInv, TypeOK, NoLostUpdate
<1> QED  BY <1>5, <1>6, <1>8, <1>9, <1>10 DEF MInv

LEMMA ReleaseUnlocks ==
    ASSUME MInv, NEW i \in Isolates, ReleaseLock(i), pending_locks = <<>>
    PROVE  MInv'
<1>1. /\ pc[i] = "release" /\ pc' = [pc EXCEPT ![i] = "idle"] /\ locked' = FALSE
      /\ req' = [req EXCEPT ![i] = None] /\ cur' = [cur EXCEPT ![i] = {}]
      /\ UNCHANGED <<serialized_value, pending_locks, to, inbox, promise, asked, granted, seen>>
  BY DEF ReleaseLock
<1>2. /\ \A j \in Isolates \ {i} : pc[j] = "idle" /\ inbox[j] = <<>>
      /\ inbox[i] = <<>>
  BY <1>1 DEF MInv, TokenInv, Busy
<1>3. \A j \in Isolates : pc'[j] = "idle" /\ inbox'[j] = <<>> /\ pc[j] # "post"
  BY <1>1, <1>2 DEF MInv, TypeOK
<1>4. TypeOK'
  BY <1>1 DEF MInv, TypeOK
<1>5. TokenInv'
  BY <1>1, <1>3 DEF TokenInv, Busy
<1>6. Flight' = 0 /\ Flight = 0
  BY <1>1, <1>3 DEF Flight, InFlight
<1>7. LineInv'
  BY <1>1, <1>3, <1>6 DEF MInv, LineInv
<1>8. PromiseInv' /\ NoLostUpdate'
  BY <1>1, <1>3 DEF MInv, PromiseInv, NoLostUpdate
<1> QED  BY <1>4, <1>5, <1>7, <1>8 DEF MInv

(* The oldest queued request leaves the queue and is now in flight.          *)
LEMMA ReleaseHandsOver ==
    ASSUME MInv, NEW i \in Isolates, ReleaseLock(i), pending_locks # <<>>
    PROVE  MInv'
<1>1. /\ pc[i] = "release" /\ pc' = [pc EXCEPT ![i] = "post"]
      /\ to' = [to EXCEPT ![i] = Head(pending_locks)] /\ pending_locks' = Tail(pending_locks)
      /\ req' = [req EXCEPT ![i] = None] /\ cur' = [cur EXCEPT ![i] = {}]
      /\ UNCHANGED <<locked, serialized_value, inbox, promise, asked, granted, seen>>
  BY DEF ReleaseLock
<1>2. /\ Head(pending_locks) \in Pending /\ Head(pending_locks) = pending_locks[1]
      /\ Len(pending_locks) \in Nat \ {0}
      /\ Tail(pending_locks) \in Seq(Pending) /\ Len(Tail(pending_locks)) = Len(pending_locks) - 1
      /\ \A k \in 1..Len(Tail(pending_locks)) : Tail(pending_locks)[k] = pending_locks[k + 1]
  BY SeqTail DEF MInv, TypeOK
<1>3. /\ \A j \in Isolates \ {i} : pc[j] = "idle" /\ pc'[j] = "idle"
      /\ \A j \in Isolates : inbox[j] = <<>>
      /\ pc'[i] = "post"
  BY <1>1 DEF MInv, TypeOK, TokenInv, Busy
<1>4. TypeOK'
  BY <1>1, <1>2 DEF MInv, TypeOK
<1>5. TokenInv'
  BY <1>1, <1>3 DEF MInv, TokenInv, Busy
<1>6. Flight = 0 /\ Flight' = 1
  BY <1>1, <1>3 DEF Flight, InFlight
<1>7. LineInv'
  <2>1. /\ Len(asked) = Len(granted) + Len(pending_locks) /\ Len(granted) \in Nat
        /\ pending_locks[1].req = asked[Len(granted) + 1]
    BY <1>2, <1>6, Lengths DEF MInv, LineInv
  <2>2. Len(asked') = Len(granted') + Flight' + Len(pending_locks')
    BY <1>1, <1>2, <1>6, <2>1
  <2>3. \A k \in 1..Len(pending_locks') :
          pending_locks'[k].req = asked'[Len(granted') + Flight' + k]
    <3>1. SUFFICES ASSUME NEW k \in 1..Len(pending_locks')
                   PROVE  pending_locks'[k].req = asked'[Len(granted') + Flight' + k]
      OBVIOUS
    <3>2. pending_locks'[k] = pending_locks[k + 1] /\ k + 1 \in 1..Len(pending_locks)
      BY <1>1, <1>2
    <3>3. pending_locks[k + 1].req = asked[Len(granted) + Flight + (k + 1)]
      BY <3>2 DEF MInv, LineInv
    <3>4. Len(granted) + Flight + (k + 1) = Len(granted') + Flight' + k
      BY <1>1, <1>6, <2>1
    <3> QED  BY <1>1, <3>2, <3>3, <3>4
  <2>4. to'[i] \in Pending /\ to'[i].req = asked'[Len(granted') + 1]
    BY <1>1, <1>2, <2>1 DEF MInv, TypeOK
  <2> QED  BY <1>1, <1>3, <2>2, <2>3, <2>4 DEF MInv, LineInv
<1>8. PromiseInv' /\ NoLostUpdate'
  BY <1>1, <1>3 DEF MInv, PromiseInv, NoLostUpdate
<1> QED  BY <1>4, <1>5, <1>7, <1>8 DEF MInv

(* The token moves from the poster into the queue of the isolate that waits. *)
LEMMA PostTaskStep ==
    ASSUME MInv, NEW i \in Isolates, PostTask(i)
    PROVE  MInv'
<1> DEFINE d == to[i].isolate
<1>1. /\ pc[i] = "post" /\ pc' = [pc EXCEPT ![i] = "idle"]
      /\ inbox' = [inbox EXCEPT ![d] = Append(@, to[i].req)]
      /\ to' = [to EXCEPT ![i] = NoPending]
      /\ UNCHANGED <<serialized_value, locked, pending_locks, req, cur, promise, asked, granted, seen>>
  BY DEF PostTask
<1>2. to[i] \in Pending /\ to[i].req = asked[Len(granted) + 1]
  BY <1>1 DEF MInv, LineInv
<1>3. d \in Isolates /\ to[i].req \in Requests
  BY <1>2 DEF Pending
<1>4. /\ \A j \in Isolates \ {i} : pc[j] = "idle"
      /\ \A j \in Isolates : inbox[j] = <<>> /\ pc'[j] = "idle"
  BY <1>1 DEF MInv, TypeOK, TokenInv, Busy
<1> HIDE DEF d
<1>5. /\ inbox'[d] \in Seq(Requests) /\ Len(inbox'[d]) = 1 /\ inbox'[d] # <<>>
      /\ Head(inbox'[d]) = to[i].req
      /\ \A j \in Isolates \ {d} : inbox'[j] = <<>>
      /\ inbox' \in [Isolates -> Seq(Requests)]
  <2>1. inbox \in [Isolates -> Seq(Requests)] /\ inbox[d] = <<>> /\ <<>> \in Seq(Requests)
    BY <1>3, <1>4, EmptySeq DEF MInv, TypeOK
  <2>2. /\ Append(<<>>, to[i].req) \in Seq(Requests) /\ Len(Append(<<>>, to[i].req)) = 1
        /\ Append(<<>>, to[i].req) # <<>> /\ Append(<<>>, to[i].req)[1] = to[i].req
    BY <1>3, <2>1
  <2>3. inbox'[d] = Append(<<>>, to[i].req)
    BY <1>1, <1>3, <2>1
  <2>4. Head(inbox'[d]) = inbox'[d][1]
    BY <2>2, <2>3, SeqTail
  <2> QED  BY <1>1, <1>3, <1>4, <2>1, <2>2, <2>3, <2>4
<1>6. TypeOK'
  BY <1>1, <1>5 DEF MInv, TypeOK
<1>7. TokenInv'
  BY <1>1, <1>3, <1>4, <1>5 DEF MInv, TokenInv, Busy
<1>8. Flight = 1 /\ Flight' = 1
  BY <1>1, <1>3, <1>5 DEF Flight, InFlight
<1>9. LineInv'
  BY <1>1, <1>2, <1>3, <1>4, <1>5, <1>8 DEF MInv, LineInv
<1>10. PromiseInv' /\ NoLostUpdate'
  BY <1>1, <1>4 DEF MInv, PromiseInv, NoLostUpdate
<1> QED  BY <1>6, <1>7, <1>9, <1>10 DEF MInv

(* The request in flight arrives and is granted.                             *)
LEMMA RunInternalStep ==
    ASSUME MInv, NEW i \in Isolates, RunInternal(i)
    PROVE  MInv'
<1> DEFINE r == Head(inbox[i])
<1>1. /\ pc[i] = "idle" /\ inbox[i] # <<>> /\ inbox' = [inbox EXCEPT ![i] = Tail(@)]
      /\ RunCallback(i, r)
      /\ UNCHANGED <<serialized_value, locked, pending_locks, to, promise, asked, seen>>
  BY DEF RunInternal
<1>2. r \in Requests /\ r = asked[Len(granted) + 1]
      /\ Tail(inbox[i]) = <<>> /\ Tail(inbox[i]) \in Seq(Requests)
  <2>1. inbox[i] \in Seq(Requests) /\ Len(inbox[i]) = 1
    BY <1>1 DEF MInv, TypeOK, TokenInv
  <2>2. Tail(inbox[i]) \in Seq(Requests) /\ Len(Tail(inbox[i])) = 0 /\ r \in Requests
    BY <1>1, <2>1, SeqTail
  <2> QED  BY <1>1, <2>2, SeqLen DEF MInv, LineInv
<1>3. \A j \in Isolates : pc[j] = "idle" /\ (j # i => inbox[j] = <<>>)
  BY <1>1 DEF MInv, TokenInv, Busy
<1> HIDE DEF r
<1>4. /\ granted' \in Seq(Requests) /\ Len(granted') = Len(granted) + 1
      /\ \A k \in 1..Len(granted) : granted'[k] = granted[k]
      /\ granted'[Len(granted) + 1] = r
  BY <1>1, <1>2, SeqAppend DEF MInv, TypeOK, RunCallback
<1>5. /\ \A j \in Isolates : pc'[j] = IF j = i THEN "callback" ELSE "idle"
      /\ \A j \in Isolates : inbox'[j] = <<>>
      /\ req'[i] = r /\ cur'[i] = serialized_value
  BY <1>1, <1>2, <1>3 DEF MInv, TypeOK, RunCallback
<1>6. TypeOK'
  BY <1>1, <1>2, <1>4 DEF MInv, TypeOK, RunCallback
<1>7. TokenInv'
  BY <1>1, <1>5 DEF MInv, TokenInv, Busy
<1>8. Flight = 1 /\ Flight' = 0
  BY <1>1, <1>5 DEF Flight, InFlight
<1>9. /\ Len(asked) = Len(granted) + 1 + Len(pending_locks)
      /\ Len(asked) \in Nat /\ Len(granted) \in Nat /\ Len(pending_locks) \in Nat
  BY <1>8, Lengths DEF MInv, LineInv
<1>10. LineInv'
  <2>1. \A k \in 1..Len(granted') : granted'[k] = asked'[k]
    BY <1>1, <1>2, <1>4, <1>9 DEF MInv, LineInv
  <2>2. \A k \in 1..Len(pending_locks') :
          pending_locks'[k].req = asked'[Len(granted') + Flight' + k]
    <3>1. SUFFICES ASSUME NEW k \in 1..Len(pending_locks)
                   PROVE  pending_locks[k].req = asked[Len(granted') + Flight' + k]
      BY <1>1
    <3>2. pending_locks[k].req = asked[Len(granted) + Flight + k]
      BY DEF MInv, LineInv
    <3>3. Len(granted) + Flight + k = Len(granted') + Flight' + k
      BY <1>4, <1>8, <1>9
    <3> QED  BY <3>2, <3>3
  <2> QED  BY <1>1, <1>4, <1>5, <1>8, <1>9, <2>1, <2>2 DEF LineInv
<1>11. PromiseInv'
  <2>1. Len(granted') \in 1..Len(asked) /\ promise[r] = "pending"
    BY <1>2, <1>4, <1>9 DEF MInv, PromiseInv
  <2>2. \A k \in 1..Len(asked) : k > Len(granted') => promise[asked[k]] = "pending"
    BY <1>4, <1>9 DEF MInv, PromiseInv
  <2> QED  BY <1>1, <1>2, <1>4, <1>5, <1>9, <2>1, <2>2 DEF MInv, PromiseInv
<1>12. NoLostUpdate'
  BY <1>1 DEF MInv, NoLostUpdate
<1> QED  BY <1>6, <1>7, <1>10, <1>11, <1>12 DEF MInv

LEMMA QuietStep ==
    ASSUME MInv, seen' \in [Isolates -> SUBSET Requests],
           UNCHANGED <<serialized_value, locked, pending_locks, locals, inbox, promise, asked, granted>>
    PROVE  MInv'
<1>1. UNCHANGED <<pc, req, cur, to>>
  BY DEF locals
<1>2. Flight' = Flight
  BY <1>1 DEF Flight, InFlight
<1>3. TypeOK' /\ TokenInv'
  BY <1>1 DEF MInv, TypeOK, TokenInv, Busy
<1>4. LineInv' /\ PromiseInv' /\ NoLostUpdate'
  BY <1>1, <1>2 DEF MInv, LineInv, PromiseInv, NoLostUpdate
<1> QED  BY <1>3, <1>4 DEF MInv

------------------------------------------------------------------------------
LEMMA InitMInv == Init => MInv
<1> SUFFICES ASSUME Init PROVE MInv
  OBVIOUS
<1>1. TypeOK
  BY EmptySeq DEF Init, TypeOK
<1>2. TokenInv
  BY DEF Init, TokenInv, Busy
<1>3. Flight = 0 /\ Len(asked) = 0 /\ Len(granted) = 0 /\ Len(pending_locks) = 0
  BY EmptySeq DEF Init, Flight, InFlight
<1>4. LineInv /\ PromiseInv
  BY <1>3 DEF Init, LineInv, PromiseInv
<1>5. NoLostUpdate
  BY DEF Init, NoLostUpdate
<1> QED  BY <1>1, <1>2, <1>4, <1>5 DEF MInv

LEMMA NextMInv == MInv /\ [Next]_vars => MInv'
<1> SUFFICES ASSUME MInv, [Next]_vars PROVE MInv'
  OBVIOUS
<1>1. ASSUME NEW i \in Isolates, NEW r \in Requests, Lock(i, r) PROVE MInv'
  BY <1>1, LockFast, LockSlow
<1>2. ASSUME NEW i \in Isolates, IsolateStep(i) PROVE MInv'
  BY <1>2, CommitStep, ReleaseUnlocks, ReleaseHandsOver, PostTaskStep, RunInternalStep
     DEF IsolateStep
<1>3. ASSUME NEW i \in Isolates, Value(i) PROVE MInv'
  <2>1. seen' \in [Isolates -> SUBSET Requests]
    BY <1>3 DEF Value, MInv, TypeOK
  <2> QED  BY <1>3, <2>1, QuietStep DEF Value
<1>4. CASE UNCHANGED vars
  <2>1. seen' \in [Isolates -> SUBSET Requests]
    BY <1>4 DEF vars, MInv, TypeOK
  <2> QED  BY <1>4, <2>1, QuietStep DEF vars
<1> QED  BY <1>1, <1>2, <1>3, <1>4 DEF Next

(* The inductive invariant of the asynchronous mutex.                        *)
THEOREM MutexInvariant == Spec => []MInv
  BY InitMInv, NextMInv, PTL DEF Spec

(* At most one callback runs at a time, also while the mutex travels from    *)
(* one isolate to the next.                                                  *)
THEOREM MutualExclusionHolds == Spec => []MutualExclusion
<1>1. MInv => MutualExclusion
  BY TokenMutualExclusion DEF MInv
<1> QED  BY <1>1, MutexInvariant, PTL

(* The stored value contains exactly the updates that were acknowledged.     *)
THEOREM NoLostUpdateHolds == Spec => []NoLostUpdate
<1>1. MInv => NoLostUpdate
  BY DEF MInv
<1> QED  BY <1>1, MutexInvariant, PTL

(* Callbacks run in the order of the calls of lock.                          *)
THEOREM FirstComeHolds == Spec => []FirstComeFirstServed
<1>1. MInv => FirstComeFirstServed
  BY LineFirstCome DEF MInv
<1> QED  BY <1>1, MutexInvariant, PTL

(* Every isolate has the request and the value that its step needs.          *)
THEOREM TypeCorrect == Spec => []TypeOK
<1>1. MInv => TypeOK
  BY DEF MInv
<1> QED  BY <1>1, MutexInvariant, PTL

------------------------------------------------------------------------------
(* What an isolate has read is part of the value: the value only grows,      *)
(* because Commit adds to a copy that nobody has overwritten since.          *)
SeenInv == \A i \in Isolates : seen[i] \subseteq serialized_value

LEMMA ValueGrows ==
    ASSUME MInv, [Next]_vars
    PROVE  serialized_value \subseteq serialized_value'
<1>1. ASSUME NEW i \in Isolates, Commit(i)
      PROVE  serialized_value \subseteq serialized_value'
  <2>1. cur[i] = serialized_value
    BY <1>1 DEF Commit, MInv, PromiseInv
  <2> QED  BY <1>1, <2>1 DEF Commit
<1>2. ASSUME NEW i \in Isolates, NEW r \in Requests, Lock(i, r)
      PROVE  serialized_value' = serialized_value
  BY <1>2 DEF Lock
<1>3. ASSUME NEW i \in Isolates, ReleaseLock(i) \/ PostTask(i) \/ RunInternal(i) \/ Value(i)
      PROVE  serialized_value' = serialized_value
  BY <1>3 DEF ReleaseLock, PostTask, RunInternal, Value
<1>4. CASE UNCHANGED vars
  BY <1>4 DEF vars
<1> QED  BY <1>1, <1>2, <1>3, <1>4 DEF Next, IsolateStep

(* Only Value changes what an isolate has read.                              *)
LEMMA SeenStep ==
    ASSUME [Next]_vars
    PROVE  UNCHANGED seen \/ \E i \in Isolates : seen' = [seen EXCEPT ![i] = serialized_value]
<1>1. ASSUME NEW i \in Isolates, NEW r \in Requests, Lock(i, r)
      PROVE  UNCHANGED seen
  BY <1>1 DEF Lock
<1>2. ASSUME NEW i \in Isolates, IsolateStep(i)
      PROVE  UNCHANGED seen
  BY <1>2 DEF IsolateStep, Commit, ReleaseLock, PostTask, RunInternal
<1>3. ASSUME NEW i \in Isolates, Value(i)
      PROVE  seen' = [seen EXCEPT ![i] = serialized_value]
  BY <1>3 DEF Value
<1>4. CASE UNCHANGED vars
  BY <1>4 DEF vars
<1> QED  BY <1>1, <1>2, <1>3, <1>4 DEF Next

LEMMA NextSeenInv == MInv /\ SeenInv /\ [Next]_vars => SeenInv'
<1> SUFFICES ASSUME MInv, SeenInv, [Next]_vars PROVE SeenInv'
  OBVIOUS
<1>1. serialized_value \subseteq serialized_value'
  BY ValueGrows
<1>2. seen \in [Isolates -> SUBSET Requests]
  BY DEF MInv, TypeOK
<1> QED  BY <1>1, <1>2, SeenStep DEF SeenInv

LEMMA ReadsStep ==
    MInv /\ SeenInv /\ [Next]_vars =>
      [\A i \in Isolates : seen[i] \subseteq seen'[i] /\
         \A r \in seen'[i] : promise[r] = "resolved"]_seen
<1> SUFFICES ASSUME MInv, SeenInv, [Next]_vars, seen' # seen, NEW i \in Isolates
             PROVE  seen[i] \subseteq seen'[i] /\ \A r \in seen'[i] : promise[r] = "resolved"
  OBVIOUS
<1>1. seen \in [Isolates -> SUBSET Requests] /\ serialized_value = {r \in Requests : promise[r] = "resolved"}
  BY DEF MInv, TypeOK, NoLostUpdate
<1>2. seen'[i] = seen[i] \/ seen'[i] = serialized_value
  BY <1>1, SeenStep
<1> QED  BY <1>1, <1>2 DEF SeenInv

(* A read of the value without the lock never goes back, and shows only      *)
(* updates that were acknowledged before it.                                 *)
THEOREM ReadsAreCommitted == Spec => ReadsCommitted
<1>1. Init => SeenInv
  BY DEF Init, SeenInv
<1> QED  BY <1>1, MutexInvariant, NextSeenInv, ReadsStep, PTL DEF Spec, ReadsCommitted
==============================================================================
