---------------------------- MODULE ChannelProofs ----------------------------
(* Channel for any capacity and any number of messages, requests and         *)
(* isolates: back-pressure, the waiting discipline, and that it implements   *)
(* FifoChannel.                                                              *)
EXTENDS Channel, TLAPS, SequenceTheorems

Inv == TypeOK /\ BackPressure /\ NobodyWaitsInVain

(* Tail, Head and Append of a typed sequence.                                *)
LEMMA SeqFacts ==
    ASSUME NEW S, NEW s \in Seq(S)
    PROVE  /\ \A x \in S : Append(s, x) \in Seq(S) /\ Append(s, x) # <<>>
                           /\ Len(Append(s, x)) = Len(s) + 1
           /\ s # <<>> => Head(s) \in S /\ Tail(s) \in Seq(S) /\ Len(Tail(s)) = Len(s) - 1
           /\ Len(s) \in Nat /\ (s = <<>> <=> Len(s) = 0)
  BY AppendProperties, HeadTailProperties, EmptySeq

(* The part of TypeOK that Enter changes.                                    *)
CallOK ==
    /\ pc \in [Isolates -> {"idle", "send", "post", "closing", "moved"}]
    /\ DOMAIN call = Isolates
    /\ \A i \in Isolates :
         /\ pc[i] \in {"idle", "closing"} => call[i] = NoCall
         /\ pc[i] = "send" => call[i] \in [kind : {"send"}, msg : Messages]
         /\ pc[i] = "post" => call[i] \in [kind : {"post"}, msg : Messages, to : Receivers]
         /\ pc[i] = "moved" =>
              call[i] \in [kind : {"moved"}, req : Requests, msg : Messages, to : Senders]

LEMMA EnterOK ==
    ASSUME CallOK, NEW i \in Isolates, NEW label, NEW locals, Enter(i, label, locals),
           \/ label = "idle" /\ locals = NoCall
           \/ label = "send" /\ locals \in [kind : {"send"}, msg : Messages]
           \/ label = "post" /\ locals \in [kind : {"post"}, msg : Messages, to : Receivers]
           \/ label = "moved" /\ locals \in [kind : {"moved"}, req : Requests, msg : Messages,
                                             to : Senders]
    PROVE  CallOK'
<1>1. /\ pc'[i] = label /\ call'[i] = locals
      /\ \A j \in Isolates \ {i} : pc'[j] = pc[j] /\ call'[j] = call[j]
      /\ DOMAIN call' = Isolates
  BY DEF CallOK, Enter
<1>2. pc' \in [Isolates -> {"idle", "send", "post", "closing", "moved"}]
  BY DEF CallOK, Enter
<1>3. ASSUME NEW j \in Isolates
      PROVE  /\ pc'[j] \in {"idle", "closing"} => call'[j] = NoCall
             /\ pc'[j] = "send" => call'[j] \in [kind : {"send"}, msg : Messages]
             /\ pc'[j] = "post" => call'[j] \in [kind : {"post"}, msg : Messages, to : Receivers]
             /\ pc'[j] = "moved" =>
                  call'[j] \in [kind : {"moved"}, req : Requests, msg : Messages, to : Senders]
  <2>1. CASE j = i
    BY <1>1, <2>1
  <2>2. CASE j # i
    BY <1>1, <2>2 DEF CallOK
  <2> QED  BY <2>1, <2>2
<1> QED  BY <1>1, <1>2, <1>3 DEF CallOK

LEMMA LeaveOK ==
    ASSUME CallOK, NEW i \in Isolates, Leave(i)
    PROVE  CallOK'
  BY EnterOK DEF Leave

(* A task posted to an isolate keeps the queues typed.                       *)
LEMMA PostOK ==
    ASSUME TypeOK, NEW i \in Isolates, NEW task \in Tasks, Post(i, task)
    PROVE  inbox' \in [Isolates -> Seq(Tasks)]
<1>1. inbox \in [Isolates -> Seq(Tasks)] /\ inbox[i] \in Seq(Tasks)
  BY DEF TypeOK
<1>2. Append(inbox[i], task) \in Seq(Tasks)
  BY <1>1, SeqFacts
<1> QED  BY <1>1, <1>2 DEF Post

------------------------------------------------------------------------------
(* Inv speaks of the locals only through CallOK.                             *)
DataOK ==
    /\ messages \in Seq(Messages) /\ closed \in BOOLEAN
    /\ pending_receivers \in Seq(Receivers) /\ pending_senders \in Seq(Senders)
    /\ inbox \in [Isolates -> Seq(Tasks)]
    /\ sent \in [Messages -> {"unsent", "threw", "sending", "pending", "resolved"}]
    /\ result \in [Requests -> Messages \cup {Unasked, Waiting, Done, Failed}]

LEMMA TypeSplit == TypeOK <=> DataOK /\ CallOK
  BY DEF TypeOK, DataOK, CallOK

LEMMA TypeSplitNext == TypeOK' <=> DataOK' /\ CallOK'
  BY DEF TypeOK, DataOK, CallOK

(* A step of an isolate that neither locks nor unlocks in a loop.            *)
LEMMA SameMutex ==
    ASSUME CallOK, NEW i \in Isolates, NEW label, NEW locals, Enter(i, label, locals),
           pc[i] # "closing", label # "closing"
    PROVE  (\A j \in Isolates : pc'[j] = "closing" <=> pc[j] = "closing") /\ MutexFree' = MutexFree
<1>1. \A j \in Isolates : pc'[j] = "closing" <=> pc[j] = "closing"
  BY DEF CallOK, Enter
<1> QED  BY <1>1 DEF MutexFree

(* NobodyWaitsInVain survives a step that keeps the queues and the mutex.    *)
LEMMA SameQueues ==
    ASSUME BackPressure, NobodyWaitsInVain, UNCHANGED state, MutexFree' = MutexFree,
           \A j \in Isolates : pc'[j] = "closing" <=> pc[j] = "closing"
    PROVE  BackPressure' /\ NobodyWaitsInVain'
<1>1. UNCHANGED <<messages, pending_receivers, pending_senders, closed>>
  BY DEF state
<1> QED  BY <1>1 DEF BackPressure, NobodyWaitsInVain, Full

LEMMA SendInv ==
    ASSUME Inv, NEW i \in Isolates, NEW m \in Messages, Send(i, m)
    PROVE  Inv'
<1>1. DataOK /\ CallOK
  BY TypeSplit DEF Inv
<1>2. DataOK'
  BY <1>1, Zenon DEF DataOK, Send, state
<1>3. CASE UNCHANGED <<pc, call>>
  <2>1. CallOK' /\ BackPressure' /\ NobodyWaitsInVain'
    BY <1>1, <1>3, SameQueues DEF CallOK, Inv, Send, MutexFree
  <2> QED  BY <1>2, <2>1, TypeSplitNext DEF Inv
<1>4. CASE Enter(i, "send", [kind |-> "send", msg |-> m])
  <2>1. CallOK'
    BY <1>1, <1>4, EnterOK
  <2>2. BackPressure' /\ NobodyWaitsInVain'
    BY <1>1, <1>4, SameMutex, SameQueues DEF Inv, Send
  <2> QED  BY <1>2, <2>1, <2>2, TypeSplitNext DEF Inv
<1> QED  BY <1>3, <1>4 DEF Send

LEMMA SendLockedInv ==
    ASSUME Inv, NEW i \in Isolates, SendLocked(i)
    PROVE  Inv'
<1> DEFINE m == call[i].msg
<1>1. DataOK /\ CallOK /\ m \in Messages /\ pc[i] = "send" /\ MutexFree
  BY TypeSplit DEF Inv, CallOK, SendLocked
<1>2. UNCHANGED <<closed, inbox, result>>
  BY DEF SendLocked
<1>3. CASE /\ pending_receivers # <<>>
           /\ Enter(i, "post", [kind |-> "post", msg |-> m, to |-> Head(pending_receivers)])
           /\ pending_receivers' = Tail(pending_receivers)
           /\ UNCHANGED <<messages, pending_senders, sent>>
  <2>1. Head(pending_receivers) \in Receivers /\ Tail(pending_receivers) \in Seq(Receivers)
    BY <1>1, <1>3, SeqFacts DEF DataOK
  <2>2. DataOK'
    BY <1>1, <1>2, <1>3, <2>1 DEF DataOK
  <2>3. CallOK'
    BY <1>1, <1>3, <2>1, EnterOK
  <2>4. MutexFree' /\ \A j \in Isolates : pc'[j] # "closing"
    BY <1>1, <1>3, SameMutex DEF MutexFree
  <2>5. BackPressure' /\ NobodyWaitsInVain'
    BY <1>1, <1>2, <1>3, <2>4 DEF Inv, BackPressure, NobodyWaitsInVain, Full
  <2> QED  BY <2>2, <2>3, <2>5, TypeSplitNext DEF Inv
<1>4. CASE /\ pending_receivers = <<>> /\ Full
           /\ pending_senders' = Append(pending_senders, [msg |-> m, isolate |-> i])
           /\ sent' = [sent EXCEPT ![m] = "pending"]
           /\ Leave(i)
           /\ UNCHANGED <<messages, pending_receivers>>
  <2>1. pending_senders' \in Seq(Senders)
    BY <1>1, <1>4, SeqFacts DEF DataOK, Senders
  <2>2. DataOK'
    BY <1>1, <1>2, <1>4, <2>1 DEF DataOK
  <2>3. CallOK'
    BY <1>1, <1>4, LeaveOK
  <2>4. MutexFree' /\ \A j \in Isolates : pc'[j] # "closing"
    BY <1>1, <1>4, SameMutex DEF MutexFree, Leave
  <2>5. BackPressure' /\ NobodyWaitsInVain'
    BY <1>1, <1>2, <1>4, <2>4 DEF Inv, BackPressure, NobodyWaitsInVain, Full
  <2> QED  BY <2>2, <2>3, <2>5, TypeSplitNext DEF Inv
<1>5. CASE /\ pending_receivers = <<>> /\ ~Full
           /\ messages' = Append(messages, m)
           /\ sent' = [sent EXCEPT ![m] = "resolved"]
           /\ Leave(i)
           /\ UNCHANGED <<pending_receivers, pending_senders>>
  <2>1. messages' \in Seq(Messages) /\ Len(messages') = Len(messages) + 1 /\ Len(messages) \in Nat
    BY <1>1, <1>5, SeqFacts DEF DataOK
  <2>2. DataOK'
    BY <1>1, <1>2, <1>5, <2>1 DEF DataOK
  <2>3. CallOK'
    BY <1>1, <1>5, LeaveOK
  <2>4. MutexFree' /\ \A j \in Isolates : pc'[j] # "closing"
    BY <1>1, <1>5, SameMutex DEF MutexFree, Leave
  <2>5. pending_senders = <<>> /\ (Capacity > 0 => Len(messages) < Capacity)
    BY <1>5, <2>1, ChannelAssumption DEF Inv, BackPressure, Full
  <2>6. BackPressure' /\ NobodyWaitsInVain'
    BY <1>5, <2>1, <2>4, <2>5, ChannelAssumption DEF BackPressure, NobodyWaitsInVain
  <2> QED  BY <2>2, <2>3, <2>6, TypeSplitNext DEF Inv
<1> QED  BY <1>3, <1>4, <1>5 DEF SendLocked

LEMMA SendPostInv ==
    ASSUME Inv, NEW i \in Isolates, SendPost(i)
    PROVE  Inv'
<1> DEFINE c == call[i]
           task == [kind |-> "value", req |-> c.to.req, msg |-> c.msg]
<1>1. DataOK /\ CallOK /\ c.msg \in Messages /\ c.to \in Receivers /\ pc[i] = "post"
  BY TypeSplit DEF Inv, CallOK, SendPost
<1>2. c.to.isolate \in Isolates /\ c.to.req \in Requests /\ task \in Tasks
  BY <1>1 DEF Receivers, Tasks
<1>3. /\ Post(c.to.isolate, task) /\ Leave(i) /\ UNCHANGED <<state, result>>
      /\ sent' = [sent EXCEPT ![c.msg] = "resolved"]
  BY DEF SendPost
<1> HIDE DEF task, c
<1>4. inbox' \in [Isolates -> Seq(Tasks)]
  BY <1>2, <1>3, PostOK DEF Inv
<1>5. DataOK'
  BY <1>1, <1>3, <1>4 DEF DataOK, state
<1>6. CallOK' /\ BackPressure' /\ NobodyWaitsInVain'
  BY <1>1, <1>3, LeaveOK, SameMutex, SameQueues DEF Inv, Leave
<1> QED  BY <1>5, <1>6, TypeSplitNext DEF Inv

(* Close takes the mutex and keeps it while somebody waits.                  *)
LEMMA CloseInv ==
    ASSUME Inv, NEW i \in Isolates, Close(i)
    PROVE  Inv'
<1>1. DataOK /\ CallOK /\ pc[i] = "idle" /\ MutexFree
  BY TypeSplit DEF Inv, Close
<1>2. UNCHANGED <<messages, pending_receivers, pending_senders, call, inbox, sent, result>>
      /\ closed' = TRUE
  BY DEF Close
<1>3. DataOK'
  BY <1>1, <1>2 DEF DataOK
<1>4. /\ pc' \in [Isolates -> {"idle", "send", "post", "closing", "moved"}]
      /\ \A j \in Isolates \ {i} : pc'[j] = pc[j]
      /\ pc'[i] = IF pending_receivers = <<>> THEN "idle" ELSE "closing"
  BY <1>1 DEF CallOK, Close
<1>5. CallOK'
  BY <1>1, <1>2, <1>4 DEF CallOK
<1>6. \A j \in Isolates : pc'[j] = "closing" <=> j = i /\ pending_receivers # <<>>
  BY <1>1, <1>4 DEF MutexFree
<1>7. MutexFree' <=> pending_receivers = <<>>
  BY <1>6 DEF MutexFree
<1>8. BackPressure' /\ NobodyWaitsInVain'
  BY <1>2, <1>6, <1>7 DEF Inv, BackPressure, NobodyWaitsInVain, Full
<1> QED  BY <1>3, <1>5, <1>8, TypeSplitNext DEF Inv

LEMMA CloseNextInv ==
    ASSUME Inv, NEW i \in Isolates, CloseNext(i)
    PROVE  Inv'
<1> DEFINE p == Head(pending_receivers)
           task == [kind |-> "close", req |-> p.req]
<1>1. DataOK /\ CallOK /\ pc[i] = "closing" /\ ~MutexFree
  BY TypeSplit DEF Inv, CloseNext, MutexFree
<1>2. pending_receivers # <<>> /\ closed /\ messages = <<>> /\ pending_senders = <<>>
      /\ \A j \in Isolates \ {i} : pc[j] # "closing"
  BY <1>1 DEF Inv, NobodyWaitsInVain
<1>3. p \in Receivers /\ Tail(pending_receivers) \in Seq(Receivers)
  BY <1>1, <1>2, SeqFacts DEF DataOK
<1>4. p.isolate \in Isolates /\ task \in Tasks
  BY <1>3 DEF Receivers, Tasks
<1>5. /\ Post(p.isolate, task) /\ pending_receivers' = Tail(pending_receivers)
      /\ UNCHANGED <<messages, pending_senders, closed, call, sent, result>>
  BY DEF CloseNext
<1> HIDE DEF task, p
<1>6. inbox' \in [Isolates -> Seq(Tasks)]
  BY <1>4, <1>5, PostOK DEF Inv
<1>7. DataOK'
  BY <1>1, <1>3, <1>5, <1>6 DEF DataOK
<1>8. /\ pc' \in [Isolates -> {"idle", "send", "post", "closing", "moved"}]
      /\ \A j \in Isolates \ {i} : pc'[j] = pc[j]
      /\ pc'[i] = IF pending_receivers' = <<>> THEN "idle" ELSE "closing"
  BY <1>1, <1>5 DEF CallOK, CloseNext
<1>9. CallOK'
  BY <1>1, <1>5, <1>8 DEF CallOK
<1>10. \A j \in Isolates : pc'[j] = "closing" <=> j = i /\ pending_receivers' # <<>>
  BY <1>2, <1>8
<1>11. MutexFree' <=> pending_receivers' = <<>>
  BY <1>10 DEF MutexFree
<1>12. BackPressure' /\ NobodyWaitsInVain'
  BY <1>2, <1>5, <1>10, <1>11 DEF Inv, BackPressure, NobodyWaitsInVain, Full
<1> QED  BY <1>7, <1>9, <1>12, TypeSplitNext DEF Inv

(* The answer to a request is well typed.                                    *)
LEMMA DecodedType ==
    ASSUME NEW m \in Messages
    PROVE  Decoded(m) \in Messages \cup {Unasked, Waiting, Done, Failed}
  BY DEF Decoded

LEMMA ResultType ==
    ASSUME DataOK, NEW r \in Requests, NEW v \in Messages \cup {Unasked, Waiting, Done, Failed}
    PROVE  [result EXCEPT ![r] = v] \in [Requests -> Messages \cup {Unasked, Waiting, Done, Failed}]
  BY DEF DataOK

LEMMA RecvInv ==
    ASSUME Inv, NEW i \in Isolates, NEW r \in Requests, Recv(i, r)
    PROVE  Inv'
<1>1. DataOK /\ CallOK /\ pc[i] = "idle" /\ MutexFree
  BY TypeSplit DEF Inv, Recv
<1>2. UNCHANGED <<closed, inbox, sent>>
  BY DEF Recv
<1>3. messages # <<>> =>
        /\ Head(messages) \in Messages /\ Tail(messages) \in Seq(Messages)
        /\ Len(Tail(messages)) = Len(messages) - 1 /\ Len(messages) \in Nat
  BY <1>1, SeqFacts DEF DataOK
<1>4. CASE /\ Exhausted
           /\ result' = [result EXCEPT ![r] = Done]
           /\ UNCHANGED <<messages, pending_receivers, pending_senders, pc, call>>
  <2>1. DataOK' /\ CallOK'
    BY <1>1, <1>2, <1>4, ResultType DEF DataOK, CallOK
  <2>2. BackPressure' /\ NobodyWaitsInVain'
    BY <1>2, <1>4, SameQueues DEF Inv, state, MutexFree
  <2> QED  BY <2>1, <2>2, TypeSplitNext DEF Inv
<1>5. CASE /\ messages # <<>> /\ pending_senders = <<>>
           /\ messages' = Tail(messages)
           /\ result' = [result EXCEPT ![r] = Decoded(Head(messages))]
           /\ UNCHANGED <<pending_receivers, pending_senders, pc, call>>
  <2>1. result' \in [Requests -> Messages \cup {Unasked, Waiting, Done, Failed}]
    BY <1>1, <1>3, <1>5, DecodedType, ResultType
  <2>2. DataOK' /\ CallOK'
    BY <1>1, <1>2, <1>3, <1>5, <2>1 DEF DataOK, CallOK
  <2>3. BackPressure'
    BY <1>3, <1>5, ChannelAssumption DEF Inv, BackPressure
  <2>4. NobodyWaitsInVain'
    BY <1>2, <1>5 DEF Inv, NobodyWaitsInVain, MutexFree
  <2> QED  BY <2>2, <2>3, <2>4, TypeSplitNext DEF Inv
<1>6. CASE /\ messages # <<>> /\ pending_senders # <<>>
           /\ messages' = Refilled(Tail(messages))
           /\ pending_senders' = Tail(pending_senders)
           /\ result' = [result EXCEPT ![r] = Waiting]
           /\ Enter(i, "moved", [kind |-> "moved", req |-> r, msg |-> Head(messages),
                                 to |-> Head(pending_senders)])
           /\ UNCHANGED pending_receivers
  <2>1. Head(pending_senders) \in Senders /\ Tail(pending_senders) \in Seq(Senders)
    BY <1>1, <1>6, SeqFacts DEF DataOK
  <2>2. Head(pending_senders).msg \in Messages
    BY <2>1 DEF Senders
  <2>3. messages' \in Seq(Messages) /\ Len(messages') = Len(messages)
    BY <1>3, <1>6, <2>2, SeqFacts DEF Refilled
  <2>4. DataOK'
    BY <1>1, <1>2, <1>6, <2>1, <2>3, ResultType DEF DataOK
  <2>5. CallOK'
    BY <1>1, <1>3, <1>6, <2>1, EnterOK
  <2>6. pending_receivers' = <<>> /\ MutexFree' /\ \A j \in Isolates : pc'[j] # "closing"
    BY <1>1, <1>6, SameMutex DEF Inv, NobodyWaitsInVain, MutexFree
  <2>7. BackPressure' /\ NobodyWaitsInVain'
    BY <1>6, <2>3, <2>6 DEF Inv, BackPressure, NobodyWaitsInVain, Full
  <2> QED  BY <2>4, <2>5, <2>7, TypeSplitNext DEF Inv
<1>7. CASE /\ ~Exhausted /\ messages = <<>>
           /\ pending_receivers' = Append(pending_receivers, [req |-> r, isolate |-> i])
           /\ result' = [result EXCEPT ![r] = Waiting]
           /\ UNCHANGED <<messages, pending_senders, pc, call>>
  <2>1. pending_receivers' \in Seq(Receivers)
    BY <1>1, <1>7, SeqFacts DEF DataOK, Receivers
  <2>2. DataOK' /\ CallOK'
    BY <1>1, <1>2, <1>7, <2>1, ResultType DEF DataOK, CallOK
  <2>3. pending_senders = <<>> /\ ~closed
    BY <1>7, EmptySeq, ChannelAssumption DEF Inv, BackPressure, Full, Exhausted
  <2>4. BackPressure' /\ NobodyWaitsInVain'
    BY <1>1, <1>2, <1>7, <2>3 DEF Inv, BackPressure, NobodyWaitsInVain, Full, MutexFree
  <2> QED  BY <2>2, <2>4, TypeSplitNext DEF Inv
<1> QED  BY <1>4, <1>5, <1>6, <1>7 DEF Recv

LEMMA RecvPostInv ==
    ASSUME Inv, NEW i \in Isolates, RecvPost(i)
    PROVE  Inv'
<1> DEFINE c == call[i]
           task == [kind |-> "sent", msg |-> c.to.msg]
<1>1. /\ DataOK /\ CallOK /\ pc[i] = "moved"
      /\ c.msg \in Messages /\ c.req \in Requests /\ c.to \in Senders
  BY TypeSplit DEF Inv, CallOK, RecvPost
<1>2. c.to.isolate \in Isolates /\ task \in Tasks
  BY <1>1 DEF Senders, Tasks
<1>3. /\ Post(c.to.isolate, task) /\ Leave(i) /\ UNCHANGED <<state, sent>>
      /\ result' = [result EXCEPT ![c.req] = Decoded(c.msg)]
  BY DEF RecvPost
<1> HIDE DEF task, c
<1>4. inbox' \in [Isolates -> Seq(Tasks)]
  BY <1>2, <1>3, PostOK DEF Inv
<1>5. DataOK'
  BY <1>1, <1>3, <1>4, DecodedType, ResultType DEF DataOK, state
<1>6. CallOK' /\ BackPressure' /\ NobodyWaitsInVain'
  BY <1>1, <1>3, LeaveOK, SameMutex, SameQueues DEF Inv, Leave
<1> QED  BY <1>5, <1>6, TypeSplitNext DEF Inv

LEMMA RunInternalInv ==
    ASSUME Inv, NEW i \in Isolates, RunInternal(i)
    PROVE  Inv'
<1> DEFINE task == Head(inbox[i])
<1>1. DataOK /\ CallOK /\ inbox[i] \in Seq(Tasks) /\ inbox[i] # <<>>
  BY TypeSplit DEF Inv, DataOK, RunInternal
<1>2. task \in Tasks /\ Tail(inbox[i]) \in Seq(Tasks)
  BY <1>1, SeqFacts
<1>3. /\ task.kind = "value" => task.req \in Requests /\ task.msg \in Messages
      /\ task.kind = "sent" => task.msg \in Messages
      /\ task.kind = "close" => task.req \in Requests
  BY <1>2 DEF Tasks
<1>4. inbox' \in [Isolates -> Seq(Tasks)] /\ UNCHANGED <<state, pc, call>>
  BY <1>1, <1>2 DEF DataOK, RunInternal
<1>5. \/ task.kind = "sent" /\ sent' = [sent EXCEPT ![task.msg] = "resolved"] /\ UNCHANGED result
      \/ /\ task.kind = "value" /\ UNCHANGED sent
         /\ result' = [result EXCEPT ![task.req] = Decoded(task.msg)]
      \/ task.kind = "close" /\ result' = [result EXCEPT ![task.req] = Done] /\ UNCHANGED sent
  BY DEF RunInternal
<1> HIDE DEF task
<1>6. DataOK'
  <2>1. sent' \in [Messages -> {"unsent", "threw", "sending", "pending", "resolved"}]
    BY <1>1, <1>3, <1>5 DEF DataOK
  <2>2. result' \in [Requests -> Messages \cup {Unasked, Waiting, Done, Failed}]
    BY <1>1, <1>3, <1>5, DecodedType, ResultType DEF DataOK
  <2> QED  BY <1>1, <1>4, <2>1, <2>2 DEF DataOK, state
<1>7. CallOK' /\ BackPressure' /\ NobodyWaitsInVain'
  BY <1>1, <1>4, SameQueues DEF Inv, CallOK, MutexFree
<1> QED  BY <1>6, <1>7, TypeSplitNext DEF Inv

------------------------------------------------------------------------------
LEMMA InitInv == Init => Inv
<1> SUFFICES ASSUME Init PROVE Inv
  OBVIOUS
<1>1. TypeOK
  BY EmptySeq, Zenon DEF Init, TypeOK
<1>2. BackPressure
  BY EmptySeq, ChannelAssumption DEF Init, BackPressure, Full
<1>3. MutexFree /\ \A i \in Isolates : pc[i] # "closing"
  BY DEF Init, MutexFree
<1>4. NobodyWaitsInVain
  BY <1>3 DEF Init, NobodyWaitsInVain
<1> QED  BY <1>1, <1>2, <1>4 DEF Inv

LEMMA NextInv == Inv /\ [Next]_vars => Inv'
<1> SUFFICES ASSUME Inv, [Next]_vars PROVE Inv'
  OBVIOUS
<1>1. ASSUME NEW i \in Isolates, NEW m \in Messages, Send(i, m) PROVE Inv'
  BY <1>1, SendInv
<1>2. ASSUME NEW i \in Isolates, NEW r \in Requests, Recv(i, r) PROVE Inv'
  BY <1>2, RecvInv
<1>3. ASSUME NEW i \in Isolates, Close(i) \/ IsolateStep(i) PROVE Inv'
  BY <1>3, CloseInv, SendLockedInv, SendPostInv, CloseNextInv, RecvPostInv, RunInternalInv
     DEF IsolateStep
<1>4. CASE UNCHANGED vars
  BY <1>4 DEF vars, state, Inv, TypeOK, BackPressure, NobodyWaitsInVain, Full, MutexFree
<1> QED  BY <1>1, <1>2, <1>3, <1>4 DEF Next

(* The channel keeps its types, its bound and its waiting discipline.        *)
THEOREM ChannelInvariant == Spec => []Inv
  BY InitInv, NextInv, PTL DEF Spec

(* The buffer never exceeds the capacity, and a send is held back only while *)
(* the buffer is full.                                                       *)
THEOREM BackPressureHolds == Spec => []BackPressure
<1>1. Inv => BackPressure
  BY DEF Inv
<1> QED  BY <1>1, ChannelInvariant, PTL

(* A receiver never waits while there is a message, a waiting sender or a    *)
(* finished Close.                                                           *)
THEOREM NobodyWaitsInVainHolds == Spec => []NobodyWaitsInVain
<1>1. Inv => NobodyWaitsInVain
  BY DEF Inv
<1> QED  BY <1>1, ChannelInvariant, PTL

(* Every call under way has its locals, and the queues, the inboxes and the  *)
(* results hold what they are read for.                                      *)
THEOREM TypeCorrect == Spec => []TypeOK
<1>1. Inv => TypeOK
  BY DEF Inv
<1> QED  BY <1>1, ChannelInvariant, PTL

------------------------------------------------------------------------------
(* The members of a sequence, and a sequence in which those of T occur once. *)
Elems(s) == {s[k] : k \in 1..Len(s)}
Once(s, T) == \A j, k \in 1..Len(s) : s[j] = s[k] /\ s[j] \in T => j = k

LEMMA AppendElems ==
    ASSUME NEW S, NEW T, NEW s \in Seq(S), NEW x \in S
    PROVE  /\ \A y : y \in Elems(Append(s, x)) <=> y \in Elems(s) \/ y = x
           /\ Once(s, T) /\ (x \in Elems(s) => x \notin T) => Once(Append(s, x), T)
<1>n. PICK n \in Nat : n = Len(s)
  BY SeqFacts
<1>1. /\ Len(Append(s, x)) = n + 1 /\ Append(s, x)[n + 1] = x
      /\ \A k \in 1..n : Append(s, x)[k] = s[k]
  BY <1>n, AppendProperties
<1>2. 1..(n + 1) = 1..n \cup {n + 1} /\ n + 1 \notin 1..n
  OBVIOUS
<1>3. \A y : y \in Elems(Append(s, x)) <=> y \in Elems(s) \/ y = x
  BY <1>n, <1>1, <1>2, Zenon DEF Elems
<1>4. ASSUME Once(s, T), x \in Elems(s) => x \notin T,
             NEW j \in 1..(n + 1), NEW k \in 1..(n + 1), Append(s, x)[j] = Append(s, x)[k],
             Append(s, x)[j] \in T
      PROVE  j = k
  <2>1. CASE j = n + 1 /\ k # n + 1
    BY <1>n, <1>1, <1>2, <1>4, <2>1, Zenon DEF Elems
  <2>2. CASE k = n + 1 /\ j # n + 1
    BY <1>n, <1>1, <1>2, <1>4, <2>2, Zenon DEF Elems
  <2>3. CASE j # n + 1 /\ k # n + 1
    BY <1>n, <1>1, <1>2, <1>4, <2>3, Zenon DEF Once
  <2> QED  BY <2>1, <2>2, <2>3
<1> QED  BY <1>1, <1>3, <1>4, Zenon DEF Once

LEMMA TailElems ==
    ASSUME NEW S, NEW T, NEW s \in Seq(S), s # <<>>, Once(s, T)
    PROVE  /\ Once(Tail(s), T) /\ Head(s) \in Elems(s)
           /\ \A y \in T : y \in Elems(Tail(s)) <=> y \in Elems(s) /\ y # Head(s)
<1>n. PICK n \in Nat : n + 1 = Len(s)
  <2>1. Len(s) \in Nat /\ Len(s) # 0
    BY SeqFacts
  <2> QED  BY <2>1
<1>1. /\ Len(Tail(s)) = n /\ Head(s) = s[1]
      /\ \A k \in 1..n : Tail(s)[k] = s[k + 1]
  BY <1>n, HeadTailProperties
<1>2. /\ \A k \in 1..n : k + 1 \in 1..(n + 1) /\ k + 1 # 1
      /\ \A j, k \in 1..n : j + 1 = k + 1 => j = k
      /\ \A k \in 1..(n + 1) : k = 1 \/ \E j \in 1..n : k = j + 1
      /\ 1 \in 1..(n + 1)
  <2>1. \A k \in 1..(n + 1) : k # 1 => k - 1 \in 1..n /\ k = (k - 1) + 1
    OBVIOUS
  <2>2. \A k \in 1..(n + 1) : k = 1 \/ \E j \in 1..n : k = j + 1
    BY <2>1, Zenon
  <2> QED  BY <2>2
<1>3. ASSUME NEW j \in 1..n, NEW k \in 1..n, Tail(s)[j] = Tail(s)[k], Tail(s)[j] \in T
      PROVE  j = k
  <2>1. s[j + 1] = s[k + 1] /\ s[j + 1] \in T /\ j + 1 \in 1..(n + 1) /\ k + 1 \in 1..(n + 1)
    BY <1>1, <1>2, <1>3
  <2>2. j + 1 = k + 1
    BY <1>n, <2>1, Zenon DEF Once
  <2> QED  BY <1>2, <2>2, Zenon
<1>4. Head(s) \in Elems(s)
  BY <1>n, <1>1, <1>2, Zenon DEF Elems
<1>5. ASSUME NEW y \in T, y \in Elems(Tail(s)) PROVE y \in Elems(s) /\ y # Head(s)
  <2>1. PICK k \in 1..n : y = Tail(s)[k]
    BY <1>1, <1>5, Zenon DEF Elems
  <2> QED  BY <1>n, <1>1, <1>2, <2>1, Zenon DEF Elems, Once
<1>6. ASSUME NEW y \in T, y \in Elems(s), y # Head(s) PROVE y \in Elems(Tail(s))
  <2>1. PICK k \in 1..(n + 1) : y = s[k]
    BY <1>n, <1>6, Zenon DEF Elems
  <2>2. PICK j \in 1..n : k = j + 1
    BY <1>1, <1>2, <1>6, <2>1, Zenon
  <2> QED  BY <1>1, <2>1, <2>2, Zenon DEF Elems
<1> QED  BY <1>1, <1>3, <1>4, <1>5, <1>6, Zenon DEF Once

------------------------------------------------------------------------------
(* Where an unanswered request is, and what the answer will be: it waits in  *)
(* pending_receivers, its answer is a task on the way to the isolate that    *)
(* asked, or the locals of a call hold the message for it.                   *)
AtQueue(x) == <<"queued", x>>
AtInbox(i, task) == <<"posted", i, task>>
AtCall(i) == <<"coming", i>>

Replies == {task \in Tasks : task.kind # "sent"}
Reply(task) == IF task.kind = "close" THEN Done ELSE Decoded(task.msg)
Target(i) == IF pc[i] = "post" THEN call[i].to.req ELSE call[i].req

QHolds(h, r, v) ==
    \E x \in Receivers : /\ h = AtQueue(x) /\ x \in Elems(pending_receivers) /\ r = x.req
                         /\ v = IF closed THEN Done ELSE Waiting
PHolds(h, r, v) ==
    \E i \in Isolates : \E task \in Replies :
      h = AtInbox(i, task) /\ task \in Elems(inbox[i]) /\ r = task.req /\ v = Reply(task)
CHolds(h, r, v) ==
    \E i \in Isolates :
      h = AtCall(i) /\ pc[i] \in {"post", "moved"} /\ r = Target(i) /\ v = Decoded(call[i].msg)
Holds(h, r, v) == QHolds(h, r, v) \/ PHolds(h, r, v) \/ CHolds(h, r, v)

OnceInv == Once(pending_receivers, Receivers) /\ \A i \in Isolates : Once(inbox[i], Replies)

(* Exactly the requests that wait are held, each in one place.               *)
HeldInv ==
    /\ \A r \in Requests : result[r] = Waiting <=> \E h, v : Holds(h, r, v)
    /\ \A g, h, r, u, v : Holds(g, r, u) /\ Holds(h, r, v) => g = h /\ u = v

FInv == Inv /\ OnceInv /\ HeldInv

LEMMA Tags ==
    /\ \A x, y : AtQueue(x) = AtQueue(y) => x = y
    /\ \A i, t, j, u : AtInbox(i, t) = AtInbox(j, u) => i = j /\ t = u
    /\ \A i, j : AtCall(i) = AtCall(j) => i = j
    /\ \A x, i, t : AtQueue(x) # AtInbox(i, t)
    /\ \A x, i : AtQueue(x) # AtCall(i)
    /\ \A i, j, t : AtInbox(i, t) # AtCall(j)
<1>1. \A x, y : AtQueue(x) = AtQueue(y) => x = y
  BY DEF AtQueue
<1>2. \A i, t, j, u : AtInbox(i, t) = AtInbox(j, u) => i = j /\ t = u
  BY DEF AtInbox
<1>3. \A i, j : AtCall(i) = AtCall(j) => i = j
  BY DEF AtCall
<1>4. \A x, i, t : AtQueue(x) # AtInbox(i, t)
  BY DEF AtQueue, AtInbox
<1>5. \A x, i : AtQueue(x) # AtCall(i)
  BY DEF AtQueue, AtCall
<1>6. \A i, j, t : AtInbox(i, t) # AtCall(j)
  BY DEF AtInbox, AtCall
<1> QED  BY <1>1, <1>2, <1>3, <1>4, <1>5, <1>6

LEMMA HoldsType ==
    ASSUME TypeOK
    PROVE  /\ \A h, r, v : Holds(h, r, v) => r \in Requests
           /\ \A i \in Isolates : pc[i] \in {"post", "moved"} => Target(i) \in Requests /\ call[i].msg \in Messages
<1>1. \A h, r, v : QHolds(h, r, v) => r \in Requests
  BY DEF QHolds, Receivers
<1>2. \A task \in Replies : task.req \in Requests
  BY DEF Replies, Tasks
<1>3. \A i \in Isolates : pc[i] \in {"post", "moved"} => Target(i) \in Requests /\ call[i].msg \in Messages
  BY DEF TypeOK, Target, Receivers
<1> QED  BY <1>1, <1>2, <1>3, Zenon DEF Holds, PHolds, CHolds

(* What a step does to the holders of one kind.                              *)
LEMMA QueueSame ==
    ASSUME UNCHANGED <<pending_receivers, closed>>
    PROVE  \A h, r, v : QHolds(h, r, v)' <=> QHolds(h, r, v)
  BY DEF QHolds

LEMMA QueueShrinks ==
    ASSUME TypeOK, OnceInv, NEW x, x = Head(pending_receivers), pending_receivers # <<>>,
           pending_receivers' = Tail(pending_receivers), closed' = closed
    PROVE  /\ x \in Receivers /\ QHolds(AtQueue(x), x.req, IF closed THEN Done ELSE Waiting)
           /\ \A h, r, v : QHolds(h, r, v)' <=> QHolds(h, r, v) /\ h # AtQueue(x)
           /\ Once(pending_receivers, Receivers)'
<1>1. pending_receivers \in Seq(Receivers) /\ x \in Receivers
  BY SeqFacts DEF TypeOK
<1>2. /\ Once(pending_receivers, Receivers)' /\ x \in Elems(pending_receivers)
      /\ \A y \in Receivers : y \in Elems(pending_receivers') <=> y \in Elems(pending_receivers) /\ y # x
  <2>1. Once(pending_receivers, Receivers)
    BY DEF OnceInv
  <2>2. /\ Once(Tail(pending_receivers), Receivers) /\ x \in Elems(pending_receivers)
        /\ \A y \in Receivers : y \in Elems(Tail(pending_receivers)) <=> y \in Elems(pending_receivers) /\ y # x
    BY <1>1, <2>1, TailElems, Zenon
  <2> QED  BY <2>2, Zenon DEF Once
<1>3. QHolds(AtQueue(x), x.req, IF closed THEN Done ELSE Waiting)
  BY <1>1, <1>2, Zenon DEF QHolds
<1>4. Elems(pending_receivers)' = Elems(pending_receivers')
  BY DEF Elems
<1>5. \A h, r, v : QHolds(h, r, v)' <=> QHolds(h, r, v) /\ h # AtQueue(x)
  BY <1>1, <1>2, <1>4, Tags, Zenon DEF QHolds
<1> QED  BY <1>1, <1>2, <1>3, <1>5

LEMMA QueueGrows ==
    ASSUME TypeOK, OnceInv, NEW x \in Receivers, x \notin Elems(pending_receivers),
           pending_receivers' = Append(pending_receivers, x), closed' = closed
    PROVE  /\ \A h, r, v : QHolds(h, r, v)' <=>
                 QHolds(h, r, v) \/ (h = AtQueue(x) /\ r = x.req /\ v = IF closed THEN Done ELSE Waiting)
           /\ Once(pending_receivers, Receivers)'
<1>1. pending_receivers \in Seq(Receivers) /\ Once(pending_receivers, Receivers)
  BY DEF TypeOK, OnceInv
<1>2. /\ Once(Append(pending_receivers, x), Receivers)
      /\ \A y : y \in Elems(Append(pending_receivers, x)) <=> y \in Elems(pending_receivers) \/ y = x
  BY <1>1, AppendElems
<1>3. Elems(pending_receivers)' = Elems(Append(pending_receivers, x))
  BY DEF Elems
<1>4. \A h, r, v : QHolds(h, r, v)' <=>
                 QHolds(h, r, v) \/ (h = AtQueue(x) /\ r = x.req /\ v = IF closed THEN Done ELSE Waiting)
  BY <1>2, <1>3, Tags, Zenon DEF QHolds
<1> QED  BY <1>2, <1>4, Zenon DEF Once

LEMMA InboxSame ==
    ASSUME UNCHANGED inbox
    PROVE  /\ \A h, r, v : PHolds(h, r, v)' <=> PHolds(h, r, v)
           /\ OnceInv => \A i \in Isolates : Once(inbox[i], Replies)'
<1>1. \A h, r, v : PHolds(h, r, v)' <=> PHolds(h, r, v)
  BY DEF PHolds
<1> QED  BY <1>1 DEF OnceInv, Once

LEMMA InboxGrows ==
    ASSUME TypeOK, OnceInv, NEW i \in Isolates, NEW task \in Tasks, Post(i, task),
           task \in Replies => task \notin Elems(inbox[i])
    PROVE  /\ \A h, r, v : PHolds(h, r, v)' <=>
                 \/ PHolds(h, r, v)
                 \/ task \in Replies /\ h = AtInbox(i, task) /\ r = task.req /\ v = Reply(task)
           /\ \A j \in Isolates : Once(inbox[j], Replies)'
<1>1. inbox[i] \in Seq(Tasks) /\ Once(inbox[i], Replies)
  BY DEF TypeOK, OnceInv
<1>2. /\ Once(Append(inbox[i], task), Replies)
      /\ \A y : y \in Elems(Append(inbox[i], task)) <=> y \in Elems(inbox[i]) \/ y = task
  BY <1>1, AppendElems
<1>3. inbox'[i] = Append(inbox[i], task) /\ \A j \in Isolates : j # i => inbox'[j] = inbox[j]
  BY DEF TypeOK, Post
<1>4. \A j \in Isolates : Elems(inbox[j])' = Elems(inbox'[j])
  BY DEF Elems
<1>5. \A j \in Isolates : Once(inbox[j], Replies)'
  <2> SUFFICES ASSUME NEW j \in Isolates PROVE Once(inbox'[j], Replies)
    BY Zenon DEF Once, Replies
  <2> QED  BY <1>2, <1>3, Zenon DEF OnceInv
<1>6. ASSUME NEW j \in Isolates, NEW u \in Replies
      PROVE  u \in Elems(inbox[j])' <=> u \in Elems(inbox[j]) \/ (j = i /\ u = task)
  BY <1>2, <1>3, <1>4, Zenon
<1>7. \A h, r, v : PHolds(h, r, v)' <=>
                 \/ PHolds(h, r, v)
                 \/ task \in Replies /\ h = AtInbox(i, task) /\ r = task.req /\ v = Reply(task)
  BY <1>6, Tags, Zenon DEF PHolds
<1> QED  BY <1>5, <1>7

LEMMA InboxShrinks ==
    ASSUME TypeOK, OnceInv, NEW i \in Isolates, NEW task, task = Head(inbox[i]), inbox[i] # <<>>,
           inbox' = [inbox EXCEPT ![i] = Tail(@)]
    PROVE  /\ task \in Tasks
           /\ task \in Replies => PHolds(AtInbox(i, task), task.req, Reply(task))
           /\ \A h, r, v : PHolds(h, r, v)' <=> PHolds(h, r, v) /\ h # AtInbox(i, task)
           /\ \A j \in Isolates : Once(inbox[j], Replies)'
<1>1. inbox[i] \in Seq(Tasks) /\ Once(inbox[i], Replies) /\ task \in Tasks
  BY SeqFacts DEF TypeOK, OnceInv
<1>2. /\ Once(Tail(inbox[i]), Replies) /\ task \in Elems(inbox[i])
      /\ \A y \in Replies : y \in Elems(Tail(inbox[i])) <=> y \in Elems(inbox[i]) /\ y # task
  BY <1>1, TailElems
<1>3. inbox'[i] = Tail(inbox[i]) /\ \A j \in Isolates : j # i => inbox'[j] = inbox[j]
  BY DEF TypeOK
<1>4. \A j \in Isolates : Elems(inbox[j])' = Elems(inbox'[j])
  BY DEF Elems
<1>5. \A j \in Isolates : Once(inbox[j], Replies)'
  <2> SUFFICES ASSUME NEW j \in Isolates PROVE Once(inbox'[j], Replies)
    BY Zenon DEF Once, Replies
  <2> QED  BY <1>2, <1>3, Zenon DEF OnceInv
<1>6. ASSUME NEW j \in Isolates, NEW u \in Replies
      PROVE  u \in Elems(inbox[j])' <=> u \in Elems(inbox[j]) /\ ~(j = i /\ u = task)
  BY <1>2, <1>3, <1>4, Zenon
<1>7. \A h, r, v : PHolds(h, r, v)' <=> PHolds(h, r, v) /\ h # AtInbox(i, task)
  <2> SUFFICES ASSUME NEW h, NEW r, NEW v
               PROVE  PHolds(h, r, v)' <=> PHolds(h, r, v) /\ h # AtInbox(i, task)
    OBVIOUS
  <2>1. ASSUME PHolds(h, r, v)' PROVE PHolds(h, r, v) /\ h # AtInbox(i, task)
    <3>1. PICK j \in Isolates, u \in Replies :
            h = AtInbox(j, u) /\ u \in Elems(inbox[j])' /\ r = u.req /\ v = Reply(u)
      BY <2>1, Zenon DEF PHolds
    <3>2. u \in Elems(inbox[j]) /\ ~(j = i /\ u = task)
      BY <1>6, <3>1, Zenon
    <3>3. h # AtInbox(i, task)
      BY <3>1, <3>2, Tags
    <3> QED  BY <3>1, <3>2, <3>3, Zenon DEF PHolds
  <2>2. ASSUME PHolds(h, r, v), h # AtInbox(i, task) PROVE PHolds(h, r, v)'
    <3>1. PICK j \in Isolates, u \in Replies :
            h = AtInbox(j, u) /\ u \in Elems(inbox[j]) /\ r = u.req /\ v = Reply(u)
      BY <2>2, Zenon DEF PHolds
    <3> QED  BY <1>6, <2>2, <3>1, Zenon DEF PHolds
  <2> QED  BY <2>1, <2>2
<1>8. task \in Replies => PHolds(AtInbox(i, task), task.req, Reply(task))
  BY <1>2, Zenon DEF PHolds
<1> QED  BY <1>1, <1>5, <1>7, <1>8

(* A call takes a request into its locals, or is done with it.               *)
LEMMA CallSame ==
    ASSUME UNCHANGED <<pc, call>>
    PROVE  \A h, r, v : CHolds(h, r, v)' <=> CHolds(h, r, v)
  BY DEF CHolds, Target

LEMMA CallChanges ==
    ASSUME CallOK, NEW i \in Isolates,
           \A j \in Isolates : j # i => pc'[j] = pc[j] /\ call'[j] = call[j]
    PROVE  \A h, r, v : CHolds(h, r, v)' <=>
             \/ CHolds(h, r, v) /\ h # AtCall(i)
             \/ h = AtCall(i) /\ pc'[i] \in {"post", "moved"} /\ r = Target(i)' /\ v = Decoded(call'[i].msg)
<1>1. \A j \in Isolates : j # i => Target(j)' = Target(j) /\ Decoded(call'[j].msg) = Decoded(call[j].msg)
  BY DEF Target
<1> QED  BY <1>1, Tags, Zenon DEF CHolds

(* The four ways a step changes who holds what.                              *)
LEMMA HeldSame ==
    ASSUME HeldInv, \A k, q, y : Holds(k, q, y)' <=> Holds(k, q, y), UNCHANGED result
    PROVE  HeldInv'
<1>1. \A r \in Requests : (result[r] = Waiting <=> \E h, v : Holds(h, r, v))'
  BY Zenon DEF HeldInv
<1>2. (\A g, h, r, u, v : Holds(g, r, u) /\ Holds(h, r, v) => g = h /\ u = v)'
  BY Zenon DEF HeldInv
<1> QED  BY <1>1, <1>2, Zenon DEF HeldInv

LEMMA HeldAnswered ==
    ASSUME HeldInv, \A k, q, y : Holds(k, q, y)' <=> Holds(k, q, y), DataOK,
           NEW r \in Requests, result[r] # Waiting, NEW v, v # Waiting, result' = [result EXCEPT ![r] = v]
    PROVE  HeldInv'
<1>0. \A q \in Requests : result'[q] = Waiting <=> result[q] = Waiting
  BY DEF DataOK
<1>1. \A q \in Requests : (result[q] = Waiting <=> \E h, y : Holds(h, q, y))'
  BY <1>0, Zenon DEF HeldInv
<1>2. (\A g, h, q, u, y : Holds(g, q, u) /\ Holds(h, q, y) => g = h /\ u = y)'
  BY Zenon DEF HeldInv
<1> QED  BY <1>1, <1>2, Zenon DEF HeldInv

LEMMA HeldMoves ==
    ASSUME HeldInv, NEW g, NEW h, NEW r, NEW u, NEW v, Holds(h, r, v),
           \A k, q, y : Holds(k, q, y)' <=> (Holds(k, q, y) /\ k # h) \/ (k = g /\ q = r /\ y = u),
           UNCHANGED result, \A q, y : Holds(h, q, y) => q = r
    PROVE  HeldInv'
<1>1. ASSUME NEW q \in Requests PROVE (\E k, y : Holds(k, q, y)') <=> \E k, y : Holds(k, q, y)
  <2>1. CASE q = r
    BY <2>1, Zenon
  <2>2. CASE q # r
    BY <2>2, Zenon
  <2> QED  BY <2>1, <2>2
<1>2. \A q \in Requests : (result[q] = Waiting <=> \E k, y : Holds(k, q, y))'
  BY <1>1, Zenon DEF HeldInv
<1>3. (\A k, l, q, y, z : Holds(k, q, y) /\ Holds(l, q, z) => k = l /\ y = z)'
  <2> SUFFICES ASSUME NEW k, NEW l, NEW q, NEW y, NEW z, Holds(k, q, y)', Holds(l, q, z)'
               PROVE  k = l /\ y = z
    OBVIOUS
  <2>1. \A m, x : Holds(m, r, x) => m = h
    BY Zenon DEF HeldInv
  <2>2. CASE q = r
    BY <2>1, <2>2, Zenon
  <2>3. CASE q # r
    BY <2>3, Zenon DEF HeldInv
  <2> QED  BY <2>2, <2>3
<1> QED  BY <1>2, <1>3, Zenon DEF HeldInv

LEMMA HeldDrops ==
    ASSUME HeldInv, DataOK, NEW h, NEW r \in Requests, NEW u, NEW v, Holds(h, r, v),
           \A k, q, y : Holds(k, q, y)' <=> Holds(k, q, y) /\ k # h,
           result' = [result EXCEPT ![r] = u], u # Waiting, \A q, y : Holds(h, q, y) => q = r
    PROVE  HeldInv'
<1>0. result'[r] = u /\ \A q \in Requests : q # r => result'[q] = result[q]
  BY DEF DataOK
<1>1. ASSUME NEW q \in Requests, q # r PROVE (\E k, y : Holds(k, q, y)') <=> \E k, y : Holds(k, q, y)
  BY <1>1, Zenon
<1>2. ~\E k, y : Holds(k, r, y)'
  BY Zenon DEF HeldInv
<1>3. ASSUME NEW q \in Requests PROVE (result[q] = Waiting <=> \E k, y : Holds(k, q, y))'
  <2>1. CASE q = r
    BY <1>0, <1>2, <2>1, Zenon
  <2>2. CASE q # r
    <3>1. result'[q] = Waiting <=> \E k, y : Holds(k, q, y)
      BY <1>0, <2>2, Zenon DEF HeldInv
    <3> QED  BY <1>1, <2>2, <3>1, Zenon
  <2> QED  BY <2>1, <2>2
<1>4. (\A k, l, q, y, z : Holds(k, q, y) /\ Holds(l, q, z) => k = l /\ y = z)'
  BY Zenon DEF HeldInv
<1> QED  BY <1>3, <1>4, Zenon DEF HeldInv

LEMMA HeldGrows ==
    ASSUME HeldInv, DataOK, NEW g, NEW r \in Requests, NEW u, result[r] # Waiting,
           \A k, q, y : Holds(k, q, y)' <=> Holds(k, q, y) \/ (k = g /\ q = r /\ y = u),
           result' = [result EXCEPT ![r] = Waiting]
    PROVE  HeldInv'
<1>0. result'[r] = Waiting /\ \A q \in Requests : q # r => result'[q] = result[q]
  BY DEF DataOK
<1>1. ASSUME NEW q \in Requests, q # r PROVE (\E k, y : Holds(k, q, y)') <=> \E k, y : Holds(k, q, y)
  BY <1>1, Zenon
<1>2. \A k, y : ~Holds(k, r, y)
  BY Zenon DEF HeldInv
<1>3. \A q \in Requests : (result[q] = Waiting <=> \E k, y : Holds(k, q, y))'
  BY <1>0, <1>1, Zenon DEF HeldInv
<1>4. (\A k, l, q, y, z : Holds(k, q, y) /\ Holds(l, q, z) => k = l /\ y = z)'
  BY <1>2, Zenon DEF HeldInv
<1> QED  BY <1>3, <1>4, Zenon DEF HeldInv

(* One place holds one request.                                              *)
LEMMA HoldsOne ==
    \A h, q, r, u, v : Holds(h, q, u) /\ Holds(h, r, v) => q = r
<1> SUFFICES ASSUME NEW h, NEW q, NEW r, NEW u, NEW v, Holds(h, q, u), Holds(h, r, v) PROVE q = r
  OBVIOUS
<1>1. CASE QHolds(h, q, u)
  BY <1>1, Tags, Zenon DEF Holds, QHolds, PHolds, CHolds
<1>2. CASE PHolds(h, q, u)
  BY <1>2, Tags, Zenon DEF Holds, QHolds, PHolds, CHolds
<1>3. CASE CHolds(h, q, u)
  BY <1>3, Tags, Zenon DEF Holds, QHolds, PHolds, CHolds
<1> QED  BY <1>1, <1>2, <1>3 DEF Holds

(* The answer of a request is its result once it has one, and before that    *)
(* what the place that holds it says.                                        *)
LEMMA AnswerHeld ==
    ASSUME TypeOK, HeldInv, NEW r \in Requests
    PROVE  /\ result[r] # Waiting => Answer(r) = result[r]
           /\ \A h, v : Holds(h, r, v) => Answer(r) = v
<1> DEFINE posted == {task \in UNION {{inbox[i][k] : k \in 1..Len(inbox[i])} : i \in Isolates} :
                        task.kind # "sent" /\ task.req = r}
           coming == {call[i] : i \in {j \in Isolates : \/ pc[j] = "post" /\ call[j].to.req = r
                                                        \/ pc[j] = "moved" /\ call[j].req = r}}
           closing == closed /\ \E k \in 1..Len(pending_receivers) : pending_receivers[k].req = r
<1>1. Answer(r) = IF result[r] # Waiting THEN result[r]
                  ELSE IF closing \/ \E task \in posted : task.kind = "close" THEN Done
                  ELSE IF posted \cup coming # {} THEN Decoded((CHOOSE x \in posted \cup coming : TRUE).msg)
                  ELSE Waiting
  BY Zenon DEF Answer
<1>2. \A task : task \in posted <=> \E i \in Isolates : task \in Elems(inbox[i]) /\ task.kind # "sent" /\ task.req = r
  BY Zenon DEF Elems
<1>3. \A c : c \in coming <=> \E i \in Isolates : pc[i] \in {"post", "moved"} /\ Target(i) = r /\ c = call[i]
  <2>1. \A j \in Isolates : (\/ pc[j] = "post" /\ call[j].to.req = r
                             \/ pc[j] = "moved" /\ call[j].req = r)
                            <=> pc[j] \in {"post", "moved"} /\ Target(j) = r
    BY DEF Target
  <2> QED  BY <2>1, Zenon
<1>4. closing <=> closed /\ \E x \in Receivers : x \in Elems(pending_receivers) /\ x.req = r
  <2>1. \A k \in 1..Len(pending_receivers) : pending_receivers[k] \in Receivers
    BY DEF TypeOK
  <2> QED  BY <2>1, Zenon DEF Elems
<1>5. \A i \in Isolates : \A task \in Elems(inbox[i]) : task \in Tasks
  <2>1. \A i \in Isolates : \A k \in 1..Len(inbox[i]) : inbox[i][k] \in Tasks
    BY DEF TypeOK
  <2> QED  BY <2>1, Zenon DEF Elems
<1> HIDE DEF posted, coming, closing
<1>6. \A task : task \in posted => \E i \in Isolates : task \in Replies /\ Holds(AtInbox(i, task), r, Reply(task))
  BY <1>2, <1>5, Zenon DEF Replies, Holds, PHolds
<1>7. \A c : c \in coming => \E i \in Isolates : c = call[i] /\ Holds(AtCall(i), r, Decoded(call[i].msg))
  BY <1>3, Zenon DEF Holds, CHolds
<1>8. closing => \E x : Holds(AtQueue(x), r, Done)
  BY <1>4, Zenon DEF Holds, QHolds
<1>9. ASSUME NEW h, NEW v, Holds(h, r, v) PROVE Answer(r) = v
  <2>1. result[r] = Waiting /\ \A g, u : Holds(g, r, u) => g = h /\ u = v
    BY <1>9, Zenon DEF HeldInv
  <2>2. CASE QHolds(h, r, v)
    <3>1. PICK x \in Receivers : h = AtQueue(x) /\ x \in Elems(pending_receivers) /\ x.req = r
                                 /\ v = IF closed THEN Done ELSE Waiting
      BY <2>2, Zenon DEF QHolds
    <3>2. \A u : u \notin posted /\ u \notin coming
      <4>1. \A u : u \notin posted
        BY <1>6, <2>1, <3>1, Tags
      <4>2. \A u : u \notin coming
        BY <1>7, <2>1, <3>1, Tags
      <4> QED  BY <4>1, <4>2
    <3>3. posted \cup coming = {} /\ ~\E task \in posted : task.kind = "close"
      BY <3>2
    <3>4. closing <=> closed
      BY <1>4, <3>1, Zenon
    <3> QED  BY <1>1, <2>1, <3>1, <3>3, <3>4, Zenon
  <2>3. CASE PHolds(h, r, v)
    <3>1. PICK i \in Isolates, task \in Replies :
            h = AtInbox(i, task) /\ task \in Elems(inbox[i]) /\ r = task.req /\ v = Reply(task)
      BY <2>3, Zenon DEF PHolds
    <3>2. (\A u : u \notin coming) /\ ~closing
      <4>1. \A u : u \notin coming
        BY <1>7, <2>1, <3>1, Tags
      <4>2. ~closing
        BY <1>8, <2>1, <3>1, Tags
      <4> QED  BY <4>1, <4>2
    <3>3. \A u : u \in posted <=> u = task
      <4>1. task \in posted
        BY <1>2, <3>1, Zenon DEF Replies
      <4>2. ASSUME NEW u, u \in posted PROVE u = task
        <5>1. PICK j \in Isolates : Holds(AtInbox(j, u), r, Reply(u))
          BY <1>6, <4>2, Zenon
        <5>2. AtInbox(j, u) = AtInbox(i, task)
          BY <2>1, <3>1, <5>1, Zenon
        <5> QED  BY <5>2, Tags, Zenon
      <4> QED  BY <4>1, <4>2, Zenon
    <3>4. posted \cup coming = {task}
      BY <3>2, <3>3
    <3>5. (CHOOSE x \in posted \cup coming : TRUE) = task /\ posted \cup coming # {}
      BY <3>4, Zenon
    <3> QED  BY <1>1, <2>1, <3>1, <3>2, <3>3, <3>5, Zenon DEF Reply
  <2>4. CASE CHolds(h, r, v)
    <3>1. PICK i \in Isolates : h = AtCall(i) /\ pc[i] \in {"post", "moved"} /\ r = Target(i) /\ v = Decoded(call[i].msg)
      BY <2>4, Zenon DEF CHolds
    <3>2. (\A u : u \notin posted) /\ ~closing
      <4>1. \A u : u \notin posted
        BY <1>6, <2>1, <3>1, Tags
      <4>2. ~closing
        BY <1>8, <2>1, <3>1, Tags
      <4> QED  BY <4>1, <4>2
    <3>3. \A c : c \in coming <=> c = call[i]
      <4>1. call[i] \in coming
        BY <1>3, <3>1, Zenon
      <4>2. ASSUME NEW c, c \in coming PROVE c = call[i]
        <5>1. PICK j \in Isolates : c = call[j] /\ Holds(AtCall(j), r, Decoded(call[j].msg))
          BY <1>7, <4>2, Zenon
        <5>2. AtCall(j) = AtCall(i)
          BY <2>1, <3>1, <5>1, Zenon
        <5> QED  BY <5>1, <5>2, Tags, Zenon
      <4> QED  BY <4>1, <4>2, Zenon
    <3>4. posted \cup coming = {call[i]}
      BY <3>2, <3>3
    <3>5. (CHOOSE x \in posted \cup coming : TRUE) = call[i] /\ posted \cup coming # {}
      BY <3>4, Zenon
    <3> QED  BY <1>1, <2>1, <3>1, <3>2, <3>5, Zenon
  <2> QED  BY <1>9, <2>2, <2>3, <2>4 DEF Holds
<1> QED  BY <1>1, <1>9, Zenon

AnswersHeld ==
    \A r \in Requests : /\ result[r] # Waiting => Answer(r) = result[r]
                        /\ \A h, v : Holds(h, r, v) => Answer(r) = v

LEMMA AnswerFacts == TypeOK /\ HeldInv => AnswersHeld
  BY AnswerHeld, Zenon DEF AnswersHeld

LEMMA AnswerFactsNext == TypeOK' /\ HeldInv' => AnswersHeld'
  BY AnswerFacts, PTL

(* A step that leaves the holders of a request alone leaves its answer alone.*)
LEMMA AnswerSame ==
    ASSUME AnswersHeld, AnswersHeld', HeldInv, NEW q \in Requests, result'[q] = result[q],
           \A k, y : Holds(k, q, y)' <=> Holds(k, q, y)
    PROVE  Answer(q)' = Answer(q)
<1>1. CASE result[q] # Waiting
  BY <1>1, Zenon DEF AnswersHeld
<1>2. CASE result[q] = Waiting
  <2>1. PICK k, y : Holds(k, q, y)
    BY <1>2, Zenon DEF HeldInv
  <2> QED  BY <2>1, Zenon DEF AnswersHeld
<1> QED  BY <1>1, <1>2

(* The steps, by what they do to the holders and to the answers.             *)
LEMMA QuietHolds ==
    ASSUME TypeOK, OnceInv, NEW i \in Isolates, UNCHANGED <<pending_receivers, closed, inbox>>,
           \A j \in Isolates : j # i => pc'[j] = pc[j] /\ call'[j] = call[j],
           pc[i] \notin {"post", "moved"}, pc'[i] \notin {"post", "moved"}
    PROVE  OnceInv' /\ \A k, q, y : Holds(k, q, y)' <=> Holds(k, q, y)
<1>1. \A k, q, y : CHolds(k, q, y)' <=> CHolds(k, q, y)
  <2>1. \A k, q, y : CHolds(k, q, y) => k # AtCall(i)
    BY Tags, Zenon DEF CHolds
  <2> QED  BY <2>1, CallChanges, TypeSplit, Zenon
<1>2. /\ \A k, q, y : QHolds(k, q, y)' <=> QHolds(k, q, y)
      /\ \A k, q, y : PHolds(k, q, y)' <=> PHolds(k, q, y)
      /\ \A j \in Isolates : Once(inbox[j], Replies)'
  BY QueueSame, InboxSame, Zenon
<1>3. Once(pending_receivers, Receivers)'
  BY Zenon DEF OnceInv, Once
<1> QED  BY <1>1, <1>2, <1>3, Zenon DEF Holds, OnceInv

LEMMA AnswersBoth ==
    ASSUME FInv, TypeOK', HeldInv'
    PROVE  AnswersHeld /\ AnswersHeld'
  BY AnswerFacts, AnswerFactsNext DEF FInv, Inv

LEMMA QuietHeld ==
    ASSUME FInv, TypeOK', NEW i \in Isolates, UNCHANGED <<pending_receivers, closed, inbox, result>>,
           \A j \in Isolates : j # i => pc'[j] = pc[j] /\ call'[j] = call[j],
           pc[i] \notin {"post", "moved"}, pc'[i] \notin {"post", "moved"}
    PROVE  OnceInv' /\ HeldInv' /\ \A q \in Requests : Answer(q)' = Answer(q)
<1>1. OnceInv' /\ \A k, q, y : Holds(k, q, y)' <=> Holds(k, q, y)
  BY QuietHolds DEF FInv, Inv
<1>2. HeldInv'
  BY <1>1, HeldSame DEF FInv
<1>3. ASSUME NEW q \in Requests PROVE Answer(q)' = Answer(q)
  BY <1>1, <1>2, AnswersBoth, AnswerSame DEF FInv
<1> QED  BY <1>1, <1>2, <1>3

(* A message is handed to the first request that waits.                      *)
LEMMA HandOver ==
    ASSUME FInv, TypeOK', NEW i \in Isolates, NEW m, NEW x, x = Head(pending_receivers),
           pending_receivers # <<>>, pc[i] = "send",
           Enter(i, "post", [kind |-> "post", msg |-> m, to |-> x]),
           pending_receivers' = Tail(pending_receivers), UNCHANGED <<closed, inbox, result>>
    PROVE  /\ OnceInv' /\ HeldInv' /\ x.req \in Requests
           /\ \A q \in Requests : Answer(q)' = IF q = x.req THEN Decoded(m) ELSE Answer(q)
<1>0. TypeOK /\ CallOK /\ OnceInv /\ HeldInv
  BY TypeSplit DEF FInv, Inv
<1>1. /\ x \in Receivers /\ Once(pending_receivers, Receivers)'
      /\ QHolds(AtQueue(x), x.req, IF closed THEN Done ELSE Waiting)
      /\ \A h, r, v : QHolds(h, r, v)' <=> QHolds(h, r, v) /\ h # AtQueue(x)
  BY <1>0, QueueShrinks
<1>2. /\ \A h, r, v : PHolds(h, r, v)' <=> PHolds(h, r, v)
      /\ \A j \in Isolates : Once(inbox[j], Replies)'
  BY <1>0, InboxSame, Zenon
<1>3. /\ pc'[i] = "post" /\ call'[i].msg = m /\ call'[i].to = x /\ Target(i)' = x.req
      /\ \A j \in Isolates : j # i => pc'[j] = pc[j] /\ call'[j] = call[j]
  BY <1>0 DEF CallOK, Enter, Target
<1>4. \A h, r, v : CHolds(h, r, v)' <=> CHolds(h, r, v) \/ (h = AtCall(i) /\ r = x.req /\ v = Decoded(m))
  <2>1. \A h, r, v : CHolds(h, r, v) => h # AtCall(i)
    BY Tags, Zenon DEF CHolds
  <2>2. \A h, r, v : CHolds(h, r, v)' <=>
             \/ CHolds(h, r, v) /\ h # AtCall(i)
             \/ h = AtCall(i) /\ pc'[i] \in {"post", "moved"} /\ r = Target(i)' /\ v = Decoded(call'[i].msg)
    BY <1>0, <1>3, CallChanges, Zenon
  <2> QED  BY <1>3, <2>1, <2>2, Zenon
<1>5. \A h, r, v : Holds(h, r, v)' <=> (Holds(h, r, v) /\ h # AtQueue(x)) \/ (h = AtCall(i) /\ r = x.req /\ v = Decoded(m))
  <2>1. \A h, r, v : PHolds(h, r, v) \/ CHolds(h, r, v) => h # AtQueue(x)
    BY Tags DEF PHolds, CHolds
  <2> QED  BY <1>1, <1>2, <1>4, <2>1, Zenon DEF Holds
<1>6. Holds(AtQueue(x), x.req, IF closed THEN Done ELSE Waiting)
  BY <1>1, Zenon DEF Holds
<1>7. HeldInv'
  BY <1>0, <1>5, <1>6, HeldMoves, HoldsOne, Zenon
<1>8. AnswersHeld /\ AnswersHeld' /\ x.req \in Requests
  BY <1>1, <1>7, AnswersBoth DEF Receivers
<1>9. Answer(x.req)' = Decoded(m)
  BY <1>5, <1>8, Zenon DEF AnswersHeld
<1>10. ASSUME NEW q \in Requests, q # x.req PROVE Answer(q)' = Answer(q)
  <2>1. \A k, y : Holds(k, q, y)' <=> Holds(k, q, y)
    BY <1>5, <1>6, <1>10, HoldsOne, Zenon
  <2> QED  BY <1>0, <1>8, <2>1, AnswerSame, Zenon
<1> QED  BY <1>1, <1>2, <1>7, <1>8, <1>9, <1>10, Zenon DEF OnceInv

(* The task with the answer is posted.                                       *)
LEMMA SendPostHeld ==
    ASSUME FInv, TypeOK', NEW i \in Isolates, SendPost(i)
    PROVE  OnceInv' /\ HeldInv' /\ \A q \in Requests : Answer(q)' = Answer(q)
<1>0. TypeOK /\ CallOK /\ OnceInv /\ HeldInv
  BY TypeSplit DEF FInv, Inv
<1>c. PICK c : c = call[i]
  OBVIOUS
<1>t. PICK task : task = [kind |-> "value", req |-> c.to.req, msg |-> c.msg]
  BY Zenon
<1>1. /\ pc[i] = "post" /\ c.msg \in Messages /\ c.to \in Receivers /\ Target(i) = c.to.req
      /\ Post(c.to.isolate, task) /\ Leave(i) /\ UNCHANGED <<state, result>>
  BY <1>0, <1>c, <1>t DEF CallOK, SendPost, Target
<1>2. /\ c.to.isolate \in Isolates /\ task \in Tasks /\ task \in Replies /\ task.req = c.to.req
      /\ Reply(task) = Decoded(c.msg)
  BY <1>1, <1>t DEF Receivers, Tasks, Replies, Reply
<1>3. Holds(AtCall(i), task.req, Decoded(c.msg))
  BY <1>1, <1>2, <1>c, Zenon DEF Holds, CHolds
<1>4. task \notin Elems(inbox[c.to.isolate])
  <2>1. task \in Elems(inbox[c.to.isolate]) => Holds(AtInbox(c.to.isolate, task), task.req, Reply(task))
    BY <1>2, Zenon DEF Holds, PHolds
  <2> QED  BY <1>0, <1>3, <2>1, Tags DEF HeldInv
<1>5. /\ \A h, r, v : PHolds(h, r, v)' <=>
                 PHolds(h, r, v) \/ (h = AtInbox(c.to.isolate, task) /\ r = task.req /\ v = Decoded(c.msg))
      /\ \A j \in Isolates : Once(inbox[j], Replies)'
  <2>1. /\ \A h, r, v : PHolds(h, r, v)' <=>
                 \/ PHolds(h, r, v)
                 \/ task \in Replies /\ h = AtInbox(c.to.isolate, task) /\ r = task.req /\ v = Reply(task)
        /\ \A j \in Isolates : Once(inbox[j], Replies)'
    BY <1>0, <1>1, <1>2, <1>4, InboxGrows, Zenon
  <2>2. task \in Replies /\ Reply(task) = Decoded(c.msg)
    BY <1>2
  <2> QED  BY <2>1, <2>2
<1>6. /\ \A h, r, v : QHolds(h, r, v)' <=> QHolds(h, r, v)
      /\ Once(pending_receivers, Receivers)'
  <2>1. UNCHANGED <<pending_receivers, closed>>
    BY <1>1 DEF state
  <2> QED  BY <1>0, <2>1, QueueSame, Zenon DEF OnceInv, Once
<1>7. \A h, r, v : CHolds(h, r, v)' <=> CHolds(h, r, v) /\ h # AtCall(i)
  <2>1. pc'[i] = "idle" /\ \A j \in Isolates : j # i => pc'[j] = pc[j] /\ call'[j] = call[j]
    BY <1>0, <1>1 DEF CallOK, Leave, Enter
  <2>2. pc'[i] \notin {"post", "moved"}
    BY <2>1
  <2> QED  BY <1>0, <2>1, <2>2, CallChanges, Zenon
<1>8. \A h, r, v : Holds(h, r, v)' <=>
          (Holds(h, r, v) /\ h # AtCall(i)) \/ (h = AtInbox(c.to.isolate, task) /\ r = task.req /\ v = Decoded(c.msg))
  <2>1. \A h, r, v : PHolds(h, r, v) \/ QHolds(h, r, v) => h # AtCall(i)
    BY Tags DEF PHolds, QHolds
  <2> QED  BY <1>5, <1>6, <1>7, <2>1, Zenon DEF Holds
<1>9. HeldInv'
  <2>1. UNCHANGED result /\ \A q, y : Holds(AtCall(i), q, y) => q = task.req
    BY <1>1, <1>3, HoldsOne, Zenon
  <2> QED  BY <1>0, <1>3, <1>8, <2>1, HeldMoves, Zenon
<1>10. AnswersHeld /\ AnswersHeld'
  BY <1>9, AnswersBoth
<1>11. ASSUME NEW q \in Requests PROVE Answer(q)' = Answer(q)
  <2>1. CASE q = task.req
    BY <1>3, <1>8, <1>10, <2>1, Zenon DEF AnswersHeld
  <2>2. CASE q # task.req
    <3>1. \A k, y : Holds(k, q, y)' <=> Holds(k, q, y)
      BY <1>3, <1>8, <2>2, HoldsOne, Zenon
    <3> QED  BY <1>0, <1>1, <1>10, <3>1, AnswerSame
  <2> QED  BY <2>1, <2>2
<1> QED  BY <1>5, <1>6, <1>9, <1>11, Zenon DEF OnceInv

LEMMA NeverWaiting ==
    /\ \A m \in Messages : Decoded(m) # Waiting
    /\ Done # Waiting /\ Unasked # Waiting
    /\ \A task \in Replies : Reply(task) # Waiting
    /\ TypeOK => \A h, r, v : PHolds(h, r, v) \/ CHolds(h, r, v) => v # Waiting
<1>1. \A m \in Messages : Decoded(m) # Waiting
  BY ChannelAssumption DEF Decoded
<1>2. Done # Waiting /\ Unasked # Waiting
  BY ChannelAssumption
<1>3. \A task \in Replies : Reply(task) # Waiting
  <2> SUFFICES ASSUME NEW task \in Replies PROVE Reply(task) # Waiting
    OBVIOUS
  <2>1. task.kind = "close" \/ task.msg \in Messages
    BY DEF Replies, Tasks
  <2> QED  BY <1>1, <1>2, <2>1 DEF Reply
<1>4. TypeOK => \A h, r, v : PHolds(h, r, v) \/ CHolds(h, r, v) => v # Waiting
  BY <1>1, <1>3, HoldsType, Zenon DEF PHolds, CHolds
<1> QED  BY <1>1, <1>2, <1>3, <1>4

LEMMA CloseHeld ==
    ASSUME FInv, TypeOK', NEW i \in Isolates, Close(i)
    PROVE  /\ OnceInv' /\ HeldInv'
           /\ \A q \in Requests : Answer(q)' = IF Answer(q) = Waiting THEN Done ELSE Answer(q)
<1>0. TypeOK /\ CallOK /\ OnceInv /\ HeldInv
  BY TypeSplit DEF FInv, Inv
<1>1. /\ UNCHANGED <<pending_receivers, inbox, result, call>> /\ closed' = TRUE
      /\ pc[i] \notin {"post", "moved"} /\ pc'[i] \notin {"post", "moved"}
      /\ \A j \in Isolates : j # i => pc'[j] = pc[j] /\ call'[j] = call[j]
  BY <1>0 DEF Close, CallOK
<1>2. /\ \A h, r, v : PHolds(h, r, v)' <=> PHolds(h, r, v)
      /\ \A j \in Isolates : Once(inbox[j], Replies)'
      /\ Once(pending_receivers, Receivers)'
  <2>1. UNCHANGED inbox /\ UNCHANGED pending_receivers
    BY <1>1
  <2> QED  BY <1>0, <2>1, InboxSame, Zenon DEF OnceInv, Once
<1>3. \A h, r, v : CHolds(h, r, v)' <=> CHolds(h, r, v)
  <2>1. \A k, q, y : CHolds(k, q, y) => k # AtCall(i)
    BY <1>1, Tags, Zenon DEF CHolds
  <2> QED  BY <1>0, <1>1, <2>1, CallChanges, Zenon
<1>4. \A h, r, v : QHolds(h, r, v)' <=> v = Done /\ \E u : QHolds(h, r, u)
  <2>1. \A h, r, v : QHolds(h, r, v)' <=> \E x \in Receivers : h = AtQueue(x) /\ x \in Elems(pending_receivers) /\ r = x.req /\ v = Done
    BY <1>1 DEF QHolds
  <2> QED  BY <2>1, Zenon DEF QHolds
<1>5. \A h, r : (\E v : Holds(h, r, v)') <=> \E v : Holds(h, r, v)
  BY <1>2, <1>3, <1>4, Zenon DEF Holds
<1>6. HeldInv'
  <2>1. \A r \in Requests : result'[r] = Waiting <=> \E h, v : Holds(h, r, v)'
    BY <1>0, <1>1, <1>5, Zenon DEF HeldInv
  <2>2. ASSUME NEW g, NEW h, NEW r, NEW u, NEW v, Holds(g, r, u)', Holds(h, r, v)' PROVE g = h /\ u = v
    <3>0. (\E y : Holds(g, r, y)) /\ (\E y : Holds(h, r, y))
      BY <1>5, <2>2, Zenon
    <3>1. g = h
      BY <1>0, <3>0, Zenon DEF HeldInv
    <3>2. CASE \E y : QHolds(g, r, y)
      <4>1. \A y : ~PHolds(g, r, y) /\ ~CHolds(g, r, y)
        BY <3>2, Tags DEF QHolds, PHolds, CHolds
      <4> QED  BY <1>2, <1>3, <1>4, <2>2, <3>1, <4>1, Zenon DEF Holds
    <3>3. CASE ~\E y : QHolds(g, r, y)
      <4>1. Holds(g, r, u) /\ Holds(g, r, v)
        BY <1>2, <1>3, <1>4, <2>2, <3>1, <3>3, Zenon DEF Holds
      <4> QED  BY <1>0, <3>1, <4>1, Zenon DEF HeldInv
    <3> QED  BY <3>2, <3>3
  <2> QED  BY <2>1, <2>2, Zenon DEF HeldInv
<1>7. AnswersHeld /\ AnswersHeld'
  BY <1>6, AnswersBoth
<1>8. ASSUME NEW q \in Requests PROVE Answer(q)' = IF Answer(q) = Waiting THEN Done ELSE Answer(q)
  <2>1. CASE result[q] # Waiting
    BY <1>1, <1>7, <2>1, Zenon DEF AnswersHeld
  <2>2. CASE result[q] = Waiting
    <3>1. PICK h, v : Holds(h, q, v)
      BY <1>0, <2>2, Zenon DEF HeldInv
    <3>2. Answer(q) = v
      BY <1>7, <3>1, Zenon DEF AnswersHeld
    <3>3. CASE QHolds(h, q, v)
      <4>1. Holds(h, q, Done)'
        BY <1>4, <3>3, Zenon DEF Holds
      <4>2. v = Done \/ v = Waiting
        BY <3>3 DEF QHolds
      <4> QED  BY <1>7, <3>2, <4>1, <4>2, NeverWaiting, Zenon DEF AnswersHeld
    <3>4. CASE PHolds(h, q, v) \/ CHolds(h, q, v)
      <4>1. Holds(h, q, v)'
        BY <1>2, <1>3, <3>4, Zenon DEF Holds
      <4>2. v # Waiting
        BY <1>0, <3>4, NeverWaiting, Zenon
      <4> QED  BY <1>7, <3>2, <4>1, <4>2, Zenon DEF AnswersHeld
    <3> QED  BY <3>1, <3>3, <3>4, Zenon DEF Holds
  <2> QED  BY <2>1, <2>2
<1> QED  BY <1>2, <1>6, <1>8, Zenon DEF OnceInv

LEMMA CloseNextHeld ==
    ASSUME FInv, TypeOK', NEW i \in Isolates, CloseNext(i)
    PROVE  OnceInv' /\ HeldInv' /\ closed /\ \A q \in Requests : Answer(q)' = Answer(q)
<1>0. TypeOK /\ CallOK /\ OnceInv /\ HeldInv
  BY TypeSplit DEF FInv, Inv
<1>x. PICK x : x = Head(pending_receivers)
  OBVIOUS
<1>t. PICK task : task = [kind |-> "close", req |-> x.req]
  BY Zenon
<1>1. pc[i] = "closing" /\ closed = TRUE /\ pending_receivers # <<>>
  BY <1>0 DEF FInv, Inv, NobodyWaitsInVain, MutexFree, CloseNext, TypeOK
<1>2. /\ Post(x.isolate, task) /\ pending_receivers' = Tail(pending_receivers)
      /\ UNCHANGED <<closed, call, result>>
  BY <1>x, <1>t DEF CloseNext
<1>3. /\ x \in Receivers /\ Once(pending_receivers, Receivers)'
      /\ QHolds(AtQueue(x), x.req, Done)
      /\ \A h, r, v : QHolds(h, r, v)' <=> QHolds(h, r, v) /\ h # AtQueue(x)
  BY <1>0, <1>x, <1>1, <1>2, QueueShrinks
<1>4. /\ x.isolate \in Isolates /\ x.req \in Requests /\ task \in Tasks /\ task \in Replies
      /\ task.req = x.req /\ Reply(task) = Done
  BY <1>3, <1>t DEF Receivers, Tasks, Replies, Reply
<1>5. Holds(AtQueue(x), task.req, Done)
  BY <1>3, <1>4, Zenon DEF Holds
<1>6. task \notin Elems(inbox[x.isolate])
  <2>1. task \in Elems(inbox[x.isolate]) => Holds(AtInbox(x.isolate, task), task.req, Reply(task))
    BY <1>4, Zenon DEF Holds, PHolds
  <2> QED  BY <1>0, <1>5, <2>1, Tags DEF HeldInv
<1>7. /\ \A h, r, v : PHolds(h, r, v)' <=>
                 PHolds(h, r, v) \/ (h = AtInbox(x.isolate, task) /\ r = task.req /\ v = Done)
      /\ \A j \in Isolates : Once(inbox[j], Replies)'
  BY <1>0, <1>2, <1>4, <1>6, InboxGrows
<1>8. \A h, r, v : CHolds(h, r, v)' <=> CHolds(h, r, v)
  <2>1. /\ pc[i] \notin {"post", "moved"} /\ pc'[i] \notin {"post", "moved"}
        /\ \A j \in Isolates : j # i => pc'[j] = pc[j] /\ call'[j] = call[j]
    BY <1>0, <1>1 DEF CloseNext, CallOK
  <2>2. \A k, q, y : CHolds(k, q, y) => k # AtCall(i)
    BY <2>1, Tags, Zenon DEF CHolds
  <2> QED  BY <1>0, <2>1, <2>2, CallChanges, Zenon
<1>9. \A h, r, v : Holds(h, r, v)' <=>
          (Holds(h, r, v) /\ h # AtQueue(x)) \/ (h = AtInbox(x.isolate, task) /\ r = task.req /\ v = Done)
  <2>1. \A h, r, v : PHolds(h, r, v) \/ CHolds(h, r, v) => h # AtQueue(x)
    BY Tags DEF PHolds, CHolds
  <2> SUFFICES ASSUME NEW h, NEW r, NEW v
               PROVE  Holds(h, r, v)' <=>
                        (Holds(h, r, v) /\ h # AtQueue(x)) \/ (h = AtInbox(x.isolate, task) /\ r = task.req /\ v = Done)
    OBVIOUS
  <2>2. /\ QHolds(h, r, v)' <=> QHolds(h, r, v) /\ h # AtQueue(x)
        /\ PHolds(h, r, v)' <=> PHolds(h, r, v) \/ (h = AtInbox(x.isolate, task) /\ r = task.req /\ v = Done)
        /\ CHolds(h, r, v)' <=> CHolds(h, r, v)
        /\ PHolds(h, r, v) \/ CHolds(h, r, v) => h # AtQueue(x)
    BY <1>3, <1>7, <1>8, <2>1, Zenon
  <2> QED  BY <2>2 DEF Holds
<1>10. HeldInv'
  <2>1. UNCHANGED result /\ \A q, y : Holds(AtQueue(x), q, y) => q = task.req
    BY <1>2, <1>5, HoldsOne, Zenon
  <2> QED  BY <1>0, <1>5, <1>9, <2>1, HeldMoves, Zenon
<1>11. AnswersHeld /\ AnswersHeld'
  BY <1>10, AnswersBoth
<1>12. ASSUME NEW q \in Requests PROVE Answer(q)' = Answer(q)
  <2>1. CASE q = task.req
    BY <1>5, <1>9, <1>11, <2>1, Zenon DEF AnswersHeld
  <2>2. CASE q # task.req
    <3>1. \A k, y : Holds(k, q, y)' <=> Holds(k, q, y)
      BY <1>5, <1>9, <2>2, HoldsOne, Zenon
    <3> QED  BY <1>0, <1>2, <1>11, <3>1, AnswerSame
  <2> QED  BY <2>1, <2>2
<1> QED  BY <1>1, <1>3, <1>7, <1>10, <1>12, Zenon DEF OnceInv

(* A request that is answered at once, waits for its message to be copied,   *)
(* or waits for a message.                                                   *)
LEMMA RecvHeld ==
    ASSUME FInv, TypeOK', NEW i \in Isolates, NEW r \in Requests, Recv(i, r)
    PROVE  /\ OnceInv' /\ HeldInv' /\ Answer(r) = Unasked
           /\ \A q \in Requests : q # r => Answer(q)' = Answer(q)
           /\ messages # <<>> => Answer(r)' = Decoded(Head(messages))
           /\ messages = <<>> => Answer(r)' = IF closed THEN Done ELSE Waiting
<1>0. TypeOK /\ CallOK /\ DataOK /\ OnceInv /\ HeldInv
  BY TypeSplit DEF FInv, Inv
<1>1. /\ UNCHANGED <<closed, inbox, sent>> /\ pc[i] = "idle" /\ pc[i] \notin {"post", "moved"}
      /\ result[r] = Unasked /\ result[r] # Waiting
  BY NeverWaiting DEF Recv
<1>2. messages # <<>> => Head(messages) \in Messages
  BY <1>0, SeqFacts, Zenon DEF TypeOK
<1>3. ASSUME NEW v, v # Waiting, result' = [result EXCEPT ![r] = v], UNCHANGED <<pending_receivers, pc, call>>
      PROVE  OnceInv' /\ HeldInv' /\ result'[r] # Waiting /\ result'[r] = v
             /\ \A q \in Requests : q # r => (\A k, y : Holds(k, q, y)' <=> Holds(k, q, y))
  <2>1. OnceInv' /\ \A k, q, y : Holds(k, q, y)' <=> Holds(k, q, y)
    BY <1>0, <1>1, <1>3, QuietHolds
  <2>2. HeldInv'
    BY <1>0, <1>1, <1>3, <2>1, HeldAnswered, Zenon
  <2>3. result'[r] = v
    BY <1>0, <1>3 DEF DataOK
  <2> QED  BY <1>3, <2>1, <2>2, <2>3
<1>4. ASSUME HeldInv', \A q \in Requests : q # r => (\A k, y : Holds(k, q, y)' <=> Holds(k, q, y)),
             NEW v, result' = [result EXCEPT ![r] = v],
             NEW u, (result'[r] # Waiting /\ result'[r] = u) \/ \E h : Holds(h, r, u)'
      PROVE  /\ Answer(r) = Unasked /\ Answer(r)' = u
             /\ \A q \in Requests : q # r => Answer(q)' = Answer(q)
  <2>1. AnswersHeld /\ AnswersHeld'
    BY <1>4, AnswersBoth
  <2>2. Answer(r) = Unasked /\ Answer(r)' = u
    BY <1>1, <1>4, <2>1, Zenon DEF AnswersHeld
  <2>3. ASSUME NEW q \in Requests, q # r PROVE Answer(q)' = Answer(q)
    <3>1. result'[q] = result[q]
      BY <1>0, <1>4, <2>3 DEF DataOK
    <3>2. \A k, y : Holds(k, q, y)' <=> Holds(k, q, y)
      BY <1>4, <2>3, Zenon
    <3> QED  BY <1>0, <2>1, <3>1, <3>2, AnswerSame
  <2> QED  BY <2>2, <2>3
<1>5. CASE /\ Exhausted
           /\ result' = [result EXCEPT ![r] = Done]
           /\ UNCHANGED <<messages, pending_receivers, pending_senders, pc, call>>
  <2>1. messages = <<>> /\ closed
    BY <1>5 DEF Exhausted
  <2> QED  BY <1>3, <1>4, <1>5, <2>1, NeverWaiting, Zenon
<1>6. CASE /\ messages # <<>> /\ pending_senders = <<>>
           /\ messages' = Tail(messages)
           /\ result' = [result EXCEPT ![r] = Decoded(Head(messages))]
           /\ UNCHANGED <<pending_receivers, pending_senders, pc, call>>
  <2>1. Decoded(Head(messages)) # Waiting
    BY <1>2, <1>6, NeverWaiting
  <2> QED  BY <1>3, <1>4, <1>6, <2>1, ZenonT(40)
<1>7. CASE /\ messages # <<>> /\ pending_senders # <<>>
           /\ messages' = Refilled(Tail(messages))
           /\ pending_senders' = Tail(pending_senders)
           /\ result' = [result EXCEPT ![r] = Waiting]
           /\ Enter(i, "moved", [kind |-> "moved", req |-> r, msg |-> Head(messages),
                                 to |-> Head(pending_senders)])
           /\ UNCHANGED pending_receivers
  <2>m. PICK m : m = Head(messages)
    OBVIOUS
  <2>1. /\ pc'[i] \in {"post", "moved"} /\ call'[i].msg = m /\ Target(i)' = r
        /\ \A j \in Isolates : j # i => pc'[j] = pc[j] /\ call'[j] = call[j]
    BY <1>0, <1>7, <2>m DEF CallOK, Enter, Target
  <2>2. \A h, q, v : CHolds(h, q, v)' <=> CHolds(h, q, v) \/ (h = AtCall(i) /\ q = r /\ v = Decoded(m))
    <3>1. \A h, q, v : CHolds(h, q, v) => h # AtCall(i)
      BY <1>1, Tags, Zenon DEF CHolds
    <3>2. \A h, q, v : CHolds(h, q, v)' <=>
               \/ CHolds(h, q, v) /\ h # AtCall(i)
               \/ h = AtCall(i) /\ pc'[i] \in {"post", "moved"} /\ q = Target(i)' /\ v = Decoded(call'[i].msg)
      BY <1>0, <2>1, CallChanges, Zenon
    <3> QED  BY <2>1, <3>1, <3>2, Zenon
  <2>3. /\ \A h, q, v : QHolds(h, q, v)' <=> QHolds(h, q, v)
        /\ \A h, q, v : PHolds(h, q, v)' <=> PHolds(h, q, v)
        /\ \A j \in Isolates : Once(inbox[j], Replies)'
        /\ Once(pending_receivers, Receivers)'
    <3>1. UNCHANGED <<pending_receivers, closed>> /\ UNCHANGED inbox
      BY <1>1, <1>7
    <3> QED  BY <1>0, <3>1, QueueSame, InboxSame, Zenon DEF OnceInv, Once
  <2>4. \A h, q, v : Holds(h, q, v)' <=> Holds(h, q, v) \/ (h = AtCall(i) /\ q = r /\ v = Decoded(m))
    BY <2>2, <2>3, Zenon DEF Holds
  <2>5. HeldInv'
    BY <1>0, <1>1, <1>7, <2>4, HeldGrows, Zenon
  <2>6. OnceInv'
    BY <2>3, Zenon DEF OnceInv
  <2>7. /\ \E h : Holds(h, r, Decoded(m))'
        /\ \A q \in Requests : q # r => (\A k, y : Holds(k, q, y)' <=> Holds(k, q, y))
    BY <2>4, Zenon
  <2>8. Answer(r) = Unasked /\ Answer(r)' = Decoded(m) /\ \A q \in Requests : q # r => Answer(q)' = Answer(q)
    BY <1>4, <1>7, <2>5, <2>7, Zenon
  <2> QED  BY <1>7, <2>m, <2>5, <2>6, <2>8, Zenon
<1>8. CASE /\ ~Exhausted /\ messages = <<>>
           /\ pending_receivers' = Append(pending_receivers, [req |-> r, isolate |-> i])
           /\ result' = [result EXCEPT ![r] = Waiting]
           /\ UNCHANGED <<messages, pending_senders, pc, call>>
  <2>x. PICK x : x = [req |-> r, isolate |-> i]
    BY Zenon
  <2>r. x \in Receivers /\ x.req = r
    BY <2>x DEF Receivers
  <2>1. ~closed
    BY <1>8 DEF Exhausted
  <2>2. x \notin Elems(pending_receivers)
    <3>1. x \in Elems(pending_receivers) => \E v : Holds(AtQueue(x), r, v)
      BY <2>r, Zenon DEF Holds, QHolds
    <3> QED  BY <1>0, <1>1, <3>1, Zenon DEF HeldInv
  <2>3. /\ \A h, q, v : QHolds(h, q, v)' <=> QHolds(h, q, v) \/ (h = AtQueue(x) /\ q = r /\ v = Waiting)
        /\ Once(pending_receivers, Receivers)'
    <3>1. pending_receivers' = Append(pending_receivers, x) /\ closed' = closed
      BY <1>1, <1>8, <2>x
    <3> QED  BY <1>0, <2>r, <2>1, <2>2, <3>1, QueueGrows
  <2>4. /\ \A h, q, v : CHolds(h, q, v)' <=> CHolds(h, q, v)
        /\ \A h, q, v : PHolds(h, q, v)' <=> PHolds(h, q, v)
        /\ \A j \in Isolates : Once(inbox[j], Replies)'
    <3>1. UNCHANGED <<pc, call>> /\ UNCHANGED inbox
      BY <1>1, <1>8
    <3> QED  BY <1>0, <3>1, CallSame, InboxSame, Zenon
  <2>5. \A h, q, v : Holds(h, q, v)' <=> Holds(h, q, v) \/ (h = AtQueue(x) /\ q = r /\ v = Waiting)
    <3> SUFFICES ASSUME NEW h, NEW q, NEW v
                 PROVE  Holds(h, q, v)' <=> Holds(h, q, v) \/ (h = AtQueue(x) /\ q = r /\ v = Waiting)
      OBVIOUS
    <3>1. /\ QHolds(h, q, v)' <=> QHolds(h, q, v) \/ (h = AtQueue(x) /\ q = r /\ v = Waiting)
          /\ PHolds(h, q, v)' <=> PHolds(h, q, v)
          /\ CHolds(h, q, v)' <=> CHolds(h, q, v)
      BY <2>3, <2>4
    <3> QED  BY <3>1 DEF Holds
  <2>6. HeldInv'
    BY <1>0, <1>1, <1>8, <2>5, HeldGrows, Zenon
  <2>7. OnceInv'
    BY <2>3, <2>4, Zenon DEF OnceInv
  <2>8. /\ \E h : Holds(h, r, Waiting)'
        /\ \A q \in Requests : q # r => (\A k, y : Holds(k, q, y)' <=> Holds(k, q, y))
    BY <2>5, Zenon
  <2>9. Answer(r) = Unasked /\ Answer(r)' = Waiting /\ \A q \in Requests : q # r => Answer(q)' = Answer(q)
    BY <1>4, <1>8, <2>6, <2>8, Zenon
  <2> QED  BY <1>8, <2>1, <2>6, <2>7, <2>9, Zenon
<1> QED  BY <1>5, <1>6, <1>7, <1>8, Zenon DEF Recv

(* The answer arrives.                                                       *)
LEMMA ArrivesHeld ==
    ASSUME FInv, TypeOK', HeldInv', NEW h, NEW r \in Requests, NEW u, Holds(h, r, u),
           \A k, q, y : Holds(k, q, y)' <=> Holds(k, q, y) /\ k # h,
           result' = [result EXCEPT ![r] = u], u # Waiting, NEW q \in Requests
    PROVE  Answer(q)' = Answer(q)
<1>0. DataOK /\ HeldInv /\ AnswersHeld /\ AnswersHeld'
  BY TypeSplit, AnswersBoth DEF FInv, Inv
<1>1. CASE q = r
  <2>1. result'[q] = u
    BY <1>0, <1>1 DEF DataOK
  <2> QED  BY <1>0, <1>1, <2>1, Zenon DEF AnswersHeld
<1>2. CASE q # r
  <2>1. result'[q] = result[q]
    BY <1>0, <1>2 DEF DataOK
  <2>2. \A k, y : Holds(k, q, y)' <=> Holds(k, q, y)
    BY <1>2, HoldsOne, Zenon
  <2> QED  BY <1>0, <2>1, <2>2, AnswerSame
<1> QED  BY <1>1, <1>2

LEMMA RecvPostHeld ==
    ASSUME FInv, TypeOK', NEW i \in Isolates, RecvPost(i)
    PROVE  OnceInv' /\ HeldInv' /\ \A q \in Requests : Answer(q)' = Answer(q)
<1>0. TypeOK /\ CallOK /\ DataOK /\ OnceInv /\ HeldInv
  BY TypeSplit DEF FInv, Inv
<1>c. PICK c : c = call[i]
  OBVIOUS
<1>t. PICK task : task = [kind |-> "sent", msg |-> c.to.msg]
  BY Zenon
<1>1. /\ pc[i] = "moved" /\ c.msg \in Messages /\ c.to \in Senders /\ c.req \in Requests /\ Target(i) = c.req
      /\ Post(c.to.isolate, task) /\ Leave(i) /\ UNCHANGED <<state, sent>>
      /\ result' = [result EXCEPT ![c.req] = Decoded(c.msg)]
  BY <1>0, <1>c, <1>t DEF CallOK, RecvPost, Target
<1>2. c.to.isolate \in Isolates /\ task \in Tasks /\ task \notin Replies
  BY <1>1, <1>t DEF Senders, Tasks, Replies
<1>3. Holds(AtCall(i), c.req, Decoded(c.msg)) /\ Decoded(c.msg) # Waiting
  <2>1. pc[i] \in {"post", "moved"}
    BY <1>1
  <2> QED  BY <1>1, <1>c, <2>1, NeverWaiting, Zenon DEF Holds, CHolds
<1>4. /\ \A h, r, v : PHolds(h, r, v)' <=> PHolds(h, r, v)
      /\ \A j \in Isolates : Once(inbox[j], Replies)'
  BY <1>0, <1>1, <1>2, InboxGrows
<1>5. /\ \A h, r, v : QHolds(h, r, v)' <=> QHolds(h, r, v)
      /\ Once(pending_receivers, Receivers)'
  <2>1. UNCHANGED <<pending_receivers, closed>>
    BY <1>1 DEF state
  <2> QED  BY <1>0, <2>1, QueueSame, Zenon DEF OnceInv, Once
<1>6. \A h, r, v : CHolds(h, r, v)' <=> CHolds(h, r, v) /\ h # AtCall(i)
  <2>1. pc'[i] = "idle" /\ \A j \in Isolates : j # i => pc'[j] = pc[j] /\ call'[j] = call[j]
    BY <1>0, <1>1 DEF CallOK, Leave, Enter
  <2>2. pc'[i] \notin {"post", "moved"}
    BY <2>1
  <2> QED  BY <1>0, <2>1, <2>2, CallChanges, Zenon
<1>7. \A h, r, v : Holds(h, r, v)' <=> Holds(h, r, v) /\ h # AtCall(i)
  <2>1. \A h, r, v : PHolds(h, r, v) \/ QHolds(h, r, v) => h # AtCall(i)
    BY Tags DEF PHolds, QHolds
  <2> QED  BY <1>4, <1>5, <1>6, <2>1, Zenon DEF Holds
<1>8. HeldInv'
  <2>1. \A q, y : Holds(AtCall(i), q, y) => q = c.req
    BY <1>3, HoldsOne, Zenon
  <2> QED  BY <1>0, <1>1, <1>3, <1>7, <2>1, HeldDrops, Zenon
<1>9. \A q \in Requests : Answer(q)' = Answer(q)
  BY <1>1, <1>3, <1>7, <1>8, ArrivesHeld, Zenon
<1> QED  BY <1>4, <1>5, <1>8, <1>9, Zenon DEF OnceInv

LEMMA RunInternalHeld ==
    ASSUME FInv, TypeOK', NEW i \in Isolates, RunInternal(i)
    PROVE  OnceInv' /\ HeldInv' /\ \A q \in Requests : Answer(q)' = Answer(q)
<1>0. TypeOK /\ CallOK /\ DataOK /\ OnceInv /\ HeldInv
  BY TypeSplit DEF FInv, Inv
<1>t. PICK task : task = Head(inbox[i])
  OBVIOUS
<1>1. /\ inbox[i] # <<>> /\ inbox' = [inbox EXCEPT ![i] = Tail(@)] /\ UNCHANGED <<state, pc, call>>
      /\ \/ task.kind = "sent" /\ UNCHANGED result
         \/ task.kind = "value" /\ result' = [result EXCEPT ![task.req] = Decoded(task.msg)]
         \/ task.kind = "close" /\ result' = [result EXCEPT ![task.req] = Done]
  BY <1>t, ZenonT(40) DEF RunInternal
<1>2. /\ task \in Tasks
      /\ task \in Replies => PHolds(AtInbox(i, task), task.req, Reply(task))
      /\ \A h, r, v : PHolds(h, r, v)' <=> PHolds(h, r, v) /\ h # AtInbox(i, task)
      /\ \A j \in Isolates : Once(inbox[j], Replies)'
  BY <1>0, <1>t, <1>1, InboxShrinks, Zenon
<1>3. /\ \A h, r, v : QHolds(h, r, v)' <=> QHolds(h, r, v)
      /\ \A h, r, v : CHolds(h, r, v)' <=> CHolds(h, r, v)
      /\ Once(pending_receivers, Receivers)'
  <2>1. UNCHANGED <<pending_receivers, closed>> /\ UNCHANGED <<pc, call>>
    BY <1>1 DEF state
  <2> QED  BY <1>0, <2>1, QueueSame, CallSame, Zenon DEF OnceInv, Once
<1>4. \A h, r, v : Holds(h, r, v)' <=> Holds(h, r, v) /\ h # AtInbox(i, task)
  <2>1. \A h, r, v : QHolds(h, r, v) \/ CHolds(h, r, v) => h # AtInbox(i, task)
    BY Tags DEF QHolds, CHolds
  <2> QED  BY <1>2, <1>3, <2>1, Zenon DEF Holds
<1>5. CASE task.kind = "sent"
  <2>1. task \notin Replies /\ UNCHANGED result
    BY <1>1, <1>5 DEF Replies
  <2>2. \A h, r, v : Holds(h, r, v) => h # AtInbox(i, task)
    BY <2>1, Tags DEF Holds, QHolds, PHolds, CHolds
  <2>3. \A h, r, v : Holds(h, r, v)' <=> Holds(h, r, v)
    BY <1>4, <2>2, Zenon
  <2>4. HeldInv'
    BY <1>0, <2>1, <2>3, HeldSame
  <2>5. ASSUME NEW q \in Requests PROVE Answer(q)' = Answer(q)
    BY <1>0, <2>1, <2>3, <2>4, AnswersBoth, AnswerSame
  <2> QED  BY <1>2, <1>3, <2>4, <2>5, Zenon DEF OnceInv
<1>6. CASE task.kind # "sent"
  <2>1. task \in Replies /\ task.req \in Requests /\ result' = [result EXCEPT ![task.req] = Reply(task)]
    BY <1>1, <1>2, <1>6 DEF Replies, Tasks, Reply
  <2>2. Holds(AtInbox(i, task), task.req, Reply(task)) /\ Reply(task) # Waiting
    BY <1>2, <2>1, NeverWaiting, Zenon DEF Holds
  <2>3. HeldInv'
    <3>1. \A q, y : Holds(AtInbox(i, task), q, y) => q = task.req
      BY <2>2, HoldsOne, Zenon
    <3> QED  BY <1>0, <1>4, <2>1, <2>2, <3>1, HeldDrops, Zenon
  <2>4. \A q \in Requests : Answer(q)' = Answer(q)
    BY <1>4, <2>1, <2>2, <2>3, ArrivesHeld, Zenon
  <2> QED  BY <1>2, <1>3, <2>3, <2>4, Zenon DEF OnceInv
<1> QED  BY <1>5, <1>6

(* Sequences that are given as functions.                                    *)
LEMMA FunctionSeq ==
    ASSUME NEW S, NEW n \in Nat, NEW f \in [1..n -> S]
    PROVE  f \in Seq(S) /\ Len(f) = n /\ (f = <<>> <=> n = 0)
<1>1. f \in Seq(S)
  BY SeqDef
<1>2. Len(f) = n
  BY <1>1, LenProperties
<1> QED  BY <1>1, <1>2, SeqFacts

LEMMA FunctionTail ==
    ASSUME NEW S, NEW n \in Nat, NEW f \in [1..(n + 1) -> S], NEW g \in [1..n -> S],
           \A k \in 1..n : g[k] = f[k + 1]
    PROVE  f # <<>> /\ g = Tail(f) /\ Head(f) = f[1]
<1>1. n + 1 \in Nat /\ n + 1 # 0
  OBVIOUS
<1>2. f \in Seq(S) /\ Len(f) = n + 1 /\ f # <<>>
  BY <1>1, FunctionSeq
<1>3. g \in Seq(S) /\ Len(g) = n
  BY FunctionSeq
<1>4. Tail(f) \in Seq(S) /\ Len(Tail(f)) = n /\ \A k \in 1..n : Tail(f)[k] = f[k + 1]
  BY <1>2, HeadTailProperties
<1> QED  BY <1>2, <1>3, <1>4, SeqEqual

LEMMA FunctionAppend ==
    ASSUME NEW S, NEW n \in Nat, NEW f \in [1..n -> S], NEW g \in [1..(n + 1) -> S],
           \A k \in 1..n : g[k] = f[k]
    PROVE  g = Append(f, g[n + 1])
<1>0. n + 1 \in Nat /\ n + 1 \in 1..(n + 1) /\ \A k \in 1..(n + 1) : k \in 1..n \/ k = n + 1
  OBVIOUS
<1>1. f \in Seq(S) /\ Len(f) = n
  BY FunctionSeq
<1>2. g \in Seq(S) /\ Len(g) = n + 1 /\ g[n + 1] \in S
  BY <1>0, FunctionSeq
<1>3. /\ Append(f, g[n + 1]) \in Seq(S) /\ Len(Append(f, g[n + 1])) = n + 1
      /\ Append(f, g[n + 1])[n + 1] = g[n + 1] /\ \A k \in 1..n : Append(f, g[n + 1])[k] = f[k]
  BY <1>1, <1>2, AppendProperties
<1>4. \A k \in 1..(n + 1) : g[k] = Append(f, g[n + 1])[k]
  BY <1>0, <1>3
<1> QED  BY <1>2, <1>3, <1>4, SeqEqual

(* The queue of the abstract channel, position by position.                  *)
Values == Messages \cup {Failed}
ItemsOK ==
    /\ Items \in [1..(Len(messages) + Len(pending_senders)) -> Values]
    /\ \A k \in 1..Len(messages) : Items[k] = Decoded(messages[k])
    /\ \A k \in 1..Len(pending_senders) : Items[Len(messages) + k] = Decoded(pending_senders[k].msg)

LEMMA ItemsFacts == TypeOK => ItemsOK
<1> SUFFICES ASSUME TypeOK PROVE ItemsOK
  OBVIOUS
<1>n. PICK n \in Nat, p \in Nat : n = Len(messages) /\ p = Len(pending_senders)
  BY SeqFacts DEF TypeOK
<1>1. /\ \A k \in 1..n : messages[k] \in Messages
      /\ \A k \in 1..p : pending_senders[k].msg \in Messages
  <2>1. /\ \A k \in 1..n : messages[k] \in Messages
        /\ \A k \in 1..p : pending_senders[k] \in Senders
    BY <1>n DEF TypeOK
  <2> QED  BY <2>1 DEF Senders
<1>2. \A m \in Messages : Decoded(m) \in Values
  BY DEF Decoded, Values
<1>3. /\ 1..n \subseteq 1..(n + p) /\ \A k \in 1..n : k <= n
      /\ \A k \in 1..p : n + k \in 1..(n + p) /\ ~(n + k <= n) /\ (n + k) - n = k
      /\ \A k \in 1..(n + p) : ~(k <= n) => k - n \in 1..p
      /\ \A k \in 1..(n + p) : k <= n => k \in 1..n
  OBVIOUS
<1>4. Items = [k \in 1..(n + p) |-> Decoded(IF k <= n THEN messages[k] ELSE pending_senders[k - n].msg)]
  BY <1>n DEF Items
<1>5. \A k \in 1..(n + p) : Items[k] = Decoded(IF k <= n THEN messages[k] ELSE pending_senders[k - n].msg)
  BY <1>4
<1>6. Items \in [1..(n + p) -> Values]
  <2>1. \A k \in 1..(n + p) : (IF k <= n THEN messages[k] ELSE pending_senders[k - n].msg) \in Messages
    BY <1>1, <1>3
  <2> QED  BY <1>2, <1>4, <2>1, Zenon
<1>7. \A k \in 1..n : Items[k] = Decoded(messages[k])
  BY <1>3, <1>5
<1>8. \A k \in 1..p : Items[n + k] = Decoded(pending_senders[k].msg)
  BY <1>3, <1>5
<1> QED  BY <1>n, <1>6, <1>7, <1>8 DEF ItemsOK

LEMMA ItemsFactsNext == TypeOK' => ItemsOK'
  BY ItemsFacts, PTL

LEMMA NoItems ==
    ASSUME TypeOK, messages = <<>>, pending_senders = <<>>
    PROVE  Items = <<>>
<1>1. Len(messages) = 0 /\ Len(pending_senders) = 0
  BY SeqFacts
<1>2. Items \in [1..0 -> Values]
  BY <1>1, ItemsFacts DEF ItemsOK
<1> QED  BY <1>2, FunctionSeq

(* A message enters at the end, into the buffer or behind it.                *)
LEMMA ItemsBuffer ==
    ASSUME TypeOK, TypeOK', NEW m \in Messages, pending_senders = <<>>, pending_senders' = <<>>,
           messages' = Append(messages, m)
    PROVE  Items' = Append(Items, Decoded(m))
<1>n. PICK n \in Nat : n = Len(messages)
  BY SeqFacts DEF TypeOK
<1>1. /\ Len(messages') = n + 1 /\ messages'[n + 1] = m /\ \A k \in 1..n : messages'[k] = messages[k]
      /\ Len(pending_senders) = 0 /\ Len(pending_senders') = 0
  BY <1>n, AppendProperties, SeqFacts DEF TypeOK
<1>2. n + 0 = n /\ (n + 1) + 0 = n + 1 /\ n + 1 \in 1..(n + 1) /\ 1..n \subseteq 1..(n + 1)
  OBVIOUS
<1>3. Items \in [1..n -> Values] /\ \A k \in 1..n : Items[k] = Decoded(messages[k])
  BY <1>n, <1>1, <1>2, ItemsFacts DEF ItemsOK
<1>4. Items' \in [1..(n + 1) -> Values] /\ \A k \in 1..(n + 1) : Items'[k] = Decoded(messages'[k])
  BY <1>1, <1>2, ItemsFactsNext DEF ItemsOK
<1>5. Items'[n + 1] = Decoded(m) /\ \A k \in 1..n : Items'[k] = Items[k]
  BY <1>1, <1>2, <1>3, <1>4
<1> QED  BY <1>3, <1>4, <1>5, FunctionAppend

LEMMA ItemsQueue ==
    ASSUME TypeOK, TypeOK', NEW x \in Senders, messages' = messages,
           pending_senders' = Append(pending_senders, x)
    PROVE  Items' = Append(Items, Decoded(x.msg))
<1>n. PICK n \in Nat, p \in Nat : n = Len(messages) /\ p = Len(pending_senders)
  BY SeqFacts DEF TypeOK
<1>1. /\ Len(messages') = n /\ Len(pending_senders') = p + 1 /\ pending_senders'[p + 1] = x
      /\ \A k \in 1..p : pending_senders'[k] = pending_senders[k]
  BY <1>n, AppendProperties DEF TypeOK
<1>2. /\ n + (p + 1) = (n + p) + 1 /\ p + 1 \in 1..(p + 1) /\ 1..p \subseteq 1..(p + 1)
      /\ \A k \in 1..(n + p) : k \in 1..n \/ \E j \in 1..p : k = n + j
  <2>1. \A k \in 1..(n + p) : k \notin 1..n => k - n \in 1..p /\ k = n + (k - n)
    OBVIOUS
  <2>2. \A k \in 1..(n + p) : k \in 1..n \/ \E j \in 1..p : k = n + j
    BY <2>1, Zenon
  <2> QED  BY <2>2
<1>3. /\ Items \in [1..(n + p) -> Values] /\ \A k \in 1..n : Items[k] = Decoded(messages[k])
      /\ \A k \in 1..p : Items[n + k] = Decoded(pending_senders[k].msg)
  BY <1>n, ItemsFacts DEF ItemsOK
<1>4. /\ Items' \in [1..((n + p) + 1) -> Values] /\ \A k \in 1..n : Items'[k] = Decoded(messages[k])
      /\ \A k \in 1..(p + 1) : Items'[n + k] = Decoded(pending_senders'[k].msg)
  BY <1>1, <1>2, ItemsFactsNext DEF ItemsOK
<1>5. Items'[(n + p) + 1] = Decoded(x.msg)
  BY <1>1, <1>2, <1>4
<1>6. ASSUME NEW k \in 1..(n + p) PROVE Items'[k] = Items[k]
  <2>1. CASE k \in 1..n
    BY <1>3, <1>4, <2>1, Zenon
  <2>2. CASE k \notin 1..n
    <3>1. PICK j \in 1..p : k = n + j
      BY <1>2, <2>2, Zenon
    <3>2. j \in 1..(p + 1) /\ pending_senders'[j] = pending_senders[j]
      BY <1>1, <1>2
    <3>3. Items'[n + j] = Items[n + j]
      BY <1>3, <1>4, <3>2, Zenon
    <3> QED  BY <3>1, <3>3
  <2> QED  BY <2>1, <2>2
<1>7. n + p \in Nat
  OBVIOUS
<1> QED  BY <1>3, <1>4, <1>5, <1>6, <1>7, FunctionAppend

(* The first message leaves, and the first sender that waits moves up.       *)
LEMMA ItemsLeave ==
    ASSUME TypeOK, TypeOK', messages # <<>>,
           \/ pending_senders' = pending_senders /\ messages' = Tail(messages)
           \/ /\ pending_senders # <<>> /\ pending_senders' = Tail(pending_senders)
              /\ messages' = Append(Tail(messages), Head(pending_senders).msg)
    PROVE  Items # <<>> /\ Items' = Tail(Items) /\ Head(Items) = Decoded(Head(messages))
<1>n. PICK n \in Nat, p \in Nat : n + 1 = Len(messages) /\ p = Len(pending_senders)
  <2>1. Len(messages) \in Nat /\ Len(messages) # 0 /\ Len(pending_senders) \in Nat
    BY SeqFacts DEF TypeOK
  <2>2. \A n \in Nat : n # 0 => n - 1 \in Nat /\ (n - 1) + 1 = n
    OBVIOUS
  <2> QED  BY <2>1, <2>2, Zenon
<1>1. /\ Tail(messages) \in Seq(Messages) /\ Len(Tail(messages)) = n /\ Head(messages) = messages[1]
      /\ \A k \in 1..n : Tail(messages)[k] = messages[k + 1]
  BY <1>n, HeadTailProperties DEF TypeOK
<1>2. /\ Items \in [1..((n + 1) + p) -> Values] /\ \A k \in 1..(n + 1) : Items[k] = Decoded(messages[k])
      /\ \A k \in 1..p : Items[(n + 1) + k] = Decoded(pending_senders[k].msg)
  BY <1>n, ItemsFacts, Zenon DEF ItemsOK
<1>3. /\ (n + 1) + p = (n + p) + 1 /\ n + p \in Nat /\ 1 \in 1..(n + 1)
      /\ \A k \in 1..n : k + 1 \in 1..(n + 1)
      /\ \A k \in 1..(n + p) : k \in 1..n \/ \E j \in 1..p : k = n + j /\ k + 1 = (n + 1) + j
  <2>1. \A k \in 1..(n + p) : k \notin 1..n => k - n \in 1..p /\ k = n + (k - n) /\ k + 1 = (n + 1) + (k - n)
    OBVIOUS
  <2>2. \A k \in 1..(n + p) : k \in 1..n \/ \E j \in 1..p : k = n + j /\ k + 1 = (n + 1) + j
    BY <2>1, Zenon
  <2> QED  BY <2>2
<1>4. Items' \in [1..(n + p) -> Values] /\ \A k \in 1..(n + p) : Items'[k] = Items[k + 1]
  <2>1. CASE pending_senders' = pending_senders /\ messages' = Tail(messages)
    <3>1. /\ Items' \in [1..(n + p) -> Values] /\ \A k \in 1..n : Items'[k] = Decoded(messages'[k])
          /\ \A k \in 1..p : Items'[n + k] = Decoded(pending_senders[k].msg)
      BY <1>n, <1>1, <2>1, ItemsFactsNext, Zenon DEF ItemsOK
    <3>2. \A k \in 1..n : Items'[k] = Items[k + 1]
      BY <1>1, <1>2, <1>3, <2>1, <3>1
    <3>3. \A j \in 1..p : Items'[n + j] = Items[(n + 1) + j]
      BY <1>2, <3>1, Zenon
    <3> QED  BY <1>3, <3>1, <3>2, <3>3, Zenon
  <2>2. CASE /\ pending_senders # <<>> /\ pending_senders' = Tail(pending_senders)
             /\ messages' = Append(Tail(messages), Head(pending_senders).msg)
    <3>n. PICK q \in Nat : p = q + 1
      <4>1. p # 0
        BY <1>n, <2>2, SeqFacts DEF TypeOK
      <4>2. p - 1 \in Nat /\ p = (p - 1) + 1
        BY <4>1
      <4> QED  BY <4>2
    <3>1. /\ Len(pending_senders') = q /\ Head(pending_senders) = pending_senders[1]
          /\ pending_senders[1].msg \in Messages
          /\ \A k \in 1..q : pending_senders'[k] = pending_senders[k + 1]
      <4>1. pending_senders \in Seq(Senders) /\ pending_senders # <<>> /\ Len(pending_senders) = q + 1
        BY <1>n, <2>2, <3>n DEF TypeOK
      <4>2. /\ Len(pending_senders') = q /\ Head(pending_senders) = pending_senders[1]
            /\ \A k \in 1..q : pending_senders'[k] = pending_senders[k + 1]
        BY <2>2, <4>1, HeadTailProperties
      <4>3. Head(pending_senders) \in Senders
        BY <4>1, SeqFacts
      <4> QED  BY <4>2, <4>3 DEF Senders
    <3>2. /\ Len(messages') = n + 1 /\ messages'[n + 1] = pending_senders[1].msg
          /\ \A k \in 1..n : messages'[k] = messages[k + 1]
      BY <1>1, <2>2, <3>1, AppendProperties
    <3>3. /\ (n + 1) + q = n + p /\ 1..n \subseteq 1..(n + 1) /\ n + 1 \in 1..(n + 1) /\ 1 \in 1..p
          /\ \A j \in 1..p : j = 1 \/ \E k \in 1..q : j = k + 1 /\ n + j = (n + 1) + k
      <4>1. \A j \in 1..p : j # 1 => j - 1 \in 1..q /\ j = (j - 1) + 1 /\ n + j = (n + 1) + (j - 1)
        BY <3>n
      <4>2. \A j \in 1..p : j = 1 \/ \E k \in 1..q : j = k + 1 /\ n + j = (n + 1) + k
        BY <4>1, Zenon
      <4> QED  BY <3>n, <4>2
    <3>4. /\ Items' \in [1..(n + p) -> Values] /\ \A k \in 1..(n + 1) : Items'[k] = Decoded(messages'[k])
          /\ \A k \in 1..q : Items'[(n + 1) + k] = Decoded(pending_senders'[k].msg)
      BY <3>1, <3>2, <3>3, ItemsFactsNext DEF ItemsOK
    <3>5. \A k \in 1..n : Items'[k] = Items[k + 1]
      BY <1>2, <1>3, <3>2, <3>3, <3>4
    <3>6. ASSUME NEW j \in 1..p PROVE Items'[n + j] = Items[(n + 1) + j]
      <4>1. CASE j = 1
        <5>1. Items'[n + 1] = Decoded(pending_senders[1].msg)
          BY <3>2, <3>3, <3>4
        <5>2. Items[(n + 1) + 1] = Decoded(pending_senders[1].msg)
          BY <1>2, <3>3
        <5> QED  BY <4>1, <5>1, <5>2
      <4>2. CASE j # 1
        <5>1. PICK k \in 1..q : j = k + 1 /\ n + j = (n + 1) + k
          BY <3>3, <4>2, Zenon
        <5>2. Items'[(n + 1) + k] = Decoded(pending_senders[k + 1].msg)
          BY <3>1, <3>4, Zenon
        <5> QED  BY <1>2, <5>1, <5>2
      <4> QED  BY <4>1, <4>2
    <3>7. \A k \in 1..(n + p) : Items'[k] = Items[k + 1]
      BY <1>3, <3>5, <3>6, Zenon
    <3> QED  BY <3>4, <3>7
  <2> QED  BY <2>1, <2>2
<1>5. Items \in [1..((n + p) + 1) -> Values]
  BY <1>2, <1>3
<1>6. Items # <<>> /\ Items' = Tail(Items) /\ Head(Items) = Items[1]
  BY <1>3, <1>4, <1>5, FunctionTail
<1> QED  BY <1>1, <1>2, <1>3, <1>6

(* The requests that wait, position by position.                             *)
WaitingOK ==
    /\ closed => WaitingRequests = <<>>
    /\ ~closed => /\ WaitingRequests \in [1..Len(pending_receivers) -> Requests]
                  /\ \A k \in 1..Len(pending_receivers) : WaitingRequests[k] = pending_receivers[k].req

LEMMA WaitingFacts == TypeOK => WaitingOK
<1> SUFFICES ASSUME TypeOK PROVE WaitingOK
  OBVIOUS
<1>n. PICK n \in Nat : n = Len(pending_receivers)
  BY SeqFacts DEF TypeOK
<1>1. \A k \in 1..n : pending_receivers[k].req \in Requests
  <2>1. \A k \in 1..n : pending_receivers[k] \in Receivers
    BY <1>n DEF TypeOK
  <2> QED  BY <2>1 DEF Receivers
<1>2. CASE closed
  <2>1. WaitingRequests \in [1..0 -> Requests]
    BY <1>2 DEF WaitingRequests
  <2> QED  BY <1>2, <2>1, FunctionSeq DEF WaitingOK
<1>3. CASE ~closed
  <2>1. WaitingRequests = [k \in 1..n |-> pending_receivers[k].req]
    BY <1>n, <1>3 DEF WaitingRequests
  <2> QED  BY <1>n, <1>1, <1>3, <2>1 DEF WaitingOK
<1> QED  BY <1>2, <1>3

LEMMA WaitingFactsNext == TypeOK' => WaitingOK'
  BY WaitingFacts, PTL

LEMMA WaitingNobody ==
    ASSUME TypeOK, closed \/ pending_receivers = <<>>
    PROVE  WaitingRequests = <<>>
<1>1. CASE closed
  BY <1>1, WaitingFacts DEF WaitingOK
<1>2. CASE ~closed /\ pending_receivers = <<>>
  <2>1. WaitingRequests \in [1..0 -> Requests]
    BY <1>2, WaitingFacts, SeqFacts DEF WaitingOK, TypeOK
  <2> QED  BY <2>1, FunctionSeq
<1> QED  BY <1>1, <1>2

LEMMA WaitingShrinks ==
    ASSUME TypeOK, TypeOK', ~closed, ~closed', pending_receivers # <<>>,
           pending_receivers' = Tail(pending_receivers)
    PROVE  /\ WaitingRequests # <<>> /\ WaitingRequests' = Tail(WaitingRequests)
           /\ Head(WaitingRequests) = Head(pending_receivers).req
<1>n. PICK n \in Nat : n + 1 = Len(pending_receivers)
  <2>1. Len(pending_receivers) \in Nat /\ Len(pending_receivers) # 0
    BY SeqFacts DEF TypeOK
  <2>2. \A n \in Nat : n # 0 => n - 1 \in Nat /\ (n - 1) + 1 = n
    OBVIOUS
  <2> QED  BY <2>1, <2>2, Zenon
<1>1. /\ Len(pending_receivers') = n /\ Head(pending_receivers) = pending_receivers[1]
      /\ \A k \in 1..n : pending_receivers'[k] = pending_receivers[k + 1]
  BY <1>n, HeadTailProperties DEF TypeOK
<1>2. /\ WaitingRequests \in [1..(n + 1) -> Requests]
      /\ \A k \in 1..(n + 1) : WaitingRequests[k] = pending_receivers[k].req
  BY <1>n, WaitingFacts DEF WaitingOK
<1>3. /\ WaitingRequests' \in [1..n -> Requests]
      /\ \A k \in 1..n : WaitingRequests'[k] = pending_receivers'[k].req
  BY <1>1, WaitingFactsNext DEF WaitingOK
<1>4. 1 \in 1..(n + 1) /\ \A k \in 1..n : k + 1 \in 1..(n + 1)
  OBVIOUS
<1>5. \A k \in 1..n : WaitingRequests'[k] = WaitingRequests[k + 1]
  BY <1>1, <1>2, <1>3, <1>4
<1>6. WaitingRequests # <<>> /\ WaitingRequests' = Tail(WaitingRequests) /\ Head(WaitingRequests) = WaitingRequests[1]
  BY <1>2, <1>3, <1>5, FunctionTail
<1> QED  BY <1>1, <1>2, <1>4, <1>6

LEMMA WaitingGrows ==
    ASSUME TypeOK, TypeOK', ~closed, ~closed', NEW x \in Receivers,
           pending_receivers' = Append(pending_receivers, x)
    PROVE  WaitingRequests' = Append(WaitingRequests, x.req)
<1>n. PICK n \in Nat : n = Len(pending_receivers)
  BY SeqFacts DEF TypeOK
<1>1. /\ Len(pending_receivers') = n + 1 /\ pending_receivers'[n + 1] = x
      /\ \A k \in 1..n : pending_receivers'[k] = pending_receivers[k]
  BY <1>n, AppendProperties DEF TypeOK
<1>2. /\ WaitingRequests \in [1..n -> Requests]
      /\ \A k \in 1..n : WaitingRequests[k] = pending_receivers[k].req
  BY <1>n, WaitingFacts DEF WaitingOK
<1>3. /\ WaitingRequests' \in [1..(n + 1) -> Requests]
      /\ \A k \in 1..(n + 1) : WaitingRequests'[k] = pending_receivers'[k].req
  BY <1>1, WaitingFactsNext DEF WaitingOK
<1>4. n + 1 \in 1..(n + 1) /\ 1..n \subseteq 1..(n + 1)
  OBVIOUS
<1>5. WaitingRequests'[n + 1] = x.req /\ \A k \in 1..n : WaitingRequests'[k] = WaitingRequests[k]
  BY <1>1, <1>2, <1>3, <1>4
<1> QED  BY <1>2, <1>3, <1>5, FunctionAppend

------------------------------------------------------------------------------
(* Each step is a step of the abstract channel, or changes nothing there.    *)
LEMMA Stutters ==
    ASSUME UNCHANGED <<messages, pending_senders, pending_receivers, closed>> \/
             (closed /\ UNCHANGED <<messages, pending_senders, closed>> /\ TypeOK /\ TypeOK'),
           \A q \in Requests : Answer(q)' = Answer(q)
    PROVE  UNCHANGED Fifo!vars
<1>1. Answers' = Answers
  BY Zenon DEF Answers
<1>2. Items' = Items /\ closed' = closed
  BY DEF Items
<1>3. WaitingRequests' = WaitingRequests
  <2>1. CASE UNCHANGED <<pending_receivers, closed>>
    BY <2>1 DEF WaitingRequests
  <2>2. CASE closed /\ closed' /\ TypeOK /\ TypeOK'
    BY <2>2, WaitingFacts, WaitingFactsNext DEF WaitingOK
  <2> QED  BY <2>1, <2>2
<1> QED  BY <1>1, <1>2, <1>3 DEF Fifo!vars

LEMMA SendStep ==
    ASSUME FInv, Inv', NEW i \in Isolates, NEW m \in Messages, Send(i, m)
    PROVE  FInv' /\ UNCHANGED Fifo!vars
<1>0. TypeOK /\ CallOK /\ TypeOK'
  BY TypeSplit DEF FInv, Inv
<1>1. /\ UNCHANGED <<pending_receivers, closed, inbox, result>> /\ UNCHANGED <<messages, pending_senders>>
      /\ pc[i] \notin {"post", "moved"} /\ pc'[i] \notin {"post", "moved"}
      /\ \A j \in Isolates : j # i => pc'[j] = pc[j] /\ call'[j] = call[j]
  BY <1>0 DEF Send, state, Enter, CallOK
<1>2. OnceInv' /\ HeldInv' /\ \A q \in Requests : Answer(q)' = Answer(q)
  BY <1>0, <1>1, QuietHeld
<1> QED  BY <1>1, <1>2, Stutters DEF FInv

LEMMA SendLockedStep ==
    ASSUME FInv, Inv', NEW i \in Isolates, SendLocked(i)
    PROVE  FInv' /\ [Fifo!Next]_(Fifo!vars)
<1>0. TypeOK /\ CallOK /\ TypeOK' /\ BackPressure /\ NobodyWaitsInVain
  BY TypeSplit DEF FInv, Inv
<1>m. PICK m : m = call[i].msg
  OBVIOUS
<1>1. /\ m \in Messages /\ Decoded(m) \in Messages \cup {Failed}
      /\ pc[i] = "send" /\ MutexFree /\ UNCHANGED <<closed, inbox, result>>
  BY <1>0, <1>m DEF SendLocked, CallOK, Decoded
<1>2. CASE /\ pending_receivers # <<>>
           /\ Enter(i, "post", [kind |-> "post", msg |-> m, to |-> Head(pending_receivers)])
           /\ pending_receivers' = Tail(pending_receivers)
           /\ UNCHANGED <<messages, pending_senders, sent>>
  <2>x. PICK x : x = Head(pending_receivers)
    OBVIOUS
  <2>1. /\ OnceInv' /\ HeldInv' /\ x.req \in Requests
        /\ \A q \in Requests : Answer(q)' = IF q = x.req THEN Decoded(m) ELSE Answer(q)
    BY <1>0, <1>1, <1>2, <2>x, HandOver
  <2>2. Answers' = [Answers EXCEPT ![x.req] = Decoded(m)]
    BY <2>1, Zenon DEF Answers
  <2>3. ~closed /\ ~closed'
    BY <1>0, <1>1, <1>2 DEF NobodyWaitsInVain
  <2>4. /\ WaitingRequests # <<>> /\ WaitingRequests' = Tail(WaitingRequests)
        /\ Head(WaitingRequests) = x.req
    BY <1>0, <1>2, <2>x, <2>3, WaitingShrinks
  <2>5. Items' = Items /\ closed' = closed
    BY <1>1, <1>2 DEF Items
  <2>6. Fifo!Put(Decoded(m))
    BY <2>2, <2>4, <2>5, ZenonT(40) DEF Fifo!Put
  <2> QED  BY <1>1, <2>1, <2>6 DEF FInv, Fifo!Next
<1>3. CASE /\ pending_receivers = <<>> /\ Leave(i) /\ UNCHANGED pending_receivers
           /\ \/ /\ Full /\ pending_senders' = Append(pending_senders, [msg |-> m, isolate |-> i])
                 /\ UNCHANGED messages
              \/ /\ ~Full /\ messages' = Append(messages, m) /\ UNCHANGED pending_senders
  <2>1. /\ UNCHANGED <<pending_receivers, closed, inbox, result>>
        /\ pc[i] \notin {"post", "moved"} /\ pc'[i] \notin {"post", "moved"}
        /\ \A j \in Isolates : j # i => pc'[j] = pc[j] /\ call'[j] = call[j]
    BY <1>0, <1>1, <1>3 DEF Leave, Enter, CallOK
  <2>2. OnceInv' /\ HeldInv' /\ \A q \in Requests : Answer(q)' = Answer(q)
    BY <1>0, <2>1, QuietHeld, Zenon
  <2>3. Answers' = Answers
    BY <2>2, Zenon DEF Answers
  <2>4. WaitingRequests = <<>> /\ WaitingRequests' = WaitingRequests /\ closed' = closed
    BY <1>0, <1>3, <2>1, WaitingNobody DEF WaitingRequests
  <2>5. Items' = Append(Items, Decoded(m))
    <3>1. CASE /\ Full /\ pending_senders' = Append(pending_senders, [msg |-> m, isolate |-> i])
               /\ UNCHANGED messages
      <4>x. PICK x : x = [msg |-> m, isolate |-> i]
        BY Zenon
      <4>1. x \in Senders /\ x.msg = m
        BY <1>1, <4>x DEF Senders
      <4> QED  BY <1>0, <3>1, <4>x, <4>1, ItemsQueue
    <3>2. CASE ~Full /\ messages' = Append(messages, m) /\ UNCHANGED pending_senders
      <4>1. pending_senders = <<>>
        BY <1>0, <3>2 DEF BackPressure
      <4> QED  BY <1>0, <1>1, <3>2, <4>1, ItemsBuffer
    <3> QED  BY <1>3, <3>1, <3>2
  <2>6. Fifo!Put(Decoded(m))
    BY <2>3, <2>4, <2>5 DEF Fifo!Put
  <2> QED  BY <1>1, <2>2, <2>6 DEF FInv, Fifo!Next
<1> QED  BY <1>m, <1>2, <1>3 DEF SendLocked

LEMMA PostStep ==
    ASSUME FInv, Inv', NEW i \in Isolates, SendPost(i) \/ RecvPost(i) \/ RunInternal(i)
    PROVE  FInv' /\ UNCHANGED Fifo!vars
<1>0. TypeOK'
  BY DEF Inv
<1>1. OnceInv' /\ HeldInv' /\ \A q \in Requests : Answer(q)' = Answer(q)
  BY <1>0, SendPostHeld, RecvPostHeld, RunInternalHeld, Zenon
<1>2. UNCHANGED <<messages, pending_senders, pending_receivers, closed>>
  BY Zenon DEF SendPost, RecvPost, RunInternal, state
<1> QED  BY <1>1, <1>2, Stutters DEF FInv

LEMMA CloseStep ==
    ASSUME FInv, Inv', NEW i \in Isolates, Close(i)
    PROVE  FInv' /\ [Fifo!Next]_(Fifo!vars)
<1>0. TypeOK'
  BY DEF Inv
<1>1. /\ OnceInv' /\ HeldInv'
      /\ \A q \in Requests : Answer(q)' = IF Answer(q) = Waiting THEN Done ELSE Answer(q)
  BY <1>0, CloseHeld
<1>2. Answers' = [r \in Requests |-> IF Answers[r] = Waiting THEN Done ELSE Answers[r]]
  BY <1>1 DEF Answers
<1>3. closed' = TRUE /\ Items' = Items
  BY Zenon DEF Close, Items
<1>4. WaitingRequests' = <<>>
  BY <1>0, <1>3, WaitingFactsNext DEF WaitingOK
<1>5. Fifo!Close
  BY <1>2, <1>3, <1>4 DEF Fifo!Close
<1> QED  BY <1>1, <1>5 DEF FInv, Fifo!Next

LEMMA CloseNextStep ==
    ASSUME FInv, Inv', NEW i \in Isolates, CloseNext(i)
    PROVE  FInv' /\ UNCHANGED Fifo!vars
<1>0. TypeOK /\ TypeOK'
  BY DEF FInv, Inv
<1>1. OnceInv' /\ HeldInv' /\ closed /\ \A q \in Requests : Answer(q)' = Answer(q)
  BY <1>0, CloseNextHeld
<1>2. UNCHANGED <<messages, pending_senders, closed>>
  BY DEF CloseNext
<1> QED  BY <1>0, <1>1, <1>2, Stutters DEF FInv

LEMMA RecvStep ==
    ASSUME FInv, Inv', NEW i \in Isolates, NEW r \in Requests, Recv(i, r)
    PROVE  FInv' /\ [Fifo!Next]_(Fifo!vars)
<1>0. TypeOK /\ TypeOK' /\ BackPressure
  BY DEF FInv, Inv
<1>1. /\ OnceInv' /\ HeldInv' /\ Answer(r) = Unasked
      /\ \A q \in Requests : q # r => Answer(q)' = Answer(q)
      /\ messages # <<>> => Answer(r)' = Decoded(Head(messages))
      /\ messages = <<>> => Answer(r)' = IF closed THEN Done ELSE Waiting
  BY <1>0, RecvHeld
<1>2. Answers[r] = Unasked /\ Answers' = [Answers EXCEPT ![r] = Answer(r)']
  BY <1>1, ZenonT(40) DEF Answers
<1>3. closed' = closed
  BY DEF Recv
<1>4. CASE messages # <<>>
  <2>1. /\ pending_receivers' = pending_receivers
        /\ \/ pending_senders' = pending_senders /\ messages' = Tail(messages)
           \/ /\ pending_senders # <<>> /\ pending_senders' = Tail(pending_senders)
              /\ messages' = Append(Tail(messages), Head(pending_senders).msg)
    BY <1>4 DEF Recv, Exhausted, Refilled
  <2>2. Items # <<>> /\ Items' = Tail(Items) /\ Head(Items) = Decoded(Head(messages))
    BY <1>0, <1>4, <2>1, ItemsLeave
  <2>3. WaitingRequests' = WaitingRequests
    BY <1>3, <2>1 DEF WaitingRequests
  <2>4. Fifo!Get(r)
    BY <1>1, <1>2, <1>3, <1>4, <2>2, <2>3, Zenon DEF Fifo!Get
  <2> QED  BY <1>1, <2>4 DEF FInv, Fifo!Next
<1>5. CASE messages = <<>>
  <2>1. pending_senders = <<>> /\ UNCHANGED <<messages, pending_senders>>
    <3>1. ~Full
      BY <1>5, EmptySeq, ChannelAssumption DEF Full
    <3> QED  BY <1>0, <1>5, <3>1 DEF Recv, BackPressure
  <2>2. Items = <<>> /\ Items' = Items
    BY <1>0, <1>5, <2>1, NoItems, Zenon DEF Items
  <2>3. CASE closed
    <3>1. WaitingRequests' = WaitingRequests
      BY <1>0, <1>3, <2>3, WaitingFacts, WaitingFactsNext DEF WaitingOK
    <3>2. Fifo!Get(r)
      BY <1>1, <1>2, <1>3, <1>5, <2>2, <2>3, <3>1 DEF Fifo!Get
    <3> QED  BY <1>1, <3>2 DEF FInv, Fifo!Next
  <2>4. CASE ~closed
    <3>x. PICK x : x = [req |-> r, isolate |-> i]
      OBVIOUS
    <3>1. x \in Receivers /\ x.req = r /\ pending_receivers' = Append(pending_receivers, x)
      BY <1>5, <2>4, <3>x DEF Receivers, Recv, Exhausted
    <3>2. WaitingRequests' = Append(WaitingRequests, r)
      BY <1>0, <1>3, <2>4, <3>1, WaitingGrows
    <3>3. Fifo!Get(r)
      BY <1>1, <1>2, <1>3, <1>5, <2>2, <2>4, <3>2, Zenon DEF Fifo!Get
    <3> QED  BY <1>1, <3>3 DEF FInv, Fifo!Next
  <2> QED  BY <2>3, <2>4
<1> QED  BY <1>4, <1>5

LEMMA NextStep == FInv /\ [Next]_vars => FInv' /\ [Fifo!Next]_(Fifo!vars)
<1> SUFFICES ASSUME FInv, [Next]_vars PROVE FInv' /\ [Fifo!Next]_(Fifo!vars)
  OBVIOUS
<1>0. Inv /\ Inv'
  BY NextInv DEF FInv
<1>1. ASSUME NEW i \in Isolates, NEW m \in Messages, Send(i, m) PROVE FInv' /\ [Fifo!Next]_(Fifo!vars)
  BY <1>0, <1>1, SendStep
<1>2. ASSUME NEW i \in Isolates, NEW r \in Requests, Recv(i, r) PROVE FInv' /\ [Fifo!Next]_(Fifo!vars)
  BY <1>0, <1>2, RecvStep
<1>3. ASSUME NEW i \in Isolates, Close(i) \/ IsolateStep(i) PROVE FInv' /\ [Fifo!Next]_(Fifo!vars)
  BY <1>0, <1>3, CloseStep, SendLockedStep, PostStep, CloseNextStep DEF IsolateStep
<1>4. CASE UNCHANGED vars
  <2>1. UNCHANGED <<messages, pending_senders, pending_receivers, closed, pc, call, inbox, result>>
    BY <1>4 DEF vars, state
  <2>2. OnceInv' /\ \A k, q, y : Holds(k, q, y)' <=> Holds(k, q, y)
    <3>1. OnceInv'
      BY <2>1 DEF FInv, OnceInv, Once
    <3> QED  BY <2>1, <3>1, QueueSame, InboxSame, CallSame DEF Holds
  <2>3. HeldInv' /\ UNCHANGED result
    BY <2>1, <2>2, HeldSame DEF FInv
  <2>4. ASSUME NEW q \in Requests PROVE Answer(q)' = Answer(q)
    BY <1>0, <2>2, <2>3, AnswersBoth, AnswerSame DEF FInv, Inv
  <2> QED  BY <1>0, <2>1, <2>2, <2>3, <2>4, Stutters DEF FInv
<1> QED  BY <1>1, <1>2, <1>3, <1>4 DEF Next

LEMMA InitStep == Init => FInv /\ Fifo!Init
<1> SUFFICES ASSUME Init PROVE FInv /\ Fifo!Init
  OBVIOUS
<1>1. Inv /\ TypeOK
  BY InitInv DEF Inv
<1>2. /\ messages = <<>> /\ pending_senders = <<>> /\ pending_receivers = <<>> /\ closed = FALSE
      /\ \A i \in Isolates : inbox[i] = <<>> /\ pc[i] \notin {"post", "moved"}
      /\ \A r \in Requests : result[r] = Unasked
  BY DEF Init
<1>3. 1..Len(<<>>) = {}
  BY EmptySeq
<1>4. OnceInv
  BY <1>2, <1>3 DEF OnceInv, Once
<1>5. \A h, r, v : ~Holds(h, r, v)
  <2>1. Elems(<<>>) = {}
    BY <1>3 DEF Elems
  <2> QED  BY <1>2, <2>1 DEF Holds, QHolds, PHolds, CHolds
<1>6. HeldInv
  BY <1>2, <1>5, NeverWaiting, Zenon DEF HeldInv
<1>7. \A r \in Requests : Answer(r) = Unasked
  BY <1>1, <1>2, <1>6, AnswerFacts, NeverWaiting, Zenon DEF AnswersHeld
<1>8. Answers = [r \in Requests |-> Unasked]
  BY <1>7, Zenon DEF Answers
<1>9. Items = <<>> /\ WaitingRequests = <<>>
  BY <1>1, <1>2, NoItems, WaitingNobody
<1> QED  BY <1>1, <1>2, <1>4, <1>6, <1>8, <1>9 DEF FInv, Fifo!Init

(* The channel is a queue: whatever the interleaving of sends, receives,     *)
(* closes and resolve tasks, messages are handed to requests in the order in *)
(* which they were sent, each to one request, and Done is answered only when *)
(* nothing is left, for every capacity.                                      *)
THEOREM ChannelIsFifo == Spec => FifoSpec
<1>1. Init => FInv /\ Fifo!Init
  BY InitStep
<1>2. FInv /\ [Next]_vars => FInv' /\ [Fifo!Next]_(Fifo!vars)
  BY NextStep
<1> QED  BY <1>1, <1>2, PTL DEF Spec, FifoSpec, Fifo!Spec
==============================================================================
