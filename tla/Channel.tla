------------------------------ MODULE Channel ------------------------------
(* Thread.channel(capacity): ChannelState and the calls tx.send, tx.close,  *)
(* rx.recv and rx.next of src/threading/channel.cc.  recv and next differ   *)
(* only in how they wrap the answer, and are one call here.                 *)
EXTENDS Naturals, Sequences

CONSTANTS
    Messages,     \* the messages, each sent at most once
    Requests,     \* the calls of recv or next
    Isolates,     \* the isolates that hold an end of the channel
    Capacity,     \* ChannelState::capacity, 0 when unbounded
    Uncloneable,  \* messages that WriteValue fails for
    Corrupt,      \* messages that ReadValue fails for
    Unasked, Waiting, Done, Failed   \* states of a request, besides a message

ASSUME ChannelAssumption ==
    /\ Capacity \in Nat
    /\ Uncloneable \subseteq Messages /\ Corrupt \subseteq Messages
    /\ {Unasked, Waiting, Done, Failed} \cap Messages = {}
    /\ Waiting \notin {Unasked, Done, Failed} /\ Done \notin {Unasked, Failed}

VARIABLES
    messages, pending_receivers, pending_senders, closed,  \* ChannelState, guarded by its mutex
    pc, call,     \* per isolate: inside which call, between two lock sections, and its locals
    inbox,        \* per isolate: its private queue or foreground task queue, oldest first
    sent,         \* per message: the promise of its send
    result        \* per request: its promise

state == <<messages, pending_receivers, pending_senders, closed>>
vars == <<state, pc, call, inbox, sent, result>>

NoCall == [kind |-> "none"]

Init ==
    /\ messages = <<>> /\ pending_receivers = <<>> /\ pending_senders = <<>> /\ closed = FALSE
    /\ pc = [i \in Isolates |-> "idle"] /\ call = [i \in Isolates |-> NoCall]
    /\ inbox = [i \in Isolates |-> <<>>]
    /\ sent = [m \in Messages |-> "unsent"]
    /\ result = [r \in Requests |-> Unasked]

(* What the deserializer makes of a message.                                *)
Decoded(m) == IF m \in Corrupt THEN Failed ELSE m

Enter(i, label, locals) ==
    /\ pc' = [pc EXCEPT ![i] = label]
    /\ call' = [call EXCEPT ![i] = locals]

Leave(i) == Enter(i, "idle", NoCall)

(* SubmitToWorker or PostTask of a resolve task to the isolate it is for.   *)
Post(i, task) == inbox' = [inbox EXCEPT ![i] = Append(@, task)]

(* Only Close holds the mutex for more than one step.                       *)
MutexFree == \A i \in Isolates : pc[i] # "closing"

------------------------------------------------------------------------------
(* Send reads closed without the mutex, then serializes the message.        *)
Send(i, m) ==
    /\ pc[i] = "idle" /\ sent[m] = "unsent"
    /\ \/ /\ closed \/ m \in Uncloneable
          /\ sent' = [sent EXCEPT ![m] = "threw"]
          /\ UNCHANGED <<pc, call>>
       \/ /\ ~closed /\ m \notin Uncloneable
          /\ sent' = [sent EXCEPT ![m] = "sending"]
          /\ Enter(i, "send", [kind |-> "send", msg |-> m])
    /\ UNCHANGED <<state, inbox, result>>

(* Mutant: the buffer takes one message too many.                           *)
FullLate == Capacity > 0 /\ Len(messages) > Capacity

Full == Capacity > 0 /\ Len(messages) >= Capacity

(* The lock section of Send: hand the message to a waiting receiver, or     *)
(* wait for space, or put it into the buffer.                               *)
SendLocked(i) ==
    /\ pc[i] = "send" /\ MutexFree
    /\ LET m == call[i].msg IN
       \/ /\ pending_receivers # <<>>
          /\ Enter(i, "post", [kind |-> "post", msg |-> m, to |-> Head(pending_receivers)])
          /\ pending_receivers' = Tail(pending_receivers)
          /\ UNCHANGED <<messages, pending_senders, sent>>
       \/ /\ pending_receivers = <<>> /\ Full
          /\ pending_senders' = Append(pending_senders, [msg |-> m, isolate |-> i])
          /\ sent' = [sent EXCEPT ![m] = "pending"]
          /\ Leave(i)
          /\ UNCHANGED <<messages, pending_receivers>>
       \/ /\ pending_receivers = <<>> /\ ~Full
          /\ messages' = Append(messages, m)
          /\ sent' = [sent EXCEPT ![m] = "resolved"]
          /\ Leave(i)
          /\ UNCHANGED <<pending_receivers, pending_senders>>
    /\ UNCHANGED <<closed, inbox, result>>

(* After the unlock: ResolveChannelTask goes to the receiver's isolate.     *)
SendPost(i) ==
    /\ pc[i] = "post"
    /\ LET c == call[i] IN
       /\ Post(c.to.isolate, [kind |-> "value", req |-> c.to.req, msg |-> c.msg])
       /\ sent' = [sent EXCEPT ![c.msg] = "resolved"]
    /\ Leave(i)
    /\ UNCHANGED <<state, result>>

(* Mutant: Close only sets the flag.                                        *)
CloseFlagOnly(i) ==
    /\ pc[i] = "idle" /\ MutexFree
    /\ closed' = TRUE
    /\ UNCHANGED <<messages, pending_receivers, pending_senders, pc, call, inbox, sent, result>>

(* Close keeps the mutex while it posts a ResolveCloseTask for each waiting *)
(* receiver; senders that wait for space are left alone.                    *)
Close(i) ==
    /\ pc[i] = "idle" /\ MutexFree
    /\ closed' = TRUE
    /\ pc' = [pc EXCEPT ![i] = IF pending_receivers = <<>> THEN "idle" ELSE "closing"]
    /\ UNCHANGED <<messages, pending_receivers, pending_senders, call, inbox, sent, result>>

(* Mutant: only the receiver that waited longest is told.                   *)
CloseFirst(i) ==
    /\ pc[i] = "closing"
    /\ Post(Head(pending_receivers).isolate, [kind |-> "close", req |-> Head(pending_receivers).req])
    /\ pending_receivers' = <<>>
    /\ pc' = [pc EXCEPT ![i] = "idle"]
    /\ UNCHANGED <<messages, pending_senders, closed, call, sent, result>>

CloseNext(i) ==
    /\ pc[i] = "closing"
    /\ Post(Head(pending_receivers).isolate, [kind |-> "close", req |-> Head(pending_receivers).req])
    /\ pending_receivers' = Tail(pending_receivers)
    /\ pc' = [pc EXCEPT ![i] = IF Tail(pending_receivers) = <<>> THEN "idle" ELSE "closing"]
    /\ UNCHANGED <<messages, pending_senders, closed, call, sent, result>>

(* Mutant: the sender's message is dropped.                                 *)
RefilledDrops(queue) == queue

(* The buffer once the message of the first waiting sender is moved in.     *)
Refilled(queue) == Append(queue, Head(pending_senders).msg)

Exhausted == closed /\ messages = <<>>

(* The lock section of RecvInternal.  A message taken from the buffer makes *)
(* room for a waiting sender; without one the answer is known at once.      *)
Recv(i, r) ==
    /\ pc[i] = "idle" /\ MutexFree /\ result[r] = Unasked
    /\ \/ /\ Exhausted
          /\ result' = [result EXCEPT ![r] = Done]
          /\ UNCHANGED <<messages, pending_receivers, pending_senders, pc, call>>
       \/ /\ ~Exhausted /\ messages # <<>> /\ pending_senders = <<>>
          /\ messages' = Tail(messages)
          /\ result' = [result EXCEPT ![r] = Decoded(Head(messages))]
          /\ UNCHANGED <<pending_receivers, pending_senders, pc, call>>
       \/ /\ ~Exhausted /\ messages # <<>> /\ pending_senders # <<>>
          /\ messages' = Refilled(Tail(messages))
          /\ pending_senders' = Tail(pending_senders)
          /\ result' = [result EXCEPT ![r] = Waiting]
          /\ Enter(i, "moved", [kind |-> "moved", req |-> r, msg |-> Head(messages),
                                to |-> Head(pending_senders)])
          /\ UNCHANGED pending_receivers
       \/ /\ ~Exhausted /\ messages = <<>>
          /\ pending_receivers' = Append(pending_receivers, [req |-> r, isolate |-> i])
          /\ result' = [result EXCEPT ![r] = Waiting]
          /\ UNCHANGED <<messages, pending_senders, pc, call>>
    /\ UNCHANGED <<closed, inbox, sent>>

(* Mutant: the sender whose message moved into the buffer is not told.      *)
RecvPostSilent(i) ==
    /\ pc[i] = "moved"
    /\ result' = [result EXCEPT ![call[i].req] = Decoded(call[i].msg)]
    /\ Leave(i)
    /\ UNCHANGED <<state, inbox, sent>>

(* After the unlock: ResolveSenderTask goes to the sender's isolate, and    *)
(* the receiver deserializes its message.                                   *)
RecvPost(i) ==
    /\ pc[i] = "moved"
    /\ LET c == call[i] IN
       /\ Post(c.to.isolate, [kind |-> "sent", msg |-> c.to.msg])
       /\ result' = [result EXCEPT ![c.req] = Decoded(c.msg)]
    /\ Leave(i)
    /\ UNCHANGED <<state, sent>>

(* An isolate between two calls runs the oldest resolve task in its queue.  *)
RunInternal(i) ==
    /\ pc[i] = "idle" /\ inbox[i] # <<>>
    /\ inbox' = [inbox EXCEPT ![i] = Tail(@)]
    /\ LET task == Head(inbox[i]) IN
       \/ /\ task.kind = "sent"
          /\ sent' = [sent EXCEPT ![task.msg] = "resolved"]
          /\ UNCHANGED result
       \/ /\ task.kind = "value"
          /\ result' = [result EXCEPT ![task.req] = Decoded(task.msg)]
          /\ UNCHANGED sent
       \/ /\ task.kind = "close"
          /\ result' = [result EXCEPT ![task.req] = Done]
          /\ UNCHANGED sent
    /\ UNCHANGED <<state, pc, call>>

------------------------------------------------------------------------------
(* The steps that finish what is under way.                                 *)
IsolateStep(i) ==
    SendLocked(i) \/ SendPost(i) \/ CloseNext(i) \/ RecvPost(i) \/ RunInternal(i)

Next ==
    \E i \in Isolates :
      \/ \E m \in Messages : Send(i, m)
      \/ \E r \in Requests : Recv(i, r)
      \/ Close(i)
      \/ IsolateStep(i)

Spec == Init /\ [][Next]_vars

(* An isolate finishes the call it is in and empties its queue; whether     *)
(* anyone sends, receives or closes is up to the script.                    *)
Fairness == \A i \in Isolates : WF_vars(IsolateStep(i))
FairSpec == Spec /\ Fairness

(* A script that keeps receiving.                                           *)
ReceiverFairness == \A r \in Requests : WF_vars(\E i \in Isolates : Recv(i, r))
ReceivingSpec == FairSpec /\ ReceiverFairness

------------------------------------------------------------------------------
Tasks ==
    [kind : {"value"}, req : Requests, msg : Messages] \cup [kind : {"sent"}, msg : Messages]
    \cup [kind : {"close"}, req : Requests]

Receivers == [req : Requests, isolate : Isolates]
Senders == [msg : Messages, isolate : Isolates]

(* Every variable has its type.                                             *)
TypeOK ==
    /\ messages \in Seq(Messages) /\ closed \in BOOLEAN
    /\ pending_receivers \in Seq(Receivers) /\ pending_senders \in Seq(Senders)
    /\ inbox \in [Isolates -> Seq(Tasks)]
    /\ sent \in [Messages -> {"unsent", "threw", "sending", "pending", "resolved"}]
    /\ result \in [Requests -> Messages \cup {Unasked, Waiting, Done, Failed}]
    /\ pc \in [Isolates -> {"idle", "send", "post", "closing", "moved"}]
    /\ DOMAIN call = Isolates
    /\ \A i \in Isolates :
         /\ pc[i] \in {"idle", "closing"} => call[i] = NoCall
         /\ pc[i] = "send" => call[i] \in [kind : {"send"}, msg : Messages]
         /\ pc[i] = "post" => call[i] \in [kind : {"post"}, msg : Messages, to : Receivers]
         /\ pc[i] = "moved" =>
              call[i] \in [kind : {"moved"}, req : Requests, msg : Messages, to : Senders]

(* Back-pressure: the buffer never holds more than capacity messages, and a *)
(* sender waits only while the buffer is full.                              *)
BackPressure ==
    /\ Capacity > 0 => Len(messages) <= Capacity
    /\ pending_senders # <<>> => Full

(* Nobody waits for what is there: a receiver waits only while the channel  *)
(* is empty and either open or being closed, a sender only while no         *)
(* receiver does; and one call of Close at a time empties the queue.        *)
NobodyWaitsInVain ==
    /\ pending_receivers # <<>> =>
         messages = <<>> /\ pending_senders = <<>> /\ (closed <=> ~MutexFree)
    /\ \A i, j \in Isolates : pc[i] = "closing" /\ pc[j] = "closing" => i = j
    /\ ~MutexFree => closed /\ pending_receivers # <<>>

(* The outcome of request r that is settled, posted or about to be posted.  *)
Answer(r) ==
    LET posted == {task \in UNION {{inbox[i][k] : k \in 1..Len(inbox[i])} : i \in Isolates} :
                     task.kind # "sent" /\ task.req = r}
        coming == {call[i] : i \in {j \in Isolates : \/ pc[j] = "post" /\ call[j].to.req = r
                                                     \/ pc[j] = "moved" /\ call[j].req = r}}
        closing == closed /\ \E k \in 1..Len(pending_receivers) : pending_receivers[k].req = r
    IN  IF result[r] # Waiting THEN result[r]
        ELSE IF closing \/ \E task \in posted : task.kind = "close" THEN Done
        ELSE IF posted \cup coming # {} THEN Decoded((CHOOSE x \in posted \cup coming : TRUE).msg)
        ELSE Waiting

(* What is in the channel, the senders that wait for space at its end, and  *)
(* who waits.                                                               *)
Items ==
    [k \in 1..(Len(messages) + Len(pending_senders)) |->
       Decoded(IF k <= Len(messages) THEN messages[k]
               ELSE pending_senders[k - Len(messages)].msg)]
WaitingRequests ==
    [k \in 1..(IF closed THEN 0 ELSE Len(pending_receivers)) |-> pending_receivers[k].req]
Answers == [r \in Requests |-> Answer(r)]

(* The channel is a queue: refinement of the atomic channel, where the      *)
(* senders that wait for space are the end of the queue.                    *)
Fifo == INSTANCE FifoChannel WITH
    Messages <- Messages \cup {Failed},
    items <- Items, waiting <- WaitingRequests, answer <- Answers
FifoSpec == Fifo!Spec

(* Once a receiver was told that the channel is exhausted, it is: no        *)
(* message is put into it any more.                                         *)
DoneIsFinal == (\E r \in Requests : result[r] = Done) => messages = <<>>

(* Closing answers everyone: after Close every request that was made is     *)
(* settled, also one whose message is still on its way to another isolate.  *)
CloseReleasesReceivers ==
    \A r \in Requests : closed /\ result[r] = Waiting ~> result[r] # Waiting

(* With a request for every message, a sender that waits for space in an    *)
(* open channel is released, whether or not the channel is closed meanwhile.*)
SendersReleased ==
    \A m \in Messages : sent[m] = "pending" /\ ~closed ~> sent[m] = "resolved"
==============================================================================
