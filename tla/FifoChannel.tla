---------------------------- MODULE FifoChannel ----------------------------
(* What Thread.channel promises: messages are handed to requests in the     *)
(* order in which they were sent, each to one request, and a closed channel *)
(* answers Done only when nothing is left in it.                            *)
EXTENDS Sequences

CONSTANTS Messages, Requests, Unasked, Waiting, Done

VARIABLES
    items,     \* the messages sent and not yet handed out, oldest first
    waiting,   \* the requests that wait for a message, oldest first
    closed,
    answer     \* for each request: Unasked, Waiting, Done or a message

vars == <<items, waiting, closed, answer>>

Init ==
    /\ items = <<>> /\ waiting = <<>> /\ closed = FALSE
    /\ answer = [r \in Requests |-> Unasked]

Put(m) ==
    \/ /\ waiting # <<>>
       /\ answer' = [answer EXCEPT ![Head(waiting)] = m]
       /\ waiting' = Tail(waiting)
       /\ UNCHANGED <<items, closed>>
    \/ /\ waiting = <<>>
       /\ items' = Append(items, m)
       /\ UNCHANGED <<waiting, closed, answer>>

Get(r) ==
    /\ answer[r] = Unasked
    /\ \/ /\ items # <<>>
          /\ answer' = [answer EXCEPT ![r] = Head(items)]
          /\ items' = Tail(items)
          /\ UNCHANGED <<waiting, closed>>
       \/ /\ items = <<>> /\ closed
          /\ answer' = [answer EXCEPT ![r] = Done]
          /\ UNCHANGED <<items, waiting, closed>>
       \/ /\ items = <<>> /\ ~closed
          /\ answer' = [answer EXCEPT ![r] = Waiting]
          /\ waiting' = Append(waiting, r)
          /\ UNCHANGED <<items, closed>>

Close ==
    /\ closed' = TRUE
    /\ answer' = [r \in Requests |-> IF answer[r] = Waiting THEN Done ELSE answer[r]]
    /\ waiting' = <<>>
    /\ UNCHANGED items

Next == (\E m \in Messages : Put(m)) \/ (\E r \in Requests : Get(r)) \/ Close

Spec == Init /\ [][Next]_vars
==============================================================================
