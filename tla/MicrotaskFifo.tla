---------------------------- MODULE MicrotaskFifo ----------------------------
(* What the engine expects of a microtask queue: microtasks leave it in the *)
(* order in which they were enqueued, and only a termination drops them.    *)
(* They are numbered 1, 2, ... in the order of the calls.                   *)
EXTENDS Integers, Sequences

VARIABLES queue, enqueued

vars == <<queue, enqueued>>

Init == queue = <<>> /\ enqueued = 0

Enqueue == enqueued' = enqueued + 1 /\ queue' = Append(queue, enqueued')

(* A reaction that runs on the pool does not enter the queue.               *)
HandOver == enqueued' = enqueued + 1 /\ UNCHANGED queue

Run == queue # <<>> /\ queue' = Tail(queue) /\ UNCHANGED enqueued

Terminate == queue' = <<>> /\ UNCHANGED enqueued

Next == Enqueue \/ HandOver \/ Run \/ Terminate

Spec == Init /\ [][Next]_vars
==============================================================================
