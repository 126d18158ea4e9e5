------------------------------- MODULE Deque -------------------------------
(* What src/threading/work-stealing-deque.h promises: a double-ended queue  *)
(* whose operations take effect at one instant.  The owner works at the     *)
(* bottom, the last element, and thieves at the top, the first element.     *)
EXTENDS Naturals, Sequences

CONSTANT Items

VARIABLES
    items,     \* the contents, top first
    pushed,    \* the items pushed so far
    returned   \* how often each item was handed to a caller

vars == <<items, pushed, returned>>

Init == items = <<>> /\ pushed = {} /\ returned = [x \in Items |-> 0]

PushBottom(x) ==
    /\ x \notin pushed
    /\ items' = Append(items, x)
    /\ pushed' = pushed \cup {x}
    /\ UNCHANGED returned

PopBottom ==
    /\ items # <<>>
    /\ items' = SubSeq(items, 1, Len(items) - 1)
    /\ returned' = [returned EXCEPT ![items[Len(items)]] = @ + 1]
    /\ UNCHANGED pushed

StealTop ==
    /\ items # <<>>
    /\ items' = Tail(items)
    /\ returned' = [returned EXCEPT ![Head(items)] = @ + 1]
    /\ UNCHANGED pushed

Next == (\E x \in Items : PushBottom(x)) \/ PopBottom \/ StealTop

Spec == Init /\ [][Next]_vars
==============================================================================
