----------------------------- MODULE MutexState -----------------------------
(* Thread.mutex(value): MutexState, ResolveMutexTask and the calls lock and *)
(* value of src/threading/mutex.cc.  lock is asynchronous: a call that      *)
(* finds the mutex taken is queued, and the release hands the mutex over by *)
(* posting a task to the isolate of the oldest queued call.                 *)
EXTENDS Naturals, Sequences

CONSTANTS
    Requests,    \* the calls of mutex.lock(callback)
    Failing,     \* those whose callback throws, or whose value fails to (de)serialize
    Isolates,    \* the isolates that hold the mutex object
    None

ASSUME MutexAssumption == Failing \subseteq Requests /\ None \notin Requests

VARIABLES
    serialized_value,  \* the protected value: the set of requests whose update it includes
    locked,
    pending_locks,     \* the queued calls, oldest first
    pc, req, cur,      \* per isolate: where it is in Lock or RunInternal, its request, the value it read
    to,                \* per isolate: the PendingLock it popped and is about to post
    inbox,             \* per isolate: its private queue or foreground queue
    promise,           \* per request: the promise lock returned
    asked, granted,    \* history: the requests in the order of their calls and of their callbacks
    seen               \* per isolate: what mutex.value() returned last

locals == <<pc, req, cur, to>>
vars == <<serialized_value, locked, pending_locks, locals, inbox, promise, asked, granted, seen>>

Pending == [req : Requests, isolate : Isolates]
NoPending == [req |-> None, isolate |-> None]

Init ==
    /\ serialized_value = {} /\ locked = FALSE /\ pending_locks = <<>>
    /\ pc = [i \in Isolates |-> "idle"] /\ req = [i \in Isolates |-> None]
    /\ cur = [i \in Isolates |-> {}] /\ to = [i \in Isolates |-> NoPending]
    /\ inbox = [i \in Isolates |-> <<>>]
    /\ promise = [r \in Requests |-> "unasked"]
    /\ asked = <<>> /\ granted = <<>> /\ seen = [i \in Isolates |-> {}]

(* Isolate i copies the value under the inner mutex and calls the callback. *)
RunCallback(i, r) ==
    /\ pc' = [pc EXCEPT ![i] = "callback"]
    /\ req' = [req EXCEPT ![i] = r]
    /\ cur' = [cur EXCEPT ![i] = serialized_value]
    /\ granted' = Append(granted, r)

------------------------------------------------------------------------------
(* Mutant: the fast path does not set locked.                               *)
TakenForgotten == UNCHANGED locked

(* locked = true.                                                           *)
Taken == locked' = TRUE

(* Lock: also a callback may call it, and then always finds it locked.      *)
Lock(i, r) ==
    /\ promise[r] = "unasked"
    /\ promise' = [promise EXCEPT ![r] = "pending"]
    /\ asked' = Append(asked, r)
    /\ \/ /\ ~locked /\ pc[i] = "idle"
          /\ Taken
          /\ RunCallback(i, r)
          /\ UNCHANGED pending_locks
       \/ /\ locked /\ pc[i] \in {"idle", "callback"}
          /\ pending_locks' = Append(pending_locks, [req |-> r, isolate |-> i])
          /\ UNCHANGED <<locked, pc, req, cur, granted>>
    /\ UNCHANGED <<serialized_value, to, inbox, seen>>

(* Mutant: what a failed callback left behind is stored.                    *)
CommitFailing(i) ==
    /\ pc[i] = "callback"
    /\ serialized_value' = cur[i] \cup {req[i]}
    /\ promise' = [promise EXCEPT ![req[i]] = IF req[i] \in Failing THEN "rejected" ELSE "resolved"]
    /\ pc' = [pc EXCEPT ![i] = "release"]
    /\ UNCHANGED <<locked, pending_locks, req, cur, to, inbox, asked, granted, seen>>

(* Mutant: the error path returns without a release.                        *)
CommitKeepsLock(i) ==
    /\ pc[i] = "callback"
    /\ \/ /\ req[i] \notin Failing
          /\ serialized_value' = cur[i] \cup {req[i]}
          /\ promise' = [promise EXCEPT ![req[i]] = "resolved"]
          /\ pc' = [pc EXCEPT ![i] = "release"]
       \/ /\ req[i] \in Failing
          /\ promise' = [promise EXCEPT ![req[i]] = "rejected"]
          /\ pc' = [pc EXCEPT ![i] = "idle"]
          /\ UNCHANGED serialized_value
    /\ UNCHANGED <<locked, pending_locks, req, cur, to, inbox, asked, granted, seen>>

(* The callback returned: store what it made of the value it was given, or  *)
(* reject the promise and leave the value as it is.  The promise belongs to *)
(* the isolate's own heap, so no other isolate sees it settle after the     *)
(* store: one step.                                                         *)
Commit(i) ==
    /\ pc[i] = "callback"
    /\ \/ /\ req[i] \notin Failing
          /\ serialized_value' = cur[i] \cup {req[i]}
          /\ promise' = [promise EXCEPT ![req[i]] = "resolved"]
       \/ /\ req[i] \in Failing
          /\ promise' = [promise EXCEPT ![req[i]] = "rejected"]
          /\ UNCHANGED serialized_value
    /\ pc' = [pc EXCEPT ![i] = "release"]
    /\ UNCHANGED <<locked, pending_locks, req, cur, to, inbox, asked, granted, seen>>

(* Mutant: the mutex is unlocked although it is handed over.                *)
ReleaseLockOpens(i) ==
    /\ pc[i] = "release"
    /\ req' = [req EXCEPT ![i] = None] /\ cur' = [cur EXCEPT ![i] = {}]
    /\ locked' = FALSE
    /\ \/ /\ pending_locks # <<>>
          /\ to' = [to EXCEPT ![i] = Head(pending_locks)]
          /\ pending_locks' = Tail(pending_locks)
          /\ pc' = [pc EXCEPT ![i] = "post"]
       \/ /\ pending_locks = <<>>
          /\ pc' = [pc EXCEPT ![i] = "idle"]
          /\ UNCHANGED <<pending_locks, to>>
    /\ UNCHANGED <<serialized_value, inbox, promise, asked, granted, seen>>

(* ReleaseLock: hand over, with locked still set, or unlock.                *)
ReleaseLock(i) ==
    /\ pc[i] = "release"
    /\ req' = [req EXCEPT ![i] = None] /\ cur' = [cur EXCEPT ![i] = {}]
    /\ \/ /\ pending_locks # <<>>
          /\ to' = [to EXCEPT ![i] = Head(pending_locks)]
          /\ pending_locks' = Tail(pending_locks)
          /\ pc' = [pc EXCEPT ![i] = "post"]
          /\ UNCHANGED locked
       \/ /\ pending_locks = <<>>
          /\ locked' = FALSE
          /\ pc' = [pc EXCEPT ![i] = "idle"]
          /\ UNCHANGED <<pending_locks, to>>
    /\ UNCHANGED <<serialized_value, inbox, promise, asked, granted, seen>>

(* After the unlock: the ResolveMutexTask goes to the isolate that waits.   *)
PostTask(i) ==
    /\ pc[i] = "post"
    /\ inbox' = [inbox EXCEPT ![to[i].isolate] = Append(@, to[i].req)]
    /\ to' = [to EXCEPT ![i] = NoPending]
    /\ pc' = [pc EXCEPT ![i] = "idle"]
    /\ UNCHANGED <<serialized_value, locked, pending_locks, req, cur, promise, asked, granted, seen>>

(* An isolate between two calls runs the ResolveMutexTask it was sent.      *)
RunInternal(i) ==
    /\ pc[i] = "idle" /\ inbox[i] # <<>>
    /\ inbox' = [inbox EXCEPT ![i] = Tail(@)]
    /\ RunCallback(i, Head(inbox[i]))
    /\ UNCHANGED <<serialized_value, locked, pending_locks, to, promise, asked, seen>>

(* mutex.value() copies the value without taking the lock.                  *)
Value(i) ==
    /\ pc[i] \in {"idle", "callback"}
    /\ seen' = [seen EXCEPT ![i] = serialized_value]
    /\ UNCHANGED <<serialized_value, locked, pending_locks, locals, inbox, promise, asked, granted>>

------------------------------------------------------------------------------
(* The steps that finish what is under way.                                 *)
IsolateStep(i) == Commit(i) \/ ReleaseLock(i) \/ PostTask(i) \/ RunInternal(i)

Next ==
    \E i \in Isolates : (\E r \in Requests : Lock(i, r)) \/ IsolateStep(i) \/ Value(i)

Spec == Init /\ [][Next]_vars

(* Callbacks return and isolates run the tasks they are sent.               *)
Fairness == \A i \in Isolates : WF_vars(IsolateStep(i))
FairSpec == Spec /\ Fairness

------------------------------------------------------------------------------
(* Every variable has its type.                                             *)
TypeOK ==
    /\ serialized_value \subseteq Requests /\ locked \in BOOLEAN
    /\ pending_locks \in Seq(Pending) /\ inbox \in [Isolates -> Seq(Requests)]
    /\ pc \in [Isolates -> {"idle", "callback", "release", "post"}]
    /\ req \in [Isolates -> Requests \cup {None}] /\ cur \in [Isolates -> SUBSET Requests]
    /\ to \in [Isolates -> Pending \cup {NoPending}]
    /\ promise \in [Requests -> {"unasked", "pending", "resolved", "rejected"}]
    /\ asked \in Seq(Requests) /\ granted \in Seq(Requests)
    /\ seen \in [Isolates -> SUBSET Requests]

(* Mutual exclusion across the hand-over: whoever runs a callback, releases *)
(* or posts, and the task that carries the mutex to another isolate, are    *)
(* together at most one, and exactly when locked is set there is one.       *)
MutualExclusion ==
    LET busy == {i \in Isolates : pc[i] # "idle"}
        inFlight == {i \in Isolates : inbox[i] # <<>>}
    IN  /\ \A i, j \in busy : i = j
        /\ \A i, j \in inFlight : i = j /\ Len(inbox[i]) = 1
        /\ busy = {} \/ inFlight = {}
        /\ locked <=> busy \cup inFlight # {}
        /\ pending_locks # <<>> => locked

(* No update is lost and no failed update is kept: the value is made of     *)
(* exactly the updates whose promise was resolved.                          *)
NoLostUpdate == serialized_value = {r \in Requests : promise[r] = "resolved"}

(* No barging: callbacks run in the order in which lock was called, also    *)
(* while the mutex is on its way from one isolate to another.               *)
FirstComeFirstServed ==
    /\ Len(granted) <= Len(asked)
    /\ \A k \in 1..Len(granted) : granted[k] = asked[k]

(* mutex.value() never goes back, and never shows an update that its        *)
(* callback has not finished.                                               *)
ReadsCommitted ==
    [][\A i \in Isolates : seen[i] \subseteq seen'[i] /\
         \A r \in seen'[i] : promise[r] = "resolved"]_seen

(* Every call of lock settles its promise.                                  *)
EveryLockSettles ==
    \A r \in Requests : promise[r] = "pending" ~> promise[r] \in {"resolved", "rejected"}
==============================================================================
