--------------------------- MODULE SegmentQueueOps ---------------------------
(***************************************************************************)
(* The operations of one segment queue, as functions from a queue value to *)
(* a queue value (python-service/src/olb/runtime/segment_queue.py, class   *)
(* SegmentQueue).  Every operation runs under the queue's own lock, so one *)
(* operator is one atomic step of the state machines built on this module. *)
(***************************************************************************)
EXTENDS Integers, FiniteSets

CONSTANTS Segments,    \* the segment ids that may be enqueued
          MaxPending,  \* max_pending: the cap on items in flight
          TtlMs        \* ttl_ms: an item older than this is stale

ASSUME SegmentsAssumption == IsFiniteSet(Segments)
ASSUME MaxPendingAssumption == MaxPending \in Nat \ {0}
ASSUME TtlAssumption == TtlMs \in Nat \ {0}

ItemStates == {"absent", "queued", "running"}

\* _items (state and queued_at_ms of each) and the counters of _stats.
Queues == [state : [Segments -> ItemStates], queued_at : [Segments -> Int],
           queued : Nat, running : Nat, completed : Nat,
           dropped_overloaded : Nat, dropped_expired : Nat]

EmptyQueue ==
    [state |-> [s \in Segments |-> "absent"], queued_at |-> [s \in Segments |-> 0],
     queued |-> 0, running |-> 0, completed |-> 0,
     dropped_overloaded |-> 0, dropped_expired |-> 0]

\* max(0, a - b): the guarded decrement the code applies to its counters.
Minus(a, b) == IF a >= b THEN a - b ELSE 0

InState(q, st) == {s \in Segments : q.state[s] = st}

Pending(q) == {s \in Segments : q.state[s] # "absent"}

\* now - queued_at > ttl_ms, whatever the state of the item.
Stale(q, now) == {s \in Pending(q) : now - q.queued_at[s] > TtlMs}

\* Mutant of Remove: every removed item comes off the counter of queued ones.
RemoveAsQueued(q, S) ==
    [q EXCEPT
        !.state = [s \in Segments |-> IF s \in S THEN "absent" ELSE q.state[s]],
        !.queued_at = [s \in Segments |-> IF s \in S THEN 0 ELSE q.queued_at[s]],
        !.queued = Minus(@, Cardinality(S))]

\* Pop every item of S and take it off the counter of the state it was in.
Remove(q, S) ==
    [q EXCEPT
        !.state = [s \in Segments |-> IF s \in S THEN "absent" ELSE q.state[s]],
        !.queued_at = [s \in Segments |-> IF s \in S THEN 0 ELSE q.queued_at[s]],
        !.queued = Minus(@, Cardinality(S \cap InState(q, "queued"))),
        !.running = Minus(@, Cardinality(S \cap InState(q, "running")))]

EvictExpired(q, now) ==
    LET r == Remove(q, Stale(q, now)) IN
    [r EXCEPT !.dropped_expired = @ + Cardinality(Stale(q, now))]

\* Mutants of Admits: one item too many; the stale items still count.
AdmitsOneMore(q, now) == Cardinality(Pending(EvictExpired(q, now))) <= MaxPending

AdmitsUnevicted(q, now) == Cardinality(Pending(q)) < MaxPending

\* The cap is compared with what is left once the stale items are gone.
Admits(q, now) == Cardinality(Pending(EvictExpired(q, now))) < MaxPending

\* enqueue(): refused with PLAYBACK_QUEUE_OVERLOADED when Admits is false.
Enqueue(q, s, now) ==
    LET e == EvictExpired(q, now) IN
    IF Admits(q, now)
    THEN [e EXCEPT !.state = [e.state EXCEPT ![s] = "queued"],
                   !.queued_at = [e.queued_at EXCEPT ![s] = now],
                   !.queued = @ + 1]
    ELSE [e EXCEPT !.dropped_overloaded = @ + 1]

\* Mutant of MarkRunning: an item that is gone is put back.
MarkRunningAbsent(q, s) ==
    IF q.state[s] = "running" THEN q
    ELSE [q EXCEPT !.state = [q.state EXCEPT ![s] = "running"],
                   !.queued = Minus(@, 1),
                   !.running = @ + 1]

MarkRunning(q, s) ==
    IF q.state[s] # "queued" THEN q
    ELSE [q EXCEPT !.state = [q.state EXCEPT ![s] = "running"],
                   !.queued = Minus(@, 1),
                   !.running = @ + 1]

\* Mutants of Complete: a late call counts again; the counter of running items
\* is not guarded.
CompleteLate(q, s) ==
    IF q.state[s] = "absent" THEN [q EXCEPT !.completed = @ + 1]
    ELSE [q EXCEPT !.state = [q.state EXCEPT ![s] = "absent"],
                   !.queued_at = [q.queued_at EXCEPT ![s] = 0],
                   !.running = IF q.state[s] = "running" THEN Minus(@, 1) ELSE @,
                   !.completed = @ + 1]

CompleteUnguarded(q, s) ==
    IF q.state[s] = "absent" THEN q
    ELSE [q EXCEPT !.state = [q.state EXCEPT ![s] = "absent"],
                   !.queued_at = [q.queued_at EXCEPT ![s] = 0],
                   !.running = @ - 1,
                   !.completed = @ + 1]

\* complete() takes a running item off its counter but never a queued one.
Complete(q, s) ==
    IF q.state[s] = "absent" THEN q
    ELSE [q EXCEPT !.state = [q.state EXCEPT ![s] = "absent"],
                   !.queued_at = [q.queued_at EXCEPT ![s] = 0],
                   !.running = IF q.state[s] = "running" THEN Minus(@, 1) ELSE @,
                   !.completed = @ + 1]

DropReasons == {"overloaded", "expired", "manual"}

\* drop(): the reason "manual" is in none of the counters.
Drop(q, s, reason) ==
    IF q.state[s] = "absent" THEN q
    ELSE LET r == Remove(q, {s}) IN
         [r EXCEPT !.dropped_expired = IF reason = "expired" THEN @ + 1 ELSE @,
                   !.dropped_overloaded = IF reason = "overloaded" THEN @ + 1 ELSE @]
==============================================================================
