---------------------------- MODULE SegmentQueue ----------------------------
(***************************************************************************)
(* One SegmentQueue object under every sequence of calls its callers can   *)
(* make: an id is enqueued at most once (SessionState.next_segment_id      *)
(* draws a fresh uuid), every other call may name any id that was ever     *)
(* enqueued, in any order and more than once.  The clock is time.time(),   *)
(* a wall clock, so it may jump either way.                                *)
(***************************************************************************)
EXTENDS SegmentQueueOps

CONSTANT Clock    \* the readings int(time.time() * 1000) may return

ASSUME ClockAssumption == Clock \subseteq Int /\ Clock # {}

VARIABLES
    queue,     \* _items and _stats
    now,       \* the wall clock
    used,      \* history: the ids enqueue() has been called with
    manual     \* history: how many items drop(.., "manual") has removed

vars == <<queue, now, used, manual>>

Init ==
    /\ queue = EmptyQueue
    /\ now \in Clock
    /\ used = {}
    /\ manual = 0

EnqueueCall(s) ==
    /\ s \notin used
    /\ queue' = Enqueue(queue, s, now)
    /\ used' = used \cup {s}
    /\ UNCHANGED <<now, manual>>

MarkRunningCall(s) ==
    /\ queue' = MarkRunning(queue, s)
    /\ UNCHANGED <<now, used, manual>>

CompleteCall(s) ==
    /\ queue' = Complete(queue, s)
    /\ UNCHANGED <<now, used, manual>>

DropCall(s, reason) ==
    /\ queue' = Drop(queue, s, reason)
    /\ manual' = IF reason = "manual" /\ s \in Pending(queue) THEN manual + 1 ELSE manual
    /\ UNCHANGED <<now, used>>

EvictCall ==
    /\ queue' = EvictExpired(queue, now)
    /\ UNCHANGED <<now, used, manual>>

ClockReads(t) ==
    /\ now' = t
    /\ UNCHANGED <<queue, used, manual>>

Next ==
    \/ \E s \in Segments : EnqueueCall(s)
    \/ \E s \in used : MarkRunningCall(s) \/ CompleteCall(s)
    \/ \E s \in used, reason \in DropReasons : DropCall(s, reason)
    \/ EvictCall
    \/ \E t \in Clock : ClockReads(t)

Spec == Init /\ [][Next]_vars

-----------------------------------------------------------------------------
TypeOK ==
    /\ queue \in Queues
    /\ now \in Clock
    /\ used \subseteq Segments
    /\ manual \in Nat
    /\ Pending(queue) \subseteq used

\* The module promises that a session never has more than max_pending items
\* in its queue, whatever the order of the calls and of the clock readings.
CapRespected == Cardinality(Pending(queue)) <= MaxPending

\* Every segment offered to enqueue() is still pending or was counted exactly
\* once: completed, refused, expired, or removed by hand.  A late complete()
\* of an evicted segment, a second drop() or an eviction of a running one
\* must not count a segment twice, nor lose one.
Conservation ==
    Cardinality(used) = Cardinality(Pending(queue)) + queue.completed
                          + queue.dropped_overloaded
                          + queue.dropped_expired + manual

\* The incremental counter of running items agrees with the items, and the
\* counter of queued items never falls below them (complete() of an item that
\* was never marked running leaves it too high), so no max(0, ..) of the code
\* ever hides an underflow.
CountersTrackItems ==
    /\ queue.running = Cardinality(InState(queue, "running"))
    /\ queue.queued >= Cardinality(InState(queue, "queued"))

\* A segment is refused only when max_pending items that are not stale are
\* in flight: stale ones are expired before the cap is compared.
RefusedOnlyWhenFull ==
    [][(used' # used /\ Pending(queue') \cap (used' \ used) = {})
         => Cardinality({s \in Pending(queue) : now - queue.queued_at[s] <= TtlMs}) = MaxPending]_vars

\* A segment that has left the queue never comes back, so a late
\* mark_running() cannot revive an evicted segment and leak its slot.
NeverRevived ==
    [][\A s \in used : s \notin Pending(queue) => s \notin Pending(queue')]_vars
=============================================================================
