------------------------- MODULE SegmentQueueProofs -------------------------
(***************************************************************************)
(* The invariants of SegmentQueue hold for every finite set of segments,   *)
(* every cap, every ttl and every clock.  SegmentQueueLemmas says what     *)
(* each operation does; the step of the invariant then only counts.        *)
(***************************************************************************)
EXTENDS SegmentQueue, SegmentQueueLemmas

-----------------------------------------------------------------------------
\* The inductive invariant.  TypeOK makes the set of ids that were offered
\* finite and a superset of the pending ones, so offering a fresh id adds
\* exactly one to both sides of Conservation.
IInv == TypeOK /\ CapRespected /\ Conservation /\ CountersTrackItems

\* The empty queue satisfies the invariant.
LEMMA InitInvariant == Init => IInv
<1> SUFFICES ASSUME Init PROVE IInv
    OBVIOUS
<1>1. queue = EmptyQueue /\ now \in Clock /\ used = {} /\ manual = 0
    BY DEF Init
<1>2. Pending(queue) = {} /\ InState(queue, "running") = {} /\ InState(queue, "queued") = {}
    BY <1>1 DEF EmptyQueue, Pending, InState
<1>3. queue \in Queues
    BY <1>1 DEF EmptyQueue, Queues, ItemStates
<1>4. Cardinality({}) = 0
    BY FS_EmptySet
<1>5. /\ queue.queued = 0 /\ queue.running = 0 /\ queue.completed = 0
      /\ queue.dropped_overloaded = 0 /\ queue.dropped_expired = 0
    BY <1>1 DEF EmptyQueue
<1> QED BY <1>1, <1>2, <1>3, <1>4, <1>5, MaxPendingAssumption
        DEF IInv, TypeOK, CapRespected, Conservation, CountersTrackItems

\* Every call, and every clock reading, preserves the invariant.
LEMMA StepInvariant == IInv /\ [Next]_vars => IInv'
<1> SUFFICES ASSUME IInv, [Next]_vars PROVE IInv'
    OBVIOUS
<1>1. /\ queue \in Queues /\ now \in Int /\ now \in Clock /\ manual \in Nat
      /\ used \in SUBSET Segments /\ Pending(queue) \subseteq used
      /\ Cardinality(Pending(queue)) <= MaxPending
      /\ Cardinality(used) = Counted(queue) + manual
      /\ Tracks(queue)
    BY ClockAssumption, QueueFields, QueueSetsFinite
       DEF IInv, TypeOK, CapRespected, Conservation, CountersTrackItems, Counted, Tracks
<1>2. /\ IsFiniteSet(used) /\ Cardinality(used) \in Nat
      /\ Cardinality(Pending(queue)) \in Nat
    BY <1>1, QueueSetsFinite
<1>3. ASSUME queue' \in Queues, now' \in Clock, used' \in SUBSET Segments, manual' \in Nat,
             Pending(queue') \subseteq used', Cardinality(Pending(queue')) <= MaxPending,
             Cardinality(used') = Counted(queue') + manual', Tracks(queue')
      PROVE  IInv'
    <2>1. /\ Cardinality(Pending(queue')) \in Nat
          /\ queue'.completed \in Nat /\ queue'.dropped_overloaded \in Nat
          /\ queue'.dropped_expired \in Nat
        BY <1>3, QueueFields, QueueSetsFinite
    <2> QED BY <1>3, <2>1
            DEF IInv, TypeOK, CapRespected, Conservation, CountersTrackItems, Counted, Tracks
<1>4. ASSUME NEW s \in Segments, EnqueueCall(s) PROVE IInv'
    <2>1. /\ s \notin used /\ queue' = Enqueue(queue, s, now)
          /\ used' = used \cup {s} /\ now' = now /\ manual' = manual
        BY <1>4 DEF EnqueueCall
    <2>2. /\ queue' \in Queues
          /\ Pending(queue') \subseteq Pending(queue) \cup {s}
          /\ Cardinality(Pending(queue')) <= MaxPending
          /\ Tracks(queue')
          /\ Counted(queue') = Counted(queue) + 1
        BY <1>1, <2>1, EnqueueEffect
    <2>3. Cardinality(used') = Cardinality(used) + 1
        BY <1>2, <2>1, FS_AddElement
    <2>4. Cardinality(used') = Counted(queue') + manual'
        <3>1. Counted(queue) \in Nat
            BY <1>1, <1>2, QueueFields DEF Counted
        <3> QED BY <1>1, <1>2, <2>1, <2>2, <2>3, <3>1
    <2> QED BY <1>1, <1>3, <2>1, <2>2, <2>4
<1>5. ASSUME NEW s \in used, MarkRunningCall(s) PROVE IInv'
    <2>1. /\ queue' = MarkRunning(queue, s) /\ s \in Segments
          /\ UNCHANGED <<now, used, manual>>
        BY <1>1, <1>5 DEF MarkRunningCall
    <2> QED BY <1>1, <1>3, <2>1, MarkRunningEffect
<1>6. ASSUME NEW s \in used, CompleteCall(s) PROVE IInv'
    <2>1. /\ queue' = Complete(queue, s) /\ s \in Segments
          /\ UNCHANGED <<now, used, manual>>
        BY <1>1, <1>6 DEF CompleteCall
    <2>2. /\ queue' \in Queues /\ Pending(queue') = Pending(queue) \ {s}
          /\ Cardinality(Pending(queue')) <= Cardinality(Pending(queue))
          /\ Tracks(queue') /\ Counted(queue') = Counted(queue)
        BY <1>1, <2>1, CompleteEffect
    <2>3. Cardinality(Pending(queue')) <= MaxPending
        BY <1>1, <1>2, <2>2, QueueSetsFinite, MaxPendingAssumption
    <2> QED BY <1>1, <1>3, <2>1, <2>2, <2>3
<1>7. ASSUME NEW s \in used, NEW reason \in DropReasons, DropCall(s, reason) PROVE IInv'
    <2>1. /\ queue' = Drop(queue, s, reason) /\ s \in Segments
          /\ manual' = manual + (IF reason = "manual" /\ s \in Pending(queue) THEN 1 ELSE 0)
          /\ UNCHANGED <<now, used>>
        BY <1>1, <1>7 DEF DropCall
    <2>2. /\ queue' \in Queues /\ Pending(queue') = Pending(queue) \ {s}
          /\ Cardinality(Pending(queue')) <= Cardinality(Pending(queue))
          /\ Tracks(queue')
          /\ Counted(queue) = Counted(queue')
                + (IF reason = "manual" /\ s \in Pending(queue) THEN 1 ELSE 0)
        BY <1>1, <2>1, DropEffect
    <2>3. Cardinality(Pending(queue')) <= MaxPending /\ manual' \in Nat
        BY <1>1, <1>2, <2>1, <2>2, QueueSetsFinite, MaxPendingAssumption
    <2>4. Cardinality(used') = Counted(queue') + manual'
        <3>1. /\ Cardinality(Pending(queue')) \in Nat
              /\ queue'.completed \in Nat /\ queue'.dropped_overloaded \in Nat
              /\ queue'.dropped_expired \in Nat
            BY <2>2, QueueFields, QueueSetsFinite
        <3>2. Counted(queue') \in Nat
            BY <3>1 DEF Counted
        <3> QED BY <1>1, <2>1, <2>2, <3>2
    <2> QED BY <1>1, <1>3, <2>1, <2>2, <2>3, <2>4
<1>8. ASSUME EvictCall PROVE IInv'
    <2>1. queue' = EvictExpired(queue, now) /\ UNCHANGED <<now, used, manual>>
        BY <1>8 DEF EvictCall
    <2>2. /\ queue' \in Queues /\ Pending(queue') = Pending(queue) \ Stale(queue, now)
          /\ Cardinality(Pending(queue')) <= Cardinality(Pending(queue))
          /\ Tracks(queue') /\ Counted(queue') = Counted(queue)
        BY <1>1, <2>1, EvictEffect
    <2>3. Cardinality(Pending(queue')) <= MaxPending
        BY <1>1, <1>2, <2>2, QueueSetsFinite, MaxPendingAssumption
    <2> QED BY <1>1, <1>3, <2>1, <2>2, <2>3
<1>9. ASSUME NEW t \in Clock, ClockReads(t) PROVE IInv'
    <2>1. now' = t /\ UNCHANGED <<queue, used, manual>>
        BY <1>9 DEF ClockReads
    <2> QED BY <1>1, <1>3, <2>1
<1>10. CASE UNCHANGED vars
    <2>1. UNCHANGED <<queue, now, used, manual>>
        BY <1>10 DEF vars
    <2> QED BY <1>1, <1>3, <2>1
<1> QED BY <1>4, <1>5, <1>6, <1>7, <1>8, <1>9, <1>10 DEF Next

\* The invariant holds in every reachable state.
LEMMA Invariance == Spec => []IInv
BY InitInvariant, StepInvariant, PTL DEF Spec

\* Every reachable queue has the declared shape, and what is pending was
\* offered to enqueue() before.
THEOREM QueueTypeCorrect == Spec => []TypeOK
<1>1. IInv => TypeOK
    BY DEF IInv
<1> QED BY <1>1, Invariance, PTL

\* The cap of segment_queue.py is never exceeded: no order of calls, of
\* evictions and of clock jumps lets a session hold more than max_pending
\* items.
THEOREM QueueCapHolds == Spec => []CapRespected
<1>1. IInv => CapRespected
    BY DEF IInv
<1> QED BY <1>1, Invariance, PTL

\* Every segment ever offered is pending or was counted exactly once, so a
\* completion that arrives after the eviction of its segment is not counted
\* a second time.
THEOREM QueueConserves == Spec => []Conservation
<1>1. IInv => Conservation
    BY DEF IInv
<1> QED BY <1>1, Invariance, PTL

\* The incremental counters never underflow: the one of running items is
\* exact and the one of queued items never too low.
THEOREM QueueCountersTrack == Spec => []CountersTrackItems
<1>1. IInv => CountersTrackItems
    BY DEF IInv
<1> QED BY <1>1, Invariance, PTL

\* A segment that has left the queue never comes back into it.
THEOREM QueueNeverRevives == Spec => NeverRevived
<1> DEFINE A == \A s \in used : s \notin Pending(queue) => s \notin Pending(queue')
<1>1. IInv /\ [Next]_vars => [A]_vars
    <2> SUFFICES ASSUME IInv, Next PROVE A
        OBVIOUS
    <2>1. /\ queue \in Queues /\ now \in Int /\ Tracks(queue)
          /\ used \in SUBSET Segments /\ Pending(queue) \subseteq used
          /\ Cardinality(Pending(queue)) <= MaxPending
        BY ClockAssumption DEF IInv, TypeOK, CapRespected, CountersTrackItems, Tracks
    <2>2. ASSUME NEW s \in Segments, EnqueueCall(s) PROVE A
        <3>1. s \notin used /\ queue' = Enqueue(queue, s, now)
            BY <2>2 DEF EnqueueCall
        <3>2. Pending(queue') \subseteq Pending(queue) \cup {s}
            BY <2>1, <3>1, EnqueueEffect
        <3> QED BY <3>1, <3>2
    <2>3. ASSUME NEW s \in used, MarkRunningCall(s) PROVE A
        BY <2>1, <2>3, MarkRunningEffect DEF MarkRunningCall
    <2>4. ASSUME NEW s \in used, CompleteCall(s) PROVE A
        BY <2>1, <2>4, CompleteEffect DEF CompleteCall
    <2>5. ASSUME NEW s \in used, NEW reason \in DropReasons, DropCall(s, reason) PROVE A
        BY <2>1, <2>5, DropEffect DEF DropCall
    <2>6. ASSUME EvictCall PROVE A
        BY <2>1, <2>6, EvictEffect DEF EvictCall
    <2>7. ASSUME NEW t \in Clock, ClockReads(t) PROVE A
        BY <2>7 DEF ClockReads
    <2> QED BY <2>2, <2>3, <2>4, <2>5, <2>6, <2>7 DEF Next
<1> QED BY <1>1, Invariance, PTL DEF Spec, NeverRevived

\* A segment is refused only by a queue that is full of items younger than the
\* ttl: stale ones never cost a caller its place.
THEOREM QueueRefusesOnlyWhenFull == Spec => RefusedOnlyWhenFull
<1> DEFINE young == {s \in Pending(queue) : now - queue.queued_at[s] <= TtlMs}
           B == used' # used /\ Pending(queue') \cap (used' \ used) = {}
                  => Cardinality(young) = MaxPending
<1>1. IInv /\ [Next]_vars => [B]_vars
    <2> SUFFICES ASSUME IInv, Next PROVE B
        OBVIOUS
    <2>1. /\ queue \in Queues /\ now \in Int /\ Tracks(queue)
          /\ used \in SUBSET Segments /\ Pending(queue) \subseteq used
          /\ Cardinality(Pending(queue)) <= MaxPending
        BY ClockAssumption DEF IInv, TypeOK, CapRespected, CountersTrackItems, Tracks
    <2>2. ASSUME NEW s \in Segments, EnqueueCall(s), Pending(queue') \cap (used' \ used) = {}
          PROVE  Cardinality(young) = MaxPending
        <3>1. s \notin used /\ queue' = Enqueue(queue, s, now) /\ used' = used \cup {s}
            BY <2>2 DEF EnqueueCall
        <3>2. s \notin Pending(queue')
            BY <2>2, <3>1
        <3>3. ~Admits(queue, now)
            BY <2>1, <3>1, <3>2, EnqueueEffect
        <3> DEFINE e == EvictExpired(queue, now)
        <3>4. /\ e \in Queues /\ Pending(e) = Pending(queue) \ Stale(queue, now)
              /\ Cardinality(Pending(e)) <= Cardinality(Pending(queue))
            BY <2>1, EvictEffect
        <3>5. Cardinality(Pending(e)) \in Nat /\ Cardinality(Pending(queue)) \in Nat
            BY <2>1, <3>4, QueueSetsFinite
        <3>6. Pending(queue) \ Stale(queue, now) = young
            <4>1. \A x \in Pending(queue) : queue.queued_at[x] \in Int
                BY <2>1, QueueFields DEF Pending
            <4> QED BY <2>1, <4>1, TtlAssumption DEF Stale
        <3>7. ~(Cardinality(Pending(e)) < MaxPending)
            BY <3>3 DEF Admits
        <3> HIDE DEF e, young
        <3>8. Cardinality(Pending(e)) = MaxPending
            BY <2>1, <3>4, <3>5, <3>7, MaxPendingAssumption
        <3> QED BY <3>4, <3>6, <3>8
    <2>3. \/ \E s \in Segments : EnqueueCall(s)
          \/ used' = used
        BY DEF Next, MarkRunningCall, CompleteCall, DropCall, EvictCall, ClockReads
    <2> QED BY <2>2, <2>3
<1> QED BY <1>1, Invariance, PTL DEF Spec, RefusedOnlyWhenFull
=============================================================================
