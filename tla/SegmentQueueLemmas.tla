------------------------- MODULE SegmentQueueLemmas -------------------------
(***************************************************************************)
(* What each operation of a segment queue does to the pending set, to the  *)
(* cap and to the counters, for every finite set of segments, every cap,   *)
(* every ttl and every reading of the clock: one lemma for each.           *)
(***************************************************************************)
EXTENDS SegmentQueueOps, FiniteSetTheorems, TLAPS

\* What the counters of a queue say about its items.
Tracks(q) ==
    /\ q.running = Cardinality(InState(q, "running"))
    /\ q.queued >= Cardinality(InState(q, "queued"))

\* Everything a segment can have been counted as.
Counted(q) ==
    Cardinality(Pending(q)) + q.completed
        + q.dropped_overloaded + q.dropped_expired

\* The fields of a queue have the types the record set gives them.
LEMMA QueueFields ==
    ASSUME NEW q \in Queues
    PROVE  /\ q.state \in [Segments -> ItemStates] /\ q.queued_at \in [Segments -> Int]
           /\ q.queued \in Nat /\ q.running \in Nat /\ q.completed \in Nat
           /\ q.dropped_overloaded \in Nat /\ q.dropped_expired \in Nat
BY DEF Queues

\* The sets of items of a queue are finite, so their cardinalities are counts.
LEMMA QueueSetsFinite ==
    ASSUME NEW q \in Queues, NEW S \in SUBSET Segments
    PROVE  /\ IsFiniteSet(S) /\ Cardinality(S) \in Nat
           /\ IsFiniteSet(Pending(q)) /\ Cardinality(Pending(q)) \in Nat
           /\ \A st \in ItemStates : /\ IsFiniteSet(InState(q, st))
                                     /\ Cardinality(InState(q, st)) \in Nat
<1>1. \A T \in SUBSET Segments : IsFiniteSet(T) /\ Cardinality(T) \in Nat
    BY SegmentsAssumption, FS_Subset, FS_CardinalityType
<1>2. Pending(q) \in SUBSET Segments /\ \A st \in ItemStates : InState(q, st) \in SUBSET Segments
    BY DEF Pending, InState
<1> QED BY <1>1, <1>2

\* Removing part of a finite set takes its size off the cardinality.
LEMMA CardinalityMinus ==
    ASSUME NEW S, IsFiniteSet(S), NEW T \in SUBSET S
    PROVE  /\ IsFiniteSet(T) /\ IsFiniteSet(S \ T)
           /\ Cardinality(T) \in Nat /\ Cardinality(S \ T) \in Nat
           /\ Cardinality(S \ T) = Cardinality(S) - Cardinality(T)
<1>1. IsFiniteSet(T) /\ IsFiniteSet(S \ T) /\ S \cap T = T
    BY FS_Subset
<1>2. Cardinality(S \ T) = Cardinality(S) - Cardinality(S \cap T)
    BY FS_Difference
<1> QED BY <1>1, <1>2, FS_CardinalityType

\* Remove() takes exactly the items of S out and keeps the counters in step.
LEMMA RemoveEffect ==
    ASSUME NEW q \in Queues, NEW S \in SUBSET Pending(q), Tracks(q)
    PROVE  /\ Remove(q, S) \in Queues
           /\ Pending(Remove(q, S)) = Pending(q) \ S
           /\ Tracks(Remove(q, S))
           /\ Cardinality(Pending(Remove(q, S))) = Cardinality(Pending(q)) - Cardinality(S)
           /\ Remove(q, S).completed = q.completed
           /\ Remove(q, S).dropped_overloaded = q.dropped_overloaded
           /\ Remove(q, S).dropped_expired = q.dropped_expired
<1> DEFINE r == Remove(q, S)
           Q == InState(q, "queued")
           R == InState(q, "running")
<1>1. /\ IsFiniteSet(Q) /\ IsFiniteSet(R) /\ IsFiniteSet(Pending(q))
      /\ Cardinality(Q) \in Nat /\ Cardinality(R) \in Nat
    BY QueueSetsFinite DEF ItemStates
<1>2. /\ Cardinality(S \cap Q) \in Nat /\ Cardinality(Q \ (S \cap Q)) = Cardinality(Q) - Cardinality(S \cap Q)
      /\ Cardinality(Q \ (S \cap Q)) \in Nat
    BY <1>1, CardinalityMinus
<1>3. /\ Cardinality(S \cap R) \in Nat /\ Cardinality(R \ (S \cap R)) = Cardinality(R) - Cardinality(S \cap R)
      /\ Cardinality(R \ (S \cap R)) \in Nat
    BY <1>1, CardinalityMinus
<1>4. r \in Queues
    <2>1. /\ Minus(q.queued, Cardinality(S \cap Q)) \in Nat
          /\ Minus(q.running, Cardinality(S \cap R)) \in Nat
        BY <1>2, <1>3, QueueFields DEF Minus
    <2>2. /\ [s \in Segments |-> IF s \in S THEN "absent" ELSE q.state[s]] \in [Segments -> ItemStates]
          /\ [s \in Segments |-> IF s \in S THEN 0 ELSE q.queued_at[s]] \in [Segments -> Int]
        BY QueueFields DEF ItemStates
    <2> QED BY <2>1, <2>2 DEF Remove, Queues
<1>5. Pending(r) = Pending(q) \ S
    BY DEF Remove, Pending, Queues, ItemStates
<1>6. InState(r, "queued") = Q \ (S \cap Q) /\ InState(r, "running") = R \ (S \cap R)
    BY DEF Remove, InState, Queues, ItemStates
<1>7. /\ r.queued = Minus(q.queued, Cardinality(S \cap Q))
      /\ r.running = Minus(q.running, Cardinality(S \cap R))
      /\ r.completed = q.completed
      /\ r.dropped_overloaded = q.dropped_overloaded
      /\ r.dropped_expired = q.dropped_expired
    BY DEF Remove, Queues
<1>8. q.queued \in Nat /\ q.running \in Nat
    BY QueueFields
<1>9. Tracks(r)
    <2>1. q.running = Cardinality(R) /\ q.queued >= Cardinality(Q)
        BY DEF Tracks
    <2>2. r.running = Cardinality(R) - Cardinality(S \cap R)
        BY <1>1, <1>3, <1>7, <2>1 DEF Minus
    <2>3. r.queued >= Cardinality(Q) - Cardinality(S \cap Q)
        BY <1>1, <1>2, <1>7, <1>8, <2>1 DEF Minus
    <2> QED BY <1>2, <1>3, <1>6, <2>2, <2>3 DEF Tracks
<1>10. Cardinality(Pending(r)) = Cardinality(Pending(q)) - Cardinality(S)
    BY <1>1, <1>5, CardinalityMinus
<1> QED BY <1>4, <1>5, <1>7, <1>9, <1>10

\* An eviction removes the stale items and counts each of them as expired.
LEMMA EvictEffect ==
    ASSUME NEW q \in Queues, NEW t \in Int, Tracks(q)
    PROVE  /\ EvictExpired(q, t) \in Queues
           /\ Pending(EvictExpired(q, t)) = Pending(q) \ Stale(q, t)
           /\ Cardinality(Pending(EvictExpired(q, t))) <= Cardinality(Pending(q))
           /\ Tracks(EvictExpired(q, t))
           /\ Counted(EvictExpired(q, t)) = Counted(q)
<1> DEFINE S == Stale(q, t)
           r == Remove(q, S)
           e == EvictExpired(q, t)
<1>1. S \in SUBSET Pending(q) /\ S \in SUBSET Segments
    BY DEF Stale, Pending
<1>2. /\ r \in Queues /\ Pending(r) = Pending(q) \ S /\ Tracks(r)
      /\ Cardinality(Pending(r)) = Cardinality(Pending(q)) - Cardinality(S)
      /\ r.completed = q.completed
      /\ r.dropped_overloaded = q.dropped_overloaded
      /\ r.dropped_expired = q.dropped_expired
    BY <1>1, RemoveEffect
<1>3. Cardinality(S) \in Nat /\ Cardinality(Pending(q)) \in Nat
    BY <1>1, QueueSetsFinite
<1> HIDE DEF S, r
<1>4. e = [r EXCEPT !.dropped_expired = @ + Cardinality(S)]
    BY DEF EvictExpired, r, S
<1> HIDE DEF e
<1>5. /\ e \in Queues /\ e.state = r.state
      /\ e.queued = r.queued /\ e.running = r.running
      /\ e.completed = r.completed
      /\ e.dropped_overloaded = r.dropped_overloaded
      /\ e.dropped_expired = r.dropped_expired + Cardinality(S)
    BY <1>2, <1>3, <1>4 DEF Queues
<1>6. Pending(e) = Pending(r) /\ Tracks(e)
    BY <1>2, <1>5 DEF Pending, Tracks, InState
<1>7. Counted(e) = Counted(q)
    BY <1>2, <1>3, <1>5, <1>6, QueueFields DEF Counted
<1> QED BY <1>2, <1>3, <1>5, <1>6, <1>7 DEF S, r, e

\* enqueue() of an id that is not pending: it is admitted within the cap and
\* pending afterwards, or counted as refused; nothing else is counted.
LEMMA EnqueueEffect ==
    ASSUME NEW q \in Queues, NEW s \in Segments, NEW t \in Int, Tracks(q),
           s \notin Pending(q), Cardinality(Pending(q)) <= MaxPending
    PROVE  /\ Enqueue(q, s, t) \in Queues
           /\ Pending(Enqueue(q, s, t)) =
                 (Pending(q) \ Stale(q, t)) \cup (IF Admits(q, t) THEN {s} ELSE {})
           /\ Cardinality(Pending(Enqueue(q, s, t))) <= MaxPending
           /\ Tracks(Enqueue(q, s, t))
           /\ Counted(Enqueue(q, s, t)) = Counted(q) + 1
<1> DEFINE e == EvictExpired(q, t)
           n == Enqueue(q, s, t)
<1>1. /\ e \in Queues /\ Pending(e) = Pending(q) \ Stale(q, t) /\ Tracks(e)
      /\ Cardinality(Pending(e)) <= Cardinality(Pending(q))
      /\ Counted(e) = Counted(q)
    BY EvictEffect
<1>2. /\ IsFiniteSet(Pending(e)) /\ Cardinality(Pending(e)) \in Nat
      /\ Cardinality(Pending(q)) \in Nat
      /\ IsFiniteSet(InState(e, "queued")) /\ Cardinality(InState(e, "queued")) \in Nat
    BY <1>1, QueueSetsFinite DEF ItemStates
<1>3. s \notin Pending(e) /\ s \notin InState(e, "queued")
    BY <1>1 DEF InState, Pending
<1>4. /\ Admits(q, t) <=> Cardinality(Pending(e)) < MaxPending
      /\ n = IF Admits(q, t)
             THEN [e EXCEPT !.state = [e.state EXCEPT ![s] = "queued"],
                            !.queued_at = [e.queued_at EXCEPT ![s] = t],
                            !.queued = @ + 1]
             ELSE [e EXCEPT !.dropped_overloaded = @ + 1]
    BY DEF Enqueue, Admits
<1> HIDE DEF e, n
<1>5. /\ e.state \in [Segments -> ItemStates] /\ e.queued_at \in [Segments -> Int]
      /\ e.queued \in Nat /\ e.running \in Nat /\ e.completed \in Nat
      /\ e.dropped_overloaded \in Nat /\ e.dropped_expired \in Nat
    BY <1>1, QueueFields
<1>6. CASE Admits(q, t)
    <2>1. n = [e EXCEPT !.state = [e.state EXCEPT ![s] = "queued"],
                        !.queued_at = [e.queued_at EXCEPT ![s] = t],
                        !.queued = @ + 1]
        BY <1>4, <1>6
    <2>2. /\ n \in Queues
          /\ n.state = [e.state EXCEPT ![s] = "queued"]
          /\ n.queued = e.queued + 1 /\ n.running = e.running
          /\ n.completed = e.completed
          /\ n.dropped_overloaded = e.dropped_overloaded
          /\ n.dropped_expired = e.dropped_expired
        <3> DEFINE f == [e.state EXCEPT ![s] = "queued"]
                   g == [e.queued_at EXCEPT ![s] = t]
                   k == e.queued + 1
        <3>1. f \in [Segments -> ItemStates] /\ g \in [Segments -> Int] /\ k \in Nat
            BY <1>5 DEF ItemStates
        <3>2. n = [e EXCEPT !.state = f, !.queued_at = g, !.queued = k]
            BY <2>1
        <3> HIDE DEF f, g, k
        <3>3. /\ n \in Queues /\ n.state = f /\ n.queued = k /\ n.running = e.running
              /\ n.completed = e.completed
              /\ n.dropped_overloaded = e.dropped_overloaded
              /\ n.dropped_expired = e.dropped_expired
            BY <3>1, <3>2, <1>1 DEF Queues
        <3> QED BY <3>3 DEF f, k
    <2>3. /\ Pending(n) = Pending(e) \cup {s}
          /\ InState(n, "queued") = InState(e, "queued") \cup {s}
          /\ InState(n, "running") = InState(e, "running")
        BY <2>2, <1>3, <1>5 DEF Pending, InState
    <2>4. /\ Cardinality(Pending(n)) = Cardinality(Pending(e)) + 1
          /\ Cardinality(InState(n, "queued")) = Cardinality(InState(e, "queued")) + 1
        BY <2>3, <1>2, <1>3, FS_AddElement
    <2>5. Tracks(n)
        BY <2>2, <2>3, <2>4, <1>1, <1>2, <1>5 DEF Tracks
    <2>6. Counted(n) = Counted(e) + 1
        BY <2>2, <2>4, <1>2, <1>5 DEF Counted
    <2>7. /\ Cardinality(Pending(n)) <= MaxPending
          /\ Pending(n) = (Pending(q) \ Stale(q, t)) \cup {s}
        BY <2>3, <2>4, <1>1, <1>2, <1>4, <1>6, MaxPendingAssumption
    <2> QED BY <2>2, <2>5, <2>6, <2>7, <1>1, <1>6 DEF n
<1>7. CASE ~Admits(q, t)
    <2>1. n = [e EXCEPT !.dropped_overloaded = @ + 1]
        BY <1>4, <1>7
    <2>2. /\ n \in Queues /\ n.state = e.state
          /\ n.queued = e.queued /\ n.running = e.running
          /\ n.completed = e.completed
          /\ n.dropped_overloaded = e.dropped_overloaded + 1
          /\ n.dropped_expired = e.dropped_expired
        BY <2>1, <1>1 DEF Queues
    <2>3. Pending(n) = Pending(e) /\ Tracks(n)
        BY <2>2, <1>1, <1>5 DEF Pending, Tracks, InState
    <2>4. Counted(n) = Counted(e) + 1
        BY <2>2, <2>3, <1>2, <1>5 DEF Counted
    <2> QED BY <2>2, <2>3, <2>4, <1>1, <1>2, <1>7, MaxPendingAssumption DEF n
<1> QED BY <1>6, <1>7

\* mark_running() moves one item from one counter to the other.
LEMMA MarkRunningEffect ==
    ASSUME NEW q \in Queues, NEW s \in Segments, Tracks(q)
    PROVE  /\ MarkRunning(q, s) \in Queues
           /\ Pending(MarkRunning(q, s)) = Pending(q)
           /\ Tracks(MarkRunning(q, s))
           /\ Counted(MarkRunning(q, s)) = Counted(q)
<1> DEFINE n == MarkRunning(q, s)
           Q == InState(q, "queued")
           R == InState(q, "running")
<1>1. CASE q.state[s] # "queued"
    BY <1>1 DEF MarkRunning
<1>2. CASE q.state[s] = "queued"
    <2>1. n = [q EXCEPT !.state = [q.state EXCEPT ![s] = "running"],
                        !.queued = Minus(@, 1), !.running = @ + 1]
        BY <1>2 DEF MarkRunning
    <2>2. /\ IsFiniteSet(Q) /\ IsFiniteSet(R) /\ Cardinality(Q) \in Nat /\ Cardinality(R) \in Nat
          /\ Cardinality(Pending(q)) \in Nat
        BY QueueSetsFinite DEF ItemStates
    <2> HIDE DEF n
    <2>3. /\ s \in Q /\ s \notin R
          /\ q.state \in [Segments -> ItemStates] /\ q.queued \in Nat /\ q.running \in Nat
        BY <1>2, QueueFields DEF InState
    <2>4. /\ Cardinality(Q \ {s}) = Cardinality(Q) - 1
          /\ Cardinality(Q \ {s}) \in Nat
          /\ Cardinality(R \cup {s}) = Cardinality(R) + 1
        BY <2>2, <2>3, FS_RemoveElement, FS_AddElement, FS_CardinalityType
    <2>5. /\ Minus(q.queued, 1) \in Nat
          /\ Minus(q.queued, 1) >= Cardinality(Q) - 1
        BY <2>2, <2>3 DEF Minus, Tracks
    <2>6. /\ n \in Queues
          /\ n.state = [q.state EXCEPT ![s] = "running"]
          /\ n.queued = Minus(q.queued, 1)
          /\ n.running = q.running + 1
          /\ n.completed = q.completed
          /\ n.dropped_overloaded = q.dropped_overloaded
          /\ n.dropped_expired = q.dropped_expired
        <3> DEFINE f == [q.state EXCEPT ![s] = "running"]
                   k == Minus(q.queued, 1)
                   m == q.running + 1
        <3>1. f \in [Segments -> ItemStates] /\ k \in Nat /\ m \in Nat
            BY <2>3, <2>5 DEF ItemStates
        <3>2. n = [q EXCEPT !.state = f, !.queued = k, !.running = m]
            BY <2>1
        <3> HIDE DEF f, k, m
        <3>3. /\ n \in Queues /\ n.state = f /\ n.queued = k /\ n.running = m
              /\ n.completed = q.completed
              /\ n.dropped_overloaded = q.dropped_overloaded
              /\ n.dropped_expired = q.dropped_expired
            BY <3>1, <3>2 DEF Queues
        <3> QED BY <3>3 DEF f, k, m
    <2>7. /\ Pending(n) = Pending(q)
          /\ InState(n, "queued") = Q \ {s}
          /\ InState(n, "running") = R \cup {s}
        BY <2>3, <2>6, <1>2 DEF Pending, InState
    <2>8. Tracks(n)
        BY <2>2, <2>4, <2>5, <2>6, <2>7 DEF Tracks
    <2> QED BY <2>6, <2>7, <2>8 DEF Counted, n
<1> QED BY <1>1, <1>2

\* complete() of a pending item trades its slot for one completion; of any
\* other id it changes nothing.
LEMMA CompleteEffect ==
    ASSUME NEW q \in Queues, NEW s \in Segments, Tracks(q)
    PROVE  /\ Complete(q, s) \in Queues
           /\ Pending(Complete(q, s)) = Pending(q) \ {s}
           /\ Cardinality(Pending(Complete(q, s))) <= Cardinality(Pending(q))
           /\ Tracks(Complete(q, s))
           /\ Counted(Complete(q, s)) = Counted(q)
<1> DEFINE n == Complete(q, s)
           Q == InState(q, "queued")
           R == InState(q, "running")
           run == IF q.state[s] = "running" THEN Minus(q.running, 1) ELSE q.running
<1>1. /\ IsFiniteSet(Q) /\ IsFiniteSet(R) /\ IsFiniteSet(Pending(q))
      /\ Cardinality(Q) \in Nat /\ Cardinality(R) \in Nat /\ Cardinality(Pending(q)) \in Nat
    BY QueueSetsFinite DEF ItemStates
<1>2. /\ q.state \in [Segments -> ItemStates] /\ q.queued_at \in [Segments -> Int]
      /\ q.queued \in Nat /\ q.running \in Nat /\ q.completed \in Nat
      /\ q.dropped_overloaded \in Nat /\ q.dropped_expired \in Nat
    BY QueueFields
<1>3. CASE q.state[s] = "absent"
    <2>1. n = q
        BY <1>3 DEF Complete
    <2>2. Pending(q) \ {s} = Pending(q)
        BY <1>3 DEF Pending
    <2> QED BY <2>1, <2>2, <1>1
<1>4. CASE q.state[s] # "absent"
    <2>1. n = [q EXCEPT !.state = [q.state EXCEPT ![s] = "absent"],
                        !.queued_at = [q.queued_at EXCEPT ![s] = 0],
                        !.running = run, !.completed = @ + 1]
        BY <1>4 DEF Complete
    <2> HIDE DEF n
    <2>2. /\ run \in Nat
          /\ q.state[s] = "running" => run = Cardinality(R \ {s})
          /\ q.state[s] = "queued" => run = Cardinality(R)
        <3>1. q.state[s] = "running" => s \in R
            BY DEF InState
        <3>2. s \in R => Cardinality(R \ {s}) = Cardinality(R) - 1 /\ Cardinality(R \ {s}) \in Nat
            BY <1>1, FS_RemoveElement, FS_CardinalityType
        <3> QED BY <3>1, <3>2, <1>1, <1>2 DEF Tracks, Minus
    <2>3. /\ Cardinality(Pending(q) \ {s}) = Cardinality(Pending(q)) - 1
          /\ Cardinality(Q \ {s}) <= Cardinality(Q)
          /\ Cardinality(Q \ {s}) \in Nat
        <3>1. s \in Pending(q)
            BY <1>4 DEF Pending
        <3>2. s \notin Q => Q \ {s} = Q
            OBVIOUS
        <3> QED BY <3>1, <3>2, <1>1, FS_RemoveElement, FS_CardinalityType
    <2>4. /\ n \in Queues
          /\ n.state = [q.state EXCEPT ![s] = "absent"]
          /\ n.queued = q.queued
          /\ n.running = run
          /\ n.completed = q.completed + 1
          /\ n.dropped_overloaded = q.dropped_overloaded
          /\ n.dropped_expired = q.dropped_expired
        <3> DEFINE f == [q.state EXCEPT ![s] = "absent"]
                   g == [q.queued_at EXCEPT ![s] = 0]
                   k == q.completed + 1
        <3> HIDE DEF run
        <3>1. f \in [Segments -> ItemStates] /\ g \in [Segments -> Int] /\ k \in Nat
            BY <1>2 DEF ItemStates
        <3>2. n = [q EXCEPT !.state = f, !.queued_at = g, !.running = run, !.completed = k]
            BY <2>1
        <3> HIDE DEF f, g, k
        <3>3. /\ n \in Queues /\ n.state = f /\ n.queued = q.queued /\ n.running = run
              /\ n.completed = k
              /\ n.dropped_overloaded = q.dropped_overloaded
              /\ n.dropped_expired = q.dropped_expired
            BY <2>2, <3>1, <3>2 DEF Queues
        <3> QED BY <3>3 DEF f, k
    <2>5. /\ Pending(n) = Pending(q) \ {s}
          /\ InState(n, "queued") = Q \ {s}
          /\ InState(n, "running") = R \ {s}
          /\ q.state[s] = "queued" => R \ {s} = R
        BY <2>4, <1>2 DEF Pending, InState
    <2>6. n.running = Cardinality(InState(n, "running"))
        <3>1. q.state[s] = "queued" \/ q.state[s] = "running"
            BY <1>2, <1>4 DEF ItemStates
        <3>2. CASE q.state[s] = "queued"
            <4> HIDE DEF run, R
            <4> QED BY <3>2, <2>2, <2>4, <2>5
        <3>3. CASE q.state[s] = "running"
            <4> HIDE DEF run, R
            <4> QED BY <3>3, <2>2, <2>4, <2>5
        <3> QED BY <3>1, <3>2, <3>3
    <2>7. n.queued >= Cardinality(InState(n, "queued"))
        <3>1. q.queued >= Cardinality(Q)
            BY DEF Tracks
        <3> HIDE DEF Q, R, run
        <3> QED BY <3>1, <2>3, <2>4, <2>5, <1>1, <1>2
    <2>8. Counted(n) = Counted(q)
        BY <2>3, <2>4, <2>5, <1>1, <1>2 DEF Counted
    <2> QED BY <2>3, <2>4, <2>5, <2>6, <2>7, <2>8, <1>1 DEF Tracks, n
<1> QED BY <1>3, <1>4

\* drop() frees the slot of a pending item; the counters see it unless the
\* reason is "manual".
LEMMA DropEffect ==
    ASSUME NEW q \in Queues, NEW s \in Segments, NEW reason \in DropReasons, Tracks(q)
    PROVE  /\ Drop(q, s, reason) \in Queues
           /\ Pending(Drop(q, s, reason)) = Pending(q) \ {s}
           /\ Cardinality(Pending(Drop(q, s, reason))) <= Cardinality(Pending(q))
           /\ Tracks(Drop(q, s, reason))
           /\ Counted(q) = Counted(Drop(q, s, reason))
                 + (IF reason = "manual" /\ s \in Pending(q) THEN 1 ELSE 0)
<1> DEFINE n == Drop(q, s, reason)
           r == Remove(q, {s})
<1>1. /\ IsFiniteSet(Pending(q)) /\ Cardinality(Pending(q)) \in Nat
      /\ q.completed \in Nat /\ q.dropped_overloaded \in Nat /\ q.dropped_expired \in Nat
    BY QueueSetsFinite, QueueFields
<1>2. CASE q.state[s] = "absent"
    <2>1. n = q /\ s \notin Pending(q) /\ Pending(q) \ {s} = Pending(q)
        BY <1>2 DEF Drop, Pending
    <2> QED BY <2>1, <1>1 DEF Counted
<1>3. CASE q.state[s] # "absent"
    <2>1. s \in Pending(q) /\ {s} \in SUBSET Pending(q) /\ Cardinality({s}) = 1
        BY <1>3, FS_Singleton DEF Pending
    <2>2. /\ r \in Queues /\ Pending(r) = Pending(q) \ {s} /\ Tracks(r)
          /\ Cardinality(Pending(r)) = Cardinality(Pending(q)) - 1
          /\ r.completed = q.completed
          /\ r.dropped_overloaded = q.dropped_overloaded
          /\ r.dropped_expired = q.dropped_expired
        BY <2>1, RemoveEffect
    <2>3. n = [r EXCEPT !.dropped_expired = IF reason = "expired" THEN @ + 1 ELSE @,
                        !.dropped_overloaded = IF reason = "overloaded" THEN @ + 1 ELSE @]
        BY <1>3 DEF Drop
    <2> HIDE DEF n, r
    <2>4. r.completed \in Nat /\ r.dropped_overloaded \in Nat /\ r.dropped_expired \in Nat
        BY <2>2, QueueFields
    <2>5. /\ n \in Queues
          /\ n.state = r.state
          /\ n.queued = r.queued /\ n.running = r.running
          /\ n.completed = r.completed
          /\ n.dropped_expired = r.dropped_expired + (IF reason = "expired" THEN 1 ELSE 0)
          /\ n.dropped_overloaded =
                r.dropped_overloaded + (IF reason = "overloaded" THEN 1 ELSE 0)
        <3> DEFINE x == r.dropped_expired + (IF reason = "expired" THEN 1 ELSE 0)
                   o == r.dropped_overloaded + (IF reason = "overloaded" THEN 1 ELSE 0)
        <3>1. x \in Nat /\ o \in Nat
            BY <2>4
        <3>2. n = [r EXCEPT !.dropped_expired = x, !.dropped_overloaded = o]
            <4>1. /\ (IF reason = "expired" THEN r.dropped_expired + 1 ELSE r.dropped_expired) = x
                  /\ (IF reason = "overloaded" THEN r.dropped_overloaded + 1
                                               ELSE r.dropped_overloaded) = o
                BY <2>4
            <4> HIDE DEF x, o
            <4> QED BY <2>3, <4>1
        <3> HIDE DEF x, o
        <3>3. /\ n \in Queues /\ n.state = r.state
              /\ n.queued = r.queued /\ n.running = r.running
              /\ n.completed = r.completed
              /\ n.dropped_expired = x /\ n.dropped_overloaded = o
            BY <2>2, <3>1, <3>2 DEF Queues
        <3> QED BY <3>3 DEF x, o
    <2>6. Pending(n) = Pending(r) /\ Tracks(n)
        BY <2>2, <2>5 DEF Pending, Tracks, InState
    <2>7. Counted(q) = Counted(n) + (IF reason = "manual" THEN 1 ELSE 0)
        BY <2>2, <2>4, <2>5, <2>6, <1>1 DEF Counted, DropReasons
    <2> QED BY <2>1, <2>2, <2>5, <2>6, <2>7, <1>1 DEF n
<1> QED BY <1>2, <1>3
=============================================================================
