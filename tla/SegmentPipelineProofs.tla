----------------------- MODULE SegmentPipelineProofs -----------------------
(***************************************************************************)
(* The safety of SegmentPipeline for any connections, session ids,         *)
(* segments, clock, cap and ttl: no slot of a queue leaks, the messages of *)
(* every segment follow SegmentProtocol, a segment runs on one bundle, and *)
(* none that can be answered is left without an answer.                    *)
(*                                                                         *)
(* The invariant says of each coroutine what it knows about its segment    *)
(* (ConnOK).  Every step is the change of one coroutine that touches at    *)
(* most its own segment, so one lemma (TaskStep) carries the invariant     *)
(* over for all others.                                                    *)
(***************************************************************************)
EXTENDS SegmentPipeline, SegmentQueueLemmas

\* The message of its segment that a coroutine has sent last.
Said(stage, m) ==
    /\ stage \in {"partial", "locked"} => m = "asr.partial"
    /\ stage \in {"final", "marked"} => m = "asr.final"
    /\ stage = "result" => m = "translate.result"
    /\ stage = "audio" => m = "tts.audio"
    /\ stage = "replying" => m = "error"

\* A coroutine t, its client there or not (p), and what is known of its segment.
ConnOK(t, p, b, la, ra, al, tl) ==
    /\ t.left > 0 => t.sid \in SessionIds /\ t.life \in Lives
    /\ t.stage = "segment" => t.left > 0
    /\ t.stage = "framed" => t.sid \in SessionIds
    /\ t.stage \in InFlight => t.seg # None /\ t.sid \in SessionIds
    /\ t.stage \notin InFlight \cup {"replying"} => t.seg = None
    /\ t.seg # None =>
         /\ b[t.seg] # NoLife
         /\ p => Said(t.stage, la[t.seg])
         /\ t.stage \in InFlight => ra[t.seg] \subseteq {t.gen}
         /\ t.stage = "partial" => \A l \in Lives : t.seg \notin al[l]
         /\ t.stage \in {"partial", "locked", "final"} => \A l \in Lives : t.seg \notin tl[l]

ConnsOK == \A c \in Conns : ConnOK(task[c], peer[c], born, last, ran, asrLocked, trLocked)

\* No two coroutines have the same segment.
OneOwner == \A c, d \in Conns : c # d /\ task[c].seg # None => task[c].seg # task[d].seg

\* Nothing is known of an id that was not drawn.
Untouched ==
    \A s \in Segments :
        born[s] = NoLife =>
            /\ last[s] = "none"
            /\ ran[s] = {}
            /\ \A l \in Lives : s \notin asrLocked[l] /\ s \notin trLocked[l]
            /\ \A i \in SessionIds : s \notin Pending(queue[i])

Bundled == \A s \in Segments : \E g \in 0..MaxLoads : ran[s] \subseteq {g}

QueueOK(q) == Tracks(q) /\ Cardinality(Pending(q)) <= MaxPending

QueuesOK == \A i \in SessionIds : QueueOK(queue[i])

IInv ==
    /\ TypeOK /\ ConnsOK /\ OneOwner /\ Untouched /\ Bundled /\ QueuesOK /\ SlotsOwned

-----------------------------------------------------------------------------
\* The records of coroutines.

\* The fields of a coroutine have their types.
LEMMA TaskFields ==
    ASSUME NEW t \in Tasks
    PROVE  /\ t.stage \in Stages /\ t.sid \in SessionIds \cup {None}
           /\ t.life \in Lives \cup {NoLife} /\ t.seg \in Segments \cup {None}
           /\ t.gen \in 0..MaxLoads /\ t.left \in 0..MaxBurst
BY DEF Tasks

\* A coroutine without anything to do.
LEMMA IdleTask ==
    ASSUME NEW st \in Stages
    PROVE  /\ Idle(st) \in Tasks
           /\ Idle(st).stage = st /\ Idle(st).sid = None /\ Idle(st).seg = None
           /\ Idle(st).left = 0
<1>1. 0 \in 0..MaxLoads /\ 0 \in 0..MaxBurst
    BY PipelineAssumption
<1> QED BY <1>1 DEF Idle, Tasks

\* A frame was accepted.
LEMMA FramedTask ==
    ASSUME NEW i \in SessionIds, NEW t, t = [Idle("framed") EXCEPT !.sid = i]
    PROVE  t \in Tasks /\ t.stage = "framed" /\ t.sid = i /\ t.seg = None /\ t.left = 0
<1>1. 0 \in 0..MaxLoads /\ 0 \in 0..MaxBurst /\ "framed" \in Stages
    BY PipelineAssumption DEF Stages
<1>2. t = [stage |-> "framed", sid |-> i, life |-> NoLife, seg |-> None, gen |-> 0, left |-> 0]
    BY DEF Idle
<1> QED BY <1>1, <1>2 DEF Tasks

\* A coroutine that goes to another stage.
LEMMA StagedTask ==
    ASSUME NEW o \in Tasks, NEW st \in Stages, NEW t, t = [o EXCEPT !.stage = st]
    PROVE  /\ t \in Tasks /\ t.stage = st /\ t.sid = o.sid /\ t.life = o.life
           /\ t.seg = o.seg /\ t.gen = o.gen /\ t.left = o.left
BY DEF Tasks

\* A coroutine that goes on to the next segment of its frame.
LEMMA NextTask ==
    ASSUME NEW o \in Tasks, NEW t, t = [o EXCEPT !.stage = "segment", !.seg = None]
    PROVE  /\ t \in Tasks /\ t.stage = "segment" /\ t.sid = o.sid /\ t.life = o.life
           /\ t.seg = None /\ t.gen = o.gen /\ t.left = o.left
<1>1. "segment" \in Stages
    BY DEF Stages
<1> QED BY <1>1 DEF Tasks

\* A coroutine that has drawn segment s.
LEMMA DrawnTask ==
    ASSUME NEW c \in Conns, task[c] \in Tasks, task[c].left - 1 \in 0..MaxBurst,
           NEW st \in Stages, NEW s \in Segments, NEW g \in 0..MaxLoads, Draws(c, s, st, g)
    PROVE  \E t \in Tasks :
             /\ Becomes(c, t)
             /\ t.stage = st /\ t.sid = task[c].sid /\ t.life = task[c].life
             /\ t.seg = s /\ t.gen = g /\ t.left = task[c].left - 1
<1> DEFINE n == task[c].left - 1
           t == [task[c] EXCEPT !.stage = st, !.seg = s, !.gen = g, !.left = n]
<1>1. Becomes(c, t)
    BY DEF Draws
<1>2. n \in 0..MaxBurst
    OBVIOUS
<1> HIDE DEF n
<1>3. /\ t \in Tasks /\ t.stage = st /\ t.sid = task[c].sid /\ t.life = task[c].life
      /\ t.seg = s /\ t.gen = g /\ t.left = n
    BY <1>2 DEF Tasks
<1> QED BY <1>1, <1>3 DEF n

-----------------------------------------------------------------------------
\* One step of one coroutine.

\* A step of the coroutine of c that touches no segment but s, its own or one
\* that nobody has drawn yet, and leaves nothing in a queue that it gives up,
\* keeps the invariant when what it then knows of s is true.
LEMMA TaskStep ==
    ASSUME IInv, TypeOK', NEW c \in Conns, NEW t \in Tasks, Becomes(c, t),
           NEW s \in Segments \cup {None},
           s = None \/ s = task[c].seg \/ born[s] = NoLife,
           \A x \in Segments : x # s =>
               /\ last'[x] = last[x] /\ ran'[x] = ran[x] /\ born'[x] = born[x]
               /\ \A l \in Lives : /\ x \in asrLocked'[l] <=> x \in asrLocked[l]
                                   /\ x \in trLocked'[l] <=> x \in trLocked[l],
           \A d \in Conns : d # c => peer'[d] = peer[d],
           t.seg \in {None, s},
           s # None => born'[s] # NoLife /\ \E g \in 0..MaxLoads : ran'[s] \subseteq {g},
           ConnOK(t, peer'[c], born', last', ran', asrLocked', trLocked'),
           \A i \in SessionIds : QueueOK(queue'[i]),
           \A i \in SessionIds : \A x \in Pending(queue'[i]) :
               \/ /\ x \in Pending(queue[i])
                  /\ ~(task[c].stage \in InFlight /\ task[c].sid = i /\ task[c].seg = x)
               \/ t.stage \in InFlight /\ t.sid = i /\ t.seg = x
    PROVE  IInv'
<1> USE DEF IInv
<1>1. /\ task' \in [Conns -> Tasks] /\ task \in [Conns -> Tasks]
      /\ task'[c] = t /\ \A d \in Conns : d # c => task'[d] = task[d]
    BY DEF TypeOK, Becomes
<1>2. \A d \in Conns : task[d].seg \in Segments \cup {None}
    BY <1>1, TaskFields
<1>3. None \notin Segments
    BY PipelineAssumption
<1>4. \A d \in Conns : task[d].seg # None => born[task[d].seg] # NoLife
    BY DEF ConnsOK, ConnOK
<1>5. \A d \in Conns : d # c /\ task[d].seg # None => task[d].seg # s
    BY <1>3, <1>4 DEF OneOwner
<1>6. ConnsOK'
    <2> SUFFICES ASSUME NEW d \in Conns
                 PROVE  ConnOK(task'[d], peer'[d], born', last', ran', asrLocked', trLocked')
        BY DEF ConnsOK
    <2>1. CASE d = c
        BY <1>1, <2>1
    <2>2. CASE d # c
        <3>1. ConnOK(task[d], peer[d], born, last, ran, asrLocked, trLocked)
            BY DEF ConnsOK
        <3>2. task'[d] = task[d] /\ peer'[d] = peer[d]
            BY <1>1, <2>2
        <3>3. task[d].seg # None =>
                /\ last'[task[d].seg] = last[task[d].seg] /\ ran'[task[d].seg] = ran[task[d].seg]
                /\ born'[task[d].seg] = born[task[d].seg]
                /\ \A l \in Lives : /\ task[d].seg \in asrLocked'[l] <=> task[d].seg \in asrLocked[l]
                                    /\ task[d].seg \in trLocked'[l] <=> task[d].seg \in trLocked[l]
            BY <1>2, <1>5, <2>2
        <3> QED BY <3>1, <3>2, <3>3 DEF ConnOK
    <2> QED BY <2>1, <2>2
<1>7. OneOwner'
    <2> SUFFICES ASSUME NEW d \in Conns, NEW e \in Conns, d # e, task'[d].seg # None
                 PROVE  task'[d].seg # task'[e].seg
        BY DEF OneOwner
    <2>1. CASE d = c
        BY <1>1, <1>5, <2>1
    <2>2. CASE e = c
        BY <1>1, <1>5, <2>2
    <2>3. CASE d # c /\ e # c
        BY <1>1, <2>3 DEF OneOwner
    <2> QED BY <2>1, <2>2, <2>3
<1>8. Untouched'
    <2> SUFFICES ASSUME NEW x \in Segments, born'[x] = NoLife
                 PROVE  /\ last'[x] = "none" /\ ran'[x] = {}
                        /\ \A l \in Lives : x \notin asrLocked'[l] /\ x \notin trLocked'[l]
                        /\ \A i \in SessionIds : x \notin Pending(queue'[i])
        BY DEF Untouched
    <2>1. x # s
        BY <1>3
    <2>2. /\ last[x] = "none" /\ ran[x] = {}
          /\ \A l \in Lives : x \notin asrLocked[l] /\ x \notin trLocked[l]
          /\ \A i \in SessionIds : x \notin Pending(queue[i])
        BY <2>1 DEF Untouched
    <2> QED BY <1>3, <2>1, <2>2
<1>9. Bundled'
    BY <1>3 DEF Bundled
<1>10. QueuesOK'
    BY DEF QueuesOK
<1>11. SlotsOwned'
    <2> SUFFICES ASSUME NEW i \in SessionIds, NEW x \in Pending(queue'[i])
                 PROVE  \E d \in Conns : /\ task'[d].stage \in InFlight
                                         /\ task'[d].sid = i /\ task'[d].seg = x
        BY DEF SlotsOwned
    <2>1. CASE t.stage \in InFlight /\ t.sid = i /\ t.seg = x
        BY <1>1, <2>1
    <2>2. CASE /\ x \in Pending(queue[i])
               /\ ~(task[c].stage \in InFlight /\ task[c].sid = i /\ task[c].seg = x)
        <3>1. PICK d \in Conns : /\ task[d].stage \in InFlight
                                 /\ task[d].sid = i /\ task[d].seg = x
            BY <2>2 DEF SlotsOwned
        <3> QED BY <1>1, <2>2, <3>1
    <2> QED BY <2>1, <2>2
<1> QED BY <1>6, <1>7, <1>8, <1>9, <1>10, <1>11

\* A step of the environment that only changes the registry or the bundle.
LEMMA OutsideStep ==
    ASSUME IInv, TypeOK',
           UNCHANGED <<asrLocked, trLocked, born, queue, task, peer, last, ran>>
    PROVE  IInv'
BY DEF IInv, ConnsOK, OneOwner, Untouched, Bundled, QueuesOK, SlotsOwned

\* A step of a coroutine that has no segment, or has answered it already.
LEMMA IdleStep ==
    ASSUME IInv, TypeOK', NEW c \in Conns, NEW t \in Tasks, Becomes(c, t),
           UNCHANGED <<asrLocked, trLocked, born, queue, last, ran>>,
           \A d \in Conns : d # c => peer'[d] = peer[d],
           task[c].stage \notin InFlight, t.stage \notin InFlight, t.seg = None,
           t.left > 0 => t.sid \in SessionIds /\ t.life \in Lives,
           t.stage = "segment" => t.left > 0,
           t.stage = "framed" => t.sid \in SessionIds
    PROVE  IInv'
<1>1. ConnOK(t, peer'[c], born', last', ran', asrLocked', trLocked')
    BY DEF ConnOK
<1>2. \A i \in SessionIds : QueueOK(queue'[i])
    BY DEF IInv, QueuesOK
<1> QED BY <1>1, <1>2, TaskStep

\* A step inside the try block: only what is known of the segment changes.
LEMMA StageStep ==
    ASSUME IInv, TypeOK', NEW c \in Conns, NEW st \in InFlight, NEW s, s = task[c].seg,
           Becomes(c, [task[c] EXCEPT !.stage = st]), UNCHANGED <<born, queue, peer>>,
           task[c].stage \in InFlight,
           \A x \in Segments : x # s =>
               /\ last'[x] = last[x] /\ ran'[x] = ran[x]
               /\ \A l \in Lives : /\ x \in asrLocked'[l] <=> x \in asrLocked[l]
                                   /\ x \in trLocked'[l] <=> x \in trLocked[l],
           peer[c] => Said(st, last'[s]),
           ran'[s] \subseteq {task[c].gen},
           st # "partial",
           st \in {"locked", "final"} => \A l \in Lives : s \notin trLocked'[l]
    PROVE  IInv'
<1> DEFINE t == [task[c] EXCEPT !.stage = st]
<1>1. st \in Stages /\ task[c] \in Tasks
    BY DEF InFlight, Awaiting, Stages, IInv, TypeOK
<1>2. /\ t \in Tasks /\ t.stage = st /\ t.sid = task[c].sid /\ t.life = task[c].life
      /\ t.seg = task[c].seg /\ t.gen = task[c].gen /\ t.left = task[c].left
    BY <1>1, StagedTask
<1>3. ConnOK(task[c], peer[c], born, last, ran, asrLocked, trLocked)
    BY DEF IInv, ConnsOK
<1>4. /\ s \in Segments /\ s # None /\ born[s] # NoLife
      /\ task[c].sid \in SessionIds /\ task[c].gen \in 0..MaxLoads
      /\ task[c].left > 0 => task[c].life \in Lives
    BY <1>1, <1>3, TaskFields DEF ConnOK
<1>5. st \notin {"segment", "framed", "replying"}
    BY DEF InFlight, Awaiting
<1> HIDE DEF t
<1>6. ConnOK(t, peer'[c], born', last', ran', asrLocked', trLocked')
    BY <1>2, <1>4, <1>5 DEF ConnOK
<1>7. \A i \in SessionIds : QueueOK(queue'[i])
    BY DEF IInv, QueuesOK
<1>8. Becomes(c, t)
    BY DEF t
<1> QED BY <1>2, <1>4, <1>6, <1>7, <1>8, TaskStep

\* A step that ends the try block and takes the segment out of its queue.
LEMMA ConcludeStep ==
    ASSUME IInv, TypeOK', NEW c \in Conns, NEW t \in Tasks, Becomes(c, t),
           NEW s, s = task[c].seg, NEW q,
           queue' = [queue EXCEPT ![task[c].sid] = q],
           QueueOK(q), Pending(q) = Pending(queue[task[c].sid]) \ {s},
           UNCHANGED <<asrLocked, trLocked, born, ran, peer>>,
           \A x \in Segments : x # s => last'[x] = last[x],
           task[c].stage \in InFlight, t.seg \in {None, s},
           ConnOK(t, peer[c], born, last', ran, asrLocked, trLocked)
    PROVE  IInv'
<1>1. task[c] \in Tasks /\ ConnOK(task[c], peer[c], born, last, ran, asrLocked, trLocked)
    BY DEF IInv, TypeOK, ConnsOK
<1>2. s \in Segments /\ s # None /\ born[s] # NoLife /\ task[c].sid \in SessionIds
    BY <1>1, TaskFields DEF ConnOK
<1>3. \E g \in 0..MaxLoads : ran[s] \subseteq {g}
    BY <1>2 DEF IInv, Bundled
<1>4. DOMAIN queue = SessionIds
    BY DEF IInv, TypeOK
<1>5. queue'[task[c].sid] = q /\ \A i \in SessionIds : i # task[c].sid => queue'[i] = queue[i]
    BY <1>2, <1>4
<1>6. \A i \in SessionIds : QueueOK(queue'[i])
    BY <1>5 DEF IInv, QueuesOK
<1>7. \A i \in SessionIds : \A x \in Pending(queue'[i]) :
        /\ x \in Pending(queue[i])
        /\ ~(task[c].stage \in InFlight /\ task[c].sid = i /\ task[c].seg = x)
    BY <1>5
<1> QED BY <1>2, <1>3, <1>6, <1>7, TaskStep

\* A step that draws segment s: the others of the queue may have expired.
LEMMA DrawStep ==
    ASSUME IInv, TypeOK', NEW c \in Conns, NEW s \in Segments, DrawId(c, s),
           NEW st \in {"partial", "replying"}, NEW g \in 0..MaxLoads, Draws(c, s, st, g),
           NEW q, queue' = [queue EXCEPT ![task[c].sid] = q], QueueOK(q),
           Pending(q) \subseteq Pending(queue[task[c].sid])
                                  \cup (IF st = "partial" THEN {s} ELSE {}),
           Send(c, s, IF st = "partial" THEN "asr.partial" ELSE "error"), peer' = peer,
           ran' = ran \/ ran' = [ran EXCEPT ![s] = {g}]
    PROVE  IInv'
<1>1. task[c] \in Tasks /\ ConnOK(task[c], peer[c], born, last, ran, asrLocked, trLocked)
    BY DEF IInv, TypeOK, ConnsOK
<1>2. /\ task[c].stage = "segment" /\ born[s] = NoLife
      /\ born' = [born EXCEPT ![s] = task[c].life]
      /\ UNCHANGED <<asrLocked, trLocked, peer>>
    BY DEF DrawId
<1>3. /\ task[c].left > 0 /\ task[c].sid \in SessionIds /\ task[c].life \in Lives
      /\ task[c].left \in 0..MaxBurst
    BY <1>1, <1>2, TaskFields DEF ConnOK
<1>4. task[c].left - 1 \in 0..MaxBurst /\ st \in Stages
    BY <1>3, PipelineAssumption DEF Stages
<1>5. PICK t \in Tasks :
        /\ Becomes(c, t)
        /\ t.stage = st /\ t.sid = task[c].sid /\ t.life = task[c].life
        /\ t.seg = s /\ t.gen = g /\ t.left = task[c].left - 1
    BY <1>1, <1>4, DrawnTask
<1>7. /\ last[s] = "none" /\ ran[s] = {}
      /\ \A l \in Lives : s \notin asrLocked[l] /\ s \notin trLocked[l]
      /\ \A i \in SessionIds : s \notin Pending(queue[i])
    BY <1>2 DEF IInv, Untouched
<1>8. /\ DOMAIN born = Segments /\ DOMAIN last = Segments /\ DOMAIN ran = Segments
      /\ DOMAIN queue = SessionIds
    BY DEF IInv, TypeOK
<1>9. task[c].life # NoLife /\ s # None /\ 0 \in 0..MaxLoads
    BY <1>3, PipelineAssumption DEF Lives, NoLife
<1>10. /\ born'[s] # NoLife /\ ran'[s] \subseteq {g}
       /\ peer[c] => last'[s] = IF st = "partial" THEN "asr.partial" ELSE "error"
       /\ \A x \in Segments : x # s =>
            last'[x] = last[x] /\ ran'[x] = ran[x] /\ born'[x] = born[x]
    BY <1>2, <1>7, <1>8, <1>9 DEF Send
<1>11. ConnOK(t, peer'[c], born', last', ran', asrLocked', trLocked')
    <2>1. peer[c] => Said(st, last'[s])
        BY <1>10 DEF Said
    <2>2. st \notin {"segment", "framed"} /\ st \in InFlight \cup {"replying"}
        BY DEF InFlight, Awaiting
    <2> QED BY <1>2, <1>3, <1>5, <1>7, <1>9, <1>10, <2>1, <2>2 DEF ConnOK
<1>12. queue'[task[c].sid] = q /\ \A i \in SessionIds : i # task[c].sid => queue'[i] = queue[i]
    BY <1>3, <1>8
<1>13. \A i \in SessionIds : QueueOK(queue'[i])
    BY <1>12 DEF IInv, QueuesOK
<1>14. \A i \in SessionIds : \A x \in Pending(queue'[i]) :
         \/ /\ x \in Pending(queue[i])
            /\ ~(task[c].stage \in InFlight /\ task[c].sid = i /\ task[c].seg = x)
         \/ t.stage \in InFlight /\ t.sid = i /\ t.seg = x
    BY <1>2, <1>5, <1>12 DEF InFlight, Awaiting
<1>15. \A x \in Segments : x # s =>
           /\ last'[x] = last[x] /\ ran'[x] = ran[x] /\ born'[x] = born[x]
           /\ \A l \in Lives : /\ x \in asrLocked'[l] <=> x \in asrLocked[l]
                               /\ x \in trLocked'[l] <=> x \in trLocked[l]
    BY <1>2, <1>10
<1>16. \A d \in Conns : d # c => peer'[d] = peer[d]
    BY <1>2
<1>17. s # None => born'[s] # NoLife /\ \E h \in 0..MaxLoads : ran'[s] \subseteq {h}
    BY <1>10
<1>18. s \in Segments \cup {None}
    OBVIOUS
<1>19. s = None \/ s = task[c].seg \/ born[s] = NoLife
    BY <1>2
<1>20. t.seg \in {None, s}
    BY <1>5
<1>21. Becomes(c, t)
    BY <1>5
<1> QED BY <1>11, <1>13, <1>14, <1>15, <1>16, <1>17, <1>18, <1>19, <1>20, <1>21, TaskStep, SMTT(30)

\* A step that draws segment s and gives it up with the connection: what s
\* took of the queue is out of it again.
LEMMA DrawnInVain ==
    ASSUME IInv, TypeOK', NEW c \in Conns, NEW s \in Segments, DrawId(c, s), Crash(c),
           NEW q, queue' = [queue EXCEPT ![task[c].sid] = q], QueueOK(q),
           Pending(q) \subseteq Pending(queue[task[c].sid]), last' = last,
           ran' = ran \/ ran' = [ran EXCEPT ![s] = {bundle}]
    PROVE  IInv'
<1> DEFINE t == Idle("closed")
<1>1. t \in Tasks /\ t.stage = "closed" /\ t.seg = None /\ t.left = 0
    BY IdleTask DEF Stages
<1>2. Becomes(c, t)
    BY DEF Crash
<1> HIDE DEF t
<1>3. /\ TypeOK /\ task[c] \in Tasks
      /\ ConnOK(task[c], peer[c], born, last, ran, asrLocked, trLocked)
    BY DEF IInv, TypeOK, ConnsOK
<1>4. /\ task[c].stage = "segment" /\ born[s] = NoLife
      /\ born' = [born EXCEPT ![s] = task[c].life]
      /\ UNCHANGED <<asrLocked, trLocked>>
    BY DEF DrawId
<1>5. task[c].sid \in SessionIds /\ task[c].life \in Lives /\ task[c].life # NoLife
    BY <1>3, <1>4, TaskFields DEF ConnOK, Lives, NoLife
<1>6. \A x \in Segments : x # s =>
           /\ last'[x] = last[x] /\ ran'[x] = ran[x] /\ born'[x] = born[x]
           /\ \A l \in Lives : /\ x \in asrLocked'[l] <=> x \in asrLocked[l]
                               /\ x \in trLocked'[l] <=> x \in trLocked[l]
    BY <1>3, <1>4 DEF TypeOK
<1>7. \A d \in Conns : d # c => peer'[d] = peer[d]
    BY <1>3 DEF Crash, TypeOK
<1>8. born'[s] # NoLife /\ \E g \in 0..MaxLoads : ran'[s] \subseteq {g}
    <2>1. ran[s] = {}
        BY <1>4 DEF IInv, Untouched
    <2>2. ran'[s] \subseteq {bundle} /\ bundle \in 0..MaxLoads
        BY <1>3, <2>1 DEF TypeOK
    <2>3. born'[s] # NoLife
        BY <1>3, <1>4, <1>5 DEF TypeOK
    <2> QED BY <2>2, <2>3
<1>9. ConnOK(t, peer'[c], born', last', ran', asrLocked', trLocked')
    BY <1>1 DEF ConnOK, InFlight, Awaiting
<1>10. queue'[task[c].sid] = q /\ \A i \in SessionIds : i # task[c].sid => queue'[i] = queue[i]
    BY <1>3, <1>5 DEF TypeOK
<1>11. \A i \in SessionIds : QueueOK(queue'[i])
    BY <1>10 DEF IInv, QueuesOK
<1>12. \A i \in SessionIds : \A x \in Pending(queue'[i]) :
         \/ /\ x \in Pending(queue[i])
            /\ ~(task[c].stage \in InFlight /\ task[c].sid = i /\ task[c].seg = x)
         \/ t.stage \in InFlight /\ t.sid = i /\ t.seg = x
    BY <1>4, <1>10 DEF InFlight, Awaiting
<1>13. /\ s \in Segments \cup {None} /\ (s = None \/ s = task[c].seg \/ born[s] = NoLife)
       /\ t.seg \in {None, s}
    BY <1>1, <1>4
<1> QED BY <1>1, <1>2, <1>6, <1>7, <1>8, <1>9, <1>11, <1>12, <1>13, TaskStep, SMTT(30)

-----------------------------------------------------------------------------
\* The types of what a step assigns.

LEMMA TaskType ==
    ASSUME TypeOK, NEW c \in Conns, NEW t \in Tasks, Becomes(c, t)
    PROVE  task' \in [Conns -> Tasks]
BY DEF TypeOK, Becomes

LEMMA QueueType ==
    ASSUME TypeOK, NEW i \in SessionIds, NEW q \in Queues, queue' = [queue EXCEPT ![i] = q]
    PROVE  queue' \in [SessionIds -> Queues]
BY DEF TypeOK

LEMMA SendType ==
    ASSUME TypeOK, NEW c \in Conns, NEW s \in Segments, NEW m \in Messages, Send(c, s, m)
    PROVE  /\ last' \in [Segments -> Messages]
           /\ \A x \in Segments : x # s => last'[x] = last[x]
           /\ peer[c] => last'[s] = m
           /\ ~peer[c] => last' = last
BY DEF TypeOK, Send

\* SessionManager.start registers a new object.
LEMMA StartType ==
    ASSUME TypeOK, NEW i \in SessionIds, lives < MaxLives, lives' = lives + 1,
           registry' = [registry EXCEPT ![i] = lives + 1]
    PROVE  /\ registry' \in [SessionIds -> Lives \cup {NoLife}] /\ lives' \in 0..MaxLives
           /\ misfits \cup {lives + 1} \subseteq Lives
<1>1. lives + 1 \in Lives /\ lives + 1 \in 0..MaxLives
    BY PipelineAssumption DEF TypeOK, Lives
<1> QED BY <1>1 DEF TypeOK

-----------------------------------------------------------------------------
\* The steps of the environment and the arrival of a message.

\* HTTP handlers, connections and departures.
LEMMA EnvironmentStep ==
    ASSUME IInv, Environment
    PROVE  IInv'
<1>1. TypeOK
    BY DEF IInv
<1>2. ASSUME NEW i \in SessionIds, HttpStart(i)
      PROVE  IInv'
    <2>1. TypeOK'
        BY <1>1, <1>2, StartType DEF HttpStart, TypeOK
    <2> QED BY <1>2, <2>1, OutsideStep DEF HttpStart
<1>3. ASSUME NEW i \in SessionIds, HttpStop(i)
      PROVE  IInv'
    <2>1. TypeOK'
        BY <1>1, <1>3 DEF HttpStop, TypeOK
    <2> QED BY <1>3, <2>1, OutsideStep DEF HttpStop
<1>4. CASE ModelsLoad
    <2>1. bundle' \in 0..MaxLoads
        BY <1>1, <1>4, PipelineAssumption DEF ModelsLoad, TypeOK
    <2>2. TypeOK'
        BY <1>1, <1>4, <2>1 DEF ModelsLoad, TypeOK
    <2> QED BY <1>4, <2>2, OutsideStep DEF ModelsLoad
<1>5. ASSUME NEW c \in Conns, Connect(c)
      PROVE  IInv'
    <2> DEFINE t == Idle("ready")
    <2>1. t \in Tasks /\ t.stage = "ready" /\ t.seg = None /\ t.left = 0
        BY IdleTask DEF Stages
    <2> HIDE DEF t
    <2>2. Becomes(c, t) /\ task[c].stage = "closed" /\ peer' = [peer EXCEPT ![c] = TRUE]
        BY <1>5 DEF Connect, t
    <2>3. TypeOK'
        BY <1>1, <1>5, <2>1, <2>2, TaskType DEF Connect, TypeOK
    <2>4. t.stage \notin InFlight /\ task[c].stage \notin InFlight
        BY <2>1, <2>2 DEF InFlight, Awaiting
    <2>5. /\ \A d \in Conns : d # c => peer'[d] = peer[d]
          /\ UNCHANGED <<asrLocked, trLocked, born, queue, last, ran>>
        BY <1>1, <1>5 DEF Connect, TypeOK
    <2>6. Becomes(c, t) /\ ~(t.left > 0) /\ t.stage \notin {"segment", "framed"}
        BY <2>1, <2>2
    <2> QED BY <2>1, <2>3, <2>4, <2>5, <2>6, IdleStep
<1>6. ASSUME NEW c \in Conns, PeerLeaves(c)
      PROVE  IInv'
    <2>1. /\ peer' = [peer EXCEPT ![c] = FALSE]
          /\ UNCHANGED <<registry, lives, misfits, asrLocked, trLocked, born, queue, bundle, loop, task, last, ran>>
        BY <1>6 DEF PeerLeaves
    <2>2. TypeOK'
        BY <1>1, <2>1 DEF TypeOK
    <2>3. ConnsOK'
        <3> SUFFICES ASSUME NEW d \in Conns
                     PROVE  ConnOK(task[d], peer'[d], born, last, ran, asrLocked, trLocked)
            BY <2>1 DEF ConnsOK
        <3>1. ConnOK(task[d], peer[d], born, last, ran, asrLocked, trLocked)
            BY DEF IInv, ConnsOK
        <3>2. peer'[d] => peer[d]
            BY <1>1, <2>1 DEF TypeOK
        <3> QED BY <3>1, <3>2 DEF ConnOK
    <2> QED BY <2>1, <2>2, <2>3 DEF IInv, OneOwner, Untouched, Bundled, QueuesOK, SlotsOwned
<1> QED BY <1>2, <1>3, <1>4, <1>5, <1>6 DEF Environment

\* A coroutine without a segment becomes idle; its connection may be over.
LEMMA GoesIdle ==
    ASSUME IInv, NEW c \in Conns, NEW st \in {"ready", "closed", "replying"},
           Becomes(c, Idle(st)), task[c].stage \notin InFlight,
           peer' = peer \/ peer' = [peer EXCEPT ![c] = FALSE],
           registry' \in [SessionIds -> Lives \cup {NoLife}], lives' \in 0..MaxLives,
           loop' \in Conns \cup {None}, misfits' \subseteq Lives,
           UNCHANGED <<asrLocked, trLocked, born, queue, bundle, last, ran>>
    PROVE  IInv'
<1> DEFINE t == Idle(st)
<1>1. t \in Tasks /\ t.stage = st /\ t.seg = None /\ t.left = 0
    BY IdleTask DEF Stages
<1> HIDE DEF t
<1>2. Becomes(c, t)
    BY DEF t
<1>3. TypeOK /\ task' \in [Conns -> Tasks]
    BY <1>1, <1>2, TaskType DEF IInv
<1>4. TypeOK'
    BY <1>3 DEF TypeOK
<1>5. t.stage \notin InFlight /\ t.stage \notin {"segment", "framed"}
    BY <1>1 DEF InFlight, Awaiting
<1>6. \A d \in Conns : d # c => peer'[d] = peer[d]
    BY <1>3 DEF TypeOK
<1> QED BY <1>1, <1>2, <1>4, <1>5, <1>6, IdleStep

\* The coroutine of c handles a new message.
LEMMA MessageStep ==
    ASSUME IInv, NEW c \in Conns, Message(c)
    PROVE  IInv'
<1>1. TypeOK /\ "ready" \notin InFlight
    BY DEF IInv, InFlight, Awaiting
<1>2. ASSUME NEW i \in SessionIds, NEW fits \in BOOLEAN, TextStart(c, i, fits)
      PROVE  IInv'
    BY <1>1, <1>2, StartType, GoesIdle DEF TextStart, Handles, TypeOK
<1>3. ASSUME NEW i \in SessionIds, TextStop(c, i)
      PROVE  IInv'
    <2>1. TypeOK'
        BY <1>1, <1>3 DEF TextStop, TypeOK
    <2> QED BY <1>3, <2>1, OutsideStep DEF TextStop
<1>4. ASSUME NEW i \in SessionIds, Frame(c, i)
      PROVE  IInv'
    <2> DEFINE t == [Idle("framed") EXCEPT !.sid = i]
    <2>1. t \in Tasks /\ t.stage = "framed" /\ t.sid = i /\ t.seg = None /\ t.left = 0
        BY FramedTask
    <2> HIDE DEF t
    <2>2. Becomes(c, t) /\ task[c].stage = "ready" /\ peer' = peer
        BY <1>4 DEF Frame, Handles, t
    <2>3. TypeOK'
        BY <1>1, <1>4, <2>1, <2>2, TaskType DEF Frame, TypeOK
    <2>4. t.stage \notin InFlight /\ task[c].stage \notin InFlight
        BY <2>1, <2>2 DEF InFlight, Awaiting
    <2> QED BY <1>4, <2>1, <2>2, <2>3, <2>4, IdleStep DEF Frame
<1>5. CASE Answered(c)
    BY <1>1, <1>5, GoesIdle DEF Answered, Handles, TypeOK
<1>6. CASE HandlerRaises(c)
    BY <1>1, <1>6, GoesIdle DEF HandlerRaises, Crash, Handles, TypeOK
<1> QED BY <1>2, <1>3, <1>4, <1>5, <1>6 DEF Message

-----------------------------------------------------------------------------
\* The steps of a coroutine.

\* NextSegment() leaves the coroutine without a segment.
LEMMA NextSegmentTask ==
    ASSUME IInv, NEW c \in Conns, NextSegment(c)
    PROVE  /\ loop' \in Conns \cup {None}
           /\ \E t \in Tasks :
                /\ Becomes(c, t) /\ t.stage \in {"segment", "ready"} /\ t.seg = None
                /\ t.left > 0 => t.sid \in SessionIds /\ t.life \in Lives
                /\ t.stage = "segment" => t.left > 0
<1>1. task[c] \in Tasks /\ ConnOK(task[c], peer[c], born, last, ran, asrLocked, trLocked)
    BY DEF IInv, TypeOK, ConnsOK
<1>2. task[c].left > 0 => task[c].sid \in SessionIds /\ task[c].life \in Lives
    BY <1>1 DEF ConnOK
<1>3. CASE task[c].left > 0
    <2> DEFINE t == [task[c] EXCEPT !.stage = "segment", !.seg = None]
    <2>1. /\ t \in Tasks /\ t.stage = "segment" /\ t.seg = None
          /\ t.sid = task[c].sid /\ t.life = task[c].life /\ t.left = task[c].left
        BY <1>1, NextTask
    <2>2. Becomes(c, t) /\ loop' = c
        BY <1>3 DEF NextSegment
    <2> HIDE DEF t
    <2> QED BY <1>2, <1>3, <2>1, <2>2
<1>4. CASE ~(task[c].left > 0)
    <2>1. Becomes(c, Idle("ready")) /\ loop' = None
        BY <1>4 DEF NextSegment
    <2>2. /\ Idle("ready") \in Tasks /\ Idle("ready").stage = "ready"
          /\ Idle("ready").seg = None /\ Idle("ready").left = 0
        BY IdleTask DEF Stages
    <2> QED BY <2>1, <2>2
<1> QED BY <1>3, <1>4

\* The frame is cut: nothing is closed, or segments wait for their turn.
LEMMA IngestStep ==
    ASSUME IInv, NEW c \in Conns, NEW n \in 0..MaxBurst, Ingest(c, n)
    PROVE  IInv'
<1>1. /\ TypeOK /\ task[c] \in Tasks
      /\ ConnOK(task[c], peer[c], born, last, ran, asrLocked, trLocked)
    BY DEF IInv, TypeOK, ConnsOK
<1>2. /\ task[c].stage = "framed" /\ registry[task[c].sid] # NoLife /\ loop = c
      /\ UNCHANGED <<registry, lives, misfits, asrLocked, trLocked, born, queue, bundle, peer, last, ran>>
      /\ task[c].stage \notin InFlight
    BY DEF Ingest, InFlight, Awaiting
<1>3. task[c].sid \in SessionIds /\ task[c].seg = None
    BY <1>1, <1>2 DEF ConnOK, InFlight, Awaiting
<1>4. CASE n = 0
    <2>1. Becomes(c, Idle("ready")) /\ loop' = None
        BY <1>4 DEF Ingest
    <2> QED BY <1>1, <1>2, <2>1, GoesIdle DEF TypeOK
<1>5. CASE n # 0
    <2> DEFINE l == registry[task[c].sid]
               t == [task[c] EXCEPT !.stage = "segment", !.life = l, !.left = n]
    <2>1. Becomes(c, t) /\ loop' = c
        BY <1>5 DEF Ingest
    <2>2. l \in Lives
        BY <1>1, <1>2, <1>3 DEF TypeOK
    <2> HIDE DEF l
    <2>3. /\ t \in Tasks /\ t.stage = "segment" /\ t.sid = task[c].sid /\ t.life = l
          /\ t.seg = task[c].seg /\ t.left = n
        BY <1>1, <2>2 DEF Tasks, Stages
    <2> HIDE DEF t
    <2>4. TypeOK'
        BY <1>1, <1>2, <2>1, <2>3, TaskType DEF TypeOK
    <2>5. t.stage \notin InFlight /\ t.stage # "framed" /\ n > 0
        BY <1>5, <2>3 DEF InFlight, Awaiting
    <2> QED BY <1>2, <1>3, <2>1, <2>2, <2>3, <2>4, <2>5, IdleStep
<1> QED BY <1>4, <1>5

\* The segment is drawn and refused, enqueued and recognised, or given up.
LEMMA DrawsStep ==
    ASSUME IInv, NEW c \in Conns, NEW s \in Segments, NEW t \in Clock,
           \/ Refuse(c, s, t) \/ Recognise(c, s, t)
           \/ AsrRaises(c, s, t) \/ MessageRaises(c, s, t)
    PROVE  IInv'
<1> DEFINE i == task[c].sid
           old == queue[i]
           q == Enqueue(old, s, t)
           r == MarkRunning(q, s)
           d == Drop(r, s, "manual")
<1>1. DrawId(c, s)
    BY DEF Refuse, Recognise, AsrRaises, MessageRaises
<1>2. /\ TypeOK /\ task[c] \in Tasks
      /\ ConnOK(task[c], peer[c], born, last, ran, asrLocked, trLocked)
    BY DEF IInv, TypeOK, ConnsOK
<1>3. /\ task[c].stage = "segment" /\ born[s] = NoLife /\ t \in Int
      /\ born' = [born EXCEPT ![s] = task[c].life] /\ loop' = None
      /\ UNCHANGED <<registry, lives, misfits, asrLocked, trLocked, bundle>>
    BY <1>1, PipelineAssumption DEF DrawId
<1>4. /\ i \in SessionIds /\ task[c].life \in Lives /\ task[c].left - 1 \in 0..MaxBurst
      /\ task[c].gen \in 0..MaxLoads /\ bundle \in 0..MaxLoads
    BY <1>2, <1>3, TaskFields, PipelineAssumption DEF ConnOK, TypeOK
<1>5. /\ old \in Queues /\ Tracks(old) /\ s \notin Pending(old)
      /\ Cardinality(Pending(old)) <= MaxPending
    BY <1>2, <1>3, <1>4 DEF IInv, TypeOK, QueuesOK, QueueOK, Untouched
<1> HIDE DEF old, i
<1>6. /\ q \in Queues /\ QueueOK(q)
      /\ Pending(q) = (Pending(old) \ Stale(old, t)) \cup (IF Admits(old, t) THEN {s} ELSE {})
    BY <1>3, <1>5, EnqueueEffect DEF QueueOK
<1> HIDE DEF q
<1>7. r \in Queues /\ QueueOK(r) /\ Pending(r) = Pending(q)
    BY <1>6, MarkRunningEffect DEF QueueOK
<1> HIDE DEF r
<1>8. d \in Queues /\ QueueOK(d) /\ Pending(d) = Pending(r) \ {s}
    <2>1. "manual" \in DropReasons /\ Tracks(r) /\ Cardinality(Pending(r)) \in Nat
          /\ Cardinality(Pending(r)) <= MaxPending
        BY <1>7, QueueSetsFinite DEF DropReasons, QueueOK
    <2>2. /\ d \in Queues /\ Tracks(d) /\ Pending(d) = Pending(r) \ {s}
        BY <1>7, <2>1, DropEffect
    <2>3. Cardinality(Pending(d)) <= MaxPending
        BY <1>7, <2>1, <2>2, QueueSetsFinite, FS_Subset, MaxPendingAssumption DEF QueueOK
    <2> QED BY <2>2, <2>3 DEF QueueOK
<1> HIDE DEF d
<1>9. ASSUME NEW st \in {"partial", "replying"}, NEW g \in 0..MaxLoads, Draws(c, s, st, g),
             NEW m \in Messages, Send(c, s, m), NEW p \in Queues, queue' = [queue EXCEPT ![i] = p],
             peer' = peer, ran' = ran \/ ran' = [ran EXCEPT ![s] = {g}]
      PROVE  TypeOK'
    <2>1. st \in Stages
        BY DEF Stages
    <2>2. task' \in [Conns -> Tasks]
        BY <1>2, <1>4, <2>1, DrawnTask, TaskType, <1>9 DEF i
    <2>3. queue' \in [SessionIds -> Queues]
        BY <1>2, <1>4, <1>9, QueueType
    <2>4. last' \in [Segments -> Messages]
        BY <1>2, <1>9, SendType
    <2>5. born' \in [Segments -> Lives \cup {NoLife}] /\ ran' \in [Segments -> SUBSET (0..MaxLoads)]
        BY <1>2, <1>3, <1>4, <1>9 DEF TypeOK
    <2> QED BY <1>2, <1>3, <1>9, <2>2, <2>3, <2>4, <2>5 DEF TypeOK
<1>10. "error" \in Messages /\ "asr.partial" \in Messages
    BY DEF Messages
<1>11. CASE Refuse(c, s, t)
    <2>1. /\ ~Admits(old, t) /\ queue' = [queue EXCEPT ![i] = q] /\ Send(c, s, "error")
          /\ Draws(c, s, "replying", task[c].gen) /\ ran' = ran /\ peer' = peer
        BY <1>11 DEF Refuse, old, i, q
    <2>2. TypeOK'
        BY <1>4, <1>6, <1>9, <1>10, <2>1
    <2>3. Pending(q) \subseteq Pending(old)
        BY <1>6, <2>1
    <2> QED BY <1>1, <1>4, <1>6, <2>1, <2>2, <2>3, DrawStep DEF i, old
<1>12. CASE Recognise(c, s, t)
    <2>1. /\ queue' = [queue EXCEPT ![i] = r] /\ Send(c, s, "asr.partial")
          /\ Draws(c, s, "partial", bundle) /\ ran' = [ran EXCEPT ![s] = {bundle}]
          /\ peer' = peer
        BY <1>12 DEF Recognise, old, i, q, r
    <2>2. TypeOK'
        BY <1>4, <1>7, <1>9, <1>10, <2>1
    <2>3. Pending(r) \subseteq Pending(old) \cup {s}
        BY <1>6, <1>7
    <2> QED BY <1>1, <1>4, <1>7, <2>1, <2>2, <2>3, DrawStep DEF i, old
<1>13. CASE AsrRaises(c, s, t)
    <2>1. /\ queue' = [queue EXCEPT ![i] = d] /\ Send(c, s, "error")
          /\ Draws(c, s, "replying", bundle) /\ ran' = [ran EXCEPT ![s] = {bundle}]
          /\ peer' = peer
        BY <1>13 DEF AsrRaises, old, i, q, r, d
    <2>2. TypeOK'
        BY <1>4, <1>8, <1>9, <1>10, <2>1
    <2>3. Pending(d) \subseteq Pending(old)
        BY <1>6, <1>7, <1>8
    <2> QED BY <1>1, <1>4, <1>8, <2>1, <2>2, <2>3, DrawStep DEF i, old
<1>14. CASE MessageRaises(c, s, t)
    <2>1. /\ Crash(c) /\ last' = last
          /\ \/ ~Admits(old, t) /\ queue' = [queue EXCEPT ![i] = q] /\ ran' = ran
             \/ /\ Admits(old, t) /\ queue' = [queue EXCEPT ![i] = d]
                /\ ran' = [ran EXCEPT ![s] = {bundle}]
        BY <1>14 DEF MessageRaises, old, i, q, r, d
    <2>2. PICK p \in {q, d} :
            /\ queue' = [queue EXCEPT ![i] = p] /\ p \in Queues /\ QueueOK(p)
            /\ Pending(p) \subseteq Pending(old)
        BY <1>6, <1>7, <1>8, <2>1
    <2>3. ran' = ran \/ ran' = [ran EXCEPT ![s] = {bundle}]
        BY <2>1
    <2>4. TypeOK'
        <3>1. Idle("closed") \in Tasks
            BY IdleTask DEF Stages
        <3>2. task' \in [Conns -> Tasks]
            BY <1>2, <2>1, <3>1, TaskType DEF Crash
        <3>3. queue' \in [SessionIds -> Queues]
            BY <1>2, <1>4, <2>2, QueueType
        <3>4. /\ born' \in [Segments -> Lives \cup {NoLife}]
              /\ ran' \in [Segments -> SUBSET (0..MaxLoads)] /\ peer' \in [Conns -> BOOLEAN]
            BY <1>2, <1>3, <1>4, <2>1, <2>3 DEF TypeOK, Crash
        <3> QED BY <1>2, <1>3, <2>1, <3>2, <3>3, <3>4 DEF TypeOK
    <2> QED BY <1>1, <2>1, <2>2, <2>3, <2>4, DrawnInVain DEF i, old
<1> QED BY <1>11, <1>12, <1>13, <1>14

\* What holds inside the try block.
LEMMA InTry ==
    ASSUME IInv, NEW c \in Conns, task[c].stage \in InFlight
    PROVE  /\ TypeOK /\ task[c] \in Tasks
           /\ ConnOK(task[c], peer[c], born, last, ran, asrLocked, trLocked)
           /\ task[c].seg \in Segments /\ task[c].sid \in SessionIds
           /\ task[c].gen \in 0..MaxLoads /\ ran[task[c].seg] \subseteq {task[c].gen}
           /\ task[c].left > 0 => task[c].life \in Lives
           /\ queue[task[c].sid] \in Queues /\ QueueOK(queue[task[c].sid])
<1>1. /\ TypeOK /\ task[c] \in Tasks
      /\ ConnOK(task[c], peer[c], born, last, ran, asrLocked, trLocked)
    BY DEF IInv, TypeOK, ConnsOK
<1>2. /\ task[c].seg \in Segments /\ task[c].sid \in SessionIds
      /\ task[c].gen \in 0..MaxLoads /\ ran[task[c].seg] \subseteq {task[c].gen}
      /\ task[c].left > 0 => task[c].life \in Lives
    BY <1>1, TaskFields DEF ConnOK
<1> QED BY <1>1, <1>2 DEF TypeOK, IInv, QueuesOK

\* The coroutine goes from one stage inside the try block to another.
LEMMA StagesType ==
    ASSUME TypeOK, NEW c \in Conns, NEW st \in Stages,
           Becomes(c, [task[c] EXCEPT !.stage = st])
    PROVE  task' \in [Conns -> Tasks]
<1> DEFINE t == [task[c] EXCEPT !.stage = st]
<1>1. t \in Tasks
    BY StagedTask DEF TypeOK
<1> HIDE DEF t
<1>2. Becomes(c, t)
    BY DEF t
<1> QED BY <1>1, <1>2, TaskType

\* mark_asr_final and mark_translate take a lock of the object registered now.
LEMMA MarkSteps ==
    ASSUME IInv, NEW c \in Conns, MarkAsrFinal(c) \/ MarkTranslate(c)
    PROVE  IInv'
<1> DEFINE s == task[c].seg
           l == registry[task[c].sid]
<1>1. task[c].stage \in InFlight
    BY DEF MarkAsrFinal, MarkTranslate, InFlight, Awaiting
<1>2. /\ TypeOK /\ s \in Segments /\ task[c].sid \in SessionIds
      /\ ConnOK(task[c], peer[c], born, last, ran, asrLocked, trLocked)
      /\ task[c].gen \in 0..MaxLoads /\ ran[s] \subseteq {task[c].gen} /\ s # None
    BY <1>1, InTry, PipelineAssumption
<1>3. /\ l # NoLife /\ loop' = c
      /\ UNCHANGED <<registry, lives, misfits, born, queue, bundle, peer, last>>
    BY DEF MarkAsrFinal, MarkTranslate
<1>4. l \in Lives
    BY <1>2, <1>3 DEF TypeOK
<1>5. CASE MarkAsrFinal(c)
    <2>1. /\ task[c].stage = "partial" /\ asrLocked' = [asrLocked EXCEPT ![l] = asrLocked[l] \cup {s}]
          /\ Becomes(c, [task[c] EXCEPT !.stage = IF s \in asrLocked[l] THEN "final" ELSE "locked"])
          /\ UNCHANGED <<trLocked, ran>>
        BY <1>5 DEF MarkAsrFinal
    <2>2. s \notin asrLocked[l] /\ (peer[c] => last[s] = "asr.partial")
          /\ \A k \in Lives : s \notin trLocked[k]
        BY <1>2, <1>4, <2>1 DEF ConnOK, Said
    <2>3. Becomes(c, [task[c] EXCEPT !.stage = "locked"])
        BY <2>1, <2>2
    <2>4. "locked" \in InFlight /\ "locked" \in Stages /\ (peer[c] => Said("locked", last'[s]))
        BY <1>3, <2>2 DEF InFlight, Awaiting, Stages, Said
    <2>5. asrLocked' \in [Lives -> SUBSET Segments]
        BY <1>2, <1>4, <2>1 DEF TypeOK
    <2>6. task' \in [Conns -> Tasks]
        BY <1>2, <2>3, <2>4, StagesType
    <2>7. TypeOK'
        BY <1>2, <1>3, <2>1, <2>5, <2>6 DEF TypeOK
    <2>8. \A x \in Segments : x # s =>
            /\ last'[x] = last[x] /\ ran'[x] = ran[x]
            /\ \A k \in Lives : /\ x \in asrLocked'[k] <=> x \in asrLocked[k]
                                /\ x \in trLocked'[k] <=> x \in trLocked[k]
        BY <1>2, <1>3, <1>4, <2>1 DEF TypeOK
    <2> HIDE DEF s, l
    <2> QED BY <1>1, <1>2, <1>3, <2>1, <2>2, <2>3, <2>4, <2>7, <2>8, StageStep DEF s
<1>6. CASE MarkTranslate(c)
    <2> DEFINE st == IF s \in trLocked[l] THEN "result" ELSE "marked"
    <2>1. /\ task[c].stage = "final" /\ trLocked' = [trLocked EXCEPT ![l] = trLocked[l] \cup {s}]
          /\ Becomes(c, [task[c] EXCEPT !.stage = IF s \in trLocked[l] THEN "result" ELSE "marked"])
          /\ ran' = [ran EXCEPT ![s] = ran[s] \cup {task[c].gen}] /\ UNCHANGED asrLocked
        BY <1>6 DEF MarkTranslate
    <2>2. s \notin trLocked[l] /\ (peer[c] => last[s] = "asr.final")
        BY <1>2, <1>4, <2>1 DEF ConnOK, Said
    <2>3. Becomes(c, [task[c] EXCEPT !.stage = "marked"])
        BY <2>1, <2>2
    <2>4. "marked" \in InFlight /\ "marked" \in Stages /\ (peer[c] => Said("marked", last'[s]))
        BY <1>3, <2>2 DEF InFlight, Awaiting, Stages, Said
    <2>5. /\ trLocked' \in [Lives -> SUBSET Segments]
          /\ ran' \in [Segments -> SUBSET (0..MaxLoads)] /\ ran'[s] \subseteq {task[c].gen}
        BY <1>2, <1>4, <2>1 DEF TypeOK
    <2>6. task' \in [Conns -> Tasks]
        BY <1>2, <2>3, <2>4, StagesType
    <2>7. TypeOK'
        BY <1>2, <1>3, <2>1, <2>5, <2>6 DEF TypeOK
    <2>8. \A x \in Segments : x # s =>
            /\ last'[x] = last[x] /\ ran'[x] = ran[x]
            /\ \A k \in Lives : /\ x \in asrLocked'[k] <=> x \in asrLocked[k]
                                /\ x \in trLocked'[k] <=> x \in trLocked[k]
        BY <1>2, <1>3, <1>4, <2>1 DEF TypeOK
    <2> HIDE DEF s, l
    <2> QED BY <1>1, <1>2, <1>3, <2>3, <2>4, <2>5, <2>7, <2>8, StageStep DEF s
<1> QED BY <1>5, <1>6

\* A message of the segment goes out, or is swallowed because the client left.
LEMMA SendSteps ==
    ASSUME IInv, NEW c \in Conns, SendFinal(c) \/ SendResult(c) \/ SendAudio(c)
    PROVE  IInv'
<1> DEFINE s == task[c].seg
<1>1. task[c].stage \in InFlight
    BY DEF SendFinal, SendResult, SendAudio, InFlight, Awaiting
<1>2. /\ TypeOK /\ s \in Segments /\ s # None
      /\ ConnOK(task[c], peer[c], born, last, ran, asrLocked, trLocked)
      /\ task[c].gen \in 0..MaxLoads /\ ran[s] \subseteq {task[c].gen}
    BY <1>1, InTry, PipelineAssumption
<1>3. /\ loop' = None
      /\ UNCHANGED <<registry, lives, misfits, asrLocked, trLocked, born, queue, bundle, peer>>
    BY DEF SendFinal, SendResult, SendAudio, Await
<1>4. /\ ran' = ran \/ ran' = [ran EXCEPT ![s] = ran[s] \cup {task[c].gen}]
    BY DEF SendFinal, SendResult, SendAudio
<1>5. /\ ran' \in [Segments -> SUBSET (0..MaxLoads)] /\ ran'[s] \subseteq {task[c].gen}
      /\ \A x \in Segments : x # s => ran'[x] = ran[x]
    BY <1>2, <1>4 DEF TypeOK
<1>6. ASSUME NEW st \in {"final", "result", "audio"}, NEW m \in Messages, Said(st, m),
             Send(c, s, m), Becomes(c, [task[c] EXCEPT !.stage = st]),
             st = "final" => \A k \in Lives : s \notin trLocked[k]
      PROVE  IInv'
    <2>1. st \in Stages /\ st \in InFlight /\ st \notin {"partial", "locked"}
        BY DEF Stages, InFlight, Awaiting
    <2>2. /\ last' \in [Segments -> Messages] /\ \A x \in Segments : x # s => last'[x] = last[x]
          /\ peer[c] => last'[s] = m
        BY <1>2, <1>6, SendType
    <2>3. task' \in [Conns -> Tasks]
        BY <1>2, <1>6, <2>1, StagesType
    <2>4. TypeOK'
        BY <1>2, <1>3, <1>5, <2>2, <2>3 DEF TypeOK
    <2>5. peer[c] => Said(st, last'[s])
        BY <1>6, <2>2
    <2> HIDE DEF s
    <2> QED BY <1>1, <1>2, <1>3, <1>5, <1>6, <2>1, <2>2, <2>4, <2>5, StageStep DEF s
<1>7. CASE SendFinal(c)
    <2>1. task[c].stage = "locked" /\ Send(c, s, "asr.final")
          /\ Becomes(c, [task[c] EXCEPT !.stage = "final"])
        BY <1>7 DEF SendFinal, Await
    <2>2. \A k \in Lives : s \notin trLocked[k]
        BY <1>2, <2>1 DEF ConnOK
    <2>3. "asr.final" \in Messages /\ Said("final", "asr.final")
        BY DEF Messages, Said
    <2> QED BY <1>6, <2>1, <2>2, <2>3
<1>8. CASE SendResult(c)
    <2>1. Send(c, s, "translate.result") /\ Becomes(c, [task[c] EXCEPT !.stage = "result"])
        BY <1>8 DEF SendResult, Await
    <2>2. "translate.result" \in Messages /\ Said("result", "translate.result")
        BY DEF Messages, Said
    <2> QED BY <1>6, <2>1, <2>2
<1>9. CASE SendAudio(c)
    <2>1. Send(c, s, "tts.audio") /\ Becomes(c, [task[c] EXCEPT !.stage = "audio"])
        BY <1>9 DEF SendAudio, Await
    <2>2. "tts.audio" \in Messages /\ Said("audio", "tts.audio")
        BY DEF Messages, Said
    <2> QED BY <1>6, <2>1, <2>2
<1> QED BY <1>7, <1>8, <1>9

\* The segment is done with: complete() and on to the next one.
LEMMA CompleteSteps ==
    ASSUME IInv, NEW c \in Conns, NoWords(c) \/ Spoken(c)
    PROVE  IInv'
<1> DEFINE s == task[c].seg
           i == task[c].sid
           old == queue[i]
           q == Complete(old, s)
<1>1. task[c].stage \in InFlight
    BY DEF NoWords, Spoken, InFlight, Awaiting
<1>2. /\ TypeOK /\ s \in Segments /\ i \in SessionIds /\ old \in Queues /\ QueueOK(old)
    BY <1>1, InTry
<1>3. /\ queue' = [queue EXCEPT ![i] = q] /\ NextSegment(c)
      /\ UNCHANGED <<registry, lives, misfits, asrLocked, trLocked, born, bundle, peer, last, ran>>
    BY DEF NoWords, Spoken
<1>4. q \in Queues /\ QueueOK(q) /\ Pending(q) = Pending(old) \ {s}
    <2>1. Tracks(old) /\ Cardinality(Pending(old)) \in Nat /\ Cardinality(Pending(old)) <= MaxPending
        BY <1>2, QueueSetsFinite DEF QueueOK
    <2>2. /\ q \in Queues /\ Tracks(q) /\ Pending(q) = Pending(old) \ {s}
          /\ Cardinality(Pending(q)) <= Cardinality(Pending(old))
        BY <1>2, <2>1, CompleteEffect
    <2> HIDE DEF q, old
    <2>3. Cardinality(Pending(q)) \in Nat
        BY <2>2, QueueSetsFinite
    <2>4. Cardinality(Pending(q)) <= MaxPending
        BY <2>1, <2>2, <2>3, MaxPendingAssumption
    <2> QED BY <2>2, <2>4 DEF QueueOK
<1>5. loop' \in Conns \cup {None}
    BY <1>3, NextSegmentTask
<1>6. PICK t \in Tasks :
        /\ Becomes(c, t) /\ t.stage \in {"segment", "ready"} /\ t.seg = None
        /\ t.left > 0 => t.sid \in SessionIds /\ t.life \in Lives
        /\ t.stage = "segment" => t.left > 0
    BY <1>3, NextSegmentTask
<1>7. TypeOK'
    <2>1. task' \in [Conns -> Tasks] /\ queue' \in [SessionIds -> Queues]
        BY <1>2, <1>3, <1>4, <1>6, TaskType, QueueType
    <2> QED BY <1>2, <1>3, <1>5, <2>1 DEF TypeOK
<1>8. ConnOK(t, peer[c], born, last', ran, asrLocked, trLocked)
    BY <1>6 DEF ConnOK, InFlight, Awaiting
<1> HIDE DEF q
<1> QED BY <1>1, <1>3, <1>4, <1>6, <1>7, <1>8, ConcludeStep

\* The segment failed: drop() and the error.
LEMMA FailSteps ==
    ASSUME IInv, NEW c \in Conns, SessionGone(c) \/ ProviderRaises(c) \/ SendRaises(c)
    PROVE  IInv'
<1> DEFINE s == task[c].seg
           i == task[c].sid
           old == queue[i]
           q == Drop(old, s, "manual")
           t == [task[c] EXCEPT !.stage = "replying"]
<1>1. task[c].stage \in InFlight
    BY DEF SessionGone, ProviderRaises, SendRaises, InFlight, Awaiting
<1>2. /\ TypeOK /\ s \in Segments /\ i \in SessionIds /\ old \in Queues /\ QueueOK(old)
      /\ ConnOK(task[c], peer[c], born, last, ran, asrLocked, trLocked)
      /\ task[c] \in Tasks /\ s # None
    BY <1>1, InTry, PipelineAssumption
<1>3. /\ Fail(c)
      /\ UNCHANGED <<registry, lives, misfits, asrLocked, trLocked, born, bundle, peer, ran>>
    BY DEF SessionGone, ProviderRaises, SendRaises
<1>4. /\ queue' = [queue EXCEPT ![i] = q] /\ Send(c, s, "error") /\ Becomes(c, t) /\ loop' = None
    BY <1>3 DEF Fail, Await
<1>5. q \in Queues /\ QueueOK(q) /\ Pending(q) = Pending(old) \ {s}
    <2>1. /\ Tracks(old) /\ Cardinality(Pending(old)) \in Nat
          /\ Cardinality(Pending(old)) <= MaxPending /\ "manual" \in DropReasons
        BY <1>2, QueueSetsFinite DEF QueueOK, DropReasons
    <2>2. /\ q \in Queues /\ Tracks(q) /\ Pending(q) = Pending(old) \ {s}
          /\ Cardinality(Pending(q)) <= Cardinality(Pending(old))
        BY <1>2, <2>1, DropEffect
    <2> HIDE DEF q, old
    <2>3. Cardinality(Pending(q)) \in Nat
        BY <2>2, QueueSetsFinite
    <2>4. Cardinality(Pending(q)) <= MaxPending
        BY <2>1, <2>2, <2>3, MaxPendingAssumption
    <2> QED BY <2>2, <2>4 DEF QueueOK
<1>6. "replying" \in Stages /\ "replying" \notin InFlight
    BY DEF Stages, InFlight, Awaiting
<1>7. /\ t \in Tasks /\ t.stage = "replying" /\ t.sid = i /\ t.life = task[c].life
      /\ t.seg = s /\ t.gen = task[c].gen /\ t.left = task[c].left
    BY <1>2, <1>6, StagedTask
<1> HIDE DEF t, q
<1>8. "error" \in Messages
    BY DEF Messages
<1>9. /\ last' \in [Segments -> Messages] /\ \A x \in Segments : x # s => last'[x] = last[x]
      /\ peer[c] => last'[s] = "error"
    BY <1>2, <1>4, <1>8, SendType
<1>10. TypeOK'
    <2>1. task' \in [Conns -> Tasks] /\ queue' \in [SessionIds -> Queues]
        BY <1>2, <1>4, <1>5, <1>7, TaskType, QueueType
    <2> QED BY <1>2, <1>3, <1>4, <1>9, <2>1 DEF TypeOK
<1>11. ConnOK(t, peer[c], born, last', ran, asrLocked, trLocked)
    <2>1. peer[c] => Said("replying", last'[s])
        BY <1>9 DEF Said
    <2>2. /\ born[s] # NoLife /\ task[c].left > 0 => task[c].sid \in SessionIds /\ task[c].life \in Lives
        BY <1>2 DEF ConnOK
    <2> QED BY <1>2, <1>6, <1>7, <2>1, <2>2 DEF ConnOK
<1>12. /\ t \in Tasks /\ t.seg \in {None, s} /\ Becomes(c, t)
       /\ queue' = [queue EXCEPT ![task[c].sid] = q] /\ QueueOK(q)
       /\ Pending(q) = Pending(queue[task[c].sid]) \ {s}
       /\ \A x \in Segments : x # s => last'[x] = last[x]
       /\ UNCHANGED <<asrLocked, trLocked, born, ran, peer>>
    BY <1>3, <1>4, <1>5, <1>7, <1>9
<1> QED BY <1>1, <1>10, <1>11, <1>12, ConcludeStep

\* What a coroutine does once it has a message to handle.
LEMMA CoroutineStep ==
    ASSUME IInv, NEW c \in Conns, Coroutine(c)
    PROVE  IInv'
<1>1. TypeOK /\ {"ready", "framed", "replying"} \cap InFlight = {}
    BY DEF IInv, InFlight, Awaiting
<1>2. CASE Disconnected(c)
    BY <1>1, <1>2, GoesIdle DEF Disconnected, TypeOK
<1>3. CASE \E n \in 0..MaxBurst : Ingest(c, n)
    BY <1>3, IngestStep
<1>4. CASE IngestRaises(c) \/ ReportRaises(c)
    BY <1>1, <1>4, GoesIdle DEF IngestRaises, ReportRaises, Crash, TypeOK
<1>5. CASE \E s \in Segments, t \in Clock :
             \/ Refuse(c, s, t) \/ Recognise(c, s, t)
             \/ AsrRaises(c, s, t) \/ MessageRaises(c, s, t)
    BY <1>5, DrawsStep
<1>6. CASE MarkAsrFinal(c) \/ MarkTranslate(c)
    BY <1>6, MarkSteps
<1>7. CASE SendFinal(c) \/ SendResult(c) \/ SendAudio(c)
    BY <1>7, SendSteps
<1>8. CASE NoWords(c) \/ Spoken(c)
    BY <1>8, CompleteSteps
<1>9. CASE SessionGone(c) \/ ProviderRaises(c) \/ SendRaises(c)
    BY <1>9, FailSteps
<1>10. CASE Reported(c)
    <2>1. /\ task[c].stage = "replying" /\ NextSegment(c)
          /\ UNCHANGED <<registry, lives, misfits, asrLocked, trLocked, born, queue, bundle, peer, last, ran>>
        BY <1>10 DEF Reported
    <2>2. PICK t \in Tasks :
            /\ Becomes(c, t) /\ t.stage \in {"segment", "ready"} /\ t.seg = None
            /\ t.left > 0 => t.sid \in SessionIds /\ t.life \in Lives
            /\ t.stage = "segment" => t.left > 0
        BY <2>1, NextSegmentTask
    <2>3. loop' \in Conns \cup {None}
        BY <2>1, NextSegmentTask
    <2>4. TypeOK'
        BY <1>1, <2>1, <2>2, <2>3, TaskType DEF TypeOK
    <2>5. t.stage \notin InFlight /\ t.stage # "framed"
        BY <2>2 DEF InFlight, Awaiting
    <2> QED BY <1>1, <2>1, <2>2, <2>4, <2>5, IdleStep
<1> QED BY <1>2, <1>3, <1>4, <1>5, <1>6, <1>7, <1>8, <1>9, <1>10 DEF Coroutine

-----------------------------------------------------------------------------
\* The invariant.

\* Nothing has happened yet.
LEMMA InitInv == Init => IInv
<1> SUFFICES ASSUME Init
             PROVE  IInv
    OBVIOUS
<1>1. \A c \in Conns : /\ task[c] \in Tasks /\ task[c].stage = "closed"
                       /\ task[c].seg = None /\ task[c].left = 0
    BY IdleTask DEF Init, Stages
<1>2. task \in [Conns -> Tasks]
    BY <1>1 DEF Init
<1>3. 0 \in 0..MaxLives /\ 0 \in 0..MaxLoads /\ 0 \in Nat /\ "absent" \in ItemStates
    BY PipelineAssumption DEF ItemStates
<1>4. EmptyQueue \in Queues /\ Pending(EmptyQueue) = {} /\ InState(EmptyQueue, "running") = {}
      /\ InState(EmptyQueue, "queued") = {} /\ EmptyQueue.running = 0 /\ EmptyQueue.queued = 0
    BY <1>3 DEF EmptyQueue, Queues, Pending, InState
<1>5. QueueOK(EmptyQueue)
    <2>1. Cardinality({}) = 0
        BY FS_EmptySet
    <2> QED BY <1>4, <2>1, MaxPendingAssumption DEF QueueOK, Tracks
<1>6. TypeOK
    <2>1. "none" \in Messages
        BY DEF Messages
    <2> QED BY <1>2, <1>3, <1>4, <2>1 DEF Init, TypeOK
<1>7. ConnsOK
    BY <1>1 DEF ConnsOK, ConnOK, InFlight, Awaiting
<1>8. OneOwner /\ QueuesOK /\ SlotsOwned
    BY <1>1, <1>4, <1>5 DEF Init, OneOwner, QueuesOK, SlotsOwned
<1>9. Untouched /\ Bundled
    BY <1>3, <1>4 DEF Init, Untouched, Bundled
<1> QED BY <1>6, <1>7, <1>8, <1>9 DEF IInv

\* Every step keeps the invariant.
LEMMA NextInv == IInv /\ [Next]_vars => IInv'
<1> SUFFICES ASSUME IInv, [Next]_vars
             PROVE  IInv'
    OBVIOUS
<1>1. CASE UNCHANGED vars
    BY <1>1 DEF vars, IInv, TypeOK, ConnsOK, OneOwner, Untouched, Bundled, QueuesOK, SlotsOwned
<1>2. CASE Environment
    BY <1>2, EnvironmentStep
<1>3. ASSUME NEW c \in Conns, Message(c) \/ Coroutine(c)
      PROVE  IInv'
    BY <1>3, MessageStep, CoroutineStep
<1> QED BY <1>1, <1>2, <1>3 DEF Next

\* The strengthening holds in every state of every behaviour.
LEMMA Invariant == Spec => []IInv
BY InitInv, NextInv, PTL DEF Spec

\* Whatever the sessions, threads and clients do, every variable keeps its type.
THEOREM PipelineTypeCorrect == Spec => []TypeOK
<1>1. IInv => TypeOK
    BY DEF IInv
<1> QED BY <1>1, Invariant, PTL

\* No path through the orchestrator, failing or not, leaks a slot of a queue:
\* what a queue holds is held for a coroutine inside its try block.
THEOREM PipelineSlotsOwned == Spec => []SlotsOwned
<1>1. IInv => SlotsOwned
    BY DEF IInv
<1> QED BY <1>1, Invariant, PTL

\* A segment never mixes two model bundles, however often they are replaced.
THEOREM PipelineOneBundle == Spec => []OneBundle
<1>1. ASSUME IInv
      PROVE  OneBundle
    <2> SUFFICES ASSUME NEW s \in Segments
                 PROVE  Cardinality(ran[s]) <= 1
        BY DEF OneBundle
    <2>1. PICK g \in 0..MaxLoads : ran[s] \subseteq {g}
        BY <1>1 DEF IInv, Bundled
    <2>2. ran[s] = {} \/ ran[s] = {g}
        BY <2>1
    <2>3. Cardinality({}) = 0 /\ Cardinality({g}) = 1
        BY FS_EmptySet, FS_Singleton
    <2> QED BY <2>2, <2>3
<1> QED BY <1>1, Invariant, PTL

-----------------------------------------------------------------------------
\* The order on the wire.

\* A message that may come next is a step of SegmentProtocol, and so is one that
\* the transport swallows.
LEMMA Delivered ==
    ASSUME TypeOK, NEW c \in Conns, NEW s \in Segments, NEW m \in Messages, Send(c, s, m),
           peer[c] => m \in Wire!Follows(last[s])
    PROVE  [Wire!Next]_last
<1>1. CASE ~peer[c]
    BY <1>1 DEF Send
<1>2. CASE peer[c]
    <2>1. last' = [last EXCEPT ![s] = m]
        BY <1>2 DEF Send
    <2>2. m \in Wire!Messages
        BY DEF Messages, Wire!Messages
    <2>3. Wire!Deliver(s, m)
        BY <1>2, <2>1 DEF Wire!Deliver
    <2> QED BY <2>2, <2>3 DEF Wire!Next
<1> QED BY <1>1, <1>2

\* Every step of the service is a step of SegmentProtocol or no message at all.
LEMMA WireStep ==
    ASSUME IInv, [Next]_vars
    PROVE  [Wire!Next]_last
<1>1. CASE UNCHANGED vars
    BY <1>1 DEF vars
<1>2. CASE Environment
    BY <1>2 DEF Environment, HttpStart, HttpStop, ModelsLoad, Connect, PeerLeaves
<1>3. ASSUME NEW c \in Conns, Message(c)
      PROVE  [Wire!Next]_last
    BY <1>3 DEF Message, TextStart, TextStop, Frame, Answered, HandlerRaises
<1>4. ASSUME NEW c \in Conns, Coroutine(c)
      PROVE  [Wire!Next]_last
    <2>1. TypeOK /\ ConnOK(task[c], peer[c], born, last, ran, asrLocked, trLocked)
        BY DEF IInv, ConnsOK
    <2>2. CASE \/ Disconnected(c) \/ IngestRaises(c)
               \/ \E n \in 0..MaxBurst : Ingest(c, n)
               \/ MarkAsrFinal(c) \/ NoWords(c) \/ MarkTranslate(c) \/ Spoken(c)
               \/ Reported(c) \/ ReportRaises(c)
               \/ \E s \in Segments, t \in Clock : MessageRaises(c, s, t)
        BY <2>2 DEF Disconnected, IngestRaises, Ingest, MarkAsrFinal, NoWords, MarkTranslate,
                    Spoken, Reported, ReportRaises, MessageRaises
    <2>3. ASSUME NEW s \in Segments, NEW t \in Clock,
                 Refuse(c, s, t) \/ Recognise(c, s, t) \/ AsrRaises(c, s, t)
          PROVE  [Wire!Next]_last
        <3>1. last[s] = "none"
            BY <2>3 DEF Refuse, Recognise, AsrRaises, DrawId, IInv, Untouched
        <3>2. PICK m \in {"error", "asr.partial"} : Send(c, s, m)
            BY <2>3 DEF Refuse, Recognise, AsrRaises
        <3>3. m \in Messages /\ m \in Wire!Follows(last[s])
            BY <3>1 DEF Messages, Wire!Follows
        <3> QED BY <2>1, <3>2, <3>3, Delivered
    <2>4. ASSUME SendFinal(c) \/ SendResult(c) \/ SendAudio(c)
          PROVE  [Wire!Next]_last
        <3>1. task[c].stage \in InFlight
            BY <2>4 DEF SendFinal, SendResult, SendAudio, InFlight, Awaiting
        <3>2. task[c].seg \in Segments /\ (peer[c] => Said(task[c].stage, last[task[c].seg]))
            BY <2>1, <3>1, InTry, PipelineAssumption DEF ConnOK
        <3>3. PICK m \in {"asr.final", "translate.result", "tts.audio"} :
                Send(c, task[c].seg, m) /\ (peer[c] => m \in Wire!Follows(last[task[c].seg]))
            BY <2>4, <3>2 DEF SendFinal, SendResult, SendAudio, Said, Wire!Follows
        <3>4. m \in Messages
            BY DEF Messages
        <3> QED BY <2>1, <3>2, <3>3, <3>4, Delivered
    <2>5. ASSUME SessionGone(c) \/ ProviderRaises(c) \/ SendRaises(c)
          PROVE  [Wire!Next]_last
        <3>1. /\ task[c].stage \in InFlight /\ Send(c, task[c].seg, "error")
              /\ peer[c] => task[c].stage \in {"partial", "final", "result"}
            BY <2>5 DEF SessionGone, ProviderRaises, SendRaises, Fail, InFlight, Awaiting
        <3>2. task[c].seg \in Segments /\ (peer[c] => Said(task[c].stage, last[task[c].seg]))
            BY <2>1, <3>1, InTry, PipelineAssumption DEF ConnOK
        <3>3. peer[c] => last[task[c].seg] \in {"asr.partial", "asr.final", "translate.result"}
            BY <3>1, <3>2 DEF Said
        <3>4. "error" \in Messages /\ (peer[c] => "error" \in Wire!Follows(last[task[c].seg]))
            BY <3>3 DEF Messages, Wire!Follows
        <3> QED BY <2>1, <3>1, <3>2, <3>4, Delivered
    <2> QED BY <1>4, <2>2, <2>3, <2>4, <2>5 DEF Coroutine
<1> QED BY <1>1, <1>2, <1>3, <1>4 DEF Next

\* The service implements SegmentProtocol: each segment's messages come in the
\* order of the protocol, each once, and nothing after its audio or its error.
THEOREM PipelineWireOrder == Spec => WireOrder
<1>1. Init => Wire!Init
    BY DEF Init, Wire!Init
<1>2. IInv /\ [Next]_vars => [Wire!Next]_last
    BY WireStep
<1> QED BY <1>1, <1>2, Invariant, PTL DEF Spec, WireOrder, Wire!Spec

-----------------------------------------------------------------------------
\* No segment without an answer.

\* What the coroutine of c owes its client when it leaves segment s.
Owed(c, s) ==
    Leaves(c, s) => \/ ~peer[c]
                    \/ last'[s] \in {"asr.final", "tts.audio", "error"}
                    \/ born'[s] \in misfits

AllOwed == \A d \in Conns, x \in Segments : Owed(d, x)

\* A coroutine that draws nothing can only leave the segment that it has.
LEMMA OwedByOne ==
    ASSUME TypeOK, NEW c \in Conns, NEW t, Becomes(c, t), born' = born,
           \/ task[c].seg = None \/ t.seg = task[c].seg \/ ~peer[c]
           \/ last'[task[c].seg] \in {"asr.final", "tts.audio", "error"}
    PROVE  AllOwed
<1>1. task'[c] = t /\ \A d \in Conns : d # c => task'[d] = task[d]
    BY DEF TypeOK, Becomes
<1>2. None \notin Segments
    BY PipelineAssumption
<1> QED BY <1>1, <1>2 DEF AllOwed, Owed, Leaves

\* A coroutine that draws segment s keeps it, unless its session fits no message.
LEMMA OwedByDraw ==
    ASSUME TypeOK, NEW c \in Conns, NEW s \in Segments, DrawId(c, s), task[c].seg = None,
           NEW t, Becomes(c, t), t.seg = s \/ ~Fits(c)
    PROVE  AllOwed
<1>1. task'[c] = t /\ \A d \in Conns : d # c => task'[d] = task[d]
    BY DEF TypeOK, Becomes
<1>2. loop = c /\ born'[s] = task[c].life /\ \A x \in Segments : x # s => born'[x] = born[x]
    BY DEF DrawId, TypeOK
<1>3. None \notin Segments
    BY PipelineAssumption
<1> SUFFICES ASSUME NEW d \in Conns, NEW x \in Segments, Leaves(d, x)
             PROVE  born'[x] \in misfits
    BY DEF AllOwed, Owed
<1>4. d = c
    BY <1>1, <1>2 DEF Leaves
<1>5. x = s /\ t.seg # s
    BY <1>1, <1>2, <1>3, <1>4 DEF Leaves
<1> QED BY <1>2, <1>5 DEF Fits

\* A coroutine that goes to another stage keeps its segment.
LEMMA OwedByStage ==
    ASSUME TypeOK, NEW c \in Conns, NEW st \in Stages,
           Becomes(c, [task[c] EXCEPT !.stage = st]), born' = born
    PROVE  AllOwed
<1> DEFINE t == [task[c] EXCEPT !.stage = st]
<1>1. t.seg = task[c].seg
    BY StagedTask DEF TypeOK
<1> HIDE DEF t
<1>2. Becomes(c, t)
    BY DEF t
<1> QED BY <1>1, <1>2, OwedByOne

\* Every step pays what it owes.
LEMMA OwedStep ==
    ASSUME IInv, [Next]_vars
    PROVE  AllOwed
<1>1. TypeOK
    BY DEF IInv
<1>2. CASE UNCHANGED <<task, born>>
    BY <1>2 DEF AllOwed, Owed, Leaves
<1>3. ASSUME NEW c \in Conns, Connect(c)
      PROVE  AllOwed
    <2>1. task[c].seg = None /\ Becomes(c, Idle("ready")) /\ born' = born
        BY <1>3 DEF Connect, IInv, ConnsOK, ConnOK, InFlight, Awaiting
    <2> QED BY <1>1, <2>1, OwedByOne
<1>4. CASE Environment
    BY <1>2, <1>3, <1>4 DEF Environment, HttpStart, HttpStop, ModelsLoad, PeerLeaves
<1>5. ASSUME NEW c \in Conns, Message(c)
      PROVE  AllOwed
    <2>1. task[c].seg = None
        BY <1>5 DEF Message, TextStart, TextStop, Frame, Answered, HandlerRaises, Handles,
                    IInv, ConnsOK, ConnOK, InFlight, Awaiting
    <2>2. born' = born /\ (UNCHANGED task \/ \E t : Becomes(c, t))
        BY <1>5 DEF Message, TextStart, TextStop, Frame, Answered, HandlerRaises, Crash
    <2> QED BY <1>1, <1>2, <2>1, <2>2, OwedByOne
<1>6. ASSUME NEW c \in Conns, Coroutine(c)
      PROVE  AllOwed
    <2>1. ConnOK(task[c], peer[c], born, last, ran, asrLocked, trLocked)
        BY DEF IInv, ConnsOK
    <2>2. CASE \/ Disconnected(c) \/ IngestRaises(c)
               \/ \E n \in 0..MaxBurst : Ingest(c, n)
        <3>1. /\ task[c].stage \in {"ready", "framed"} /\ born' = born
              /\ \E t : Becomes(c, t)
            <4>1. CASE Disconnected(c) \/ IngestRaises(c)
                BY <4>1, ZenonT(40) DEF Disconnected, IngestRaises, Crash
            <4>2. CASE \E n \in 0..MaxBurst : Ingest(c, n)
                BY <4>2, ZenonT(40) DEF Ingest
            <4> QED BY <2>2, <4>1, <4>2
        <3>2. task[c].seg = None
            BY <2>1, <3>1 DEF ConnOK, InFlight, Awaiting
        <3>3. PICK t : Becomes(c, t)
            BY <3>1
        <3> QED BY <1>1, <3>1, <3>2, <3>3, OwedByOne
    <2>6. ASSUME NEW s \in Segments, NEW t \in Clock,
                 \/ Refuse(c, s, t) \/ Recognise(c, s, t)
                 \/ AsrRaises(c, s, t) \/ MessageRaises(c, s, t)
          PROVE  AllOwed
        <3>1. DrawId(c, s) /\ task[c].stage = "segment"
            BY <2>6 DEF Refuse, Recognise, AsrRaises, MessageRaises, DrawId
        <3>2. task[c].seg = None
            BY <2>1, <3>1 DEF ConnOK, InFlight, Awaiting
        <3>3. CASE MessageRaises(c, s, t)
            BY <1>1, <3>1, <3>2, <3>3, OwedByDraw DEF MessageRaises, Crash
        <3>4. CASE Refuse(c, s, t) \/ Recognise(c, s, t) \/ AsrRaises(c, s, t)
            <4>1. PICK u : Becomes(c, u) /\ u.seg = s
                <5>1. PICK st \in Stages, g \in 0..MaxLoads : Draws(c, s, st, g)
                    BY <1>1, <3>4, TaskFields DEF Refuse, Recognise, AsrRaises, Stages, TypeOK
                <5>2. task[c] \in Tasks
                    BY <1>1 DEF TypeOK
                <5> DEFINE u == [task[c] EXCEPT !.stage = st, !.seg = s, !.gen = g,
                                                !.left = task[c].left - 1]
                <5>3. u.seg = s
                    BY <5>2 DEF Tasks
                <5> QED BY <5>1, <5>3 DEF Draws
            <4> QED BY <1>1, <3>1, <3>2, <4>1, OwedByDraw
        <3> QED BY <2>6, <3>3, <3>4
    <2>3. CASE \/ MarkAsrFinal(c) \/ MarkTranslate(c)
               \/ SendFinal(c) \/ SendResult(c) \/ SendAudio(c)
               \/ SessionGone(c) \/ ProviderRaises(c) \/ SendRaises(c)
        <3>1. /\ \E st \in Stages : Becomes(c, [task[c] EXCEPT !.stage = st])
              /\ born' = born
            BY <2>3 DEF MarkAsrFinal, MarkTranslate, SendFinal, SendResult, SendAudio, SessionGone,
                        ProviderRaises, SendRaises, Fail, Await, Stages
        <3> QED BY <1>1, <3>1, OwedByStage
    <2>4. CASE NoWords(c) \/ Spoken(c) \/ Reported(c)
        <3>1. /\ NextSegment(c) /\ last' = last /\ born' = born
              /\ task[c].stage \in {"final", "audio", "replying"}
            BY <2>4 DEF NoWords, Spoken, Reported
        <3>2. \/ task[c].seg = None \/ ~peer[c]
              \/ last'[task[c].seg] \in {"asr.final", "tts.audio", "error"}
            BY <2>1, <3>1 DEF ConnOK, Said
        <3>3. \E t : Becomes(c, t)
            BY <3>1 DEF NextSegment
        <3> QED BY <1>1, <3>1, <3>2, <3>3, OwedByOne
    <2>5. CASE ReportRaises(c)
        BY <1>1, <2>5, OwedByOne DEF ReportRaises, Crash
    <2> QED BY <1>6, <2>2, <2>3, <2>4, <2>5, <2>6 DEF Coroutine
<1> QED BY <1>2, <1>4, <1>5, <1>6 DEF Next, vars

\* A client that stays never has a segment vanish: it gets the final text of
\* one without words, its audio, or its error, as long as a message of its
\* session can be built.
THEOREM PipelineNeverSilent == Spec => NeverSilent
<1>1. IInv /\ [Next]_vars =>
        [\A c \in Conns, s \in Segments :
            Leaves(c, s) => \/ ~peer[c]
                            \/ last'[s] \in {"asr.final", "tts.audio", "error"}
                            \/ born'[s] \in misfits]_vars
    BY OwedStep DEF AllOwed, Owed
<1> QED BY <1>1, Invariant, PTL DEF Spec, NeverSilent
=============================================================================
