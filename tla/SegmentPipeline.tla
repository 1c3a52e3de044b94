-------------------------- MODULE SegmentPipeline --------------------------
(***************************************************************************)
(* The python service at work on audio: WebSocket connections handled by   *)
(* coroutines of one event loop (runtime/ws.py), PipelineOrchestrator      *)
(* (runtime/pipeline_orchestrator.py), the per-session queues and the      *)
(* SessionManager, together with the HTTP handlers, which run in threads   *)
(* and so interleave anywhere.                                             *)
(*                                                                         *)
(* A coroutine gives up the loop only where it awaits a send.  "loop" is   *)
(* the connection whose coroutine runs; it is nobody while every coroutine *)
(* is suspended.  A step of a coroutine ends where it awaits, or where it  *)
(* next looks at state that a thread can change (the session registry, the *)
(* model bundle), so that threads can act in between.                      *)
(***************************************************************************)
EXTENDS SegmentQueueOps, FiniteSetsExt

CONSTANTS
    Conns,        \* WebSocket connections
    SessionIds,   \* session ids the clients use
    None,         \* no connection, no session, no segment
    Clock,        \* what time.time() may answer, at any call: the wall clock can be set
    MaxLives,     \* bound: SessionState objects ever created
    MaxLoads,     \* bound: model bundles loaded after the first
    MaxBurst      \* bound: segments one audio frame can close

ASSUME PipelineAssumption ==
    /\ None \notin Conns \cup SessionIds \cup Segments
    /\ IsFiniteSet(Conns)
    /\ Clock \subseteq Int /\ Clock # {}
    /\ MaxLives \in Nat /\ MaxLoads \in Nat /\ MaxBurst \in Nat \ {0}

Lives == 1..MaxLives
NoLife == 0

VARIABLES
    registry,     \* SessionManager._sessions: the object registered under an id
    lives,        \* SessionState objects created so far
    misfits,      \* those of a direction, stream or language that no BaseMessage takes
    asrLocked,    \* per object: asr_final_locked
    trLocked,     \* per object: translate_locked
    born,         \* per segment id: the object that drew it (seen_segments)
    queue,        \* per session id: its SegmentQueue
    bundle,       \* the generation of ModelManager.bundle
    loop,         \* the connection whose coroutine holds the event loop
    task,         \* per connection: its coroutine
    peer,         \* per connection: its client is still there
    last,         \* per segment: the type of the latest message delivered
    ran           \* history, per segment: generations of the bundle it ran on

vars == <<registry, lives, misfits, asrLocked, trLocked, born, queue, bundle,
          loop, task, peer, last, ran>>

Stages ==
    {"closed",     \* no connection, or its handler has ended
     "ready",      \* await ws.receive()
     "framed",     \* audio frame accepted by _handle_binary, not yet ingested
     "segment",    \* about to run the next segment of the frame
     "partial",    \* awaiting the send of asr.partial
     "locked",     \* mark_asr_final has returned, asr.final not yet sent
     "final",      \* awaiting the send of asr.final
     "marked",     \* mark_translate has returned, translate.result not yet sent
     "result",     \* awaiting the send of translate.result
     "audio",      \* awaiting the send of tts.audio
     "replying"}   \* awaiting the send of an error, or of status.update

\* Suspended inside the try block of _run_segment.
Awaiting == {"partial", "final", "result", "audio"}

\* Inside the try block: the segment was accepted and is not yet concluded.
InFlight == Awaiting \cup {"locked", "marked"}

Idle(stage) ==
    [stage |-> stage, sid |-> None, life |-> NoLife, seg |-> None, gen |-> 0, left |-> 0]

Init ==
    /\ registry = [i \in SessionIds |-> NoLife]
    /\ lives = 0
    /\ misfits = {}
    /\ asrLocked = [l \in Lives |-> {}]
    /\ trLocked = [l \in Lives |-> {}]
    /\ born = [s \in Segments |-> NoLife]
    /\ queue = [i \in SessionIds |-> EmptyQueue]
    /\ bundle = 0
    /\ loop = None
    /\ task = [c \in Conns |-> Idle("closed")]
    /\ peer = [c \in Conns |-> FALSE]
    /\ last = [s \in Segments |-> "none"]
    /\ ran = [s \in Segments |-> {}]

-----------------------------------------------------------------------------
\* Building blocks.

\* The coroutine of c may run: it holds the loop, or nobody does.
Runs(c) == loop \in {c, None}

\* A message of segment s sent on c.  Once the client is gone the transport
\* swallows it, or raises, which SendRaises and ReportRaises model; that it
\* cannot even be built is MessageRaises.
Send(c, s, type) == last' = IF peer[c] THEN [last EXCEPT ![s] = type] ELSE last

\* The segment ids that no frame in progress will draw (bounds Ingest).
Unclaimed ==
    LET Left(d) == task[d].left IN
    Cardinality({s \in Segments : born[s] = NoLife}) - MapThenSumSet(Left, Conns)

\* The coroutine of c is now t.
Becomes(c, t) == task' = [task EXCEPT ![c] = t]

\* Mutant of NextSegment: the end of the segments is found one too late.
NextSegmentOffByOne(c) ==
    IF task[c].left >= 0 /\ task[c].sid # None
    THEN Becomes(c, [task[c] EXCEPT !.stage = "segment", !.seg = None]) /\ loop' = c
    ELSE Becomes(c, Idle("ready")) /\ loop' = None

\* Done with one segment, or with a reply: the next segment of the frame, or
\* the next message.
NextSegment(c) ==
    IF task[c].left > 0
    THEN Becomes(c, [task[c] EXCEPT !.stage = "segment", !.seg = None]) /\ loop' = c
    ELSE Becomes(c, Idle("ready")) /\ loop' = None

Await(c, stage) == Becomes(c, [task[c] EXCEPT !.stage = stage]) /\ loop' = None

\* Mutant of Fail: the except branch reports but does not drop.
FailKeepingSlot(c) ==
    /\ Send(c, task[c].seg, "error")
    /\ Await(c, "replying")
    /\ UNCHANGED queue

\* The except branches of _run_segment: drop(.., "manual"), then the error.
Fail(c) ==
    /\ queue' = [queue EXCEPT ![task[c].sid] = Drop(queue[task[c].sid], task[c].seg, "manual")]
    /\ Send(c, task[c].seg, "error")
    /\ Await(c, "replying")

-----------------------------------------------------------------------------
\* HTTP handlers and the environment: they run whatever the loop does.

\* SessionManager.start, from /backend/session/start, whose body is validated.
HttpStart(i) ==
    /\ registry[i] = NoLife
    /\ lives < MaxLives
    /\ lives' = lives + 1
    /\ registry' = [registry EXCEPT ![i] = lives + 1]
    /\ UNCHANGED <<misfits, asrLocked, trLocked, born, queue, bundle, loop, task, peer, last, ran>>

\* SessionManager.stop, from /backend/session/stop: only the registry knows.
HttpStop(i) ==
    /\ registry[i] # NoLife
    /\ registry' = [registry EXCEPT ![i] = NoLife]
    /\ UNCHANGED <<lives, misfits, asrLocked, trLocked, born, queue, bundle, loop, task, peer, last, ran>>

\* /models/load replaces the bundle.
ModelsLoad ==
    /\ bundle < MaxLoads
    /\ bundle' = bundle + 1
    /\ UNCHANGED <<registry, lives, misfits, asrLocked, trLocked, born, queue, loop, task, peer, last, ran>>

\* A client connects with the right token; a connection that ended is reused.
Connect(c) ==
    /\ task[c].stage = "closed"
    /\ loop = None
    /\ Becomes(c, Idle("ready"))
    /\ peer' = [peer EXCEPT ![c] = TRUE]
    /\ UNCHANGED <<registry, lives, misfits, asrLocked, trLocked, born, queue, bundle, loop, last, ran>>

\* The client goes away; its coroutine learns of it when it sends or receives.
PeerLeaves(c) ==
    /\ peer[c]
    /\ peer' = [peer EXCEPT ![c] = FALSE]
    /\ UNCHANGED <<registry, lives, misfits, asrLocked, trLocked, born, queue, bundle, loop, task, last, ran>>

-----------------------------------------------------------------------------
\* The coroutine of a connection.

\* websocket.disconnect received while waiting for a message.
Disconnected(c) ==
    /\ loop = None
    /\ task[c].stage = "ready"
    /\ ~peer[c]
    /\ Becomes(c, Idle("closed"))
    /\ UNCHANGED <<registry, lives, misfits, asrLocked, trLocked, born, queue, bundle, loop, peer, last, ran>>

\* An exception leaves the handler: "ws loop crashed", the connection is over.
Crash(c) ==
    /\ Becomes(c, Idle("closed"))
    /\ peer' = [peer EXCEPT ![c] = FALSE]
    /\ loop' = None

\* The coroutine of c takes the next message of its client.
Handles(c) ==
    /\ loop = None
    /\ task[c].stage = "ready"
    /\ peer[c]

\* session.start on the socket, answered by status.update.  The direction, the
\* stream and the languages are stored as they come: "fits" says that the
\* messages of the session can carry them.
TextStart(c, i, fits) ==
    /\ Handles(c)
    /\ registry[i] = NoLife
    /\ lives < MaxLives
    /\ lives' = lives + 1
    /\ registry' = [registry EXCEPT ![i] = lives + 1]
    /\ misfits' = IF fits THEN misfits ELSE misfits \cup {lives + 1}
    /\ Becomes(c, Idle("replying"))
    /\ UNCHANGED <<asrLocked, trLocked, born, queue, bundle, loop, peer, last, ran>>

\* session.stop on the socket; nothing is answered.
TextStop(c, i) ==
    /\ Handles(c)
    /\ registry[i] # NoLife
    /\ registry' = [registry EXCEPT ![i] = NoLife]
    /\ UNCHANGED <<lives, misfits, asrLocked, trLocked, born, queue, bundle, loop, task, peer, last, ran>>

\* A message that is answered with an error, or, once, by starting a session
\* whose id the service draws and nobody else knows.
Answered(c) ==
    /\ Handles(c)
    /\ Becomes(c, Idle("replying"))
    /\ UNCHANGED <<registry, lives, misfits, asrLocked, trLocked, born, queue, bundle, loop, peer, last, ran>>

\* A message that its handler does not survive.
HandlerRaises(c) ==
    /\ Handles(c)
    /\ Crash(c)
    /\ UNCHANGED <<registry, lives, misfits, asrLocked, trLocked, born, queue, bundle, last, ran>>

\* An audio frame whose session _handle_binary finds in the registry.
Frame(c, i) ==
    /\ Handles(c)
    /\ registry[i] # NoLife
    /\ Becomes(c, [Idle("framed") EXCEPT !.sid = i])
    /\ loop' = c
    /\ UNCHANGED <<registry, lives, misfits, asrLocked, trLocked, born, queue, bundle, peer, last, ran>>

\* ingest_pcm looks the session up again, converts the samples and asks the
\* RollingVad for the segments that are closed (RollingVad.tla says which).
Ingest(c, n) ==
    /\ loop = c
    /\ task[c].stage = "framed"
    /\ registry[task[c].sid] # NoLife
    /\ n <= Unclaimed
    /\ Becomes(c, IF n = 0 THEN Idle("ready")
                  ELSE [task[c] EXCEPT !.stage = "segment", !.life = registry[task[c].sid],
                                       !.left = n])
    /\ loop' = IF n = 0 THEN None ELSE c
    /\ UNCHANGED <<registry, lives, misfits, asrLocked, trLocked, born, queue, bundle, peer, last, ran>>

\* The second lookup finds the session stopped, the samples cannot be converted
\* (reshape, resample_poly), or the VAD raises: nothing catches it.
IngestRaises(c) ==
    /\ loop = c
    /\ task[c].stage = "framed"
    /\ Crash(c)
    /\ UNCHANGED <<registry, lives, misfits, asrLocked, trLocked, born, queue, bundle, last, ran>>

\* The head of _run_segment: bundle, fresh id s, enqueue.  The caller says what
\* the queue, the wire, the client and the coroutine are afterwards.
DrawId(c, s) ==
    /\ loop = c
    /\ task[c].stage = "segment"
    /\ born[s] = NoLife
    /\ born' = [born EXCEPT ![s] = task[c].life]
    /\ loop' = None
    /\ UNCHANGED <<registry, lives, misfits, asrLocked, trLocked, bundle>>

\* The coroutine goes on with segment s, on generation g of the bundle.
Draws(c, s, stage, g) ==
    Becomes(c, [task[c] EXCEPT !.stage = stage, !.seg = s, !.gen = g, !.left = task[c].left - 1])

\* A message of the session of c can be built.
Fits(c) == task[c].life \notin misfits

\* The queue is full: the segment is answered with PLAYBACK_QUEUE_OVERLOADED.
Refuse(c, s, t) ==
    /\ DrawId(c, s)
    /\ Fits(c)
    /\ ~Admits(queue[task[c].sid], t)
    /\ queue' = [queue EXCEPT ![task[c].sid] = Enqueue(queue[task[c].sid], s, t)]
    /\ Send(c, s, "error")
    /\ Draws(c, s, "replying", task[c].gen)
    /\ UNCHANGED <<peer, ran>>

\* enqueue, mark_running, ASR, and the send of asr.partial.
Recognise(c, s, t) ==
    /\ DrawId(c, s)
    /\ Fits(c)
    /\ Admits(queue[task[c].sid], t)
    /\ queue' = [queue EXCEPT ![task[c].sid] =
                   MarkRunning(Enqueue(queue[task[c].sid], s, t), s)]
    /\ Send(c, s, "asr.partial")
    /\ Draws(c, s, "partial", bundle)
    /\ ran' = [ran EXCEPT ![s] = {bundle}]
    /\ UNCHANGED peer

\* enqueue, mark_running, and an ASR provider that raises.
AsrRaises(c, s, t) ==
    /\ DrawId(c, s)
    /\ Fits(c)
    /\ Admits(queue[task[c].sid], t)
    /\ queue' = [queue EXCEPT ![task[c].sid] =
                   Drop(MarkRunning(Enqueue(queue[task[c].sid], s, t), s), s, "manual")]
    /\ Send(c, s, "error")
    /\ Draws(c, s, "replying", bundle)
    /\ ran' = [ran EXCEPT ![s] = {bundle}]
    /\ UNCHANGED peer

\* The first message of segment s cannot be built, and neither can the error
\* that would report it: the item is dropped if it was accepted, and the
\* exception leaves _run_segment, ingest_pcm and the handler.
MessageRaises(c, s, t) ==
    LET i == task[c].sid
        q == Enqueue(queue[i], s, t)
    IN
    /\ DrawId(c, s)
    /\ ~Fits(c)
    /\ \/ /\ ~Admits(queue[i], t)
          /\ queue' = [queue EXCEPT ![i] = q]
          /\ UNCHANGED ran
       \/ /\ Admits(queue[i], t)
          /\ queue' = [queue EXCEPT ![i] = Drop(MarkRunning(q, s), s, "manual")]
          /\ ran' = [ran EXCEPT ![s] = {bundle}]
    /\ Crash(c)
    /\ UNCHANGED last

\* mark_asr_final, by session id: the object registered now takes the lock,
\* whichever object drew the segment.
MarkAsrFinal(c) ==
    LET l == registry[task[c].sid]
        s == task[c].seg
    IN
    /\ Runs(c)
    /\ task[c].stage = "partial"
    /\ l # NoLife
    /\ asrLocked' = [asrLocked EXCEPT ![l] = asrLocked[l] \cup {s}]
    /\ Becomes(c, [task[c] EXCEPT !.stage = IF s \in asrLocked[l] THEN "final" ELSE "locked"])
    /\ loop' = c
    /\ UNCHANGED <<registry, lives, misfits, trLocked, born, queue, bundle, peer, last, ran>>

SendFinal(c) ==
    /\ loop = c
    /\ task[c].stage = "locked"
    /\ Send(c, task[c].seg, "asr.final")
    /\ Await(c, "final")
    /\ UNCHANGED <<registry, lives, misfits, asrLocked, trLocked, born, queue, bundle, peer, ran>>

\* "if not partial_text": the segment holds no words and is complete.
NoWords(c) ==
    /\ Runs(c)
    /\ task[c].stage = "final"
    /\ queue' = [queue EXCEPT ![task[c].sid] = Complete(queue[task[c].sid], task[c].seg)]
    /\ NextSegment(c)
    /\ UNCHANGED <<registry, lives, misfits, asrLocked, trLocked, born, bundle, peer, last, ran>>

\* Mutant of MarkTranslate: the bundle is read again for the translation.
MarkTranslateRereading(c) ==
    LET l == registry[task[c].sid]
        s == task[c].seg
    IN
    /\ Runs(c)
    /\ task[c].stage = "final"
    /\ l # NoLife
    /\ trLocked' = [trLocked EXCEPT ![l] = trLocked[l] \cup {s}]
    /\ ran' = [ran EXCEPT ![s] = ran[s] \cup {bundle}]
    /\ Becomes(c, [task[c] EXCEPT !.stage = "marked"])
    /\ loop' = c
    /\ UNCHANGED <<registry, lives, misfits, asrLocked, born, queue, bundle, peer, last>>

\* The translation, then mark_translate on the object registered now.
MarkTranslate(c) ==
    LET l == registry[task[c].sid]
        s == task[c].seg
    IN
    /\ Runs(c)
    /\ task[c].stage = "final"
    /\ l # NoLife
    /\ trLocked' = [trLocked EXCEPT ![l] = trLocked[l] \cup {s}]
    /\ ran' = [ran EXCEPT ![s] = ran[s] \cup {task[c].gen}]
    /\ Becomes(c, [task[c] EXCEPT !.stage = IF s \in trLocked[l] THEN "result" ELSE "marked"])
    /\ loop' = c
    /\ UNCHANGED <<registry, lives, misfits, asrLocked, born, queue, bundle, peer, last>>

SendResult(c) ==
    /\ loop = c
    /\ task[c].stage = "marked"
    /\ Send(c, task[c].seg, "translate.result")
    /\ Await(c, "result")
    /\ UNCHANGED <<registry, lives, misfits, asrLocked, trLocked, born, queue, bundle, peer, ran>>

\* Synthesis and the send of tts.audio; the session is not looked at again.
SendAudio(c) ==
    LET s == task[c].seg IN
    /\ Runs(c)
    /\ task[c].stage = "result"
    /\ ran' = [ran EXCEPT ![s] = ran[s] \cup {task[c].gen}]
    /\ Send(c, s, "tts.audio")
    /\ Await(c, "audio")
    /\ UNCHANGED <<registry, lives, misfits, asrLocked, trLocked, born, queue, bundle, peer>>

Spoken(c) ==
    /\ Runs(c)
    /\ task[c].stage = "audio"
    /\ queue' = [queue EXCEPT ![task[c].sid] = Complete(queue[task[c].sid], task[c].seg)]
    /\ NextSegment(c)
    /\ UNCHANGED <<registry, lives, misfits, asrLocked, trLocked, born, bundle, peer, last, ran>>

\* Mutant of SessionGone: the segment of a stopped session is given up quietly.
SessionGoneQuietly(c) ==
    /\ Runs(c)
    /\ task[c].stage \in {"partial", "final"}
    /\ registry[task[c].sid] = NoLife
    /\ queue' = [queue EXCEPT ![task[c].sid] = Drop(queue[task[c].sid], task[c].seg, "manual")]
    /\ NextSegment(c)
    /\ UNCHANGED <<registry, lives, misfits, asrLocked, trLocked, born, bundle, peer, last, ran>>

\* Mutant of SessionGone: mark_asr_final waits for the session to come back.
SessionGoneWaits(c) ==
    /\ Runs(c)
    /\ task[c].stage = "final"
    /\ registry[task[c].sid] = NoLife
    /\ Fail(c)
    /\ UNCHANGED <<registry, lives, misfits, asrLocked, trLocked, born, bundle, peer, ran>>

\* A lock method finds no session under the id and raises KeyError.
SessionGone(c) ==
    /\ Runs(c)
    /\ task[c].stage \in {"partial", "final"}
    /\ registry[task[c].sid] = NoLife
    /\ Fail(c)
    /\ UNCHANGED <<registry, lives, misfits, asrLocked, trLocked, born, bundle, peer, ran>>

\* The translation or the synthesis raises.
ProviderRaises(c) ==
    /\ Runs(c)
    /\ task[c].stage \in {"final", "result"}
    /\ Fail(c)
    /\ UNCHANGED <<registry, lives, misfits, asrLocked, trLocked, born, bundle, peer, ran>>

\* Mutant of SendRaises: a send may time out although the message went out.
SendTimesOut(c) ==
    /\ Runs(c)
    /\ task[c].stage \in Awaiting
    /\ Fail(c)
    /\ UNCHANGED <<registry, lives, misfits, asrLocked, trLocked, born, bundle, peer, ran>>

\* The pending send raises because the client is gone.  (What fails with the
\* client there is the making of a message, and then that of the first one.)
SendRaises(c) ==
    /\ Runs(c)
    /\ task[c].stage \in Awaiting
    /\ ~peer[c]
    /\ Fail(c)
    /\ UNCHANGED <<registry, lives, misfits, asrLocked, trLocked, born, bundle, peer, ran>>

\* The reply is out: on to the next segment of the frame, or message.
Reported(c) ==
    /\ Runs(c)
    /\ task[c].stage = "replying"
    /\ NextSegment(c)
    /\ UNCHANGED <<registry, lives, misfits, asrLocked, trLocked, born, queue, bundle, peer, last, ran>>

\* Sending the reply raises: the rest of the frame and the connection are lost.
ReportRaises(c) ==
    /\ Runs(c)
    /\ task[c].stage = "replying"
    /\ ~peer[c]
    /\ Crash(c)
    /\ UNCHANGED <<registry, lives, misfits, asrLocked, trLocked, born, queue, bundle, last, ran>>

-----------------------------------------------------------------------------
\* HTTP handlers and the clients, whatever the loop does.
Environment ==
    \/ \E i \in SessionIds : HttpStart(i) \/ HttpStop(i)
    \/ ModelsLoad
    \/ \E c \in Conns : Connect(c) \/ PeerLeaves(c)

\* The coroutine of c handles a new message.
Message(c) ==
    \/ \E i \in SessionIds, fits \in BOOLEAN : TextStart(c, i, fits)
    \/ \E i \in SessionIds : TextStop(c, i) \/ Frame(c, i)
    \/ Answered(c) \/ HandlerRaises(c)

\* What the coroutine of c does once it has a message to handle.
Coroutine(c) ==
    \/ Disconnected(c)
    \/ \E n \in 0..MaxBurst : Ingest(c, n)
    \/ IngestRaises(c)
    \/ \E s \in Segments, t \in Clock :
          Refuse(c, s, t) \/ Recognise(c, s, t) \/ AsrRaises(c, s, t) \/ MessageRaises(c, s, t)
    \/ MarkAsrFinal(c) \/ SendFinal(c) \/ NoWords(c)
    \/ MarkTranslate(c) \/ SendResult(c)
    \/ SendAudio(c) \/ Spoken(c)
    \/ SessionGone(c) \/ ProviderRaises(c) \/ SendRaises(c)
    \/ Reported(c) \/ ReportRaises(c)

Next == Environment \/ \E c \in Conns : Message(c) \/ Coroutine(c)

Spec == Init /\ [][Next]_vars

\* asyncio resumes the coroutines whose await has ended in the order in which
\* they ended, so a coroutine that can go on is not overtaken for ever.
FairSpec == Spec /\ \A c \in Conns : SF_vars(Coroutine(c))

-----------------------------------------------------------------------------
Messages == {"none", "asr.partial", "asr.final", "translate.result", "tts.audio", "error"}

Tasks == [stage : Stages, sid : SessionIds \cup {None}, life : Lives \cup {NoLife},
          seg : Segments \cup {None}, gen : 0..MaxLoads, left : 0..MaxBurst]

TypeOK ==
    /\ registry \in [SessionIds -> Lives \cup {NoLife}]
    /\ lives \in 0..MaxLives
    /\ misfits \subseteq Lives
    /\ asrLocked \in [Lives -> SUBSET Segments]
    /\ trLocked \in [Lives -> SUBSET Segments]
    /\ born \in [Segments -> Lives \cup {NoLife}]
    /\ queue \in [SessionIds -> Queues]
    /\ bundle \in 0..MaxLoads
    /\ loop \in Conns \cup {None}
    /\ task \in [Conns -> Tasks]
    /\ peer \in [Conns -> BOOLEAN]
    /\ last \in [Segments -> Messages]
    /\ ran \in [Segments -> SUBSET (0..MaxLoads)]

\* Every item of a session's queue belongs to a coroutine that is inside the
\* try block with that very segment: no failure of a provider, of a send, of a
\* lock or of the connection leaks a slot of the queue.
SlotsOwned ==
    \A i \in SessionIds : \A s \in Pending(queue[i]) :
        \E c \in Conns : /\ task[c].stage \in InFlight
                         /\ task[c].sid = i
                         /\ task[c].seg = s

\* A segment is recognised, translated and spoken by one model bundle, even
\* when /models/load replaces the bundle while the segment is in flight.
OneBundle == \A s \in Segments : Cardinality(ran[s]) <= 1

\* The messages of every segment reach the client as SegmentProtocol says,
\* whatever stops, restarts, loads and disconnections come in between.
Wire == INSTANCE SegmentProtocol WITH Segments <- Segments, last <- last
WireOrder == Wire!Spec

\* The coroutine of c is done with segment s, which it may have drawn in the
\* very step in which it gives it up.
Leaves(c, s) ==
    /\ task[c].seg = s \/ (loop = c /\ born[s] # born'[s])
    /\ task'[c].seg # s

\* A coroutine never leaves a segment behind without an answer: its client has
\* the final text of a segment with no words, its audio or its error, or is
\* gone, or no message can carry what the session was started with.
NeverSilent ==
    [][\A c \in Conns, s \in Segments :
         Leaves(c, s) => \/ ~peer[c]
                         \/ last'[s] \in {"asr.final", "tts.audio", "error"}
                         \/ born'[s] \in misfits]_vars

\* The handling of a message always ends, whatever it was and whatever fails,
\* stops or leaves meanwhile: the connection comes back to its receive or is
\* closed, and holds up neither itself nor the others.
RequestEnds ==
    \A c \in Conns : []<>(task[c].stage \in {"ready", "closed"})

-----------------------------------------------------------------------------
\* What a document says of the service; a run refutes it.

\* docs/technical-solution.md: on session.stop the backend cancels the
\* unfinished work of the session.  No speech of a stopped session goes out.
StopCancels ==
    [][\A s \in Segments :
         (last[s] # "tts.audio" /\ last'[s] = "tts.audio")
           => \E i \in SessionIds : registry[i] = born[s]]_vars
=============================================================================
