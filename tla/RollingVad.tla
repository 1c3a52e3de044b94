----------------------------- MODULE RollingVad -----------------------------
(***************************************************************************)
(* How the service cuts audio into segments: one ingest_pcm call pushes a  *)
(* frame into the RollingVad of the session and flushes it at once         *)
(* (runtime/rolling_vad.py, runtime/pipeline_orchestrator.py).  A push     *)
(* runs the same samples through two cutters: the VAD provider, which all  *)
(* sessions share (providers/vad), and the RollingVad's own energy slicer. *)
(*                                                                         *)
(* Audio is counted in units of 10 ms.  A unit is known by where it came   *)
(* from and by whether it is loud; a chunk with a loud unit is above the   *)
(* energy threshold.  A segment is the list of chunks that the code joins  *)
(* when it closes.  The event loop runs one call at a time, but the        *)
(* threads of /models/warmup and /models/load act between any two chunks.  *)
(***************************************************************************)
EXTENDS Integers, Sequences, FiniteSets, Functions

CONSTANTS
    Sessions,     \* session ids that send audio
    FrameUnits,   \* lengths of audio frames
    ChunkUnits,   \* length of a VAD chunk (ENERGY_FRAME_MS, frame_ms)
    MaxUnits,     \* what one push keeps (MAX_BUFFER_MS)
    MaxFrames,    \* bound: frames that arrive
    MaxLoads      \* bound: bundles loaded after the first

ASSUME VadAssumption ==
    /\ Sessions # {}
    /\ FrameUnits \subseteq Nat
    /\ ChunkUnits \in Nat \ {0} /\ MaxUnits \in Nat \ {0}
    /\ MaxFrames \in Nat /\ MaxLoads \in Nat

VARIABLES
    bundle,       \* the bundle in use
    provider,     \* per bundle: its VAD provider
    rolling,      \* per session: its RollingVad
    call,         \* the ingest_pcm call under way, or the last one
    out,          \* the segments that the last call handed to _run_segment
    frames        \* frames that have arrived

vars == <<bundle, provider, rolling, call, out, frames>>

Bundles == 0..MaxLoads

Kinds == {"energy", "silero"}

\* What a cutter remembers: samples short of a chunk, the chunks of the segment
\* it is in, and (providers only) the segments closed since the last flush.
Fresh == [buffer |-> <<>>, speaking |-> FALSE, segment |-> <<>>, closed |-> <<>>]

NoVad == MaxLoads + 1

Init ==
    /\ bundle = 0
    /\ provider \in [Bundles -> {[kind |-> k, cut |-> Fresh] : k \in Kinds}]
    /\ rolling = [i \in Sessions |-> [vad |-> NoVad, cut |-> Fresh]]
    /\ call = [at |-> "idle", sid |-> CHOOSE i \in Sessions : TRUE, pcm |-> <<>>, view |-> <<>>, found |-> <<>>]
    /\ out = <<>>
    /\ frames = 0

-----------------------------------------------------------------------------
\* The cutters.

Loud(chunk) == \E k \in DOMAIN chunk : chunk[k].loud

Newest(pcm, n) == SubSeq(pcm, IF Len(pcm) > n THEN Len(pcm) - n + 1 ELSE 1, Len(pcm))

\* Mutant of Closes: the quiet chunk that closes a segment goes into it.
ClosesHangover(cut, chunk) ==
    IF ~Loud(chunk) /\ cut.speaking THEN <<Append(cut.segment, chunk)>> ELSE <<>>

\* A quiet chunk closes the segment that the cutter is in.
Closes(cut, chunk) ==
    IF ~Loud(chunk) /\ cut.speaking /\ cut.segment # <<>> THEN <<cut.segment>> ELSE <<>>

\* A loud chunk opens or prolongs a segment, a quiet one leaves none open.
CutChunk(cut, chunk) ==
    IF Loud(chunk)
    THEN [cut EXCEPT !.speaking = TRUE,
                     !.segment = Append(IF cut.speaking THEN @ ELSE <<>>, chunk)]
    ELSE [cut EXCEPT !.speaking = FALSE,
                     !.segment = IF cut.speaking THEN <<>> ELSE @]

\* Mutant of Pushed: the residual is added to the one of the last push.
PushedOn(cut, rest, found) == [cut EXCEPT !.buffer = @ \o rest, !.closed = @ \o found]

\* A push leaves the samples short of a chunk and the segments it closed.
Pushed(cut, rest, found) == [cut EXCEPT !.buffer = rest, !.closed = @ \o found]

\* Mutant of Flushed: the segments closed so far are kept for the next flush.
FlushedKeeping(cut) == [cut EXCEPT !.speaking = FALSE, !.segment = <<>>]

\* Mutant of Flushed: the open segment is handed over and stays open.
FlushedOpen(cut) == [cut EXCEPT !.closed = <<>>]

\* A flush forgets all but the samples short of a chunk.
Flushed(cut) == [Fresh EXCEPT !.buffer = cut.buffer]

\* None or one: what is handed over only when there is something in it.
NonEmpty(seq) == IF seq = <<>> THEN <<>> ELSE <<seq>>

-----------------------------------------------------------------------------
\* ingest_pcm.

Vad == provider[rolling[call.sid].vad]

\* The loops of both cutters take the next chunk of what they still look at.
NextChunk == SubSeq(call.view, 1, ChunkUnits)
AfterChunk == SubSeq(call.view, ChunkUnits + 1, Len(call.view))

\* A frame of session i: _rolling_for, and push up to the provider's loop,
\* which begins by reading its residual.  Without samples push returns at once.
Ingest(i, loud) ==
    LET g == IF rolling[i].vad = NoVad THEN bundle ELSE rolling[i].vad
        pcm == [k \in DOMAIN loud |-> [sid |-> i, frame |-> frames, n |-> k, loud |-> loud[k]]]
        kept == Newest(rolling[i].cut.buffer \o pcm, MaxUnits)
    IN
    /\ call.at = "idle"
    /\ frames < MaxFrames
    /\ frames' = frames + 1
    /\ rolling' = [rolling EXCEPT ![i].vad = g]
    /\ call' = IF loud = <<>>
               THEN [at |-> "flush", sid |-> i, pcm |-> <<>>, view |-> <<>>, found |-> <<>>]
               ELSE [at |-> "push", sid |-> i, pcm |-> kept,
                     view |-> provider[g].cut.buffer \o kept, found |-> <<>>]
    /\ out' = <<>>
    /\ UNCHANGED <<bundle, provider>>

\* One turn of the loop of EnergyVadProvider.push_pcm.  The segment it closes
\* is in closed_now, which a reset does not reach.
ProviderChunk ==
    /\ call.at = "push"
    /\ Vad.kind = "energy"
    /\ Len(call.view) >= ChunkUnits
    /\ provider' = [provider EXCEPT ![rolling[call.sid].vad].cut = CutChunk(@, NextChunk)]
    /\ call' = [call EXCEPT !.view = AfterChunk, !.found = @ \o Closes(Vad.cut, NextChunk)]
    /\ UNCHANGED <<bundle, rolling, out, frames>>

\* The end of push_pcm: the residual and the closed segments are remembered,
\* and _slice_by_energy begins with the same samples.
ProviderEnds ==
    /\ call.at = "push"
    /\ Vad.kind = "energy"
    /\ Len(call.view) < ChunkUnits
    /\ provider' = [provider EXCEPT ![rolling[call.sid].vad].cut = Pushed(@, call.view, call.found)]
    /\ call' = [call EXCEPT !.at = "slice", !.view = call.pcm]
    /\ UNCHANGED <<bundle, rolling, out, frames>>

\* SileroVadProvider.push_pcm: the probabilities are computed and not used.
SileroPush ==
    /\ call.at = "push"
    /\ Vad.kind = "silero"
    /\ call' = [call EXCEPT !.at = "slice", !.view = call.pcm]
    /\ UNCHANGED <<bundle, provider, rolling, out, frames>>

\* Its inference raises ModelLoadFailed, which leaves ingest_pcm.
SileroRaises ==
    /\ call.at = "push"
    /\ Vad.kind = "silero"
    /\ call' = [call EXCEPT !.at = "idle", !.pcm = <<>>, !.view = <<>>]
    /\ UNCHANGED <<bundle, provider, rolling, out, frames>>

\* One turn of the loop of _slice_by_energy.
SliceChunk ==
    LET own == rolling[call.sid].cut IN
    /\ call.at = "slice"
    /\ Len(call.view) >= ChunkUnits
    /\ rolling' = [rolling EXCEPT ![call.sid].cut = CutChunk(@, NextChunk)]
    /\ call' = [call EXCEPT !.view = AfterChunk, !.found = @ \o Closes(own, NextChunk)]
    /\ UNCHANGED <<bundle, provider, out, frames>>

\* Mutant of SliceEnds: the residual of the push is not kept.
SliceEndsLosing ==
    /\ call.at = "slice"
    /\ Len(call.view) < ChunkUnits
    /\ call' = [call EXCEPT !.at = "flush", !.view = <<>>]
    /\ UNCHANGED <<bundle, provider, rolling, out, frames>>

\* Its end, and that of push: the residual is remembered.
SliceEnds ==
    /\ call.at = "slice"
    /\ Len(call.view) < ChunkUnits
    /\ rolling' = [rolling EXCEPT ![call.sid].cut = [@ EXCEPT !.buffer = call.view]]
    /\ call' = [call EXCEPT !.at = "flush", !.view = <<>>]
    /\ UNCHANGED <<bundle, provider, out, frames>>

\* RollingVad.flush: the open segment, the residual as a segment of its own,
\* and the flush of the provider, which returns what it closed once more.
Flush ==
    LET own == rolling[call.sid].cut
        theirs == Vad.cut
    IN
    /\ call.at = "flush"
    /\ out' = call.found \o NonEmpty(own.segment) \o NonEmpty(NonEmpty(own.buffer))
                \o theirs.closed \o NonEmpty(theirs.segment)
    /\ rolling' = [rolling EXCEPT ![call.sid].cut = Fresh]
    /\ provider' = [provider EXCEPT ![rolling[call.sid].vad].cut = Flushed(@)]
    /\ call' = [call EXCEPT !.at = "idle", !.found = <<>>]
    /\ UNCHANGED <<bundle, frames>>

-----------------------------------------------------------------------------
\* The threads of the HTTP API.

\* /models/warmup resets the provider of the bundle in use.
Warmup ==
    /\ provider' = [provider EXCEPT ![bundle].cut = Fresh]
    /\ UNCHANGED <<bundle, rolling, call, out, frames>>

\* /models/load: RollingVads that exist keep the provider they were made with.
ModelsLoad ==
    /\ bundle < MaxLoads
    /\ bundle' = bundle + 1
    /\ UNCHANGED <<provider, rolling, call, out, frames>>

Patterns == UNION {[1..n -> BOOLEAN] : n \in FrameUnits}

Next ==
    \/ \E i \in Sessions : \E loud \in Patterns : Ingest(i, loud)
    \/ ProviderChunk \/ ProviderEnds \/ SileroPush \/ SileroRaises
    \/ SliceChunk \/ SliceEnds \/ Flush
    \/ Warmup \/ ModelsLoad

Spec == Init /\ [][Next]_vars

-----------------------------------------------------------------------------
Unit == [sid : Sessions, frame : 0..MaxFrames, n : Nat, loud : BOOLEAN]

Segments == Seq(Seq(Unit))

Cuts == [buffer : Seq(Unit), speaking : BOOLEAN, segment : Segments, closed : Seq(Segments)]

TypeOK ==
    /\ bundle \in Bundles
    /\ provider \in [Bundles -> [kind : Kinds, cut : Cuts]]
    /\ rolling \in [Sessions -> [vad : Bundles \cup {NoVad}, cut : Cuts]]
    /\ call \in [at : {"idle", "push", "slice", "flush"}, sid : Sessions,
                 pcm : Seq(Unit), view : Seq(Unit), found : Seq(Segments)]
    /\ out \in Seq(Segments)
    /\ frames \in 0..MaxFrames
    /\ \A i \in Sessions : Len(rolling[i].cut.buffer) < ChunkUnits
    /\ \A g \in Bundles : Len(provider[g].cut.buffer) < ChunkUnits

\* The units of a segment, and those of several segments.
Units(segment) == UNION {Range(segment[c]) : c \in DOMAIN segment}
UnitsOfAll(segments) == UNION {Units(segments[k]) : k \in DOMAIN segments}

\* The units of the segments of the last call.
Submitted == UnitsOfAll(out)

\* Nothing loud is lost: every loud unit of a frame, of those that a push can
\* keep, is in a segment when its call returns, whatever provider the session
\* has and whatever warmups and loads do to it in the middle of the call.
EverySoundHeard ==
    call.at = "idle" => \A u \in Range(call.pcm) : u.loud => u \in Submitted

\* A cutter that remembers no more than samples short of a chunk.
Rests(cut) == ~cut.speaking /\ cut.segment = <<>> /\ cut.closed = <<>>

\* Between calls no session has audio waiting, and no provider has an open
\* segment or a closed one to return later: audio that was submitted cannot
\* come back with a later frame, except for a residual short of a chunk.
Drained ==
    call.at = "idle" =>
        /\ \A i \in Sessions : rolling[i].cut = Fresh
        /\ \A g \in Bundles : Rests(provider[g].cut)

\* What a call submits is its own frame and less than one chunk of older audio.
LittleIsOld ==
    call.at = "idle" => Cardinality(Submitted \ Range(call.pcm)) < ChunkUnits

\* The recogniser is not given silence: a segment is a residual shorter than a
\* chunk, whose energy nobody looks at, or consists of whole chunks that are all
\* loud, whichever cutter closed it and whatever reset the other.
SilenceIsShort ==
    call.at = "idle" =>
        \A k \in DOMAIN out :
            \/ Len(out[k]) = 1 /\ Len(out[k][1]) < ChunkUnits
            \/ \A c \in DOMAIN out[k] : Len(out[k][c]) = ChunkUnits /\ Loud(out[k][c])

-----------------------------------------------------------------------------
\* What documents say of the service; the runs refute them.

\* docs/requirements.md: the same passage is not submitted to ASR repeatedly.
SubmittedOnce ==
    \A j, k \in DOMAIN out : j # k => Units(out[j]) \cap Units(out[k]) = {}
=============================================================================
