# Verification of Open Lingua Bridge

Open Lingua Bridge interprets a conversation: a desktop application records
speech, a local python service recognises, translates and speaks it, and the
desktop plays the result.  This directory holds TLA+ models of the parts of it
that have state and order, the TLC configurations that check them, and proofs
that TLAPS checks.

Source paths are relative to the repository root, with these short names:

| short | path |
|---|---|
| `runtime/`, `providers/` | `python-service/src/olb/runtime/`, `python-service/src/olb/providers/` |
| `lib.rs` | `apps/desktop/src-tauri/src/lib.rs` |
| `main.ts` | `apps/desktop/src/main.ts` |
| `session.rs`, `audio.rs`, `realtime.rs` | `crates/olb-core/src/` |
| `binary_frame.rs`, `message.rs` | `crates/olb-protocol/src/` |

## 1. The system

### Components, their state, what makes each correct

| Component | State | Operations | Hard part | Correct when |
|---|---|---|---|---|
| Segment queue (`runtime/segment_queue.py`) | items with queue time and state, five counters | enqueue, mark_running, complete, drop, evict_expired | wall clock that jumps; calls for items that eviction removed | the cap holds; every segment ends in exactly one counter; an expired item never returns |
| Pipeline orchestrator (`runtime/pipeline_orchestrator.py`) | per-session queues and RollingVads, ids, sequence numbers | ingest_pcm, _run_segment | awaits between steps; failures of providers, locks and sends; sessions stopped and replaced in between | every slot is released, every message is in protocol order, no segment is abandoned silently |
| WebSocket endpoint (`runtime/ws.py`) | connections, downlink numbers | session.start, session.stop, audio frames, disconnects | coroutines of many connections on one loop, threads beside it; messages of any client | the handling of a message ends; what a desktop sends is not turned down |
| Session manager (`runtime/session_manager.py`) | registered sessions, per-session locks of finals and translations | start, get, stop, mark_asr_final, mark_translate | an id reused while a segment of the old session runs | a final or translation is sent once |
| Model manager (`runtime/model_manager.py`) | mode, bundle, re-entrant lock | load, bundle, list_models, warmup | threads and the event loop share it; partial failures | mock mode means mocks; the bundle is the work of one load; the report is true; no call waits for ever |
| Language registry and HTTP API (`providers/language.py`, `runtime/http_api.py`) | tables of codes; none | session start and stop, chain check, models/*, precheck, test endpoints | bundle replaced around a check | the verdict on a chain agrees with what it names as missing |
| Rolling VAD and VAD providers (`runtime/rolling_vad.py`, `providers/vad/`) | residuals, open segment, closed segments; one provider for all sessions | push, flush, reset | two cutters over the same samples, one of them shared and reset by threads | no loud audio is lost, none is kept, silence is not made speech |
| Desktop session machine (`session.rs`) | state, session id, last error | start, mark_running, pause, resume, stop, reset, fail | events of overlapping commands | id and error fit the state |
| Tauri commands (`lib.rs`) | machine, configuration, runtime configuration | start_session, start_audio_session, pause, resume, stop, precheck, update_config, diagnostics | a start releases the mutex while it waits | a start that is under way ends what it began, whatever others do meanwhile |
| Desktop page (`main.ts`) | whether controls are enabled, what is shown | initialize, clicks, event listeners | overlapping promise chains share one flag | controls are never left disabled |
| Audio capture and playback (`audio.rs`) | channel of chunks, error slot, buffer | capture_audio_frames, play_tts_audio | callbacks on another thread; devices that fail or go silent | frames have no gap; capture ends |
| Realtime client (`realtime.rs`) | collected events, playback status | run_realtime_audio_smoke_test | sends without reading, timeouts, playback thread | a start ends; success means the playback lasted as long as the speech |
| Binary frame codec (`binary_frame.rs`, `runtime/binary_frame.py`) | none | encode, decode | two implementations | each reads what the other writes |

The rest is listed in `PROJECT.json` with the reason it is left out:
configuration, errors and metrics (values and counters nobody acts on),
inference wrappers (only that a call returns something, nothing, or raises is
used), schemas, scripts and tests.

### How they interact

The page invokes Tauri commands and gets one answer for each; commands share
the session machine under a mutex that a start releases while it awaits.  A
start calls the service over HTTP (health), records, and opens a WebSocket for
one exchange (`session.start`, frames, then results until a translation and
speech have come).  In the service each connection is a coroutine of one event
loop; the HTTP handlers run in threads and touch the same session manager and
model manager.  A frame is cut by the RollingVad into segments; each passes
the queue, recognition, translation and synthesis, and its messages go back on
the connection that brought the frame.

## 2. Modules

| Module | Models | Used by |
|---|---|---|
| `SegmentQueueOps` | the queue's operations as functions from a queue to a queue | `SegmentQueue`, `SegmentPipeline` |
| `SegmentQueue` | one queue: any order of calls, any clock | `SegmentQueueLemmas` |
| `SegmentProtocol` | abstract: which messages a client may see of one segment | `SegmentPipeline` (`Wire`) |
| `SegmentPipeline` | connections, frames, the stages of `_run_segment`, sessions, threads | `WsEndpoint`, `SegmentPipelineProofs` |
| `BinaryFrame` | both codecs: which frames each builds and reads | `WsEndpoint` |
| `WsEndpoint` | `_handle_text` and `_handle_binary` over the pipeline, desktops and other clients | `MCWsEndpoint`, `WsEndpointProofs` |
| `RollingVad` | cutting of audio by two cutters, shared provider, warmup and load | `RollingVadProofs` |
| `ModelManager` | load, bundle, list_models under and without the lock | `SessionChecks` |
| `LanguageChain` | registry, chain verdict, voices: pure operators | `SessionChecks` |
| `SessionChecks` | HTTP session start and chain check on top of `ModelManager` | `SessionChecksProofs` |
| `SessionMachine` | the desktop's machine as functions | `DesktopSession` |
| `DesktopSession` | page operations and Tauri commands over the machine | `DesktopSessionProofs` |
| `AudioCapture` | recording of one or two devices | `RealtimeExchange` |
| `RealtimeExchange` | the exchange with the service and the playback | `RealtimeExchangeProofs` |
| `SegmentQueueLemmas` | what each operation does to a queue | `SegmentQueueProofs`, `SegmentPipelineProofs` |
| `SegmentQueueProofs`, `SegmentPipelineProofs`, `WsEndpointProofs`, `DesktopSessionProofs`, `SessionChecksProofs`, `RollingVadProofs`, `RealtimeExchangeProofs` | theorems and proofs | |

`MC*` modules give constants values.  A definition marked *Mutant of* is a
plausible bug in that definition; it is not part of the specification, and
shows which property would notice it.

### How steps correspond to code

* **SegmentPipeline.** A coroutine's step ends where it awaits a send
  (`partial`, `final`, `result`, `audio`) or where it next reads what a thread
  can change: the registry (`framed`, `locked`, `marked`) and the bundle.  A
  reading of the clock is any value of `Clock`, each time.  `loop` is the
  connection whose coroutine runs; while it is set no other coroutine moves,
  threads do.  Recognition, translation and synthesis
  are calls without an await, so each is part of the step that makes it; it
  may raise (`AsrRaises`, `ProviderRaises`).  A send to a client that is gone
  is swallowed or raises (`SendRaises`), and so does the send of the error
  itself (`ReportRaises`), which ends the connection.  A message is built from
  the direction, the stream and the languages of the session, which the socket
  registers as they come; the objects in `misfits` hold what `BaseMessage` does
  not take.  All messages of a session have these fields, so it is the first
  one of a segment that cannot be built, and then the error that should report
  it: `MessageRaises` drops the item and ends the connection in the step that
  draws the segment.  With a client there, nothing else of a message depends on
  values from outside, so `SendRaises` and `ReportRaises` require that it is
  gone.  `SessionGone` is the
  `KeyError` of a lock of a session that was stopped.  A session object is a
  number (`Lives`), so an id that is started again is another object.  A
  message is one of five steps of the pipeline: `TextStart`, `TextStop`,
  `Frame`, `Answered` (the reply is a refusal) and `HandlerRaises`.
* **WsEndpoint / BinaryFrame.** A message of a client is a record of what the
  handlers look at: for a text whether it is JSON and an object, its version,
  type, session id, whether it has languages and whether messages can carry
  what it asks for; for a frame its size, the length it gives its header, and
  the header's fields.  `HandleText` and
  `HandleBinary` follow the branches of the two handlers to one of the five
  steps.  `DesktopStarts` and `DesktopFrames` are what `realtime.rs` and
  `audio.rs` build; `Texts` and `Blobs` are anything else.  Half a sample at
  the end of a payload raises inside `HandleBinary`; the rest of the conversion
  (`Converts`) and the VAD come with `WsIngest` and `WsIngestRaises`.  `frame`
  keeps the frame until `ingest_pcm` has converted its samples; `vad` keeps, per
  session id, the load whose VAD `_rolling_for` took at the first frame, which
  may raise when that load's VAD is Silero (`SileroLoads`).
* **SegmentQueue.** One action per public method; `ClockReads` is the wall
  clock, which can go back.  `EnqueueCall` draws fresh ids as the orchestrator
  does.
* **RollingVad.** A push goes chunk by chunk through the provider
  (`ProviderChunk`, `ProviderEnds`), then chunk by chunk through the energy
  slicer (`SliceChunk`, `SliceEnds`); warmups and loads act between any two
  chunks.  Then `Flush` runs the two flushes.  `CutChunk` and `Closes` are the
  loop body that both cutters have in common; a segment is the list of chunks
  that the code joins.  A unit is 10 ms that is loud or not; the arithmetic of
  energy is that choice.  Silero computes probabilities, cuts nothing, and may
  raise.
* **ModelManager / SessionChecks.** A step is a critical section or a
  constructor; `list_models` reads the bundle once per role without the lock.
  `Constructor` says of each real provider what its constructor makes of the
  path it is given (`FileStates`): a provider, one of the two errors that
  `_safe_load_real` replaces by a mock, or another exception, which leaves
  `load`.  `repeats` stands for a request that names a role twice: the code
  compares the lengths of two lists, not their names.
  A request of `SessionChecks` is `list_voices` (a `bundle` call), then the
  verdict, then `SessionManager.start`.  A code is asked for with or without
  space around it: the check strips it, and the session keeps it as it came.
* **DesktopSession.** An operation of the page is a record with the step of
  its promise chain.  `disabled` is the single flag that `setControlsDisabled`
  sets.  `invoked` to `answered` is the command in Rust; for a start it passes
  `health`, `capture` and `exchange`, each a place where the mutex is free, or
  it returns with the machine started (`StartUnannounced`): the copy of the
  config or the announcement failed.
  Code between two awaits is one step: after the precheck the controls are
  enabled and disabled again before the page can take a click.
* **AudioCapture / RealtimeExchange.** Callbacks and the capture loop are two
  threads joined by a channel and an error slot; a chunk may be shorter or
  longer than a frame.  `Receive` takes a chunk, each turn of the inner loop
  cuts one frame (`CutFrame`), and callbacks act between any two frames.  A
  sample is known by its number, so a lost or repeated one shows.  The client
  sends everything, then receives; playback runs on a thread that a timeout
  does not stop.  The service is any peer that answers as `SegmentPipeline`
  describes, errs, hangs or closes: it owes an answer for each segment of the
  frame it has read (`owed`) and reads no message before it has sent them all.

## 3. Runs

| Run | Question | Answer |
|---|---|---|
| `segment_queue` | does the queue keep its promises in every order of calls and clock readings? | yes |
| `pipeline` | do slots leak, do messages leave protocol order, is a segment abandoned or run on two bundles, while sessions stop and restart and everything may fail? | no, but for the segments of a session that no message can carry, which are abandoned with the connection; `WireOrder` is the refinement of `SegmentProtocol` |
| `pipeline_liveness` | do the codecs agree; is a desktop ever turned down for anything but the state of its session; does the handling of every message end? | they do, but for half a sample at the end of a frame, which only the desktop's reads; only when the Silero VAD that cuts its audio raises; it does |
| `rolling_vad` | is loud audio lost or kept, is silence handed over, whatever warmups and loads do inside a push? | no; at most a residual shorter than a chunk crosses calls, and only such a residual is handed over silent |
| `models` | does mock mode mean mocks, is the bundle that anyone uses the work of one load, is the report of a load true, does a refusal name its reason, while threads load, use and list; can a call wait for ever? | yes to each; it cannot |
| `desktop` | does the machine stay consistent under overlapping operations, do starts resolve, do controls come back, with a backend that may never answer? | yes, unless the start itself, or some operation, waits for that answer, or the start returned before it asked (section 5) |
| `exchange` | is a sample lost, is the uplink misnumbered, does success mean that the playback lasted as long as the speech, does a start end? | no, no, yes, yes |
| `stop_cancels` | a document: stop cancels unfinished work | refuted: speech of a stopped session is still sent |
| `running_is_connected` | a document: Running follows connected | refuted: a late old start marks a newer session running |
| `submitted_once` | a document: no passage is submitted to recognition twice | refuted: two cutters and a second flush |
| `audio_is_decoded` | a document: the audio header has its format at the top | refuted: the service nests it, the desktop fails to decode |
| `started_has_voice` | a document: the check before a start finds whether speech is complete | refuted: the pipeline asks Piper for a mock voice's name |

### Bounds, and why they are enough

* `segment_queue`: 4 segments, cap 2, ttl 1, clock 0..3: fresh, exactly old
  and stale items; two refusals and two evictions; the clock may go back.
* `pipeline`: 2 connections that share 1 session id, 2 segments, cap 1, so
  that a second segment is refused or evicts the first while it runs;
  `MaxLives` 2: one restart under the same id; `MaxBurst` 2 segments in one
  frame; the clock before and past the ttl; one load (`MaxLoads` 1), at any
  point of a segment.  Either session may be one that no message can carry.
  `LoadOrRestart` explores a load only with the first session object, and only
  when messages can carry that session: a load changes no more than the
  generation that a segment runs on, and the segments of a session that no
  message can carry get no further than recognition.
* `pipeline_liveness`: the endpoint with 2 connections, one session object and
  a still clock (the runs of the queue and of the pipeline vary those); no
  symmetry, as liveness requires.  One load replaces the energy VAD by Silero,
  before or after the session's first frame; `LoadAlone` leaves out what
  happens after the load once a second connection is open or a segment was
  recognised before it, neither of which has a part in the VAD of the session.
  The desktop's frame is at both limits of the service.  `OddTexts` and
  `OddBlobs` differ from a message of a desktop in one place each, or in a few,
  so that every branch of both handlers is taken.
* `rolling_vad`: 2 sessions, 2 frames, one load; frames that are empty,
  shorter than a chunk (20 ms, as the desktop sends) or longer than the buffer
  keeps, so residuals of each length arise.
* `models`: 2 roles, 2 threads, 3 calls: a load against a load with a reader
  before or after.  `FoundDisks` leads each role to success, to each error and
  to an exception, for one role that looks into its folder and one that does
  not; the proofs hold for any disk and for all four roles.  The pairs of
  languages have each verdict with the mock's voices and with Piper's, and two
  of their codes have space around them.
* `desktop`: 3 overlapping operations, 2 starts: the old and the new start of
  a race, and one more operation that stops or fails.
* `exchange`: 1 or 2 devices (or the mock), 2 frames of 2 samples each,
  chunks of 1 and 3 samples, up to 4 callbacks, 1 segment per frame, room for
  2 messages on the way back, so the service does get blocked.  `UplinkFits`
  is an assumption: a start sends at most 7 messages of about 1 kB, or one
  frame of a second, which a local socket's buffers hold.  With less room
  client and service can wait for each other for ever, since nothing is read
  before everything is sent; `UplinkFits` names that.

`CHECK_DEADLOCK FALSE` is set only where the system stops by itself: an
exchange that has ended, and callers that have made all their calls.

### Fairness

* `pipeline_liveness`: strong fairness for each coroutine once it has a
  message; none for the arrival of one.  asyncio resumes
  coroutines in the order in which their awaits end, so one that can go on is
  not passed over for ever.  Threads and clients get none.
* `desktop`: weak fairness for the progress of each page operation except
  while it awaits a request over HTTP (`AwaitsBackend`): the client sets no
  timeout, so a service that accepts a request may never answer it.
  `StartingResolves` and `ControlsComeBack` say that only this can hold a start
  or the controls.  Commands run in the same process, and captures and
  exchanges have timeouts of their own (run `exchange`).
* `exchange`: weak fairness for the capture loop (its receive has a timeout),
  for the client task and for its timer.  None for the service, the devices
  or the playback thread, which may hang.
* `models`: weak fairness for each thread; constructors return or raise.
  Which waiter gets the lock is open.

## 4. Proofs

TLC checks small instances; these hold for every value of the constants.

**`SegmentQueueProofs`** (any segments, cap, ttl and clock).
`QueueTypeCorrect`, `QueueCapHolds`, `QueueConserves`, `QueueCountersTrack`
and the action properties `QueueNeverRevives` and `QueueRefusesOnlyWhenFull`.
The inductive invariant is `TypeOK /\ CapRespected /\ Conservation /\
CountersTrackItems`, proved together: the guarded decrements keep a counter in
step only while it counts the items, and the lemmas on the cap and on the
counted total need that.
Every operation of `SegmentQueueOps` has one lemma that says which segments it
leaves pending and what it does to the cardinalities and to the counted total.

These lemmas are in `SegmentQueueLemmas`, since the pipeline needs them too.

**`SegmentPipelineProofs`** (any connections, session ids, segments, loads,
bursts and clock).  `PipelineTypeCorrect`, `PipelineSlotsOwned`,
`PipelineOneBundle`, `PipelineNeverSilent`, and `PipelineWireOrder`: the
pipeline implements `SegmentProtocol`, initial state by initial state and step
by step.  `PipelineNeverSilent` also covers a segment that is drawn and given up in
one step, and excepts only the sessions in `misfits`.  The inductive invariant
`IInv` says of each coroutine (`ConnOK`) which
segment it holds, that the segment was drawn and by whom, what its client has
seen of it and which bundles it ran on, given its stage; that no two
coroutines hold one segment (`OneOwner`), that nothing is known of an id that
was not drawn (`Untouched`), and that every queue keeps its counts and its cap
(`QueuesOK`).  The bound `Unclaimed` counts the ids that frames in progress will
still draw; no property needs it.  A step changes one coroutine and touches at
most its own segment, so one lemma (`TaskStep`) carries the invariant over for
all others, and each action has a lemma for its own.  `SlotsOwned` needs the queue lemmas, since an eviction
by one coroutine removes items of another.

**`WsEndpointProofs`** (any texts and frames of clients, any limits).
`EndpointRefinesPipeline`: every step of the endpoint is one of the pipeline or
leaves it unchanged, whatever the message; so `EndpointSafe` carries the
pipeline's theorems over, without a second invariant.
`EndpointServesTheDesktop` follows the frame of a desktop through `HandleBinary`,
`Converts` and the VAD, for any loads and any lengths that keep the limits (`EndpointAssumption`
asks for whole samples and for frames within the limits: 20 ms of 16 kHz mono
are 640 bytes).  `EndpointCodecsAgree` holds of any frame, and is about
`_handle_binary`: channels and rates that the codecs both read and `ingest_pcm`
then cannot convert are `Converts`.

**`DesktopSessionProofs`** (any number of page operations and starts).
`DesktopTypeCorrect`, `DesktopIdMatches`, `DesktopStartOwned`,
`DesktopControls`.  The inductive invariant `IInv` adds `StartsOwnIds`: only a
start reaches the awaits of a start, and a start has drawn an id.  Without it
an accepted start could put the empty id into the machine.  `stranded` is a
history variable: the starts that returned right after `session.start()`.  Steps fall in two
kinds, each with one lemma: those that leave the machine alone (`QuietMove`)
and those that call it (`MachineMove`); the machine's `apply` is unfolded once
per event (`StopApplied`, `ReadyApplied`, ...).  The late end of a start keeps
`StartingIsOwned` because both ends of a start leave no machine in Starting,
its own or another's: the same fact that `running_is_connected` exposes from
its other side.

**`SessionChecksProofs`** (any roles in any order, disks, threads, languages
asked for and voices installed).  `ChecksRefineManager`: beneath the requests of `SessionChecks` the
manager takes steps of `ModelManager!Next` and no other, so what is proved of
`ModelManager` holds under them.  `MockModeHolds`, `LoadReportsTruth` and
`ManagerTypeCorrect` follow from `IInv`, which adds to the two properties that whoever makes providers
holds the lock and has set the mode to its own (`MakesAlone`), and that what it
has made so far is what mode and files give (`MadeAsAsked`).  Without the first
a load that ends in mock mode could install the providers of another.  The code
of a failed load is that of the requested role that comes first in the order of
making; that there is one is `FirstIsOfThem`, by the well-founded order of the
naturals.
`BundlesAreWhole` is proved together with the types: what was made for every
role (`MadeIsBundle`) is either the mocks or what the files give, and only that
becomes the bundle.
`RefusalsHaveReasons` follows from `CheckInv`: what a check found stays true of
what it answered.  It rests on one fact about the tables,
`VoicesAreRegistered`: no synthesiser names a voice whose language the registry
lacks.  That is why a check that never looks at the target's translation still
refuses every target that cannot be translated.

**`RollingVadProofs`** (any sessions, lengths of frames, chunks and buffers,
frames, loads and warmups).  `VadTypeCorrect`, `VadLosesNoSound`, `VadDrains`,
`VadKeepsLittle`, `VadSubmitsSpeech`.  The five invariants speak of the time
between two calls; the inductive invariant says how each comes about within
one.  `SoundHeld`: a loud unit that the slicer was given is in what it still
looks at, in its open segment, in its residual or in a segment it closed; the
provider is not in that list, which is why a reset of it loses nothing.
`RollingsRest` and `ProvidersRest`: only the session and the provider of the
call under way remember more than a residual.  `OldIsShort`: of all that the
call can still hand over (`Reach`), less than a chunk is older than its frame.
A provider reads its residual once, when the push begins, so the set `Reach`
never grows by old units afterwards; that its cardinality stays below a chunk
is the lemmas on `Units`, `UnitsOfAll` and `RangeIsSmall`.  `EverythingVoiced`:
whatever a cutter holds or closed consists of whole loud chunks.  One lemma per
action carries the conjuncts over.  The cutters take one chunk in one step, so
no fold over chunks, and no induction over data, is needed.

**`RealtimeExchangeProofs`** (any numbers of frames, lengths of frames and
chunks, callbacks, rooms, segments and header layouts).  `CaptureGapFree`,
`ExchangeUplinkInOrder`, `ExchangeSuccessIsHeard`, `ExchangeTypeCorrect`, and
`UplinkNeverFull`.  The invariant has two halves.
`CaptureInv` is `GapFree` itself with what it leans on: how many frames each
stream has left (`FramesCounted`), that the frames of a capture under way are
of its stream (`TakenIsHere`), that a capture begins with nothing
(`CaptureBegins`), and the numbers of the last renumbering (`FramesNumbered`).
Its lemmas are about samples: those that follow each other join, and a run of
samples can be cut in two (`SamplesJoin`, `SamplesSplit`).
`ExchangeInv` says where every message of the uplink is: the service has read
and the connection holds a prefix of start and frames, all that was sent as
long as the connection is open (`UplinkKept`); that the service sends no speech
before a translation (`SpeechIsAnnounced`), without which the exchange could
go on after it has played its speech and play another; what is collected and
played at each point (`PlaybackFits`); and that nothing happens at all while
audio is recorded (`BeginsQuiet`), which lets a step of one half leave the other
alone.  `UplinkNeverFull` is what `UplinkFits` buys: the client never waits for
room, so it and the service never wait for each other.

Assumptions used are the named ones of each module (`SegmentsAssumption`,
`MaxPendingAssumption`, `TtlAssumption`, `ClockAssumption`,
`DesktopAssumption`, `ModelAssumption`, `ChecksAssumption`,
`PipelineAssumption`, `FrameAssumption`, `EndpointAssumption`,
`BlobsAssumption`, `VadAssumption`, `CaptureAssumption`, `ExchangeAssumption`,
and, for `UplinkNeverFull` alone, `UplinkFits`), which TLC evaluates.
`MaxStarts`, `MaxCalls`, `MaxLives`, `MaxLoads`, `MaxBurst`, `MaxFrames`,
`MaxChunks` and `MaxSegments` bound the models for TLC; the proofs hold for any
value of them.

**Only model-checked:** liveness (`RequestEnds`, `StartingResolves`,
`ControlsComeBack`, `StartEnds`, `CallsEnd`), since fairness and ENABLED are out
of the prover's reach.  Every safety invariant and every action property of the
passing runs is a theorem.

## 5. Differences between code and documents that no run shows

* `protocol.md` says sequence numbers grow per connection: `status.update`
  counts per session, the orchestrator counts globally, request errors say 0.
* `segment_queue.py` evicts by queue time and so also removes running items,
  whose speech still goes out later.
* A frame whose session is stopped between the two look-ups of `ingest_pcm`
  raises `KeyError` and closes the connection with all sessions on it;
  `protocol.md` has `SESSION_NOT_FOUND` for it.
* The service keeps the RollingVad and the queue of a stopped session: the
  orchestrator's `stop_session` has no caller.
* The desktop's stop does not reach the service.
* The desktop's load names no mode, which is the mode "mock": no model file is
  looked at, whatever paths the page validated.  A load of some roles replaces
  the providers of all roles.
* A load that names a role twice compares how many roles failed with how many
  names it was given: it succeeds with nothing loaded.
* `nllb_provider.py:25` imports two classes of `transformers` as modules, which
  raises whatever is installed: the translator of the real mode never loads,
  with the code `MODEL_LOAD_FAILED`.
* `PiperTtsProvider` takes a folder of voices; the example of `api.md:905` gives
  the path of one `.onnx` file, which is answered with `MODEL_FILE_MISSING`.
* `language.py` says `session.start` is validated by `chain_check`: only the
  HTTP start is, the message on the WebSocket is not.
* The desktop's segment ids do not survive: the service draws new ones.
* On the socket a text that is JSON but no object, a start without languages
  or with an id in use, and a frame without a session id raise out of the
  handler and close the connection with all sessions on it; `protocol.md`
  answers invalid requests with an error.
* A start on the socket with a direction, a stream or languages that no message
  can carry is accepted and answered with "running"; its first segment closes
  the connection, and neither a message nor an error is sent.
* Half a sample at the end of a frame, an inference of Silero that fails, and a
  session stopped between the two look-ups of a frame close the connection as
  well, without an error.
* A start without a session id registers a drawn id but answers "unknown", so
  no client can stop that session.
* Samples of two channels are averaged to floating point before the range is
  looked at, and then clipped to one and scaled: they saturate.  A rate of
  8 kHz or less is resampled by a factor of 0, which raises; a rate that is no
  multiple of 16 kHz is resampled by the nearest whole factor.  The desktop
  sends mono at 16 kHz.
* `encode_binary_frame` of the desktop looks at no limit of its reader.
* Speech is played on output and virtual microphone for both directions.
* After a timeout or a stop the playback thread plays on.  While it plays, the
  errors of the output stream are dropped and the thread sleeps for the length
  of the speech, so a device that dies while playing passes for one that played.
* `start_session` and `start_audio_session` return the error of the config copy
  or of the first announcement without `mark_session_failed`: the session stays
  in Starting, and the next start is refused, until the user stops it.
* A real load that raises half way keeps the mode "real" over the providers
  that were there before, mocks included (`MockModeIsMock` is the other
  direction).
* The chain check strips the codes it is given, the HTTP start registers them
  unstripped: a session with space around a code passes the check and then asks
  recognition, translation and `_voice_for` for a code they do not know.
* The verdict on a chain is about the bundle that was read: a load between the
  check and the start, or after it, is not looked at.
* `list_models` takes no lock and may mix two bundles.

## 6. Plan

Done, in this order: queue, pipeline with the abstract protocol, desktop,
rolling VAD, capture and exchange, model manager with the language check,
codecs and endpoint, proofs of the pipeline and of the endpoint, proofs of the
rolling VAD and of capture and exchange.

Next:

1. **What the page shows**: answers and events that arrive in any order after
   the machine has moved on; the merge of runtime configuration by overlapping
   prechecks and saves.
2. **Composition** of desktop and service: a start's exchange against
   `WsEndpoint` itself in place of the peer of `RealtimeExchange`.
3. **Proofs** of what these add.

## 7. Not modelled

* The numbers of downlink messages: nothing reads them, and what the code
  does (section 5) is plain from its lines.
* `flush`, `stop_session` and `evict_expired` of the orchestrator, `release` of
  the model manager, `drop_session` of the queues: nothing calls them.
* Inference: a call returns something, nothing, or raises.
* Conversion of rates and formats beyond whether it raises.
* Fields of a message that have the wrong JSON type, an id that is no string or
  a rate that is no number: they end in one of the exceptions that are modelled.
* Configuration, metrics, the error envelope, labels and layout, the runner
  and the scripts: values read once, display, or tools outside the service.
