--------------------------- MODULE DesktopSession ---------------------------
(***************************************************************************)
(* The desktop application: what the page does on a click                  *)
(* (apps/desktop/src/main.ts) and the Tauri commands behind it             *)
(* (apps/desktop/src-tauri/src/lib.rs) over the shared session machine.    *)
(*                                                                         *)
(* An operation of the page is a promise chain.  It disables every control *)
(* when it begins and enables every control when it ends, whatever other   *)
(* operations are still pending; initialize() is one from the beginning,   *)
(* and its first await leaves the controls enabled.  A start command is    *)
(* asynchronous: it releases the mutex of the machine while it waits for   *)
(* the health check, the capture and the exchange with the backend.        *)
(***************************************************************************)
EXTENDS SessionMachine, FiniteSets

CONSTANTS
    Ops,         \* operations of the page that can be pending together
    Boot,        \* the one that runs initialize() first
    MaxStarts    \* bound: clicks on the two start buttons

ASSUME DesktopAssumption == Boot \in Ops /\ IsFiniteSet(Ops) /\ MaxStarts \in Nat

VARIABLES
    machine,     \* AppState.session
    op,          \* per operation: what was asked and how far it is
    disabled,    \* the controls are disabled
    clicks,      \* clicks on a start button so far
    connected,   \* history: sessions whose own start reached the backend
    stranded     \* history: sessions whose own start returned early, after the
                 \* machine had been started

vars == <<machine, op, disabled, clicks, connected, stranded>>

Kinds == {"initialize", "read", "start", "audioStart", "pause", "resume", "stop"}

Steps ==
    {"none",       \* no operation
     "loading",    \* initialize: get_config, the controls enabled
     "reading",    \* a command that leaves the session alone
     "listing",    \* initialize: get_audio_devices
     "precheck",   \* precheck_runtime_config
     "invoked",    \* the command is sent, not yet executed
     "health",     \* a start: awaiting the health check
     "capture",    \* a start: awaiting the audio frames
     "exchange",   \* a start: awaiting the exchange over the WebSocket
     "answered"}   \* the answer is on its way to the page

NoOp == [kind |-> "read", step |-> "none", id |-> NoId]

Init ==
    /\ machine = Default
    /\ op = [o \in Ops |-> IF o = Boot THEN [NoOp EXCEPT !.kind = "initialize", !.step = "loading"]
                                       ELSE NoOp]
    /\ disabled = FALSE
    /\ clicks = 0
    /\ connected = {}
    /\ stranded = {}

-----------------------------------------------------------------------------
\* The page.

At(o, step) == op[o].step = step

Goes(o, step) == op' = [op EXCEPT ![o].step = step]

\* A button that prechecks, reads the status, lists devices, saves or recovers.
ClickRead(o) ==
    /\ ~disabled
    /\ At(o, "none")
    /\ op' = [op EXCEPT ![o] = [kind |-> "read", step |-> "reading", id |-> NoId]]
    /\ disabled' = TRUE
    /\ UNCHANGED <<machine, clicks, connected, stranded>>

ClickCommand(o, kind) ==
    /\ ~disabled
    /\ At(o, "none")
    /\ op' = [op EXCEPT ![o] = [kind |-> kind, step |-> "invoked", id |-> NoId]]
    /\ disabled' = TRUE
    /\ UNCHANGED <<machine, clicks, connected, stranded>>

\* startCheckedSession(): no local blocker, so the backend is prechecked.
ClickStart(o, kind) ==
    /\ ~disabled
    /\ At(o, "none")
    /\ clicks < MaxStarts
    /\ clicks' = clicks + 1
    /\ op' = [op EXCEPT ![o] = [kind |-> kind, step |-> "precheck", id |-> clicks + 1]]
    /\ disabled' = TRUE
    /\ UNCHANGED <<machine, connected, stranded>>

\* loadConfig() has ended, well or badly: refreshStatus().
ConfigLoaded(o) ==
    /\ At(o, "loading")
    /\ Goes(o, "reading")
    /\ disabled' = TRUE
    /\ UNCHANGED <<machine, clicks, connected, stranded>>

\* refreshStatus() of initialize() has ended: refreshAudioDevices().
StatusRefreshed(o) ==
    /\ At(o, "reading")
    /\ op[o].kind = "initialize"
    /\ Goes(o, "listing")
    /\ disabled' = TRUE
    /\ UNCHANGED <<machine, clicks, connected, stranded>>

\* Mutant of PrecheckEnds: a failed precheck does not reach the finally block.
PrecheckEndsDisabled(o) ==
    /\ At(o, "precheck")
    /\ \/ Goes(o, "invoked")
       \/ Goes(o, "none")
    /\ disabled' = TRUE
    /\ UNCHANGED <<machine, clicks, connected, stranded>>

\* The models are loaded, and the start command follows at once; or they are
\* not, and the operation is over.
PrecheckEnds(o) ==
    /\ At(o, "precheck")
    /\ \/ Goes(o, "invoked") /\ disabled' = TRUE
       \/ Goes(o, "none") /\ disabled' = FALSE
    /\ UNCHANGED <<machine, clicks, connected, stranded>>

\* Mutant of Finally: the answer of an operation leaves the controls alone.
FinallyLeaves(o) ==
    /\ \/ At(o, "answered")
       \/ At(o, "listing")
       \/ At(o, "reading") /\ op[o].kind = "read"
    /\ Goes(o, "none")
    /\ UNCHANGED <<machine, disabled, clicks, connected, stranded>>

\* The answer reaches the page: setControlsDisabled(false).
Finally(o) ==
    /\ \/ At(o, "answered")
       \/ At(o, "listing")
       \/ At(o, "reading") /\ op[o].kind = "read"
    /\ Goes(o, "none")
    /\ disabled' = FALSE
    /\ UNCHANGED <<machine, clicks, connected, stranded>>

-----------------------------------------------------------------------------
\* The Tauri commands.

\* pause_session, resume_session, stop_session: one call of the machine.
CommandRuns(o, kind, event) ==
    /\ At(o, "invoked")
    /\ op[o].kind = kind
    /\ machine' = Apply(machine, event, NoId)
    /\ Goes(o, "answered")
    /\ UNCHANGED <<disabled, clicks, connected, stranded>>

\* The first critical section of start_session and start_audio_session, from
\* a state that can start.
MachineStarts(o) ==
    /\ At(o, "invoked")
    /\ op[o].kind \in {"start", "audioStart"}
    /\ machine.state \in {"Idle", "Stopped", "Error"}
    /\ machine' = ResetAndStart(machine, op[o].id)
    /\ UNCHANGED <<disabled, clicks, connected>>

\* It is announced to the page, and the health check is awaited.
StartAccepted(o) ==
    /\ MachineStarts(o)
    /\ Goes(o, "health")
    /\ UNCHANGED stranded

\* The copy of the config or the announcement fails: the command answers Err
\* at once, and the machine stays as session.start() left it.
StartUnannounced(o) ==
    /\ MachineStarts(o)
    /\ Goes(o, "answered")
    /\ stranded' = stranded \cup {op[o].id}

\* It answers InvalidTransition; or the runtime config of start_audio_session
\* is refused before the machine is touched.
StartRefused(o) ==
    /\ At(o, "invoked")
    /\ op[o].kind \in {"start", "audioStart"}
    /\ machine.state \in {"Starting", "Running", "Paused"} \/ op[o].kind = "audioStart"
    /\ Goes(o, "answered")
    /\ UNCHANGED <<machine, disabled, clicks, connected, stranded>>

HealthOk(o) ==
    /\ At(o, "health")
    /\ Goes(o, IF op[o].kind = "audioStart" THEN "capture" ELSE "exchange")
    /\ UNCHANGED <<machine, disabled, clicks, connected, stranded>>

Captured(o) ==
    /\ At(o, "capture")
    /\ Goes(o, "exchange")
    /\ UNCHANGED <<machine, disabled, clicks, connected, stranded>>

\* Mutant of StartFails: a failed capture returns without mark_session_failed.
StartFailsSilently(o) ==
    /\ op[o].step \in {"health", "capture", "exchange"}
    /\ machine' = IF At(o, "capture") THEN machine ELSE Failed
    /\ Goes(o, "answered")
    /\ UNCHANGED <<disabled, clicks, connected, stranded>>

\* The health check, the capture or the exchange fails: mark_session_failed
\* on the machine as it is now, whichever session it holds.
StartFails(o) ==
    /\ op[o].step \in {"health", "capture", "exchange"}
    /\ machine' = Failed
    /\ Goes(o, "answered")
    /\ UNCHANGED <<disabled, clicks, connected, stranded>>

\* Mutant of StartSucceeds: it reports the session that the machine holds now.
StartSucceedsForAnother(o) ==
    /\ At(o, "exchange")
    /\ connected' = connected \cup {machine.id}
    /\ machine' = Apply(machine, "BackendReady", NoId)
    /\ Goes(o, "answered")
    /\ UNCHANGED <<disabled, clicks, stranded>>

\* The exchange succeeds: mark_session_running on the machine as it is now.
StartSucceeds(o) ==
    /\ At(o, "exchange")
    /\ connected' = connected \cup {op[o].id}
    /\ machine' = Apply(machine, "BackendReady", NoId)
    /\ Goes(o, "answered")
    /\ UNCHANGED <<disabled, clicks, stranded>>

-----------------------------------------------------------------------------
Click(o) ==
    \/ ClickRead(o)
    \/ \E kind \in {"pause", "resume", "stop"} : ClickCommand(o, kind)
    \/ \E kind \in {"start", "audioStart"} : ClickStart(o, kind)

Progress(o) ==
    \/ ConfigLoaded(o) \/ StatusRefreshed(o) \/ PrecheckEnds(o) \/ Finally(o)
    \/ CommandRuns(o, "pause", "PauseRequested")
    \/ CommandRuns(o, "resume", "ResumeRequested")
    \/ CommandRuns(o, "stop", "StopRequested")
    \/ StartAccepted(o) \/ StartUnannounced(o) \/ StartRefused(o)
    \/ HealthOk(o) \/ Captured(o) \/ StartFails(o) \/ StartSucceeds(o)

Next == \E o \in Ops : Click(o) \/ Progress(o)

Spec == Init /\ [][Next]_vars

\* Requests over HTTP, which have no timeout: the status, the load of the
\* models, the health check.
AwaitsBackend(o) == op[o].step \in {"reading", "precheck", "health"}

\* Commands run and answer, and captures and exchanges end, which have timeouts
\* of their own; a backend that accepts a request may never answer it.
FairSpec == Spec /\ \A o \in Ops : WF_vars(~AwaitsBackend(o) /\ Progress(o))

-----------------------------------------------------------------------------
TypeOK ==
    /\ machine \in Machines
    /\ op \in [Ops -> [kind : Kinds, step : Steps, id : 0..MaxStarts]]
    /\ disabled \in BOOLEAN
    /\ clicks \in 0..MaxStarts
    /\ connected \subseteq 1..MaxStarts
    /\ stranded \subseteq 1..MaxStarts

\* There is a current session id exactly while a session is starting, running
\* or paused, and an error code exactly in Error: no order of stops, failures,
\* late answers and restarts leaves the id of a session that is gone.
IdMatchesState ==
    /\ machine.id # NoId <=> machine.state \in {"Starting", "Running", "Paused"}
    /\ machine.error <=> machine.state = "Error"

\* The id of a machine that is starting belongs to a start command still under
\* way, which will end the starting, or to one that returned before it awaited
\* anything.  However starts and stops overlap, the late end of one command
\* never leaves the session of another in Starting with nobody to end it.
StartingIsOwned ==
    machine.state = "Starting" =>
        \/ machine.id \in stranded
        \/ \E o \in Ops : /\ op[o].step \in {"health", "capture", "exchange"}
                          /\ op[o].id = machine.id

\* The controls are never left disabled once every operation has ended.
ControlsNeverStuck == disabled => \E o \in Ops : op[o].step \notin {"none", "loading"}

\* A session stays in Starting only if its own start waits for an answer to
\* its health check that never comes, or returned before the health check:
\* any other start ends it, well or badly.
StartingResolves ==
    (machine.state = "Starting") ~>
        \/ machine.state # "Starting"
        \/ machine.id \in stranded
        \/ \E o \in Ops : [](At(o, "health") /\ op[o].id = machine.id)

\* Whatever the user clicks and however operations overlap, the controls come
\* back, unless the backend leaves some request unanswered for ever.
ControlsComeBack == []<>~disabled \/ \E o \in Ops : <>[]AwaitsBackend(o)

-----------------------------------------------------------------------------
\* What documents say; the runs refute them.

\* docs/technical-solution.md: a session runs once it is connected and the
\* models are ready.  So a running session has reached the backend itself.
RunningIsConnected == machine.state \in {"Running", "Paused"} => machine.id \in connected
=============================================================================
