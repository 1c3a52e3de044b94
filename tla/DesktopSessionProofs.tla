------------------------ MODULE DesktopSessionProofs ------------------------
(***************************************************************************)
(* What is proved of the desktop, for any number of overlapping operations *)
(* and any bound on clicks.  The four invariants of DesktopSession are     *)
(* inductive once two facts are added: which steps only a start command    *)
(* takes, and that a start command has drawn an id.                        *)
(***************************************************************************)
EXTENDS DesktopSession, TLAPS

StartKinds == {"start", "audioStart"}
Awaits == {"health", "capture", "exchange"}

\* Only a start awaits the backend, and its id is not the empty one.
StartsOwnIds ==
    \A o \in Ops : /\ op[o].step \in Awaits \cup {"precheck"} => op[o].kind \in StartKinds
                   /\ op[o].kind \in StartKinds => op[o].id # NoId

IInv == TypeOK /\ IdMatchesState /\ StartsOwnIds /\ StartingIsOwned /\ ControlsNeverStuck

OpRecords == [kind : Kinds, step : Steps, id : 0..MaxStarts]

-----------------------------------------------------------------------------
\* The machine, one event at a time.

\* A stop ends whatever is under way and clears the id, and nothing else.
LEMMA StopApplied ==
    ASSUME NEW m \in Machines
    PROVE  Apply(m, "StopRequested", NoId) =
             IF m.state \in {"Starting", "Running", "Paused"}
             THEN [m EXCEPT !.state = "Stopped", !.id = NoId] ELSE m
  BY DEF Apply, Accepts, Accepting

\* A pause turns a running session into a paused one, and nothing else.
LEMMA PauseApplied ==
    ASSUME NEW m \in Machines
    PROVE  Apply(m, "PauseRequested", NoId) =
             IF m.state = "Running" THEN [m EXCEPT !.state = "Paused"] ELSE m
  BY DEF Apply, Accepts, Accepting

\* A resume turns a paused session into a running one, and nothing else.
LEMMA ResumeApplied ==
    ASSUME NEW m \in Machines
    PROVE  Apply(m, "ResumeRequested", NoId) =
             IF m.state = "Paused" THEN [m EXCEPT !.state = "Running"] ELSE m
  BY DEF Apply, Accepts, Accepting

\* The end of a start makes a starting session run, and leaves any other alone.
LEMMA ReadyApplied ==
    ASSUME NEW m \in Machines
    PROVE  Apply(m, "BackendReady", NoId) =
             IF m.state = "Starting" THEN [m EXCEPT !.state = "Running"] ELSE m
  BY DEF Apply, Accepts, Accepting

\* A start from a state that can start, Error included, gives a fresh session.
LEMMA StartApplied ==
    \A m \in Machines, id \in Nat :
        m.state \in {"Idle", "Stopped", "Error"} =>
            ResetAndStart(m, id) = [state |-> "Starting", id |-> id, error |-> FALSE]
  BY DEF ResetAndStart, Apply, Accepts, Accepting

-----------------------------------------------------------------------------
\* One step preserves IInv.

LEMMA InitIInv == Init => IInv
  <1>. SUFFICES ASSUME Init PROVE IInv
    OBVIOUS
  <1>1. machine \in Machines
    BY DEF Init, Default, Machines, States, NoId
  <1>2. op \in [Ops -> OpRecords]
    <2>. DEFINE boot == [NoOp EXCEPT !.kind = "initialize", !.step = "loading"]
    <2>0. 0 \in 0..MaxStarts
      BY DesktopAssumption
    <2>1. NoOp \in OpRecords /\ boot \in OpRecords
      <3>1. NoOp \in OpRecords
        BY <2>0 DEF NoOp, OpRecords, Kinds, Steps, NoId
      <3>2. "initialize" \in Kinds /\ "loading" \in Steps
        BY DEF Kinds, Steps
      <3>. QED
        BY <3>1, <3>2 DEF OpRecords
    <2>2. op = [o \in Ops |-> IF o = Boot THEN boot ELSE NoOp]
      BY DEF Init
    <2>. HIDE DEF boot
    <2>. QED
      BY <2>1, <2>2
  <1>3. TypeOK
    <2>0. disabled = FALSE /\ clicks = 0 /\ connected = {} /\ stranded = {}
      BY Zenon DEF Init
    <2>1. 0 \in 0..MaxStarts /\ {} \subseteq 1..MaxStarts
      BY DesktopAssumption
    <2>2. /\ disabled \in BOOLEAN /\ clicks \in 0..MaxStarts
          /\ connected \subseteq 1..MaxStarts /\ stranded \subseteq 1..MaxStarts
      BY <2>0, <2>1
    <2>. QED
      BY <1>1, <1>2, <2>2 DEF TypeOK, OpRecords
  <1>4. StartsOwnIds
    BY DEF Init, NoOp, StartsOwnIds, StartKinds, Awaits, NoId
  <1>. QED
    BY <1>3, <1>4 DEF Init, IInv, IdMatchesState, StartingIsOwned, ControlsNeverStuck, Default, NoId

\* Going to a step replaces one record by one with another step.
LEMMA GoesMoves ==
    ASSUME TypeOK, NEW o \in Ops, NEW s \in Steps, Goes(o, s)
    PROVE  \E r \in OpRecords : /\ op' = [op EXCEPT ![o] = r]
                                /\ r.step = s /\ r.kind = op[o].kind /\ r.id = op[o].id
  <1>. DEFINE r == [op[o] EXCEPT !.step = s]
  <1>1. op[o] \in OpRecords
    BY DEF TypeOK, OpRecords
  <1>2. r \in OpRecords /\ r.step = s /\ r.kind = op[o].kind /\ r.id = op[o].id
    BY <1>1 DEF OpRecords
  <1>3. op' = [op EXCEPT ![o] = r]
    BY DEF Goes
  <1>. HIDE DEF r
  <1>. QED
    BY <1>2, <1>3

\* A replaced record keeps the types of op and the facts about starts.
LEMMA MoveKeepsOps ==
    ASSUME TypeOK, StartsOwnIds, NEW o \in Ops, NEW r \in OpRecords,
           op' = [op EXCEPT ![o] = r],
           r.step \in Awaits \cup {"precheck"} => r.kind \in StartKinds,
           r.kind \in StartKinds => r.id # NoId
    PROVE  /\ op' \in [Ops -> OpRecords]
           /\ StartsOwnIds'
  <1>1. op \in [Ops -> OpRecords]
    BY DEF TypeOK, OpRecords
  <1>2. op' \in [Ops -> OpRecords]
    BY <1>1
  <1>3. op'[o] = r /\ \A p \in Ops \ {o} : op'[p] = op[p]
    BY <1>1
  <1>4. StartsOwnIds'
    BY <1>3 DEF StartsOwnIds
  <1>. QED
    BY <1>2, <1>4

\* An operation that is under way afterwards accounts for disabled controls.
LEMMA MoveKeepsControls ==
    ASSUME TypeOK, NEW o \in Ops, NEW r \in OpRecords,
           op' = [op EXCEPT ![o] = r],
           disabled' = FALSE \/ r.step \notin {"none", "loading"}
    PROVE  ControlsNeverStuck'
  <1>1. op'[o] = r
    BY DEF TypeOK
  <1>. QED
    BY <1>1 DEF ControlsNeverStuck

\* While the machine is left alone, an owner that goes on awaiting stays one.
LEMMA MoveKeepsOwner ==
    ASSUME TypeOK, StartingIsOwned, UNCHANGED <<machine, stranded>>, NEW o \in Ops, NEW r \in OpRecords,
           op' = [op EXCEPT ![o] = r],
           op[o].step \in Awaits => r.step \in Awaits /\ r.id = op[o].id
    PROVE  StartingIsOwned'
  <1>1. op'[o] = r /\ \A p \in Ops \ {o} : op'[p] = op[p]
    BY DEF TypeOK
  <1>2. SUFFICES ASSUME machine.state = "Starting", machine.id \notin stranded
                 PROVE  \E p \in Ops : op'[p].step \in Awaits /\ op'[p].id = machine.id
    BY DEF StartingIsOwned, Awaits
  <1>3. PICK p \in Ops : op[p].step \in Awaits /\ op[p].id = machine.id
    BY <1>2 DEF StartingIsOwned, Awaits
  <1>. QED
    BY <1>1, <1>3

\* A step that leaves the machine alone and moves one operation on.
LEMMA QuietMove ==
    ASSUME IInv, NEW o \in Ops, NEW r \in OpRecords,
           op' = [op EXCEPT ![o] = r],
           UNCHANGED <<machine, connected, stranded>>,
           clicks' \in 0..MaxStarts, disabled' \in BOOLEAN,
           disabled' = FALSE \/ r.step \notin {"none", "loading"},
           r.step \in Awaits \cup {"precheck"} => r.kind \in StartKinds,
           r.kind \in StartKinds => r.id # NoId,
           op[o].step \in Awaits => r.step \in Awaits /\ r.id = op[o].id
    PROVE  IInv'
  <1>1. op' \in [Ops -> OpRecords] /\ StartsOwnIds'
    BY MoveKeepsOps DEF IInv
  <1>2. ControlsNeverStuck'
    BY MoveKeepsControls DEF IInv
  <1>3. StartingIsOwned'
    BY MoveKeepsOwner DEF IInv
  <1>4. TypeOK'
    BY <1>1 DEF IInv, TypeOK, OpRecords
  <1>5. IdMatchesState'
    BY DEF IInv, IdMatchesState
  <1>. QED
    BY <1>1, <1>2, <1>3, <1>4, <1>5 DEF IInv

\* A step that calls the machine and moves the calling operation on; if the
\* machine is starting afterwards, somebody owns the start.
LEMMA MachineMove ==
    ASSUME IInv, NEW o \in Ops, NEW s \in Steps \ {"none", "loading", "precheck"}, Goes(o, s),
           s \in Awaits => op[o].kind \in StartKinds,
           UNCHANGED <<clicks, disabled>>,
           connected' \subseteq 1..MaxStarts, stranded' \subseteq 1..MaxStarts,
           machine' \in Machines, IdMatchesState', StartingIsOwned'
    PROVE  IInv'
  <1>1. PICK r \in OpRecords : /\ op' = [op EXCEPT ![o] = r]
                               /\ r.step = s /\ r.kind = op[o].kind /\ r.id = op[o].id
    BY GoesMoves DEF IInv
  <1>2. r.kind \in StartKinds => r.id # NoId
    BY <1>1 DEF IInv, StartsOwnIds
  <1>3. op' \in [Ops -> OpRecords] /\ StartsOwnIds'
    BY <1>1, <1>2, MoveKeepsOps DEF IInv
  <1>4. ControlsNeverStuck'
    BY <1>1, MoveKeepsControls DEF IInv
  <1>5. TypeOK'
    BY <1>3 DEF IInv, TypeOK, OpRecords
  <1>. QED
    BY <1>3, <1>4, <1>5 DEF IInv

-----------------------------------------------------------------------------
\* The actions.

\* A click begins an operation; only the start buttons draw an id.
LEMMA ClickKeeps ==
    ASSUME IInv, NEW o \in Ops, Click(o)
    PROVE  IInv'
  <1>1. op \in [Ops -> OpRecords] /\ clicks \in 0..MaxStarts
    BY DEF IInv, TypeOK, OpRecords
  <1>2. CASE ClickRead(o)
    <2>. DEFINE r == [kind |-> "read", step |-> "reading", id |-> NoId]
    <2>1. r \in OpRecords
      BY DesktopAssumption DEF OpRecords, Kinds, Steps, NoId
    <2>. QED
      BY <1>1, <1>2, <2>1, QuietMove DEF ClickRead, At, Awaits, StartKinds
  <1>3. CASE \E kind \in {"pause", "resume", "stop"} : ClickCommand(o, kind)
    <2>1. PICK kind \in {"pause", "resume", "stop"} : ClickCommand(o, kind)
      BY <1>3
    <2>. DEFINE r == [kind |-> kind, step |-> "invoked", id |-> NoId]
    <2>2. r \in OpRecords
      BY DesktopAssumption DEF OpRecords, Kinds, Steps, NoId
    <2>. QED
      BY <1>1, <2>1, <2>2, QuietMove DEF ClickCommand, At, Awaits, StartKinds
  <1>4. CASE \E kind \in {"start", "audioStart"} : ClickStart(o, kind)
    <2>1. PICK kind \in {"start", "audioStart"} : ClickStart(o, kind)
      BY <1>4
    <2>. DEFINE r == [kind |-> kind, step |-> "precheck", id |-> clicks + 1]
    <2>2. r \in OpRecords
      BY <1>1, <2>1, DesktopAssumption DEF ClickStart, OpRecords, Kinds, Steps
    <2>3. clicks' \in 0..MaxStarts /\ clicks + 1 # NoId
      BY <1>1, <2>1, DesktopAssumption DEF ClickStart, NoId
    <2>. QED
      BY <1>1, <2>1, <2>2, <2>3, QuietMove DEF ClickStart, At, Awaits, StartKinds
  <1>. QED
    BY <1>2, <1>3, <1>4 DEF Click

\* A step of an operation that leaves the machine alone.
LEMMA QuietGoes ==
    ASSUME IInv, NEW o \in Ops, NEW s \in Steps, Goes(o, s),
           UNCHANGED <<machine, clicks, connected, stranded>>,
           disabled' \in BOOLEAN,
           disabled' = FALSE \/ s \notin {"none", "loading"},
           s \in Awaits \cup {"precheck"} => op[o].kind \in StartKinds,
           op[o].step \in Awaits => s \in Awaits
    PROVE  IInv'
  <1>1. PICK r \in OpRecords : /\ op' = [op EXCEPT ![o] = r]
                               /\ r.step = s /\ r.kind = op[o].kind /\ r.id = op[o].id
    BY GoesMoves DEF IInv
  <1>2. r.kind \in StartKinds => r.id # NoId
    BY <1>1 DEF IInv, StartsOwnIds
  <1>3. clicks' \in 0..MaxStarts
    BY DEF IInv, TypeOK
  <1>. QED
    BY <1>1, <1>2, <1>3, QuietMove

\* The steps of the page and the awaits of a start that succeed.
LEMMA QuietProgressKeeps ==
    ASSUME IInv, NEW o \in Ops,
           \/ ConfigLoaded(o) \/ StatusRefreshed(o) \/ PrecheckEnds(o) \/ Finally(o)
           \/ StartRefused(o) \/ HealthOk(o) \/ Captured(o)
    PROVE  IInv'
  <1>0. disabled \in BOOLEAN
    BY DEF IInv, TypeOK
  <1>1. CASE ConfigLoaded(o)
    BY <1>1, QuietGoes DEF ConfigLoaded, At, Steps, Awaits
  <1>2. CASE StatusRefreshed(o)
    BY <1>2, QuietGoes DEF StatusRefreshed, At, Steps, Awaits
  <1>3. CASE PrecheckEnds(o)
    BY <1>3, QuietGoes DEF PrecheckEnds, At, Steps, Awaits
  <1>4. CASE Finally(o)
    BY <1>4, QuietGoes DEF Finally, At, Steps, Awaits
  <1>5. CASE StartRefused(o)
    BY <1>0, <1>5, QuietGoes DEF StartRefused, At, Steps, Awaits
  <1>6. CASE HealthOk(o)
    <2>1. op[o].kind \in StartKinds
      BY <1>6 DEF HealthOk, At, IInv, StartsOwnIds, Awaits
    <2>2. PICK s \in {"capture", "exchange"} : Goes(o, s)
      BY <1>6 DEF HealthOk
    <2>. QED
      BY <1>0, <1>6, <2>1, <2>2, QuietGoes DEF HealthOk, Steps, Awaits
  <1>7. CASE Captured(o)
    <2>1. op[o].kind \in StartKinds
      BY <1>7 DEF Captured, At, IInv, StartsOwnIds, Awaits
    <2>. QED
      BY <1>0, <1>7, <2>1, QuietGoes DEF Captured, Steps, Awaits
  <1>. QED
    BY <1>1, <1>2, <1>3, <1>4, <1>5, <1>6, <1>7

\* pause, resume and stop never begin a session, so no owner is asked for
\* unless it was there before; and the calling operation is no start.
LEMMA CommandKeeps ==
    ASSUME IInv, NEW o \in Ops,
           \/ CommandRuns(o, "pause", "PauseRequested")
           \/ CommandRuns(o, "resume", "ResumeRequested")
           \/ CommandRuns(o, "stop", "StopRequested")
    PROVE  IInv'
  <1>1. machine \in Machines /\ IdMatchesState /\ TypeOK /\ StartingIsOwned
    BY DEF IInv, TypeOK
  <1>2. /\ At(o, "invoked") /\ Goes(o, "answered")
        /\ UNCHANGED <<disabled, clicks, connected, stranded>>
    BY DEF CommandRuns
  <1>3. \/ machine' = machine
        \/ machine.state = "Running" /\ machine' = [machine EXCEPT !.state = "Paused"]
        \/ machine.state = "Paused" /\ machine' = [machine EXCEPT !.state = "Running"]
        \/ /\ machine.state \in {"Starting", "Running", "Paused"}
           /\ machine' = [machine EXCEPT !.state = "Stopped", !.id = NoId]
    BY <1>1, PauseApplied, ResumeApplied, StopApplied DEF CommandRuns
  <1>4. machine' \in Machines /\ IdMatchesState'
    <2>1. CASE machine' = machine
      BY <1>1, <2>1 DEF IdMatchesState
    <2>2. CASE machine.state = "Running" /\ machine' = [machine EXCEPT !.state = "Paused"]
      BY <1>1, <2>2 DEF Machines, States, IdMatchesState, NoId
    <2>3. CASE machine.state = "Paused" /\ machine' = [machine EXCEPT !.state = "Running"]
      BY <1>1, <2>3 DEF Machines, States, IdMatchesState, NoId
    <2>4. CASE /\ machine.state \in {"Starting", "Running", "Paused"}
               /\ machine' = [machine EXCEPT !.state = "Stopped", !.id = NoId]
      <3>1. machine.error = FALSE
        BY <1>1, <2>4 DEF Machines, IdMatchesState
      <3>2. machine'.state = "Stopped" /\ machine'.id = NoId /\ machine'.error = FALSE
        BY <1>1, <2>4, <3>1 DEF Machines, NoId
      <3>3. machine' \in Machines
        BY <1>1, <2>4 DEF Machines, States, NoId
      <3>. QED
        BY <3>2, <3>3 DEF IdMatchesState, NoId
    <2>. QED
      BY <1>3, <2>1, <2>2, <2>3, <2>4
  <1>5. machine'.state = "Starting" => machine' = machine
    BY <1>1, <1>3 DEF Machines
  <1>6. StartingIsOwned'
    <2>1. PICK r \in OpRecords : op' = [op EXCEPT ![o] = r] /\ r.step = "answered"
      BY <1>1, <1>2, GoesMoves DEF Steps
    <2>2. CASE machine' = machine
      BY <1>1, <1>2, <2>1, <2>2, MoveKeepsOwner DEF At, Awaits
    <2>3. CASE machine'.state # "Starting"
      BY <2>3 DEF StartingIsOwned
    <2>. QED
      BY <1>5, <2>2, <2>3
  <1>7. connected' \subseteq 1..MaxStarts /\ stranded' \subseteq 1..MaxStarts
    BY <1>1, <1>2 DEF TypeOK
  <1>. QED
    BY <1>2, <1>4, <1>6, <1>7, MachineMove DEF Steps, Awaits

\* A start that is accepted owns the fresh session; one that returns before it
\* awaits anything is recorded as having stranded it.
LEMMA AcceptedKeeps ==
    ASSUME IInv, NEW o \in Ops, StartAccepted(o) \/ StartUnannounced(o)
    PROVE  IInv'
  <1>1. machine \in Machines /\ TypeOK /\ op[o] \in OpRecords /\ stranded \subseteq 1..MaxStarts
    BY DEF IInv, TypeOK, OpRecords
  <1>0. MachineStarts(o)
    BY DEF StartAccepted, StartUnannounced
  <1>2. op[o].kind \in StartKinds /\ op[o].id # NoId
    BY <1>0 DEF MachineStarts, StartKinds, IInv, StartsOwnIds
  <1>3. machine' = [state |-> "Starting", id |-> op[o].id, error |-> FALSE]
    <2>1. machine.state \in {"Idle", "Stopped", "Error"} /\ machine' = ResetAndStart(machine, op[o].id)
      BY <1>0 DEF MachineStarts
    <2>2. op[o].id \in Nat
      BY <1>1, DesktopAssumption DEF OpRecords
    <2>. QED
      BY <1>1, <2>1, <2>2, StartApplied
  <1>4. machine' \in Machines /\ IdMatchesState'
    BY <1>1, <1>2, <1>3, DesktopAssumption DEF Machines, States, IdMatchesState, OpRecords
  <1>5. op[o].id \in 1..MaxStarts
    BY <1>1, <1>2, DesktopAssumption DEF OpRecords, NoId
  <1>6. connected' \subseteq 1..MaxStarts /\ UNCHANGED <<clicks, disabled>>
    BY <1>0, <1>1 DEF TypeOK, MachineStarts
  <1>7. CASE StartAccepted(o)
    <2>1. PICK r \in OpRecords : op' = [op EXCEPT ![o] = r] /\ r.step = "health" /\ r.id = op[o].id
      BY <1>1, <1>7, GoesMoves DEF StartAccepted, Steps
    <2>2. op'[o] = r
      BY <1>1, <2>1 DEF TypeOK
    <2>3. StartingIsOwned'
      BY <1>3, <2>1, <2>2 DEF StartingIsOwned
    <2>4. Goes(o, "health") /\ stranded' \subseteq 1..MaxStarts
      BY <1>1, <1>7 DEF StartAccepted
    <2>. QED
      BY <1>2, <1>4, <1>6, <2>3, <2>4, MachineMove DEF Steps, Awaits
  <1>8. CASE StartUnannounced(o)
    <2>1. stranded' = stranded \cup {op[o].id} /\ Goes(o, "answered")
      BY <1>8 DEF StartUnannounced
    <2>2. StartingIsOwned'
      BY <1>3, <2>1 DEF StartingIsOwned
    <2>3. stranded' \subseteq 1..MaxStarts
      BY <1>1, <1>5, <2>1
    <2>. QED
      BY <1>2, <1>4, <1>6, <2>1, <2>2, <2>3, MachineMove DEF Steps, Awaits
  <1>. QED
    BY <1>7, <1>8

\* The end of a start leaves no machine in Starting, its own or another's.
LEMMA EndKeeps ==
    ASSUME IInv, NEW o \in Ops, StartFails(o) \/ StartSucceeds(o)
    PROVE  IInv'
  <1>1. machine \in Machines /\ IdMatchesState /\ op[o] \in OpRecords /\ connected \subseteq 1..MaxStarts
    BY DEF IInv, TypeOK, OpRecords
  <1>2. op[o].step \in Awaits /\ Goes(o, "answered") /\ UNCHANGED <<disabled, clicks>>
    BY DEF StartFails, StartSucceeds, At, Awaits
  <1>3. \/ machine' = Failed
        \/ machine' = IF machine.state = "Starting" THEN [machine EXCEPT !.state = "Running"] ELSE machine
    BY <1>1, ReadyApplied DEF StartFails, StartSucceeds
  <1>4. machine' \in Machines /\ IdMatchesState' /\ machine'.state # "Starting"
    <2>1. CASE machine' = Failed
      BY <2>1 DEF Machines, States, IdMatchesState, Failed, NoId
    <2>2. CASE machine.state = "Starting" /\ machine' = [machine EXCEPT !.state = "Running"]
      BY <1>1, <2>2 DEF Machines, States, IdMatchesState, NoId
    <2>3. CASE machine.state # "Starting" /\ machine' = machine
      BY <1>1, <2>3 DEF IdMatchesState
    <2>. QED
      BY <1>3, <2>1, <2>2, <2>3
  <1>5. StartingIsOwned'
    BY <1>4 DEF StartingIsOwned
  <1>6. connected' \subseteq 1..MaxStarts /\ stranded' \subseteq 1..MaxStarts
    <2>1. op[o].id \in 1..MaxStarts
      BY <1>1, <1>2, DesktopAssumption DEF IInv, StartsOwnIds, OpRecords, NoId
    <2>2. stranded \subseteq 1..MaxStarts
      BY DEF IInv, TypeOK
    <2>. QED
      BY <1>1, <2>1, <2>2 DEF StartFails, StartSucceeds
  <1>. QED
    BY <1>2, <1>4, <1>5, <1>6, MachineMove DEF Steps, Awaits

\* Every step keeps IInv.
LEMMA NextIInv == IInv /\ [Next]_vars => IInv'
  <1>. SUFFICES ASSUME IInv, [Next]_vars PROVE IInv'
    OBVIOUS
  <1>1. CASE UNCHANGED vars
    BY <1>1 DEF vars, IInv, TypeOK, IdMatchesState, StartsOwnIds, StartingIsOwned, ControlsNeverStuck
  <1>2. CASE Next
    <2>1. PICK o \in Ops : Click(o) \/ Progress(o)
      BY <1>2 DEF Next
    <2>. QED
      BY <2>1, ClickKeeps, QuietProgressKeeps, CommandKeeps, AcceptedKeeps, EndKeeps DEF Progress
  <1>. QED
    BY <1>1, <1>2

\* The strengthened invariant holds in every behaviour.
THEOREM DesktopInvariant == Spec => []IInv
  BY InitIInv, NextIInv, PTL DEF Spec

-----------------------------------------------------------------------------
\* Every variable of the desktop keeps its type (session.rs, main.ts, lib.rs).
THEOREM DesktopTypeCorrect == Spec => []TypeOK
  BY DesktopInvariant, PTL DEF IInv

\* However commands and starts overlap, the machine has a session id exactly
\* while a session is starting, running or paused, and an error exactly in
\* Error (SessionManager of session.rs, mark_session_failed of lib.rs).
THEOREM DesktopIdMatches == Spec => []IdMatchesState
  BY DesktopInvariant, PTL DEF IInv

\* A machine that is starting belongs to a start command still under way, or
\* to one that returned right after session.start(): no interleaving of starts,
\* stops and late ends leaves it in Starting with nobody to end it (lib.rs).
THEOREM DesktopStartOwned == Spec => []StartingIsOwned
  BY DesktopInvariant, PTL DEF IInv

\* Disabled controls are accounted for by an operation that has not ended
\* (setControlsDisabled in main.ts).
THEOREM DesktopControls == Spec => []ControlsNeverStuck
  BY DesktopInvariant, PTL DEF IInv
=============================================================================
