--------------------------- MODULE SessionMachine ---------------------------
(***************************************************************************)
(* The session state machine of the desktop core, as functions from a      *)
(* machine to a machine (crates/olb-core/src/session.rs, SessionManager).  *)
(* The Tauri commands call it under one mutex, so each call is atomic.     *)
(***************************************************************************)
EXTENDS Naturals

States == {"Idle", "Starting", "Running", "Paused", "Stopped", "Error"}

\* No current_session_id.  Session ids are uuids: a number names a fresh one.
NoId == 0

\* "error": last_error holds an error code (which one makes no difference).
Machines == [state : States, id : Nat, error : BOOLEAN]

Default == [state |-> "Idle", id |-> NoId, error |-> FALSE]

\* The states that accept an event; any other answers InvalidTransition.
Accepting == [StartRequested  |-> {"Idle", "Stopped"},
              BackendReady    |-> {"Starting"},
              PauseRequested  |-> {"Running"},
              ResumeRequested |-> {"Paused"},
              StopRequested   |-> {"Starting", "Running", "Paused"},
              ResetRequested  |-> {"Error", "Stopped"}]

Events == DOMAIN Accepting

Accepts(m, event) == m.state \in Accepting[event]

\* Mutant of Apply: stopping a session forgets to clear its id.
ApplyKeepingId(m, event, id) ==
    IF ~Accepts(m, event) THEN m
    ELSE CASE event = "StartRequested"  -> [state |-> "Starting", id |-> id, error |-> FALSE]
           [] event = "BackendReady"    -> [m EXCEPT !.state = "Running"]
           [] event = "PauseRequested"  -> [m EXCEPT !.state = "Paused"]
           [] event = "ResumeRequested" -> [m EXCEPT !.state = "Running"]
           [] event = "StopRequested"   -> [m EXCEPT !.state = "Stopped"]
           [] event = "ResetRequested"  -> [state |-> "Idle", id |-> NoId, error |-> FALSE]

\* apply(): "id" is the uuid that a start draws.
Apply(m, event, id) ==
    IF ~Accepts(m, event) THEN m
    ELSE CASE event = "StartRequested"  -> [state |-> "Starting", id |-> id, error |-> FALSE]
           [] event = "BackendReady"    -> [m EXCEPT !.state = "Running"]
           [] event = "PauseRequested"  -> [m EXCEPT !.state = "Paused"]
           [] event = "ResumeRequested" -> [m EXCEPT !.state = "Running"]
           [] event = "StopRequested"   -> [m EXCEPT !.state = "Stopped", !.id = NoId]
           [] event = "ResetRequested"  -> [state |-> "Idle", id |-> NoId, error |-> FALSE]

\* fail(): from any state, without asking which session failed.
Failed == [state |-> "Error", id |-> NoId, error |-> TRUE]

\* prepare_session_start(): a session in Error is reset before it is started.
ResetAndStart(m, id) ==
    Apply(IF m.state = "Error" THEN Apply(m, "ResetRequested", NoId) ELSE m, "StartRequested", id)
=============================================================================
