--------------------------- MODULE SessionChecks ---------------------------
(***************************************************************************)
(* The requests of the HTTP API that look at the providers before a        *)
(* session (runtime/http_api.py): /backend/session/start and               *)
(* /language-chain/check, on top of the model manager.  Such a request     *)
(* reads the voices of the bundle, which loads the mocks when there is     *)
(* none, and checks the chain of languages against them; loads by other    *)
(* threads come before it, between its steps and after it.                 *)
(***************************************************************************)
EXTENDS ModelManager, LanguageChain

CONSTANTS
    Tts,        \* the role of the synthesiser
    Pairs,      \* the pairs of source and target codes that are asked for
    VoiceDirs   \* the languages that the voice directory may have voices of

ASSUME ChecksAssumption ==
    /\ Tts \in Roles
    /\ Pairs \subseteq Asked \X Asked
    /\ VoiceDirs \subseteq SUBSET VoiceLanguages

VARIABLES
    voiceDir,   \* the languages of the voices that are installed
    check       \* per thread: the request under way, or the last one

checkVars == <<voiceDir, check>>
allVars == <<files, mode, bundle, lock, call, calls, voiceDir, check>>

NoCheck == [at |-> "answered", pair |-> <<>>,
            voices |-> {}, missing |-> {}, result |-> "none"]

ChecksInit ==
    /\ Init
    /\ voiceDir \in VoiceDirs
    /\ check = [t \in Threads |-> NoCheck]

\* list_voices of a synthesiser.
VoicesOf(tts) == IF tts = "mock" THEN MockVoices ELSE PiperVoices(voiceDir)

-----------------------------------------------------------------------------
Proceeds(t, k) == check' = [check EXCEPT ![t] = k]

\* A request arrives: its first step is list_voices, a call of bundle.
Request(t) ==
    \E pair \in Pairs :
        /\ check[t].at = "answered"
        /\ CallBundle(t)
        /\ Proceeds(t, [NoCheck EXCEPT !.at = "voices", !.pair = pair])
        /\ UNCHANGED voiceDir

\* The voices are there: chain_check.  /language-chain/check has its answer; a
\* start goes on, or is refused with LANGUAGE_CHAIN_INCOMPLETE.
ChainChecked(t) ==
    /\ check[t].at = "voices"
    /\ call[t].at = "done"
    /\ LET pair == check[t].pair
           voices == VoicesOf(call[t].seen[Tts])
           complete == Complete(pair[1], pair[2], voices)
       IN \E at \in {"answered"} \cup IF complete THEN {"chained"} ELSE {} :
            Proceeds(t, [check[t] EXCEPT
                           !.voices = voices,
                           !.missing = Missing(pair[1], pair[2], voices),
                           !.at = at,
                           !.result = IF complete THEN "complete" ELSE "incomplete"])
    /\ UNCHANGED <<vars, voiceDir>>

\* SessionManager.start: the session is there, with the codes as they were
\* sent; or its id was in use already.
SessionStarts(t) ==
    /\ check[t].at = "chained"
    /\ \E result \in {"started", "exists"} :
        Proceeds(t, [check[t] EXCEPT !.at = "answered", !.result = result])
    /\ UNCHANGED <<vars, voiceDir>>

\* The calls of ModelManager, by threads that serve no request of this module.
OtherCall(t) ==
    /\ check[t].at = "answered"
    /\ CallLoad(t) \/ CallBundle(t) \/ CallList(t)
    /\ UNCHANGED checkVars

Manager(t) == ThreadStep(t) /\ UNCHANGED checkVars

CheckStep(t) == Manager(t) \/ ChainChecked(t) \/ SessionStarts(t)

ChecksNext == \E t \in Threads : Request(t) \/ OtherCall(t) \/ CheckStep(t)

ChecksSpec == ChecksInit /\ [][ChecksNext]_allVars

\* As in ModelManager: threads run, and a constructor returns or raises.
ChecksFairSpec == ChecksSpec /\ \A t \in Threads : WF_allVars(CheckStep(t))

-----------------------------------------------------------------------------
\* A chain is refused exactly when the answer names something that is missing,
\* so the user is never told that a chain is incomplete for no reason.
RefusalsAreNamed ==
    \A t \in Threads :
        /\ check[t].result = "incomplete" => check[t].missing # {}
        /\ check[t].result \in {"complete", "started", "exists"} => check[t].missing = {}

-----------------------------------------------------------------------------
\* What documents say of the check; a run refutes it.

\* docs/technical-solution.md: the registry is kept so that a check before the
\* start finds whether recognition, translation and speech are complete.  So
\* a started session asks for a voice that the synthesiser it was checked
\* against has.
StartedHasVoice ==
    \A t \in Threads :
        check[t].result = "started" =>
            \E v \in check[t].voices : v.id = VoiceFor(check[t].pair[2])
=============================================================================
