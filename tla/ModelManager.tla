---------------------------- MODULE ModelManager ----------------------------
(***************************************************************************)
(* The model manager of the service (runtime/model_manager.py): one bundle *)
(* of providers that the threads of the HTTP API load, use and list, and   *)
(* that the event loop uses for every segment.  load and the property      *)
(* bundle hold a re-entrant lock; list_models takes none and reads the     *)
(* bundle once for every role.                                             *)
(*                                                                         *)
(* A provider is "real" or the "mock" that stands in for it; the energy    *)
(* VAD and the dictionary count as mocks.  The desktop asks for a load     *)
(* that names no mode, which is the mode "mock".                           *)
(***************************************************************************)
EXTENDS Naturals, FiniteSets, Sequences

CONSTANTS
    RoleOrder,  \* the roles, in the order in which load makes their providers
    Disks,      \* what the configured paths of the roles may lead to
    Threads,    \* threads that call the manager, the event loop among them
    Nobody,     \* no thread
    Unknown,    \* a provider name that is no role
    MaxCalls    \* bound: calls that are made

Roles == {RoleOrder[k] : k \in DOMAIN RoleOrder}

\* What a path leads to: nothing (or no such default voice); a model in one
\* file; a folder with the file that marks it as a model; a folder without it;
\* something that the library does not load.  Or the configuration that names
\* the path, or describes what is there, cannot be read (a rate that is no
\* number).
FileStates == {"nothing", "file", "folder", "bare", "corrupt", "unreadable"}

\* What the constructors make of it: the provider, ModelFileMissing,
\* ModelLoadFailed, or another exception.
Outcomes == {"real", "missing", "load", "raises"}

\* The model is one file.
SileroVadProvider ==
    [nothing |-> "missing", file |-> "real", folder |-> "missing", bare |-> "missing",
     corrupt |-> "load", unreadable |-> "raises"]

\* A folder needs its model.bin; a file passes for a model and is left to the
\* library, which loads folders.
FasterWhisperProvider ==
    [nothing |-> "missing", file |-> "load", folder |-> "real", bare |-> "missing",
     corrupt |-> "load", unreadable |-> "raises"]

\* A folder needs its config.json.  Then two classes of the library are
\* imported as if they were modules, which fails like a library that is not
\* installed: what is there never loads.
NllbTranslateProvider == [FasterWhisperProvider EXCEPT !.folder = "load"]

\* Any folder will do: voices without a configuration are skipped, and no
\* voice is opened before it speaks.
PiperTtsProvider ==
    [nothing |-> "missing", file |-> "missing", folder |-> "real", bare |-> "real",
     corrupt |-> "real", unreadable |-> "raises"]

Constructor == [vad |-> SileroVadProvider, asr |-> FasterWhisperProvider,
                translate |-> NllbTranslateProvider, tts |-> PiperTtsProvider]

ASSUME ModelAssumption ==
    /\ RoleOrder \in Seq(DOMAIN Constructor) /\ RoleOrder # <<>>
    /\ Disks \subseteq [Roles -> FileStates]
    /\ Nobody \notin Threads
    /\ Unknown \notin Roles
    /\ MaxCalls \in Nat

VARIABLES
    files,   \* what the configured path of a role leads to
    mode,    \* _mode
    bundle,  \* _bundle, a provider for every role
    lock,    \* the thread that holds _lock
    call,    \* per thread: the call under way, or the last one
    calls    \* calls made so far

vars == <<files, mode, bundle, lock, call, calls>>

NoBundle == [r \in {} |-> "mock"]
AllMocks == [r \in Roles |-> "mock"]

\* "requested" has the names of a load; "repeats" says that one comes twice.
NoCall == [op |-> "none", at |-> "done", requested |-> {}, repeats |-> FALSE, asked |-> "mock",
           made |-> NoBundle, seen |-> NoBundle, result |-> "none", loaded |-> {}, mode |-> "mock"]

Init ==
    /\ files \in Disks
    /\ mode = "mock"
    /\ bundle = NoBundle
    /\ lock = Nobody
    /\ call = [t \in Threads |-> NoCall]
    /\ calls = 0

Ready == bundle # NoBundle

\* The next role, for a call that has gone through those of a function.
NextRole(done) == RoleOrder[Cardinality(DOMAIN done) + 1]
Through(done) == DOMAIN done = Roles
With(done, r, value) == [x \in DOMAIN done \cup {r} |-> IF x = r THEN value ELSE done[x]]

\* What the constructor of a role makes of its path.
Opened(r) == Constructor[r][files[r]]

Failed(c) == {r \in DOMAIN c.made : c.asked = "real" /\ c.made[r] = "mock"}

-----------------------------------------------------------------------------
\* A call arrives, moves on and ends.

Becomes(t, c) == call' = [call EXCEPT ![t] = c]

Begin(t, c) ==
    /\ call[t].at = "done"
    /\ calls < MaxCalls
    /\ calls' = calls + 1
    /\ Becomes(t, c)
    /\ UNCHANGED <<files, mode, bundle, lock>>

CallLoad(t) ==
    \E requested \in (SUBSET Roles) \cup {{Unknown}}, asked \in {"mock", "real"}, repeats \in BOOLEAN :
        /\ repeats => requested # {} /\ asked = "real"   \* of a mock load nothing depends on it
        /\ Begin(t, [NoCall EXCEPT !.op = "load", !.at = "acquire", !.asked = asked, !.repeats = repeats,
                                !.requested = IF requested = {} THEN Roles ELSE requested])

CallBundle(t) == Begin(t, [NoCall EXCEPT !.op = "bundle", !.at = "acquire"])

CallList(t) == Begin(t, [NoCall EXCEPT !.op = "list", !.at = "list"])

-----------------------------------------------------------------------------
\* load

\* Mutant of LoadBegins: the mode is set before the names are checked.
LoadBeginsWithMode(t) ==
    /\ call[t].op = "load" /\ call[t].at = "acquire"
    /\ lock = Nobody
    /\ mode' = call[t].asked
    /\ IF call[t].requested \subseteq Roles
       THEN /\ lock' = t
            /\ Becomes(t, [call[t] EXCEPT !.at = "make"])
       ELSE /\ Becomes(t, [call[t] EXCEPT !.at = "done", !.result = "MODEL_LOAD_FAILED"])
            /\ UNCHANGED lock
    /\ UNCHANGED <<files, bundle, calls>>

\* Mutant of LoadBegins: the lock is not held while providers are made.
LoadBeginsUnlocked(t) ==
    /\ call[t].op = "load" /\ call[t].at = "acquire"
    /\ lock = Nobody
    /\ call[t].requested \subseteq Roles
    /\ mode' = call[t].asked
    /\ Becomes(t, [call[t] EXCEPT !.at = "make"])
    /\ UNCHANGED <<files, bundle, lock, calls>>

\* Under the lock: a name that is no role is refused, else the mode is set.
LoadBegins(t) ==
    /\ call[t].op = "load" /\ call[t].at = "acquire"
    /\ lock = Nobody
    /\ IF call[t].requested \subseteq Roles
       THEN /\ lock' = t
            /\ mode' = call[t].asked
            /\ Becomes(t, [call[t] EXCEPT !.at = "make"])
       ELSE /\ Becomes(t, [call[t] EXCEPT !.at = "done", !.result = "MODEL_LOAD_FAILED"])
            /\ UNCHANGED <<lock, mode>>
    /\ UNCHANGED <<files, bundle, calls>>

Made(t) == call[t].made
MakingReal(t) == call[t].at = "make" /\ call[t].asked = "real" /\ ~Through(Made(t))

\* Mutant of Make: the failure of a constructor goes unnoticed.
MakeTrusting(t) ==
    /\ MakingReal(t)
    /\ LET r == NextRole(Made(t)) IN
        /\ Opened(r) # "raises"
        /\ Becomes(t, [call[t] EXCEPT !.made = With(Made(t), r, "real")])
    /\ UNCHANGED <<files, mode, bundle, lock, calls>>

\* _safe_load_real: the provider, or its mock when the model is missing or
\* does not load.
Make(t) ==
    /\ MakingReal(t)
    /\ LET r == NextRole(Made(t)) IN
        /\ Opened(r) # "raises"
        /\ Becomes(t, [call[t] EXCEPT !.made =
                      With(Made(t), r, IF Opened(r) = "real" THEN "real" ELSE "mock")])
    /\ UNCHANGED <<files, mode, bundle, lock, calls>>

\* Any other exception leaves load: the mode stays, and so does the old bundle.
MakeRaises(t) ==
    /\ MakingReal(t)
    /\ Opened(NextRole(Made(t))) = "raises"
    /\ lock' = Nobody
    /\ Becomes(t, [call[t] EXCEPT !.at = "done", !.result = "raised"])
    /\ UNCHANGED <<files, mode, bundle, calls>>

MakeMocks(t) ==
    /\ call[t].at = "make" /\ call[t].asked = "mock" /\ ~Through(Made(t))
    /\ Becomes(t, [call[t] EXCEPT !.made = AllMocks])
    /\ UNCHANGED <<files, mode, bundle, lock, calls>>

\* Of the roles in S, the one that load makes first.
FirstOf(S) ==
    RoleOrder[CHOOSE k \in DOMAIN RoleOrder :
                 RoleOrder[k] \in S /\ \A j \in DOMAIN RoleOrder : RoleOrder[j] \in S => k <= j]

\* Every requested provider failed.  The code compares two lengths, so a name
\* that comes twice makes it find that some provider did not.
AllFailed(c) == c.asked = "real" /\ c.requested \subseteq Failed(c) /\ ~c.repeats

\* Mutant of LoadEnds: a role that was not asked for keeps the provider it had.
LoadEndsPartly(t) ==
    /\ call[t].op = "load" /\ call[t].at = "make" /\ Through(Made(t))
    /\ bundle' = [r \in Roles |-> IF Ready /\ r \notin call[t].requested THEN bundle[r] ELSE Made(t)[r]]
    /\ lock' = Nobody
    /\ Becomes(t, [call[t] EXCEPT !.at = "done", !.result = "ok", !.mode = mode])
    /\ UNCHANGED <<files, mode, calls>>

\* The bundle is replaced even when every requested provider failed and load
\* raises; a mock load reports what was requested.
LoadEnds(t) ==
    /\ call[t].op = "load" /\ call[t].at = "make" /\ Through(Made(t))
    /\ bundle' = Made(t)
    /\ lock' = Nobody
    /\ Becomes(t, [call[t] EXCEPT
                  !.at = "done",
                  !.result = IF ~AllFailed(call[t]) THEN "ok"
                             ELSE IF Opened(FirstOf(call[t].requested)) = "missing" THEN "MODEL_FILE_MISSING"
                             ELSE "MODEL_LOAD_FAILED",
                  !.mode = mode,
                  !.loaded = IF call[t].asked = "real" THEN Roles \ Failed(call[t]) ELSE call[t].requested])
    /\ UNCHANGED <<files, mode, calls>>

-----------------------------------------------------------------------------
\* bundle: what warmup, list_voices, the test endpoints and _run_segment read.

BundleRead(t) ==
    /\ call[t].op = "bundle" /\ call[t].at = "acquire"
    /\ lock = Nobody
    /\ Ready
    /\ Becomes(t, [call[t] EXCEPT !.at = "done", !.seen = bundle])
    /\ UNCHANGED <<files, mode, bundle, lock, calls>>

\* Mutant of BundleLoads: the load takes the lock as if nobody held it.
BundleLoadsLocked(t) ==
    /\ call[t].op = "bundle" /\ call[t].at = "acquire"
    /\ lock = Nobody
    /\ ~Ready
    /\ lock' = t
    /\ Becomes(t, [call[t] EXCEPT !.op = "load", !.requested = Roles])
    /\ UNCHANGED <<files, mode, bundle, calls>>

\* The first reader loads the mocks, inside the lock it already holds.
BundleLoads(t) ==
    /\ call[t].op = "bundle" /\ call[t].at = "acquire"
    /\ lock = Nobody
    /\ ~Ready
    /\ lock' = t
    /\ mode' = "mock"
    /\ Becomes(t, [call[t] EXCEPT !.at = "make"])
    /\ UNCHANGED <<files, bundle, calls>>

BundleLoaded(t) ==
    /\ call[t].op = "bundle" /\ call[t].at = "make" /\ Through(Made(t))
    /\ bundle' = Made(t)
    /\ lock' = Nobody
    /\ Becomes(t, [call[t] EXCEPT !.at = "done", !.seen = Made(t)])
    /\ UNCHANGED <<files, mode, calls>>

-----------------------------------------------------------------------------
\* list_models, without the lock.

ListNothing(t) ==
    /\ call[t].at = "list"
    /\ ~Ready /\ call[t].seen = NoBundle
    /\ Becomes(t, [call[t] EXCEPT !.at = "report", !.seen = AllMocks])
    /\ UNCHANGED <<files, mode, bundle, lock, calls>>

ListRole(t) ==
    /\ call[t].at = "list"
    /\ Ready
    /\ LET r == NextRole(call[t].seen)
           seen == With(call[t].seen, r, bundle[r])
       IN Becomes(t, [call[t] EXCEPT !.seen = seen, !.at = IF Through(seen) THEN "report" ELSE "list"])
    /\ UNCHANGED <<files, mode, bundle, lock, calls>>

ListReports(t) ==
    /\ call[t].at = "report"
    /\ Becomes(t, [call[t] EXCEPT !.at = "done", !.mode = mode, !.result = IF Ready THEN "ready" ELSE "empty"])
    /\ UNCHANGED <<files, mode, bundle, lock, calls>>

-----------------------------------------------------------------------------
ThreadStep(t) ==
    \/ LoadBegins(t) \/ Make(t) \/ MakeRaises(t) \/ MakeMocks(t) \/ LoadEnds(t)
    \/ BundleRead(t) \/ BundleLoads(t) \/ BundleLoaded(t)
    \/ ListNothing(t) \/ ListRole(t) \/ ListReports(t)

Next == \E t \in Threads : CallLoad(t) \/ CallBundle(t) \/ CallList(t) \/ ThreadStep(t)

Spec == Init /\ [][Next]_vars

\* Threads run, and a constructor returns or raises.  Which waiter gets the
\* lock is open; the bound on calls keeps it from being taken for ever.
FairSpec == Spec /\ \A t \in Threads : WF_vars(ThreadStep(t))

-----------------------------------------------------------------------------
Providers == {"mock", "real"}
Bundles == {NoBundle} \cup [Roles -> Providers]

\* Only the holder of the lock makes providers.
TypeOK ==
    /\ files \in [Roles -> FileStates]
    /\ mode \in {"mock", "real"}
    /\ bundle \in Bundles
    /\ lock \in Threads \cup {Nobody}
    /\ \A t \in Threads :
        /\ call[t].at \in {"done", "acquire", "make", "list", "report"}
        /\ call[t].op \in {"none", "load", "bundle", "list"}
        /\ call[t].at = "make" => lock = t
        /\ call[t].op = "bundle" /\ call[t].at = "done" => call[t].seen \in [Roles -> Providers]
    /\ calls \in 0..MaxCalls

\* What one load makes of every role: the mocks, or, when no constructor raises,
\* the real providers that can be had and mocks for the others.
Whole(providers) ==
    \/ providers = AllMocks
    \/ providers = [r \in Roles |-> IF Opened(r) = "real" THEN "real" ELSE "mock"]
       /\ \A r \in Roles : Opened(r) # "raises"

\* The bundle in use, and the one that any reader was given, is what one load
\* made of every role: no load that names some roles, fails for all it names,
\* raises half way or waits behind another leaves providers of two loads side
\* by side.
BundleIsWhole ==
    /\ Ready => Whole(bundle)
    /\ \A t \in Threads : call[t].op = "bundle" /\ call[t].at = "done" => Whole(call[t].seen)

\* While no load is under way, a service that says it is in mock mode runs on
\* mocks alone, whatever loads were refused, failed or raised before.
MockModeIsMock ==
    lock = Nobody /\ mode = "mock" /\ Ready => bundle = AllMocks

\* What a real load reports is true of the disk, though other threads were
\* waiting to set another mode: the providers it lists are the ones that load,
\* with the mode it was asked for; a load that names no role twice succeeds
\* exactly when something it named is there; and the code of its error is that
\* of a role that was asked for.
ReportIsTrue ==
    \A t \in Threads :
        LET c == call[t] IN
        c.op = "load" /\ c.at = "done" /\ c.asked = "real" /\ c.requested \subseteq Roles =>
            /\ c.result = "ok" => c.mode = "real" /\ c.loaded = {r \in Roles : Opened(r) = "real"}
            /\ c.result = "ok" /\ ~c.repeats => c.requested \cap c.loaded # {}
            /\ c.result \in {"MODEL_FILE_MISSING", "MODEL_LOAD_FAILED"} =>
                  \A r \in c.requested : Opened(r) \in {"missing", "load"}
            /\ c.result = "MODEL_FILE_MISSING" => \E r \in c.requested : Opened(r) = "missing"
            /\ c.result = "MODEL_LOAD_FAILED" => \E r \in c.requested : Opened(r) = "load"

\* Every call ends, the first one that finds no bundle included: the lock it
\* holds lets its own load in.
CallsEnd == \A t \in Threads : call[t].at # "done" ~> call[t].at = "done"
=============================================================================
