------------------------ MODULE SessionChecksProofs ------------------------
(***************************************************************************)
(* What is proved of the model manager and of the requests on top of it,   *)
(* for any roles, threads, languages asked for and voices installed.  The  *)
(* manager is proved first; the requests only add to its steps, so what    *)
(* holds of it holds beneath them.                                         *)
(***************************************************************************)
EXTENDS SessionChecks, WellFoundedInduction, TLAPS

-----------------------------------------------------------------------------
\* The inductive invariant of the manager.

\* A call has these fields.
Fields == {"op", "at", "requested", "repeats", "asked", "made", "seen", "result", "loaded", "mode"}

Shape(c) == c = [f \in Fields |-> c[f]]

\* What is made for the mock mode is mocks; what is made for the real mode is
\* what the constructors gave so far.
MadeAsAsked(c) ==
    /\ c.asked \in {"mock", "real"}
    /\ c.made = [r \in DOMAIN c.made |-> c.made[r]]
    /\ c.asked = "mock" => c.made \in {NoBundle, AllMocks}
    /\ c.asked = "real" => \A r \in DOMAIN c.made :
                              /\ Opened(r) # "raises"
                              /\ c.made[r] = IF Opened(r) = "real" THEN "real" ELSE "mock"

\* Whoever makes providers is the holder of the lock, and the mode that is set
\* is its own.
MakesAlone(t, c, holder, set) ==
    /\ c.at = "make" => holder = t /\ set = c.asked /\ c.requested \subseteq Roles
    /\ c.op = "load" => c.requested # {}
    /\ c.op = "bundle" => c.asked = "mock" /\ c.requested = {}
    /\ c.at \in {"list", "report"} => c.op = "list"

\* ReportIsTrue of one call.
TrueReport(c) ==
    c.op = "load" /\ c.at = "done" /\ c.asked = "real" /\ c.requested \subseteq Roles =>
        /\ c.result = "ok" => c.mode = "real" /\ c.loaded = {r \in Roles : Opened(r) = "real"}
        /\ c.result = "ok" /\ ~c.repeats => c.requested \cap c.loaded # {}
        /\ c.result \in {"MODEL_FILE_MISSING", "MODEL_LOAD_FAILED"} =>
              \A r \in c.requested : Opened(r) \in {"missing", "load"}
        /\ c.result = "MODEL_FILE_MISSING" => \E r \in c.requested : Opened(r) = "missing"
        /\ c.result = "MODEL_LOAD_FAILED" => \E r \in c.requested : Opened(r) = "load"

CallOK(t, c) == Shape(c) /\ MadeAsAsked(c) /\ MakesAlone(t, c, lock, mode) /\ TrueReport(c)

IInv ==
    /\ files \in [Roles -> FileStates]
    /\ call = [t \in Threads |-> call[t]]
    /\ \A t \in Threads : CallOK(t, call[t])
    /\ MockModeIsMock

-----------------------------------------------------------------------------
\* The manager starts as IInv says.
LEMMA InitIInv == Init => IInv
  <1>. SUFFICES ASSUME Init PROVE IInv
    OBVIOUS
  <1>1. call = [t \in Threads |-> NoCall]
    BY DEF Init
  <1>2. call = [t \in Threads |-> call[t]] /\ \A t \in Threads : call[t] = NoCall
    BY <1>1
  <1>3. Shape(NoCall) /\ MadeAsAsked(NoCall) /\ TrueReport(NoCall)
    <2>1. Shape(NoCall)
      BY Zenon DEF NoCall, Shape, Fields
    <2>2. NoCall.made = NoBundle /\ NoCall.asked = "mock" /\ NoCall.op = "none"
      BY DEF NoCall
    <2>3. NoBundle = [r \in DOMAIN NoBundle |-> NoBundle[r]]
      BY DEF NoBundle
    <2>. QED
      BY <2>1, <2>2, <2>3 DEF MadeAsAsked, TrueReport
  <1>4. NoCall.at = "done" /\ NoCall.op = "none"
    BY DEF NoCall
  <1>5. \A t \in Threads : MakesAlone(t, NoCall, lock, mode)
    BY <1>4 DEF MakesAlone
  <1>. QED
    BY <1>2, <1>3, <1>5, ModelAssumption DEF Init, IInv, CallOK, MockModeIsMock, Ready

\* A step of one call keeps the others as they are: either it touches neither
\* the lock nor the mode, or nobody else can be making providers.
LEMMA CallMoves ==
    ASSUME IInv, NEW t \in Threads, NEW c, Becomes(t, c), UNCHANGED files,
           \/ UNCHANGED <<lock, mode>>
           \/ lock = Nobody
           \/ lock = t,
           Shape(c), MadeAsAsked(c), TrueReport(c), MakesAlone(t, c, lock', mode'),
           MockModeIsMock'
    PROVE  IInv'
  <1>1. call' = [u \in Threads |-> IF u = t THEN c ELSE call[u]]
    BY DEF IInv, Becomes
  <1>2. call' = [u \in Threads |-> call'[u]]
    BY <1>1
  <1>3. ASSUME NEW u \in Threads PROVE CallOK(u, call[u])'
    <2>1. CASE u = t
      <3>1. call'[u] = c
        BY <1>1, <2>1
      <3>. QED
        BY <3>1, <2>1 DEF CallOK, Shape, MadeAsAsked, TrueReport, MakesAlone, Opened
    <2>2. CASE u # t
      <3>1. call'[u] = call[u] /\ CallOK(u, call[u])
        BY <1>1, <2>2 DEF IInv
      <3>2. call[u].at = "make" => UNCHANGED <<lock, mode>>
        BY <3>1, <2>2, ModelAssumption DEF CallOK, MakesAlone
      <3>3. MadeAsAsked(call[u])'
        BY <3>1 DEF CallOK, MadeAsAsked, Opened
      <3>4. TrueReport(call[u])'
        BY <3>1 DEF CallOK, TrueReport, Opened
      <3>. QED
        BY <3>1, <3>2, <3>3, <3>4 DEF CallOK, Shape, MakesAlone
    <2>. QED
      BY <2>1, <2>2
  <1>. QED
    BY <1>2, <1>3 DEF IInv

-----------------------------------------------------------------------------
\* Roles.

LEMMA RolesExist == Roles # {}
  <1>1. RoleOrder # <<>> /\ RoleOrder = [k \in 1..Len(RoleOrder) |-> RoleOrder[k]]
        /\ Len(RoleOrder) \in Nat
    BY ModelAssumption
  <1>2. 1 \in DOMAIN RoleOrder
    BY <1>1, ModelAssumption
  <1>. QED
    BY <1>2 DEF Roles

\* A constructor gives a provider, fails in one of two ways, or raises.
LEMMA ConstructorOutcomes ==
    ASSUME files \in [Roles -> FileStates], NEW r \in Roles
    PROVE  Opened(r) \in Outcomes
  <1>1. r \in DOMAIN Constructor
    BY ModelAssumption DEF Roles
  <1>2. files[r] \in FileStates
    OBVIOUS
  <1>3. \A f \in FileStates : Constructor[r][f] \in Outcomes
    BY <1>1 DEF Constructor, SileroVadProvider, FasterWhisperProvider, NllbTranslateProvider,
                PiperTtsProvider, FileStates, Outcomes
  <1>. QED
    BY <1>2, <1>3 DEF Opened

\* Of some roles, one is made first.
LEMMA FirstIsOfThem ==
    ASSUME NEW S, S \subseteq Roles, S # {}
    PROVE  FirstOf(S) \in S
  <1>. DEFINE T == {k \in DOMAIN RoleOrder : RoleOrder[k] \in S}
  <1>1. DOMAIN RoleOrder \subseteq Nat
    BY ModelAssumption
  <1>2. T \subseteq Nat /\ T # {}
    BY <1>1 DEF Roles
  <1>. HIDE DEF T
  <1>3. PICK k \in T : \A j \in T : ~(<<j, k>> \in OpToRel(<, Nat))
    BY <1>2, NatLessThanWellFounded, WFMin
  <1>4. \A j \in T : k <= j
    <2>. SUFFICES ASSUME NEW j \in T, j < k PROVE FALSE
      BY <1>2
    <2>1. <<j, k>> \in OpToRel(<, Nat)
      BY <1>2 DEF OpToRel
    <2>. QED
      BY <1>3, <2>1
  <1>5. k \in DOMAIN RoleOrder /\ RoleOrder[k] \in S
    BY DEF T
  <1>6. \A j \in DOMAIN RoleOrder : RoleOrder[j] \in S => k <= j
    BY <1>4 DEF T
  <1>. QED
    BY <1>5, <1>6 DEF FirstOf

-----------------------------------------------------------------------------
\* The steps, one lemma for those of a kind.

\* A call arrives; it has made nothing and says nothing yet.
LEMMA BeginKeeps ==
    ASSUME IInv, NEW t \in Threads, CallLoad(t) \/ CallBundle(t) \/ CallList(t)
    PROVE  IInv'
  <1>1. ASSUME NEW c, Begin(t, c), Shape(c), c.made = NoBundle, c.asked \in {"mock", "real"},
               c.at \notin {"make", "done"}, c.op = "bundle" => c.asked = "mock" /\ c.requested = {},
               c.op = "load" => c.requested # {},
               c.at \in {"list", "report"} => c.op = "list"
        PROVE  IInv'
    <2>1. MadeAsAsked(c) /\ TrueReport(c) /\ MakesAlone(t, c, lock', mode')
      <3>1. NoBundle = [r \in DOMAIN NoBundle |-> NoBundle[r]] /\ DOMAIN NoBundle = {}
        BY DEF NoBundle
      <3>. QED
        BY <1>1, <3>1 DEF MadeAsAsked, TrueReport, MakesAlone
    <2>2. MockModeIsMock'
      BY <1>1 DEF Begin, IInv, MockModeIsMock, Ready
    <2>. QED
      BY <1>1, <2>1, <2>2, CallMoves DEF Begin
  <1>2. CASE CallLoad(t)
    <2>1. PICK requested \in (SUBSET Roles) \cup {{Unknown}}, asked \in {"mock", "real"}, repeats \in BOOLEAN :
            Begin(t, [NoCall EXCEPT !.op = "load", !.at = "acquire", !.asked = asked, !.repeats = repeats,
                        !.requested = IF requested = {} THEN Roles ELSE requested])
      BY <1>2 DEF CallLoad
    <2>. DEFINE names == IF requested = {} THEN Roles ELSE requested
                c == [NoCall EXCEPT !.op = "load", !.at = "acquire", !.asked = asked,
                        !.repeats = repeats, !.requested = names]
    <2>2. names # {}
      BY RolesExist
    <2>. HIDE DEF names
    <2>3. /\ Shape(c) /\ c.made = NoBundle /\ c.asked = asked /\ c.at = "acquire" /\ c.op = "load"
          /\ c.requested = names
      BY Zenon DEF Shape, NoCall, Fields
    <2>. HIDE DEF c
    <2>. QED
      BY <1>1, <2>1, <2>2, <2>3 DEF c, names
  <1>3. CASE CallBundle(t)
    <2>. DEFINE c == [NoCall EXCEPT !.op = "bundle", !.at = "acquire"]
    <2>1. /\ Shape(c) /\ c.made = NoBundle /\ c.asked = "mock" /\ c.at = "acquire" /\ c.requested = {}
          /\ c.op = "bundle"
      BY Zenon DEF Shape, NoCall, Fields
    <2>. QED
      BY <1>1, <1>3, <2>1 DEF CallBundle
  <1>4. CASE CallList(t)
    <2>. DEFINE c == [NoCall EXCEPT !.op = "list", !.at = "list"]
    <2>1. Shape(c) /\ c.made = NoBundle /\ c.asked = "mock" /\ c.at = "list" /\ c.op = "list"
      BY Zenon DEF Shape, NoCall, Fields
    <2>. QED
      BY <1>1, <1>4, <2>1 DEF CallList
  <1>. QED
    BY <1>2, <1>3, <1>4

\* The lock is taken, or an unknown role is refused.
LEMMA LockKeeps ==
    ASSUME IInv, NEW t \in Threads, LoadBegins(t) \/ BundleLoads(t)
    PROVE  IInv'
  <1>. DEFINE c == [call[t] EXCEPT !.at = "make"]
              e == [call[t] EXCEPT !.at = "done", !.result = "MODEL_LOAD_FAILED"]
  <1>1. CallOK(t, call[t]) /\ Shape(call[t])
    BY DEF IInv, CallOK
  <1>2. /\ Shape(c) /\ c.at = "make" /\ c.op = call[t].op /\ c.asked = call[t].asked
        /\ c.made = call[t].made /\ c.requested = call[t].requested
    BY <1>1, Zenon DEF Shape, Fields
  <1>3. /\ Shape(e) /\ e.at = "done" /\ e.op = call[t].op /\ e.asked = call[t].asked
        /\ e.made = call[t].made /\ e.requested = call[t].requested
    BY <1>1, Zenon DEF Shape, Fields
  <1>. HIDE DEF c, e
  <1>4. MadeAsAsked(c) /\ TrueReport(c) /\ MadeAsAsked(e)
    BY <1>1, <1>2, <1>3 DEF CallOK, MadeAsAsked, TrueReport
  <1>5. CASE LoadBegins(t) /\ call[t].requested \subseteq Roles
    <2>1. Becomes(t, c) /\ lock' = t /\ mode' = call[t].asked /\ lock = Nobody
      BY <1>5 DEF LoadBegins, c
    <2>2. MakesAlone(t, c, lock', mode') /\ MockModeIsMock'
      BY <1>1, <1>2, <1>5, <2>1, ModelAssumption DEF LoadBegins, CallOK, MakesAlone, MockModeIsMock
    <2>. QED
      BY <1>2, <1>4, <1>5, <2>1, <2>2, CallMoves DEF LoadBegins
  <1>6. CASE LoadBegins(t) /\ ~(call[t].requested \subseteq Roles)
    <2>1. Becomes(t, e) /\ UNCHANGED <<files, lock, mode, bundle>> /\ lock = Nobody
      BY <1>6 DEF LoadBegins, e
    <2>2. TrueReport(e) /\ MakesAlone(t, e, lock', mode')
      BY <1>1, <1>3, <1>6 DEF LoadBegins, MakesAlone, TrueReport, CallOK
    <2>3. MockModeIsMock'
      BY <2>1 DEF IInv, MockModeIsMock, Ready
    <2>. QED
      BY <1>3, <1>4, <2>1, <2>2, <2>3, CallMoves
  <1>7. CASE BundleLoads(t)
    <2>1. Becomes(t, c) /\ lock' = t /\ mode' = "mock" /\ lock = Nobody
      BY <1>7 DEF BundleLoads, c
    <2>2. call[t].requested \subseteq Roles
      BY <1>1, <1>7 DEF BundleLoads, CallOK, MakesAlone
    <2>3. call[t].op = "bundle" /\ call[t].asked = "mock" /\ UNCHANGED files
      BY <1>1, <1>7 DEF BundleLoads, CallOK, MakesAlone
    <2>4. MakesAlone(t, c, lock', mode')
      BY <1>1, <1>2, <2>1, <2>2, <2>3 DEF MakesAlone, CallOK
    <2>5. MockModeIsMock'
      BY <2>1, ModelAssumption DEF MockModeIsMock
    <2>. QED
      BY <1>2, <1>4, <2>1, <2>3, <2>4, <2>5, CallMoves
  <1>. QED
    BY <1>5, <1>6, <1>7

\* A provider is made, all mocks are, or the load raises.
LEMMA MakeKeeps ==
    ASSUME IInv, NEW t \in Threads, Make(t) \/ MakeRaises(t) \/ MakeMocks(t)
    PROVE  IInv'
  <1>1. CallOK(t, call[t]) /\ Shape(call[t])
    BY DEF IInv, CallOK
  <1>2. ASSUME NEW made
        PROVE  LET c == [call[t] EXCEPT !.made = made] IN
               /\ Shape(c) /\ c.made = made /\ c.at = call[t].at /\ c.op = call[t].op
               /\ c.asked = call[t].asked /\ c.requested = call[t].requested
    BY <1>1, Zenon DEF Shape, Fields
  <1>3. CASE Make(t)
    <2>. DEFINE r == NextRole(Made(t))
                p == IF Opened(r) = "real" THEN "real" ELSE "mock"
                made == With(Made(t), r, p)
                c == [call[t] EXCEPT !.made = made]
    <2>1. /\ Becomes(t, c) /\ UNCHANGED <<files, mode, bundle, lock>>
          /\ call[t].at = "make" /\ call[t].asked = "real" /\ Opened(r) # "raises"
      BY <1>3 DEF Make, MakingReal
    <2>2. /\ Shape(c) /\ c.made = made /\ c.at = call[t].at /\ c.op = call[t].op
          /\ c.asked = call[t].asked /\ c.requested = call[t].requested
      BY <1>2
    <2>. HIDE DEF c, p, r
    <2>3. \A x \in DOMAIN made : /\ x \in DOMAIN call[t].made \cup {r}
                                 /\ made[x] = IF x = r THEN p ELSE call[t].made[x]
      BY DEF With, Made
    <2>0. made = [x \in DOMAIN made |-> made[x]]
      BY DEF With
    <2>. HIDE DEF made
    <2>4. \A x \in DOMAIN made : /\ Opened(x) # "raises"
                                 /\ made[x] = IF Opened(x) = "real" THEN "real" ELSE "mock"
      BY <1>1, <2>1, <2>3 DEF CallOK, MadeAsAsked, p
    <2>5. MadeAsAsked(c) /\ TrueReport(c)
      BY <2>0, <2>1, <2>2, <2>4 DEF MadeAsAsked, TrueReport
    <2>6. MakesAlone(t, c, lock', mode') /\ MockModeIsMock'
      BY <1>1, <2>1, <2>2 DEF IInv, CallOK, MakesAlone, MockModeIsMock, Ready
    <2>. QED
      BY <2>1, <2>2, <2>5, <2>6, CallMoves
  <1>4. CASE MakeRaises(t)
    <2>. DEFINE c == [call[t] EXCEPT !.at = "done", !.result = "raised"]
    <2>1. /\ Becomes(t, c) /\ UNCHANGED <<files, mode, bundle>> /\ lock' = Nobody
          /\ call[t].at = "make" /\ call[t].asked = "real"
      BY <1>4 DEF MakeRaises, MakingReal
    <2>2. /\ Shape(c) /\ c.made = call[t].made /\ c.at = "done" /\ c.op = call[t].op
          /\ c.asked = call[t].asked /\ c.requested = call[t].requested /\ c.result = "raised"
      BY <1>1, Zenon DEF Shape, Fields
    <2>. HIDE DEF c
    <2>3. MadeAsAsked(c) /\ TrueReport(c)
      BY <1>1, <2>2 DEF CallOK, MadeAsAsked, TrueReport
    <2>4. lock = t /\ mode = "real" /\ MakesAlone(t, c, lock', mode')
      BY <1>1, <2>1, <2>2 DEF CallOK, MakesAlone
    <2>5. MockModeIsMock'
      BY <2>1, <2>4 DEF MockModeIsMock
    <2>. QED
      BY <2>1, <2>2, <2>3, <2>4, <2>5, CallMoves
  <1>5. CASE MakeMocks(t)
    <2>. DEFINE c == [call[t] EXCEPT !.made = AllMocks]
    <2>1. /\ Becomes(t, c) /\ UNCHANGED <<files, mode, bundle, lock>>
          /\ call[t].at = "make" /\ call[t].asked = "mock"
      BY <1>5 DEF MakeMocks
    <2>2. /\ Shape(c) /\ c.made = AllMocks /\ c.at = call[t].at /\ c.op = call[t].op
          /\ c.asked = call[t].asked /\ c.requested = call[t].requested
      BY <1>2
    <2>. HIDE DEF c
    <2>3. MadeAsAsked(c) /\ TrueReport(c)
      <3>1. AllMocks = [x \in DOMAIN AllMocks |-> AllMocks[x]]
        BY DEF AllMocks
      <3>. QED
        BY <2>1, <2>2, <3>1 DEF MadeAsAsked, TrueReport
    <2>4. MakesAlone(t, c, lock', mode') /\ MockModeIsMock'
      BY <1>1, <2>1, <2>2 DEF IInv, CallOK, MakesAlone, MockModeIsMock, Ready
    <2>. QED
      BY <2>1, <2>2, <2>3, <2>4, CallMoves
  <1>. QED
    BY <1>3, <1>4, <1>5

\* All providers are made: the bundle is theirs, and a load reports.
LEMMA EndKeeps ==
    ASSUME IInv, NEW t \in Threads, LoadEnds(t) \/ BundleLoaded(t)
    PROVE  IInv'
  <1>1. CallOK(t, call[t]) /\ Shape(call[t]) /\ files \in [Roles -> FileStates]
    BY DEF IInv, CallOK
  <1>2. /\ bundle' = call[t].made /\ lock' = Nobody /\ DOMAIN call[t].made = Roles
        /\ UNCHANGED <<files, mode>> /\ call[t].at = "make"
    BY DEF LoadEnds, BundleLoaded, Made, Through
  <1>3. lock = t /\ mode = call[t].asked /\ call[t].requested \subseteq Roles
    BY <1>1, <1>2 DEF CallOK, MakesAlone
  <1>4. MockModeIsMock'
    <2>. SUFFICES ASSUME mode = "mock" PROVE call[t].made = AllMocks
      BY <1>2 DEF MockModeIsMock
    <2>1. call[t].made \in {NoBundle, AllMocks}
      BY <1>1, <1>3 DEF CallOK, MadeAsAsked
    <2>2. CASE call[t].made = NoBundle
      BY <1>2, <2>2 DEF NoBundle, AllMocks
    <2>. QED
      BY <2>1, <2>2
  <1>5. CASE LoadEnds(t)
    <2>. DEFINE all == AllFailed(call[t])
                first == Opened(FirstOf(call[t].requested))
                result == IF ~all THEN "ok"
                          ELSE IF first = "missing" THEN "MODEL_FILE_MISSING"
                          ELSE "MODEL_LOAD_FAILED"
                loaded == IF call[t].asked = "real" THEN Roles \ Failed(call[t]) ELSE call[t].requested
                c == [call[t] EXCEPT !.at = "done", !.result = result, !.mode = mode, !.loaded = loaded]
    <2>1. Becomes(t, c) /\ call[t].op = "load"
      BY <1>5 DEF LoadEnds
    <2>. HIDE DEF result, loaded
    <2>2. /\ Shape(c) /\ c.made = call[t].made /\ c.at = "done" /\ c.op = call[t].op
          /\ c.asked = call[t].asked /\ c.requested = call[t].requested /\ c.repeats = call[t].repeats
      BY <1>1, Zenon DEF Shape, Fields
    <2>3. c.result = result /\ c.mode = mode /\ c.loaded = loaded
      BY <1>1, Zenon DEF Shape, Fields
    <2>. HIDE DEF c
    <2>4. MadeAsAsked(c) /\ MakesAlone(t, c, lock', mode')
      BY <1>1, <2>1, <2>2 DEF CallOK, MadeAsAsked, MakesAlone
    <2>5. TrueReport(c)
      <3>. SUFFICES ASSUME c.asked = "real" PROVE TrueReport(c)
        BY DEF TrueReport
      <3>1. \A r \in Roles : /\ Opened(r) \in {"real", "missing", "load"}
                             /\ r \in Failed(call[t]) <=> Opened(r) # "real"
        BY <1>1, <1>2, <2>2, ConstructorOutcomes DEF CallOK, MadeAsAsked, Failed, Outcomes
      <3>2. Failed(call[t]) \subseteq Roles
        BY <1>2 DEF Failed
      <3>3. loaded = {r \in Roles : Opened(r) = "real"}
        BY <2>2, <3>1, <3>2 DEF loaded
      <3>4. all => \A r \in call[t].requested : Opened(r) \in {"missing", "load"}
        BY <1>3, <3>1 DEF AllFailed
      <3>5. ~all /\ ~call[t].repeats => call[t].requested \cap loaded # {}
        BY <1>3, <2>2 DEF AllFailed, loaded
      <3>6. FirstOf(call[t].requested) \in call[t].requested
        BY <1>1, <1>3, <2>1, FirstIsOfThem DEF CallOK, MakesAlone
      <3>9. first = Opened(FirstOf(call[t].requested))
        OBVIOUS
      <3>. HIDE DEF all, first
      <3>7. \/ result = "ok" /\ ~all
            \/ result = "MODEL_FILE_MISSING" /\ all /\ first = "missing"
            \/ result = "MODEL_LOAD_FAILED" /\ all /\ first # "missing"
        BY DEF result
      <3>8. all => first \in {"missing", "load"}
        BY <3>4, <3>6, <3>9
      <3>. QED
        BY <1>3, <2>2, <2>3, <3>3, <3>4, <3>5, <3>6, <3>7, <3>8, <3>9 DEF TrueReport
    <2>. QED
      BY <1>2, <1>3, <1>4, <2>1, <2>2, <2>4, <2>5, CallMoves
  <1>6. CASE BundleLoaded(t)
    <2>. DEFINE c == [call[t] EXCEPT !.at = "done", !.seen = Made(t)]
    <2>1. Becomes(t, c) /\ call[t].op = "bundle"
      BY <1>6 DEF BundleLoaded
    <2>2. /\ Shape(c) /\ c.made = call[t].made /\ c.at = "done" /\ c.op = call[t].op
          /\ c.asked = call[t].asked /\ c.requested = call[t].requested
      BY <1>1, Zenon DEF Shape, Fields
    <2>. HIDE DEF c
    <2>3. MadeAsAsked(c) /\ TrueReport(c) /\ MakesAlone(t, c, lock', mode')
      BY <1>1, <2>1, <2>2 DEF CallOK, MadeAsAsked, MakesAlone, TrueReport
    <2>. QED
      BY <1>2, <1>3, <1>4, <2>1, <2>2, <2>3, CallMoves
  <1>. QED
    BY <1>5, <1>6

\* A bundle is read, or the providers are listed: nothing is changed.
LEMMA ReadKeeps ==
    ASSUME IInv, NEW t \in Threads,
           BundleRead(t) \/ ListNothing(t) \/ ListRole(t) \/ ListReports(t)
    PROVE  IInv'
  <1>1. CallOK(t, call[t]) /\ Shape(call[t])
    BY DEF IInv, CallOK
  <1>2. UNCHANGED <<files, mode, bundle, lock>> /\ MockModeIsMock'
    BY DEF BundleRead, ListNothing, ListRole, ListReports, IInv, MockModeIsMock, Ready
  <1>3. ASSUME NEW c, Becomes(t, c), Shape(c), c.made = call[t].made, c.at # "make",
               c.op = call[t].op, c.asked = call[t].asked, c.requested = call[t].requested,
               c.op # "load", c.op = "list" \/ c.at = "done"
        PROVE  IInv'
    <2>1. MadeAsAsked(c) /\ TrueReport(c) /\ MakesAlone(t, c, lock', mode')
      BY <1>1, <1>3 DEF CallOK, MadeAsAsked, TrueReport, MakesAlone
    <2>. QED
      BY <1>2, <1>3, <2>1, CallMoves
  <1>4. ASSUME NEW at, NEW seen, at # "make", call[t].op = "list" \/ at = "done",
               call[t].op # "load",
               Becomes(t, [call[t] EXCEPT !.at = at, !.seen = seen])
        PROVE  IInv'
    <2>. DEFINE c == [call[t] EXCEPT !.at = at, !.seen = seen]
    <2>1. /\ Shape(c) /\ c.made = call[t].made /\ c.at = at /\ c.op = call[t].op
          /\ c.asked = call[t].asked /\ c.requested = call[t].requested
      BY <1>1, Zenon DEF Shape, Fields
    <2>. HIDE DEF c
    <2>. QED
      BY <1>3, <1>4, <2>1 DEF c
  <1>5. CASE BundleRead(t)
    <2>1. call[t].op = "bundle" /\ Becomes(t, [call[t] EXCEPT !.at = "done", !.seen = bundle])
      BY <1>5 DEF BundleRead
    <2>. QED
      BY <1>4, <2>1
  <1>6. CASE ListNothing(t)
    <2>1. call[t].op = "list" /\ Becomes(t, [call[t] EXCEPT !.at = "report", !.seen = AllMocks])
      BY <1>1, <1>6 DEF ListNothing, CallOK, MakesAlone
    <2>. QED
      BY <1>4, <2>1
  <1>7. CASE ListRole(t)
    <2>. DEFINE r == NextRole(call[t].seen)
                seen == With(call[t].seen, r, bundle[r])
                at == IF Through(seen) THEN "report" ELSE "list"
                c == [call[t] EXCEPT !.seen = seen, !.at = at]
    <2>1. call[t].op = "list" /\ Becomes(t, c)
      BY <1>1, <1>7 DEF ListRole, CallOK, MakesAlone
    <2>. HIDE DEF at, seen
    <2>2. /\ Shape(c) /\ c.made = call[t].made /\ c.at = at /\ c.op = call[t].op
          /\ c.asked = call[t].asked /\ c.requested = call[t].requested
      BY <1>1, Zenon DEF Shape, Fields
    <2>. HIDE DEF c
    <2>3. c.at # "make"
      BY <2>2 DEF at
    <2>. QED
      BY <1>3, <2>1, <2>2, <2>3
  <1>8. CASE ListReports(t)
    <2>. DEFINE result == IF Ready THEN "ready" ELSE "empty"
                c == [call[t] EXCEPT !.at = "done", !.mode = mode, !.result = result]
    <2>1. call[t].op = "list" /\ Becomes(t, c)
      BY <1>1, <1>8 DEF ListReports, CallOK, MakesAlone
    <2>2. /\ Shape(c) /\ c.made = call[t].made /\ c.at = "done" /\ c.op = call[t].op
          /\ c.asked = call[t].asked /\ c.requested = call[t].requested
      BY <1>1, Zenon DEF Shape, Fields
    <2>. HIDE DEF c
    <2>. QED
      BY <1>3, <2>1, <2>2
  <1>. QED
    BY <1>5, <1>6, <1>7, <1>8

\* Every step of the manager preserves IInv.
LEMMA StepIInv == IInv /\ [Next]_vars => IInv'
  <1>. SUFFICES ASSUME IInv, [Next]_vars PROVE IInv'
    OBVIOUS
  <1>1. CASE UNCHANGED vars
    BY <1>1 DEF vars, IInv, CallOK, MadeAsAsked, MakesAlone, TrueReport, MockModeIsMock, Ready, Opened
  <1>2. ASSUME NEW t \in Threads, CallLoad(t) \/ CallBundle(t) \/ CallList(t) \/ ThreadStep(t)
        PROVE  IInv'
    <2>1. CASE CallLoad(t) \/ CallBundle(t) \/ CallList(t)
      BY <2>1, BeginKeeps
    <2>2. CASE ThreadStep(t)
      <3>1. CASE LoadBegins(t) \/ BundleLoads(t)
        BY <3>1, LockKeeps
      <3>2. CASE Make(t) \/ MakeRaises(t) \/ MakeMocks(t)
        BY <3>2, MakeKeeps
      <3>3. CASE LoadEnds(t) \/ BundleLoaded(t)
        BY <3>3, EndKeeps
      <3>4. CASE BundleRead(t) \/ ListNothing(t) \/ ListRole(t) \/ ListReports(t)
        BY <3>4, ReadKeeps
      <3>. QED
        BY <2>2, <3>1, <3>2, <3>3, <3>4 DEF ThreadStep
    <2>. QED
      BY <1>2, <2>1, <2>2
  <1>. QED
    BY <1>1, <1>2 DEF Next

-----------------------------------------------------------------------------
\* The theorems.

\* The requests only add to the manager: beneath them it takes its own steps,
\* so the code that calls list_voices can put it in no other state.
THEOREM ChecksRefineManager == ChecksSpec => Spec
  <1>1. ChecksInit => Init
    BY DEF ChecksInit
  <1>2. [ChecksNext]_allVars => [Next]_vars
    <2>. SUFFICES ASSUME [ChecksNext]_allVars PROVE [Next]_vars
      OBVIOUS
    <2>1. CASE UNCHANGED allVars
      BY <2>1 DEF allVars, vars
    <2>2. ASSUME NEW t \in Threads, Request(t) \/ OtherCall(t) \/ CheckStep(t)
          PROVE  [Next]_vars
      <3>1. \/ CallLoad(t) \/ CallBundle(t) \/ CallList(t) \/ ThreadStep(t)
            \/ UNCHANGED vars
        BY <2>2 DEF Request, OtherCall, CheckStep, Manager, ChainChecked, SessionStarts
      <3>. QED
        BY <3>1, SMTT(30) DEF Next
    <2>. QED
      BY <2>1, <2>2 DEF ChecksNext
  <1>. QED
    BY <1>1, <1>2, PTL DEF ChecksSpec, Spec

-----------------------------------------------------------------------------
\* Types.

\* TypeOK of one call.
TypedCall(c) ==
    /\ c.at \in {"done", "acquire", "make", "list", "report"}
    /\ c.op \in {"none", "load", "bundle", "list"}
    /\ c.op = "bundle" /\ c.at = "done" => c.seen \in [Roles -> Providers] /\ Whole(c.seen)

\* What has been made for every role is the bundle of one load.
LEMMA MadeIsBundle ==
    ASSUME NEW c, MadeAsAsked(c), DOMAIN c.made = Roles
    PROVE  c.made \in [Roles -> Providers] /\ Whole(c.made)
  <1>1. \A r \in Roles : c.made[r] \in Providers
    <2>1. CASE c.asked = "mock"
      BY <2>1 DEF MadeAsAsked, NoBundle, AllMocks, Providers
    <2>2. CASE c.asked = "real"
      BY <2>2 DEF MadeAsAsked, Providers
    <2>. QED
      BY <2>1, <2>2 DEF MadeAsAsked
  <1>2. Whole(c.made)
    <2>1. CASE c.asked = "mock"
      BY <2>1, RolesExist DEF MadeAsAsked, NoBundle, AllMocks, Whole
    <2>2. CASE c.asked = "real"
      BY <2>2 DEF MadeAsAsked, Whole
    <2>. QED
      BY <2>1, <2>2 DEF MadeAsAsked
  <1>. QED
    BY <1>1, <1>2 DEF MadeAsAsked

\* A step of one call keeps the types of the others, and what they have read.
LEMMA TypedMoves ==
    ASSUME IInv, TypeOK, BundleIsWhole, NEW t \in Threads, NEW c, Becomes(t, c), TypedCall(c),
           UNCHANGED files, mode' \in {"mock", "real"}, lock' \in Threads \cup {Nobody},
           bundle' \in Bundles, (Ready => Whole(bundle))', calls' \in 0..MaxCalls, IInv'
    PROVE  TypeOK' /\ BundleIsWhole'
  <1>1. call' = [u \in Threads |-> IF u = t THEN c ELSE call[u]]
    BY DEF IInv, Becomes
  <1>2. ASSUME NEW u \in Threads PROVE TypedCall(call'[u])
    <2>1. call'[u] = IF u = t THEN c ELSE call[u]
      BY <1>1
    <2>. QED
      BY <2>1 DEF TypeOK, BundleIsWhole, TypedCall
  <1>3. \A u \in Threads : call'[u].at = "make" => lock' = u
    BY DEF IInv, CallOK, MakesAlone
  <1>4. TypeOK'
    BY <1>2, <1>3 DEF TypeOK, TypedCall
  <1>5. BundleIsWhole'
    BY <1>2 DEF BundleIsWhole, TypedCall, Whole, Opened
  <1>. QED
    BY <1>4, <1>5

LEMMA InitTypeOK == Init => TypeOK /\ BundleIsWhole
  <1>. SUFFICES ASSUME Init PROVE TypeOK /\ BundleIsWhole
    OBVIOUS
  <1>1. \A t \in Threads : call[t] = NoCall
    BY DEF Init
  <1>2. NoCall.at = "done" /\ NoCall.op = "none"
    BY DEF NoCall
  <1>. QED
    BY <1>1, <1>2, ModelAssumption DEF Init, TypeOK, Bundles, BundleIsWhole, Ready

LEMMA ThreadStepsKeep ==
    ASSUME NEW t \in Threads, ThreadStep(t)
    PROVE  UNCHANGED <<files, calls>>
  BY DEF ThreadStep, LoadBegins, Make, MakeRaises, MakeMocks, LoadEnds, BundleRead, BundleLoads,
     BundleLoaded, ListNothing, ListRole, ListReports

\* Whatever a call becomes is a call.
LEMMA StepIsTyped ==
    ASSUME IInv, TypeOK, BundleIsWhole, NEW t \in Threads, ThreadStep(t)
    PROVE  \E c : Becomes(t, c) /\ TypedCall(c)
  <1>. DEFINE old == call[t]
  <1>1. CallOK(t, old) /\ Shape(old) /\ TypedCall(old)
    BY DEF IInv, CallOK, TypeOK, BundleIsWhole, TypedCall
  <1>2. \A f \in {"op", "at", "seen"} : f \in DOMAIN old
    BY <1>1 DEF Shape, Fields
  <1>. HIDE DEF old
  <1>3. ASSUME NEW c, Becomes(t, c), c.op = old.op,
               \/ c.at \in {"make", "list", "report"}
               \/ c.at = "done" /\ old.op # "bundle"
               \/ c.at = "done" /\ c.seen \in [Roles -> Providers] /\ Whole(c.seen)
        PROVE  \E x : Becomes(t, x) /\ TypedCall(x)
    <2>1. TypedCall(c)
      BY <1>1, <1>3 DEF TypedCall
    <2>. QED
      BY <1>3, <2>1
  <1>4. CASE LoadBegins(t) \/ BundleLoads(t)
    <2>. DEFINE c == [old EXCEPT !.at = "make"]
                e == [old EXCEPT !.at = "done", !.result = "MODEL_LOAD_FAILED"]
    <2>1. c.at = "make" /\ c.op = old.op /\ e.at = "done" /\ e.op = old.op
      BY <1>2, Zenon
    <2>2. \/ Becomes(t, c)
          \/ Becomes(t, e) /\ old.op = "load"
      BY <1>4 DEF LoadBegins, BundleLoads, old
    <2>. HIDE DEF c, e
    <2>. QED
      BY <1>3, <2>1, <2>2
  <1>5. CASE Make(t) \/ MakeMocks(t)
    <2>1. PICK made : Becomes(t, [old EXCEPT !.made = made])
      BY <1>5 DEF Make, MakeMocks, old
    <2>. DEFINE c == [old EXCEPT !.made = made]
    <2>2. c.at = old.at /\ c.op = old.op
      BY <1>2, Zenon
    <2>3. old.at = "make"
      BY <1>5 DEF Make, MakingReal, MakeMocks, old
    <2>. HIDE DEF c
    <2>. QED
      BY <1>3, <2>1, <2>2, <2>3 DEF c
  <1>6. CASE MakeRaises(t)
    <2>. DEFINE c == [old EXCEPT !.at = "done", !.result = "raised"]
    <2>1. Becomes(t, c) /\ old.op # "bundle"
      BY <1>1, <1>6 DEF MakeRaises, MakingReal, CallOK, MakesAlone, old
    <2>2. c.at = "done" /\ c.op = old.op
      BY <1>2, Zenon
    <2>. HIDE DEF c
    <2>. QED
      BY <1>3, <2>1, <2>2
  <1>7. CASE LoadEnds(t)
    <2>1. old.op = "load" /\ \E result, loaded :
            Becomes(t, [old EXCEPT !.at = "done", !.result = result, !.mode = mode, !.loaded = loaded])
      BY <1>7 DEF LoadEnds, old
    <2>2. PICK result, loaded :
            Becomes(t, [old EXCEPT !.at = "done", !.result = result, !.mode = mode, !.loaded = loaded])
      BY <2>1
    <2>. DEFINE c == [old EXCEPT !.at = "done", !.result = result, !.mode = mode, !.loaded = loaded]
    <2>3. c.at = "done" /\ c.op = old.op
      BY <1>2, Zenon
    <2>. HIDE DEF c
    <2>. QED
      BY <1>3, <2>1, <2>2, <2>3 DEF c
  <1>8. CASE BundleRead(t) \/ BundleLoaded(t)
    <2>1. PICK seen \in [Roles -> Providers] :
            Whole(seen) /\ Becomes(t, [old EXCEPT !.at = "done", !.seen = seen])
      <3>1. CASE BundleRead(t)
        BY <3>1 DEF BundleRead, Ready, TypeOK, BundleIsWhole, Bundles, old
      <3>2. CASE BundleLoaded(t)
        <4>1. old.made \in [Roles -> Providers] /\ Whole(old.made)
          BY <1>1, <3>2, MadeIsBundle DEF BundleLoaded, Through, Made, CallOK, old
        <4>. QED
          BY <3>2, <4>1 DEF BundleLoaded, Made, old
      <3>. QED
        BY <1>8, <3>1, <3>2
    <2>. DEFINE c == [old EXCEPT !.at = "done", !.seen = seen]
    <2>2. c.at = "done" /\ c.op = old.op /\ c.seen = seen
      BY <1>2, Zenon
    <2>. HIDE DEF c
    <2>. QED
      BY <1>3, <2>1, <2>2 DEF c
  <1>9. CASE ListNothing(t) \/ ListRole(t)
    <2>1. PICK at \in {"list", "report"} : \E seen : Becomes(t, [old EXCEPT !.at = at, !.seen = seen])
      <3>1. CASE ListNothing(t)
        BY <3>1 DEF ListNothing, old
      <3>2. CASE ListRole(t)
        <4>. DEFINE s == With(old.seen, NextRole(old.seen), bundle[NextRole(old.seen)])
                    at == IF Through(s) THEN "report" ELSE "list"
        <4>1. Becomes(t, [old EXCEPT !.seen = s, !.at = at])
          BY <3>2 DEF ListRole, old
        <4>. HIDE DEF s
        <4>2. [old EXCEPT !.seen = s, !.at = at] = [old EXCEPT !.at = at, !.seen = s]
          BY <1>2
        <4>. QED
          BY <4>1, <4>2
      <3>. QED
        BY <1>9, <3>1, <3>2
    <2>2. PICK seen : Becomes(t, [old EXCEPT !.at = at, !.seen = seen])
      BY <2>1
    <2>. DEFINE c == [old EXCEPT !.at = at, !.seen = seen]
    <2>3. c.at = at /\ c.op = old.op
      BY <1>2, Zenon
    <2>. HIDE DEF c
    <2>. QED
      BY <1>3, <2>1, <2>2, <2>3 DEF c
  <1>10. CASE ListReports(t)
    <2>. DEFINE result == IF Ready THEN "ready" ELSE "empty"
                c == [old EXCEPT !.at = "done", !.mode = mode, !.result = result]
    <2>1. Becomes(t, c) /\ old.op = "list"
      BY <1>1, <1>10 DEF ListReports, CallOK, MakesAlone, old
    <2>. HIDE DEF result
    <2>2. c.at = "done" /\ c.op = old.op
      BY <1>2, Zenon
    <2>. HIDE DEF c
    <2>. QED
      BY <1>3, <2>1, <2>2
  <1>. QED
    BY <1>4, <1>5, <1>6, <1>7, <1>8, <1>9, <1>10 DEF ThreadStep

LEMMA StepTypeOK ==
    IInv /\ IInv' /\ TypeOK /\ BundleIsWhole /\ [Next]_vars => TypeOK' /\ BundleIsWhole'
  <1>. SUFFICES ASSUME IInv, IInv', TypeOK, BundleIsWhole, [Next]_vars
                PROVE  TypeOK' /\ BundleIsWhole'
    OBVIOUS
  <1>1. CASE UNCHANGED vars
    BY <1>1 DEF vars, TypeOK, BundleIsWhole, Ready, Whole, Opened
  <1>2. ASSUME NEW t \in Threads, NEW c, Begin(t, c), c.at \in {"acquire", "list"},
               c.op \in {"load", "bundle", "list"}
        PROVE  TypeOK' /\ BundleIsWhole'
    <2>1. TypedCall(c)
      BY <1>2 DEF TypedCall
    <2>2. calls' \in 0..MaxCalls
      BY <1>2, ModelAssumption DEF Begin, TypeOK
    <2>3. (Ready => Whole(bundle))'
      BY <1>2 DEF Begin, BundleIsWhole, Ready, Whole, Opened
    <2>. QED
      BY <1>2, <2>1, <2>2, <2>3, TypedMoves DEF Begin, TypeOK
  <1>3. ASSUME NEW t \in Threads, CallLoad(t) \/ CallBundle(t) \/ CallList(t)
        PROVE  TypeOK' /\ BundleIsWhole'
    <2>1. CASE CallLoad(t)
      <3>1. PICK requested \in (SUBSET Roles) \cup {{Unknown}}, asked \in {"mock", "real"}, repeats \in BOOLEAN :
              Begin(t, [NoCall EXCEPT !.op = "load", !.at = "acquire", !.asked = asked, !.repeats = repeats,
                          !.requested = IF requested = {} THEN Roles ELSE requested])
        BY <2>1 DEF CallLoad
      <3>. DEFINE names == IF requested = {} THEN Roles ELSE requested
                  c == [NoCall EXCEPT !.op = "load", !.at = "acquire", !.asked = asked,
                          !.repeats = repeats, !.requested = names]
      <3>. HIDE DEF names
      <3>2. c.at = "acquire" /\ c.op = "load"
        BY Zenon DEF NoCall
      <3>. HIDE DEF c
      <3>. QED
        BY <1>2, <3>1, <3>2 DEF c, names
    <2>2. CASE CallBundle(t)
      <3>. DEFINE c == [NoCall EXCEPT !.op = "bundle", !.at = "acquire"]
      <3>1. c.at = "acquire" /\ c.op = "bundle" /\ Begin(t, c)
        BY <2>2 DEF NoCall, CallBundle
      <3>. QED
        BY <1>2, <3>1
    <2>3. CASE CallList(t)
      <3>. DEFINE c == [NoCall EXCEPT !.op = "list", !.at = "list"]
      <3>1. c.at = "list" /\ c.op = "list" /\ Begin(t, c)
        BY <2>3 DEF NoCall, CallList
      <3>. QED
        BY <1>2, <3>1
    <2>. QED
      BY <1>3, <2>1, <2>2, <2>3
  <1>4. ASSUME NEW t \in Threads, ThreadStep(t) PROVE TypeOK' /\ BundleIsWhole'
    <2>1. CallOK(t, call[t]) /\ Shape(call[t]) /\ TypedCall(call[t])
      BY DEF IInv, CallOK, TypeOK, BundleIsWhole, TypedCall
    <2>2. UNCHANGED <<files, calls>>
      BY <1>4, ThreadStepsKeep
    <2>3. mode' \in {"mock", "real"} /\ lock' \in Threads \cup {Nobody}
      BY <1>4, <2>1 DEF ThreadStep, LoadBegins, Make, MakeRaises, MakeMocks, LoadEnds, BundleRead,
         BundleLoads, BundleLoaded, ListNothing, ListRole, ListReports, TypeOK, CallOK, MadeAsAsked
    <2>4. bundle' \in Bundles /\ (Ready => Whole(bundle))'
      <3>1. CASE LoadEnds(t) \/ BundleLoaded(t)
        <4>1. bundle' = call[t].made /\ DOMAIN call[t].made = Roles
          BY <3>1 DEF LoadEnds, BundleLoaded, Made, Through
        <4>2. call[t].made \in [Roles -> Providers] /\ Whole(call[t].made)
          BY <2>1, <4>1, MadeIsBundle DEF CallOK
        <4>. QED
          BY <2>2, <4>1, <4>2 DEF Bundles, Whole, Opened
      <3>2. CASE UNCHANGED bundle
        BY <2>2, <3>2 DEF TypeOK, BundleIsWhole, Ready, Whole, Opened
      <3>. QED
        BY <1>4, <3>1, <3>2 DEF ThreadStep, LoadBegins, Make, MakeRaises, MakeMocks, BundleRead,
           BundleLoads, ListNothing, ListRole, ListReports
    <2>5. ASSUME NEW c, Becomes(t, c), TypedCall(c) PROVE TypeOK' /\ BundleIsWhole'
      BY <2>2, <2>3, <2>4, <2>5, TypedMoves DEF TypeOK
    <2>. QED
      BY <1>4, <2>1, <2>5, StepIsTyped
  <1>. QED
    BY <1>1, <1>3, <1>4 DEF Next

LEMMA Invariance == Spec => []IInv
  BY InitIInv, StepIInv, PTL DEF Spec

\* Only the holder of the lock makes providers, and what a reader of the bundle
\* was given has a provider for every role, whatever else is loaded meanwhile.
THEOREM ManagerTypeCorrect == ChecksSpec => []TypeOK
  <1>1. Spec => [](TypeOK /\ BundleIsWhole)
    BY InitTypeOK, StepTypeOK, Invariance, PTL DEF Spec
  <1>. QED
    BY <1>1, ChecksRefineManager, PTL

\* Whatever roles loads name and whichever of them fail, raise or wait: the
\* bundle in use, and what any reader was given, is the work of one load.
THEOREM BundlesAreWhole == ChecksSpec => []BundleIsWhole
  <1>1. Spec => [](TypeOK /\ BundleIsWhole)
    BY InitTypeOK, StepTypeOK, Invariance, PTL DEF Spec
  <1>. QED
    BY <1>1, ChecksRefineManager, PTL

\* Whatever loads were refused, failed or raised before, in whatever order the
\* threads got the lock: with no load under way, a service in mock mode has no
\* provider but mocks.
THEOREM MockModeHolds == ChecksSpec => []MockModeIsMock
  <1>1. IInv => MockModeIsMock
    BY DEF IInv
  <1>. QED
    BY <1>1, Invariance, ChecksRefineManager, PTL

\* What a real load reports is true of the files, though others change the
\* mode and the bundle around it.
THEOREM LoadReportsTruth == ChecksSpec => []ReportIsTrue
  <1>1. IInv => ReportIsTrue
    BY DEF IInv, CallOK, TrueReport, ReportIsTrue
  <1>. QED
    BY <1>1, Invariance, ChecksRefineManager, PTL

-----------------------------------------------------------------------------
\* The requests: what a check found stays true of what it answered.

CheckFields == {"at", "pair", "voices", "missing", "result"}

CheckShape(k) == k = [f \in CheckFields |-> k[f]]

\* A chain that was found complete is, by the voices that the request has read,
\* and nothing is named as missing; one that was not has something missing.
Found(k) ==
    /\ k.at = "chained" => k.result = "complete"
    /\ k.result \in {"complete", "started", "exists"} =>
          k.missing = {}
    /\ k.result = "incomplete" => k.missing # {}

CheckInv ==
    /\ voiceDir \in SUBSET VoiceLanguages
    /\ check = [t \in Threads |-> check[t]]
    /\ \A t \in Threads : CheckShape(check[t]) /\ Found(check[t])

\* Whatever synthesiser the bundle has, its voices speak registered languages.
LEMMA VoicesAreRegistered ==
    ASSUME voiceDir \in SUBSET VoiceLanguages, NEW tts, NEW v \in VoicesOf(tts)
    PROVE  v.language \in Registry
  <1>1. CASE tts = "mock"
    BY <1>1 DEF VoicesOf, MockVoices, Registry
  <1>2. CASE tts # "mock"
    BY <1>2 DEF VoicesOf, PiperVoices, VoiceLanguages, Registry
  <1>. QED
    BY <1>1, <1>2

\* A complete chain misses nothing, when the voices speak registered languages.
LEMMA CompleteMissesNothing ==
    ASSUME NEW source, NEW target, NEW voices,
           \A v \in voices : v.language \in Registry,
           Complete(source, target, voices)
    PROVE  Missing(source, target, voices) = {}
  <1>1. Recognised(source) /\ Speaks(voices, target)
    BY DEF Complete
  <1>2. Recognised(target)
    BY <1>1 DEF Speaks, Recognised
  <1>3. /\ {x \in {source} : ~Recognised(x)} = {}
        /\ {x \in {target} : ~Recognised(x)} = {}
        /\ {x \in {target} : ~Speaks(voices, x)} = {}
    BY <1>1, <1>2
  <1>. QED
    BY <1>3 DEF Missing

\* An incomplete chain has a reason among what is missing.
LEMMA IncompleteMissesSome ==
    ASSUME NEW source, NEW target, NEW voices, ~Complete(source, target, voices)
    PROVE  Missing(source, target, voices) # {}
  <1>1. CASE ~Recognised(source)
    <2>1. [part |-> "asr", language |-> source] \in Missing(source, target, voices)
      BY <1>1 DEF Missing
    <2>. QED
      BY <2>1
  <1>2. CASE ~Speaks(voices, target)
    <2>1. [part |-> "tts", language |-> target] \in Missing(source, target, voices)
      BY <1>2 DEF Missing
    <2>. QED
      BY <2>1
  <1>. QED
    BY <1>1, <1>2 DEF Complete

LEMMA InitCheckInv == ChecksInit => CheckInv
  <1>. SUFFICES ASSUME ChecksInit PROVE CheckInv
    OBVIOUS
  <1>1. check = [t \in Threads |-> check[t]] /\ \A t \in Threads : check[t] = NoCheck
    BY DEF ChecksInit
  <1>2. CheckShape(NoCheck)
    BY Zenon DEF CheckShape, CheckFields, NoCheck
  <1>3. Found(NoCheck)
    BY DEF Found, NoCheck
  <1>. QED
    BY <1>1, <1>2, <1>3, ChecksAssumption DEF CheckInv, ChecksInit

\* A request that moves on leaves the others as they are.
LEMMA RequestMoves ==
    ASSUME CheckInv, NEW t \in Threads, NEW k, Proceeds(t, k), UNCHANGED voiceDir,
           CheckShape(k), Found(k)
    PROVE  CheckInv'
  <1>1. check' = [u \in Threads |-> IF u = t THEN k ELSE check[u]]
    BY DEF CheckInv, Proceeds
  <1>2. check' = [u \in Threads |-> check'[u]]
    BY <1>1
  <1>3. ASSUME NEW u \in Threads PROVE CheckShape(check'[u]) /\ Found(check'[u])
    <2>1. check'[u] = IF u = t THEN k ELSE check[u]
      BY <1>1
    <2>. QED
      BY <2>1 DEF CheckInv
  <1>. QED
    BY <1>2, <1>3 DEF CheckInv, CheckShape, Found

\* Every step of the requests preserves CheckInv.
LEMMA StepCheckInv == CheckInv /\ [ChecksNext]_allVars => CheckInv'
  <1>. SUFFICES ASSUME CheckInv, [ChecksNext]_allVars PROVE CheckInv'
    OBVIOUS
  <1>1. CASE UNCHANGED checkVars
    BY <1>1 DEF checkVars, CheckInv, CheckShape, Found
  <1>2. ASSUME NEW t \in Threads, Request(t) PROVE CheckInv'
    <2>1. PICK pair \in Pairs : Proceeds(t, [NoCheck EXCEPT !.at = "voices", !.pair = pair])
      BY <1>2 DEF Request
    <2>. DEFINE k == [NoCheck EXCEPT !.at = "voices", !.pair = pair]
    <2>2. CheckShape(k) /\ k.at = "voices" /\ k.result = "none"
      BY Zenon DEF CheckShape, CheckFields, NoCheck
    <2>3. UNCHANGED voiceDir
      BY <1>2 DEF Request
    <2>. HIDE DEF k
    <2>4. Found(k)
      BY <2>2 DEF Found
    <2>. QED
      BY <2>1, <2>2, <2>3, <2>4, RequestMoves DEF k
  <1>3. ASSUME NEW t \in Threads, ChainChecked(t) PROVE CheckInv'
    <2>. DEFINE pair == check[t].pair
                voices == VoicesOf(call[t].seen[Tts])
                complete == Complete(pair[1], pair[2], voices)
                missing == Missing(pair[1], pair[2], voices)
                result == IF complete THEN "complete" ELSE "incomplete"
    <2>1. PICK at \in {"answered"} \cup IF complete THEN {"chained"} ELSE {} :
            Proceeds(t, [check[t] EXCEPT !.voices = voices, !.missing = missing,
                                         !.at = at, !.result = result])
      BY <1>3 DEF ChainChecked
    <2>. DEFINE k == [check[t] EXCEPT !.voices = voices, !.missing = missing,
                                      !.at = at, !.result = result]
    <2>2. CheckShape(check[t]) /\ UNCHANGED voiceDir
      BY <1>3 DEF CheckInv, ChainChecked
    <2>3. \A v \in voices : v.language \in Registry
      BY VoicesAreRegistered DEF CheckInv
    <2>4. complete => missing = {}
      BY <2>3, CompleteMissesNothing
    <2>5. ~complete => missing # {}
      BY IncompleteMissesSome
    <2>. HIDE DEF voices, missing
    <2>6. CheckShape(k) /\ k.at = at /\ k.pair = pair /\ k.voices = voices
      BY <2>2, Zenon DEF CheckShape, CheckFields
    <2>7. k.missing = missing /\ k.result = result
      BY <2>2, Zenon DEF CheckShape, CheckFields
    <2>. HIDE DEF k, pair
    <2>8. Found(k)
      BY <2>1, <2>4, <2>5, <2>6, <2>7 DEF Found
    <2>. QED
      BY <2>1, <2>2, <2>6, <2>8, RequestMoves DEF k
  <1>4. ASSUME NEW t \in Threads, SessionStarts(t) PROVE CheckInv'
    <2>1. PICK result \in {"started", "exists"} :
            Proceeds(t, [check[t] EXCEPT !.at = "answered", !.result = result])
      BY <1>4 DEF SessionStarts
    <2>. DEFINE k == [check[t] EXCEPT !.at = "answered", !.result = result]
    <2>2. CheckShape(check[t]) /\ Found(check[t]) /\ check[t].at = "chained" /\ UNCHANGED voiceDir
      BY <1>4 DEF CheckInv, SessionStarts
    <2>3. /\ CheckShape(k) /\ k.at = "answered" /\ k.result = result
          /\ k.pair = check[t].pair /\ k.voices = check[t].voices /\ k.missing = check[t].missing
      BY <2>2, Zenon DEF CheckShape, CheckFields
    <2>. HIDE DEF k
    <2>4. Found(k)
      BY <2>2, <2>3 DEF Found
    <2>. QED
      BY <2>1, <2>2, <2>3, <2>4, RequestMoves DEF k
  <1>. QED
    BY <1>1, <1>2, <1>3, <1>4
       DEF ChecksNext, OtherCall, CheckStep, Manager, allVars, checkVars

LEMMA CheckInvariance == ChecksSpec => []CheckInv
  BY InitCheckInv, StepCheckInv, PTL DEF ChecksSpec

\* No chain is refused without a reason, and none with one is let through.
THEOREM RefusalsHaveReasons == ChecksSpec => []RefusalsAreNamed
  <1>1. CheckInv => RefusalsAreNamed
    BY DEF CheckInv, Found, RefusalsAreNamed
  <1>. QED
    BY <1>1, CheckInvariance, PTL
=============================================================================
