------------------------ MODULE NGraphCompilerProofs ------------------------
(***************************************************************************)
(* Theorems about NGraphCompiler, for any number of threads, addresses,    *)
(* emitters and backends and for any environment.                          *)
(***************************************************************************)
EXTENDS NGraphCompiler, TLAPS

USE DEF At, Goto, Abort, mapVars, backendVars

-----------------------------------------------------------------------------
(* Typing: a thread inside a map operation or an Emit has the key at hand. *)

KeyHeld == \A t \in Threads :
    pc[t] \in {"inserting", "finding", "emitting"} => cur[t] \in Addrs
TypeInv == TypeOK /\ KeyHeld

LEMMA MapStepsKeepType ==
    ASSUME TypeInv, NEW t \in Threads,
           \/ BeginCompile(t)
           \/ \E a \in Addrs, e \in Emitters : FuseInstructions(t, a, e)
           \/ InsertDone(t) \/ PassesDone(t) \/ CheckRequest(t)
    PROVE  TypeInv'
<1> USE ConstantsAssumption DEF TypeInv, KeyHeld, TypeOK, Steps, AbortReasons
<1>1. CASE BeginCompile(t)
  BY <1>1 DEF BeginCompile
<1>2. ASSUME NEW a \in Addrs, NEW e \in Emitters, FuseInstructions(t, a, e)
      PROVE  TypeInv'
  BY <1>2 DEF FuseInstructions, RaceOfWrite, Writers, Readers
<1>3. CASE InsertDone(t)
  <2>1. fusion_map' \in [Addrs -> Emitters \cup {None}]
    BY <1>3 DEF InsertDone
  <2>2. QED BY <2>1, <1>3 DEF InsertDone
<1>4. CASE PassesDone(t)
  BY <1>4 DEF PassesDone
<1>5. CASE CheckRequest(t)
  BY <1>5 DEF CheckRequest
<1>6. QED BY <1>1, <1>2, <1>3, <1>4, <1>5

LEMMA VisitStepsKeepType ==
    ASSUME TypeInv, NEW t \in Threads,
           \/ \E a \in Addrs : FindBegin(t, a)
           \/ FindDone(t) \/ EmitDone(t) \/ VisitFails(t) \/ VisitDone(t)
    PROVE  TypeInv'
<1> USE ConstantsAssumption DEF TypeInv, KeyHeld, TypeOK, Steps, AbortReasons
<1>1. ASSUME NEW a \in Addrs, FindBegin(t, a)
      PROVE  TypeInv'
  BY <1>1 DEF FindBegin, RaceOfRead, Writers
<1>2. CASE FindDone(t)
  BY <1>2 DEF FindDone
<1>3. CASE EmitDone(t)
  BY <1>3 DEF EmitDone
<1>4. CASE VisitFails(t)
  BY <1>4 DEF VisitFails
<1>5. CASE VisitDone(t)
  BY <1>5 DEF VisitDone
<1>6. QED BY <1>1, <1>2, <1>3, <1>4, <1>5

LEMMA BackendStepsKeepType ==
    ASSUME TypeInv, NEW t \in Threads,
           \/ LockModule(t) \/ CheckBackend(t)
           \/ \E b \in Backends : CreateBackend(t, b)
           \/ MakeExecutable(t) \/ DestroyExecutable(t)
    PROVE  TypeInv'
<1> USE ConstantsAssumption DEF TypeInv, KeyHeld, TypeOK, Steps, AbortReasons
<1>1. CASE LockModule(t)
  BY <1>1 DEF LockModule
<1>2. CASE CheckBackend(t)
  BY <1>2 DEF CheckBackend
<1>3. ASSUME NEW b \in Backends, CreateBackend(t, b)
      PROVE  TypeInv'
  BY <1>3 DEF CreateBackend
<1>4. CASE MakeExecutable(t)
  BY <1>4 DEF MakeExecutable
<1>5. CASE DestroyExecutable(t)
  BY <1>5 DEF DestroyExecutable
<1>6. QED BY <1>1, <1>2, <1>3, <1>4, <1>5

LEMMA TypeStep == TypeInv /\ [Next]_vars => TypeInv'
<1> SUFFICES ASSUME TypeInv, [Next]_vars PROVE TypeInv'
  OBVIOUS
<1>1. ASSUME NEW t \in Threads,
             BeginCompile(t) \/ CompileStep(t) \/ DestroyExecutable(t)
      PROVE  TypeInv'
  BY <1>1, MapStepsKeepType, VisitStepsKeepType, BackendStepsKeepType
  DEF CompileStep
<1>2. CASE UNCHANGED vars
  BY <1>2 DEF vars, TypeInv, KeyHeld, TypeOK
<1>3. QED BY <1>1, <1>2 DEF Next

\* Every variable of the compiler keeps its type, whatever the callers do.
THEOREM TypeCorrect == Spec => []TypeOK
<1>1. Init => TypeInv
  BY ConstantsAssumption DEF Init, TypeInv, KeyHeld, TypeOK, Steps, AbortReasons
<1>2. TypeInv /\ [Next]_vars => TypeInv'
  BY TypeStep
<1>3. TypeInv => TypeOK
  BY DEF TypeInv
<1>4. QED BY <1>1, <1>2, <1>3, PTL DEF Spec

-----------------------------------------------------------------------------
(* The backend: no lock of the callers is needed. *)

\* The critical section of RunBackend: its holder alone is in it, the backend is
\* made in it only while there is none, and who left it finds one.
BackendInv ==
    /\ \A t \in Threads : pc[t] \in {"locked", "creating"} => mutex = t
    /\ \A t \in Threads : pc[t] = "creating" => backend = None
    /\ \A t \in Threads : pc[t] = "reading" => backend # None
    /\ OneBackend

LEMMA BackendStep == TypeInv /\ BackendInv /\ [Next]_vars => BackendInv'
<1> SUFFICES ASSUME TypeInv, BackendInv, [Next]_vars PROVE BackendInv'
  OBVIOUS
<1> USE ConstantsAssumption
    DEF TypeInv, TypeOK, Steps, BackendInv, OneBackend
<1>1. ASSUME NEW t \in Threads, LockModule(t)
      PROVE  BackendInv'
  BY <1>1 DEF LockModule
<1>2. ASSUME NEW t \in Threads, CheckBackend(t)
      PROVE  BackendInv'
  BY <1>2 DEF CheckBackend
<1>3. ASSUME NEW t \in Threads, NEW b \in Backends, CreateBackend(t, b)
      PROVE  BackendInv'
  BY <1>3 DEF CreateBackend
<1>4. ASSUME NEW t \in Threads, MakeExecutable(t)
      PROVE  BackendInv'
  BY <1>4 DEF MakeExecutable
<1>5. ASSUME NEW t \in Threads, DestroyExecutable(t)
      PROVE  BackendInv'
  BY <1>5 DEF DestroyExecutable
<1>6. ASSUME NEW t \in Threads,
             \/ BeginCompile(t)
             \/ \E a \in Addrs, e \in Emitters : FuseInstructions(t, a, e)
             \/ InsertDone(t) \/ PassesDone(t) \/ CheckRequest(t)
      PROVE  BackendInv'
  BY <1>6 DEF BeginCompile, FuseInstructions, InsertDone, PassesDone,
              CheckRequest
<1>7. ASSUME NEW t \in Threads,
             \/ \E a \in Addrs : FindBegin(t, a)
             \/ FindDone(t) \/ EmitDone(t) \/ VisitFails(t) \/ VisitDone(t)
      PROVE  BackendInv'
  BY <1>7 DEF FindBegin, FindDone, EmitDone, VisitFails, VisitDone
<1>8. CASE UNCHANGED vars
  BY <1>8 DEF vars
<1>9. QED
  BY <1>1, <1>2, <1>3, <1>4, <1>5, <1>6, <1>7, <1>8 DEF Next, CompileStep

\* However many threads compile at once, all executables run on one backend and
\* the unlocked read of m_ngraph_backend is safe.
THEOREM BackendCorrect == Spec => [](OneBackend /\ BackendReadsSafe)
<1>1. Init => TypeInv /\ BackendInv
  BY ConstantsAssumption DEF Init, TypeInv, KeyHeld, TypeOK, Steps,
     AbortReasons, BackendInv, OneBackend
<1>2. TypeInv /\ BackendInv /\ [Next]_vars => (TypeInv /\ BackendInv)'
  BY TypeStep, BackendStep
<1>3. TypeInv /\ BackendInv => OneBackend /\ BackendReadsSafe
  BY DEF BackendInv, BackendReadsSafe
<1>4. QED BY <1>1, <1>2, <1>3, PTL DEF Spec

\* No compilation reads the backend's pointer while another may still write it.
THEOREM BackendReadSafely == Spec => []BackendReadsSafe
BY BackendCorrect, PTL

-----------------------------------------------------------------------------
(* The fusion map, when the callers serialise their compilations. *)

\* A compilation under way holds the callers' lock, so nothing races.
LockHeld == \A t \in Threads :
    pc[t] \notin {"idle", "compiled"} => compileLock = t

\* A live fusion instruction belongs to one module and has the emitter its rule
\* made; a thread's map operation or Emit is about its own module.
Ownership ==
    /\ \A t, u \in Threads : t # u => owned[t] \cap owned[u] = {}
    /\ \A t \in Threads : \A a \in owned[t] : made[a] # None
    /\ \A t \in Threads : pc[t] \in {"inserting", "finding", "emitting"} =>
                            cur[t] \in owned[t]

\* The emitter being run is the one the fusion's rule made.
RunsOwn == \A t \in Threads : pc[t] = "emitting" => using[t] = made[cur[t]]

MapInv ==
    /\ TypeInv
    /\ LockHeld
    /\ raced = {}
    /\ Ownership
    /\ FusionsMapped
    /\ RunsOwn
    /\ NoInternalError

\* What a step that leaves the map's part of the state alone must keep.
LEMMA QuietStep ==
    ASSUME MapInv, NEW t \in Threads, UNCHANGED mapVars, TypeInv', LockHeld',
           NoInternalError', NEW step \in Steps, pc' = [pc EXCEPT ![t] = step],
           step \notin {"inserting", "finding", "emitting"},
           pc[t] # "inserting"
    PROVE  MapInv'
BY DEF MapInv, TypeInv, TypeOK, Ownership, FusionsMapped, InFlight, RunsOwn

LEMMA AbortStep ==
    ASSUME MapInv, TypeInv', NoInternalError',
           UNCHANGED <<pc, compileLock, mapVars>>
    PROVE  MapInv'
BY DEF MapInv, LockHeld, Ownership, FusionsMapped, InFlight, RunsOwn

LEMMA LockStep ==
    ASSUME CallersSerialise, TypeInv, LockHeld, [Next]_vars
    PROVE  LockHeld'
<1> USE ConstantsAssumption DEF TypeInv, TypeOK, Steps, LockHeld
<1>1. ASSUME NEW t \in Threads, BeginCompile(t)
      PROVE  LockHeld'
  BY <1>1 DEF BeginCompile
<1>2. ASSUME NEW t \in Threads,
             \/ \E a \in Addrs, e \in Emitters : FuseInstructions(t, a, e)
             \/ InsertDone(t) \/ PassesDone(t) \/ CheckRequest(t)
      PROVE  LockHeld'
  BY <1>2 DEF FuseInstructions, InsertDone, PassesDone, CheckRequest
<1>3. ASSUME NEW t \in Threads,
             \/ \E a \in Addrs : FindBegin(t, a)
             \/ FindDone(t) \/ EmitDone(t) \/ VisitFails(t) \/ VisitDone(t)
      PROVE  LockHeld'
  BY <1>3 DEF FindBegin, FindDone, EmitDone, VisitFails, VisitDone
<1>4. ASSUME NEW t \in Threads,
             \/ LockModule(t) \/ CheckBackend(t)
             \/ \E b \in Backends : CreateBackend(t, b)
      PROVE  LockHeld'
  BY <1>4 DEF LockModule, CheckBackend, CreateBackend
<1>5. ASSUME NEW t \in Threads, MakeExecutable(t)
      PROVE  LockHeld'
  BY <1>5 DEF MakeExecutable
<1>6. ASSUME NEW t \in Threads, DestroyExecutable(t)
      PROVE  LockHeld'
  BY <1>6 DEF DestroyExecutable
<1>7. CASE UNCHANGED vars
  BY <1>7 DEF vars
<1>8. QED
  BY <1>1, <1>2, <1>3, <1>4, <1>5, <1>6, <1>7 DEF Next, CompileStep

\* The lock's consequence: no other thread is inside a map operation.
LEMMA NobodyRaces ==
    ASSUME MapInv, NEW t \in Threads, pc[t] \in {"fusing", "visiting"}
    PROVE  RaceOfWrite(t) = {} /\ RaceOfRead(t) = {}
BY DEF MapInv, LockHeld, RaceOfWrite, RaceOfRead, Writers, Readers

LEMMA FuseKeepsMapInv ==
    ASSUME MapInv, TypeInv', LockHeld', NEW t \in Threads, NEW a \in Addrs,
           NEW e \in Emitters, FuseInstructions(t, a, e)
    PROVE  MapInv'
<1> USE ConstantsAssumption
    DEF FuseInstructions, MapInv, TypeInv, TypeOK, Ownership
<1>1. raced' = {}
  BY NobodyRaces
<1>2. a \notin owned[t] /\ \A u \in Threads : a \notin owned[u]
  OBVIOUS
<1>3. Ownership'
  BY <1>2
<1>4. FusionsMapped'
  BY <1>2 DEF FusionsMapped, InFlight
<1>5. RunsOwn' /\ NoInternalError'
  BY <1>2 DEF RunsOwn, NoInternalError
<1>6. QED BY <1>1, <1>3, <1>4, <1>5

LEMMA InsertKeepsMapInv ==
    ASSUME MapInv, TypeInv', LockHeld', NEW t \in Threads, InsertDone(t)
    PROVE  MapInv'
<1> USE ConstantsAssumption
    DEF InsertDone, MapInv, TypeInv, TypeOK, Ownership
<1>1. fusion_map' = [fusion_map EXCEPT ![cur[t]] = made[cur[t]]]
  OBVIOUS
<1>2. Ownership' /\ raced' = {}
  OBVIOUS
<1>3. FusionsMapped'
  BY <1>1 DEF FusionsMapped, InFlight
<1>4. RunsOwn' /\ NoInternalError'
  BY DEF RunsOwn, NoInternalError
<1>5. QED BY <1>2, <1>3, <1>4

LEMMA FindKeepsMapInv ==
    ASSUME MapInv, TypeInv', LockHeld', NEW t \in Threads,
           (\E a \in Addrs : FindBegin(t, a)) \/ FindDone(t)
    PROVE  MapInv'
<1> USE ConstantsAssumption
    DEF MapInv, TypeInv, TypeOK, Ownership, FusionsMapped, InFlight, RunsOwn,
        NoInternalError
<1>1. ASSUME NEW a \in Addrs, FindBegin(t, a)
      PROVE  MapInv'
  <2>1. raced' = {}
    BY <1>1, NobodyRaces DEF FindBegin
  <2>2. QED BY <1>1, <2>1 DEF FindBegin
<1>2. CASE FindDone(t)
  <2>1. fusion_map[cur[t]] = made[cur[t]] /\ made[cur[t]] # None
    BY <1>2 DEF FindDone
  <2>2. QED BY <1>2, <2>1 DEF FindDone
<1>3. QED BY <1>1, <1>2

LEMMA EmitKeepsMapInv ==
    ASSUME MapInv, TypeInv', LockHeld', NEW t \in Threads, EmitDone(t)
    PROVE  MapInv'
BY ConstantsAssumption
DEF EmitDone, MapInv, TypeInv, TypeOK, Ownership, FusionsMapped, InFlight,
    RunsOwn, NoInternalError

LEMMA DestroyKeepsMapInv ==
    ASSUME MapInv, TypeInv', LockHeld', NEW t \in Threads,
           DestroyExecutable(t)
    PROVE  MapInv'
<1> USE DEF DestroyExecutable, MapInv, TypeInv, TypeOK, Ownership
<1>1. \A u \in Threads \ {t} : \A a \in owned[u] : made'[a] = made[a]
  OBVIOUS
<1>2. Ownership'
  BY <1>1
<1>3. FusionsMapped'
  BY <1>1 DEF FusionsMapped, InFlight
<1>4. RunsOwn' /\ NoInternalError'
  BY <1>1 DEF RunsOwn, NoInternalError
<1>5. QED BY <1>2, <1>3, <1>4

LEMMA MapStep ==
    ASSUME CallersSerialise
    PROVE  MapInv /\ [Next]_vars => MapInv'
<1> SUFFICES ASSUME MapInv, [Next]_vars PROVE MapInv'
  OBVIOUS
<1>1. TypeInv' /\ LockHeld'
  BY TypeStep, LockStep DEF MapInv
<1>2. ASSUME NEW t \in Threads,
             BeginCompile(t) \/ CompileStep(t) \/ DestroyExecutable(t)
      PROVE  MapInv'
  <2>1. CASE BeginCompile(t) \/ PassesDone(t) \/ LockModule(t)
             \/ (\E b \in Backends : CreateBackend(t, b))
             \/ MakeExecutable(t)
    BY <1>1, <2>1, QuietStep
    DEF BeginCompile, PassesDone, LockModule, CreateBackend, MakeExecutable,
        MapInv, NoInternalError, Steps
  <2>2. CASE CheckRequest(t) \/ VisitDone(t) \/ VisitFails(t)
             \/ CheckBackend(t)
    <3>1. NoInternalError'
      BY <2>2 DEF CheckRequest, VisitDone, VisitFails, CheckBackend, MapInv,
                  NoInternalError
    <3>2. CASE UNCHANGED pc
      BY <1>1, <2>2, <3>1, <3>2, AbortStep
      DEF CheckRequest, VisitDone, VisitFails, CheckBackend
    <3>3. CASE ~UNCHANGED pc
      BY <1>1, <2>2, <3>1, <3>3, QuietStep
      DEF CheckRequest, VisitDone, VisitFails, CheckBackend, Steps
    <3>4. QED BY <3>2, <3>3
  <2>3. QED
    BY <1>1, <1>2, <2>1, <2>2, FuseKeepsMapInv, InsertKeepsMapInv,
       FindKeepsMapInv, EmitKeepsMapInv, DestroyKeepsMapInv
    DEF CompileStep
<1>3. CASE UNCHANGED vars
  BY <1>1, <1>3, AbortStep DEF vars, MapInv, NoInternalError
<1>4. QED BY <1>2, <1>3 DEF Next

\* With callers that serialise their compilations, the never-cleaned map serves
\* every fusion its own emitter, however addresses are reused, and the process
\* never aborts for want of one.
THEOREM FusionMapCorrect ==
    ASSUME CallersSerialise
    PROVE  Spec => [](FusionsMapped /\ EmitterInUseAlive /\ NoInternalError)
<1>1. Init => MapInv
  BY ConstantsAssumption
  DEF Init, MapInv, TypeInv, KeyHeld, TypeOK, Steps, AbortReasons, LockHeld,
      Ownership, FusionsMapped, RunsOwn, NoInternalError
<1>2. MapInv /\ [Next]_vars => MapInv'
  BY MapStep
<1>3. MapInv => FusionsMapped /\ EmitterInUseAlive /\ NoInternalError
  BY DEF MapInv, Ownership, FusionsMapped, InFlight, RunsOwn,
         EmitterInUseAlive
<1>4. QED BY <1>1, <1>2, <1>3, PTL DEF Spec

\* What ProcessFusion runs is alive until Emit returns.
THEOREM EmitterAlive ==
    ASSUME CallersSerialise
    PROVE  Spec => []EmitterInUseAlive
BY FusionMapCorrect, PTL

\* The abort that ProcessFusion calls likely an internal error does not occur.
THEOREM NeverInternalError ==
    ASSUME CallersSerialise
    PROVE  Spec => []NoInternalError
BY FusionMapCorrect, PTL

-----------------------------------------------------------------------------
(* The compiler implements FusionService. *)

\* Two live instructions never share an emitter, and a thread has an emitter in
\* use only while it runs Emit.
Exclusive ==
    /\ \A a, b \in Addrs : a # b /\ made[a] # None => made[a] # made[b]
    /\ \A t \in Threads : using[t] # None => pc[t] = "emitting"

LEMMA ExclusiveStep == TypeInv /\ Exclusive /\ [Next]_vars => Exclusive'
<1> SUFFICES ASSUME TypeInv, Exclusive, [Next]_vars PROVE Exclusive'
  OBVIOUS
<1> USE ConstantsAssumption DEF TypeInv, TypeOK, Steps, Exclusive
<1>1. ASSUME NEW t \in Threads, NEW a \in Addrs, NEW e \in Emitters,
             FuseInstructions(t, a, e)
      PROVE  Exclusive'
  BY <1>1 DEF FuseInstructions, FreeEmitters
<1>2. ASSUME NEW t \in Threads,
             \/ BeginCompile(t)
             \/ InsertDone(t) \/ PassesDone(t) \/ CheckRequest(t)
      PROVE  Exclusive'
  BY <1>2 DEF BeginCompile, InsertDone, PassesDone, CheckRequest
<1>3. ASSUME NEW t \in Threads,
             \/ \E a \in Addrs : FindBegin(t, a)
             \/ FindDone(t) \/ EmitDone(t) \/ VisitFails(t) \/ VisitDone(t)
      PROVE  Exclusive'
  BY <1>3 DEF FindBegin, FindDone, EmitDone, VisitFails, VisitDone
<1>4. ASSUME NEW t \in Threads,
             \/ LockModule(t) \/ CheckBackend(t)
             \/ \E b \in Backends : CreateBackend(t, b)
             \/ MakeExecutable(t) \/ DestroyExecutable(t)
      PROVE  Exclusive'
  BY <1>4 DEF LockModule, CheckBackend, CreateBackend, MakeExecutable,
              DestroyExecutable
<1>5. CASE UNCHANGED vars
  BY <1>5 DEF vars
<1>6. QED BY <1>1, <1>2, <1>3, <1>4, <1>5 DEF Next, CompileStep

ServiceInv == MapInv /\ Exclusive

\* Steps that change neither the phases nor the live associations.
LEMMA StutterStep ==
    ASSUME ServiceInv, NEW t \in Threads,
           \/ \E a \in Addrs, e \in Emitters : FuseInstructions(t, a, e)
           \/ PassesDone(t) \/ CheckRequest(t)
           \/ \E a \in Addrs : FindBegin(t, a)
           \/ VisitFails(t) \/ VisitDone(t)
           \/ LockModule(t) \/ CheckBackend(t)
           \/ \E b \in Backends : CreateBackend(t, b)
    PROVE  UNCHANGED <<phaseBar, fusionsBar, using>>
<1> USE DEF ServiceInv, MapInv, TypeInv, TypeOK, Steps
<1>1. ASSUME NEW a \in Addrs, NEW e \in Emitters, FuseInstructions(t, a, e)
      PROVE  UNCHANGED <<phaseBar, fusionsBar, using>>
  <2> USE <1>1 DEF FuseInstructions
  <2>1. UNCHANGED phaseBar
    BY DEF phaseBar
  <2>2. ASSUME NEW u \in Threads, NEW b \in Addrs
        PROVE  (b \in owned'[u] /\ ~InFlight(u, b)') =
               (b \in owned[u] /\ ~InFlight(u, b))
    BY ConstantsAssumption DEF Ownership, InFlight
  <2>3. \A u \in Threads : \A b \in owned[u] : made'[b] = made[b]
    BY DEF Ownership
  <2>4. UNCHANGED fusionsBar
    BY <2>2, <2>3 DEF fusionsBar
  <2>5. QED BY <2>1, <2>4
<1>2. CASE PassesDone(t) \/ CheckRequest(t) \/ VisitFails(t) \/ VisitDone(t)
           \/ (\E a \in Addrs : FindBegin(t, a))
  BY <1>2 DEF PassesDone, CheckRequest, VisitFails, VisitDone, FindBegin,
              phaseBar, fusionsBar, InFlight
<1>3. CASE LockModule(t) \/ CheckBackend(t)
           \/ (\E b \in Backends : CreateBackend(t, b))
  BY <1>3 DEF LockModule, CheckBackend, CreateBackend, phaseBar, fusionsBar,
              InFlight
<1>4. QED BY <1>1, <1>2, <1>3

\* Two curried functions that agree but at one point.
LEMMA PointUpdate ==
    ASSUME NEW S, NEW A, NEW V, NEW f \in [S -> [A -> V]],
           NEW g \in [S -> [A -> V]], NEW s \in S, NEW a \in A, NEW v \in V,
           \A u \in S, b \in A :
              g[u][b] = IF u = s /\ b = a THEN v ELSE f[u][b]
    PROVE  g = [f EXCEPT ![s] = [@ EXCEPT ![a] = v]]
<1>1. g[s] = [f[s] EXCEPT ![a] = v]
  OBVIOUS
<1>2. \A u \in S \ {s} : g[u] = f[u]
  <2>1. ASSUME NEW u \in S \ {s}
        PROVE  g[u] = f[u]
    <3>1. g[u] \in [A -> V] /\ f[u] \in [A -> V]
      OBVIOUS
    <3>2. \A b \in A : g[u][b] = f[u][b]
      OBVIOUS
    <3>3. QED BY <3>1, <3>2
  <2>2. QED BY <2>1
<1>3. QED BY <1>1, <1>2

LEMMA BeginRefines ==
    ASSUME ServiceInv, NEW t \in Threads, BeginCompile(t)
    PROVE  Service!Begin(t)
BY DEF BeginCompile, Service!Begin, ServiceInv, MapInv, TypeInv, TypeOK, Steps,
       phaseBar, fusionsBar, InFlight

LEMMA InsertRefines ==
    ASSUME ServiceInv, NEW t \in Threads, InsertDone(t)
    PROVE  Service!Fuse(t, cur[t], made[cur[t]])
<1> USE DEF InsertDone, ServiceInv, MapInv, TypeInv, TypeOK, Steps, KeyHeld,
        Ownership
<1>1. phaseBar[t] = "compiling" /\ UNCHANGED <<phaseBar, using>>
  BY DEF phaseBar
<1>2. \A u \in Threads : fusionsBar[u][cur[t]] = None
  BY DEF fusionsBar, InFlight
<1>3. \A u \in Threads, b \in Addrs : fusionsBar[u][b] # made[cur[t]]
  BY DEF fusionsBar, InFlight, Exclusive
<1>4. fusionsBar' = [fusionsBar EXCEPT
                        ![t] = [@ EXCEPT ![cur[t]] = made[cur[t]]]]
  <2>1. ASSUME NEW u \in Threads, NEW b \in Addrs, u # t \/ b # cur[t]
        PROVE  (b \in owned[u] /\ ~InFlight(u, b))' =
               (b \in owned[u] /\ ~InFlight(u, b))
    BY <2>1 DEF InFlight
  <2>2. ASSUME NEW u \in Threads, NEW b \in Addrs
        PROVE  fusionsBar'[u][b] = 
               IF u = t /\ b = cur[t] THEN made[cur[t]] ELSE fusionsBar[u][b]
    BY <2>1 DEF fusionsBar, InFlight
  <2>3. /\ fusionsBar \in [Threads -> [Addrs -> Emitters \cup {None}]]
        /\ fusionsBar' \in [Threads -> [Addrs -> Emitters \cup {None}]]
    BY DEF fusionsBar
  <2>4. cur[t] \in Addrs /\ made[cur[t]] \in Emitters \cup {None}
    OBVIOUS
  <2>5. QED BY ONLY <2>2, <2>3, <2>4, t \in Threads, PointUpdate
<1>5. QED BY <1>1, <1>2, <1>3, <1>4 DEF Service!Fuse

LEMMA FindRefines ==
    ASSUME ServiceInv, NEW t \in Threads, FindDone(t)
    PROVE  \/ Service!RunEmitter(t, cur[t])
           \/ UNCHANGED <<phaseBar, fusionsBar, using>>
<1> USE DEF ServiceInv, MapInv, TypeInv, TypeOK, Steps, KeyHeld, Ownership
<1>1. UNCHANGED <<phaseBar, fusionsBar>>
  BY DEF FindDone, phaseBar, fusionsBar, InFlight
<1>2. CASE UNCHANGED using
  BY <1>1, <1>2
<1>3. CASE ~UNCHANGED using
  <2>1. /\ At(t, "finding")
        /\ using' = [using EXCEPT ![t] = fusion_map[cur[t]]]
    BY <1>3 DEF FindDone
  <2>2. fusion_map[cur[t]] = made[cur[t]] /\ made[cur[t]] # None
    BY <2>1 DEF FusionsMapped, InFlight
  <2>3. fusionsBar[t][cur[t]] = made[cur[t]]
    BY <2>1 DEF fusionsBar, InFlight
  <2>4. phaseBar[t] = "compiling" /\ using[t] = None
    BY <2>1 DEF phaseBar, Exclusive
  <2>5. QED BY <1>1, <2>1, <2>2, <2>3, <2>4 DEF Service!RunEmitter
<1>4. QED BY <1>2, <1>3

LEMMA EmitRefines ==
    ASSUME ServiceInv, NEW t \in Threads, EmitDone(t)
    PROVE  Service!EmitterReturns(t)
<1> USE DEF EmitDone, ServiceInv, MapInv, TypeInv, TypeOK, Steps, Ownership
<1>1. using[t] # None
  BY DEF RunsOwn
<1>2. UNCHANGED <<phaseBar, fusionsBar>>
  BY DEF phaseBar, fusionsBar, InFlight
<1>3. QED BY <1>1, <1>2 DEF Service!EmitterReturns

LEMMA ReturnRefines ==
    ASSUME ServiceInv, NEW t \in Threads, MakeExecutable(t)
    PROVE  Service!Return(t)
BY DEF MakeExecutable, Service!Return, ServiceInv, MapInv, TypeInv, TypeOK,
       Steps, Exclusive, phaseBar, fusionsBar, InFlight

LEMMA DestroyRefines ==
    ASSUME ServiceInv, NEW t \in Threads, DestroyExecutable(t)
    PROVE  Service!Destroy(t)
<1> USE DEF DestroyExecutable, ServiceInv, MapInv, TypeInv, TypeOK, Steps
<1>1. /\ phaseBar[t] = "compiled"
      /\ phaseBar' = [phaseBar EXCEPT ![t] = "idle"]
  BY DEF phaseBar
<1>2. \A u \in Threads \ {t} : \A a \in owned[u] : made'[a] = made[a]
  BY DEF Ownership
<1>3. fusionsBar' = [fusionsBar EXCEPT ![t] = Service!NoFusions]
  BY <1>2 DEF fusionsBar, InFlight, Service!NoFusions
<1>4. QED BY <1>1, <1>3 DEF Service!Destroy

\* With callers that serialise their compilations, the compiler and its one map
\* implement the private associations of FusionService.
THEOREM ServiceImplemented ==
    ASSUME CallersSerialise
    PROVE  Spec => ImplementsFusionService
<1>1. Init => ServiceInv /\ Service!Init
  <2> SUFFICES ASSUME Init PROVE ServiceInv /\ Service!Init
    OBVIOUS
  <2>1. ServiceInv
    BY ConstantsAssumption
    DEF Init, ServiceInv, Exclusive, MapInv, TypeInv, KeyHeld, TypeOK, Steps,
        AbortReasons, LockHeld, Ownership, FusionsMapped, RunsOwn,
        NoInternalError
  <2>2. Service!Init
    BY DEF Init, Service!Init, Service!NoFusions, phaseBar, fusionsBar
  <2>3. QED BY <2>1, <2>2
<1>2. ServiceInv /\ [Next]_vars => ServiceInv'
  BY MapStep, ExclusiveStep DEF ServiceInv, MapInv
<1>3. ServiceInv /\ [Next]_vars => [Service!Next]_(Service!vars)
  <2> SUFFICES ASSUME ServiceInv, [Next]_vars
               PROVE  [Service!Next]_(Service!vars)
    OBVIOUS
  <2>1. ASSUME NEW t \in Threads,
               BeginCompile(t) \/ CompileStep(t) \/ DestroyExecutable(t)
        PROVE  [Service!Next]_(Service!vars)
    <3>1. CASE BeginCompile(t) \/ MakeExecutable(t) \/ DestroyExecutable(t)
      BY <3>1, BeginRefines, ReturnRefines, DestroyRefines DEF Service!Next
    <3>2. CASE InsertDone(t)
      <4>1. cur[t] \in Addrs /\ made[cur[t]] \in Emitters
        BY <3>2 DEF InsertDone, ServiceInv, MapInv, TypeInv, TypeOK, KeyHeld,
                    Ownership
      <4>2. QED BY <3>2, <4>1, InsertRefines DEF Service!Next
    <3>3. CASE FindDone(t)
      <4>1. cur[t] \in Addrs
        BY <3>3 DEF FindDone, ServiceInv, MapInv, TypeInv, KeyHeld
      <4>2. QED BY <3>3, <4>1, FindRefines DEF Service!Next, Service!vars
    <3>4. CASE EmitDone(t)
      BY <3>4, EmitRefines DEF Service!Next
    <3>5. QED
      BY <2>1, <3>1, <3>2, <3>3, <3>4, StutterStep
      DEF CompileStep, Service!vars
  <2>2. CASE UNCHANGED vars
    BY <2>2 DEF vars, Service!vars, phaseBar, fusionsBar, InFlight
  <2>3. QED BY <2>1, <2>2 DEF Next
<1>4. QED BY <1>1, <1>2, <1>3, PTL DEF Spec, ImplementsFusionService, Service!Spec

=============================================================================
