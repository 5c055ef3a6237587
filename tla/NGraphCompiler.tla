--------------------------- MODULE NGraphCompiler ---------------------------
(***************************************************************************)
(* The singleton NGraphCompiler that every thread of the XLA service calls *)
(* through the plugin table: RunHloPasses (fusion) and then RunBackend     *)
(* (visit of the graph, creation of the backend, executable).              *)
(*                                                                         *)
(* The compiler object lives as long as the process and keeps two things   *)
(* between compilations: m_fusion_map, keyed by the ADDRESS of the kCustom *)
(* fusion instructions it created and never cleaned, and the shared        *)
(* m_ngraph_backend, created on first use under m_module_mutex.  HLO       *)
(* modules die with their executables, so an address (and an emitter       *)
(* object) is allocated again while the map still has its old entry.       *)
(***************************************************************************)
EXTENDS FiniteSets

CONSTANTS
    Threads,          \* threads of the XLA service that compile
    Addrs,            \* heap addresses a kCustom HloInstruction may get
    Emitters,         \* heap addresses a FusedOpEmitter may get
    Backends,         \* ngraph::runtime::Backend objects
    Environments,     \* the values of the four XLA_NGRAPH_* variables
    CallersSerialise, \* TRUE: the callers hold a lock around a compilation
    None              \* nullptr, "no entry" and "no thread"

IntValues == {"unset", "zero", "one", "other", "garbage"}
BackendNames == {"unset", "registered", "unregistered", "unparsable"}
EnvRecords == [skipFusion : BOOLEAN, dump : IntValues, serialize : IntValues,
               backend : BackendNames]

ASSUME ConstantsAssumption ==
    /\ Environments \subseteq EnvRecords
    /\ CallersSerialise \in BOOLEAN
    /\ None \notin Threads \cup Addrs \cup Emitters \cup Backends

VARIABLES
    env,         \* the environment of the process, read by getenv
    process,     \* "running", or the reason of the abort
    pc,          \* where each thread is in its compilation
    compileLock, \* holder of the callers' lock, when they serialise
    owned,       \* fusion instructions of the module the thread compiles
    made,        \* emitter the fusion rule made for a live instruction
    fusion_map,  \* NGraphCompiler::m_fusion_map
    cur,         \* key of the thread's current map operation or Emit
    using,       \* emitter the thread is running Emit of
    raced,       \* threads whose map operation overlapped a write of the map
    emitted,     \* fusions of the thread's module that are emitted
    mutex,       \* NGraphCompiler::m_module_mutex
    backend,     \* NGraphCompiler::m_ngraph_backend
    execBackend  \* the backend the thread's executable keeps

vars == <<env, process, pc, compileLock, owned, made, fusion_map, cur, using,
          raced, emitted, mutex, backend, execBackend>>
mapVars == <<owned, made, fusion_map, cur, using, raced, emitted>>
backendVars == <<mutex, backend, execBackend>>

Steps == {"idle", "fusing", "inserting", "passed", "visiting", "finding",
          "emitting", "waiting", "locked", "creating", "reading", "compiled"}
AbortReasons == {"configuration", "unsupported", "no_emitter", "backend"}

TypeOK ==
    /\ env \in Environments
    /\ process \in {"running"} \cup AbortReasons
    /\ pc \in [Threads -> Steps]
    /\ compileLock \in Threads \cup {None}
    /\ owned \in [Threads -> SUBSET Addrs]
    /\ made \in [Addrs -> Emitters \cup {None}]
    /\ fusion_map \in [Addrs -> Emitters \cup {None}]
    /\ cur \in [Threads -> Addrs \cup {None}]
    /\ using \in [Threads -> Emitters \cup {None}]
    /\ raced \in SUBSET Threads
    /\ emitted \in [Threads -> SUBSET Addrs]
    /\ mutex \in Threads \cup {None}
    /\ backend \in Backends \cup {None}
    /\ execBackend \in [Threads -> Backends \cup {None}]

Init ==
    /\ env \in Environments
    /\ process = "running"
    /\ pc = [t \in Threads |-> "idle"]
    /\ compileLock = None
    /\ owned = [t \in Threads |-> {}]
    /\ made = [a \in Addrs |-> None]
    /\ fusion_map = [a \in Addrs |-> None]
    /\ cur = [t \in Threads |-> None]
    /\ using = [t \in Threads |-> None]
    /\ raced = {}
    /\ emitted = [t \in Threads |-> {}]
    /\ mutex = None
    /\ backend = None
    /\ execBackend = [t \in Threads |-> None]

-----------------------------------------------------------------------------
At(t, step) == process = "running" /\ pc[t] = step
Goto(t, step) == pc' = [pc EXCEPT ![t] = step]

\* The plugin's ValueOrDie and the TF_CHECK_OKs: the whole process ends.
Abort(reason) ==
    /\ process' = reason
    /\ UNCHANGED <<env, pc, compileLock, mapVars, backendVars>>

\* What the two integer variables and the backend name may hold.
DumpInvalid == env.dump \in {"other", "garbage"}
SerializeInvalid == env.serialize \in {"other", "garbage"}

\* A writer of the map races with every thread inside a map operation, a
\* reader with every writer: nothing in RunHloPasses or in ProcessFusion locks.
Writers == {t \in Threads : pc[t] = "inserting"}
Readers == {t \in Threads : pc[t] = "finding"}
RaceOfWrite(t) ==
    IF Writers \cup Readers = {} THEN raced
                                 ELSE raced \cup {t} \cup Writers \cup Readers
RaceOfRead(t) == IF Writers = {} THEN raced ELSE raced \cup {t} \cup Writers

FreeEmitters ==
    {e \in Emitters : \A a \in Addrs : e # fusion_map[a] /\ e # made[a]}

-----------------------------------------------------------------------------
\* The service hands a module to the plugin's RunHloPasses.
BeginCompile(t) ==
    /\ At(t, "idle")
    /\ IF CallersSerialise
         THEN compileLock = None /\ compileLock' = t
         ELSE UNCHANGED compileLock
    /\ Goto(t, "fusing")
    /\ UNCHANGED <<env, process, mapVars, backendVars>>

\* A rule matches: it makes its emitter, and FuseInstructions creates the
\* kCustom instruction, at an address nothing lives at, and enters operator[].
FuseInstructions(t, a, e) ==
    /\ At(t, "fusing")
    /\ ~env.skipFusion
    /\ made[a] = None
    /\ e \in FreeEmitters
    /\ made' = [made EXCEPT ![a] = e]
    /\ owned' = [owned EXCEPT ![t] = @ \cup {a}]
    /\ cur' = [cur EXCEPT ![t] = a]
    /\ raced' = RaceOfWrite(t)
    /\ Goto(t, "inserting")
    /\ UNCHANGED <<env, process, compileLock, fusion_map, using, emitted,
                   backendVars>>

\* Mutant: the entry is emplaced, which keeps the one already at the address.
InsertDoneEmplaces(t) ==
    /\ At(t, "inserting")
    /\ fusion_map' = [fusion_map EXCEPT
                        ![cur[t]] = IF @ = None THEN made[cur[t]] ELSE @]
    /\ raced' = raced \ {t}
    /\ cur' = [cur EXCEPT ![t] = None]
    /\ Goto(t, "fusing")
    /\ UNCHANGED <<env, process, compileLock, owned, made, using, emitted,
                   backendVars>>

\* The assignment through operator[] ends: it replaces, and so destroys, the
\* emitter an earlier instruction at this address left.  A raced assignment is
\* undefined; the entry may be lost.
InsertDone(t) ==
    /\ At(t, "inserting")
    /\ \/ fusion_map' = [fusion_map EXCEPT ![cur[t]] = made[cur[t]]]
       \/ t \in raced /\ UNCHANGED fusion_map
    /\ raced' = raced \ {t}
    /\ cur' = [cur EXCEPT ![t] = None]
    /\ Goto(t, "fusing")
    /\ UNCHANGED <<env, process, compileLock, owned, made, using, emitted,
                   backendVars>>

\* HloPassFix saw a run of NGraphFusion without a change (or the pass was
\* skipped); the plugin returns the module and the service calls RunBackend.
PassesDone(t) ==
    /\ At(t, "fusing")
    /\ Goto(t, "passed")
    /\ UNCHANGED <<env, process, compileLock, mapVars, backendVars>>

\* RunBackend up to the visit of the graph: the dump variable, the stream
\* executor, the control edges.
CheckRequest(t) ==
    /\ At(t, "passed")
    /\ \/ DumpInvalid /\ Abort("configuration")
       \/ ~DumpInvalid /\ Abort("unsupported")
       \/ /\ ~DumpInvalid
          /\ Goto(t, "visiting")
          /\ UNCHANGED <<env, process, compileLock, mapVars, backendVars>>

\* ProcessFusion enters m_fusion_map->find for the next fusion of the visit.
FindBegin(t, a) ==
    /\ At(t, "visiting")
    /\ a \in owned[t] \ emitted[t]
    /\ cur' = [cur EXCEPT ![t] = a]
    /\ raced' = RaceOfRead(t)
    /\ Goto(t, "finding")
    /\ UNCHANGED <<env, process, compileLock, owned, made, fusion_map, using,
                   emitted, backendVars>>

\* Mutant: the iterator's key is taken for its value.
FindDoneTakesKey(t) ==
    /\ At(t, "finding")
    /\ using' = [using EXCEPT ![t] = cur[t]]
    /\ raced' = raced \ {t}
    /\ Goto(t, "emitting")
    /\ UNCHANGED <<env, process, compileLock, owned, made, fusion_map, cur,
                   emitted, backendVars>>

\* find ends.  A missing entry is the Unimplemented "likely an internal error",
\* on which TF_CHECK_OK(Accept) aborts; a raced find may miss any entry.
FindDone(t) ==
    /\ At(t, "finding")
    /\ \/ /\ fusion_map[cur[t]] = None \/ t \in raced
          /\ Abort("no_emitter")
       \/ /\ fusion_map[cur[t]] # None
          /\ using' = [using EXCEPT ![t] = fusion_map[cur[t]]]
          /\ raced' = raced \ {t}
          /\ Goto(t, "emitting")
          /\ UNCHANGED <<env, process, compileLock, owned, made, fusion_map,
                         cur, emitted, backendVars>>

\* fusion_emitter->Emit(fusion, m_op_map) returns.
EmitDone(t) ==
    /\ At(t, "emitting")
    /\ emitted' = [emitted EXCEPT ![t] = @ \cup {cur[t]}]
    /\ using' = [using EXCEPT ![t] = None]
    /\ cur' = [cur EXCEPT ![t] = None]
    /\ Goto(t, "visiting")
    /\ UNCHANGED <<env, process, compileLock, owned, made, fusion_map, raced,
                   backendVars>>

\* A Process* method or an Emit refuses an instruction of the module.
VisitFails(t) ==
    /\ At(t, "visiting") \/ At(t, "emitting")
    /\ Abort("unsupported")

\* The root is visited: the nGraph function is built and maybe serialised.
VisitDone(t) ==
    /\ At(t, "visiting")
    /\ emitted[t] = owned[t]
    /\ IF SerializeInvalid
         THEN Abort("configuration")
         ELSE /\ Goto(t, "waiting")
              /\ UNCHANGED <<env, process, compileLock, mapVars, backendVars>>

\* Mutant: the lock_guard is dropped.
LockModuleUnguarded(t) ==
    /\ At(t, "waiting")
    /\ mutex' = t
    /\ Goto(t, "locked")
    /\ UNCHANGED <<env, process, compileLock, mapVars, backend, execBackend>>

LockModule(t) ==
    /\ At(t, "waiting")
    /\ mutex = None
    /\ mutex' = t
    /\ Goto(t, "locked")
    /\ UNCHANGED <<env, process, compileLock, mapVars, backend, execBackend>>

\* Mutant: the backend is created anew by every compilation.
CheckBackendAlways(t) ==
    /\ At(t, "locked")
    /\ Goto(t, "creating")
    /\ UNCHANGED <<env, process, compileLock, mapVars, backendVars>>

\* Mutant: the lock is released by the thread that creates the backend only.
CheckBackendKeepsLock(t) ==
    /\ At(t, "locked")
    /\ Goto(t, IF backend = None THEN "creating" ELSE "reading")
    /\ UNCHANGED <<env, process, compileLock, mapVars, backendVars>>

\* The first compilation of the process makes the backend, the others leave
\* the critical section.  Backend::create throws on an unregistered name.
CheckBackend(t) ==
    /\ At(t, "locked")
    /\ \/ /\ backend # None
          /\ mutex' = None
          /\ Goto(t, "reading")
          /\ UNCHANGED <<env, process, compileLock, mapVars, backend,
                         execBackend>>
       \/ /\ backend = None
          /\ \/ env.backend = "unparsable" /\ Abort("configuration")
             \/ env.backend = "unregistered" /\ Abort("backend")
             \/ /\ env.backend \in {"unset", "registered"}
                /\ Goto(t, "creating")
                /\ UNCHANGED <<env, process, compileLock, mapVars, backendVars>>

\* m_ngraph_backend = Backend::create(...), and the lock_guard ends.  The new
\* object differs from every object still referenced.
CreateBackend(t, b) ==
    /\ At(t, "creating")
    /\ b # backend
    /\ \A u \in Threads : execBackend[u] # b
    /\ backend' = b
    /\ mutex' = None
    /\ Goto(t, "reading")
    /\ UNCHANGED <<env, process, compileLock, mapVars, execBackend>>

\* The shared_ptr is read again, outside the lock, for the executable, which
\* takes the module; the plugin returns it.
MakeExecutable(t) ==
    /\ At(t, "reading")
    /\ execBackend' = [execBackend EXCEPT ![t] = backend]
    /\ compileLock' = IF CallersSerialise THEN None ELSE compileLock
    /\ Goto(t, "compiled")
    /\ UNCHANGED <<env, process, mapVars, mutex, backend>>

\* Mutant: a dying executable clears the whole map.
DestroyExecutableClears(t) ==
    /\ At(t, "compiled")
    /\ made' = [a \in Addrs |-> IF a \in owned[t] THEN None ELSE made[a]]
    /\ fusion_map' = [a \in Addrs |-> None]
    /\ owned' = [owned EXCEPT ![t] = {}]
    /\ emitted' = [emitted EXCEPT ![t] = {}]
    /\ execBackend' = [execBackend EXCEPT ![t] = None]
    /\ Goto(t, "idle")
    /\ UNCHANGED <<env, process, compileLock, cur, using, raced, mutex, backend>>

\* The executable dies, and with it the module and its instructions.  Their
\* entries stay in the fusion map.
DestroyExecutable(t) ==
    /\ At(t, "compiled")
    /\ made' = [a \in Addrs |-> IF a \in owned[t] THEN None ELSE made[a]]
    /\ owned' = [owned EXCEPT ![t] = {}]
    /\ emitted' = [emitted EXCEPT ![t] = {}]
    /\ execBackend' = [execBackend EXCEPT ![t] = None]
    /\ Goto(t, "idle")
    /\ UNCHANGED <<env, process, compileLock, fusion_map, cur, using, raced,
                   mutex, backend>>

-----------------------------------------------------------------------------
\* What a thread does inside the plugin once its compilation has begun.
CompileStep(t) ==
    \/ \E a \in Addrs, e \in Emitters : FuseInstructions(t, a, e)
    \/ InsertDone(t)
    \/ PassesDone(t)
    \/ CheckRequest(t)
    \/ \E a \in Addrs : FindBegin(t, a)
    \/ FindDone(t)
    \/ EmitDone(t)
    \/ VisitFails(t)
    \/ VisitDone(t)
    \/ LockModule(t)
    \/ CheckBackend(t)
    \/ \E b \in Backends : CreateBackend(t, b)
    \/ MakeExecutable(t)

Next == \E t \in Threads :
            BeginCompile(t) \/ CompileStep(t) \/ DestroyExecutable(t)

Spec == Init /\ [][Next]_vars

\* Threads keep running, and m_module_mutex, held for a few instructions by
\* each thread in turn, is not denied for ever to one that waits for it.
FairSpec == Spec /\ \A t \in Threads :
                        WF_vars(CompileStep(t)) /\ SF_vars(LockModule(t))

-----------------------------------------------------------------------------
(* Properties *)

\* Every fusion instruction of a live module (but the one being entered) is in
\* m_fusion_map with the emitter its own rule made: the stale entry of an
\* earlier instruction at the same address never shows through
\* (FuseInstructions, ngraph_fusion.cc:136-143).
InFlight(t, a) == pc[t] = "inserting" /\ cur[t] = a
FusionsMapped ==
    \A t \in Threads : \A a \in owned[t] :
        InFlight(t, a) \/ fusion_map[a] = made[a]

\* The emitter a thread is running Emit of is the one made for that fusion, is
\* still the map's (so not destroyed), and no assignment in progress is about to
\* destroy it (ProcessFusion keeps a reference into the map while Emit runs).
EmitterInUseAlive ==
    \A t \in Threads : pc[t] = "emitting" =>
        /\ using[t] = made[cur[t]]
        /\ using[t] = fusion_map[cur[t]]
        /\ \A u \in Threads : ~InFlight(u, cur[t])

\* The "likely an internal error in the nGraph bridge" of ProcessFusion, which
\* aborts the process, does not happen (ngraph_emitter.cc:1576-1580).
NoInternalError == process # "no_emitter"

\* All the executables run on the one backend the compiler keeps
\* (m_ngraph_backend is created at most once; ngraph_compiler.cc:214-237).
OneBackend ==
    \A t \in Threads : execBackend[t] \in {None, backend}

\* The read of m_ngraph_backend outside the critical section finds an object,
\* and nobody is assigning the shared_ptr meanwhile (ngraph_compiler.cc:234).
BackendReadsSafe ==
    \A t \in Threads : pc[t] = "reading" =>
        /\ backend # None
        /\ \A u \in Threads : pc[u] # "creating"

\* A compilation that began ends, with an executable or with the process.
CompileReturns ==
    \A t \in Threads :
        pc[t] = "fusing" ~> (pc[t] = "compiled" \/ process # "running")

\* What the rules made for the live modules is the exclusive association
\* FusionService promises, and what a look-up in the process-wide map makes
\* Emit run is that association's emitter (ngraph_emitter.cc:1568-1591).
phaseBar == [t \in Threads |-> IF pc[t] \in {"idle", "compiled"}
                                 THEN pc[t] ELSE "compiling"]
fusionsBar == [t \in Threads |-> [a \in Addrs |->
                  IF a \in owned[t] /\ ~InFlight(t, a) THEN made[a]
                                                        ELSE None]]
Service == INSTANCE FusionService
               WITH phase <- phaseBar, fusions <- fusionsBar, running <- using
ImplementsFusionService == Service!Spec

=============================================================================
