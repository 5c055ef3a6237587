# A verification project for the nGraph bridge for TensorFlow

`src/` is the bridge that makes Intel nGraph an XLA back end of TensorFlow: a
shared library that TensorFlow's XLA loads as a plugin. XLA hands it HLO modules;
the bridge rewrites them (fusion), translates them to nGraph functions, compiles
those on a backend and runs them on its own "device", which is the memory and the
threads of the host.

This directory holds TLA+ models of its parts, the TLC configurations that check
them on small instances, and proofs, checked by TLAPS, that hold for every value
of the constants. Section 1 is the inventory of the system; sections 2 to 4 say
what each module models, what each run checks and what is proved; section 5 lists
what the checks disagree with; sections 6 and 7 say what is not modelled and what
comes next. File names without a directory are under `src/src/`.

## 1. The system

### 1.1 Components, their state and their operations

| component | source | state | operations |
|---|---|---|---|
| Plugin entry points | `ngraph_plugin.cc` | one static `NGraphCompiler`, the tables of supported device and data types | `RunHloPasses`, `RunBackend` (each a `ValueOrDie` on the compiler's), `GetTransferManager`, device information |
| `NGraphCompiler` | `ngraph_compiler.{h,cc}` | `m_fusion_map` (process-wide), `m_ngraph_backend`, `m_module_mutex` | `RunHloPasses`, `RunBackend`, `GetShapeSizeBytes` |
| `NGraphFusion` | `ngraph_fusion.{h,cc}` | a reference to the fusion map, the computation it rewrites | a DFS visitor with one rule per pattern (max and average pooling, their gradients, convolution gradients, relu, relu gradient, reductions), `FuseInstructions` |
| Fusion map | `ngraph_emitter.h` | instruction address -> `FusedOpEmitter` | written by `FuseInstructions`, read by `ProcessFusion` |
| `NGraphEmitter`, `NGraphOpHandler`, `NGraphBuilder` | `ngraph_emitter.{h,cc}`, `ngraph_op_handler.h` | `m_op_map`, `m_tuple_op_map_vector`, `m_parameter_number_map`, a debug list | `Initialize`, one `Process*` per opcode, `FinishVisit`, `NGraphFunction` |
| Fused-op emitters | `ngraph_emitter.{h,cc}` | the windows, shapes and permutations the rule found | `Emit` |
| `NGraphExecutable` | `ngraph_executable.{h,cc}` | the function, the backend, a mutex for the profile, the HLO module | `ExecuteOnStream`, `ExecuteAsyncOnStream` |
| `NGraphExecutor` | `ngraph_executor.{h,cc}` | device memory, one `HostStream` per stream | `Allocate`, `Deallocate`, `Memcpy` (both directions), `SynchronousMemcpy*`, `HostCallback`, `CreateStreamDependency`, `BlockHostUntilDone`, timers |
| `TransferManager` | `transfer_manager.{h,cc}` | none of its own; buffers that hold tables of pointers for tuples | literals to and from shaped buffers, `AllocateShapedBuffer` |
| XLA compatibility ops | `ngraph_xla_compat.{h,cc}` | none | `Tuple`, `XLAFunction` (flattens tuple results), `XLATuple` |
| AutoBroadcast, utilities | `ngraph_autobroadcast.*`, `ngraph_utils.*` | none | shape and axis arithmetic |
| Logging | `ngraph_log.*` | a level | output |

### 1.2 How they interact

1. A thread of the XLA service calls `RunHloPasses`. The pipeline runs `NGraphFusion`
   to a fixed point. A rule that matches makes a `FusedOpEmitter`, `FuseInstructions`
   makes a `kCustom` fusion instruction and stores the emitter in the compiler's map
   *under the instruction's address*.
2. The same thread calls `RunBackend` with the module. It reads the
   `XLA_NGRAPH_*` environment variables, runs the `NGraphEmitter` as visitor of the
   entry computation (`ProcessFusion` finds its emitter in the map and calls `Emit`),
   asks for the function, creates the shared backend under `m_module_mutex` if there
   is none, and makes an `NGraphExecutable`, which owns the module from then on.
3. Execution calls `ExecuteOnStream` with the executable: two passes over the tuple
   tree of the result allocate its buffers and make tensors, the backend is called,
   and results are copied back.
4. Data moves through `TransferManager` and the `NGraphExecutor`'s streams: each is a
   thread that runs the tasks enqueued on it in order; two streams are ordered by a
   task on one that *blocks its thread* until the other has drained.

Shared state between threads: the fusion map (no lock), the backend pointer (lock
around its creation, not around its last read), the streams' queues (their own locks,
TensorFlow's code) and buffers that queued copies refer to by address.

### 1.3 What is hard, and what makes each part correct

* **Compiler and fusion map.** The map outlives the instructions its keys point to,
  addresses are reused, and nothing locks it. Correct means: what `ProcessFusion` runs
  is the emitter its fusion's rule made, whatever was compiled before; the emitter is
  not destroyed while it runs; the "likely an internal error" abort does not occur.
* **Backend.** One per process, however many threads compile at first use; the
  pointer that is read after the lock is released is final; every compilation ends,
  with an executable or with the process.
* **Emitter.** Two maps hold what has been translated; each handler writes one of
  them or both, and reads one without checking. Correct means: the maps never hold a
  wrong node, the function computes the root from *all* parameters at their numbers,
  and no handler misses an entry its operand should have left.
* **Streams.** What a returned wait promises about the streams has happened; a copy that runs
  finds the device memory, the host memory and the descriptor it was given, if its client
  waits for it before they go; a caller's dependencies do not leave the streams' threads
  waiting on each other; every wait returns.
* **Executable, transfer.** Allocation can fail at any index; three traversals of
  the result tuple must agree on the order of its leaves; executions of one module
  overlap. Correct means: each leaf of a returned result holds the value of that leaf,
  tables point to the children's buffers, every buffer has one owner, and what a client
  reads back is what it stored, or what the module computes from it, whatever the
  layouts and whatever other clients do.
* **Rules, fused emitters, handlers.** Windows, paddings and data formats are not in the
  graph but have to be reconstructed from it; the operands of a fusion come in an order
  the fusing gives them; two libraries have different conventions for axes. Correct
  means: each rule finds its kernel wherever it stands, the rewriting leaves nothing
  dangling, and the function emitted computes what the computation did.

`PROJECT.json` lists the hazards with their lines and the properties that cover them.

## 2. The modules

| module | models | role |
|---|---|---|
| `FusionService` | what fusion and generation promise each other | abstract specification |
| `NGraphCompiler` | `ngraph_plugin.cc:95-112`, `ngraph_compiler.cc:60-239`, `ngraph_fusion.cc:123-143`, `ngraph_emitter.cc:1568-1591` | implements `FusionService` |
| `NGraphEmitter` | `ngraph_emitter.cc:42-1591`, `ngraph_emitter.h`, `ngraph_op_handler.h` | translation of one computation |
| `NGraphExecutor` | `ngraph_executor.cc:53-153` | memory and streams |
| `Tensors` | the operations of XLA and of nGraph (external) | their meaning, on tensors of integers |
| `NGraphHandlers` | `ngraph_emitter.cc:144-1563`, `ngraph_autobroadcast.cc`, `ngraph_utils.h` | what the handlers make of an instruction |
| `NGraphFusion` | `ngraph_fusion.cc:123-1243`, `ngraph_emitter.cc:1594-2205` | the rules, the rewriting, the emitters of fusions |
| `NGraphExecutable` | `ngraph_executable.cc:45-254`, `ngraph_xla_compat.cc:76-110` | executions of a compiled module |
| `LiteralService` | what a client of the device sees | abstract specification |
| `TransferManager` | `transfer_manager.cc:44-210`, `transfer_manager.h` | literals on the device; composed with `NGraphExecutable`; implements `LiteralService` |
| `MC*` | | instances for TLC |
| `*Proofs`, `NGraphFusionLemmas` | | theorems, and the lemmas about the fusion pass they rest on |
| `Induction` | | induction on numbers and on the lengths of sequences, as lemmas on sets that the provers can use |

Definitions named after a mistake (`InsertDoneEmplaces`, `ProcessTupleOpMapOnly`,
`CreateStreamDependencyAsync`, ...) are alternatives to the action they precede, each
marked *Mutant*. No specification uses them; replacing the action by one of them makes
TLC report the property `PROJECT.json` pairs it with, which shows that the
property depends on that piece of the code.

### 2.1 `NGraphCompiler`

Each thread has a program counter through one compilation at a time. The steps
are cut where another thread's step can come between in a way that matters:

| code | actions |
|---|---|
| service calls `RunHloPasses` | `BeginCompile` (takes the callers' lock if `CallersSerialise`) |
| a rule's emitter, the new instruction, entry into `operator[]` | `FuseInstructions` |
| the assignment ends and destroys an old entry's emitter | `InsertDone` |
| fixed point, or `XLA_NGRAPH_SKIP_FUSION` | `PassesDone` |
| dump variable, stream executor, control edges | `CheckRequest` |
| `m_fusion_map->find` begins / ends; `Emit` returns | `FindBegin`, `FindDone`, `EmitDone` |
| a handler refuses (`TF_CHECK_OK(Accept)`) | `VisitFails` |
| the function is built, the serialisation variable read | `VisitDone` |
| `lock_guard`, the test, `Backend::create` | `LockModule`, `CheckBackend`, `CreateBackend` |
| `make_unique<NGraphExecutable>(..., m_ngraph_backend, ...)` | `MakeExecutable` |
| the executable and its module die | `DestroyExecutable` |

`made[a]` is a live instruction at address `a` together with the emitter its rule
made for it; `fusion_map` is the compiler's map; `owned[t]` is what thread `t`'s
module consists of. Emitter addresses are reused as soon as neither the map nor a live
instruction refers to them. A map operation that overlaps a write is a data race;
`raced` records the threads in one, and a raced insertion may be lost, a raced find may
miss. (That is one of the outcomes undefined behaviour allows, and enough to
violate the property; corruption beyond it is not modelled.) An emitter is fresh for
each fusion because every rule makes it with `new` for its call of `FuseInstructions`.

Every error status of the two entry points is followed by `ValueOrDie`, and inner ones
by `TF_CHECK_OK`, so they all end the process: `process` holds the reason.
The environment variables are reduced to the classes the code tells apart.

`FusionService` has one private association per module; its `Fuse`, `RunEmitter` and
`EmitterReturns` are what `NGraphCompiler`'s `InsertDone`, `FindDone` and `EmitDone`
map to. The refinement mapping (`phaseBar`, `fusionsBar`) shows the entries the rules
*made*, and what runs is what the process-wide map *returned*: that the step is allowed
by the service is exactly that stale entries never show through.

### 2.2 `NGraphEmitter`

A computation is a sequence of instructions, operands first, the root last.
`Value(g, i)` is what HLO says instruction `i` computes, as a term (an output of an
operation applied to values, or a tuple of values); it is a constant, pinned
by `ValueEquation`, and external to the bridge. The nodes the emitter builds are terms
of the same kind, so "the translation is right" is an equation.

* `Initialize` fills `m_op_map` for **every** parameter and `m_parameter_number_map`.
* `Process(i)` runs the handler of an instruction the root depends on once its operands
  are visited, in any order the depth-first visit could take.
* There is one action per `Process*` method. Three helpers hold what they share:
  `FindAndBuild` (`m_op_map.find(x)->second` or `m_op_map[x]`, unchecked: a missing
  entry is *undefined*), `CheckAndBuild` (a refusal comes first) and `CheckAndBuildAt`
  (`m_op_map.at(x)`: a missing entry is *thrown*).
* Tuples: `ProcessTuple` writes both maps, `ProcessGetTupleElement` reads the tuple map
  only and writes the operator map only, `ProcessBatchNormTraining` and
  `ProcessBatchNormGrad` write the tuple map only.
* `NGraphFunction` collects the parameters by number and looks up the root unchecked.

The attributes of an instruction are reduced to whether its handler refuses them,
and whether a slice has strides. The nGraph nodes a handler makes from the operands'
nodes (dimension shuffles, windows, reshapes, broadcasts) are one `Output` of
the instruction: this model is about which node goes where, and the arithmetic inside
the handlers is in `NGraphHandlers` (2.5). A strided slice is the
exception: its node is `Output(i, 0, ..)`, another function of the operands.

### 2.3 `NGraphExecutor`

`queue[s]` are the pending tasks of stream `s`, the running one at the head; a task is a
copy, a callback, or the wait that `CreateStreamDependency` enqueues. A
host in `BlockUntilDone` is `blocked` on one stream; `Return` is its waking, when the
queue is empty. `known[h][s]` is a history variable: how many tasks of `s` host `h` may
take to have run, from the calls that have returned; `ticket` is what the
present call will add.

A copy names what its lambda captured. `MemcpyDeviceToHost` captures the host pointer and, *by
value*, the device address; `MemcpyHostToDevice` captures the host pointer and the *address of
the caller's* `DeviceMemoryBase`, from which it reads the device address when it runs. So the
model has three kinds of objects, device memory (`Buffers`), `HostMemory` and `Descriptors`;
`alive` are those that exist, `held[d]` is the device address in a descriptor, and `lastUse`
is where on each stream the last copy that needs an object is.

The executor checks nothing, and neither do the actions of its clients: any host frees,
reuses or rewrites any object at any time (`Free`, `Deallocate`, `Describe`). A host that does
so before the waits it returned from cover the copies that need the object
puts it into the history variable `hasty`, and only copies that were given such an
object are excused by `NoUseAfterFree`. What the property says of the code is thus that waiting
is enough: `BlockHostUntilDone` and `CreateStreamDependency` cover what they wait for,
reuse of an object included, and a copy from the device does not need its descriptor after the
call. The mutant captures that by reference.

Any host may make any stream depend on any, itself included (`Dependencies` says which, for an
instance). Since the wait occupies the stream's only thread, some of that really deadlocks.
Which is a property: `OnlyCrossedDeadlock` says that it takes a stream that waits for itself, or
calls of two hosts that have crossed (`Crossed`). One caller is safe in whatever directions,
because each of its calls returns, its waiting task served, before the next; an asynchronous
`CreateStreamDependency` would break that. Nothing under `src/` calls it or the
asynchronous `Memcpy`: the clients are TensorFlow's.

### 2.4 `NGraphExecutable`

`frame[t]` holds the locals of thread `t`'s `ExecuteOnStream`, named as there; the
shape of the result is the sequence of the nodes of its tree in pre-order, the
order in which `ShapedBuffer::buffers()` is iterated. Each iteration of a loop is a
step, so executions interleave between any two:

| code | actions |
|---|---|
| the comparison of argument and parameter counts | `ExecuteOnStream` |
| `CreateInputTensorViews`, one tensor | `CreateInputTensorView` |
| pass 1, one node: allocation, tensor for an array; or the error return | `AllocateBuffer`, `AllocationFails` |
| pass 2, one node | `SetPointers` |
| `m_ng_backend->call` with the results as `XLAFunction` flattened them | `Call`, `Results` |
| the copy-back, one node, with the counter `i` | `CopyBack` |
| the caller frees the result, or drops the error | `Release`, `Dismiss` |

The value of a result's leaf is the term `ResultOf(n, inputs)`; that the nGraph function
computes it is what `NGraphEmitter` is about. Arguments are arrays, since the emitter
refuses tuple-shaped parameters, and the arrays have the element types the emitter
lets through, so `CreateNGraphTensor` does not fail. `MayAllocate` is the
allocator: any choice among free addresses. Buffers of a failed execution are in `lost`
for ever: `ShapedBuffer` does not own them and the error return forgets them.

`Results` is `XLAFunction`'s recursion on the nodes of the root; the other traversals
go through `ShapedBuffer`'s tree. That the two orders agree for every tree is a theorem,
`FlattensInOrder`; TLC also evaluates it for the trees of up to `MaxNodes` nodes
(`TreesFlattenInOrder`).

### 2.5 `NGraphFusion`, `NGraphHandlers`, `Tensors`

A computation is again a sequence of instructions, now with shapes, windows,
dimension numbers and paddings, and it *computes*: `Value` gives a tensor of
integers for each instruction, by HLO's semantics. A fusion's value is what
its emitter's `Emit` makes of the operands the fusion has, by nGraph's semantics.
`FunctionOf` is the same with each other instruction done by its handler: it is the
function the bridge would compile. So both what the pass does and what the
emitter does with the result are equations between tensors.

| code | definitions |
|---|---|
| nine `FuseX` and their `MatchX` | operators of those names: the instructions to fuse, in the order the code collects them, and the emitter; or `NoMatch` |
| the reconstructions of data formats, padding types, windows | operators of those names |
| `FuseInstructions`, XLA's `CreateFusionInstruction` (external) | `FuseInstructions`, `FuseInstruction` for each instruction in turn: its copy goes into the fusion, its operands behind the fusion's, the original away if nothing uses it |
| `DefaultAction`: the rules in order, the first that matches | `Fuse` |
| no rule matches | `Leave` |
| the subclasses of `FusedOpEmitter` | `Emit` and the operators it names |
| `Process*`, `AutoBroadcast`, the shuffles | operators of those names in `NGraphHandlers` |

The visitor takes instructions in any order that has operands before their users. An
instruction that a rule has fused away before the visitor comes to it, or an operand
that is gone, would be a use after free: `NothingDangles`. `Missing` is the value of an operation
that cannot be made; a computation in `Computations` says whether that is expected
(`refused`), so a handler that wrongly refuses is an error, and one that wrongly
accepts too.

The rules are "tailored to recognize exactly the graphs produced by the tf2xla kernels"
(`ngraph_fusion.cc:57-60`). Those graphs are the environment: `MCNGraphFusion`
builds them as the kernels do, with the kernels' window and padding arithmetic,
and says which fusions the pass has to find in each (`KernelsRecognised`).

What the pass finds is also a function of the computation it is given, without the pass:
`Kernels(g)` has, for each instruction of the given computation, the graphs that a rule
matches with it as their root and of which no other part is the root of a kernel. (In the chain of an average pool's gradient the divide by the window's size is matched by the
average pool's rule, but its reduce-window is a kernel by itself, so the divide
is none.) `PassFindsKernels` says that the fusions are those, whatever order the
visitor takes and whatever it has rewritten on the way.
`KernelsAlone` is evaluated before anything is fused: in each given computation nothing is
divided by itself (`NoSelfDivision`), no kernel is given a part of itself
(`ArgumentsApart`), each kernel *by itself* is computed right by its emitter
(`KernelsRight`), each handler makes what its instruction means or refuses it
(`HandlersRight`), the shapes are those of XLA's shape inference (`ShapesInferred`),
rectifiers are of tensors of one shape and pools' windows not dilated (`AsKernelsMake`),
and what the instance lists of fusions and refusals is so (`Listed`). These are the
hypotheses from which the theorems conclude the same of whole computations
(section 4), so the run shows that there are computations of every kind that satisfy them.

### 2.6 `TransferManager`

`transfer[t]` holds a client's `ShapedBuffer` and the locals of its present call;
memory, allocator and executions are `NGraphExecutable`'s, by `INSTANCE`, without
arguments of its own: what an execution reads are buffers that transfers have written.

| code | actions |
|---|---|
| `AllocateShapedBuffer`: the layout's check, then each node's buffer, or the error return | `AllocateShapedBuffer`, `Allocate`, `AllocationFails` |
| `TransferLiteralToDevice`: the shapes' check, the tables of pointers, the arrays | `TransferLiteralToDevice`, `WriteTupleIndexTable`, `TransferArrayToDevice` |
| `TransferLiteralFromDevice`, one array, the literal returned | `TransferLiteralFromDevice`, `TransferArrayFromDevice`, `LiteralDone` |
| the owner frees the buffers | `Deallocate` |
| XLA's service executes a module and frees the result | `ExecuteOnStream`, `Execute`, `Release`, `Dismiss` |

An array's bytes are a function of its elements *and* its layout (`Bytes`), and are read as
those elements in that layout only (`DataElements`); `Sent` is the relayout. An execution
knows the default layout only, in which it takes its arguments and leaves its results.
A client does one thing at a time, as XLA's client does, but any number of
clients do theirs at once.

`LiteralService` has no buffers: a client stores a literal, runs the module on it, and
reads either. The refinement mapping *follows the tables of pointers* from the root's
buffer (`Reached`) and reads what is there now, so a table that points to the wrong
buffer, a buffer that another client overwrites and a forgotten relayout each
change what the client of the abstract service would see.

## 3. The runs

| run | instance | states | what it shows |
|---|---|---|---|
| `compiler_serialised` | 3 threads, 3 addresses, 4 emitters, 2 backends, 6 environments, symmetry, one compilation at a time | about 1 000 | `TypeOK`, `FusionsMapped`, `EmitterInUseAlive`, `NoInternalError`, and the refinement of `FusionService` |
| `compiler_concurrent` | 3 threads, 1 address, 2 emitters, 2 backends, 6 environments, concurrent, fair | about 37 000 | `OneBackend`, `BackendReadsSafe`, `CompileReturns` |
| `compiler_unserialised` | 2 threads, 2 addresses, 4 emitters | | violation of `NoInternalError` (section 5) |
| `emitter_function` | every computation of the families `Handlers` (all opcodes, 2 instructions), `Mixed` (3) and `Nested` (5) | about 14 000 | `TypeOK`, `MapsDenoteValues`, `FunctionComputesRoot`, `NearbyTuplesTranslated` |
| `emitter_table` | a parameter and batch-norm trainings, 2 instructions | | violation of `SupportedTable`: a root that is a batch-norm training |
| `emitter_strides` | slices, 2 instructions | | violation of `StridesKept` |
| `executor_streams` | 2 hosts, 3 streams, every dependency by either host, 2+1+1 tasks, fair | about 119 000 | `TypeOK`, `KnownDone`, `OnlyCrossedDeadlock`, `CallsReturn` |
| `executor_memory` | 2 hosts, 2 streams with a dependency, 2 buffers (symmetric), 1 host memory, 1 descriptor, 1+1 tasks | about 872 000 | `NoUseAfterFree` |
| `fusion_kernels` | 535 computations: the kernels' graphs alone, in chains and with shared constants, near misses, and one for each handler; every order of the visit | about 19 000 | `TypeOK`, `NothingDangles`, `NoCheckFails`, `OperandsAsEmitReads`, `FusionPreservesValue`, `PassFindsKernels`, `KernelsRecognised`, `KernelsAlone`, `EmittedFunctionComputesRoot` |
| `fusion_avgpool` | the gradients of all average pools | | violation of `AvgPoolWindowReconstructed` |
| `transfers` | 2 clients, 4 buffers, an array and a tuple with an empty tuple, 2 layouts | about 124 000 | `TypeOK`, `BuffersAccountedFor`, and the refinement of `LiteralService` |
| `executions` | 2 threads, 2 arguments and 6 more buffers, 6 result trees of up to 5 nodes | about 450 000 | `TypeOK`, `ResultThere`, `BuffersPartitioned` |

**Bounds, and why they are enough.**

* *Compiler.* A stale entry takes one address used twice; that it hides behind another
  live fusion takes two addresses and two modules; the third of each lets a compilation
  run while two executables are alive or dead. There is one emitter more than
  addresses, since a fusion at a reused address needs a new emitter while the stale one
  still occupies its own. For the backend, two threads at first use race, and a third
  comes later or meets the aborts. A module has at most as many fusions as there are
  addresses; the numbers are not otherwise bounded, and the theorems
  hold for every number.
* *Emitter.* Handlers look at their operands' entries only, so two instructions reach
  every handler; mis-pairing of the maps needs a tuple, an element and a user of it;
  an element that is a tuple and is taken apart again needs five. `MCNGraphEmitter`
  enumerates *all* well-formed computations of a family up to that size, with at most
  two parameters. The theorems have no bound.
* *Streams.* `MaxTasks` is the only bound on behaviours (tasks ever enqueued on a
  stream). Two on the first stream let a wait stand before or behind another task; three
  streams make a wait for a stream that itself waits, and a ring; two hosts enqueue and block
  against each other, cross their dependencies, or one of them makes a ring alone. For the memory, a copy on each stream,
  a buffer to free and another to describe instead, and a host that frees what
  the other's copy needs are what the hazard takes. The theorems hold for every `MaxTasks`
  and any number of objects.
* *Executions.* The trees are an array, the empty tuple, and tuples with an empty tuple
  before and behind arrays and inside a nested tuple, which is what a counter or a
  traversal order could confuse. Six buffers let one execution of the
  largest tree and part of another be under way, memory run out in the middle, and
  freed buffers be used again. The first free buffer is allocated: the
  code never looks at an address, so another choice only renames. Two calls pass the
  arguments in either order and one has too few of them. `TreesFlattenInOrder` covers all
  trees of five nodes: three levels with siblings before and behind.
* *Fusion.* A window acts on each spatial dimension by itself, so one dimension shows its
  arithmetic: images of 3 to 5, windows of 1 to 3 and strides of 1 and 2 have every
  parity of the padding, windows as large as the image, remainders, and SAME and VALID
  padding that give the same output. Two dimensions with different sizes, some trivial, are what
  a data format could be mistaken in. Parameters have distinct elements, of both
  signs but for the smallest shapes, multiples of every window's size, so that averages are exact and two different
  sums agree only by accident. Chains put each kind of fusion before and behind another,
  and constants are shared within a pattern and between two.
* *Transfers.* Four buffers hold one client's tuple and part of another's, or an array, its
  result and an array of the other client: memory runs out at each node, and freed
  buffers are the other client's next. Two layouts make the relayout necessary or not.

**Deadlock.** `executor_memory`, `executions` and `transfers` check it.
`executor_streams` does not, because crossed calls really stop: `OnlyCrossedDeadlock` says when. The compiler's
runs do not, because an abort really ends the process, and those of the emitter and of the
fusion pass do not, because a translation and a pass end.
No stuck compilation hides behind that: `CompileReturns` says that none is.

**Fairness.** `NGraphCompiler!FairSpec` has weak fairness of every thread's steps
inside the plugin (the operating system runs them; the fixed point of the fusion pass
is reached, because a rule consumes the instructions it matches) and strong fairness of
`LockModule`: `m_module_mutex` is held for a test or a creation, and a `std::mutex` does
not deny a waiting thread for ever while others take it a finite number of instructions
apart. Nothing makes callers begin compilations or executables die.
`NGraphExecutor!FairSpec` has weak fairness of each pool's thread and of a woken host.
`CallsReturn` holds of callers that stop enqueuing: `BlockUntilDone` waits for a
stream with no pending task *whoever* enqueued them, and only the bound on tasks keeps
another host from delaying it for ever. That is the code's behaviour, not an
artefact; the property shows that the waiting *tasks* never make a call hang but in the
deadlocks of crossed calls.

## 4. The theorems

They hold for every value of the constants that satisfies the named assumptions of the
module. All are of the form `Spec => []P`, but for the two refinements (`ServiceImplemented`) and
`FlattensInOrder`, a fact about trees.

**`NGraphCompilerProofs`** (assumption `ConstantsAssumption`).

* `TypeCorrect`: `TypeOK`. It is not inductive: the assignments through `cur[t]` need
  that a thread in a map operation has a key, hence `KeyHeld`.
* `BackendCorrect`: `OneBackend` and `BackendReadsSafe`, with concurrent callers. The
  strengthening `BackendInv` says who is in the critical section, that the creator
  found no backend, and that a thread past it found one.
* `FusionMapCorrect`: if `CallersSerialise`, then `FusionsMapped`, `EmitterInUseAlive`
  and `NoInternalError`. `MapInv` adds that a thread inside a compilation holds the
  callers' lock, so at most one is and no operation races (`LockHeld`,
  `raced = {}`); that a live instruction belongs to one module (`Ownership`), which is why
  an insertion overwrites dead entries only; and that what runs was made for the
  fusion (`RunsOwn`).
* `EmitterAlive`, `NeverInternalError`, `BackendReadSafely`: `EmitterInUseAlive`,
  `NoInternalError` and `BackendReadsSafe` by themselves, the first two for serialised
  callers, from the same invariants.
* `ServiceImplemented`: if `CallersSerialise`, then `Spec => Service!Spec`. It adds
  that an emitter belongs to one live fusion (`Exclusive`), and maps each
  action to its abstract step or to a stutter, one lemma per abstract action.

**`NGraphExecutorProofs`** (assumption `StreamsAssumption`: dependencies are of streams by
hosts, any of them, and the kinds of objects are disjoint). `StreamInv` is one
inductive invariant. A blocked host waits for one stream and its ticket will be true once that
stream is empty (`Waiting`, `Promise`: for the stream depended on, because the wait
task is still in the queue or has run). The copies in a queue are numbered at most by `lastUse`
(`Numbered`, `UsesPast`), so freeing an object a queue refers to is hasty (`CopiesSound`). While a
waiting task is pending, a host that asked for it is blocked on its stream (`AwaitsHeld`).

* `ReturnsKnow`: `KnownDone`.
* `MemorySafe`: `NoUseAfterFree`, with clients that free and rewrite what they like.
* `DeadlocksCross`: `OnlyCrossedDeadlock`, for any dependencies. If all threads wait, the
  head of a stream waits for a stream whose head waits too (`StuckStream`), and both have
  their hosts in the call.
* `DeadlockFree`: no deadlock at all, if one host makes all dependencies and none is of a stream
  on itself. The hypothesis stands in the theorem: the code does not enforce it, and without
  it there are deadlocks.

**`NGraphEmitterProofs`** (assumption `GraphsAssumption`: the computations are well
formed and `Value` satisfies its equation).

* `TypeCorrect`: `TypeOK`, through `Handlers`, a lemma that sums up the 27 handlers
  in the five ways they end without an error.
* `MapsCorrect`: `MapsDenoteValues`, inductive as it stands together with `TypeInv`:
  a node made from nodes that denote the operands' values denotes, by
  `ValueEquation`, the instruction's.
* `FunctionCorrect`: `FunctionComputesRoot`. `ParametersHeld` says that
  from `Initialize` on, each parameter has its node and its number leads to it.
* `TranslationCorrect`: `NearbyTuplesTranslated`. `Translated` says that a visited
  instruction has left the entries its users look up: one in the operator map, unless it
  is a batch-norm training or gradient, and all its elements in the tuple map if it is a
  tuple or one of those.

**`NGraphExecutableProofs`** (assumption `ExecutableAssumption`). `ExecutionInv` is
`FramesOK`, `BuffersPartitioned` and `ContentsOK` together.

* `TypeCorrect`: `TypeOK`. `Counts` relates the locals: with n - 1 nodes allocated there
  are n - 1 buffers, and as many tensors as there are arrays among those nodes.
* `BuffersHaveOnePlace`: `BuffersPartitioned`. A buffer that is allocated is fresh; one
  that is freed had one owner.
* `ResultCorrect`: `ResultThere`. `Contents` says which nodes each loop is through with
  and what their buffers hold; no other execution writes them, since it owns others
  (`ContentsKept`). The core is `CounterRight`: the copy-back's counter is one more than
  the arrays before the node, which by `FlattensInOrder` is where `XLAFunction` has put
  that array's result.
* `FlattensInOrder`: `XLAFunction` flattens every tree in the order of its nodes. Going down
  from the last node, each node's results are the arrays of its subtree, in order
  (`Lists`, `Subtree`): its first child follows it, each next child follows the last descendant
  of the one before (`NextChild`), and the join of their lists is the list of all
  (`ListsJoin`).

**`NGraphFusionProofs`** (assumption `ComputationsAssumption`: the computations are well
formed, operands first, with the shapes XLA's inference gives). The invariant is
`PassInvariant`: fusions apart, the computation is the given one with some instructions
gone, and those that are left have the operands they had; the visited ones use nothing
that is still to be visited; the map has just the fusions. `NothingDangles` alone
is not inductive: that a part which goes away has no other user, and that no part is still to
be visited, follow from how rules match, and a rule sees a *rewritten*
computation. The core is therefore that a rule matches an instruction exactly when it does
in the given computation and none of the parts has been fused (`MatchesInGiven`,
`MatchesInComputation`). `NGraphFusionLemmas` has, for each of the nine rules, what its match
reads (`Reachable`, `Walk`), that it is the same where those instructions are the same (`Same`), and
what the fold of `FuseInstruction` leaves.

* `TypeCorrect`, `LeavesNothingDangling`: `TypeOK` and `NothingDangles`, for every
  computation and every order of the visit.
* `PassFuses`: `PassFindsKernels`, for every computation. `KernelsAre` shows that the
  recursive definition of `Kernels` has a solution, going up from the operands.
* `FusesEveryPart`: `NoCheckFails`, if no computation divides a value by itself. The
  hypothesis is needed: for a sum of ones over windows, divided by itself, the rule of
  average pools returns the sum twice, and the second time it is no operand any more.
* `FusionsReadInOrder`: `OperandsAsEmitReads`, if `ArgumentsApart`: a relu's gradient, say, whose
  gradient is the very zero that it compares with loses an argument, since the zero is
  fused away once. `FusesArguments` carries the operands through the fold:
  those fused so far are replaced by theirs, at the end of the list.
* `FusionsPreserveValue`: `FusionPreservesValue`, if `ArgumentsApart` and `KernelsRight`. (Both
  properties except a kernel given one argument twice, whose fusion has one operand
  for two that `Emit` reads.) Each
  kernel's emitter being right on the values its arguments have *in the given
  computation* is enough: `ValuesKept` shows, instruction by instruction, that
  chained kernels, shared constants and users outside a kernel get the same values as before.
* `RulesExclude`: no two rules match at one instruction, in any state the pass reaches, so
  the order in which `DefaultAction` tries them does not matter: where two rules look at the
  same opcode, they want another reduction, or another position of the input's features
  (`RuleOpcodes`).
* `KernelsAreRecognised`: `KernelsRecognised`, if `Listed`: what a kernel's graph is said to
  become is what it becomes, in every order of the visit.
* `EmittedFunctionCorrect`: `EmittedFunctionComputesRoot`, if `ArgumentsApart`, `KernelsRight`,
  `HandlersRight` and `Listed`: the function that the emitter generates for the rewritten
  computation gives the root's value, or is refused just when something that the root needs is
  (`Refusals`). An instruction that is no fusion has the operands it was given, so its handler
  is asked what it would have been asked before the pass.
* `KernelsRightByShape`: `KernelsRight` for reductions, rectifiers and their gradients,
  max-pools in either data format, and the gradients of max-pools in NCHW, whatever the
  shapes, windows, strides and paddings. For NHWC, the emitter moves the batch to NCHW,
  pools it and moves the result back: the two orders are inverse (`NhwcOrders`), the window
  the emitter makes is the rule's in that order (`NhwcWindow`), and the largest element under
  a window does not depend on the order of the dimensions (`LargestAlong`, `NhwcMaxPool`).
* `HandlersRightByShape`: `HandlersRight` for `Broadcast`, `Reverse`, `Reshape`,
  `Select`, `Pad`, `Reduce`, `ReduceWindow`, `SelectAndScatter`, `Transpose`, `Clamp` and
  comparisons; for arithmetic on operands of one shape; for a dot of the last dimension with
  the first; for batch normalization of the second dimension; and for convolution in every
  layout of the input and the filters, when the result has the input's. The core of
  the convolution (`ConvolutionOf`) is that the shuffles take the terms of XLA's sum to those
  of nGraph's one by one (`TermsShuffled`, `PairsShuffled`), and that a sum over a finite
  set is the same along a bijection (`FoldAlong`): the library's folds take the
  elements in an order of their own choice.
* `FusionsPreserveShapedValues` and `ShapedFunctionCorrect`: `FusionPreservesValue` and
  `EmittedFunctionComputesRoot` again, where the rightness of emitters and handlers is
  asked of the *others* only (`OtherKernelsRight`, `OtherHandlersRight`), and of the rest that
  the shapes are as XLA infers them (`ShapesInferred`, `AsKernelsMake`).

TLC checks the hypotheses on the instances as `KernelsAlone`. One by one, and not for every shape,
are checked: of the emitters, those of average pools and their gradients (of which one is
wrong, section 5), of the gradients of convolutions, and of max-pools' gradients in NHWC (a
gradient goes to *one* of the largest elements under a window, and which one depends on
the order of the elements); of the handlers, arithmetic with implicit broadcasts, and dot, batch
normalization and convolution where a result has to be put in another order than that of its
operand.

**`TransferManagerProofs`** (assumptions `TransferAssumption`: literals' shapes and results'
shapes are well-formed trees, no literal is `None`, the allocator hands out free addresses; and
`NoneAssumption`: neither are the elements of a literal or of a result). The inductive
invariant is `Invariants`: `HeldOK`, `Places`, `TypeInv` and `ClientsOK`.

* `OwnershipCorrect`: `BuffersAccountedFor`. Each client has two sequences of buffers, its
  literal's and its result's; a step leaves all as they are, adds one fresh buffer to one
  of them, or empties one (`BuffersSame`, `BufferTaken`, `BuffersGone`), and every action
  of a transfer or an execution is one of those.
* `TypeCorrect`: `TypeOK`. `Typed` counts the buffers of an allocation under way, and
  `TypeInv` says that a client that executes has a literal stored.
* `ServiceImplemented`: `ImplementsLiteralService`. `ClientsOK` says what is in the buffers of
  each client's tree at each step (`Tables`, `Arrays`): the nodes a loop is through with have their
  pointers or their bytes, in the layout of the tree, and an execution's inputs are the client's array. A step
  writes one of the client's own buffers (`OneWritten`, `TablesGrow`, `ArraysGrow`), which by
  `Places` no other client has (`OthersSafe`). From the tables, following the pointers from the
  root leads to the client's own buffers (`Following`: of the nodes where it does not, the
  first has a tuple before it whose table is right), so the mapping is a function
  of the client's records (`MappingHolds`), and each step is one of the service's or none
  (`Moves`): the last array written stores, the last one copied back gives a result, the last one read
  an answer, and freeing or a new transfer drops.

**Model-checked only:** the liveness properties `CompileReturns` and `CallsReturn`
(liveness is out of the prover's reach); `KernelsAlone`, which evaluates the tensor arithmetic
of the emitters and handlers on each computation of the instance; and the four
statements of section 5.
**Assumed:** what the assumptions above name; that service callers serialise
compilations, for the fusion map only; and the hypotheses of the theorems on the
fusion pass that have some. The latter stand in each theorem, not in the module's
assumptions; `KernelsAlone` checks all of them but those that begin with `Other`,
which are weaker than `KernelsRight` and `HandlersRight`.
**Induction.** Where a proof goes along the operands, the dimensions or the elements, it uses
the lemmas of `Induction` on a *set* of numbers, which the provers can instantiate, and the
recursive definitions are functions; that each has a solution is a lemma (`IndexIs`, `KeptIs`,
`FoldIs`, `KernelsAre`).

## 5. Where the code and its documentation part

Each is a run TLC ends with a counterexample, and a finding in `PROJECT.json`.

1. `compiler_unserialised`: with two compilations at a time, the insertion into
   `m_fusion_map` and the search in it race; a lost entry is the process abort
   `ngraph_emitter.cc:1576-1580` calls an internal error. `m_module_mutex` shows
   that concurrent calls are meant to be possible, but it guards the backend alone.
2. `emitter_table`: `ngraph_op_handler.h:53` says YES to batch-norm training; one that is the
   root is only in the tuple map, and `NGraphFunction` looks it up in the operator map,
   unchecked (`ngraph_emitter.cc:843`).
3. `emitter_strides`: `ProcessSlice` checks that there is a stride for each dimension
   and then drops them.
4. `fusion_avgpool`: `FuseAvgPoolBprop` takes SAME padding to be the window's size less one
   (`ngraph_fusion.cc:678-680`). That is the padding for a stride of one; with a stride
   of two, the fused gradient is that of another pool, although the `pad` in the graph
   "holds the info we need" (`ngraph_fusion.cc:620-622`). `fusion_kernels` has the average pools'
   gradients whose padding below the image is as for a stride of one (`PaddedAsByOne`).

Three more places where a table and the code part take no model to see, and no run is spent on
them: the table says YES to reduce-precision, which `ngraph_emitter.cc:127-131` refuses, and to
get-tuple-element and tuple, but the element of an element has no entry in the
map it is taken apart from (`ngraph_emitter.cc:731`; `NearbyTuplesTranslated` has the
computations for which the handlers do find their entries); and the plugin advertises
`DT_DOUBLE` (`ngraph_plugin.cc:41-43`), while `Initialize` refuses F64.

## 6. What is not modelled

* Logging, dumps, serialised graphs, the profile of an execution: output only.
* `AllocateSubBuffer`, timers, and the executor's operations that only answer "not
  supported": no caller in `src/` uses their result.
* The HLO verifier, `HostStream`, the C++ allocator and mutex, and nGraph itself are not
  under `src/`; they are modelled as `src/` uses them and marked external in the map.
* The profile an execution leaves, under a mutex of its own: nothing reads it here.
* In `NGraphHandlers`: element types, conversions and the literals of constants; the
  contracted dimensions of a dot other than those tf2xla's products have (the handler ignores
  them); the values of slices (2.2 has their strides); the unary functions but one; the outputs
  of batch norms but the first; convolutions whose input and output have different
  layouts and which no rule fuses.
* In `NGraphFusion`: a read of a second operand that a fusion does not have
  (`ngraph_emitter.cc:2197`) is `Missing`, like a refusal; in the code it is an invalid read. A pool's divisor that is a constant other than the window's size. The
  rule does not compare them, and no kernel makes one.
* In `TransferManager`: infeed, outfeed and reset, which return `Unimplemented`.
* The composition of executions with the executor's streams. The call runs on the
  caller's thread and waits for no stream, but in `src/` only blocking copies write device
  memory for a client, so there is never a queued copy that it could overtake.
* `try_parse`, the string helpers, and the functions of `ngraph_utils` that only print.

## 7. The plan

1. *Done:* the compiler with its abstract service, the emitter, the streams, the
   executions, the transfers composed with them and their abstract service, the fusion
   pass with the meaning of what it rewrites, the handlers' arithmetic; theorems about
   the compiler, the streams, the emitter, the executions, the ownership of buffers, the
   fusion pass and the refinement of `LiteralService`.
2. *Done:* the theorems about the fusion pass have no hypothesis left on the emitters and
   handlers that the shapes make right, convolutions and max-pools in NHWC among them.
3. Theorems: the rest of `OtherHandlersRight` (implicit broadcasts are reshapes that keep
   the elements in order, so they need the linear index of an element), and the gradients of
   convolutions, whose sums `FoldAlong` is about as well.
4. Models: the slices' values in `NGraphHandlers`, the second and third outputs of batch
   norms, graphs with two kernels of one kind at different strides.
