--------------------------- MODULE NGraphExecutor ---------------------------
(***************************************************************************)
(* The streams of the NGraphExecutor: se::host::HostStream objects, each a *)
(* pool of one thread that runs the enqueued tasks in order, and the       *)
(* operations host threads call on them.  A pending task counts until it   *)
(* has run; HostStream::BlockUntilDone waits for a stream without pending  *)
(* tasks, whoever enqueued them.                                           *)
(*                                                                         *)
(* Memcpy and HostCallback return at once.  The task of a copy dereferences*)
(* what it captured when it runs: to the host, a copy of the device        *)
(* address; to the device, the address of the caller's DeviceMemoryBase,   *)
(* whose device address it reads only then.  The executor checks nothing:  *)
(* its clients may free or rewrite any of these objects at any time, and   *)
(* the history variable `hasty' remembers what they did too early.         *)
(*                                                                         *)
(* CreateStreamDependency enqueues on the dependent stream a task that     *)
(* itself blocks the stream's only thread on the other stream, and then    *)
(* blocks the calling host until the dependent stream is drained.          *)
(***************************************************************************)
EXTENDS Integers, Sequences

CONSTANTS
    Hosts,        \* threads that call the executor
    Streams,      \* streams of the executor
    Buffers,      \* device memory, new char[] of NGraphExecutor::Allocate
    HostMemory,   \* memory of the clients that is copied from and to
    Descriptors,  \* DeviceMemoryBase objects of the clients
    Dependencies, \* triples <<host, dependent, other>> that may be called
    MaxTasks      \* bound of the exploration: tasks enqueued on each stream

\* Any host may make any stream depend on any other, and on itself.
ASSUME StreamsAssumption ==
    /\ Dependencies \subseteq Hosts \X Streams \X Streams
    /\ MaxTasks \in [Streams -> Nat]
    /\ Descriptors \cap Buffers = {}
    /\ (Descriptors \cup Buffers) \cap HostMemory = {}

VARIABLES
    queue,    \* pending tasks of each stream, the running one first
    enqueued, \* number of tasks ever enqueued on each stream
    alive,    \* objects that are allocated or constructed
    held,     \* device address in each descriptor
    lastUse,  \* number of the last copy that needs each object, by stream
    hasty,    \* history: objects freed or rewritten before a wait allowed it
    blocked,  \* streams whose BlockUntilDone each host is in: none or one
    ticket,   \* what each host will know of each stream when it returns
    known     \* tasks of each stream each host knows to have run

memory == <<alive, held, lastUse, hasty>>
vars == <<queue, enqueued, alive, held, lastUse, hasty, blocked, ticket, known>>

Objects == Buffers \cup HostMemory \cup Descriptors

\* A copy dereferences `device', a device address or a descriptor, and `host'.
\* It is meant to copy from or to `buffer', the address of the call.
Copies == [kind : {"copy"}, device : Buffers \cup Descriptors,
           host : HostMemory, buffer : Buffers]
Awaits == [kind : {"await"}, other : Streams]
Callback == [kind |-> "callback"]
Tasks == Copies \cup Awaits \cup {Callback}

TypeOK ==
    /\ queue \in [Streams -> Seq(Tasks)]
    /\ enqueued \in [Streams -> Nat]
    /\ alive \in SUBSET Objects
    /\ held \in [Descriptors -> Buffers]
    /\ lastUse \in [Objects -> [Streams -> Nat]]
    /\ hasty \in SUBSET Objects
    /\ blocked \in [Hosts -> SUBSET Streams]
    /\ ticket \in [Hosts -> [Streams -> Nat]]
    /\ known \in [Hosts -> [Streams -> Nat]]

Init ==
    /\ queue = [s \in Streams |-> <<>>]
    /\ enqueued = [s \in Streams |-> 0]
    /\ alive = {}
    /\ \E b \in Buffers : held = [d \in Descriptors |-> b]
    /\ lastUse = [o \in Objects |-> [s \in Streams |-> 0]]
    /\ hasty = {}
    /\ blocked = [h \in Hosts |-> {}]
    /\ ticket = [h \in Hosts |-> [s \in Streams |-> 0]]
    /\ known = [h \in Hosts |-> [s \in Streams |-> 0]]

-----------------------------------------------------------------------------
Running(h) == blocked[h] = {}

\* Tasks of a stream that have run to their end.
Done(s) == enqueued[s] - Len(queue[s])

\* The waits a host returned from cover every copy that needs the object.
Waited(h, o) == \A s \in Streams : lastUse[o][s] <= known[h][s]

\* HostStream::EnqueueTask: one more pending task, scheduled behind the others.
EnqueueTask(s, task) ==
    /\ enqueued[s] < MaxTasks[s]
    /\ queue' = [queue EXCEPT ![s] = Append(@, task)]
    /\ enqueued' = [enqueued EXCEPT ![s] = @ + 1]

\* A copy is enqueued, and needs the objects until it has run.
EnqueueCopy(s, task, objects) ==
    /\ EnqueueTask(s, task)
    /\ lastUse' = [o \in Objects |->
           IF o \in objects THEN [lastUse[o] EXCEPT ![s] = enqueued[s] + 1]
                            ELSE lastUse[o]]

\* A host allocates device memory, or gets memory of its own.
Create(h, o) ==
    /\ Running(h)
    /\ o \notin alive
    /\ alive' = alive \cup {o}
    /\ UNCHANGED <<queue, enqueued, held, lastUse, hasty, blocked, ticket, known>>

Allocate(h, b) == Create(h, b)

\* A host frees an object, without any check that copies still need it.
Free(h, o) ==
    /\ Running(h)
    /\ o \in alive
    /\ alive' = alive \ {o}
    /\ hasty' = IF Waited(h, o) THEN hasty ELSE hasty \cup {o}
    /\ UNCHANGED <<queue, enqueued, held, lastUse, blocked, ticket, known>>

Deallocate(h, b) == Free(h, b)

\* A client constructs a DeviceMemoryBase of its own, or assigns to it.
Describe(h, d, b) ==
    /\ Running(h)
    /\ b \in alive
    /\ alive' = alive \cup {d}
    /\ held' = [held EXCEPT ![d] = b]
    /\ hasty' = IF Waited(h, d) THEN hasty ELSE hasty \cup {d}
    /\ UNCHANGED <<queue, enqueued, lastUse, blocked, ticket, known>>

\* Mutant: the task captures the source by reference, as the other overload does
\* the destination.
MemcpyDeviceToHostByReference(h, s, src, m) ==
    /\ Running(h)
    /\ {src, held[src], m} \subseteq alive
    /\ EnqueueCopy(s, [kind |-> "copy", device |-> src, host |-> m,
                       buffer |-> held[src]], {held[src], m})
    /\ UNCHANGED <<alive, held, hasty, blocked, ticket, known>>

\* The lambda captures dev_src by value: the device address of the call.
MemcpyDeviceToHost(h, s, src, m) ==
    /\ Running(h)
    /\ {src, held[src], m} \subseteq alive
    /\ EnqueueCopy(s, [kind |-> "copy", device |-> held[src], host |-> m,
                       buffer |-> held[src]], {held[src], m})
    /\ UNCHANGED <<alive, held, hasty, blocked, ticket, known>>

\* The lambda captures the pointer dev_dst: the caller's own descriptor.
MemcpyHostToDevice(h, s, dst, m) ==
    /\ Running(h)
    /\ {dst, held[dst], m} \subseteq alive
    /\ EnqueueCopy(s, [kind |-> "copy", device |-> dst, host |-> m,
                       buffer |-> held[dst]], {dst, held[dst], m})
    /\ UNCHANGED <<alive, held, hasty, blocked, ticket, known>>

HostCallback(h, s) ==
    /\ Running(h)
    /\ EnqueueTask(s, Callback)
    /\ UNCHANGED <<memory, blocked, ticket, known>>

\* Mutant: the task that waits is enqueued, but the host does not block.
CreateStreamDependencyAsync(h, dependent, other) ==
    /\ Running(h)
    /\ EnqueueTask(dependent, [kind |-> "await", other |-> other])
    /\ known' = [known EXCEPT ![h][other] = enqueued[other]]
    /\ UNCHANGED <<memory, blocked, ticket>>

\* The dependent stream gets the task that waits for the other one, and the host
\* enters BlockUntilDone of the dependent stream.
CreateStreamDependency(h, dependent, other) ==
    /\ Running(h)
    /\ EnqueueTask(dependent, [kind |-> "await", other |-> other])
    /\ blocked' = [blocked EXCEPT ![h] = {dependent}]
    /\ ticket' = [ticket EXCEPT ![h] =
                     [known[h] EXCEPT ![dependent] = enqueued[dependent] + 1,
                                      ![other] = enqueued[other]]]
    /\ UNCHANGED <<memory, known>>

\* Mutant: the task that runs is not counted among those waited for.
BlockHostUntilDoneButOne(h, s) ==
    /\ Running(h)
    /\ blocked' = [blocked EXCEPT ![h] = {s}]
    /\ ticket' = [ticket EXCEPT ![h] =
                     [known[h] EXCEPT ![s] = enqueued[s] - 1]]
    /\ UNCHANGED <<queue, enqueued, memory, known>>

BlockHostUntilDone(h, s) ==
    /\ Running(h)
    /\ blocked' = [blocked EXCEPT ![h] = {s}]
    /\ ticket' = [ticket EXCEPT ![h] = [known[h] EXCEPT ![s] = enqueued[s]]]
    /\ UNCHANGED <<queue, enqueued, memory, known>>

\* BlockUntilDone sees no pending task; the call returns to its host, which then
\* knows what it waited for to have run.
Return(h) ==
    /\ \E s \in blocked[h] : queue[s] = <<>>
    /\ blocked' = [blocked EXCEPT ![h] = {}]
    /\ known' = [known EXCEPT ![h] = ticket[h]]
    /\ UNCHANGED <<queue, enqueued, memory, ticket>>

\* The task at the head of a stream blocks its thread on another stream.
WaitsFor(s, other) ==
    /\ queue[s] # <<>>
    /\ LET task == Head(queue[s])
       IN  task.kind = "await" /\ task.other = other

\* The task at the head of a stream may end: a copy or a callback at once, a
\* waiting task when the other stream has no pending task.
Runnable(s) ==
    /\ queue[s] # <<>>
    /\ \A other \in Streams : WaitsFor(s, other) => queue[other] = <<>>

\* The stream's only thread runs its head task to the end.
RunTask(s) ==
    /\ Runnable(s)
    /\ queue' = [queue EXCEPT ![s] = Tail(@)]
    /\ UNCHANGED <<enqueued, memory, blocked, ticket, known>>

HostCall(h) ==
    \/ \E b \in Buffers : Allocate(h, b) \/ Deallocate(h, b)
    \/ \E o \in HostMemory : Create(h, o) \/ Free(h, o)
    \/ \E d \in Descriptors, b \in Buffers : Describe(h, d, b)
    \/ \E d \in Descriptors : Free(h, d)
    \/ \E s \in Streams, d \in Descriptors, m \in HostMemory :
          MemcpyDeviceToHost(h, s, d, m) \/ MemcpyHostToDevice(h, s, d, m)
    \/ \E s \in Streams : HostCallback(h, s)
    \/ \E p \in Dependencies : p[1] = h /\ CreateStreamDependency(h, p[2], p[3])
    \/ \E s \in Streams : BlockHostUntilDone(h, s)

Next ==
    \/ \E h \in Hosts : HostCall(h) \/ Return(h)
    \/ \E s \in Streams : RunTask(s)

Spec == Init /\ [][Next]_vars

\* The pools' threads run, and a host whose stream stays drained is woken
\* (pending_tasks reaching zero signals the condition variable).
FairSpec == /\ Spec
            /\ \A s \in Streams : WF_vars(RunTask(s))
            /\ \A h \in Hosts : WF_vars(Return(h))

-----------------------------------------------------------------------------
(* Properties *)

\* What a returned BlockHostUntilDone or CreateStreamDependency entitles its
\* caller to rely on is so: the tasks on the stream it waited for, and those on
\* the stream that one depends on, at the time of the call, have run
\* (ngraph_executor.cc:122-128, 150-153).
KnownDone == \A h \in Hosts, s \in Streams : known[h][s] <= Done(s)

\* A pending copy finds the objects of its call alive and its descriptor
\* unchanged, unless a client freed or rewrote one of them before it had waited
\* for the copies that need it.  Such a client owes a copy to the host no more
\* than the device memory and the host memory: the descriptor may go as soon as
\* the call returns (ngraph_executor.cc:79-93).
NoUseAfterFree ==
    \A s \in Streams : \A i \in 1 .. Len(queue[s]) :
        LET task == queue[s][i]
            objects == {task.device, task.host, task.buffer}
        IN  task.kind = "copy" /\ objects \cap hasty = {} =>
                /\ objects \subseteq alive
                /\ task.device \in Descriptors => held[task.device] = task.buffer

\* Some thread is stuck on every pending task.
Deadlocked ==
    /\ \E s \in Streams : queue[s] # <<>>
    /\ \A s \in Streams : ~Runnable(s)

\* One stream waits for itself, or two calls have crossed: a host is blocked on a
\* stream that waits for the stream another host is blocked on.
Crossed ==
    \E d, e \in Streams :
        /\ WaitsFor(d, e)
        /\ d # e => \E g, h \in Hosts : /\ g # h
                                        /\ d \in blocked[g]
                                        /\ e \in blocked[h]

\* CreateStreamDependency blocks a pool's only thread, and the streams' threads may
\* all wait on each other.  Whatever dependencies are asked for, they do so only
\* if a stream was made to wait for itself or two hosts' calls have crossed: each
\* call of one host returns, its task served, before the next
\* (ngraph_executor.cc:122-128).
OnlyCrossedDeadlock == Deadlocked => Crossed

\* Every blocking call of a host returns, once callers stop enqueuing, unless
\* calls have crossed and the streams' threads all wait
\* (ngraph_executor.cc:122-128, 150-153).
CallsReturn ==
    \A h \in Hosts : ~Running(h) ~> Running(h) \/ (Deadlocked /\ Crossed)

=============================================================================
