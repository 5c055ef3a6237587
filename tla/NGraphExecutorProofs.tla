------------------------ MODULE NGraphExecutorProofs ------------------------
(***************************************************************************)
(* Theorems about NGraphExecutor, for any number of hosts, streams and     *)
(* objects, clients that free and rewrite what they like, whatever         *)
(* dependencies they ask for, and any bound on tasks.                      *)
(***************************************************************************)
EXTENDS NGraphExecutor, TLAPS

Await(s) == [kind |-> "await", other |-> s]
Copy(x, m, b) == [kind |-> "copy", device |-> x, host |-> m, buffer |-> b]

\* The objects a copy needs.
Named(task) == {task.device, task.host, task.buffer}

\* A host is in at most one BlockUntilDone, and will know no more than was
\* enqueued when it called.
Waiting ==
    /\ \A h \in Hosts : \A r, s \in blocked[h] : r = s
    /\ \A h \in Hosts, s \in Streams : ticket[h][s] <= enqueued[s]

\* What a blocked host will know of another stream than the one it waits for has
\* happened already, or the task that waits for it is still pending.
Promise ==
    \A h \in Hosts, s \in Streams : \A d \in blocked[h] :
        \/ s = d
        \/ ticket[h][s] <= Done(s)
        \/ \E i \in 1 .. Len(queue[d]) : queue[d][i] = Await(s)

\* A pending copy is not after the last one that needs its objects.
Numbered ==
    \A s \in Streams : \A i \in 1 .. Len(queue[s]) :
        queue[s][i].kind = "copy" =>
            \A o \in Named(queue[s][i]) : Done(s) + i <= lastUse[o][s]

\* The last copy that needs an object on a stream is one of the stream's tasks.
UsesPast == \A o \in Objects, s \in Streams : lastUse[o][s] <= enqueued[s]

\* A pending copy finds its objects, unless a client was hasty.
Sound(task) ==
    Named(task) \cap hasty = {} =>
        /\ Named(task) \subseteq alive
        /\ task.device \in Descriptors => held[task.device] = task.buffer

CopiesSound ==
    \A s \in Streams : \A i \in 1 .. Len(queue[s]) :
        queue[s][i].kind = "copy" => Sound(queue[s][i])

\* While a task that waits is pending on a stream, the host that asked for the
\* dependency is in its call, blocked on that stream.
Held(s, task) ==
    \E h \in Hosts : s \in blocked[h] /\ <<h, s, task.other>> \in Dependencies

AwaitsHeld ==
    \A s \in Streams : \A i \in 1 .. Len(queue[s]) :
        queue[s][i].kind = "await" => Held(s, queue[s][i])

StreamInv ==
    TypeOK /\ Waiting /\ Promise /\ KnownDone /\ Numbered /\ UsesPast
    /\ CopiesSound /\ AwaitsHeld

-----------------------------------------------------------------------------
(* The queues *)

LEMMA TaskTypes ==
    /\ \A s \in Streams : Await(s) \in Tasks
    /\ \A x \in Buffers \cup Descriptors, m \in HostMemory, b \in Buffers :
          Copy(x, m, b) \in Tasks
    /\ Callback \in Tasks
    /\ \A task \in Tasks : task.kind = "copy" => Named(task) \subseteq Objects
    /\ \A task \in Tasks : task.kind = "await" => task.other \in Streams
BY DEF Await, Copy, Callback, Tasks, Copies, Awaits, Named, Objects

\* What EnqueueTask(s, task) does, said of the queues' elements.
Enqueued(s, task) ==
    /\ queue' \in [Streams -> Seq(Tasks)]
    /\ enqueued' \in [Streams -> Nat]
    /\ \A r \in Streams : \A i \in 1 .. Len(queue[r]) :
          i \in 1 .. Len(queue'[r]) /\ queue'[r][i] = queue[r][i]
    /\ \A r \in Streams : \A i \in 1 .. Len(queue'[r]) :
          \/ i \in 1 .. Len(queue[r]) /\ queue'[r][i] = queue[r][i]
          \/ r = s /\ queue'[r][i] = task /\ Done(r) + i = enqueued[s] + 1
    /\ \E i \in 1 .. Len(queue'[s]) : queue'[s][i] = task
    /\ \A r \in Streams : enqueued[r] <= enqueued'[r]
    /\ enqueued'[s] = enqueued[s] + 1
    /\ \A r \in Streams : Done(r)' = Done(r) /\ Done(r) \in Int

LEMMA EnqueueFacts ==
    ASSUME TypeOK, NEW s \in Streams, NEW task \in Tasks, EnqueueTask(s, task)
    PROVE  Enqueued(s, task)
<1>1. /\ queue' \in [Streams -> Seq(Tasks)]
      /\ enqueued' \in [Streams -> Nat]
      /\ \A r \in Streams \ {s} : queue'[r] = queue[r]
      /\ Len(queue[s]) \in Nat
      /\ Len(queue'[s]) = Len(queue[s]) + 1
      /\ \A i \in 1 .. Len(queue[s]) : queue'[s][i] = queue[s][i]
      /\ queue'[s][Len(queue[s]) + 1] = task
      /\ \A r \in Streams : enqueued[r] <= enqueued'[r]
      /\ enqueued'[s] = enqueued[s] + 1
      /\ \A r \in Streams : Done(r)' = Done(r) /\ Done(r) \in Int
      /\ Done(s) + Len(queue[s]) + 1 = enqueued[s] + 1
  BY DEF TypeOK, EnqueueTask, Done
<1>2. ASSUME NEW r \in Streams, NEW i \in 1 .. Len(queue[r])
      PROVE  i \in 1 .. Len(queue'[r]) /\ queue'[r][i] = queue[r][i]
  <2>1. \A j \in 1 .. Len(queue[s]) : j \in 1 .. Len(queue'[s])
    BY <1>1
  <2>2. CASE r = s
    BY <1>1, <2>1, <2>2
  <2>3. CASE r # s
    BY <1>1, <2>3
  <2>4. QED BY <2>2, <2>3
<1>3. ASSUME NEW r \in Streams, NEW i \in 1 .. Len(queue'[r])
      PROVE  \/ i \in 1 .. Len(queue[r]) /\ queue'[r][i] = queue[r][i]
             \/ r = s /\ queue'[r][i] = task /\ Done(r) + i = enqueued[s] + 1
  <2>1. CASE r = s /\ i <= Len(queue[s])
    BY <1>1, <2>1
  <2>2. CASE r = s /\ ~(i <= Len(queue[s]))
    BY <1>1, <2>2
  <2>3. CASE r # s
    BY <1>1, <2>3
  <2>4. QED BY <2>1, <2>2, <2>3
<1>4. \E i \in 1 .. Len(queue'[s]) : queue'[s][i] = task
  <2>1. Len(queue[s]) + 1 \in 1 .. Len(queue'[s])
    BY <1>1
  <2>2. QED BY <1>1, <2>1
<1>5. QED BY <1>1, <1>2, <1>3, <1>4 DEF Enqueued

\* What RunTask(s) does, said of the queues' elements.
Ran(s) ==
    /\ queue' \in [Streams -> Seq(Tasks)]
    /\ \A r \in Streams \ {s} : queue'[r] = queue[r]
    /\ Len(queue[s]) \in Nat \ {0}
    /\ Len(queue'[s]) = Len(queue[s]) - 1
    /\ \A i \in 1 .. Len(queue'[s]) : queue'[s][i] = queue[s][i + 1]
    /\ \A r \in Streams \ {s} : Done(r)' = Done(r)
    /\ Done(s)' = Done(s) + 1
    /\ \A r \in Streams : Done(r) \in Int

LEMMA RunFacts ==
    ASSUME TypeOK, NEW s \in Streams, RunTask(s)
    PROVE  Ran(s)
BY DEF TypeOK, RunTask, Runnable, Done, Ran

-----------------------------------------------------------------------------
(* Typing *)

\* What a copy to or from a device does to the queues and the uses.
LEMMA CopyFacts ==
    ASSUME TypeOK, NEW h \in Hosts, NEW s \in Streams,
           NEW d \in Descriptors, NEW m \in HostMemory,
           MemcpyDeviceToHost(h, s, d, m) \/ MemcpyHostToDevice(h, s, d, m)
    PROVE  \E task \in Tasks :
              /\ EnqueueTask(s, task)
              /\ task.kind = "copy"
              /\ Sound(task)
              /\ lastUse' = [o \in Objects |->
                    IF o \in Named(task)
                    THEN [lastUse[o] EXCEPT ![s] = enqueued[s] + 1]
                    ELSE lastUse[o]]
              /\ UNCHANGED <<alive, held, hasty, blocked, ticket, known>>
<1>1. held[d] \in Buffers
  BY DEF TypeOK
<1>2. CASE MemcpyDeviceToHost(h, s, d, m)
  <2> DEFINE task == Copy(held[d], m, held[d])
  <2>1. task \in Tasks /\ task.kind = "copy" /\ Named(task) = {held[d], m}
    BY <1>1, TaskTypes DEF Copy, Named
  <2>2. Sound(task)
    BY <1>1, <1>2, StreamsAssumption DEF MemcpyDeviceToHost, Sound, Named, Copy
  <2>3. EnqueueTask(s, task)
    BY <1>2 DEF MemcpyDeviceToHost, EnqueueCopy, Copy
  <2>4. QED BY <1>2, <2>1, <2>2, <2>3 DEF MemcpyDeviceToHost, EnqueueCopy
<1>3. CASE MemcpyHostToDevice(h, s, d, m)
  <2> DEFINE task == Copy(d, m, held[d])
  <2>1. task \in Tasks /\ task.kind = "copy" /\ Named(task) = {d, held[d], m}
    BY <1>1, TaskTypes DEF Copy, Named
  <2>2. Sound(task)
    BY <1>1, <1>3 DEF MemcpyHostToDevice, Sound, Named, Copy
  <2>3. EnqueueTask(s, task)
    BY <1>3 DEF MemcpyHostToDevice, EnqueueCopy, Copy
  <2>4. QED BY <1>3, <2>1, <2>2, <2>3 DEF MemcpyHostToDevice, EnqueueCopy
<1>4. QED BY <1>2, <1>3

\* The calls that create, free or rewrite an object.
ObjectCall(h) ==
    \/ \E b \in Buffers : Allocate(h, b) \/ Deallocate(h, b)
    \/ \E o \in HostMemory : Create(h, o) \/ Free(h, o)
    \/ \E d \in Descriptors, b \in Buffers : Describe(h, d, b)
    \/ \E d \in Descriptors : Free(h, d)

\* Every variable of the executor keeps its type.
THEOREM TypeCorrect == Spec => []TypeOK
<1>1. Init => TypeOK
  BY DEF Init, TypeOK
<1>2. TypeOK /\ [Next]_vars => TypeOK'
  <2> SUFFICES ASSUME TypeOK, [Next]_vars PROVE TypeOK'
    OBVIOUS
  <2>1. ASSUME NEW h \in Hosts, HostCall(h)
        PROVE  TypeOK'
    <3>1. ASSUME ObjectCall(h)
          PROVE  TypeOK'
      BY <3>1 DEF ObjectCall, Allocate, Deallocate, Create, Free, Describe,
                  TypeOK, Objects
    <3>2. ASSUME NEW s \in Streams, NEW d \in Descriptors, NEW m \in HostMemory,
                 MemcpyDeviceToHost(h, s, d, m) \/ MemcpyHostToDevice(h, s, d, m)
          PROVE  TypeOK'
      <4>1. PICK task \in Tasks :
              /\ EnqueueTask(s, task)
              /\ lastUse' = [o \in Objects |->
                    IF o \in Named(task)
                    THEN [lastUse[o] EXCEPT ![s] = enqueued[s] + 1]
                    ELSE lastUse[o]]
              /\ UNCHANGED <<alive, held, hasty, blocked, ticket, known>>
        BY <3>2, CopyFacts
      <4>2. lastUse' \in [Objects -> [Streams -> Nat]]
        BY <4>1 DEF TypeOK
      <4>3. QED BY <4>1, <4>2, EnqueueFacts DEF TypeOK, Enqueued
    <3>3. ASSUME NEW s \in Streams, HostCallback(h, s)
          PROVE  TypeOK'
      BY <3>3, EnqueueFacts, TaskTypes DEF HostCallback, TypeOK, Enqueued, memory
    <3>4. ASSUME NEW p \in Dependencies, CreateStreamDependency(h, p[2], p[3])
          PROVE  TypeOK'
      <4> DEFINE d == p[2]
                 o == p[3]
      <4>1. d \in Streams /\ o \in Streams
        BY StreamsAssumption
      <4> HIDE DEF d, o
      <4>2. CreateStreamDependency(h, d, o)
        BY <3>4 DEF d, o
      <4>3. Enqueued(d, Await(o))
        BY <4>1, <4>2, TaskTypes, EnqueueFacts DEF CreateStreamDependency, Await
      <4>4. ticket' \in [Hosts -> [Streams -> Nat]]
        <5>1. [known[h] EXCEPT ![d] = enqueued[d] + 1, ![o] = enqueued[o]]
                  \in [Streams -> Nat]
          <6>1. known[h] \in [Streams -> Nat]
            BY DEF TypeOK
          <6>2. enqueued[d] + 1 \in Nat /\ enqueued[o] \in Nat
            BY <4>1 DEF TypeOK
          <6>3. QED BY <6>1, <6>2
        <5>2. QED BY <4>2, <5>1 DEF CreateStreamDependency, TypeOK
      <4>5. QED
        BY <4>1, <4>2, <4>3, <4>4
        DEF CreateStreamDependency, TypeOK, Enqueued, memory
    <3>5. ASSUME NEW s \in Streams, BlockHostUntilDone(h, s)
          PROVE  TypeOK'
      BY <3>5 DEF BlockHostUntilDone, TypeOK, memory
    <3>6. QED BY <2>1, <3>1, <3>2, <3>3, <3>4, <3>5 DEF HostCall, ObjectCall
  <2>2. ASSUME NEW h \in Hosts, Return(h)
        PROVE  TypeOK'
    BY <2>2 DEF Return, TypeOK, memory
  <2>3. ASSUME NEW s \in Streams, RunTask(s)
        PROVE  TypeOK'
    BY <2>3, RunFacts DEF RunTask, TypeOK, Ran, memory
  <2>4. CASE UNCHANGED vars
    BY <2>4 DEF vars, TypeOK
  <2>5. QED BY <2>1, <2>2, <2>3, <2>4 DEF Next
<1>3. QED BY <1>1, <1>2, PTL DEF Spec

-----------------------------------------------------------------------------
(* The invariant, operation by operation *)

\* An enqueued task disturbs nobody's promise and nobody's knowledge; of the
\* tasks' properties it only owes its own.
LEMMA EnqueueKeeps ==
    ASSUME StreamInv, NEW s \in Streams, NEW task \in Tasks,
           EnqueueTask(s, task), UNCHANGED <<known, alive, held, hasty>>,
           task.kind = "copy" => Sound(task),
           \A h \in Hosts : blocked[h] \subseteq blocked'[h],
           task.kind = "await" => Held(s, task)',
           lastUse' \in [Objects -> [Streams -> Nat]],
           \A o \in Objects, r \in Streams : lastUse[o][r] <= lastUse'[o][r],
           task.kind = "copy" =>
              \A o \in Named(task) : lastUse'[o][s] = enqueued[s] + 1
    PROVE  /\ KnownDone' /\ Numbered' /\ CopiesSound' /\ AwaitsHeld'
           /\ \A h \in Hosts, r \in Streams : \A d \in blocked[h] :
                 \/ r = d
                 \/ ticket[h][r] <= Done(r)'
                 \/ \E i \in 1 .. Len(queue'[d]) : queue'[d][i] = Await(r)
<1>1. Enqueued(s, task)
  BY EnqueueFacts DEF StreamInv
<1>2. KnownDone'
  BY <1>1 DEF KnownDone, Enqueued, StreamInv
<1>3. ASSUME NEW r \in Streams, NEW i \in 1 .. Len(queue[r])
      PROVE  queue[r][i] \in Tasks
  BY <1>3 DEF StreamInv, TypeOK
<1>4. CopiesSound' /\ AwaitsHeld'
  <2> SUFFICES ASSUME NEW r \in Streams, NEW i \in 1 .. Len(queue'[r])
               PROVE  /\ queue'[r][i].kind = "copy" => Sound(queue[r][i])'
                      /\ queue'[r][i].kind = "await" => Held(r, queue[r][i])'
    BY DEF CopiesSound, AwaitsHeld
  <2>1. CASE r = s /\ queue'[r][i] = task
    BY <2>1 DEF Sound, Named, Held
  <2>2. CASE i \in 1 .. Len(queue[r]) /\ queue'[r][i] = queue[r][i]
    <3>1. /\ queue[r][i].kind = "copy" => Sound(queue[r][i])
          /\ queue[r][i].kind = "await" => Held(r, queue[r][i])
      BY <2>2 DEF CopiesSound, AwaitsHeld, StreamInv
    <3>2. QED BY <2>2, <3>1 DEF Sound, Named, Held
  <2>3. QED BY <1>1, <2>1, <2>2 DEF Enqueued
<1>5. Numbered'
  <2> SUFFICES ASSUME NEW r \in Streams, NEW i \in 1 .. Len(queue'[r]),
                      queue'[r][i].kind = "copy", NEW o \in Named(queue'[r][i])
               PROVE  Done(r)' + i <= lastUse'[o][r]
    BY DEF Numbered
  <2>1. Done(r)' = Done(r) /\ Done(r) \in Int
    BY <1>1 DEF Enqueued
  <2>2. CASE r = s /\ queue'[r][i] = task /\ Done(r) + i = enqueued[s] + 1
    <3>1. lastUse'[o][s] = enqueued[s] + 1
      BY <2>2
    <3>2. enqueued[s] + 1 <= enqueued[s] + 1
      BY DEF StreamInv, TypeOK
    <3>3. QED BY <2>1, <2>2, <3>1, <3>2
  <2>3. CASE i \in 1 .. Len(queue[r]) /\ queue'[r][i] = queue[r][i]
    <3>1. o \in Objects
      BY <1>3, <2>3, TaskTypes
    <3>2. Done(r) + i <= lastUse[o][r]
      BY <2>3 DEF Numbered, StreamInv
    <3>3. /\ lastUse[o][r] \in Nat
          /\ lastUse'[o][r] \in Nat
          /\ lastUse[o][r] <= lastUse'[o][r]
      BY <3>1 DEF TypeOK, StreamInv
    <3>4. QED BY <2>1, <2>3, <3>2, <3>3
  <2>4. QED BY <1>1, <2>2, <2>3 DEF Enqueued
<1>6. ASSUME NEW h \in Hosts, NEW r \in Streams, NEW d \in blocked[h]
      PROVE  \/ r = d
             \/ ticket[h][r] <= Done(r)'
             \/ \E i \in 1 .. Len(queue'[d]) : queue'[d][i] = Await(r)
  <2>1. d \in Streams
    BY DEF StreamInv, TypeOK
  <2>2. CASE \E i \in 1 .. Len(queue[d]) : queue[d][i] = Await(r)
    BY <1>1, <2>1, <2>2 DEF Enqueued
  <2>3. CASE r = d \/ ticket[h][r] <= Done(r)
    BY <1>1, <2>3 DEF Enqueued
  <2>4. QED BY <2>2, <2>3 DEF Promise, StreamInv
<1>7. QED BY <1>2, <1>4, <1>5, <1>6

LEMMA MemcpyKeeps ==
    ASSUME StreamInv, TypeOK', NEW h \in Hosts, NEW s \in Streams,
           NEW d \in Descriptors, NEW m \in HostMemory,
           MemcpyDeviceToHost(h, s, d, m) \/ MemcpyHostToDevice(h, s, d, m)
    PROVE  StreamInv'
<1>1. PICK task \in Tasks :
         /\ EnqueueTask(s, task)
         /\ task.kind = "copy"
         /\ Sound(task)
         /\ lastUse' = [o \in Objects |->
               IF o \in Named(task)
               THEN [lastUse[o] EXCEPT ![s] = enqueued[s] + 1]
               ELSE lastUse[o]]
         /\ UNCHANGED <<alive, held, hasty, blocked, ticket, known>>
  BY CopyFacts DEF StreamInv
<1>2. ASSUME NEW o \in Objects, NEW r \in Streams
      PROVE  lastUse'[o][r] = IF o \in Named(task) /\ r = s THEN enqueued[s] + 1
                                                        ELSE lastUse[o][r]
  BY <1>1 DEF StreamInv, TypeOK
<1>3. \A o \in Objects, r \in Streams : lastUse[o][r] <= lastUse'[o][r]
  <2>1. \A o \in Objects, r \in Streams :
            /\ lastUse[o][r] \in Nat /\ enqueued[r] \in Nat
            /\ lastUse[o][r] <= enqueued[r]
    BY DEF StreamInv, UsesPast, TypeOK
  <2>2. QED BY <1>2, <2>1
<1>4. /\ lastUse' \in [Objects -> [Streams -> Nat]]
      /\ \A o \in Named(task) : lastUse'[o][s] = enqueued[s] + 1
  BY <1>1, <1>2, TaskTypes DEF TypeOK
<1>5. /\ KnownDone' /\ Numbered' /\ CopiesSound' /\ AwaitsHeld'
      /\ \A g \in Hosts, r \in Streams : \A e \in blocked[g] :
            \/ r = e
            \/ ticket[g][r] <= Done(r)'
            \/ \E i \in 1 .. Len(queue'[e]) : queue'[e][i] = Await(r)
  BY <1>1, <1>3, <1>4, EnqueueKeeps
<1>6. Promise'
  BY <1>1, <1>5 DEF Promise
<1>7. Enqueued(s, task)
  BY <1>1, EnqueueFacts DEF StreamInv
<1>8. Waiting'
  <2>1. ASSUME NEW g \in Hosts, NEW r \in Streams
        PROVE  ticket[g][r] <= enqueued'[r]
    <3>1. /\ ticket[g][r] \in Nat /\ enqueued[r] \in Nat
          /\ enqueued'[r] \in Nat /\ ticket[g][r] <= enqueued[r]
      BY <1>1 DEF Waiting, StreamInv, TypeOK
    <3>2. enqueued[r] <= enqueued'[r]
      BY <1>7 DEF Enqueued
    <3>3. QED BY <3>1, <3>2
  <2>2. QED BY <1>1, <2>1 DEF Waiting, StreamInv
<1>9. UsesPast'
  <2>1. ASSUME NEW o \in Objects, NEW r \in Streams
        PROVE  lastUse'[o][r] <= enqueued'[r]
    <3>1. /\ lastUse[o][r] \in Nat /\ enqueued[r] \in Nat
          /\ enqueued'[r] \in Nat /\ lastUse[o][r] <= enqueued[r]
      BY DEF UsesPast, StreamInv, TypeOK
    <3>2. enqueued[r] <= enqueued'[r] /\ enqueued'[s] = enqueued[s] + 1
      BY <1>7 DEF Enqueued
    <3>3. QED BY <1>2, <3>1, <3>2
  <2>2. QED BY <2>1 DEF UsesPast
<1>10. QED BY <1>5, <1>6, <1>8, <1>9 DEF StreamInv

LEMMA CallbackKeeps ==
    ASSUME StreamInv, TypeOK', NEW h \in Hosts, NEW s \in Streams,
           HostCallback(h, s)
    PROVE  StreamInv'
<1> USE DEF HostCallback, memory
<1>1. /\ EnqueueTask(s, Callback)
      /\ Callback \in Tasks
      /\ Callback.kind = "callback"
  BY TaskTypes DEF Callback
<1>2. /\ lastUse' \in [Objects -> [Streams -> Nat]]
      /\ \A b \in Objects, r \in Streams : lastUse[b][r] <= lastUse'[b][r]
  BY DEF StreamInv, TypeOK
<1>3. /\ KnownDone' /\ Numbered' /\ CopiesSound' /\ AwaitsHeld'
      /\ \A g \in Hosts, r \in Streams : \A d \in blocked[g] :
            \/ r = d
            \/ ticket[g][r] <= Done(r)'
            \/ \E i \in 1 .. Len(queue'[d]) : queue'[d][i] = Await(r)
  BY <1>1, <1>2, EnqueueKeeps
<1>4. Promise'
  BY <1>3 DEF Promise
<1>5. Enqueued(s, Callback)
  BY <1>1, EnqueueFacts DEF StreamInv
<1>6. Waiting' /\ UsesPast'
  <2>1. ASSUME NEW r \in Streams, NEW n \in Nat, n <= enqueued[r]
        PROVE  n <= enqueued'[r]
    <3>1. enqueued[r] \in Nat /\ enqueued'[r] \in Nat
      BY DEF StreamInv, TypeOK
    <3>2. QED BY <1>5, <2>1, <3>1 DEF Enqueued
  <2>2. \A g \in Hosts, r \in Streams : ticket[g][r] \in Nat
    BY DEF StreamInv, TypeOK
  <2>3. \A b \in Objects, r \in Streams : lastUse[b][r] \in Nat
    BY DEF StreamInv, TypeOK
  <2>4. QED BY <2>1, <2>2, <2>3 DEF Waiting, UsesPast, StreamInv
<1>7. QED BY <1>3, <1>4, <1>6 DEF StreamInv

LEMMA DependencyKeeps ==
    ASSUME StreamInv, TypeOK', NEW h \in Hosts,
           NEW d \in Streams, NEW o \in Streams,
           <<h, d, o>> \in Dependencies, CreateStreamDependency(h, d, o)
    PROVE  StreamInv'
<1>1. /\ EnqueueTask(d, Await(o))
      /\ Await(o) \in Tasks
      /\ Await(o).kind = "await" /\ Await(o).other = o
  BY TaskTypes DEF CreateStreamDependency, Await
<1>2. /\ lastUse' \in [Objects -> [Streams -> Nat]]
      /\ \A b \in Objects, r \in Streams : lastUse[b][r] <= lastUse'[b][r]
      /\ UNCHANGED <<known, alive, held, hasty>>
  <2>1. lastUse' = lastUse /\ UNCHANGED <<known, alive, held, hasty>>
    BY DEF CreateStreamDependency, memory
  <2>2. lastUse \in [Objects -> [Streams -> Nat]]
    BY DEF StreamInv, TypeOK
  <2>3. \A b \in Objects, r \in Streams : lastUse[b][r] <= lastUse[b][r]
    BY <2>2
  <2>4. QED BY <2>1, <2>2, <2>3
<1>3. /\ \A g \in Hosts : blocked'[g] = IF g = h THEN {d} ELSE blocked[g]
      /\ blocked[h] = {}
      /\ \A g \in Hosts \ {h} : ticket'[g] = ticket[g]
      /\ \A r \in Streams :
            ticket'[h][r] = IF r = o THEN enqueued[o]
                            ELSE IF r = d THEN enqueued[d] + 1 ELSE known[h][r]
  <2>1. /\ \A g \in Hosts : blocked'[g] = IF g = h THEN {d} ELSE blocked[g]
        /\ blocked[h] = {}
    BY DEF CreateStreamDependency, StreamInv, TypeOK, Running
  <2>2. /\ \A g \in Hosts \ {h} : ticket'[g] = ticket[g]
        /\ ticket'[h] = [known[h] EXCEPT ![d] = enqueued[d] + 1,
                                         ![o] = enqueued[o]]
    BY DEF CreateStreamDependency, StreamInv, TypeOK
  <2>3. known[h] \in [Streams -> Nat]
    BY DEF StreamInv, TypeOK
  <2>4. QED BY <2>1, <2>2, <2>3
<1>4. Held(d, Await(o))'
  BY <1>1, <1>3 DEF Held
<1>5. /\ KnownDone' /\ Numbered' /\ CopiesSound' /\ AwaitsHeld'
      /\ \A g \in Hosts, r \in Streams : \A s \in blocked[g] :
            \/ r = s
            \/ ticket[g][r] <= Done(r)'
            \/ \E i \in 1 .. Len(queue'[s]) : queue'[s][i] = Await(r)
  <2>1. \A g \in Hosts : blocked[g] \subseteq blocked'[g]
    BY <1>3
  <2>2. QED BY <1>1, <1>2, <1>4, <2>1, EnqueueKeeps
<1>6. Enqueued(d, Await(o))
  BY <1>1, EnqueueFacts DEF StreamInv
<1>7. Promise'
  <2> SUFFICES ASSUME NEW g \in Hosts, NEW r \in Streams,
                      NEW s \in blocked'[g], r # s
               PROVE  \/ ticket'[g][r] <= Done(r)'
                      \/ \E i \in 1 .. Len(queue'[s]) : queue'[s][i] = Await(r)
    BY DEF Promise
  <2>1. CASE g # h
    <3>1. s \in blocked[g] /\ ticket'[g][r] = ticket[g][r]
      BY <1>3, <2>1
    <3>2. QED BY <1>5, <3>1
  <2>2. CASE g = h
    <3>1. s = d
      BY <1>3, <2>2
    <3>2. CASE r = o
      BY <1>6, <3>1, <3>2 DEF Enqueued
    <3>3. CASE r # o
      <4>1. ticket'[g][r] = known'[h][r]
        BY <1>2, <1>3, <2>2, <3>1, <3>3
      <4>2. QED BY <1>5, <4>1 DEF KnownDone
    <3>4. QED BY <3>2, <3>3
  <2>3. QED BY <2>1, <2>2
<1>8. ASSUME NEW r \in Streams
      PROVE  /\ enqueued[r] \in Nat /\ enqueued'[r] \in Nat
             /\ enqueued[r] <= enqueued'[r]
             /\ enqueued'[d] = enqueued[d] + 1
  BY <1>6 DEF Enqueued, StreamInv, TypeOK
<1>9. ASSUME NEW g \in Hosts, NEW r \in Streams
      PROVE  ticket'[g][r] <= enqueued'[r]
  <2>1. /\ ticket[g][r] \in Nat /\ ticket[g][r] <= enqueued[r]
        /\ known[h][r] \in Nat /\ known[h][r] <= enqueued[r]
    <3>1. Len(queue[r]) \in Nat
      BY DEF StreamInv, TypeOK
    <3>2. known[h][r] <= Done(r)
      BY DEF StreamInv, KnownDone
    <3>3. ticket[g][r] \in Nat /\ known[h][r] \in Nat
      BY DEF StreamInv, TypeOK
    <3>4. QED BY <1>8, <3>1, <3>2, <3>3 DEF StreamInv, Waiting, Done
  <2>2. CASE g # h
    BY <1>3, <1>8, <2>1, <2>2
  <2>3. CASE g = h
    BY <1>3, <1>8, <2>1, <2>3
  <2>4. QED BY <2>2, <2>3
<1>10. Waiting'
  BY <1>3, <1>9 DEF Waiting, StreamInv, TypeOK
<1>11. UsesPast'
  <2>1. lastUse' = lastUse
    BY DEF CreateStreamDependency, memory
  <2>2. \A b \in Objects, r \in Streams :
            lastUse[b][r] \in Nat /\ lastUse[b][r] <= enqueued[r]
    BY DEF StreamInv, TypeOK, UsesPast
  <2>3. QED BY <1>8, <2>1, <2>2 DEF UsesPast
<1>12. QED BY <1>5, <1>7, <1>10, <1>11 DEF StreamInv

\* The calls and returns that leave the queues alone.
LEMMA HostStepKeeps ==
    ASSUME StreamInv, TypeOK', NEW h \in Hosts,
           \/ ObjectCall(h)
           \/ \E s \in Streams : BlockHostUntilDone(h, s)
           \/ Return(h)
    PROVE  StreamInv'
<1> USE DEF StreamInv
<1>1. /\ \A r \in Streams : Done(r)' = Done(r) /\ Done(r) \in Int
      /\ UNCHANGED <<queue, enqueued, lastUse>>
  <2>1. UNCHANGED <<queue, enqueued, lastUse>>
    BY DEF ObjectCall, Allocate, Deallocate, Create, Free, Describe,
           BlockHostUntilDone, Return, memory
  <2>2. QED BY <2>1 DEF Done, TypeOK
<1>2. Numbered' /\ UsesPast'
  BY <1>1 DEF Numbered, UsesPast
<1>3. \A g \in Hosts, r \in Streams :
          known[g][r] \in Nat /\ enqueued[r] \in Nat /\ known[g][r] <= enqueued[r]
  <2>1. ASSUME NEW g \in Hosts, NEW r \in Streams
        PROVE  known[g][r] <= enqueued[r]
    <3>1. Len(queue[r]) \in Nat /\ enqueued[r] \in Nat /\ known[g][r] \in Nat
      BY DEF TypeOK
    <3>2. QED BY <3>1 DEF KnownDone, Done
  <2>2. QED BY <2>1 DEF TypeOK
<1>4. ASSUME NEW s \in Streams, NEW i \in 1 .. Len(queue[s]),
             queue[s][i].kind = "copy", NEW o \in Objects, Waited(h, o)
      PROVE  o \notin Named(queue[s][i])
  <2> SUFFICES ASSUME o \in Named(queue[s][i]) PROVE FALSE
    OBVIOUS
  <2>1. Done(s) + i <= lastUse[o][s]
    BY <1>4 DEF Numbered
  <2>2. lastUse[o][s] <= known[h][s] /\ known[h][s] <= Done(s)
    BY <1>4 DEF Waited, KnownDone
  <2>3. lastUse[o][s] \in Nat /\ known[h][s] \in Nat /\ Done(s) \in Int
    BY <1>1 DEF TypeOK
  <2>4. QED BY <2>1, <2>2, <2>3
<1>5. CASE ObjectCall(h)
  <2>1. UNCHANGED <<blocked, ticket, known>>
    BY <1>5 DEF ObjectCall, Allocate, Deallocate, Create, Free, Describe
  <2>2. PICK o \in Objects :
           /\ alive \subseteq alive' \cup {o}
           /\ \A d \in Descriptors \ {o} : held'[d] = held[d]
           /\ \/ alive \subseteq alive' /\ held' = held /\ hasty' = hasty
              \/ hasty' = IF Waited(h, o) THEN hasty ELSE hasty \cup {o}
    <3>1. CASE \E b \in Buffers \cup HostMemory : Create(h, b)
      BY <3>1 DEF Create, Objects
    <3>2. CASE \E b \in Objects : Free(h, b)
      BY <3>2 DEF Free
    <3>3. CASE \E d \in Descriptors, b \in Buffers : Describe(h, d, b)
      BY <3>3 DEF Describe, Objects, TypeOK
    <3>4. QED
      BY <1>5, <3>1, <3>2, <3>3 DEF ObjectCall, Allocate, Deallocate, Objects
  <2>3. ASSUME NEW s \in Streams, NEW i \in 1 .. Len(queue[s]),
               queue[s][i].kind = "copy"
        PROVE  Sound(queue[s][i])'
    <3>1. Sound(queue[s][i])
      BY <2>3 DEF CopiesSound
    <3>2. CASE o \notin Named(queue[s][i])
      <4>1. queue[s][i].device \in Named(queue[s][i])
        BY DEF Named
      <4>2. hasty \subseteq hasty'
        BY <2>2
      <4>3. UNCHANGED queue
        BY <1>1
      <4>4. QED BY <2>2, <3>1, <3>2, <4>1, <4>2, <4>3 DEF Sound, Named
    <3>3. CASE o \in Named(queue[s][i])
      <4>1. ~Waited(h, o)
        BY <1>4, <2>3, <3>3
      <4>2. CASE o \in hasty'
        BY <1>1, <3>3, <4>2 DEF Sound, Named
      <4>3. CASE alive \subseteq alive' /\ held' = held /\ hasty' = hasty
        BY <1>1, <3>1, <4>3 DEF Sound, Named
      <4>4. QED BY <2>2, <4>1, <4>2, <4>3
    <3>4. QED BY <3>2, <3>3
  <2>4. CopiesSound'
    BY <1>1, <2>3 DEF CopiesSound
  <2>5. QED
    BY <1>1, <1>2, <2>1, <2>4
    DEF Waiting, Promise, KnownDone, AwaitsHeld, Held
<1>6. ASSUME NEW s \in Streams, BlockHostUntilDone(h, s)
      PROVE  StreamInv'
  <2>1. /\ \A g \in Hosts : blocked'[g] = IF g = h THEN {s} ELSE blocked[g]
        /\ blocked[h] = {}
        /\ \A g \in Hosts \ {h} : ticket'[g] = ticket[g]
        /\ ticket'[h] = [known[h] EXCEPT ![s] = enqueued[s]]
        /\ known[h] \in [Streams -> Nat]
        /\ UNCHANGED <<known, alive, held, hasty>>
    BY <1>6 DEF BlockHostUntilDone, TypeOK, memory, Running
  <2>2. \A r \in Streams :
            ticket'[h][r] = IF r = s THEN enqueued[s] ELSE known[h][r]
    BY <2>1
  <2>3. Waiting'
    <3>1. ASSUME NEW g \in Hosts, NEW r \in Streams
          PROVE  ticket'[g][r] <= enqueued[r]
      <4>1. CASE g = h
        BY <1>3, <2>2, <4>1
      <4>2. CASE g # h
        BY <2>1, <4>2 DEF Waiting
      <4>3. QED BY <4>1, <4>2
    <3>2. QED BY <1>1, <2>1, <3>1 DEF Waiting
  <2>4. Promise'
    BY <1>1, <2>1, <2>2 DEF Promise, KnownDone
  <2>5. KnownDone'
    BY <1>1, <2>1 DEF KnownDone
  <2>6. CopiesSound'
    BY <1>1, <2>1 DEF CopiesSound, Sound, Named
  <2>7. AwaitsHeld'
    <3>1. \A g \in Hosts : blocked[g] \subseteq blocked'[g]
      BY <2>1
    <3>2. QED BY <1>1, <3>1 DEF AwaitsHeld, Held
  <2>8. QED BY <1>2, <2>3, <2>4, <2>5, <2>6, <2>7
<1>7. CASE Return(h)
  <2>1. PICK s \in blocked[h] : queue[s] = <<>>
    BY <1>7 DEF Return
  <2>2. /\ \A g \in Hosts : blocked'[g] = IF g = h THEN {} ELSE blocked[g]
        /\ \A g \in Hosts : known'[g] = IF g = h THEN ticket[h] ELSE known[g]
        /\ UNCHANGED <<ticket, alive, held, hasty>>
    BY <1>7 DEF Return, TypeOK, memory
  <2>3. s \in Streams /\ Len(queue[s]) = 0
    BY <2>1 DEF TypeOK
  <2>4. ASSUME NEW r \in Streams
        PROVE  ticket[h][r] <= Done(r)
    <3>1. CASE r = s
      BY <2>3, <3>1 DEF Waiting, Done, TypeOK
    <3>2. CASE r # s
      BY <2>3, <3>2 DEF Promise
    <3>3. QED BY <3>1, <3>2
  <2>5. KnownDone'
    BY <1>1, <2>2, <2>4 DEF KnownDone
  <2>6. Waiting' /\ Promise'
    BY <1>1, <2>2 DEF Waiting, Promise
  <2>7. CopiesSound'
    BY <1>1, <2>2 DEF CopiesSound, Sound, Named
  <2>8. AwaitsHeld'
    <3> SUFFICES ASSUME NEW r \in Streams, NEW i \in 1 .. Len(queue[r]),
                        queue[r][i].kind = "await"
                 PROVE  Held(r, queue[r][i])'
      BY <1>1 DEF AwaitsHeld
    <3>1. PICK g \in Hosts :
             r \in blocked[g] /\ <<g, r, queue[r][i].other>> \in Dependencies
      BY DEF AwaitsHeld, Held
    <3>2. r # s
      BY <2>3
    <3>3. g # h
      BY <3>1, <3>2 DEF Waiting
    <3>4. QED BY <1>1, <2>2, <3>1, <3>3 DEF Held
  <2>9. QED BY <1>2, <2>5, <2>6, <2>7, <2>8
<1>8. QED BY <1>5, <1>6, <1>7

LEMMA RunKeeps ==
    ASSUME StreamInv, TypeOK', NEW s \in Streams, RunTask(s)
    PROVE  StreamInv'
<1> USE DEF StreamInv
<1>1. /\ Ran(s)
      /\ UNCHANGED <<enqueued, alive, held, lastUse, hasty, blocked, ticket, known>>
  BY RunFacts DEF RunTask, memory
<1>2. ASSUME NEW r \in Streams, NEW i \in 1 .. Len(queue'[r])
      PROVE  \E j \in 1 .. Len(queue[r]) :
                /\ queue'[r][i] = queue[r][j]
                /\ Done(r)' + i = Done(r) + j
  <2>1. CASE r = s
    <3>1. i + 1 \in 1 .. Len(queue[r]) /\ queue'[r][i] = queue[r][i + 1]
      BY <1>1, <2>1 DEF Ran
    <3>2. Done(r)' + i = Done(r) + (i + 1)
      BY <1>1, <2>1 DEF Ran
    <3>3. QED BY <3>1, <3>2
  <2>2. CASE r # s
    BY <1>1, <2>2 DEF Ran
  <2>3. QED BY <2>1, <2>2
<1>3. Numbered' /\ CopiesSound' /\ AwaitsHeld'
  <2>1. ASSUME NEW r \in Streams, NEW i \in 1 .. Len(queue'[r])
        PROVE  /\ queue'[r][i].kind = "copy" =>
                     /\ \A o \in Named(queue'[r][i]) : Done(r)' + i <= lastUse[o][r]
                     /\ Sound(queue[r][i])'
               /\ queue'[r][i].kind = "await" => Held(r, queue[r][i])'
    <3>1. PICK j \in 1 .. Len(queue[r]) : /\ queue'[r][i] = queue[r][j]
                                          /\ Done(r)' + i = Done(r) + j
      BY <1>2
    <3>2. queue[r][j].kind = "copy" =>
             /\ \A o \in Named(queue[r][j]) : Done(r) + j <= lastUse[o][r]
             /\ Sound(queue[r][j])
      BY DEF Numbered, CopiesSound
    <3>3. queue[r][j].kind = "await" => Held(r, queue[r][j])
      BY DEF AwaitsHeld
    <3>4. QED BY <1>1, <3>1, <3>2, <3>3 DEF Sound, Named, Held
  <2>2. QED BY <1>1, <2>1 DEF Numbered, CopiesSound, AwaitsHeld
<1>4. \A r \in Streams :
          Done(r) \in Int /\ Done(r)' \in Int /\ Done(r) <= Done(r)'
  BY <1>1 DEF Ran
<1>5. KnownDone'
  BY <1>1, <1>4 DEF KnownDone, TypeOK
<1>6. Promise'
  <2> SUFFICES ASSUME NEW h \in Hosts, NEW r \in Streams,
                      NEW d \in blocked[h], r # d, ~(ticket[h][r] <= Done(r)')
               PROVE  \E i \in 1 .. Len(queue'[d]) : queue'[d][i] = Await(r)
    BY <1>1 DEF Promise
  <2>1. d \in Streams /\ ticket[h][r] \in Nat
    BY DEF TypeOK
  <2>2. ~(ticket[h][r] <= Done(r))
    BY <1>4, <2>1
  <2>3. PICK i \in 1 .. Len(queue[d]) : queue[d][i] = Await(r)
    BY <2>1, <2>2 DEF Promise
  <2>4. CASE d # s
    BY <1>1, <2>1, <2>3, <2>4 DEF Ran
  <2>5. CASE d = s /\ i = 1
    <3>1. Head(queue[d]) = Await(r)
      BY <2>1, <2>3, <2>5 DEF TypeOK
    <3>2. queue[r] = <<>>
      BY <2>5, <3>1 DEF RunTask, Runnable, WaitsFor, Await
    <3>3. Done(r) = enqueued[r]
      BY <3>2 DEF Done, TypeOK
    <3>4. QED BY <2>2, <3>3 DEF Waiting
  <2>6. CASE d = s /\ i # 1
    <3>1. i - 1 \in 1 .. Len(queue'[s]) /\ queue'[s][i - 1] = queue[s][i]
      BY <1>1, <2>6 DEF Ran
    <3>2. QED BY <2>3, <2>6, <3>1
  <2>7. QED BY <2>4, <2>5, <2>6
<1>7. Waiting' /\ UsesPast'
  BY <1>1 DEF Waiting, UsesPast
<1>8. QED BY <1>3, <1>5, <1>6, <1>7

LEMMA StreamStep ==
    ASSUME StreamInv, TypeOK', [Next]_vars
    PROVE  StreamInv'
<1>1. ASSUME NEW h \in Hosts, NEW p \in Dependencies,
             p[1] = h, CreateStreamDependency(h, p[2], p[3])
      PROVE  StreamInv'
  <2>1. p = <<h, p[2], p[3]>> /\ p[2] \in Streams /\ p[3] \in Streams
    BY <1>1, StreamsAssumption
  <2> DEFINE d == p[2]
             o == p[3]
  <2>2. <<h, d, o>> \in Dependencies
    BY <2>1
  <2>3. QED BY <1>1, <2>1, <2>2, DependencyKeeps
<1>2. CASE UNCHANGED vars
  BY <1>2 DEF vars, StreamInv, Waiting, Promise, KnownDone, Numbered, UsesPast,
              CopiesSound, Sound, Named, AwaitsHeld, Held, Done
<1>3. ASSUME NEW h \in Hosts, HostCall(h)
      PROVE  StreamInv'
  <2>1. CASE ObjectCall(h) \/ \E s \in Streams : BlockHostUntilDone(h, s)
    BY <2>1, HostStepKeeps
  <2>2. QED
    BY <1>1, <1>3, <2>1, MemcpyKeeps, CallbackKeeps DEF HostCall, ObjectCall
<1>4. QED BY <1>2, <1>3, HostStepKeeps, RunKeeps DEF Next

-----------------------------------------------------------------------------
(* The theorems *)

LEMMA StreamInvHolds == Spec => []StreamInv
<1>1. Init => StreamInv
  BY DEF Init, StreamInv, TypeOK, Waiting, Promise, KnownDone, Numbered,
         UsesPast, CopiesSound, AwaitsHeld, Done
<1>2. StreamInv /\ TypeOK' /\ [Next]_vars => StreamInv'
  BY StreamStep
<1>3. QED BY <1>1, <1>2, TypeCorrect, PTL DEF Spec

\* A host that returned from a blocking call may rely on what it waited for: the
\* tasks have run, through the dependency too.
THEOREM ReturnsKnow == Spec => []KnownDone
<1>1. StreamInv => KnownDone
  BY DEF StreamInv
<1>2. QED BY <1>1, StreamInvHolds, PTL

\* Whatever clients free and rewrite, a pending copy finds its objects unless a
\* client freed or rewrote one of them that its own waits did not yet cover.
THEOREM MemorySafe == Spec => []NoUseAfterFree
<1>1. StreamInv => NoUseAfterFree
  BY DEF StreamInv, NoUseAfterFree, CopiesSound, Sound, Named
<1>2. QED BY <1>1, StreamInvHolds, PTL

\* When no pending task can run, the head of a stream waits for a stream that is
\* stuck as well, maybe itself, and the hosts that asked for both are blocked.
LEMMA StuckStream ==
    ASSUME StreamInv, Deadlocked
    PROVE  \E d, e \in Streams :
              /\ WaitsFor(d, e)
              /\ \E g \in Hosts : d \in blocked[g] /\ <<g, d, e>> \in Dependencies
              /\ \E h \in Hosts : /\ e \in blocked[h]
                                  /\ \E f \in Streams : <<h, e, f>> \in Dependencies
<1>1. ASSUME NEW s \in Streams, queue[s] # <<>>
      PROVE  \E o \in Streams :
                /\ WaitsFor(s, o) /\ queue[o] # <<>>
                /\ \E h \in Hosts : s \in blocked[h] /\ <<h, s, o>> \in Dependencies
  <2>1. PICK o \in Streams : WaitsFor(s, o) /\ queue[o] # <<>>
    BY <1>1 DEF Deadlocked, Runnable
  <2>2. Head(queue[s]) = queue[s][1] /\ 1 \in 1 .. Len(queue[s])
    BY <1>1 DEF StreamInv, TypeOK
  <2>3. Held(s, queue[s][1]) /\ queue[s][1].other = o
    BY <2>1, <2>2 DEF WaitsFor, StreamInv, AwaitsHeld
  <2>4. QED BY <2>1, <2>3 DEF Held
<1>2. PICK d \in Streams : queue[d] # <<>>
  BY DEF Deadlocked
<1>3. PICK e \in Streams :
         /\ WaitsFor(d, e) /\ queue[e] # <<>>
         /\ \E g \in Hosts : d \in blocked[g] /\ <<g, d, e>> \in Dependencies
  BY <1>1, <1>2
<1>4. QED BY <1>1, <1>3

\* A deadlock of the streams' threads takes a stream that waits for itself or two
\* hosts that are in CreateStreamDependency at once, on streams of which one
\* waits for the other.
THEOREM DeadlocksCross == Spec => []OnlyCrossedDeadlock
<1>1. StreamInv => OnlyCrossedDeadlock
  BY StuckStream DEF OnlyCrossedDeadlock, Crossed, StreamInv, Waiting
<1>2. QED BY <1>1, StreamInvHolds, PTL

\* If one host makes all dependencies, in whatever directions but none of a
\* stream on itself, the streams' threads never all wait.
THEOREM DeadlockFree ==
    ASSUME NEW caller \in Hosts,
           \A p \in Dependencies : p[1] = caller /\ p[2] # p[3]
    PROVE  Spec => []~Deadlocked
<1>1. StreamInv => ~Deadlocked
  <2> SUFFICES ASSUME StreamInv, Deadlocked PROVE FALSE
    OBVIOUS
  <2>1. PICK d, e \in Streams :
           /\ \E g \in Hosts : d \in blocked[g] /\ <<g, d, e>> \in Dependencies
           /\ \E h \in Hosts : /\ e \in blocked[h]
                               /\ \E f \in Streams : <<h, e, f>> \in Dependencies
    BY StuckStream
  <2>2. d # e /\ d \in blocked[caller]
    BY <2>1
  <2>3. e \in blocked[caller]
    BY <2>1
  <2>4. QED BY <2>2, <2>3 DEF StreamInv, Waiting
<1>2. QED BY <1>1, StreamInvHolds, PTL

=============================================================================
