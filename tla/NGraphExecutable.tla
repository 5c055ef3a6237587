--------------------------- MODULE NGraphExecutable ---------------------------
(***************************************************************************)
(* Executions of one compiled module: ExecuteOnStream, called by any       *)
(* number of threads at a time, on arguments that are in device buffers.   *)
(*                                                                         *)
(* The result is a ShapedBuffer: a tree with a device buffer at each node, *)
(* tables of pointers at tuples and data at arrays.  Three traversals of   *)
(* the tree must agree: the one that makes a tensor per array (pass 1),    *)
(* XLAFunction's flattening of the root into the results of the nGraph     *)
(* function, and the copy-back, which counts the tensors it has used.      *)
(*                                                                         *)
(* A shape is the sequence of the nodes of the tree in pre-order, which is *)
(* the order ShapedBuffer::buffers() is iterated in.                       *)
(***************************************************************************)
EXTENDS Naturals, Sequences, FiniteSets, SequencesExt

CONSTANTS
    Threads,       \* threads that execute the module
    Addrs,         \* addresses of device buffers
    Arguments,     \* addresses of the buffers that hold arguments
    Calls,         \* argument lists the threads may pass
    Executables,   \* [shape, parameters] of the modules to execute
    MayAllocate(_) \* of a set of free addresses, those an allocation may get

Nodes == [tuple : BOOLEAN, children : Seq(Nat)]
Children(s, n) == {s[n].children[k] : k \in DOMAIN s[n].children}

\* Each node but the first is the child of one tuple, and a node's descendants
\* follow it.
WellFormed(s) ==
    /\ s \in Seq(Nodes) \ {<<>>}
    /\ \A n \in DOMAIN s :
          /\ Children(s, n) \subseteq (n + 1) .. Len(s)
          /\ ~s[n].tuple => s[n].children = <<>>
          /\ \A j, k \in DOMAIN s[n].children :
                j < k => s[n].children[j] < s[n].children[k]
    /\ \A m \in 2 .. Len(s) : \E n \in 1 .. (m - 1) :
          /\ m \in Children(s, n)
          /\ \A q \in DOMAIN s \ {n} : m \notin Children(s, q)
          /\ \A q \in (n + 1) .. (m - 1) :
                Children(s, q) \cap ((m + 1) .. Len(s)) = {}

\* The results of the nGraph function: XLAFunction flattens the root's node, a
\* Tuple of nodes that may be Tuples.
Results(s) ==
    LET flatten[n \in DOMAIN s] ==
            IF s[n].tuple
              THEN FlattenSeq([k \in DOMAIN s[n].children |->
                                  flatten[s[n].children[k]]])
              ELSE <<n>>
    IN  flatten[1]

\* XLAFunction goes through a tree in the order in which the other traversals do:
\* an array's result is as far behind as there are arrays before it.
ArraysBefore(s, n) == {m \in 1 .. (n - 1) : ~s[m].tuple}
FlattenedInOrder(s) ==
    \A n \in DOMAIN s :
        ~s[n].tuple => Results(s)[Cardinality(ArraysBefore(s, n)) + 1] = n

ASSUME ExecutableAssumption ==
    /\ Arguments \subseteq Addrs
    /\ Calls \subseteq Seq(Arguments)
    /\ \A e \in Executables :
          /\ WellFormed(e.shape)
          /\ e.parameters \in Nat
    /\ \A S \in SUBSET Addrs : MayAllocate(S) \subseteq S

\* What a buffer or a tensor holds.
Argument(a) == [kind |-> "argument", leaf |-> 0, of |-> <<a>>]
ResultOf(n, inputs) == [kind |-> "result", leaf |-> n, of |-> inputs]
Table(pointers) == [kind |-> "table", leaf |-> 0, of |-> pointers]
Unwritten == [kind |-> "unwritten", leaf |-> 0, of |-> <<>>]

-----------------------------------------------------------------------------
VARIABLES
    executable, \* the result's shape and num_parameters of the computation
    memory,     \* what each device buffer holds
    allocated,  \* the addresses the allocator has handed out
    lost,       \* those of them that were in the result of a failed execution
    frame       \* the locals of each thread's ExecuteOnStream

vars == <<executable, memory, allocated, lost, frame>>

shape == executable.shape
parameters == executable.parameters

Steps == {"idle", "preparing", "pointing", "calling", "copying", "returned",
          "failed"}
\* arguments, ng_input_tv_list, the buffers of result_buffer (in pre-order),
\* ng_result_tv_list, the node the present loop is at, and the counter i.
NoFrame == [pc |-> "idle", arguments |-> <<>>, inputs |-> <<>>,
            buffers |-> <<>>, tensors |-> <<>>, node |-> 1, i |-> 1]

TypeOK ==
    /\ executable \in Executables
    /\ DOMAIN memory = Addrs
    /\ allocated \subseteq Addrs
    /\ lost \subseteq Addrs
    /\ DOMAIN frame = Threads
    /\ \A t \in Threads :
          /\ frame[t].pc \in Steps
          /\ frame[t].arguments \in Calls \cup {<<>>}
          /\ Len(frame[t].inputs) <= parameters
          /\ frame[t].buffers \in Seq(Addrs)
          /\ Len(frame[t].buffers) <= Len(shape)
          /\ Len(frame[t].tensors) <= Len(frame[t].buffers)
          /\ frame[t].node \in DOMAIN shape
          /\ frame[t].i \in 1 .. Len(frame[t].tensors) + 1

Init ==
    /\ executable \in Executables
    /\ memory = [a \in Addrs |-> IF a \in Arguments THEN Argument(a)
                                                   ELSE Unwritten]
    /\ allocated = Arguments
    /\ lost = {}
    /\ frame = [t \in Threads |-> NoFrame]

-----------------------------------------------------------------------------
At(t, step) == frame[t].pc = step

\* Mutant: the loops do not start again at the first node.
NextNodeUnreset(t) == frame[t].node + 1

\* The three loops over the nodes: after the last one, the next step begins with
\* the first one.
NextNode(t) == IF frame[t].node = Len(shape) THEN 1 ELSE frame[t].node + 1
NextPc(t, step) == IF frame[t].node = Len(shape) THEN step ELSE frame[t].pc

\* A call with another number of arguments than parameters is an error.
ExecuteOnStream(t, arguments) ==
    /\ At(t, "idle")
    /\ frame' = [frame EXCEPT
          ![t].arguments = arguments,
          ![t].pc = IF Len(arguments) = parameters THEN "preparing"
                                                   ELSE "failed"]
    /\ UNCHANGED <<executable, memory, allocated, lost>>

\* CreateInputTensorViews: a tensor for the next argument, with what is in its
\* buffer now.  (A parameter is an array: NGraphEmitter refuses tuples.)
CreateInputTensorView(t) ==
    LET next == Len(frame[t].inputs) + 1
    IN  /\ At(t, "preparing")
        /\ next <= parameters
        /\ frame' = [frame EXCEPT
              ![t].inputs = Append(@, memory[frame[t].arguments[next]])]
        /\ UNCHANGED <<executable, memory, allocated, lost>>

Allocating(t) ==
    /\ At(t, "preparing")
    /\ Len(frame[t].inputs) = parameters

\* Mutant: an empty tuple, which has no bytes, shares its parent's buffer.
AllocateBufferShared(t, a) ==
    LET n == frame[t].node
        buffers == frame[t].buffers
        shares == n > 1 /\ shape[n].tuple /\ shape[n].children = <<>>
    IN  /\ Allocating(t)
        /\ a \in MayAllocate(Addrs \ allocated)
        /\ allocated' = IF shares THEN allocated ELSE allocated \cup {a}
        /\ frame' = [frame EXCEPT
              ![t].pc = NextPc(t, "pointing"),
              ![t].node = NextNode(t),
              ![t].buffers = Append(@, IF shares THEN buffers[n - 1] ELSE a),
              ![t].tensors = IF shape[n].tuple THEN @ ELSE Append(@, Unwritten)]
        /\ UNCHANGED <<executable, memory, lost>>

\* Pass 1: a device buffer for the next node, and a tensor if it is an array.
AllocateBuffer(t, a) ==
    LET n == frame[t].node
    IN  /\ Allocating(t)
        /\ a \in MayAllocate(Addrs \ allocated)
        /\ allocated' = allocated \cup {a}
        /\ frame' = [frame EXCEPT
              ![t].pc = NextPc(t, "pointing"),
              ![t].node = NextNode(t),
              ![t].buffers = Append(@, a),
              ![t].tensors = IF shape[n].tuple THEN @ ELSE Append(@, Unwritten)]
        /\ UNCHANGED <<executable, memory, lost>>

\* The allocator returns an error, and ExecuteOnStream returns it.
AllocationFails(t) ==
    /\ Allocating(t)
    /\ frame' = [frame EXCEPT ![t].pc = "failed"]
    /\ UNCHANGED <<executable, memory, allocated, lost>>

\* Pass 2: the next node, if a tuple, gets the addresses of its children's
\* buffers.
SetPointers(t) ==
    LET n == frame[t].node
        buffers == frame[t].buffers
        children == shape[n].children
    IN  /\ At(t, "pointing")
        /\ memory' = IF shape[n].tuple
                       THEN [memory EXCEPT ![buffers[n]] =
                               Table([k \in DOMAIN children |->
                                         buffers[children[k]]])]
                       ELSE memory
        /\ frame' = [frame EXCEPT ![t].pc = NextPc(t, "calling"),
                                  ![t].node = NextNode(t)]
        /\ UNCHANGED <<executable, allocated, lost>>

\* Backend::call: the function's results go to the result tensors in order.
Call(t) ==
    /\ At(t, "calling")
    /\ frame' = [frame EXCEPT
          ![t].tensors = [k \in DOMAIN @ |->
                             ResultOf(Results(shape)[k], frame[t].inputs)],
          ![t].pc = "copying"]
    /\ UNCHANGED <<executable, memory, allocated, lost>>

\* Mutant: the counter counts the empty tuples too.
CopyBackCountsLeaves(t) ==
    LET n == frame[t].node
        leaf == shape[n].children = <<>>
    IN  /\ At(t, "copying")
        /\ memory' = IF leaf /\ ~shape[n].tuple
                       THEN [memory EXCEPT ![frame[t].buffers[n]] =
                               frame[t].tensors[frame[t].i]]
                       ELSE memory
        /\ frame' = [frame EXCEPT
              ![t].pc = NextPc(t, "returned"),
              ![t].node = NextNode(t),
              ![t].i = IF leaf /\ @ < Len(frame[t].tensors) THEN @ + 1 ELSE @]
        /\ UNCHANGED <<executable, allocated, lost>>

\* The next node, if it is a leaf and not an empty tuple, gets the data of the
\* next tensor; after the last node the result is returned.
CopyBack(t) ==
    LET n == frame[t].node
    IN  /\ At(t, "copying")
        /\ memory' = IF shape[n].tuple
                       THEN memory
                       ELSE [memory EXCEPT ![frame[t].buffers[n]] =
                               frame[t].tensors[frame[t].i]]
        /\ frame' = [frame EXCEPT
              ![t].pc = NextPc(t, "returned"),
              ![t].node = NextNode(t),
              ![t].i = IF shape[n].tuple THEN @ ELSE @ + 1]
        /\ UNCHANGED <<executable, allocated, lost>>

\* The caller has done with the result and frees its buffers: what they held is
\* gone.
Release(t) ==
    LET buffers == Range(frame[t].buffers)
    IN  /\ At(t, "returned")
        /\ allocated' = allocated \ buffers
        /\ memory' = [a \in Addrs |-> IF a \in buffers THEN Unwritten
                                                     ELSE memory[a]]
        /\ frame' = [frame EXCEPT ![t] = NoFrame]
        /\ UNCHANGED <<executable, lost>>

\* The caller gets the error.  The ShapedBuffer died without freeing anything.
Dismiss(t) ==
    /\ At(t, "failed")
    /\ lost' = lost \cup Range(frame[t].buffers)
    /\ frame' = [frame EXCEPT ![t] = NoFrame]
    /\ UNCHANGED <<executable, memory, allocated>>

Execute(t) ==
    \/ CreateInputTensorView(t)
    \/ \E a \in Addrs : AllocateBuffer(t, a)
    \/ AllocationFails(t)
    \/ SetPointers(t)
    \/ Call(t)
    \/ CopyBack(t)

Next == \E t \in Threads :
    \/ \E arguments \in Calls : ExecuteOnStream(t, arguments)
    \/ Execute(t)
    \/ Release(t)
    \/ Dismiss(t)

Spec == Init /\ [][Next]_vars

-----------------------------------------------------------------------------
(* Properties *)

\* The result that is returned, as long as its owner keeps it and whatever other
\* executions do: a tuple's buffer holds the addresses of its elements' buffers,
\* an array's buffer what the module computes for that very array from the
\* arguments of the call (ngraph_executable.cc:161-240).
ResultThere ==
    \A t \in Threads : At(t, "returned") => \A n \in DOMAIN shape :
        LET buffers == frame[t].buffers
            children == shape[n].children
            arguments == frame[t].arguments
        IN  memory[buffers[n]] =
              IF shape[n].tuple
                THEN Table([k \in DOMAIN children |-> buffers[children[k]]])
                ELSE ResultOf(n, [p \in DOMAIN arguments |->
                                     Argument(arguments[p])])

\* Every buffer the allocator handed out has one place: an argument, a node of
\* one result, or the remains of a failed execution, which nobody frees.
Owned(t) == Range(frame[t].buffers)
BuffersPartitioned ==
    /\ allocated = Arguments \cup lost \cup UNION {Owned(t) : t \in Threads}
    /\ Arguments \cap lost = {}
    /\ \A t \in Threads :
          /\ IsInjective(frame[t].buffers)
          /\ Owned(t) \cap (Arguments \cup lost) = {}
          /\ \A u \in Threads \ {t} : Owned(t) \cap Owned(u) = {}

=============================================================================
