--------------------------- MODULE TransferManager ---------------------------
(***************************************************************************)
(* Clients that keep literals on the device: they allocate the buffers of  *)
(* a shape, transfer a literal into them, execute a module on them, and    *)
(* transfer what they or the result hold into a new literal.  Executions   *)
(* are those of NGraphExecutable, on the same memory and allocator.        *)
(*                                                                         *)
(* The bytes of an array depend on its layout: a literal in one layout     *)
(* that goes to a buffer for another is laid out anew.  An execution knows *)
(* the default layout only.                                                *)
(***************************************************************************)
EXTENDS Naturals, Sequences, SequencesExt

CONSTANTS
    Threads,        \* clients: threads, each with one literal on the device
    Addrs,          \* addresses of device buffers
    Executables,    \* [shape, parameters] of the module that is executed
    MayAllocate(_), \* of a set of free addresses, those an allocation may get
    Shapes,         \* shapes of literals, as NGraphExecutable has them
    Layouts,
    DefaultLayout,  \* the layout of every result
    NoLayout,       \* of a shape without one
    None

VARIABLES executable, memory, allocated, lost, frame, \* of NGraphExecutable
          transfer \* each client's ShapedBuffer and the locals of its transfer

device == <<executable, memory, allocated, lost, frame>>
vars == <<device, transfer>>

Device == INSTANCE NGraphExecutable WITH Arguments <- {}, Calls <- {}

\* The literals of a client differ from those of any other client.
LiteralsOf(t) == [shape : Shapes, layout : Layouts, value : {t}]

ASSUME TransferAssumption ==
    /\ DefaultLayout \in Layouts
    /\ NoLayout \notin Layouts
    /\ \A s \in Shapes : Device!WellFormed(s)
    /\ \A t \in Threads : None \notin LiteralsOf(t)
    /\ \A e \in Executables : Device!WellFormed(e.shape) /\ e.parameters \in Nat
    /\ \A S \in SUBSET Addrs : MayAllocate(S) \subseteq S

Steps == {"idle", "allocating", "allocated", "pointing", "writing", "stored",
          "reading"}
\* The on_host_shape of the ShapedBuffer and its layout, its buffers, the literal
\* that is transferred to it, the node the traversal is at, whether a result is
\* read, and the arrays read by now.
NoTransfer == [pc |-> "idle", shape |-> <<>>, layout |-> NoLayout,
               buffers |-> <<>>, literal |-> None, node |-> 1,
               ofResult |-> FALSE, read |-> <<>>]

Init ==
    /\ Device!Init
    /\ transfer = [t \in Threads |-> NoTransfer]

-----------------------------------------------------------------------------
(* Bytes *)

\* The bytes of leaf n of a literal in a layout.
Bytes(n, value, layout) ==
    [kind |-> "data", leaf |-> n, of |-> <<value, layout>>]
Garbled(bytes) == [kind |-> "garbled", leaf |-> 0, of |-> <<bytes>>]

\* The elements of the array whose bytes, in the layout, these are.
DataElements(bytes, layout) ==
    IF bytes.kind = "data" /\ bytes.of[2] = layout
      THEN [kind |-> "data", leaf |-> bytes.leaf, of |-> <<bytes.of[1]>>]
      ELSE Garbled(bytes)

\* An execution takes its inputs and gives its results in the default layout.
Elements(bytes, layout) ==
    IF bytes.kind = "result" /\ layout = DefaultLayout
      THEN Device!ResultOf(bytes.leaf,
               [p \in DOMAIN bytes.of |->
                   DataElements(bytes.of[p], DefaultLayout)])
      ELSE DataElements(bytes, layout)

\* Mutant: the bytes go as they are.
SentUnrelaid(literal, n, layout) == Bytes(n, literal.value, literal.layout)

\* Relayout, if the literal has another layout than the buffer.
Sent(literal, n, layout) == Bytes(n, literal.value, layout)

-----------------------------------------------------------------------------
(* AllocateShapedBuffer *)

At(t, step) == transfer[t].pc = step
Sequential(t) == frame[t].pc \in {"idle", "returned"}

\* Mutant: a tuple without elements ends the traversal.
NextPcEarly(t, s, step) ==
    LET n == transfer[t].node
    IN  IF n = Len(s) \/ (s[n].tuple /\ s[n].children = <<>>)
          THEN step
          ELSE transfer[t].pc

\* ForEachSubshape visits the nodes in pre-order.
NextNode(t, s) == IF transfer[t].node = Len(s) THEN 1 ELSE transfer[t].node + 1
NextPc(t, s, step) ==
    IF transfer[t].node = Len(s) THEN step ELSE transfer[t].pc

\* A shape without a layout is refused.
AllocateShapedBuffer(t, s, layout) ==
    /\ At(t, "idle")
    /\ layout # NoLayout
    /\ transfer' = [transfer EXCEPT ![t].pc = "allocating",
                                    ![t].shape = s, ![t].layout = layout]
    /\ UNCHANGED device

\* A buffer for the next node.
Allocate(t, a) ==
    LET s == transfer[t].shape
    IN  /\ At(t, "allocating")
        /\ a \in MayAllocate(Addrs \ allocated)
        /\ allocated' = allocated \cup {a}
        /\ transfer' = [transfer EXCEPT ![t].pc = NextPc(t, s, "allocated"),
                                        ![t].node = NextNode(t, s),
                                        ![t].buffers = Append(@, a)]
        /\ UNCHANGED <<executable, memory, lost, frame>>

\* The ShapedBuffer is gone with the error, and its buffers stay allocated.
AllocationFails(t) ==
    /\ At(t, "allocating")
    /\ lost' = lost \cup Range(transfer[t].buffers)
    /\ transfer' = [transfer EXCEPT ![t] = NoTransfer]
    /\ UNCHANGED <<executable, memory, allocated, frame>>

\* Mutant: only the root's buffer is freed.
DeallocateRoot(t) ==
    LET buffers == {transfer[t].buffers[1]}
    IN  /\ transfer[t].pc \in {"allocated", "stored"}
        /\ Sequential(t)
        /\ allocated' = allocated \ buffers
        /\ memory' = [a \in Addrs |-> IF a \in buffers THEN Device!Unwritten
                                                     ELSE memory[a]]
        /\ transfer' = [transfer EXCEPT ![t] = NoTransfer]
        /\ UNCHANGED <<executable, lost, frame>>

\* The ScopedShapedBuffer frees its buffers.
Deallocate(t) ==
    LET buffers == Range(transfer[t].buffers)
    IN  /\ transfer[t].pc \in {"allocated", "stored"}
        /\ Sequential(t)
        /\ allocated' = allocated \ buffers
        /\ memory' = [a \in Addrs |-> IF a \in buffers THEN Device!Unwritten
                                                     ELSE memory[a]]
        /\ transfer' = [transfer EXCEPT ![t] = NoTransfer]
        /\ UNCHANGED <<executable, lost, frame>>

-----------------------------------------------------------------------------
(* TransferLiteralToDevice *)

\* Compatible shapes are equal but for the layouts; any other literal is refused.
TransferLiteralToDevice(t, literal) ==
    /\ transfer[t].pc \in {"allocated", "stored"}
    /\ Sequential(t)
    /\ literal.shape = transfer[t].shape
    /\ transfer' = [transfer EXCEPT ![t].pc = "pointing",
                                    ![t].literal = literal]
    /\ UNCHANGED device

\* The next node, if a tuple, gets the addresses of its elements' buffers.
WriteTupleIndexTable(t) ==
    LET s == transfer[t].shape
        n == transfer[t].node
        buffers == transfer[t].buffers
        children == s[n].children
    IN  /\ At(t, "pointing")
        /\ memory' = IF s[n].tuple
                       THEN [memory EXCEPT ![buffers[n]] =
                               Device!Table([k \in DOMAIN children |->
                                                buffers[children[k]]])]
                       ELSE memory
        /\ transfer' = [transfer EXCEPT ![t].pc = NextPc(t, s, "writing"),
                                        ![t].node = NextNode(t, s)]
        /\ UNCHANGED <<executable, allocated, lost, frame>>

\* The next node, if an array, gets its part of the literal.
TransferArrayToDevice(t) ==
    LET s == transfer[t].shape
        n == transfer[t].node
    IN  /\ At(t, "writing")
        /\ memory' = IF s[n].tuple
                       THEN memory
                       ELSE [memory EXCEPT ![transfer[t].buffers[n]] =
                               Sent(transfer[t].literal, n, transfer[t].layout)]
        /\ transfer' = [transfer EXCEPT
              ![t].pc = NextPc(t, s, "stored"),
              ![t].node = NextNode(t, s),
              ![t].literal = IF n = Len(s) THEN None ELSE @]
        /\ UNCHANGED <<executable, allocated, lost, frame>>

-----------------------------------------------------------------------------
(* TransferLiteralFromDevice *)

\* What is read: the client's ShapedBuffer or the one its execution returned.
SourceShape(t) == IF transfer[t].ofResult THEN Device!shape ELSE transfer[t].shape
SourceBuffers(t) ==
    IF transfer[t].ofResult THEN frame[t].buffers ELSE transfer[t].buffers
SourceLayout(t) ==
    IF transfer[t].ofResult THEN DefaultLayout ELSE transfer[t].layout

TransferLiteralFromDevice(t, ofResult) ==
    /\ At(t, "stored")
    /\ IF ofResult THEN frame[t].pc = "returned" ELSE Sequential(t)
    /\ transfer' = [transfer EXCEPT ![t].pc = "reading",
                                    ![t].ofResult = ofResult]
    /\ UNCHANGED device

Reading(t) == At(t, "reading") /\ Len(transfer[t].read) < Len(SourceShape(t))

\* The bytes of the next node, if an array, go to the literal, whose layout is
\* that of the ShapedBuffer's shape.
TransferArrayFromDevice(t) ==
    LET s == SourceShape(t)
        n == transfer[t].node
    IN  /\ Reading(t)
        /\ transfer' = [transfer EXCEPT
              ![t].node = NextNode(t, s),
              ![t].read = Append(@, IF s[n].tuple
                                      THEN Device!Unwritten
                                      ELSE memory[SourceBuffers(t)[n]])]
        /\ UNCHANGED device

\* The client has done with the literal.
LiteralDone(t) ==
    /\ At(t, "reading")
    /\ ~Reading(t)
    /\ transfer' = [transfer EXCEPT ![t].pc = "stored", ![t].ofResult = FALSE,
                                    ![t].read = <<>>]
    /\ UNCHANGED device

-----------------------------------------------------------------------------
(* Executions *)

\* The client executes the module on its array.  The module was compiled for the
\* default layout: NGraphCompiler sets no other.
ExecuteOnStream(t) ==
    /\ At(t, "stored")
    /\ ~transfer[t].shape[1].tuple
    /\ transfer[t].layout = DefaultLayout
    /\ Device!ExecuteOnStream(t, [p \in 1 .. Device!parameters |->
                                     transfer[t].buffers[1]])
    /\ UNCHANGED transfer

Execute(t) == Device!Execute(t) /\ UNCHANGED transfer
Release(t) == At(t, "stored") /\ Device!Release(t) /\ UNCHANGED transfer
Dismiss(t) == Device!Dismiss(t) /\ UNCHANGED transfer

Next == \E t \in Threads :
    \/ \E s \in Shapes, layout \in Layouts \cup {NoLayout} :
          AllocateShapedBuffer(t, s, layout)
    \/ \E a \in Addrs : Allocate(t, a)
    \/ AllocationFails(t)
    \/ Deallocate(t)
    \/ \E literal \in LiteralsOf(t) : TransferLiteralToDevice(t, literal)
    \/ WriteTupleIndexTable(t)
    \/ TransferArrayToDevice(t)
    \/ \E ofResult \in BOOLEAN : TransferLiteralFromDevice(t, ofResult)
    \/ TransferArrayFromDevice(t)
    \/ LiteralDone(t)
    \/ ExecuteOnStream(t)
    \/ Execute(t)
    \/ Release(t)
    \/ Dismiss(t)

Spec == Init /\ [][Next]_vars

-----------------------------------------------------------------------------
(* Properties *)

Leaves(s) == {n \in DOMAIN s : ~s[n].tuple}

TypeOK ==
    /\ DOMAIN memory = Addrs
    /\ allocated \subseteq Addrs
    /\ lost \subseteq Addrs
    /\ DOMAIN transfer = Threads
    /\ \A t \in Threads :
          /\ transfer[t].pc \in Steps
          /\ At(t, "idle") => transfer[t] = NoTransfer
          /\ ~At(t, "idle") => /\ transfer[t].shape \in Shapes
                               /\ transfer[t].layout \in Layouts
          /\ transfer[t].literal \in LiteralsOf(t) \cup {None}
          /\ transfer[t].literal # None <=>
                transfer[t].pc \in {"pointing", "writing"}
          /\ transfer[t].pc \notin {"idle", "allocating"} =>
                Len(transfer[t].buffers) = Len(transfer[t].shape)
          /\ At(t, "idle") => frame[t].pc \in {"idle", "returned"}

\* Every buffer the allocator handed out has one place: a node of one client's
\* ShapedBuffer or result, or the remains of a failed AllocateShapedBuffer or
\* execution, which nobody frees (transfer_manager.cc:200-210,
\* ngraph_executable.cc:169-191).
OwnBuffers(t) == transfer[t].buffers \o frame[t].buffers
BuffersAccountedFor ==
    /\ allocated = lost \cup UNION {Range(OwnBuffers(t)) : t \in Threads}
    /\ \A t \in Threads :
          /\ IsInjective(OwnBuffers(t))
          /\ Range(OwnBuffers(t)) \cap lost = {}
          /\ \A u \in Threads \ {t} :
                Range(OwnBuffers(t)) \cap Range(OwnBuffers(u)) = {}

\* The address of each node of a tree whose root is at an address, found by the
\* tables of pointers.
Reached(s, root) ==
    LET at[n \in DOMAIN s] ==
            IF n = 1
              THEN root
              ELSE LET q == CHOOSE q \in DOMAIN s : n \in Range(s[q].children)
                       k == CHOOSE k \in DOMAIN s[q].children :
                                s[q].children[k] = n
                   IN  memory[at[q]].of[k]
    IN  at

OnDevice(s, layout, root) ==
    [n \in Leaves(s) |-> Elements(memory[Reached(s, root)[n]], layout)]
Literal(l) ==
    [n \in Leaves(l.shape) |->
        [kind |-> "data", leaf |-> n, of |-> <<l.value>>]]
IsArray(literal) == DOMAIN literal = {1}
Computed(e, literal) ==
    [n \in Leaves(e.shape) |->
        Device!ResultOf(n, [p \in 1 .. e.parameters |-> literal[1]])]

ASSUME NoneAssumption == \A t \in Threads : \A l \in LiteralsOf(t) :
    /\ Literal(l) # None
    /\ IsArray(Literal(l)) =>
          \A e \in Executables : Computed(e, Literal(l)) # None

\* Clients see the LiteralService: following the tables from the root buffer one
\* finds the elements of the literal that was transferred last, in whatever layout
\* it came, or of the result computed from it, until the client frees the buffers
\* or transfers another one; that is what TransferLiteralFromDevice returns, and
\* no client has an effect on another (transfer_manager.cc:44-111,
\* transfer_manager.h:51-66).
HeldLiteral(t) ==
    IF transfer[t].pc \in {"stored", "reading"}
      THEN OnDevice(transfer[t].shape, transfer[t].layout,
                    transfer[t].buffers[1])
      ELSE None
ReturnedResult(t) ==
    IF frame[t].pc = "returned"
      THEN OnDevice(Device!shape, DefaultLayout, frame[t].buffers[1])
      ELSE None
ReadLiteral(t) ==
    IF At(t, "reading") /\ ~Reading(t)
      THEN [n \in Leaves(SourceShape(t)) |->
               Elements(transfer[t].read[n], SourceLayout(t))]
      ELSE None

Service == INSTANCE LiteralService WITH
    Clients <- Threads,
    Literals <- {Literal(l) : l \in UNION {LiteralsOf(t) : t \in Threads}},
    IsArgument <- IsArray,
    Compute <- Computed,
    held <- [t \in Threads |-> HeldLiteral(t)],
    result <- [t \in Threads |-> ReturnedResult(t)],
    answer <- [t \in Threads |-> ReadLiteral(t)]

ImplementsLiteralService == Service!Spec

=============================================================================
