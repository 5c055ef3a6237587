------------------------- MODULE TransferManagerProofs -------------------------
(***************************************************************************)
(* Transfers and executions together, for any number of clients, any       *)
(* shapes, layouts and modules, and any allocator: the ownership of device *)
(* buffers, and that TransferManager implements LiteralService.            *)
(***************************************************************************)
EXTENDS TransferManager, Induction, SequenceTheorems, TLAPS

\* The trees of results are those of NGraphExecutable.
DeviceProofs == INSTANCE NGraphExecutableProofs WITH Arguments <- {}, Calls <- {}

TransferFields == DOMAIN NoTransfer
FrameFields == DOMAIN Device!NoFrame

\* The two sequences of buffers of each client.
HeldOK ==
    /\ DOMAIN transfer = Threads
    /\ DOMAIN frame = Threads
    /\ \A t \in Threads :
          /\ DOMAIN transfer[t] = TransferFields
          /\ DOMAIN frame[t] = FrameFields
          /\ transfer[t].buffers \in Seq(Addrs)
          /\ frame[t].buffers \in Seq(Addrs)

-----------------------------------------------------------------------------
(* Sequences of buffers *)

LEMMA Fields ==
    /\ {"pc", "shape", "layout", "buffers", "literal", "node", "ofResult",
        "read"} = TransferFields
    /\ {"pc", "arguments", "inputs", "buffers", "tensors", "node", "i"}
          = FrameFields
BY DEF TransferFields, FrameFields, NoTransfer, Device!NoFrame

LEMMA NoBuffers == <<>> \in Seq(Addrs)
OBVIOUS

\* Two sequences of buffers, of which one grows by a buffer or goes.
LEMMA Joined ==
    ASSUME NEW r \in Seq(Addrs), NEW s \in Seq(Addrs)
    PROVE  /\ Range(r \o s) = Range(r) \cup Range(s)
           /\ IsInjective(r \o s) <=>
                 /\ IsInjective(r) /\ IsInjective(s)
                 /\ Range(r) \cap Range(s) = {}
<1> DEFINE j == r \o s
<1>1. /\ DOMAIN r = 1 .. Len(r) /\ DOMAIN s = 1 .. Len(s)
      /\ Len(r) \in Nat /\ Len(s) \in Nat
      /\ DOMAIN j = 1 .. Len(r) + Len(s)
      /\ \A k \in 1 .. Len(r) : j[k] = r[k]
      /\ \A k \in 1 .. Len(s) : j[Len(r) + k] = s[k]
      /\ \A k \in DOMAIN j : k \in 1 .. Len(r) \/ k - Len(r) \in 1 .. Len(s)
  OBVIOUS
<1>2. \A k \in DOMAIN j : k \notin 1 .. Len(r) => j[k] = s[k - Len(r)]
  BY <1>1
<1> HIDE DEF j
<1>3. Range(j) = Range(r) \cup Range(s)
  <2>1. \A k \in 1 .. Len(s) : Len(r) + k \in DOMAIN j
    BY <1>1
  <2>2. \A k \in 1 .. Len(r) : k \in DOMAIN j
    BY <1>1
  <2>3. Range(r) \cup Range(s) \subseteq Range(j)
    BY <1>1, <2>1, <2>2 DEF Range
  <2>4. ASSUME NEW k \in DOMAIN j
        PROVE  j[k] \in Range(r) \cup Range(s)
    <3>1. CASE k \in 1 .. Len(r)
      BY <1>1, <3>1 DEF Range
    <3>2. CASE k \notin 1 .. Len(r)
      BY <1>1, <1>2, <3>2 DEF Range
    <3>3. QED BY <3>1, <3>2
  <2>5. Range(j) \subseteq Range(r) \cup Range(s)
    BY <2>4 DEF Range
  <2>6. QED BY <2>3, <2>5
<1>4. ASSUME IsInjective(r), IsInjective(s), Range(r) \cap Range(s) = {}
      PROVE  IsInjective(j)
  <2> SUFFICES ASSUME NEW a \in DOMAIN j, NEW b \in DOMAIN j, j[a] = j[b]
               PROVE  a = b
    BY DEF IsInjective
  <2>1. CASE a \in 1 .. Len(r) /\ b \in 1 .. Len(r)
    BY <1>1, <1>4, <2>1 DEF IsInjective
  <2>2. CASE a \notin 1 .. Len(r) /\ b \notin 1 .. Len(r)
    <3>1. s[a - Len(r)] = s[b - Len(r)] /\ a - Len(r) \in DOMAIN s
            /\ b - Len(r) \in DOMAIN s
      BY <1>1, <1>2, <2>2
    <3>2. a - Len(r) = b - Len(r)
      BY <1>4, <3>1 DEF IsInjective
    <3>3. QED BY <1>1, <3>2
  <2>3. CASE a \in 1 .. Len(r) /\ b \notin 1 .. Len(r)
    BY <1>1, <1>2, <1>4, <2>3 DEF Range
  <2>4. CASE a \notin 1 .. Len(r) /\ b \in 1 .. Len(r)
    BY <1>1, <1>2, <1>4, <2>4 DEF Range
  <2>5. QED BY <2>1, <2>2, <2>3, <2>4
<1>5. ASSUME IsInjective(j)
      PROVE  IsInjective(r) /\ IsInjective(s) /\ Range(r) \cap Range(s) = {}
  <2>1. \A a, b \in DOMAIN j : j[a] = j[b] => a = b
    BY <1>5 DEF IsInjective
  <2>2. IsInjective(r)
    BY <1>1, <2>1 DEF IsInjective
  <2>3. IsInjective(s)
    <3> SUFFICES ASSUME NEW a \in DOMAIN s, NEW b \in DOMAIN s, s[a] = s[b]
                 PROVE  a = b
      BY DEF IsInjective
    <3>1. Len(r) + a \in DOMAIN j /\ Len(r) + b \in DOMAIN j
            /\ j[Len(r) + a] = j[Len(r) + b]
      BY <1>1
    <3>2. Len(r) + a = Len(r) + b
      BY <2>1, <3>1
    <3>3. QED BY <1>1, <3>2
  <2>4. ASSUME NEW x \in DOMAIN r, NEW y \in DOMAIN s
        PROVE  r[x] # s[y]
    <3>1. x \in DOMAIN j /\ Len(r) + y \in DOMAIN j /\ x # Len(r) + y
      BY <1>1
    <3>2. j[x] # j[Len(r) + y]
      BY <2>1, <3>1
    <3>3. QED BY <1>1, <3>2
  <2>5. QED BY <2>2, <2>3, <2>4 DEF Range
<1>6. QED BY <1>3, <1>4, <1>5 DEF j

LEMMA OneMore ==
    ASSUME NEW s \in Seq(Addrs), NEW a \in Addrs
    PROVE  /\ Append(s, a) \in Seq(Addrs)
           /\ Range(Append(s, a)) = Range(s) \cup {a}
           /\ a \notin Range(s) /\ IsInjective(s) => IsInjective(Append(s, a))
<1>1. /\ DOMAIN s = 1 .. Len(s) /\ Len(s) \in Nat
      /\ DOMAIN Append(s, a) = 1 .. Len(s) + 1
      /\ \A k \in 1 .. Len(s) : Append(s, a)[k] = s[k]
      /\ Append(s, a)[Len(s) + 1] = a
  OBVIOUS
<1>2. Range(Append(s, a)) = Range(s) \cup {a}
  BY <1>1 DEF Range
<1>3. ASSUME a \notin Range(s), IsInjective(s)
      PROVE  IsInjective(Append(s, a))
  BY <1>1, <1>3 DEF Range, IsInjective
<1>4. QED BY <1>2, <1>3

-----------------------------------------------------------------------------
(* Ownership, of the sets of buffers *)

Stored(t) == Range(transfer[t].buffers)
Returned(t) == Range(frame[t].buffers)

Places ==
    /\ \A a : a \in allocated <=>
          a \in lost \/ \E t \in Threads : a \in Stored(t) \cup Returned(t)
    /\ \A t \in Threads :
          /\ IsInjective(transfer[t].buffers)
          /\ IsInjective(frame[t].buffers)
          /\ Stored(t) \cap Returned(t) = {}
          /\ (Stored(t) \cup Returned(t)) \cap lost = {}
          /\ \A u \in Threads \ {t} :
                (Stored(t) \cup Returned(t)) \cap (Stored(u) \cup Returned(u)) = {}

LEMMA AccountsArePlaces == HeldOK => (BuffersAccountedFor <=> Places)
<1> SUFFICES ASSUME HeldOK PROVE BuffersAccountedFor <=> Places
  OBVIOUS
<1>1. ASSUME NEW t \in Threads
      PROVE  /\ Range(OwnBuffers(t)) = Stored(t) \cup Returned(t)
             /\ IsInjective(OwnBuffers(t)) <=>
                   /\ IsInjective(transfer[t].buffers)
                   /\ IsInjective(frame[t].buffers)
                   /\ Stored(t) \cap Returned(t) = {}
  BY Joined DEF HeldOK, OwnBuffers, Stored, Returned
<1>2. UNION {Range(OwnBuffers(t)) : t \in Threads}
        = UNION {Stored(t) \cup Returned(t) : t \in Threads}
  BY <1>1
<1>3. (allocated = lost \cup UNION {Range(OwnBuffers(t)) : t \in Threads}) <=>
         \A a : a \in allocated <=>
            a \in lost \/ \E t \in Threads : a \in Stored(t) \cup Returned(t)
  BY <1>2
<1>4. QED BY <1>1, <1>3 DEF BuffersAccountedFor, Places

\* A step of client t changes its own buffers only.
OthersKept(t) == \A u \in Threads \ {t} :
    /\ transfer'[u].buffers = transfer[u].buffers
    /\ frame'[u].buffers = frame[u].buffers

LEMMA BuffersSame ==
    ASSUME Places, NEW t \in Threads, OthersKept(t),
           transfer'[t].buffers = transfer[t].buffers,
           frame'[t].buffers = frame[t].buffers,
           UNCHANGED <<allocated, lost>>
    PROVE  Places'
<1>1. \A u \in Threads :
         /\ transfer'[u].buffers = transfer[u].buffers
         /\ frame'[u].buffers = frame[u].buffers
  BY DEF OthersKept
<1>2. \A u \in Threads : Stored(u)' = Stored(u) /\ Returned(u)' = Returned(u)
  BY <1>1 DEF Stored, Returned
<1>3. QED BY <1>1, <1>2 DEF Places

LEMMA BufferTaken ==
    ASSUME HeldOK, Places, NEW t \in Threads, NEW a \in Addrs, a \notin allocated,
           OthersKept(t),
           \/ /\ transfer'[t].buffers = Append(transfer[t].buffers, a)
              /\ frame'[t].buffers = frame[t].buffers
           \/ /\ transfer'[t].buffers = transfer[t].buffers
              /\ frame'[t].buffers = Append(frame[t].buffers, a),
           allocated' = allocated \cup {a}, lost' = lost
    PROVE  Places'
<1>1. a \notin lost /\ \A u \in Threads : a \notin Stored(u) /\ a \notin Returned(u)
  BY DEF Places
<1>2. \A u \in Threads \ {t} :
         /\ Stored(u)' = Stored(u) /\ Returned(u)' = Returned(u)
         /\ IsInjective(transfer'[u].buffers) /\ IsInjective(frame'[u].buffers)
  BY DEF OthersKept, Stored, Returned, Places
<1>3. /\ IsInjective(transfer'[t].buffers) /\ IsInjective(frame'[t].buffers)
      /\ \/ Stored(t)' = Stored(t) \cup {a} /\ Returned(t)' = Returned(t)
         \/ Stored(t)' = Stored(t) /\ Returned(t)' = Returned(t) \cup {a}
  <2>1. /\ transfer[t].buffers \in Seq(Addrs) /\ frame[t].buffers \in Seq(Addrs)
        /\ IsInjective(transfer[t].buffers) /\ IsInjective(frame[t].buffers)
    BY DEF HeldOK, Places
  <2>2. /\ Range(Append(transfer[t].buffers, a)) = Stored(t) \cup {a}
        /\ IsInjective(Append(transfer[t].buffers, a))
    BY <1>1, <2>1, OneMore DEF Stored
  <2>3. /\ Range(Append(frame[t].buffers, a)) = Returned(t) \cup {a}
        /\ IsInjective(Append(frame[t].buffers, a))
    BY <1>1, <2>1, OneMore DEF Returned
  <2>4. QED BY <2>1, <2>2, <2>3 DEF Stored, Returned
<1>4. /\ Stored(t)' \cap Returned(t)' = {}
      /\ Stored(t)' \cup Returned(t)' = Stored(t) \cup Returned(t) \cup {a}
  BY <1>1, <1>3 DEF Places
<1>5. \A u \in Threads : /\ Stored(u)' \cap Returned(u)' = {}
                         /\ (Stored(u)' \cup Returned(u)') \cap lost' = {}
  BY <1>1, <1>2, <1>4 DEF Places
<1>6. \A u \in Threads : \A v \in Threads \ {u} :
         (Stored(u)' \cup Returned(u)') \cap (Stored(v)' \cup Returned(v)') = {}
  BY <1>1, <1>2, <1>4 DEF Places
<1>7. \A b : b \in allocated' <=>
         b \in lost' \/ \E u \in Threads : b \in Stored(u)' \cup Returned(u)'
  BY <1>2, <1>4 DEF Places
<1>8. QED BY <1>2, <1>3, <1>5, <1>6, <1>7 DEF Places

LEMMA BuffersGone ==
    ASSUME HeldOK, Places, NEW t \in Threads, OthersKept(t), NEW S,
           \/ /\ S = Stored(t)
              /\ transfer'[t].buffers = <<>>
              /\ frame'[t].buffers = frame[t].buffers
           \/ /\ S = Returned(t)
              /\ transfer'[t].buffers = transfer[t].buffers
              /\ frame'[t].buffers = <<>>,
           \/ allocated' = allocated \ S /\ lost' = lost
           \/ allocated' = allocated /\ lost' = lost \cup S
    PROVE  Places'
<1>1. \A u \in Threads \ {t} :
         /\ Stored(u)' = Stored(u) /\ Returned(u)' = Returned(u)
         /\ IsInjective(transfer'[u].buffers) /\ IsInjective(frame'[u].buffers)
  BY DEF OthersKept, Stored, Returned, Places
<1>2. Range(<<>>) = {} /\ IsInjective(<<>>)
  BY DEF Range, IsInjective
<1>3. /\ IsInjective(transfer'[t].buffers) /\ IsInjective(frame'[t].buffers)
      /\ \/ S = Stored(t) /\ Stored(t)' = {} /\ Returned(t)' = Returned(t)
         \/ S = Returned(t) /\ Stored(t)' = Stored(t) /\ Returned(t)' = {}
  BY <1>2 DEF Places, Stored, Returned
<1>4. /\ Stored(t)' \cap Returned(t)' = {}
      /\ Stored(t)' \cup Returned(t)' = (Stored(t) \cup Returned(t)) \ S
      /\ S \subseteq Stored(t) \cup Returned(t)
  BY <1>3 DEF Places
<1>5. /\ S \cap lost = {}
      /\ \A u \in Threads \ {t} : S \cap (Stored(u) \cup Returned(u)) = {}
  BY <1>4 DEF Places
<1>6. \A u \in Threads : /\ Stored(u)' \cap Returned(u)' = {}
                         /\ (Stored(u)' \cup Returned(u)') \cap lost' = {}
  BY <1>1, <1>4, <1>5 DEF Places
<1>7. \A u \in Threads : \A v \in Threads \ {u} :
         (Stored(u)' \cup Returned(u)') \cap (Stored(v)' \cup Returned(v)') = {}
  BY <1>1, <1>4 DEF Places
<1>8. \A b : b \in allocated' <=>
         b \in lost' \/ \E u \in Threads : b \in Stored(u)' \cup Returned(u)'
  BY <1>1, <1>4, <1>5 DEF Places
<1>9. QED BY <1>1, <1>3, <1>6, <1>7, <1>8 DEF Places

-----------------------------------------------------------------------------
(* The steps *)

\* A transfer alone changes, or a frame alone.
LEMMA OneUpdate ==
    ASSUME HeldOK, NEW t \in Threads
    PROVE  /\ \A r : /\ transfer' = [transfer EXCEPT ![t] = r]
                    /\ DOMAIN r = TransferFields /\ r.buffers \in Seq(Addrs)
                    /\ frame' = frame
                    => /\ HeldOK' /\ OthersKept(t)
                       /\ transfer'[t].buffers = r.buffers
                       /\ frame'[t].buffers = frame[t].buffers
           /\ \A f : /\ frame' = [frame EXCEPT ![t] = f]
                    /\ DOMAIN f = FrameFields /\ f.buffers \in Seq(Addrs)
                    /\ transfer' = transfer
                    => /\ HeldOK' /\ OthersKept(t)
                       /\ frame'[t].buffers = f.buffers
                       /\ transfer'[t].buffers = transfer[t].buffers
<1>1. TransferFields' = TransferFields /\ FrameFields' = FrameFields
  BY DEF TransferFields, FrameFields, NoTransfer, Device!NoFrame
<1>2. QED BY <1>1 DEF HeldOK, OthersKept

\* The transfers that leave the buffers to their owners.
LEMMA TransferKeeps ==
    ASSUME HeldOK, Places, NEW t \in Threads,
           \/ \E s \in Shapes, layout \in Layouts \cup {NoLayout} :
                 AllocateShapedBuffer(t, s, layout)
           \/ \E literal \in LiteralsOf(t) : TransferLiteralToDevice(t, literal)
           \/ WriteTupleIndexTable(t)
           \/ TransferArrayToDevice(t)
           \/ \E ofResult \in BOOLEAN : TransferLiteralFromDevice(t, ofResult)
           \/ TransferArrayFromDevice(t)
           \/ LiteralDone(t)
    PROVE  HeldOK' /\ Places'
<1>1. /\ DOMAIN transfer = Threads /\ DOMAIN transfer[t] = TransferFields
      /\ transfer[t].buffers \in Seq(Addrs)
      /\ "buffers" \in TransferFields
  BY Fields DEF HeldOK
<1>2. PICK r : /\ transfer' = [transfer EXCEPT ![t] = r]
               /\ DOMAIN r = TransferFields
               /\ r.buffers = transfer[t].buffers
  <2>1. CASE \E s \in Shapes, layout \in Layouts \cup {NoLayout} :
               AllocateShapedBuffer(t, s, layout)
    <3>1. PICK s \in Shapes, layout \in Layouts \cup {NoLayout} :
             AllocateShapedBuffer(t, s, layout)
      BY <2>1
    <3>2. WITNESS [transfer[t] EXCEPT !.pc = "allocating",
                                      !.shape = s, !.layout = layout]
    <3>3. QED BY <1>1, <3>1 DEF AllocateShapedBuffer
  <2>2. CASE \E literal \in LiteralsOf(t) : TransferLiteralToDevice(t, literal)
    <3>1. PICK literal \in LiteralsOf(t) : TransferLiteralToDevice(t, literal)
      BY <2>2
    <3>2. WITNESS [transfer[t] EXCEPT !.pc = "pointing", !.literal = literal]
    <3>3. QED BY <1>1, <3>1 DEF TransferLiteralToDevice
  <2>3. CASE WriteTupleIndexTable(t)
    <3>1. WITNESS [transfer[t] EXCEPT
                     !.pc = NextPc(t, transfer[t].shape, "writing"),
                     !.node = NextNode(t, transfer[t].shape)]
    <3>2. QED BY <1>1, <2>3 DEF WriteTupleIndexTable
  <2>4. CASE TransferArrayToDevice(t)
    <3>1. WITNESS [transfer[t] EXCEPT
                     !.pc = NextPc(t, transfer[t].shape, "stored"),
                     !.node = NextNode(t, transfer[t].shape),
                     !.literal = IF transfer[t].node = Len(transfer[t].shape)
                                   THEN None ELSE @]
    <3>2. QED BY <1>1, <2>4 DEF TransferArrayToDevice
  <2>5. CASE \E ofResult \in BOOLEAN : TransferLiteralFromDevice(t, ofResult)
    <3>1. PICK ofResult \in BOOLEAN : TransferLiteralFromDevice(t, ofResult)
      BY <2>5
    <3>2. WITNESS [transfer[t] EXCEPT !.pc = "reading", !.ofResult = ofResult]
    <3>3. QED BY <1>1, <3>1 DEF TransferLiteralFromDevice
  <2>6. CASE TransferArrayFromDevice(t)
    <3>1. WITNESS [transfer[t] EXCEPT
                     !.node = NextNode(t, SourceShape(t)),
                     !.read = Append(@,
                         IF SourceShape(t)[transfer[t].node].tuple
                           THEN Device!Unwritten
                           ELSE memory[SourceBuffers(t)[transfer[t].node]])]
    <3>2. QED BY <1>1, <2>6 DEF TransferArrayFromDevice
  <2>7. CASE LiteralDone(t)
    <3>1. WITNESS [transfer[t] EXCEPT !.pc = "stored", !.ofResult = FALSE,
                                      !.read = <<>>]
    <3>2. QED BY <1>1, <2>7 DEF LiteralDone
  <2>8. QED BY <2>1, <2>2, <2>3, <2>4, <2>5, <2>6, <2>7
<1>3. UNCHANGED <<allocated, lost, frame>>
  BY DEF AllocateShapedBuffer, TransferLiteralToDevice, WriteTupleIndexTable,
         TransferArrayToDevice, TransferLiteralFromDevice,
         TransferArrayFromDevice, LiteralDone, device
<1>4. HeldOK' /\ OthersKept(t)
        /\ transfer'[t].buffers = transfer[t].buffers
        /\ frame'[t].buffers = frame[t].buffers
  BY <1>1, <1>2, <1>3, OneUpdate
<1>5. QED BY <1>3, <1>4, BuffersSame

LEMMA AllocateTakes ==
    ASSUME HeldOK, Places, NEW t \in Threads, NEW a \in Addrs, Allocate(t, a)
    PROVE  HeldOK' /\ Places'
<1> DEFINE r == [transfer[t] EXCEPT
                    !.pc = NextPc(t, transfer[t].shape, "allocated"),
                    !.node = NextNode(t, transfer[t].shape),
                    !.buffers = Append(@, a)]
<1>1. /\ DOMAIN transfer = Threads /\ DOMAIN transfer[t] = TransferFields
      /\ transfer[t].buffers \in Seq(Addrs)
      /\ "buffers" \in TransferFields
  BY Fields DEF HeldOK
<1>2. /\ transfer' = [transfer EXCEPT ![t] = r]
      /\ UNCHANGED <<frame, lost>> /\ allocated' = allocated \cup {a}
  BY <1>1 DEF Allocate
<1>3. a \notin allocated
  BY TransferAssumption DEF Allocate
<1>4. DOMAIN r = TransferFields /\ r.buffers = Append(transfer[t].buffers, a)
  BY <1>1
<1>5. Append(transfer[t].buffers, a) \in Seq(Addrs)
  BY <1>1
<1> HIDE DEF r
<1>6. HeldOK' /\ OthersKept(t)
        /\ transfer'[t].buffers = r.buffers
        /\ frame'[t].buffers = frame[t].buffers
  BY <1>2, <1>4, <1>5, OneUpdate
<1>7. QED BY <1>2, <1>3, <1>4, <1>6, BufferTaken

LEMMA TransferEnds ==
    ASSUME HeldOK, Places, NEW t \in Threads, AllocationFails(t) \/ Deallocate(t)
    PROVE  HeldOK' /\ Places'
<1>1. transfer' = [transfer EXCEPT ![t] = NoTransfer] /\ frame' = frame
  BY DEF AllocationFails, Deallocate
<1>2. DOMAIN NoTransfer = TransferFields /\ NoTransfer.buffers = <<>>
  BY DEF TransferFields, NoTransfer
<1>3. HeldOK' /\ OthersKept(t)
        /\ transfer'[t].buffers = <<>> /\ frame'[t].buffers = frame[t].buffers
  BY <1>1, <1>2, NoBuffers, OneUpdate
<1>4. \/ allocated' = allocated \ Stored(t) /\ lost' = lost
      \/ allocated' = allocated /\ lost' = lost \cup Stored(t)
  BY DEF AllocationFails, Deallocate, Stored
<1>5. QED BY <1>3, <1>4, BuffersGone

\* The steps of an execution that leave the buffers to their owners.
LEMMA ExecutionKeeps ==
    ASSUME HeldOK, Places, NEW t \in Threads, UNCHANGED transfer,
           \/ \E arguments : Device!ExecuteOnStream(t, arguments)
           \/ Device!CreateInputTensorView(t)
           \/ Device!AllocationFails(t)
           \/ Device!SetPointers(t)
           \/ Device!Call(t)
           \/ Device!CopyBack(t)
    PROVE  HeldOK' /\ Places'
<1>1. /\ DOMAIN frame = Threads /\ DOMAIN frame[t] = FrameFields
      /\ frame[t].buffers \in Seq(Addrs)
      /\ "buffers" \in FrameFields
  BY Fields DEF HeldOK
<1>2. PICK f : /\ frame' = [frame EXCEPT ![t] = f]
               /\ DOMAIN f = FrameFields
               /\ f.buffers = frame[t].buffers
  <2>1. CASE \E arguments : Device!ExecuteOnStream(t, arguments)
    <3>1. PICK arguments : Device!ExecuteOnStream(t, arguments)
      BY <2>1
    <3>2. WITNESS [frame[t] EXCEPT
                     !.arguments = arguments,
                     !.pc = IF Len(arguments) = Device!parameters
                              THEN "preparing" ELSE "failed"]
    <3>3. QED BY <1>1, <3>1 DEF Device!ExecuteOnStream
  <2>2. CASE Device!CreateInputTensorView(t)
    <3>1. WITNESS [frame[t] EXCEPT
                     !.inputs = Append(@, memory[frame[t].arguments[
                                              Len(frame[t].inputs) + 1]])]
    <3>2. QED BY <1>1, <2>2 DEF Device!CreateInputTensorView
  <2>3. CASE Device!AllocationFails(t)
    <3>1. WITNESS [frame[t] EXCEPT !.pc = "failed"]
    <3>2. QED BY <1>1, <2>3 DEF Device!AllocationFails
  <2>4. CASE Device!SetPointers(t)
    <3>1. WITNESS [frame[t] EXCEPT !.pc = Device!NextPc(t, "calling"),
                                   !.node = Device!NextNode(t)]
    <3>2. QED BY <1>1, <2>4 DEF Device!SetPointers
  <2>5. CASE Device!Call(t)
    <3>1. WITNESS [frame[t] EXCEPT
                     !.tensors = [k \in DOMAIN @ |->
                         Device!ResultOf(Device!Results(Device!shape)[k],
                                         frame[t].inputs)],
                     !.pc = "copying"]
    <3>2. QED BY <1>1, <2>5 DEF Device!Call
  <2>6. CASE Device!CopyBack(t)
    <3>1. WITNESS [frame[t] EXCEPT
                     !.pc = Device!NextPc(t, "returned"),
                     !.node = Device!NextNode(t),
                     !.i = IF Device!shape[frame[t].node].tuple THEN @ ELSE @ + 1]
    <3>2. QED BY <1>1, <2>6 DEF Device!CopyBack
  <2>7. QED BY <2>1, <2>2, <2>3, <2>4, <2>5, <2>6
<1>3. UNCHANGED <<allocated, lost>>
  BY DEF Device!ExecuteOnStream, Device!CreateInputTensorView,
         Device!AllocationFails, Device!SetPointers, Device!Call, Device!CopyBack
<1>4. HeldOK' /\ OthersKept(t)
        /\ frame'[t].buffers = frame[t].buffers
        /\ transfer'[t].buffers = transfer[t].buffers
  BY <1>1, <1>2, OneUpdate
<1>5. QED BY <1>3, <1>4, BuffersSame

LEMMA ExecutionTakes ==
    ASSUME HeldOK, Places, NEW t \in Threads, NEW a \in Addrs,
           UNCHANGED transfer, Device!AllocateBuffer(t, a)
    PROVE  HeldOK' /\ Places'
<1> DEFINE n == frame[t].node
           f == [frame[t] EXCEPT
                    !.pc = Device!NextPc(t, "pointing"),
                    !.node = Device!NextNode(t),
                    !.buffers = Append(@, a),
                    !.tensors = IF Device!shape[n].tuple
                                  THEN @ ELSE Append(@, Device!Unwritten)]
<1>1. /\ DOMAIN frame = Threads /\ DOMAIN frame[t] = FrameFields
      /\ frame[t].buffers \in Seq(Addrs)
      /\ "buffers" \in FrameFields
  BY Fields DEF HeldOK
<1>2. /\ frame' = [frame EXCEPT ![t] = f]
      /\ lost' = lost /\ allocated' = allocated \cup {a}
  BY <1>1 DEF Device!AllocateBuffer
<1>3. a \notin allocated
  BY TransferAssumption DEF Device!AllocateBuffer
<1>4. DOMAIN f = FrameFields /\ f.buffers = Append(frame[t].buffers, a)
  BY <1>1
<1>5. Append(frame[t].buffers, a) \in Seq(Addrs)
  BY <1>1
<1> HIDE DEF f
<1>6. HeldOK' /\ OthersKept(t)
        /\ frame'[t].buffers = f.buffers
        /\ transfer'[t].buffers = transfer[t].buffers
  BY <1>2, <1>4, <1>5, OneUpdate
<1>7. QED BY <1>2, <1>3, <1>4, <1>6, BufferTaken

LEMMA ExecutionEnds ==
    ASSUME HeldOK, Places, NEW t \in Threads, UNCHANGED transfer,
           Device!Release(t) \/ Device!Dismiss(t)
    PROVE  HeldOK' /\ Places'
<1>1. frame' = [frame EXCEPT ![t] = Device!NoFrame]
  BY DEF Device!Release, Device!Dismiss
<1>2. DOMAIN Device!NoFrame = FrameFields /\ Device!NoFrame.buffers = <<>>
  BY DEF FrameFields, Device!NoFrame
<1>3. HeldOK' /\ OthersKept(t)
        /\ frame'[t].buffers = <<>> /\ transfer'[t].buffers = transfer[t].buffers
  BY <1>1, <1>2, NoBuffers, OneUpdate
<1>4. \/ allocated' = allocated \ Returned(t) /\ lost' = lost
      \/ allocated' = allocated /\ lost' = lost \cup Returned(t)
  <2>1. Device!Range(frame[t].buffers) = Returned(t)
    BY DEF Device!Range, Returned, Range
  <2>2. QED BY <2>1 DEF Device!Release, Device!Dismiss
<1>5. QED BY <1>3, <1>4, BuffersGone

LEMMA OwnershipStep == HeldOK /\ Places /\ [Next]_vars => HeldOK' /\ Places'
<1> SUFFICES ASSUME HeldOK, Places, [Next]_vars PROVE HeldOK' /\ Places'
  OBVIOUS
<1>1. ASSUME NEW t \in Threads, ExecuteOnStream(t)
      PROVE  HeldOK' /\ Places'
  BY <1>1, ExecutionKeeps DEF ExecuteOnStream
<1>2. ASSUME NEW t \in Threads, Execute(t)
      PROVE  HeldOK' /\ Places'
  BY <1>2, ExecutionKeeps, ExecutionTakes DEF Execute, Device!Execute
<1>3. ASSUME NEW t \in Threads, Release(t) \/ Dismiss(t)
      PROVE  HeldOK' /\ Places'
  BY <1>3, ExecutionEnds DEF Release, Dismiss
<1>4. CASE UNCHANGED vars
  <2>1. UNCHANGED <<allocated, lost, frame, transfer>>
    BY <1>4 DEF vars, device
  <2>2. HeldOK'
    BY <2>1 DEF HeldOK, TransferFields, FrameFields, NoTransfer, Device!NoFrame
  <2>3. Places'
    BY <2>1 DEF Places, Stored, Returned
  <2>4. QED BY <2>2, <2>3
<1>5. QED
  BY <1>1, <1>2, <1>3, <1>4, TransferKeeps, AllocateTakes, TransferEnds DEF Next

-----------------------------------------------------------------------------
(* Types *)

\* A client's transfer: with n - 1 nodes allocated there are n - 1 buffers.
Typed(t, r) ==
    /\ r.pc \in Steps
    /\ r.pc = "idle" => r = NoTransfer
    /\ r.pc # "idle" => r.shape \in Shapes /\ r.layout \in Layouts
    /\ r.literal \in LiteralsOf(t) \cup {None}
    /\ r.literal # None <=> r.pc \in {"pointing", "writing"}
    /\ r.pc \notin {"idle", "allocating"} => Len(r.buffers) = Len(r.shape)
    /\ r.pc = "allocating" => /\ r.node \in 1 .. Len(r.shape)
                              /\ Len(r.buffers) = r.node - 1

\* While a client executes it does nothing else.
TypeInv ==
    /\ DOMAIN memory = Addrs
    /\ allocated \subseteq Addrs
    /\ lost \subseteq Addrs
    /\ \A t \in Threads :
          /\ Typed(t, transfer[t])
          /\ At(t, "stored") \/ Sequential(t)

LEMMA RootExists == \A s \in Shapes : Len(s) \in Nat \ {0}
BY TransferAssumption DEF Device!WellFormed

\* A transfer's step changes one client's record.
LEMMA TransferTypes ==
    ASSUME HeldOK, TypeInv, NEW t \in Threads,
           NEW r, transfer' = [transfer EXCEPT ![t] = r], Typed(t, r),
           frame' = frame, r.pc = "stored" \/ Sequential(t),
           DOMAIN memory' = Addrs, allocated' \subseteq Addrs,
           lost' \subseteq Addrs
    PROVE  TypeInv'
<1>1. \A u \in Threads : transfer'[u] = IF u = t THEN r ELSE transfer[u]
  BY DEF HeldOK
<1>2. ASSUME NEW u \in Threads
      PROVE  Typed(u, transfer'[u])
  BY <1>1 DEF TypeInv
<1>3. ASSUME NEW u \in Threads
      PROVE  At(u, "stored")' \/ Sequential(u)'
  BY <1>1 DEF TypeInv, At, Sequential
<1>4. ASSUME NEW u \in Threads
      PROVE  Typed(u, transfer[u])'
  BY <1>2 DEF Typed, NoTransfer, LiteralsOf, Steps
<1>5. QED BY <1>3, <1>4 DEF TypeInv

\* An execution's step changes the frame of a client that has a literal stored.
LEMMA ExecutionTypes ==
    ASSUME HeldOK, TypeInv, NEW t \in Threads,
           transfer' = transfer, \A u \in Threads \ {t} : frame'[u] = frame[u],
           At(t, "stored") \/ frame'[t].pc = "idle",
           DOMAIN memory' = Addrs, allocated' \subseteq Addrs,
           lost' \subseteq Addrs
    PROVE  TypeInv'
<1>1. ASSUME NEW u \in Threads
      PROVE  At(u, "stored")' \/ Sequential(u)'
  BY DEF TypeInv, At, Sequential
<1>2. ASSUME NEW u \in Threads
      PROVE  Typed(u, transfer[u])'
  BY DEF TypeInv, Typed, NoTransfer, LiteralsOf, Steps
<1>3. QED BY <1>1, <1>2 DEF TypeInv

LEMMA TransferTypesStep ==
    ASSUME HeldOK, TypeInv, NEW t \in Threads,
           \/ \E s \in Shapes, layout \in Layouts \cup {NoLayout} :
                 AllocateShapedBuffer(t, s, layout)
           \/ \E a \in Addrs : Allocate(t, a)
           \/ AllocationFails(t)
           \/ Deallocate(t)
           \/ \E literal \in LiteralsOf(t) : TransferLiteralToDevice(t, literal)
           \/ WriteTupleIndexTable(t)
           \/ TransferArrayToDevice(t)
           \/ \E ofResult \in BOOLEAN : TransferLiteralFromDevice(t, ofResult)
           \/ TransferArrayFromDevice(t)
           \/ LiteralDone(t)
    PROVE  TypeInv'
<1> DEFINE r == transfer[t]
<1>1. /\ DOMAIN transfer = Threads
      /\ DOMAIN r = {"pc", "shape", "layout", "buffers", "literal", "node",
                     "ofResult", "read"}
      /\ r.buffers \in Seq(Addrs)
      /\ DOMAIN memory = Addrs /\ allocated \subseteq Addrs
      /\ lost \subseteq Addrs
  BY Fields DEF HeldOK, TypeInv
<1>2. Typed(t, r) /\ (r.pc = "stored" \/ Sequential(t))
  BY DEF TypeInv, At
<1>3. r.shape \in Shapes => Len(r.shape) \in Nat \ {0}
  BY RootExists
<1>4. NoTransfer.pc = "idle" /\ NoTransfer.literal = None
        /\ NoTransfer.buffers = <<>> /\ NoTransfer.node = 1
  BY DEF NoTransfer
<1>5. Typed(t, NoTransfer)
  BY <1>4 DEF Typed, Steps
<1>6. ASSUME NEW s \in Shapes, NEW layout \in Layouts \cup {NoLayout},
             AllocateShapedBuffer(t, s, layout)
      PROVE  TypeInv'
  <2> DEFINE new == [r EXCEPT !.pc = "allocating", !.shape = s,
                              !.layout = layout]
  <2>1. transfer' = [transfer EXCEPT ![t] = new] /\ UNCHANGED device
          /\ r.pc = "idle" /\ layout \in Layouts
    BY <1>1, <1>6 DEF AllocateShapedBuffer, At
  <2>2. r = NoTransfer /\ Sequential(t)
    BY <1>2, <2>1 DEF Typed
  <2>3. /\ new.pc = "allocating" /\ new.shape = s /\ new.layout = layout
        /\ new.literal = None /\ new.buffers = <<>> /\ new.node = 1
    BY <1>1, <1>4, <2>2
  <2>4. Typed(t, new)
    BY <2>1, <2>3, RootExists DEF Typed, Steps
  <2> HIDE DEF new
  <2>5. QED BY <1>1, <2>1, <2>2, <2>4, TransferTypes DEF device
<1>7. ASSUME NEW a \in Addrs, Allocate(t, a)
      PROVE  TypeInv'
  <2> DEFINE new == [r EXCEPT !.pc = NextPc(t, r.shape, "allocated"),
                              !.node = NextNode(t, r.shape),
                              !.buffers = Append(@, a)]
  <2>1. /\ transfer' = [transfer EXCEPT ![t] = new]
        /\ allocated' = allocated \cup {a} /\ UNCHANGED <<memory, lost, frame>>
        /\ r.pc = "allocating"
    BY <1>1, <1>7 DEF Allocate, At
  <2>2. /\ r.shape \in Shapes /\ r.layout \in Layouts /\ r.literal = None
        /\ r.node \in 1 .. Len(r.shape) /\ Len(r.buffers) = r.node - 1
        /\ Sequential(t)
    BY <1>2, <2>1 DEF Typed
  <2>3. /\ new.pc = IF r.node = Len(r.shape) THEN "allocated" ELSE "allocating"
        /\ new.node = IF r.node = Len(r.shape) THEN 1 ELSE r.node + 1
        /\ new.buffers = Append(r.buffers, a)
        /\ new.shape = r.shape /\ new.layout = r.layout /\ new.literal = None
    BY <1>1, <2>1, <2>2 DEF NextPc, NextNode
  <2>4. Len(new.buffers) = r.node
    BY <1>1, <1>3, <2>2, <2>3
  <2> HIDE DEF new
  <2>5. Typed(t, new)
    BY <1>3, <2>2, <2>3, <2>4 DEF Typed, Steps
  <2>6. QED BY <1>1, <2>1, <2>2, <2>5, TransferTypes
<1>8. CASE AllocationFails(t)
  <2>1. /\ transfer' = [transfer EXCEPT ![t] = NoTransfer]
        /\ lost' = lost \cup Range(r.buffers)
        /\ UNCHANGED <<memory, allocated, frame>> /\ r.pc = "allocating"
    BY <1>8 DEF AllocationFails, At
  <2>2. lost' \subseteq Addrs
    BY <1>1, <2>1 DEF Range
  <2>3. QED BY <1>1, <1>2, <1>5, <2>1, <2>2, TransferTypes
<1>9. CASE Deallocate(t)
  <2>1. /\ transfer' = [transfer EXCEPT ![t] = NoTransfer]
        /\ allocated' = allocated \ Range(r.buffers) /\ DOMAIN memory' = Addrs
        /\ UNCHANGED <<lost, frame>> /\ Sequential(t)
    BY <1>9 DEF Deallocate
  <2>2. QED BY <1>1, <1>5, <2>1, TransferTypes
<1>10. ASSUME NEW literal \in LiteralsOf(t), TransferLiteralToDevice(t, literal)
       PROVE  TypeInv'
  <2> DEFINE new == [r EXCEPT !.pc = "pointing", !.literal = literal]
  <2>1. /\ transfer' = [transfer EXCEPT ![t] = new] /\ UNCHANGED device
        /\ r.pc \in {"allocated", "stored"} /\ Sequential(t)
    BY <1>1, <1>10 DEF TransferLiteralToDevice
  <2>2. /\ new.pc = "pointing" /\ new.literal = literal
        /\ new.shape = r.shape /\ new.layout = r.layout
        /\ new.buffers = r.buffers
    BY <1>1
  <2>3. literal # None
    BY TransferAssumption
  <2> HIDE DEF new
  <2>4. Typed(t, new)
    BY <1>2, <2>1, <2>2, <2>3 DEF Typed, Steps
  <2>5. QED BY <1>1, <2>1, <2>4, TransferTypes DEF device
<1>11. CASE WriteTupleIndexTable(t)
  <2> DEFINE new == [r EXCEPT !.pc = NextPc(t, r.shape, "writing"),
                              !.node = NextNode(t, r.shape)]
  <2>1. /\ transfer' = [transfer EXCEPT ![t] = new]
        /\ UNCHANGED <<allocated, lost, frame>> /\ r.pc = "pointing"
    BY <1>1, <1>11 DEF WriteTupleIndexTable, At
  <2>2. DOMAIN memory' = Addrs
    BY <1>1, <1>11 DEF WriteTupleIndexTable
  <2>3. /\ new.pc \in {"pointing", "writing"} /\ new.literal = r.literal
        /\ new.shape = r.shape /\ new.layout = r.layout
        /\ new.buffers = r.buffers
    BY <1>1, <2>1 DEF NextPc
  <2> HIDE DEF new
  <2>4. Typed(t, new) /\ Sequential(t)
    BY <1>2, <2>1, <2>3 DEF Typed, Steps
  <2>5. QED BY <1>1, <2>1, <2>2, <2>4, TransferTypes
<1>12. CASE TransferArrayToDevice(t)
  <2> DEFINE last == r.node = Len(r.shape)
             new == [r EXCEPT !.pc = NextPc(t, r.shape, "stored"),
                              !.node = NextNode(t, r.shape),
                              !.literal = IF last THEN None ELSE @]
  <2>1. /\ transfer' = [transfer EXCEPT ![t] = new]
        /\ UNCHANGED <<allocated, lost, frame>> /\ r.pc = "writing"
    BY <1>1, <1>12 DEF TransferArrayToDevice, At
  <2>2. DOMAIN memory' = Addrs
    BY <1>1, <1>12 DEF TransferArrayToDevice
  <2>3. /\ new.pc = IF last THEN "stored" ELSE "writing"
        /\ new.literal = IF last THEN None ELSE r.literal
        /\ new.shape = r.shape /\ new.layout = r.layout
        /\ new.buffers = r.buffers
    BY <1>1, <2>1 DEF NextPc
  <2> HIDE DEF new, last
  <2>4. Typed(t, new) /\ Sequential(t)
    BY <1>2, <2>1, <2>3 DEF Typed, Steps
  <2>5. QED BY <1>1, <2>1, <2>2, <2>4, TransferTypes
<1>13. ASSUME NEW ofResult \in BOOLEAN, TransferLiteralFromDevice(t, ofResult)
       PROVE  TypeInv'
  <2> DEFINE new == [r EXCEPT !.pc = "reading", !.ofResult = ofResult]
  <2>1. /\ transfer' = [transfer EXCEPT ![t] = new] /\ UNCHANGED device
        /\ r.pc = "stored"
    BY <1>1, <1>13 DEF TransferLiteralFromDevice, At
  <2>2. Sequential(t)
    BY <1>13 DEF TransferLiteralFromDevice, Sequential
  <2>3. /\ new.pc = "reading" /\ new.literal = r.literal
        /\ new.shape = r.shape /\ new.layout = r.layout
        /\ new.buffers = r.buffers
    BY <1>1
  <2> HIDE DEF new
  <2>4. Typed(t, new)
    BY <1>2, <2>1, <2>3 DEF Typed, Steps
  <2>5. QED BY <1>1, <2>1, <2>2, <2>4, TransferTypes DEF device
<1>14. CASE TransferArrayFromDevice(t)
  <2> DEFINE new == [r EXCEPT
                        !.node = NextNode(t, SourceShape(t)),
                        !.read = Append(@,
                            IF SourceShape(t)[r.node].tuple
                              THEN Device!Unwritten
                              ELSE memory[SourceBuffers(t)[r.node]])]
  <2>1. /\ transfer' = [transfer EXCEPT ![t] = new] /\ UNCHANGED device
        /\ r.pc = "reading"
    BY <1>1, <1>14 DEF TransferArrayFromDevice, Reading, At
  <2>2. /\ new.pc = "reading" /\ new.literal = r.literal
        /\ new.shape = r.shape /\ new.layout = r.layout
        /\ new.buffers = r.buffers
    BY <1>1, <2>1
  <2> HIDE DEF new
  <2>3. Typed(t, new) /\ Sequential(t)
    BY <1>2, <2>1, <2>2 DEF Typed, Steps
  <2>4. QED BY <1>1, <2>1, <2>3, TransferTypes DEF device
<1>15. CASE LiteralDone(t)
  <2> DEFINE new == [r EXCEPT !.pc = "stored", !.ofResult = FALSE,
                              !.read = <<>>]
  <2>1. /\ transfer' = [transfer EXCEPT ![t] = new] /\ UNCHANGED device
        /\ r.pc = "reading"
    BY <1>1, <1>15 DEF LiteralDone, At
  <2>2. /\ new.pc = "stored" /\ new.literal = r.literal
        /\ new.shape = r.shape /\ new.layout = r.layout
        /\ new.buffers = r.buffers
    BY <1>1
  <2> HIDE DEF new
  <2>3. Typed(t, new)
    BY <1>2, <2>1, <2>2 DEF Typed, Steps
  <2>4. QED BY <1>1, <2>1, <2>2, <2>3, TransferTypes DEF device
<1>16. QED
  BY <1>6, <1>7, <1>8, <1>9, <1>10, <1>11, <1>12, <1>13, <1>14, <1>15

LEMMA ExecutionTypesStep ==
    ASSUME HeldOK, TypeInv, NEW t \in Threads,
           ExecuteOnStream(t) \/ Execute(t) \/ Release(t) \/ Dismiss(t)
    PROVE  TypeInv'
<1>1. /\ DOMAIN frame = Threads /\ frame[t].buffers \in Seq(Addrs)
      /\ DOMAIN memory = Addrs /\ allocated \subseteq Addrs
      /\ lost \subseteq Addrs /\ Device!NoFrame.pc = "idle"
  BY DEF HeldOK, TypeInv, Device!NoFrame
<1>2. transfer' = transfer
  BY DEF ExecuteOnStream, Execute, Release, Dismiss
<1>3. At(t, "stored") \/ frame[t].pc \in {"idle", "returned"}
  BY DEF TypeInv, Sequential
<1>4. CASE ExecuteOnStream(t)
  <2>1. /\ UNCHANGED <<memory, allocated, lost>> /\ At(t, "stored")
        /\ \A u \in Threads \ {t} : frame'[u] = frame[u]
    BY <1>1, <1>4 DEF ExecuteOnStream, Device!ExecuteOnStream
  <2>2. QED BY <1>1, <1>2, <2>1, ExecutionTypes
<1>5. CASE Execute(t)
  <2>1. /\ frame[t].pc \notin {"idle", "returned"}
        /\ \A u \in Threads \ {t} : frame'[u] = frame[u]
        /\ lost' = lost
    BY <1>1, <1>5
    DEF Execute, Device!Execute, Device!CreateInputTensorView,
        Device!AllocateBuffer, Device!AllocationFails, Device!SetPointers,
        Device!Call, Device!CopyBack, Device!Allocating, Device!At
  <2>2. allocated' \subseteq Addrs
    BY <1>1, <1>5
    DEF Execute, Device!Execute, Device!CreateInputTensorView,
        Device!AllocateBuffer, Device!AllocationFails, Device!SetPointers,
        Device!Call, Device!CopyBack
  <2>3. DOMAIN memory' = Addrs
    BY <1>1, <1>5
    DEF Execute, Device!Execute, Device!CreateInputTensorView,
        Device!AllocateBuffer, Device!AllocationFails, Device!SetPointers,
        Device!Call, Device!CopyBack
  <2>4. QED BY <1>1, <1>2, <1>3, <2>1, <2>2, <2>3, ExecutionTypes
<1>6. CASE Release(t)
  <2>1. /\ DOMAIN memory' = Addrs /\ allocated' \subseteq Addrs /\ lost' = lost
        /\ At(t, "stored")
        /\ \A u \in Threads \ {t} : frame'[u] = frame[u]
    BY <1>1, <1>6 DEF Release, Device!Release
  <2>2. QED BY <1>1, <1>2, <2>1, ExecutionTypes
<1>7. CASE Dismiss(t)
  <2>1. /\ UNCHANGED <<memory, allocated>>
        /\ lost' = lost \cup Device!Range(frame[t].buffers)
        /\ frame' = [frame EXCEPT ![t] = Device!NoFrame]
    BY <1>7 DEF Dismiss, Device!Dismiss
  <2>2. lost' \subseteq Addrs
    BY <1>1, <2>1 DEF Device!Range
  <2>3. frame'[t].pc = "idle" /\ \A u \in Threads \ {t} : frame'[u] = frame[u]
    BY <1>1, <2>1
  <2>4. QED BY <1>1, <1>2, <2>1, <2>2, <2>3, ExecutionTypes
<1>8. QED BY <1>4, <1>5, <1>6, <1>7

LEMMA TypeStep == HeldOK /\ TypeInv /\ [Next]_vars => TypeInv'
<1> SUFFICES ASSUME HeldOK, TypeInv, [Next]_vars PROVE TypeInv'
  OBVIOUS
<1>1. CASE Next
  BY <1>1, TransferTypesStep, ExecutionTypesStep DEF Next
<1>2. CASE UNCHANGED vars
  BY <1>2 DEF vars, device, TypeInv, Typed, At, Sequential, NoTransfer,
              LiteralsOf, Steps
<1>3. QED BY <1>1, <1>2

-----------------------------------------------------------------------------
(* Ownership and types *)

LEMMA OwnershipInvariant == Spec => [](HeldOK /\ Places)
<1>1. Init => HeldOK /\ Places
  <2> SUFFICES ASSUME Init PROVE HeldOK /\ Places
    OBVIOUS
  <2>1. /\ transfer = [t \in Threads |-> NoTransfer]
        /\ frame = [t \in Threads |-> Device!NoFrame]
        /\ allocated = {} /\ lost = {}
    BY DEF Init, Device!Init
  <2>2. /\ DOMAIN NoTransfer = TransferFields /\ NoTransfer.buffers = <<>>
        /\ DOMAIN Device!NoFrame = FrameFields /\ Device!NoFrame.buffers = <<>>
    BY DEF TransferFields, FrameFields, NoTransfer, Device!NoFrame
  <2>3. \A t \in Threads :
           transfer[t].buffers = <<>> /\ frame[t].buffers = <<>>
    BY <2>1, <2>2
  <2>4. HeldOK
    BY <2>1, <2>2, NoBuffers DEF HeldOK
  <2>5. Places
    BY <2>1, <2>3 DEF Places, Stored, Returned, Range, IsInjective
  <2>6. QED BY <2>4, <2>5
<1>2. HeldOK /\ Places /\ [Next]_vars => (HeldOK /\ Places)'
  BY OwnershipStep
<1>3. QED BY <1>1, <1>2, PTL DEF Spec

\* However transfers and executions of any number of clients allocate, fail and
\* free at a time, an allocated buffer belongs to one client's literal, to one
\* result, or is lost by a failure.
THEOREM OwnershipCorrect == Spec => []BuffersAccountedFor
<1>1. HeldOK /\ Places => BuffersAccountedFor
  BY AccountsArePlaces
<1>2. QED BY <1>1, OwnershipInvariant, PTL

LEMMA TypeInvariant == Spec => []TypeInv
<1>1. Init => TypeInv
  <2> SUFFICES ASSUME Init PROVE TypeInv
    OBVIOUS
  <2>1. /\ transfer = [t \in Threads |-> NoTransfer]
        /\ frame = [t \in Threads |-> Device!NoFrame]
        /\ allocated = {} /\ lost = {} /\ DOMAIN memory = Addrs
    BY DEF Init, Device!Init
  <2>2. \A t \in Threads : Typed(t, NoTransfer) /\ Device!NoFrame.pc = "idle"
    BY DEF Typed, NoTransfer, Steps, Device!NoFrame
  <2>3. QED BY <2>1, <2>2 DEF TypeInv, Sequential
<1>2. HeldOK /\ TypeInv /\ [Next]_vars => TypeInv'
  BY TypeStep
<1>3. QED BY <1>1, <1>2, OwnershipInvariant, PTL DEF Spec

\* A transfer keeps its place: its literal is there just while it is written, and
\* a client that executes has a literal stored (transfer_manager.cc:44-210).
THEOREM TypeCorrect == Spec => []TypeOK
<1>1. HeldOK /\ TypeInv => TypeOK
  BY DEF HeldOK, TypeInv, Typed, TypeOK, At, Sequential
<1>2. QED BY <1>1, OwnershipInvariant, TypeInvariant, PTL

-----------------------------------------------------------------------------
(* What the buffers hold *)

\* Of a tree s with buffers b, the nodes before k: a tuple's buffer has the addresses
\* of its children's, an array's has what v says.
Pointers(s, b, n) ==
    Device!Table([j \in DOMAIN s[n].children |-> b[s[n].children[j]]])
Tables(s, b, m, k) ==
    \A n \in DOMAIN s : n < k /\ s[n].tuple => m[b[n]] = Pointers(s, b, n)
Arrays(s, b, m, k, v) ==
    \A n \in DOMAIN s : n < k /\ ~s[n].tuple => m[b[n]] = v[n]

\* The bytes of client t's literal in a layout, the inputs of an execution on it and the
\* bytes of its result.
LiteralBytes(t, s, layout) == [n \in DOMAIN s |-> Bytes(n, t, layout)]
InputBytes(t, k) == [p \in 1 .. k |-> Bytes(1, t, DefaultLayout)]
ResultBytes(t, e) ==
    [n \in DOMAIN e.shape |-> Device!ResultOf(n, InputBytes(t, e.parameters))]

\* A client's literal, at each step of its transfer to the device.
Written(t, r, m) ==
    LET s == r.shape
        v == LiteralBytes(t, s, r.layout)
    IN  /\ r.pc \in {"allocated", "stored"} => r.node = 1
        /\ r.pc \in {"pointing", "writing"} =>
              r.node \in 1 .. Len(s) /\ r.literal.shape = s
        /\ r.pc = "pointing" => Tables(s, r.buffers, m, r.node)
        /\ r.pc \in {"writing", "stored", "reading"} =>
              Tables(s, r.buffers, m, Len(s) + 1)
        /\ r.pc = "writing" => Arrays(s, r.buffers, m, r.node, v)
        /\ r.pc \in {"stored", "reading"} => Arrays(s, r.buffers, m, Len(s) + 1, v)

\* What is read from a tree.
Source(t, r, e) ==
    IF r.ofResult THEN [shape |-> e.shape, bytes |-> ResultBytes(t, e)]
                  ELSE [shape |-> r.shape, bytes |-> LiteralBytes(t, r.shape, r.layout)]
ReadBytes(s, v, k) == [n \in 1 .. k |-> IF s[n].tuple THEN Device!Unwritten ELSE v[n]]
Fetched(t, r, f, e) ==
    /\ r.pc # "reading" => r.ofResult = FALSE /\ r.read = <<>>
    /\ r.pc = "reading" =>
          LET source == Source(t, r, e)
          IN  /\ r.ofResult \in BOOLEAN
              /\ r.ofResult => f.pc = "returned"
              /\ \E k \in 0 .. Len(source.shape) :
                    /\ r.read = ReadBytes(source.shape, source.bytes, k)
                    /\ r.node = IF k = Len(source.shape) THEN 1 ELSE k + 1

\* A client's execution: the arguments are the one array that it has stored.
Active == {"preparing", "pointing", "calling", "copying"}
Arrayed(e, k) == DeviceProofs!ArrayCount(e.shape, k)
Executing(t, r, f, m, e) ==
    LET s == e.shape
    IN  /\ f.pc \in Device!Steps
        /\ f.pc = "idle" => f = Device!NoFrame
        /\ f.pc \in Active =>
              /\ r.pc = "stored" /\ ~r.shape[1].tuple /\ r.layout = DefaultLayout
              /\ f.arguments = [p \in 1 .. e.parameters |-> r.buffers[1]]
              /\ f.node \in 1 .. Len(s)
        /\ f.pc = "preparing" =>
              /\ \E k \in 0 .. e.parameters : f.inputs = InputBytes(t, k)
              /\ Len(f.buffers) = f.node - 1
              /\ f.tensors \in Seq({Device!Unwritten})
              /\ Len(f.tensors) = Arrayed(e, f.node)
              /\ f.i = 1
        /\ f.pc \in {"pointing", "calling", "copying", "returned"} =>
              /\ f.inputs = InputBytes(t, e.parameters)
              /\ Len(f.buffers) = Len(s)
        /\ f.pc \in {"pointing", "calling"} =>
              DOMAIN f.tensors = 1 .. Arrayed(e, Len(s) + 1) /\ f.i = 1
        /\ f.pc = "calling" => f.node = 1
        /\ f.pc = "copying" =>
              /\ f.tensors = [k \in 1 .. Arrayed(e, Len(s) + 1) |->
                                 Device!ResultOf(Device!Results(s)[k], f.inputs)]
              /\ f.i = Arrayed(e, f.node) + 1
        /\ f.pc = "pointing" => Tables(s, f.buffers, m, f.node)
        /\ f.pc \in {"calling", "copying", "returned"} =>
              Tables(s, f.buffers, m, Len(s) + 1)
        /\ f.pc = "copying" => Arrays(s, f.buffers, m, f.node, ResultBytes(t, e))
        /\ f.pc = "returned" => /\ Arrays(s, f.buffers, m, Len(s) + 1, ResultBytes(t, e))
                                /\ \E a \in Shapes : ~a[1].tuple

ClientOK(t, r, f, m, e) ==
    Written(t, r, m) /\ Fetched(t, r, f, e) /\ Executing(t, r, f, m, e)

ClientsOK ==
    /\ executable \in Executables
    /\ \A t \in Threads : ClientOK(t, transfer[t], frame[t], memory, executable)

-----------------------------------------------------------------------------
(* Trees in memory *)

\* The lemmas on trees hold of the executables here.
LEMMA SameTrees ==
    /\ \A s : DeviceProofs!WellFormed(s) <=> Device!WellFormed(s)
    /\ \A s : DeviceProofs!Results(s) = Device!Results(s)
    /\ DeviceProofs!ExecutableAssumption
<1>1. \A s : DeviceProofs!WellFormed(s) <=> Device!WellFormed(s)
  BY DEF DeviceProofs!WellFormed, Device!WellFormed, DeviceProofs!Nodes,
         Device!Nodes, DeviceProofs!Children, Device!Children
<1>2. \A s : DeviceProofs!FlattenSeq(s) = Device!FlattenSeq(s)
  BY DEF DeviceProofs!FlattenSeq, Device!FlattenSeq
<1>3. \A s : DeviceProofs!Results(s) = Device!Results(s)
  BY <1>2 DEF DeviceProofs!Results, Device!Results
<1>4. DeviceProofs!ExecutableAssumption
  BY TransferAssumption, <1>1 DEF DeviceProofs!ExecutableAssumption
<1>5. QED BY <1>1, <1>3, <1>4

LEMMA Trees ==
    ASSUME NEW s, Device!WellFormed(s)
    PROVE  /\ Len(s) \in Nat \ {0}
           /\ DOMAIN s = 1 .. Len(s)
           /\ 1 \in DOMAIN s
           /\ \A n \in DOMAIN s :
                 /\ s[n].tuple \in BOOLEAN
                 /\ ~s[n].tuple => s[n].children = <<>>
                 /\ \A k \in DOMAIN s[n].children :
                       /\ s[n].children[k] \in DOMAIN s
                       /\ n < s[n].children[k]
           /\ \A n \in DOMAIN s : n = 1 \/ \E q \in DOMAIN s :
                 n \in Range(s[q].children)
<1>1. DeviceProofs!WellFormed(s)
  BY SameTrees
<1>2. /\ Len(s) \in Nat \ {0}
      /\ DOMAIN s = 1 .. Len(s)
      /\ \A n \in DOMAIN s :
            /\ s[n].tuple \in BOOLEAN
            /\ ~s[n].tuple => s[n].children = <<>>
            /\ \A k \in DOMAIN s[n].children :
                  s[n].children[k] \in (n + 1) .. Len(s)
  BY <1>1, SameTrees, DeviceProofs!TreeFacts
<1>3. ASSUME NEW n \in DOMAIN s, n # 1
      PROVE  \E q \in DOMAIN s : n \in Range(s[q].children)
  <2>1. n \in 2 .. Len(s)
    BY <1>2, <1>3
  <2>2. PICK q \in 1 .. (n - 1) : n \in Device!Children(s, q)
    BY <2>1 DEF Device!WellFormed
  <2>3. q \in DOMAIN s
    BY <1>2, <2>1
  <2>4. QED BY <2>2, <2>3 DEF Device!Children, Range
<1>4. QED BY <1>2, <1>3

\* The counting of a tree's arrays, and where XLAFunction has each one's result.
LEMMA ArraysCounted ==
    ASSUME NEW e \in Executables
    PROVE  /\ Arrayed(e, 1) = 0
           /\ \A n \in DOMAIN e.shape :
                 /\ Arrayed(e, n) \in Nat
                 /\ Arrayed(e, n + 1) = IF e.shape[n].tuple THEN Arrayed(e, n)
                                                           ELSE Arrayed(e, n) + 1
                 /\ ~e.shape[n].tuple =>
                       /\ Arrayed(e, n) + 1 \in 1 .. Arrayed(e, Len(e.shape) + 1)
                       /\ Device!Results(e.shape)[Arrayed(e, n) + 1] = n
           /\ Arrayed(e, Len(e.shape) + 1) \in Nat
<1> DEFINE s == e.shape
           N == Len(s)
           A(n) == DeviceProofs!ArrayCount(s, n)
<1>1. /\ Device!WellFormed(s) /\ DeviceProofs!WellFormed(s)
      /\ N \in Nat \ {0} /\ DOMAIN s = 1 .. N
  BY TransferAssumption, SameTrees, Trees
<1>2. /\ A(1) = 0
      /\ \A n \in 1 .. N + 1 : A(n) \in Nat
      /\ \A n \in 1 .. N + 1 : \A m \in n .. N + 1 : A(n) <= A(m)
      /\ \A n \in DOMAIN s : A(n + 1) = IF s[n].tuple THEN A(n) ELSE A(n) + 1
  BY <1>1, SameTrees, DeviceProofs!ArrayCounts
<1>3. DeviceProofs!FlattenedInOrder(s)
  BY <1>1, SameTrees, DeviceProofs!FlattensInOrder
<1>4. \A n \in DOMAIN s : ~s[n].tuple => Device!Results(s)[A(n) + 1] = n
  BY <1>3, SameTrees DEF DeviceProofs!FlattenedInOrder, DeviceProofs!ArrayCount
<1>5. ASSUME NEW n \in DOMAIN s
      PROVE  /\ n \in 1 .. N + 1 /\ n + 1 \in 1 .. N + 1
             /\ N + 1 \in n + 1 .. N + 1
  BY <1>1
<1>6. ASSUME NEW n \in DOMAIN s, ~s[n].tuple
      PROVE  A(n) + 1 \in 1 .. A(N + 1)
  <2>1. A(n + 1) = A(n) + 1 /\ A(n + 1) <= A(N + 1) /\ A(n) \in Nat
    BY <1>2, <1>5, <1>6
  <2>2. A(N + 1) \in Nat
    BY <1>1, <1>2
  <2> HIDE DEF A
  <2>3. QED BY <2>1, <2>2
<1>7. N + 1 \in 1 .. N + 1
  BY <1>1
<1>8. QED BY <1>2, <1>4, <1>5, <1>6, <1>7 DEF Arrayed

\* What one buffer of a tree is given.
LEMMA OneWritten ==
    ASSUME NEW m, DOMAIN m = Addrs, NEW b \in Seq(Addrs), IsInjective(b),
           NEW n \in DOMAIN b, NEW x, NEW w, w = [m EXCEPT ![b[n]] = x]
    PROVE  /\ \A j \in DOMAIN b : w[b[j]] = IF j = n THEN x ELSE m[b[j]]
           /\ \A a \in Addrs \ Range(b) : w[a] = m[a]
<1>1. \A j \in DOMAIN b : b[j] \in Addrs /\ b[j] \in Range(b)
  BY DEF Range
<1>2. \A j \in DOMAIN b : j # n => b[j] # b[n]
  BY DEF IsInjective
<1>3. QED BY <1>1, <1>2

\* A tree's buffers, of which the n-th is given x, if it is the buffer of a tuple, or of
\* an array.
OfTree(s, b) == b \in Seq(Addrs) /\ IsInjective(b) /\ Len(b) = Len(s)
Given(s, b, m, n, x, w, ofTuple) ==
    w = IF s[n].tuple = ofTuple THEN [m EXCEPT ![b[n]] = x] ELSE m
OthersLeft(b, m, w) == \A a \in Addrs \ Range(b) : w[a] = m[a]

LEMMA TablesGrow ==
    ASSUME NEW s, Device!WellFormed(s), NEW m, DOMAIN m = Addrs,
           NEW b, OfTree(s, b), NEW n \in 1 .. Len(s), Tables(s, b, m, n), NEW w,
           Given(s, b, m, n, Pointers(s, b, n), w, TRUE)
    PROVE  Tables(s, b, w, n + 1) /\ OthersLeft(b, m, w)
<1> USE DEF OfTree, OthersLeft
<1>1. /\ DOMAIN s = 1 .. Len(s) /\ DOMAIN b = DOMAIN s /\ Len(s) \in Nat
      /\ s[n].tuple \in BOOLEAN
  BY Trees
<1>2. CASE s[n].tuple
  <2>1. w = [m EXCEPT ![b[n]] = Pointers(s, b, n)] /\ n \in DOMAIN b
    BY <1>1, <1>2 DEF Given
  <2>2. /\ \A j \in DOMAIN b : w[b[j]] = IF j = n THEN Pointers(s, b, n) ELSE m[b[j]]
        /\ \A a \in Addrs \ Range(b) : w[a] = m[a]
    BY <2>1, OneWritten
  <2>3. \A j \in DOMAIN s : j < n + 1 => j = n \/ j < n
    BY <1>1
  <2>4. QED BY <1>1, <2>2, <2>3 DEF Tables
<1>3. CASE ~s[n].tuple
  <2>1. \A j \in DOMAIN s : j < n + 1 => j = n \/ j < n
    BY <1>1
  <2>2. w = m
    BY <1>3 DEF Given
  <2>3. QED BY <1>3, <2>1, <2>2 DEF Tables
<1>4. QED BY <1>1, <1>2, <1>3

LEMMA ArraysGrow ==
    ASSUME NEW s, Device!WellFormed(s), NEW m, DOMAIN m = Addrs,
           NEW b, OfTree(s, b), NEW n \in 1 .. Len(s), NEW v, Arrays(s, b, m, n, v),
           Tables(s, b, m, Len(s) + 1), NEW w, Given(s, b, m, n, v[n], w, FALSE)
    PROVE  /\ Arrays(s, b, w, n + 1, v)
           /\ Tables(s, b, w, Len(s) + 1)
           /\ OthersLeft(b, m, w)
<1> USE DEF OfTree, OthersLeft
<1>1. /\ DOMAIN s = 1 .. Len(s) /\ DOMAIN b = DOMAIN s /\ Len(s) \in Nat
      /\ s[n].tuple \in BOOLEAN
  BY Trees
<1>2. \A j \in DOMAIN s : j < n + 1 => j = n \/ j < n
  BY <1>1
<1>3. CASE ~s[n].tuple
  <2>1. w = [m EXCEPT ![b[n]] = v[n]] /\ n \in DOMAIN b
    BY <1>1, <1>3 DEF Given
  <2>2. /\ \A j \in DOMAIN b : w[b[j]] = IF j = n THEN v[n] ELSE m[b[j]]
        /\ \A a \in Addrs \ Range(b) : w[a] = m[a]
    BY <2>1, OneWritten
  <2>3. Arrays(s, b, w, n + 1, v)
    BY <1>1, <1>2, <2>2 DEF Arrays
  <2>4. Tables(s, b, w, Len(s) + 1)
    BY <1>1, <1>3, <2>2 DEF Tables
  <2>5. QED BY <2>2, <2>3, <2>4
<1>4. CASE s[n].tuple
  BY <1>2, <1>4 DEF Arrays, Given
<1>5. QED BY <1>1, <1>3, <1>4

\* Other buffers do not matter.
LEMMA TreeKept ==
    ASSUME NEW s, NEW b, NEW m, NEW w, \A n \in DOMAIN s : w[b[n]] = m[b[n]]
    PROVE  /\ \A k : Tables(s, b, m, k) => Tables(s, b, w, k)
           /\ \A k, v : Arrays(s, b, m, k, v) => Arrays(s, b, w, k, v)
BY DEF Tables, Arrays

LEMMA WrittenKept ==
    ASSUME NEW t \in Threads, NEW r, Typed(t, r), r.buffers \in Seq(Addrs),
           NEW m, NEW w, \A a \in Range(r.buffers) : w[a] = m[a],
           Written(t, r, m)
    PROVE  Written(t, r, w)
<1> DEFINE s == r.shape
           b == r.buffers
<1>1. CASE r.pc \in {"pointing", "writing", "stored", "reading"}
  <2>1. /\ Len(b) = Len(s) /\ Device!WellFormed(s)
    BY <1>1, TransferAssumption DEF Typed
  <2>2. DOMAIN s = DOMAIN b
    BY <2>1, Trees
  <2>3. \A n \in DOMAIN s : w[b[n]] = m[b[n]]
    BY <2>2 DEF Range
  <2>4. /\ \A k : Tables(s, b, m, k) => Tables(s, b, w, k)
        /\ \A k, v : Arrays(s, b, m, k, v) => Arrays(s, b, w, k, v)
    BY <2>3, TreeKept
  <2>5. QED BY <2>4 DEF Written
<1>2. CASE r.pc \notin {"pointing", "writing", "stored", "reading"}
  BY <1>2 DEF Written
<1>3. QED BY <1>1, <1>2

LEMMA ExecutingKept ==
    ASSUME NEW t, NEW r, NEW q, NEW f, NEW e \in Executables, f.buffers \in Seq(Addrs),
           NEW m, NEW w, \A a \in Range(f.buffers) : w[a] = m[a],
           Executing(t, r, f, m, e), f.pc \in Active => q = r
    PROVE  Executing(t, q, f, w, e)
<1> DEFINE s == e.shape
           b == f.buffers
<1>1. CASE f.pc \in {"pointing", "calling", "copying", "returned"}
  <2>1. Len(b) = Len(s) /\ Device!WellFormed(s)
    BY <1>1, TransferAssumption DEF Executing
  <2>2. DOMAIN s = DOMAIN b
    BY <2>1, Trees
  <2>3. \A n \in DOMAIN s : w[b[n]] = m[b[n]]
    BY <2>2 DEF Range
  <2>4. /\ \A k : Tables(s, b, m, k) => Tables(s, b, w, k)
        /\ \A k, v : Arrays(s, b, m, k, v) => Arrays(s, b, w, k, v)
    BY <2>3, TreeKept
  <2>5. QED BY <2>4 DEF Executing, Active
<1>2. CASE f.pc \notin {"pointing", "calling", "copying", "returned"}
  BY <1>2 DEF Executing, Active
<1>3. QED BY <1>1, <1>2

-----------------------------------------------------------------------------
(* What clients see *)

\* Following the tables from the root's buffer leads to each node's.
Followed(s, at, n) ==
    LET q == CHOOSE q \in DOMAIN s : n \in Range(s[q].children)
        k == CHOOSE k \in DOMAIN s[q].children : s[q].children[k] = n
    IN  memory[at[q]].of[k]

LEMMA NextFollows ==
    ASSUME NEW s, Device!WellFormed(s), NEW b, Tables(s, b, memory, Len(s) + 1),
           NEW n \in DOMAIN s, n # 1
    PROVE  \E q \in DOMAIN s : q < n /\ \A at : at[q] = b[q] => Followed(s, at, n) = b[n]
<1> DEFINE q == CHOOSE q \in DOMAIN s : n \in Range(s[q].children)
           k == CHOOSE k \in DOMAIN s[q].children : s[q].children[k] = n
<1>1. q \in DOMAIN s /\ n \in Range(s[q].children)
  BY Trees
<1>2. k \in DOMAIN s[q].children /\ s[q].children[k] = n
  <2> HIDE DEF q
  <2>1. \E j \in DOMAIN s[q].children : s[q].children[j] = n
    BY <1>1 DEF Range
  <2>2. QED BY <2>1
<1>3. \A at : Followed(s, at, n) = memory[at[q]].of[k]
  BY DEF Followed
<1> HIDE DEF q, k
<1>4. q < n /\ q \in 1 .. Len(s) /\ Len(s) \in Nat
  BY <1>1, <1>2, Trees
<1>5. s[q].tuple
  <2>1. s[q].tuple \in BOOLEAN /\ (~s[q].tuple => s[q].children = <<>>)
    BY <1>1, Trees
  <2>2. s[q].children # <<>>
    BY <1>2
  <2>3. QED BY <2>1, <2>2
<1>6. memory[b[q]] = Pointers(s, b, q)
  BY <1>1, <1>4, <1>5 DEF Tables
<1>7. memory[b[q]].of[k] = b[n]
  BY <1>2, <1>6 DEF Pointers, Device!Table
<1>8. QED BY <1>1, <1>3, <1>4, <1>7

LEMMA Following ==
    ASSUME NEW s, Device!WellFormed(s), NEW b, Tables(s, b, memory, Len(s) + 1)
    PROVE  \A n \in DOMAIN s : Reached(s, b[1])[n] = b[n]
<1> DEFINE Solves(at) ==
             at = [n \in DOMAIN s |-> IF n = 1 THEN b[1] ELSE Followed(s, at, n)]
           own == [n \in DOMAIN s |-> b[n]]
<1>0. DOMAIN s = 1 .. Len(s) /\ Len(s) \in Nat
  BY Trees
<1>1. Solves(own)
  <2>1. ASSUME NEW n \in DOMAIN s, n # 1 PROVE Followed(s, own, n) = b[n]
    <3>1. PICK q \in DOMAIN s : \A at : at[q] = b[q] => Followed(s, at, n) = b[n]
      BY <2>1, NextFollows
    <3>2. own[q] = b[q]
      OBVIOUS
    <3> HIDE DEF own
    <3>3. QED BY <3>1, <3>2
  <2>2. QED BY <2>1
<1> DEFINE g == CHOOSE at : Solves(at)
<1>2. Solves(g)
  <2> HIDE DEF Solves, own
  <2> QED BY <1>1
<1>3. Reached(s, b[1]) = g
  BY DEF Reached, Followed
<1> HIDE DEF g
<1>4. \A n \in DOMAIN s : g[n] = IF n = 1 THEN b[1] ELSE Followed(s, g, n)
  BY <1>2
<1> DEFINE Wrong == {n \in DOMAIN s : g[n] # b[n]}
<1>5. Wrong = {}
  <2>1. SUFFICES ASSUME Wrong # {} PROVE FALSE
    OBVIOUS
  <2>2. PICK n \in Wrong : \A j \in Wrong : n <= j
    <3>1. Wrong \in SUBSET Nat
      BY <1>0
    <3> HIDE DEF Wrong
    <3>2. QED BY <2>1, <3>1, LeastNumber
  <2>3. n \in DOMAIN s /\ n # 1
    BY <1>4
  <2>4. PICK q \in DOMAIN s :
           q < n /\ \A at : at[q] = b[q] => Followed(s, at, n) = b[n]
    BY <2>3, NextFollows
  <2>5. q \notin Wrong
    BY <1>0, <2>2, <2>3, <2>4
  <2>6. g[q] = b[q]
    BY <2>5
  <2>7. g[n] = b[n]
    BY <1>4, <2>3, <2>4, <2>6
  <2>8. QED BY <2>2, <2>7
<1>6. QED BY <1>3, <1>5

\* The elements of a tree's arrays, of their bytes in a layout.
Seen(s, v, layout) == [n \in Leaves(s) |-> Elements(v[n], layout)]

LEMMA DeviceHolds ==
    ASSUME NEW s, Device!WellFormed(s), NEW b, Tables(s, b, memory, Len(s) + 1),
           NEW v, Arrays(s, b, memory, Len(s) + 1, v), NEW layout
    PROVE  OnDevice(s, layout, b[1]) = Seen(s, v, layout)
<1>1. \A n \in Leaves(s) : n \in DOMAIN s /\ n < Len(s) + 1 /\ ~s[n].tuple
  BY Trees DEF Leaves
<1>2. \A n \in Leaves(s) : memory[Reached(s, b[1])[n]] = v[n]
  BY <1>1, Following DEF Arrays
<1>3. QED BY <1>2 DEF OnDevice, Seen

\* Client t's literal of shape s, and what the module e computes from its array.
LiteralHeld(t, s) == Literal([shape |-> s, value |-> t])
ResultOfHeld(t, e) ==
    [n \in Leaves(e.shape) |->
        Device!ResultOf(n, [p \in 1 .. e.parameters |->
            [kind |-> "data", leaf |-> 1, of |-> <<t>>]])]

LEMMA BytesAreElements ==
    ASSUME NEW t
    PROVE  /\ \A s, layout :
                 Seen(s, LiteralBytes(t, s, layout), layout) = LiteralHeld(t, s)
           /\ \A e \in Executables :
                 Seen(e.shape, ResultBytes(t, e), DefaultLayout) = ResultOfHeld(t, e)
<1>1. ASSUME NEW s, NEW layout, NEW n \in Leaves(s)
      PROVE  Elements(LiteralBytes(t, s, layout)[n], layout)
               = [kind |-> "data", leaf |-> n, of |-> <<t>>]
  BY DEF Elements, LiteralBytes, Bytes, DataElements, Leaves
<1>2. ASSUME NEW s, NEW layout
      PROVE  Seen(s, LiteralBytes(t, s, layout), layout) = LiteralHeld(t, s)
  BY <1>1 DEF LiteralHeld, Literal, Seen
<1>3. ASSUME NEW e \in Executables, NEW n \in Leaves(e.shape)
      PROVE  Elements(ResultBytes(t, e)[n], DefaultLayout)
               = Device!ResultOf(n, [p \in 1 .. e.parameters |->
                     [kind |-> "data", leaf |-> 1, of |-> <<t>>]])
  <2> DEFINE inputs == InputBytes(t, e.parameters)
  <2>1. ResultBytes(t, e)[n] = Device!ResultOf(n, inputs)
    BY DEF ResultBytes, Leaves
  <2>2. DOMAIN inputs = 1 .. e.parameters
          /\ \A p \in DOMAIN inputs : inputs[p] = Bytes(1, t, DefaultLayout)
    BY DEF InputBytes
  <2> HIDE DEF inputs
  <2>3. \A p \in DOMAIN inputs :
           DataElements(inputs[p], DefaultLayout)
             = [kind |-> "data", leaf |-> 1, of |-> <<t>>]
    BY <2>2 DEF Bytes, DataElements
  <2>4. Elements(Device!ResultOf(n, inputs), DefaultLayout)
          = Device!ResultOf(n, [p \in DOMAIN inputs |->
                                   DataElements(inputs[p], DefaultLayout)])
    BY DEF Elements, Device!ResultOf
  <2>5. [p \in DOMAIN inputs |-> DataElements(inputs[p], DefaultLayout)]
          = [p \in 1 .. e.parameters |-> [kind |-> "data", leaf |-> 1, of |-> <<t>>]]
    BY <2>2, <2>3
  <2>6. QED BY <2>1, <2>4, <2>5
<1>4. ASSUME NEW e \in Executables
      PROVE  Seen(e.shape, ResultBytes(t, e), DefaultLayout) = ResultOfHeld(t, e)
  BY <1>3 DEF ResultOfHeld, Seen
<1>5. QED BY <1>2, <1>4

\* The abstract state is a function of the clients' records.
HeldBar(t, r) == IF r.pc \in {"stored", "reading"} THEN LiteralHeld(t, r.shape) ELSE None
ResultBar(t, f, e) == IF f.pc = "returned" THEN ResultOfHeld(t, e) ELSE None
AnswerBar(t, r, e) ==
    IF r.pc = "reading" /\ Len(r.read) = Len(Source(t, r, e).shape)
      THEN IF r.ofResult THEN ResultOfHeld(t, e) ELSE LiteralHeld(t, r.shape)
      ELSE None
Mapping == \A t \in Threads :
    /\ HeldLiteral(t) = HeldBar(t, transfer[t])
    /\ ReturnedResult(t) = ResultBar(t, frame[t], executable)
    /\ ReadLiteral(t) = AnswerBar(t, transfer[t], executable)

LEMMA MappingHolds == HeldOK /\ TypeInv /\ ClientsOK => Mapping
<1> SUFFICES ASSUME HeldOK, TypeInv, ClientsOK, NEW t \in Threads
             PROVE  /\ HeldLiteral(t) = HeldBar(t, transfer[t])
                    /\ ReturnedResult(t) = ResultBar(t, frame[t], executable)
                    /\ ReadLiteral(t) = AnswerBar(t, transfer[t], executable)
  BY DEF Mapping
<1> DEFINE r == transfer[t]
           f == frame[t]
           e == executable
<1>1. /\ Typed(t, r) /\ Written(t, r, memory) /\ Fetched(t, r, f, e)
      /\ Executing(t, r, f, memory, e) /\ e \in Executables
      /\ Device!WellFormed(e.shape) /\ Device!shape = e.shape
  BY TransferAssumption DEF TypeInv, ClientsOK, ClientOK, Device!shape
<1>2. HeldLiteral(t) = HeldBar(t, r)
  <2>1. CASE r.pc \in {"stored", "reading"}
    <3>1. /\ Device!WellFormed(r.shape)
          /\ Tables(r.shape, r.buffers, memory, Len(r.shape) + 1)
          /\ Arrays(r.shape, r.buffers, memory, Len(r.shape) + 1,
                    LiteralBytes(t, r.shape, r.layout))
      BY <1>1, <2>1, TransferAssumption DEF Typed, Written
    <3>2. OnDevice(r.shape, r.layout, r.buffers[1])
            = Seen(r.shape, LiteralBytes(t, r.shape, r.layout), r.layout)
      BY <3>1, DeviceHolds
    <3>3. QED BY <2>1, <3>2, BytesAreElements DEF HeldLiteral, HeldBar
  <2>2. CASE r.pc \notin {"stored", "reading"}
    BY <2>2 DEF HeldLiteral, HeldBar
  <2>3. QED BY <2>1, <2>2
<1>3. ReturnedResult(t) = ResultBar(t, f, e)
  <2>1. CASE f.pc = "returned"
    <3>1. /\ Tables(e.shape, f.buffers, memory, Len(e.shape) + 1)
          /\ Arrays(e.shape, f.buffers, memory, Len(e.shape) + 1, ResultBytes(t, e))
      BY <1>1, <2>1 DEF Executing
    <3>2. OnDevice(e.shape, DefaultLayout, f.buffers[1])
            = Seen(e.shape, ResultBytes(t, e), DefaultLayout)
      BY <1>1, <3>1, DeviceHolds
    <3>3. QED BY <1>1, <2>1, <3>2, BytesAreElements DEF ReturnedResult, ResultBar
  <2>2. CASE f.pc # "returned"
    BY <2>2 DEF ReturnedResult, ResultBar
  <2>3. QED BY <2>1, <2>2
<1>4. ReadLiteral(t) = AnswerBar(t, r, e)
  <2>1. CASE r.pc = "reading"
    <3> DEFINE source == Source(t, r, e)
               s == source.shape
               v == source.bytes
    <3>1. /\ s = SourceShape(t) /\ r.ofResult \in BOOLEAN
          /\ Len(s) \in Nat /\ DOMAIN s = 1 .. Len(s)
      <4>1. Device!WellFormed(r.shape)
        BY <1>1, <2>1, TransferAssumption DEF Typed
      <4>2. r.ofResult \in BOOLEAN
        BY <1>1, <2>1 DEF Fetched
      <4>3. QED BY <1>1, <4>1, <4>2, Trees DEF Source, SourceShape
    <3>2. PICK k \in 0 .. Len(s) : r.read = ReadBytes(s, v, k)
      BY <1>1, <2>1 DEF Fetched
    <3>3. Len(r.read) = k
      BY <3>2 DEF ReadBytes
    <3>4. CASE k = Len(s)
      <4>1. \A n \in Leaves(s) : r.read[n] = v[n]
        BY <3>1, <3>2, <3>4 DEF ReadBytes, Leaves
      <4>2. ReadLiteral(t) = Seen(s, v, SourceLayout(t))
        BY <2>1, <3>1, <3>3, <3>4, <4>1 DEF ReadLiteral, Reading, At, Seen
      <4>3. CASE r.ofResult
        <5>1. s = e.shape /\ v = ResultBytes(t, e) /\ SourceLayout(t) = DefaultLayout
          BY <4>3 DEF Source, SourceLayout
        <5>2. AnswerBar(t, r, e) = ResultOfHeld(t, e)
          BY <2>1, <3>3, <3>4, <4>3 DEF AnswerBar
        <5>3. QED BY <1>1, <4>2, <5>1, <5>2, BytesAreElements
      <4>4. CASE ~r.ofResult
        <5>1. /\ s = r.shape /\ v = LiteralBytes(t, r.shape, r.layout)
              /\ SourceLayout(t) = r.layout
          BY <4>4 DEF Source, SourceLayout
        <5>2. AnswerBar(t, r, e) = LiteralHeld(t, r.shape)
          BY <2>1, <3>3, <3>4, <4>4 DEF AnswerBar
        <5>3. QED BY <4>2, <5>1, <5>2, BytesAreElements
      <4>5. QED BY <4>3, <4>4
    <3>5. CASE k # Len(s)
      <4>1. k < Len(s)
        <5> DEFINE last == Len(s)
        <5>1. last \in Nat /\ k \in 0 .. last /\ k # last
          BY <3>1, <3>5
        <5> HIDE DEF last
        <5>2. k < last
          BY <5>1
        <5>3. QED BY <5>2 DEF last
      <4>2. ReadLiteral(t) = None
        BY <2>1, <3>1, <3>3, <4>1 DEF ReadLiteral, Reading, At
      <4>3. QED BY <3>3, <3>5, <4>2 DEF AnswerBar
    <3>6. QED BY <3>4, <3>5
  <2>2. CASE r.pc # "reading"
    BY <2>2 DEF ReadLiteral, AnswerBar, At
  <2>3. QED BY <2>1, <2>2
<1>5. QED BY <1>2, <1>3, <1>4

-----------------------------------------------------------------------------
(* The steps of one client *)

\* What is known of client t, whose records are r and f.
Facts(t, r, f) ==
    /\ r = transfer[t] /\ f = frame[t]
    /\ Typed(t, r) /\ Written(t, r, memory) /\ Fetched(t, r, f, executable)
    /\ Executing(t, r, f, memory, executable)
    /\ r.buffers \in Seq(Addrs) /\ IsInjective(r.buffers)
    /\ f.buffers \in Seq(Addrs) /\ IsInjective(f.buffers)
    /\ Range(r.buffers) = Stored(t) /\ Range(f.buffers) = Returned(t)
    /\ Stored(t) \cap Returned(t) = {}
    /\ Stored(t) \subseteq Addrs /\ Returned(t) \subseteq Addrs
    /\ DOMAIN r = TransferFields /\ DOMAIN f = FrameFields
    /\ DOMAIN memory = Addrs /\ DOMAIN transfer = Threads /\ DOMAIN frame = Threads
    /\ r.pc = "stored" \/ f.pc \in {"idle", "returned"}
    /\ executable \in Executables

\* The inductive invariant.
Invariants == HeldOK /\ Places /\ TypeInv /\ ClientsOK

LEMMA KnownFacts ==
    ASSUME Invariants, NEW t \in Threads
    PROVE  Facts(t, transfer[t], frame[t])
<1>1. /\ Stored(t) \subseteq Addrs /\ Returned(t) \subseteq Addrs
  BY DEF Invariants, HeldOK, Stored, Returned, Range
<1>2. QED
  BY <1>1 DEF Facts, Invariants, HeldOK, Places, TypeInv, ClientsOK, ClientOK, Stored,
              Returned, At, Sequential

\* The other clients' buffers are theirs.
LEMMA OthersSafe ==
    ASSUME Invariants, NEW t \in Threads, executable' = executable,
           \A u \in Threads \ {t} : transfer'[u] = transfer[u] /\ frame'[u] = frame[u],
           \A a \in Addrs \ (Stored(t) \cup Returned(t)) : memory'[a] = memory[a],
           ClientOK(t, transfer'[t], frame'[t], memory', executable)
    PROVE  ClientsOK'
<1>1. ASSUME NEW u \in Threads \ {t}
      PROVE  ClientOK(u, transfer[u], frame[u], memory', executable)
  <2>1. Facts(u, transfer[u], frame[u])
    BY KnownFacts
  <2>2. (Stored(u) \cup Returned(u)) \cap (Stored(t) \cup Returned(t)) = {}
    BY DEF Invariants, Places
  <2>3. \A a \in Range(transfer[u].buffers) \cup Range(frame[u].buffers) :
           memory'[a] = memory[a]
    BY <2>1, <2>2 DEF Facts
  <2>4. Written(u, transfer[u], memory')
    BY <2>1, <2>3, WrittenKept DEF Facts
  <2>5. Executing(u, transfer[u], frame[u], memory', executable)
    BY <2>1, <2>3, ExecutingKept DEF Facts
  <2>6. QED BY <2>1, <2>4, <2>5 DEF Facts, ClientOK
<1>2. \A u \in Threads : ClientOK(u, transfer'[u], frame'[u], memory', executable)
  BY <1>1
<1>3. QED BY <1>2 DEF ClientsOK, Invariants

\* A transfer: the client does not execute meanwhile.
LEMMA TransferSafe ==
    ASSUME Invariants, NEW t \in Threads, NEW r,
           transfer' = [transfer EXCEPT ![t] = r], frame' = frame,
           executable' = executable,
           frame[t].pc \notin Active,
           \A a \in Addrs \ Stored(t) : memory'[a] = memory[a],
           Written(t, r, memory'), Fetched(t, r, frame[t], executable)
    PROVE  ClientsOK'
<1>1. Facts(t, transfer[t], frame[t])
  BY KnownFacts
<1>2. /\ transfer'[t] = r /\ \A u \in Threads \ {t} : transfer'[u] = transfer[u]
  BY <1>1 DEF Facts
<1>3. \A a \in Range(frame[t].buffers) : memory'[a] = memory[a]
  BY <1>1 DEF Facts
<1>4. Executing(t, r, frame[t], memory', executable)
  BY <1>1, <1>3, ExecutingKept DEF Facts
<1>5. ClientOK(t, transfer'[t], frame'[t], memory', executable)
  BY <1>2, <1>4 DEF ClientOK
<1>6. QED BY <1>2, <1>5, OthersSafe

\* A step of an execution: the client's literal stays where it is.
LEMMA ExecutionSafe ==
    ASSUME Invariants, NEW t \in Threads, NEW f,
           frame' = [frame EXCEPT ![t] = f], transfer' = transfer,
           executable' = executable,
           transfer[t].pc = "stored",
           \A a \in Addrs \ Returned(t) : memory'[a] = memory[a],
           Executing(t, transfer[t], f, memory', executable)
    PROVE  ClientsOK'
<1>1. Facts(t, transfer[t], frame[t])
  BY KnownFacts
<1>2. /\ frame'[t] = f /\ \A u \in Threads \ {t} : frame'[u] = frame[u]
  BY <1>1 DEF Facts
<1>3. \A a \in Range(transfer[t].buffers) : memory'[a] = memory[a]
  BY <1>1 DEF Facts
<1>4. Written(t, transfer[t], memory')
  BY <1>1, <1>3, WrittenKept DEF Facts
<1>5. Fetched(t, transfer[t], f, executable)
  BY <1>1 DEF Facts, Fetched
<1>6. ClientOK(t, transfer'[t], frame'[t], memory', executable)
  BY <1>2, <1>4, <1>5 DEF ClientOK
<1>7. QED BY <1>2, <1>6, OthersSafe

LEMMA NothingRead ==
    ASSUME NEW t, NEW r, NEW f, NEW e, NEW q, NEW g, NEW d, Fetched(t, r, f, e),
           r.pc # "reading", q.pc # "reading", q.ofResult = r.ofResult,
           q.read = r.read
    PROVE  Fetched(t, q, g, d)
BY DEF Fetched

LEMMA AllocationSafe ==
    ASSUME Invariants, NEW t \in Threads,
           \/ \E s \in Shapes, layout \in Layouts \cup {NoLayout} :
                 AllocateShapedBuffer(t, s, layout)
           \/ \E a \in Addrs : Allocate(t, a)
    PROVE  ClientsOK'
<1> DEFINE r == transfer[t]
<1>1. Facts(t, r, frame[t])
  BY KnownFacts
<1>2. PICK q : /\ transfer' = [transfer EXCEPT ![t] = q]
               /\ UNCHANGED <<executable, memory, frame>>
               /\ r.pc \in {"idle", "allocating"}
               /\ q.ofResult = r.ofResult /\ q.read = r.read
               /\ q.pc \in {"allocating", "allocated"}
               /\ q.pc = "allocated" => q.node = 1
  <2>1. CASE \E s \in Shapes, layout \in Layouts \cup {NoLayout} :
               AllocateShapedBuffer(t, s, layout)
    <3>1. PICK s \in Shapes, layout \in Layouts \cup {NoLayout} :
             AllocateShapedBuffer(t, s, layout)
      BY <2>1
    <3>2. WITNESS [r EXCEPT !.pc = "allocating", !.shape = s, !.layout = layout]
    <3>3. QED BY <1>1, <3>1, Fields DEF Facts, AllocateShapedBuffer, At, device
  <2>2. CASE \E a \in Addrs : Allocate(t, a)
    <3>1. PICK a \in Addrs : Allocate(t, a)
      BY <2>2
    <3>2. WITNESS [r EXCEPT !.pc = NextPc(t, r.shape, "allocated"),
                            !.node = NextNode(t, r.shape),
                            !.buffers = Append(@, a)]
    <3>3. QED BY <1>1, <3>1, Fields DEF Facts, Allocate, At, NextPc, NextNode
  <2>3. QED BY <2>1, <2>2
<1>3. Written(t, q, memory')
  BY <1>2 DEF Written
<1>4. Fetched(t, q, frame[t], executable)
  BY <1>1, <1>2, NothingRead DEF Facts
<1>5. frame[t].pc \notin Active
  BY <1>1, <1>2 DEF Facts, Active
<1>6. QED BY <1>2, <1>3, <1>4, <1>5, TransferSafe

LEMMA EndSafe ==
    ASSUME Invariants, NEW t \in Threads, AllocationFails(t) \/ Deallocate(t)
    PROVE  ClientsOK'
<1>1. Facts(t, transfer[t], frame[t])
  BY KnownFacts
<1>2. /\ transfer' = [transfer EXCEPT ![t] = NoTransfer]
      /\ UNCHANGED <<executable, frame>>
  BY DEF AllocationFails, Deallocate
<1>3. \A a \in Addrs \ Stored(t) : memory'[a] = memory[a]
  BY <1>1 DEF Facts, AllocationFails, Deallocate
<1>4. frame[t].pc \notin Active
  BY <1>1 DEF Facts, Active, AllocationFails, Deallocate, At, Sequential
<1>5. NoTransfer.pc = "idle" /\ NoTransfer.ofResult = FALSE /\ NoTransfer.read = <<>>
  BY DEF NoTransfer
<1>6. Written(t, NoTransfer, memory') /\ Fetched(t, NoTransfer, frame[t], executable)
  BY <1>5 DEF Written, Fetched
<1>7. QED BY <1>2, <1>3, <1>4, <1>6, TransferSafe

LEMMA LiteralSafe ==
    ASSUME Invariants, NEW t \in Threads, NEW literal \in LiteralsOf(t),
           TransferLiteralToDevice(t, literal)
    PROVE  ClientsOK'
<1> DEFINE r == transfer[t]
           q == [r EXCEPT !.pc = "pointing", !.literal = literal]
<1>1. Facts(t, r, frame[t])
  BY KnownFacts
<1>2. /\ transfer' = [transfer EXCEPT ![t] = q]
      /\ UNCHANGED <<executable, memory, frame>>
      /\ r.pc \in {"allocated", "stored"} /\ Sequential(t) /\ literal.shape = r.shape
  BY <1>1, Fields DEF Facts, TransferLiteralToDevice, device
<1>3. /\ q.pc = "pointing" /\ q.literal = literal /\ q.shape = r.shape
      /\ q.node = r.node /\ q.buffers = r.buffers
      /\ q.ofResult = r.ofResult /\ q.read = r.read
  BY <1>1, Fields DEF Facts
<1> HIDE DEF q
<1>4. /\ Device!WellFormed(r.shape) /\ r.node = 1
  BY <1>1, <1>2, TransferAssumption DEF Facts, Typed, Written
<1>5. 1 \in 1 .. Len(r.shape) /\ \A n \in DOMAIN r.shape : ~(n < 1)
  BY <1>4, Trees
<1>6. Written(t, q, memory')
  BY <1>2, <1>3, <1>4, <1>5 DEF Written, Tables
<1>7. Fetched(t, q, frame[t], executable)
  BY <1>1, <1>2, <1>3, NothingRead DEF Facts
<1>8. frame[t].pc \notin Active
  BY <1>2 DEF Active, Sequential
<1>9. QED BY <1>2, <1>6, <1>7, <1>8, TransferSafe

LEMMA PointingSafe ==
    ASSUME Invariants, NEW t \in Threads, WriteTupleIndexTable(t)
    PROVE  ClientsOK'
<1> DEFINE r == transfer[t]
           s == r.shape
           n == r.node
           q == [r EXCEPT !.pc = NextPc(t, s, "writing"), !.node = NextNode(t, s)]
<1>1. Facts(t, r, frame[t])
  BY KnownFacts
<1>2. /\ transfer' = [transfer EXCEPT ![t] = q]
      /\ UNCHANGED <<executable, frame>> /\ r.pc = "pointing"
      /\ memory' = IF s[n].tuple
                     THEN [memory EXCEPT ![r.buffers[n]] = Pointers(s, r.buffers, n)]
                     ELSE memory
  BY <1>1, Fields DEF Facts, WriteTupleIndexTable, At, Pointers
<1>3. /\ q.pc = IF n = Len(s) THEN "writing" ELSE "pointing"
      /\ q.node = IF n = Len(s) THEN 1 ELSE n + 1
      /\ q.literal = r.literal /\ q.shape = s /\ q.layout = r.layout
      /\ q.buffers = r.buffers /\ q.ofResult = r.ofResult /\ q.read = r.read
  BY <1>1, <1>2, Fields DEF Facts, NextPc, NextNode
<1> HIDE DEF q
<1>4. /\ Device!WellFormed(s) /\ Len(r.buffers) = Len(s)
      /\ n \in 1 .. Len(s) /\ r.literal.shape = s
      /\ Tables(s, r.buffers, memory, n)
      /\ Len(s) \in Nat \ {0}
  BY <1>1, <1>2, TransferAssumption, Trees DEF Facts, Typed, Written
<1>5. /\ Tables(s, r.buffers, memory', n + 1)
      /\ OthersLeft(r.buffers, memory, memory')
  <2> DEFINE b == r.buffers
             w == memory'
  <2>1. /\ DOMAIN memory = Addrs /\ OfTree(s, b) /\ Tables(s, b, memory, n)
        /\ Given(s, b, memory, n, Pointers(s, b, n), w, TRUE)
    BY <1>1, <1>2, <1>4, Trees DEF Facts, OfTree, Given
  <2>2. Tables(s, b, w, n + 1) /\ OthersLeft(b, memory, w)
    <3> HIDE DEF s, n, b, w
    <3> QED BY <1>4, <2>1, TablesGrow
  <2>3. QED BY <2>2
<1>6. Written(t, q, memory')
  <2>1. \A v : Arrays(s, r.buffers, memory', 1, v)
    BY <1>4, Trees DEF Arrays
  <2>2. 1 \in 1 .. Len(s) /\ (n # Len(s) => n + 1 \in 1 .. Len(s))
    BY <1>4
  <2>3. QED BY <1>3, <1>4, <1>5, <2>1, <2>2 DEF Written
<1>7. Fetched(t, q, frame[t], executable)
  BY <1>1, <1>2, <1>3, NothingRead DEF Facts
<1>8. frame[t].pc \notin Active
  BY <1>1, <1>2 DEF Facts, Active
<1>9. \A a \in Addrs \ Stored(t) : memory'[a] = memory[a]
  BY <1>1, <1>5 DEF Facts, OthersLeft
<1>10. QED BY <1>2, <1>6, <1>7, <1>8, <1>9, TransferSafe

LEMMA WritingSafe ==
    ASSUME Invariants, NEW t \in Threads, TransferArrayToDevice(t)
    PROVE  ClientsOK'
<1> DEFINE r == transfer[t]
           s == r.shape
           n == r.node
           v == LiteralBytes(t, s, r.layout)
           q == [r EXCEPT !.pc = NextPc(t, s, "stored"), !.node = NextNode(t, s),
                          !.literal = IF n = Len(s) THEN None ELSE @]
<1>1. Facts(t, r, frame[t])
  BY KnownFacts
<1>2. /\ transfer' = [transfer EXCEPT ![t] = q]
      /\ UNCHANGED <<executable, frame>> /\ r.pc = "writing"
      /\ memory' = IF s[n].tuple
                     THEN memory
                     ELSE [memory EXCEPT ![r.buffers[n]] =
                             Sent(r.literal, n, r.layout)]
  BY <1>1, Fields DEF Facts, TransferArrayToDevice, At
<1>3. /\ q.pc = IF n = Len(s) THEN "stored" ELSE "writing"
      /\ q.node = IF n = Len(s) THEN 1 ELSE n + 1
      /\ q.literal = IF n = Len(s) THEN None ELSE r.literal
      /\ q.shape = s /\ q.layout = r.layout
      /\ q.buffers = r.buffers /\ q.ofResult = r.ofResult /\ q.read = r.read
  BY <1>1, <1>2, Fields DEF Facts, NextPc, NextNode
<1> HIDE DEF q
<1>4. /\ Device!WellFormed(s) /\ Len(r.buffers) = Len(s)
      /\ n \in 1 .. Len(s) /\ r.literal.shape = s
      /\ Tables(s, r.buffers, memory, Len(s) + 1)
      /\ Arrays(s, r.buffers, memory, n, v)
      /\ Len(s) \in Nat \ {0} /\ DOMAIN s = 1 .. Len(s)
  BY <1>1, <1>2, TransferAssumption, Trees DEF Facts, Typed, Written
<1>5. Sent(r.literal, n, r.layout) = v[n]
  <2>1. r.literal \in LiteralsOf(t)
    BY <1>1, <1>2 DEF Facts, Typed
  <2>2. r.literal.value = t
    BY <2>1 DEF LiteralsOf
  <2>3. QED BY <1>4, <2>2 DEF Sent, LiteralBytes
<1> HIDE DEF v
<1>6. /\ Arrays(s, r.buffers, memory', n + 1, v)
      /\ Tables(s, r.buffers, memory', Len(s) + 1)
      /\ OthersLeft(r.buffers, memory, memory')
  <2> DEFINE b == r.buffers
             w == memory'
  <2>1. /\ DOMAIN memory = Addrs /\ OfTree(s, b) /\ Tables(s, b, memory, Len(s) + 1)
        /\ Arrays(s, b, memory, n, v)
        /\ Given(s, b, memory, n, v[n], w, FALSE)
    BY <1>1, <1>2, <1>4, <1>5, Trees DEF Facts, OfTree, Given
  <2>2. /\ Arrays(s, b, w, n + 1, v) /\ Tables(s, b, w, Len(s) + 1)
        /\ OthersLeft(b, memory, w)
    <3> HIDE DEF s, n, b, w
    <3> QED BY <1>4, <2>1, ArraysGrow
  <2>3. QED BY <2>2
<1>7. Written(t, q, memory')
  <2>1. n # Len(s) => n + 1 \in 1 .. Len(s)
    BY <1>4
  <2>2. QED BY <1>3, <1>4, <1>6, <2>1 DEF Written, v
<1>8. Fetched(t, q, frame[t], executable)
  BY <1>1, <1>2, <1>3, NothingRead DEF Facts
<1>9. frame[t].pc \notin Active
  BY <1>1, <1>2 DEF Facts, Active
<1>10. \A a \in Addrs \ Stored(t) : memory'[a] = memory[a]
  BY <1>1, <1>6 DEF Facts, OthersLeft
<1>11. QED BY <1>2, <1>7, <1>8, <1>9, <1>10, TransferSafe

\* What is read grows by a node.
LEMMA ReadGrows ==
    ASSUME NEW s, NEW v, NEW k \in Nat
    PROVE  /\ ReadBytes(s, v, 0) = <<>>
           /\ Len(ReadBytes(s, v, k)) = k
           /\ Append(ReadBytes(s, v, k), IF s[k + 1].tuple THEN Device!Unwritten
                                                          ELSE v[k + 1])
                = ReadBytes(s, v, k + 1)
<1> DEFINE g(n) == IF s[n].tuple THEN Device!Unwritten ELSE v[n]
           old == [n \in 1 .. k |-> g(n)]
<1>1. ReadBytes(s, v, 0) = <<>>
  BY DEF ReadBytes
<1>2. /\ ReadBytes(s, v, k) = old /\ ReadBytes(s, v, k + 1) = [n \in 1 .. k + 1 |-> g(n)]
  BY DEF ReadBytes
<1> HIDE DEF g
<1>3. old \in Seq({g(n) : n \in 1 .. k}) /\ Len(old) = k
  OBVIOUS
<1>4. Append(old, g(k + 1)) = [n \in 1 .. k + 1 |-> g(n)]
  BY <1>3
<1>5. QED BY <1>1, <1>2, <1>3, <1>4 DEF g

\* What is read is there.
LEMMA SourceThere ==
    ASSUME NEW t \in Threads, Facts(t, transfer[t], frame[t]), transfer[t].pc = "reading"
    PROVE  LET source == Source(t, transfer[t], executable)
               s == source.shape
           IN  /\ SourceShape(t) = s /\ Len(s) \in Nat \ {0} /\ DOMAIN s = 1 .. Len(s)
               /\ Arrays(s, SourceBuffers(t), memory, Len(s) + 1, source.bytes)
<1> DEFINE r == transfer[t]
           e == executable
<1>1. /\ r.ofResult \in BOOLEAN /\ (r.ofResult => frame[t].pc = "returned")
      /\ Device!WellFormed(r.shape) /\ Device!WellFormed(e.shape)
      /\ Device!shape = e.shape
  BY TransferAssumption DEF Facts, Fetched, Typed, Device!shape
<1>2. CASE r.ofResult
  <2>1. Arrays(e.shape, frame[t].buffers, memory, Len(e.shape) + 1, ResultBytes(t, e))
    BY <1>1, <1>2 DEF Facts, Executing
  <2>2. QED BY <1>1, <1>2, <2>1, Trees DEF Source, SourceShape, SourceBuffers
<1>3. CASE ~r.ofResult
  <2>1. Arrays(r.shape, r.buffers, memory, Len(r.shape) + 1,
               LiteralBytes(t, r.shape, r.layout))
    BY DEF Facts, Written
  <2>2. QED BY <1>1, <1>3, <2>1, Trees DEF Source, SourceShape, SourceBuffers
<1>4. QED BY <1>1, <1>2, <1>3

LEMMA ReadingStarts ==
    ASSUME Invariants, NEW t \in Threads, NEW ofResult \in BOOLEAN,
           TransferLiteralFromDevice(t, ofResult)
    PROVE  ClientsOK'
<1> DEFINE r == transfer[t]
           q == [r EXCEPT !.pc = "reading", !.ofResult = ofResult]
<1>1. Facts(t, r, frame[t])
  BY KnownFacts
<1>2. /\ transfer' = [transfer EXCEPT ![t] = q]
      /\ UNCHANGED <<executable, memory, frame>> /\ r.pc = "stored"
      /\ frame[t].pc \in {"idle", "returned"}
      /\ ofResult => frame[t].pc = "returned"
  BY <1>1, Fields DEF Facts, TransferLiteralFromDevice, device, Sequential, At
<1>3. /\ q.pc = "reading" /\ q.ofResult = ofResult
      /\ q.literal = r.literal /\ q.shape = r.shape /\ q.layout = r.layout
      /\ q.buffers = r.buffers /\ q.node = r.node /\ q.read = r.read
  BY <1>1, Fields DEF Facts
<1> HIDE DEF q
<1>4. Written(t, q, memory')
  BY <1>1, <1>2, <1>3 DEF Facts, Written
<1>5. Fetched(t, q, frame[t], executable)
  <2> DEFINE source == Source(t, q, executable)
             N == Len(source.shape)
  <2>1. q.node = 1 /\ q.read = <<>>
    BY <1>1, <1>2, <1>3 DEF Facts, Written, Fetched
  <2>2. N \in Nat
    BY <1>1, <1>2, <1>3, TransferAssumption, Trees DEF Source, Facts, Typed
  <2>3. \E k \in 0 .. N : /\ q.read = ReadBytes(source.shape, source.bytes, k)
                          /\ q.node = IF k = N THEN 1 ELSE k + 1
    <3>1. 0 \in 0 .. N /\ ReadBytes(source.shape, source.bytes, 0) = <<>>
      BY <2>2, ReadGrows
    <3>2. WITNESS 0 \in 0 .. N
    <3>3. QED BY <2>1, <3>1
  <2>4. QED BY <1>2, <1>3, <2>3 DEF Fetched
<1>6. frame[t].pc \notin Active
  BY <1>2 DEF Active
<1>7. QED BY <1>2, <1>4, <1>5, <1>6, TransferSafe

LEMMA ReadingSafe ==
    ASSUME Invariants, NEW t \in Threads, TransferArrayFromDevice(t)
    PROVE  ClientsOK'
<1> DEFINE r == transfer[t]
           source == Source(t, r, executable)
           s == source.shape
           v == source.bytes
           next == IF s[r.node].tuple THEN Device!Unwritten
                                      ELSE memory[SourceBuffers(t)[r.node]]
           q == [r EXCEPT !.node = NextNode(t, s), !.read = Append(@, next)]
<1>1. Facts(t, r, frame[t]) /\ r.pc = "reading"
  BY KnownFacts DEF TransferArrayFromDevice, Reading, At
<1>2. /\ SourceShape(t) = s /\ Len(s) \in Nat \ {0} /\ DOMAIN s = 1 .. Len(s)
      /\ Arrays(s, SourceBuffers(t), memory, Len(s) + 1, v)
  BY <1>1, SourceThere
<1>3. /\ transfer' = [transfer EXCEPT ![t] = q]
      /\ UNCHANGED <<executable, memory, frame>>
      /\ Len(r.read) < Len(s)
  BY <1>1, <1>2, Fields DEF Facts, TransferArrayFromDevice, Reading, device
<1>4. /\ q.node = (IF r.node = Len(s) THEN 1 ELSE r.node + 1)
      /\ q.read = Append(r.read, next) /\ q.pc = r.pc /\ q.ofResult = r.ofResult
      /\ q.literal = r.literal /\ q.shape = r.shape /\ q.layout = r.layout
      /\ q.buffers = r.buffers
  BY <1>1, Fields DEF Facts, NextNode
<1> HIDE DEF q
<1>5. PICK k \in 0 .. Len(s) : /\ r.read = ReadBytes(s, v, k)
                               /\ r.node = IF k = Len(s) THEN 1 ELSE k + 1
  BY <1>1 DEF Facts, Fetched
<1>6. /\ k \in 0 .. Len(s) - 1 /\ r.node = k + 1 /\ k + 1 \in 1 .. Len(s)
      /\ k \in Nat /\ (r.node = Len(s) <=> k + 1 = Len(s))
  <2>1. Len(r.read) = k
    BY <1>5, ReadGrows
  <2>2. k < Len(s)
    BY <1>3, <2>1
  <2>3. QED BY <1>2, <1>5, <2>2
<1>7. next = IF s[k + 1].tuple THEN Device!Unwritten ELSE v[k + 1]
  BY <1>2, <1>6 DEF Arrays
<1> HIDE DEF next
<1>8. q.read = ReadBytes(s, v, k + 1)
  <2> HIDE DEF s, v
  <2>1. Append(ReadBytes(s, v, k), IF s[k + 1].tuple THEN Device!Unwritten
                                                     ELSE v[k + 1])
          = ReadBytes(s, v, k + 1)
    BY <1>6, ReadGrows
  <2>2. QED BY <1>4, <1>5, <1>7, <2>1
<1>9. Source(t, q, executable) = source
  BY <1>4 DEF Source
<1>10. Fetched(t, q, frame[t], executable)
  <2>1. k + 1 \in 0 .. Len(s)
    BY <1>2, <1>6
  <2>2. q.node = IF k + 1 = Len(s) THEN 1 ELSE (k + 1) + 1
    BY <1>4, <1>6
  <2>3. \E j \in 0 .. Len(s) : /\ q.read = ReadBytes(s, v, j)
                               /\ q.node = IF j = Len(s) THEN 1 ELSE j + 1
    BY <1>8, <2>1, <2>2
  <2> HIDE DEF source
  <2>4. QED BY <1>1, <1>4, <1>9, <2>3 DEF Facts, Fetched
<1>11. Written(t, q, memory')
  BY <1>1, <1>3, <1>4 DEF Facts, Written
<1>12. frame[t].pc \notin Active
  BY <1>1 DEF Facts, Active
<1>13. QED BY <1>3, <1>10, <1>11, <1>12, TransferSafe

LEMMA ReadingEnds ==
    ASSUME Invariants, NEW t \in Threads, LiteralDone(t)
    PROVE  ClientsOK'
<1> DEFINE r == transfer[t]
           q == [r EXCEPT !.pc = "stored", !.ofResult = FALSE, !.read = <<>>]
           s == Source(t, r, executable).shape
           v == Source(t, r, executable).bytes
<1>1. Facts(t, r, frame[t]) /\ r.pc = "reading"
  BY KnownFacts DEF LiteralDone, At
<1>2. /\ transfer' = [transfer EXCEPT ![t] = q]
      /\ UNCHANGED <<executable, memory, frame>> /\ ~(Len(r.read) < Len(s))
  BY <1>1, SourceThere, Fields DEF Facts, LiteralDone, Reading, At, device
<1>3. /\ q.pc = "stored" /\ q.ofResult = FALSE /\ q.read = <<>>
      /\ q.literal = r.literal /\ q.shape = r.shape /\ q.layout = r.layout
      /\ q.buffers = r.buffers /\ q.node = r.node
  BY <1>1, Fields DEF Facts
<1> HIDE DEF q
<1>4. q.node = 1
  <2>1. PICK k \in 0 .. Len(s) : /\ r.read = ReadBytes(s, v, k)
                                 /\ r.node = IF k = Len(s) THEN 1 ELSE k + 1
    BY <1>1 DEF Facts, Fetched
  <2>2. Len(s) \in Nat /\ Len(r.read) = k
    BY <1>1, <2>1, SourceThere, ReadGrows
  <2>3. k = Len(s)
    <3> DEFINE last == Len(s)
    <3>1. last \in Nat /\ k \in 0 .. last /\ ~(k < last)
      BY <1>2, <2>2
    <3> HIDE DEF last
    <3>2. k = last
      BY <3>1
    <3>3. QED BY <3>2 DEF last
  <2>4. QED BY <1>3, <2>1, <2>3
<1>5. Written(t, q, memory') /\ Fetched(t, q, frame[t], executable)
  BY <1>1, <1>2, <1>3, <1>4 DEF Facts, Written, Fetched
<1>6. frame[t].pc \notin Active
  BY <1>1 DEF Facts, Active
<1>7. QED BY <1>2, <1>5, <1>6, TransferSafe

-----------------------------------------------------------------------------
(* The steps of an execution *)

LEMMA InputsGrow ==
    ASSUME NEW t, NEW k \in Nat
    PROVE  /\ InputBytes(t, 0) = <<>>
           /\ Len(InputBytes(t, k)) = k
           /\ Append(InputBytes(t, k), Bytes(1, t, DefaultLayout))
                = InputBytes(t, k + 1)
<1> DEFINE x == Bytes(1, t, DefaultLayout)
           old == [p \in 1 .. k |-> x]
<1>1. /\ InputBytes(t, 0) = <<>> /\ InputBytes(t, k) = old
      /\ InputBytes(t, k + 1) = [p \in 1 .. k + 1 |-> x]
  BY DEF InputBytes
<1> HIDE DEF x
<1>2. old \in Seq({x}) /\ Len(old) = k
  OBVIOUS
<1>3. Append(old, x) = [p \in 1 .. k + 1 |-> x]
  BY <1>2
<1>4. QED BY <1>1, <1>2, <1>3 DEF x

\* The module's tree.
LEMMA Module ==
    ASSUME executable \in Executables
    PROVE  /\ Device!shape = executable.shape
           /\ Device!parameters = executable.parameters
           /\ executable.parameters \in Nat
           /\ Device!WellFormed(executable.shape)
           /\ Len(executable.shape) \in Nat \ {0}
           /\ DOMAIN executable.shape = 1 .. Len(executable.shape)
BY TransferAssumption, Trees DEF Device!shape, Device!parameters

LEMMA ExecutionStarts ==
    ASSUME Invariants, NEW t \in Threads, ExecuteOnStream(t)
    PROVE  ClientsOK'
<1> DEFINE r == transfer[t]
           f == frame[t]
           e == executable
           arguments == [p \in 1 .. e.parameters |-> r.buffers[1]]
           q == [f EXCEPT !.arguments = arguments, !.pc = "preparing"]
<1>1. Facts(t, r, f)
  BY KnownFacts
<1>2. /\ e.parameters \in Nat /\ Len(e.shape) \in Nat \ {0}
      /\ Device!parameters = e.parameters /\ Len(arguments) = e.parameters
  BY <1>1, Module DEF Facts
<1>3. /\ frame' = [frame EXCEPT ![t] = q]
      /\ UNCHANGED <<transfer, executable, memory>> /\ f.pc = "idle"
      /\ r.pc = "stored" /\ ~r.shape[1].tuple /\ r.layout = DefaultLayout
  <2> HIDE DEF e
  <2>1. Device!ExecuteOnStream(t, arguments)
    BY <1>2 DEF ExecuteOnStream
  <2>2. QED BY <1>1, <1>2, <2>1, Fields
        DEF Facts, ExecuteOnStream, Device!ExecuteOnStream, Device!At, At
<1>4. f = Device!NoFrame
  BY <1>1, <1>3 DEF Facts, Executing
<1>5. /\ q.pc = "preparing" /\ q.arguments = arguments /\ q.inputs = <<>>
      /\ q.buffers = <<>> /\ q.tensors = <<>> /\ q.node = 1 /\ q.i = 1
  BY <1>4 DEF Device!NoFrame
<1> HIDE DEF q
<1>6. /\ InputBytes(t, 0) = <<>> /\ 0 \in 0 .. e.parameters
      /\ Arrayed(e, 1) = 0 /\ 1 \in 1 .. Len(e.shape)
      /\ <<>> \in Seq({Device!Unwritten})
  BY <1>1, <1>2, InputsGrow, ArraysCounted DEF Facts
<1>7. Executing(t, r, q, memory', e)
  BY <1>3, <1>5, <1>6 DEF Executing, Device!Steps
<1>8. QED BY <1>3, <1>7, ExecutionSafe

LEMMA InputSafe ==
    ASSUME Invariants, NEW t \in Threads, transfer' = transfer,
           Device!CreateInputTensorView(t)
    PROVE  ClientsOK'
<1> DEFINE r == transfer[t]
           f == frame[t]
           e == executable
           input == memory[f.arguments[Len(f.inputs) + 1]]
           q == [f EXCEPT !.inputs = Append(@, input)]
<1>1. Facts(t, r, f)
  BY KnownFacts
<1>2. /\ frame' = [frame EXCEPT ![t] = q]
      /\ UNCHANGED <<executable, memory>> /\ f.pc = "preparing"
      /\ Len(f.inputs) + 1 <= e.parameters
  BY <1>1, Module, Fields DEF Facts, Device!CreateInputTensorView, Device!At
<1>3. /\ q.inputs = Append(f.inputs, input) /\ q.pc = f.pc
      /\ q.arguments = f.arguments /\ q.buffers = f.buffers
      /\ q.tensors = f.tensors /\ q.node = f.node /\ q.i = f.i
  BY <1>1, Fields DEF Facts
<1> HIDE DEF q
<1>4. PICK k \in 0 .. e.parameters : f.inputs = InputBytes(t, k)
  BY <1>1, <1>2 DEF Facts, Executing
<1>5. k \in Nat /\ k + 1 \in 0 .. e.parameters /\ k + 1 \in 1 .. e.parameters
        /\ Len(f.inputs) = k
  <2>1. k \in Nat /\ Len(f.inputs) = k /\ e.parameters \in Nat
    BY <1>1, <1>4, InputsGrow, Module DEF Facts
  <2>2. QED BY <1>2, <2>1
<1>6. input = Bytes(1, t, DefaultLayout)
  <2>1. /\ f.arguments = [p \in 1 .. e.parameters |-> r.buffers[1]]
        /\ r.pc = "stored" /\ ~r.shape[1].tuple /\ r.layout = DefaultLayout
    BY <1>1, <1>2 DEF Facts, Executing, Active
  <2>2. input = memory[r.buffers[1]]
    BY <1>5, <2>1
  <2>3. Device!WellFormed(r.shape)
    BY <1>1, <2>1, TransferAssumption DEF Facts, Typed
  <2>4. /\ 1 \in DOMAIN r.shape /\ 1 < Len(r.shape) + 1
    BY <2>3, Trees
  <2>5. memory[r.buffers[1]] = LiteralBytes(t, r.shape, r.layout)[1]
    BY <1>1, <2>1, <2>4 DEF Facts, Written, Arrays
  <2>6. QED BY <2>1, <2>2, <2>4, <2>5 DEF LiteralBytes
<1> HIDE DEF input
<1>7. q.inputs = InputBytes(t, k + 1)
  BY <1>3, <1>4, <1>5, <1>6, InputsGrow
<1>8. Executing(t, r, q, memory', e)
  BY <1>1, <1>2, <1>3, <1>5, <1>7 DEF Facts, Executing, Active
<1>9. r.pc = "stored"
  BY <1>1, <1>2 DEF Facts
<1>10. QED BY <1>2, <1>8, <1>9, ExecutionSafe

LEMMA BufferSafe ==
    ASSUME Invariants, NEW t \in Threads, transfer' = transfer,
           NEW a \in Addrs, Device!AllocateBuffer(t, a)
    PROVE  ClientsOK'
<1> DEFINE r == transfer[t]
           f == frame[t]
           e == executable
           s == e.shape
           n == f.node
           q == [f EXCEPT !.pc = Device!NextPc(t, "pointing"),
                          !.node = Device!NextNode(t),
                          !.buffers = Append(@, a),
                          !.tensors = IF s[n].tuple
                                        THEN @ ELSE Append(@, Device!Unwritten)]
<1>1. Facts(t, r, f)
  BY KnownFacts
<1>2. /\ Len(s) \in Nat \ {0} /\ e.parameters \in Nat /\ DOMAIN s = 1 .. Len(s)
      /\ Device!shape = s /\ Device!parameters = e.parameters
  BY <1>1, Module DEF Facts
<1>3. /\ frame' = [frame EXCEPT ![t] = q]
      /\ UNCHANGED <<executable, memory>> /\ f.pc = "preparing"
      /\ Len(f.inputs) = e.parameters
  BY <1>1, <1>2, Fields DEF Facts, Device!AllocateBuffer, Device!Allocating, Device!At
<1>4. /\ q.pc = IF n = Len(s) THEN "pointing" ELSE "preparing"
      /\ q.node = IF n = Len(s) THEN 1 ELSE n + 1
      /\ q.buffers = Append(f.buffers, a)
      /\ q.tensors = IF s[n].tuple THEN f.tensors
                                   ELSE Append(f.tensors, Device!Unwritten)
      /\ q.arguments = f.arguments /\ q.inputs = f.inputs /\ q.i = f.i
  BY <1>1, <1>2, <1>3, Fields DEF Facts, Device!NextPc, Device!NextNode
<1> HIDE DEF q
<1>5. PICK k \in 0 .. e.parameters : f.inputs = InputBytes(t, k)
  BY <1>1, <1>3 DEF Facts, Executing
<1>6. f.inputs = InputBytes(t, e.parameters) /\ e.parameters \in 0 .. e.parameters
  BY <1>2, <1>3, <1>5, InputsGrow
<1>7. /\ n \in 1 .. Len(s) /\ Len(f.buffers) = n - 1 /\ f.buffers \in Seq(Addrs)
      /\ f.tensors \in Seq({Device!Unwritten}) /\ Len(f.tensors) = Arrayed(e, n)
      /\ f.i = 1
  BY <1>1, <1>3 DEF Facts, Executing, Active
<1>8. Len(q.buffers) = n
  BY <1>4, <1>7
<1>9. q.tensors \in Seq({Device!Unwritten}) /\ Len(q.tensors) = Arrayed(e, n + 1)
  <2> DEFINE before == Arrayed(e, n)
             after == Arrayed(e, n + 1)
  <2>1. before \in Nat /\ after = IF s[n].tuple THEN before ELSE before + 1
    BY <1>1, <1>2, <1>7, ArraysCounted DEF Facts
  <2>2. Len(f.tensors) = before
    BY <1>7
  <2> HIDE DEF before, after
  <2>3. q.tensors \in Seq({Device!Unwritten}) /\ Len(q.tensors) = after
    BY <1>4, <1>7, <2>1, <2>2
  <2>4. QED BY <2>3 DEF after
<1>10. /\ r.pc = "stored" /\ ~r.shape[1].tuple /\ r.layout = DefaultLayout
       /\ f.arguments = [p \in 1 .. e.parameters |-> r.buffers[1]]
  BY <1>1, <1>3 DEF Facts, Executing, Active
<1>11. Executing(t, r, q, memory', e)
  <2>1. CASE n = Len(s)
    <3>1. /\ q.pc = "pointing" /\ q.node = 1 /\ Len(q.buffers) = Len(s) /\ q.i = 1
          /\ DOMAIN q.tensors = 1 .. Arrayed(e, Len(s) + 1)
          /\ 1 \in 1 .. Len(s) /\ \A j \in DOMAIN s : ~(j < 1)
      BY <1>2, <1>4, <1>7, <1>8, <1>9, <2>1
    <3>2. QED BY <1>4, <1>6, <1>10, <3>1 DEF Executing, Active, Tables, Device!Steps
  <2>2. CASE n # Len(s)
    <3>1. /\ q.pc = "preparing" /\ q.node = n + 1 /\ Len(q.buffers) = q.node - 1
          /\ q.i = 1 /\ q.node \in 1 .. Len(s)
      BY <1>2, <1>4, <1>7, <1>8, <2>2
    <3>2. QED BY <1>4, <1>6, <1>9, <1>10, <3>1 DEF Executing, Active, Device!Steps
  <2>3. QED BY <2>1, <2>2
<1>12. QED BY <1>3, <1>10, <1>11, ExecutionSafe

LEMMA FailureSafe ==
    ASSUME Invariants, NEW t \in Threads, transfer' = transfer,
           Device!AllocationFails(t)
    PROVE  ClientsOK'
<1> DEFINE f == frame[t]
           q == [f EXCEPT !.pc = "failed"]
<1>1. Facts(t, transfer[t], f)
  BY KnownFacts
<1>2. /\ frame' = [frame EXCEPT ![t] = q]
      /\ UNCHANGED <<executable, memory>> /\ f.pc = "preparing"
  BY <1>1, Fields
  DEF Facts, Device!AllocationFails, Device!Allocating, Device!At
<1>3. q.pc = "failed"
  BY <1>1, Fields DEF Facts
<1> HIDE DEF q
<1>4. Executing(t, transfer[t], q, memory', executable)
  BY <1>3 DEF Executing, Active, Device!Steps
<1>5. transfer[t].pc = "stored"
  BY <1>1, <1>2 DEF Facts
<1>6. QED BY <1>2, <1>4, <1>5, ExecutionSafe

LEMMA PointersSafe ==
    ASSUME Invariants, NEW t \in Threads, transfer' = transfer, Device!SetPointers(t)
    PROVE  ClientsOK'
<1> DEFINE r == transfer[t]
           f == frame[t]
           e == executable
           s == e.shape
           n == f.node
           q == [f EXCEPT !.pc = Device!NextPc(t, "calling"),
                          !.node = Device!NextNode(t)]
<1>1. Facts(t, r, f)
  BY KnownFacts
<1>2. /\ Device!WellFormed(s) /\ Len(s) \in Nat \ {0} /\ DOMAIN s = 1 .. Len(s)
      /\ Device!shape = s
  BY <1>1, Module DEF Facts
<1>3. /\ frame' = [frame EXCEPT ![t] = q]
      /\ executable' = executable /\ f.pc = "pointing"
      /\ memory' = IF s[n].tuple
                     THEN [memory EXCEPT ![f.buffers[n]] = Pointers(s, f.buffers, n)]
                     ELSE memory
  BY <1>1, <1>2, Fields DEF Facts, Device!SetPointers, Device!At, Pointers
<1>4. /\ q.pc = IF n = Len(s) THEN "calling" ELSE "pointing"
      /\ q.node = IF n = Len(s) THEN 1 ELSE n + 1
      /\ q.arguments = f.arguments /\ q.inputs = f.inputs /\ q.buffers = f.buffers
      /\ q.tensors = f.tensors /\ q.i = f.i
  BY <1>1, <1>2, <1>3, Fields DEF Facts, Device!NextPc, Device!NextNode
<1> HIDE DEF q
<1>5. /\ n \in 1 .. Len(s) /\ OfTree(s, f.buffers)
      /\ Tables(s, f.buffers, memory, n)
      /\ r.pc = "stored" /\ ~r.shape[1].tuple /\ r.layout = DefaultLayout
      /\ f.arguments = [p \in 1 .. e.parameters |-> r.buffers[1]]
      /\ f.inputs = InputBytes(t, e.parameters) /\ Len(f.buffers) = Len(s)
      /\ DOMAIN f.tensors = 1 .. Arrayed(e, Len(s) + 1) /\ f.i = 1
  BY <1>1, <1>3 DEF Facts, Executing, Active, OfTree
<1>6. /\ Tables(s, f.buffers, memory', n + 1)
      /\ OthersLeft(f.buffers, memory, memory')
  <2> DEFINE b == f.buffers
             w == memory'
  <2>1. /\ DOMAIN memory = Addrs /\ OfTree(s, b) /\ Tables(s, b, memory, n)
        /\ Given(s, b, memory, n, Pointers(s, b, n), w, TRUE)
    BY <1>1, <1>2, <1>3, <1>5, Trees DEF Facts, Given
  <2>2. Tables(s, b, w, n + 1) /\ OthersLeft(b, memory, w)
    <3> HIDE DEF s, n, b, w
    <3> QED BY <1>2, <1>5, <2>1, TablesGrow
  <2>3. QED BY <2>2
<1>7. Executing(t, r, q, memory', e)
  <2>1. 1 \in 1 .. Len(s) /\ (n # Len(s) => n + 1 \in 1 .. Len(s))
    BY <1>2, <1>5
  <2>2. QED BY <1>4, <1>5, <1>6, <2>1 DEF Executing, Active, Device!Steps
<1>8. \A a \in Addrs \ Returned(t) : memory'[a] = memory[a]
  BY <1>1, <1>6 DEF Facts, OthersLeft
<1>9. QED BY <1>3, <1>5, <1>7, <1>8, ExecutionSafe

LEMMA CallSafe ==
    ASSUME Invariants, NEW t \in Threads, transfer' = transfer, Device!Call(t)
    PROVE  ClientsOK'
<1> DEFINE r == transfer[t]
           f == frame[t]
           e == executable
           s == e.shape
           results == [k \in DOMAIN f.tensors |->
                          Device!ResultOf(Device!Results(s)[k], f.inputs)]
           q == [f EXCEPT !.tensors = results, !.pc = "copying"]
<1>1. Facts(t, r, f)
  BY KnownFacts
<1>2. Device!shape = s /\ Len(s) \in Nat \ {0} /\ DOMAIN s = 1 .. Len(s)
  BY <1>1, Module DEF Facts
<1>3. /\ frame' = [frame EXCEPT ![t] = q]
      /\ UNCHANGED <<executable, memory>> /\ f.pc = "calling"
  BY <1>1, <1>2, Fields DEF Facts, Device!Call, Device!At
<1>4. /\ q.pc = "copying" /\ q.tensors = results
      /\ q.arguments = f.arguments /\ q.inputs = f.inputs /\ q.buffers = f.buffers
      /\ q.node = f.node /\ q.i = f.i
  BY <1>1, Fields DEF Facts
<1> HIDE DEF q
<1>5. /\ f.node = 1 /\ Tables(s, f.buffers, memory, Len(s) + 1)
      /\ r.pc = "stored" /\ ~r.shape[1].tuple /\ r.layout = DefaultLayout
      /\ f.arguments = [p \in 1 .. e.parameters |-> r.buffers[1]]
      /\ f.inputs = InputBytes(t, e.parameters) /\ Len(f.buffers) = Len(s)
      /\ DOMAIN f.tensors = 1 .. Arrayed(e, Len(s) + 1) /\ f.i = 1
  BY <1>1, <1>3 DEF Facts, Executing, Active
<1>6. /\ 1 \in 1 .. Len(s) /\ f.i = Arrayed(e, f.node) + 1
      /\ \A v : Arrays(s, f.buffers, memory, f.node, v)
  <2>1. Arrayed(e, 1) = 0 /\ \A n \in DOMAIN s : ~(n < 1)
    BY <1>1, <1>2, ArraysCounted DEF Facts
  <2>2. QED BY <1>2, <1>5, <2>1 DEF Arrays
<1>7. Executing(t, r, q, memory', e)
  BY <1>3, <1>4, <1>5, <1>6 DEF Executing, Active, Device!Steps
<1>8. QED BY <1>3, <1>5, <1>7, ExecutionSafe

LEMMA CopySafe ==
    ASSUME Invariants, NEW t \in Threads, transfer' = transfer, Device!CopyBack(t)
    PROVE  ClientsOK'
<1> DEFINE r == transfer[t]
           f == frame[t]
           e == executable
           s == e.shape
           n == f.node
           v == ResultBytes(t, e)
           q == [f EXCEPT !.pc = Device!NextPc(t, "returned"),
                          !.node = Device!NextNode(t),
                          !.i = IF s[n].tuple THEN @ ELSE @ + 1]
<1>1. Facts(t, r, f)
  BY KnownFacts
<1>2. /\ Device!WellFormed(s) /\ Len(s) \in Nat \ {0} /\ DOMAIN s = 1 .. Len(s)
      /\ Device!shape = s
  BY <1>1, Module DEF Facts
<1>3. /\ frame' = [frame EXCEPT ![t] = q]
      /\ executable' = executable /\ f.pc = "copying"
      /\ memory' = IF s[n].tuple
                     THEN memory
                     ELSE [memory EXCEPT ![f.buffers[n]] = f.tensors[f.i]]
  BY <1>1, <1>2, Fields DEF Facts, Device!CopyBack, Device!At
<1>4. /\ q.pc = IF n = Len(s) THEN "returned" ELSE "copying"
      /\ q.node = IF n = Len(s) THEN 1 ELSE n + 1
      /\ q.i = IF s[n].tuple THEN f.i ELSE f.i + 1
      /\ q.arguments = f.arguments /\ q.inputs = f.inputs /\ q.buffers = f.buffers
      /\ q.tensors = f.tensors
  BY <1>1, <1>2, <1>3, Fields DEF Facts, Device!NextPc, Device!NextNode
<1> HIDE DEF q
<1>5. /\ n \in 1 .. Len(s) /\ OfTree(s, f.buffers)
      /\ Tables(s, f.buffers, memory, Len(s) + 1)
      /\ Arrays(s, f.buffers, memory, n, v)
      /\ r.pc = "stored" /\ ~r.shape[1].tuple /\ r.layout = DefaultLayout
      /\ f.arguments = [p \in 1 .. e.parameters |-> r.buffers[1]]
      /\ f.inputs = InputBytes(t, e.parameters) /\ Len(f.buffers) = Len(s)
      /\ f.tensors = [k \in 1 .. Arrayed(e, Len(s) + 1) |->
                         Device!ResultOf(Device!Results(s)[k], f.inputs)]
      /\ f.i = Arrayed(e, n) + 1
  BY <1>1, <1>3 DEF Facts, Executing, Active, OfTree
<1>6. ~s[n].tuple => f.tensors[f.i] = v[n]
  <2>1. ~s[n].tuple => /\ f.i \in 1 .. Arrayed(e, Len(s) + 1)
                       /\ Device!Results(s)[f.i] = n
    BY <1>1, <1>2, <1>5, ArraysCounted DEF Facts
  <2>2. QED BY <1>2, <1>5, <2>1 DEF ResultBytes
<1>7. q.i = Arrayed(e, n + 1) + 1
  <2>1. Arrayed(e, n) \in Nat
          /\ Arrayed(e, n + 1) = IF s[n].tuple THEN Arrayed(e, n) ELSE Arrayed(e, n) + 1
    BY <1>1, <1>2, <1>5, ArraysCounted DEF Facts
  <2>2. QED BY <1>4, <1>5, <2>1
<1>8. /\ Arrays(s, f.buffers, memory', n + 1, v)
      /\ Tables(s, f.buffers, memory', Len(s) + 1)
      /\ OthersLeft(f.buffers, memory, memory')
  <2> DEFINE b == f.buffers
             w == memory'
  <2>1. /\ DOMAIN memory = Addrs /\ OfTree(s, b) /\ Tables(s, b, memory, Len(s) + 1)
        /\ Arrays(s, b, memory, n, v)
        /\ Given(s, b, memory, n, v[n], w, FALSE)
    <3>1. s[n].tuple \in BOOLEAN
      BY <1>2, <1>5, Trees
    <3>2. Given(s, b, memory, n, v[n], w, FALSE)
      BY <1>3, <1>6, <3>1 DEF Given
    <3>3. QED BY <1>1, <1>5, <3>2 DEF Facts
  <2>2. /\ Arrays(s, b, w, n + 1, v) /\ Tables(s, b, w, Len(s) + 1)
        /\ OthersLeft(b, memory, w)
    <3> HIDE DEF s, n, b, w, v
    <3> QED BY <1>2, <1>5, <2>1, ArraysGrow
  <2>3. QED BY <2>2
<1>9. Executing(t, r, q, memory', e)
  <2>1. n # Len(s) => n + 1 \in 1 .. Len(s)
    BY <1>2, <1>5
  <2>2. CASE n = Len(s)
    <3>1. \E a \in Shapes : ~a[1].tuple
      BY <1>1, <1>5 DEF Facts, Typed
    <3>2. QED BY <1>4, <1>5, <1>8, <2>2, <3>1 DEF Executing, Active, Device!Steps
  <2>3. CASE n # Len(s)
    BY <1>4, <1>5, <1>7, <1>8, <2>1, <2>3 DEF Executing, Active, Device!Steps
  <2>4. QED BY <2>2, <2>3
<1>10. \A a \in Addrs \ Returned(t) : memory'[a] = memory[a]
  BY <1>1, <1>8 DEF Facts, OthersLeft
<1>11. QED BY <1>3, <1>5, <1>9, <1>10, ExecutionSafe

LEMMA ExecutionGone ==
    ASSUME Invariants, NEW t \in Threads, Release(t) \/ Dismiss(t)
    PROVE  ClientsOK'
<1>1. Facts(t, transfer[t], frame[t])
  BY KnownFacts
<1>2. /\ frame' = [frame EXCEPT ![t] = Device!NoFrame]
      /\ UNCHANGED <<transfer, executable>> /\ transfer[t].pc = "stored"
  BY <1>1 DEF Facts, Release, Dismiss, Device!Release, Device!Dismiss, Device!At, At
<1>3. \A a \in Addrs \ Returned(t) : memory'[a] = memory[a]
  <2>1. Device!Range(frame[t].buffers) = Returned(t)
    BY DEF Device!Range, Returned, Range
  <2>2. QED BY <2>1 DEF Release, Dismiss, Device!Release, Device!Dismiss
<1>4. Executing(t, transfer[t], Device!NoFrame, memory', executable)
  <2>1. Device!NoFrame.pc = "idle"
    BY DEF Device!NoFrame
  <2>2. QED BY <2>1 DEF Executing, Active, Device!Steps
<1>5. QED BY <1>2, <1>3, <1>4, ExecutionSafe

LEMMA ClientsStep == Invariants /\ [Next]_vars => ClientsOK'
<1> SUFFICES ASSUME Invariants, [Next]_vars PROVE ClientsOK'
  OBVIOUS
<1>1. ASSUME NEW t \in Threads, Execute(t)
      PROVE  ClientsOK'
  BY <1>1, InputSafe, BufferSafe, FailureSafe, PointersSafe, CallSafe, CopySafe
  DEF Execute, Device!Execute
<1>2. CASE UNCHANGED vars
  <2>1. UNCHANGED <<executable, memory, frame, transfer>>
    BY <1>2 DEF vars, device
  <2>2. \A t \in Threads : ClientOK(t, transfer[t], frame[t], memory, executable)'
    BY <2>1 DEF Invariants, ClientsOK
  <2>3. QED BY <2>1, <2>2 DEF Invariants, ClientsOK
<1>3. QED
  BY <1>1, <1>2, AllocationSafe, EndSafe, LiteralSafe, PointingSafe, WritingSafe,
     ReadingStarts, ReadingSafe, ReadingEnds, ExecutionStarts, ExecutionGone DEF Next

LEMMA InvariantsHold == Spec => []Invariants
<1>1. Init => ClientsOK
  <2> SUFFICES ASSUME Init PROVE ClientsOK
    OBVIOUS
  <2>1. /\ transfer = [t \in Threads |-> NoTransfer]
        /\ frame = [t \in Threads |-> Device!NoFrame]
        /\ executable \in Executables
    BY DEF Init, Device!Init
  <2>2. ASSUME NEW t \in Threads
        PROVE  ClientOK(t, NoTransfer, Device!NoFrame, memory, executable)
    BY DEF ClientOK, Written, Fetched, Executing, Active, NoTransfer,
           Device!NoFrame, Device!Steps
  <2>3. QED BY <2>1, <2>2 DEF ClientsOK
<1>2. Invariants /\ [Next]_vars => ClientsOK'
  BY ClientsStep
<1>3. QED
  BY <1>1, <1>2, OwnershipInvariant, TypeInvariant, PTL DEF Spec, Invariants

-----------------------------------------------------------------------------
(* The literal service *)

\* What a client has, and has got after a step.
Literals == {Literal(l) : l \in UNION {LiteralsOf(t) : t \in Threads}}
HeldBy(t) == HeldBar(t, transfer[t])
ResultBy(t) == ResultBar(t, frame[t], executable)
AnswerBy(t) == AnswerBar(t, transfer[t], executable)

\* A step of client t is one of the service, or none.
Move(t, h, r, a, h1, r1, a1) ==
    \/ h1 = h /\ r1 = r /\ a1 = a
    \/ h = None /\ h1 \in Literals /\ r1 = r /\ a1 = a
    \/ h # None /\ h1 = None /\ r1 = r /\ a1 = a
    \/ /\ h # None /\ IsArray(h) /\ r = None /\ r1 = Computed(executable, h)
       /\ h1 = h /\ a1 = a
    \/ r # None /\ r1 = None /\ h1 = h /\ a1 = a
    \/ a = None /\ a1 \in {h, r} \ {None} /\ h1 = h /\ r1 = r
    \/ a # None /\ a1 = None /\ h1 = h /\ r1 = r
Moves(t) ==
    /\ executable' = executable
    /\ \A u \in Threads \ {t} : transfer'[u] = transfer[u] /\ frame'[u] = frame[u]
    /\ Move(t, HeldBy(t), ResultBy(t), AnswerBy(t),
               HeldBy(t)', ResultBy(t)', AnswerBy(t)')

LEMMA MovesAreSteps ==
    ASSUME Mapping, Mapping', NEW t \in Threads, Moves(t)
    PROVE  [Service!Next]_(Service!vars)
<1> DEFINE held == [u \in Threads |-> HeldLiteral(u)]
           result == [u \in Threads |-> ReturnedResult(u)]
           answer == [u \in Threads |-> ReadLiteral(u)]
           h == HeldBy(t)
           r == ResultBy(t)
           a == AnswerBy(t)
           h1 == HeldBy(t)'
           r1 == ResultBy(t)'
           a1 == AnswerBy(t)'
           held1 == held'
           result1 == result'
           answer1 == answer'
<1>1. /\ held[t] = h /\ result[t] = r /\ answer[t] = a
      /\ DOMAIN held = Threads /\ DOMAIN result = Threads /\ DOMAIN answer = Threads
  BY DEF Mapping, HeldBy, ResultBy, AnswerBy
<1>2. \A u \in Threads :
         /\ HeldLiteral(u)' = IF u = t THEN h1 ELSE HeldLiteral(u)
         /\ ReturnedResult(u)' = IF u = t THEN r1 ELSE ReturnedResult(u)
         /\ ReadLiteral(u)' = IF u = t THEN a1 ELSE ReadLiteral(u)
  BY DEF Mapping, Moves, HeldBy, ResultBy, AnswerBy
<1>3. /\ held1 = [held EXCEPT ![t] = h1]
      /\ result1 = [result EXCEPT ![t] = r1]
      /\ answer1 = [answer EXCEPT ![t] = a1]
  BY <1>2
<1>4. executable' = executable /\ Move(t, h, r, a, h1, r1, a1)
  BY DEF Moves
<1>5. /\ h1 = h => held1 = held
      /\ r1 = r => result1 = result
      /\ a1 = a => answer1 = answer
  <2>1. /\ held = [u \in Threads |-> held[u]] /\ result = [u \in Threads |-> result[u]]
        /\ answer = [u \in Threads |-> answer[u]]
    OBVIOUS
  <2> HIDE DEF held, result, answer, held1, result1, answer1, h, r, a, h1, r1, a1
  <2>2. QED BY <1>1, <1>3, <2>1
<1>6. \/ held1 = held /\ result1 = result /\ answer1 = answer
      \/ /\ held[t] = None /\ h1 \in Literals /\ held1 = [held EXCEPT ![t] = h1]
         /\ result1 = result /\ answer1 = answer
      \/ /\ held[t] # None /\ held1 = [held EXCEPT ![t] = None]
         /\ result1 = result /\ answer1 = answer
      \/ /\ held[t] # None /\ IsArray(held[t]) /\ result[t] = None
         /\ result1 = [result EXCEPT ![t] = Computed(executable, held[t])]
         /\ held1 = held /\ answer1 = answer
      \/ /\ result[t] # None /\ result1 = [result EXCEPT ![t] = None]
         /\ held1 = held /\ answer1 = answer
      \/ /\ answer[t] = None
         /\ \E literal \in {held[t], result[t]} \ {None} :
               answer1 = [answer EXCEPT ![t] = literal]
         /\ held1 = held /\ result1 = result
      \/ /\ answer[t] # None /\ answer1 = [answer EXCEPT ![t] = None]
         /\ held1 = held /\ result1 = result
  <2> HIDE DEF held, result, answer, held1, result1, answer1, h, r, a, h1, r1, a1
  <2>1. QED BY <1>1, <1>3, <1>4, <1>5 DEF Move
<1>7. \/ UNCHANGED Service!vars
      \/ \E literal \in Literals : Service!Store(t, literal)
      \/ Service!Drop(t)
      \/ Service!Run(t)
      \/ Service!DropResult(t)
      \/ Service!Read(t)
      \/ Service!Done(t)
  BY <1>4, <1>6 DEF Service!vars, Service!Store, Service!Drop, Service!Run,
     Service!DropResult, Service!Read, Service!Done
<1>8. QED BY <1>7 DEF Service!Next, Literals

LEMMA Known ==
    ASSUME NEW t \in Threads
    PROVE  /\ \A s \in Shapes :
                 /\ LiteralHeld(t, s) \in Literals
                 /\ LiteralHeld(t, s) # None
                 /\ ~s[1].tuple =>
                       /\ IsArray(LiteralHeld(t, s))
                       /\ \A e \in Executables :
                             Computed(e, LiteralHeld(t, s)) = ResultOfHeld(t, e)
           /\ (\E s \in Shapes : ~s[1].tuple) =>
                 \A e \in Executables : ResultOfHeld(t, e) # None
<1>1. ASSUME NEW s \in Shapes
      PROVE  \E l \in LiteralsOf(t) : LiteralHeld(t, s) = Literal(l)
  <2> DEFINE l == [shape |-> s, layout |-> DefaultLayout, value |-> t]
  <2>1. l \in LiteralsOf(t)
    BY TransferAssumption DEF LiteralsOf
  <2>2. Literal(l) = LiteralHeld(t, s)
    BY DEF Literal, LiteralHeld
  <2> HIDE DEF l
  <2>3. QED BY <2>1, <2>2
<1>2. \A s \in Shapes : LiteralHeld(t, s) \in Literals /\ LiteralHeld(t, s) # None
  BY <1>1, NoneAssumption DEF Literals
<1>3. ASSUME NEW s \in Shapes, ~s[1].tuple
      PROVE  Leaves(s) = {1}
  <2>1. Device!WellFormed(s)
    BY TransferAssumption
  <2>2. /\ Len(s) \in Nat \ {0} /\ DOMAIN s = 1 .. Len(s) /\ s[1].children = <<>>
    BY <1>3, <2>1, Trees
  <2>3. ASSUME 2 \in 2 .. Len(s)
        PROVE  FALSE
    <3>1. PICK n \in 1 .. (2 - 1) : 2 \in Device!Children(s, n)
      BY <2>1, <2>3 DEF Device!WellFormed
    <3>2. n = 1
      BY <3>1
    <3>3. QED BY <2>2, <3>1, <3>2 DEF Device!Children
  <2>4. DOMAIN s = {1}
    BY <2>2, <2>3
  <2>5. QED BY <1>3, <2>4 DEF Leaves
<1>4. ASSUME NEW s \in Shapes, ~s[1].tuple, NEW e \in Executables
      PROVE  Computed(e, LiteralHeld(t, s)) = ResultOfHeld(t, e)
  <2>1. LiteralHeld(t, s)[1] = [kind |-> "data", leaf |-> 1, of |-> <<t>>]
    BY <1>3, <1>4 DEF LiteralHeld, Literal
  <2>2. QED BY <2>1 DEF Computed, ResultOfHeld
<1>5. ASSUME NEW s \in Shapes, ~s[1].tuple
      PROVE  IsArray(LiteralHeld(t, s))
  BY <1>3, <1>5 DEF IsArray, LiteralHeld, Literal
<1>6. ASSUME NEW s \in Shapes, ~s[1].tuple, NEW e \in Executables
      PROVE  ResultOfHeld(t, e) # None
  BY <1>1, <1>4, <1>5, <1>6, NoneAssumption
<1>7. QED BY <1>2, <1>4, <1>5, <1>6

LEMMA OneTransfer ==
    ASSUME NEW t \in Threads, DOMAIN transfer = Threads,
           NEW q, transfer' = [transfer EXCEPT ![t] = q],
           UNCHANGED <<frame, executable>>,
           Move(t, HeldBy(t), ResultBy(t), AnswerBy(t),
                   HeldBar(t, q), ResultBy(t), AnswerBar(t, q, executable))
    PROVE  Moves(t)
<1>1. transfer'[t] = q /\ \A u \in Threads \ {t} : transfer'[u] = transfer[u]
  OBVIOUS
<1>2. /\ HeldBy(t)' = HeldBar(t, q) /\ AnswerBy(t)' = AnswerBar(t, q, executable)
      /\ ResultBy(t)' = ResultBy(t)
  BY <1>1 DEF HeldBy, AnswerBy, ResultBy
<1>3. QED BY <1>1, <1>2 DEF Moves

LEMMA OneExecution ==
    ASSUME NEW t \in Threads, DOMAIN frame = Threads,
           NEW g, frame' = [frame EXCEPT ![t] = g],
           UNCHANGED <<transfer, executable>>,
           Move(t, HeldBy(t), ResultBy(t), AnswerBy(t),
                   HeldBy(t), ResultBar(t, g, executable), AnswerBy(t))
    PROVE  Moves(t)
<1>1. frame'[t] = g /\ \A u \in Threads \ {t} : frame'[u] = frame[u]
  OBVIOUS
<1>2. /\ ResultBy(t)' = ResultBar(t, g, executable)
      /\ HeldBy(t)' = HeldBy(t) /\ AnswerBy(t)' = AnswerBy(t)
  BY <1>1 DEF HeldBy, AnswerBy, ResultBy
<1>3. QED BY <1>1, <1>2 DEF Moves

\* Nothing is to be seen of a transfer to the device before its last array is there; the
\* literal that it replaces is gone.
LEMMA TransferMoves ==
    ASSUME Invariants, NEW t \in Threads,
           \/ \E s \in Shapes, layout \in Layouts \cup {NoLayout} :
                 AllocateShapedBuffer(t, s, layout)
           \/ \E a \in Addrs : Allocate(t, a)
           \/ AllocationFails(t)
           \/ Deallocate(t)
           \/ \E literal \in LiteralsOf(t) : TransferLiteralToDevice(t, literal)
           \/ WriteTupleIndexTable(t)
           \/ TransferArrayToDevice(t)
    PROVE  Moves(t)
<1> DEFINE r == transfer[t]
<1>1. Facts(t, r, frame[t])
  BY KnownFacts
<1>2. PICK q : /\ transfer' = [transfer EXCEPT ![t] = q]
               /\ UNCHANGED <<executable, frame>>
               /\ r.pc # "reading" /\ q.pc # "reading"
               /\ q.pc = "stored" => r.pc = "writing" /\ q.shape = r.shape
  <2>1. CASE \E s \in Shapes, layout \in Layouts \cup {NoLayout} :
               AllocateShapedBuffer(t, s, layout)
    <3>1. PICK s \in Shapes, layout \in Layouts \cup {NoLayout} :
             AllocateShapedBuffer(t, s, layout)
      BY <2>1
    <3>2. WITNESS [r EXCEPT !.pc = "allocating", !.shape = s, !.layout = layout]
    <3>3. QED BY <1>1, <3>1, Fields DEF Facts, AllocateShapedBuffer, At, device
  <2>2. CASE \E a \in Addrs : Allocate(t, a)
    <3>1. PICK a \in Addrs : Allocate(t, a)
      BY <2>2
    <3>2. WITNESS [r EXCEPT !.pc = NextPc(t, r.shape, "allocated"),
                            !.node = NextNode(t, r.shape),
                            !.buffers = Append(@, a)]
    <3>3. QED BY <1>1, <3>1, Fields DEF Facts, Allocate, At, NextPc
  <2>3. CASE AllocationFails(t) \/ Deallocate(t)
    <3>1. WITNESS NoTransfer
    <3>2. QED BY <1>1, <2>3 DEF AllocationFails, Deallocate, NoTransfer, At
  <2>4. CASE \E literal \in LiteralsOf(t) : TransferLiteralToDevice(t, literal)
    <3>1. PICK literal \in LiteralsOf(t) : TransferLiteralToDevice(t, literal)
      BY <2>4
    <3>2. WITNESS [r EXCEPT !.pc = "pointing", !.literal = literal]
    <3>3. QED BY <1>1, <3>1, Fields DEF Facts, TransferLiteralToDevice, device
  <2>5. CASE WriteTupleIndexTable(t)
    <3>1. WITNESS [r EXCEPT !.pc = NextPc(t, r.shape, "writing"),
                            !.node = NextNode(t, r.shape)]
    <3>2. QED BY <1>1, <2>5, Fields DEF Facts, WriteTupleIndexTable, At, NextPc
  <2>6. CASE TransferArrayToDevice(t)
    <3>1. WITNESS [r EXCEPT !.pc = NextPc(t, r.shape, "stored"),
                            !.node = NextNode(t, r.shape),
                            !.literal = IF r.node = Len(r.shape) THEN None ELSE @]
    <3>2. QED BY <1>1, <2>6, Fields DEF Facts, TransferArrayToDevice, At, NextPc
  <2>7. QED BY <2>1, <2>2, <2>3, <2>4, <2>5, <2>6
<1>3. AnswerBy(t) = None /\ AnswerBar(t, q, executable) = None
  BY <1>2 DEF AnswerBy, AnswerBar
<1>4. CASE q.pc = "stored"
  <2>1. r.shape \in Shapes
    BY <1>1, <1>2, <1>4 DEF Facts, Typed
  <2>2. HeldBy(t) = None /\ HeldBar(t, q) \in Literals
    BY <1>2, <1>4, <2>1, Known DEF HeldBy, HeldBar
  <2>3. QED BY <1>1, <1>2, <1>3, <2>2, OneTransfer DEF Move, Facts
<1>5. CASE q.pc # "stored"
  <2>1. HeldBar(t, q) = None
    BY <1>2, <1>5 DEF HeldBar
  <2>2. QED BY <1>1, <1>2, <1>3, <2>1, OneTransfer DEF Move, Facts
<1>6. QED BY <1>4, <1>5

\* A client has its answer when the last array has been read.
LEMMA ReadingMoves ==
    ASSUME Invariants, NEW t \in Threads,
           \/ \E ofResult \in BOOLEAN : TransferLiteralFromDevice(t, ofResult)
           \/ TransferArrayFromDevice(t)
           \/ LiteralDone(t)
    PROVE  Moves(t)
<1> DEFINE r == transfer[t]
           f == frame[t]
           e == executable
<1>1. Facts(t, r, f) /\ e \in Executables
  BY KnownFacts DEF Facts
<1>2. r.pc \in {"stored", "reading"} =>
         r.shape \in Shapes /\ HeldBy(t) = LiteralHeld(t, r.shape)
  BY <1>1 DEF Facts, Typed, HeldBy, HeldBar
<1>3. ASSUME NEW ofResult \in BOOLEAN, TransferLiteralFromDevice(t, ofResult)
      PROVE  Moves(t)
  <2> DEFINE q == [r EXCEPT !.pc = "reading", !.ofResult = ofResult]
  <2>1. /\ transfer' = [transfer EXCEPT ![t] = q] /\ UNCHANGED <<executable, frame>>
        /\ r.pc = "stored"
    BY <1>1, <1>3, Fields DEF Facts, TransferLiteralFromDevice, device, At
  <2>2. q.pc = "reading" /\ q.shape = r.shape /\ q.read = r.read
    BY <1>1, Fields DEF Facts
  <2> HIDE DEF q
  <2>3. HeldBar(t, q) = HeldBy(t) /\ AnswerBy(t) = None
    BY <1>2, <2>1, <2>2 DEF HeldBar, AnswerBy, AnswerBar
  <2>4. AnswerBar(t, q, e) = None
    <3>1. Len(q.read) = 0
      BY <1>1, <2>1, <2>2 DEF Facts, Fetched
    <3>2. Len(Source(t, q, e).shape) # 0
      BY <1>1, <1>2, <2>1, <2>2, TransferAssumption, Trees DEF Source
    <3>3. QED BY <3>1, <3>2 DEF AnswerBar
  <2>5. QED BY <1>1, <2>1, <2>3, <2>4, OneTransfer DEF Move, Facts
<1>4. CASE TransferArrayFromDevice(t)
  <2> DEFINE q == [r EXCEPT !.node = NextNode(t, SourceShape(t)),
                            !.read = Append(@,
                                IF SourceShape(t)[r.node].tuple
                                  THEN Device!Unwritten
                                  ELSE memory[SourceBuffers(t)[r.node]])]
  <2>1. /\ transfer' = [transfer EXCEPT ![t] = q] /\ UNCHANGED <<executable, frame>>
        /\ r.pc = "reading" /\ Len(r.read) < Len(SourceShape(t))
    BY <1>1, <1>4, Fields DEF Facts, TransferArrayFromDevice, Reading, device, At
  <2>2. /\ q.pc = r.pc /\ q.shape = r.shape /\ q.ofResult = r.ofResult
        /\ q.layout = r.layout
    BY <1>1, Fields DEF Facts
  <2> HIDE DEF q
  <2>3. HeldBar(t, q) = HeldBy(t)
    BY <2>2 DEF HeldBar, HeldBy
  <2>4. AnswerBy(t) = None
    <3> DEFINE N == Len(SourceShape(t))
               s == Source(t, r, e).shape
               v == Source(t, r, e).bytes
    <3>1. SourceShape(t) = s /\ N \in Nat
      BY <1>1, <2>1, SourceThere
    <3>2. PICK k \in 0 .. N : r.read = ReadBytes(s, v, k)
      BY <1>1, <2>1, <3>1 DEF Facts, Fetched
    <3>3. Len(r.read) = k /\ k \in Nat
      BY <3>1, <3>2, ReadGrows
    <3> HIDE DEF N
    <3>4. Len(r.read) # N
      BY <2>1, <3>1, <3>3 DEF N
    <3>5. QED BY <3>1, <3>4 DEF AnswerBy, AnswerBar, N
  <2>5. AnswerBar(t, q, e) \in {None} \cup ({HeldBy(t), ResultBy(t)} \ {None})
    <3>1. CASE r.ofResult
      <4>1. f.pc = "returned" /\ \E a \in Shapes : ~a[1].tuple
        BY <1>1, <2>1, <3>1 DEF Facts, Fetched, Executing
      <4>2. ResultBy(t) = ResultOfHeld(t, e) /\ ResultOfHeld(t, e) # None
        BY <1>1, <4>1, Known DEF ResultBy, ResultBar
      <4>3. QED BY <2>2, <3>1, <4>2 DEF AnswerBar
    <3>2. CASE ~r.ofResult
      BY <1>2, <2>1, <2>2, <3>2, Known DEF AnswerBar
    <3>3. QED BY <3>1, <3>2
  <2>6. QED BY <1>1, <2>1, <2>3, <2>4, <2>5, OneTransfer DEF Move, Facts
<1>5. CASE LiteralDone(t)
  <2> DEFINE q == [r EXCEPT !.pc = "stored", !.ofResult = FALSE, !.read = <<>>]
  <2>1. /\ transfer' = [transfer EXCEPT ![t] = q] /\ UNCHANGED <<executable, frame>>
        /\ r.pc = "reading"
    BY <1>1, <1>5, Fields DEF Facts, LiteralDone, device, At
  <2>2. q.pc = "stored" /\ q.shape = r.shape
    BY <1>1, Fields DEF Facts
  <2> HIDE DEF q
  <2>3. HeldBar(t, q) = HeldBy(t) /\ AnswerBar(t, q, e) = None
    BY <2>1, <2>2 DEF HeldBar, HeldBy, AnswerBar
  <2>4. QED BY <1>1, <2>1, <2>3, OneTransfer DEF Move, Facts
<1>6. QED BY <1>3, <1>4, <1>5

\* A client has a result from the last array of it on, until it frees it.
LEMMA ExecutionMoves ==
    ASSUME Invariants, NEW t \in Threads,
           ExecuteOnStream(t) \/ Execute(t) \/ Release(t) \/ Dismiss(t)
    PROVE  Moves(t)
<1> DEFINE r == transfer[t]
           f == frame[t]
           e == executable
<1>1. Facts(t, r, f) /\ e \in Executables
  BY KnownFacts DEF Facts
<1>2. PICK g : /\ frame' = [frame EXCEPT ![t] = g]
               /\ UNCHANGED <<executable, transfer>>
               /\ g.pc = "returned" => f.pc = "copying"
  <2>1. CASE ExecuteOnStream(t)
    <3> DEFINE arguments == [p \in 1 .. Device!parameters |-> r.buffers[1]]
    <3>1. WITNESS [f EXCEPT !.arguments = arguments,
                            !.pc = IF Len(arguments) = Device!parameters
                                     THEN "preparing" ELSE "failed"]
    <3>2. Device!ExecuteOnStream(t, arguments) /\ transfer' = transfer
      BY <2>1 DEF ExecuteOnStream
    <3> HIDE DEF arguments
    <3>3. QED BY <1>1, <3>2, Fields DEF Facts, Device!ExecuteOnStream, Device!At
  <2>2. CASE transfer' = transfer /\ Device!CreateInputTensorView(t)
    <3>1. WITNESS [f EXCEPT !.inputs = Append(@, memory[f.arguments[
                                                   Len(f.inputs) + 1]])]
    <3>2. QED BY <1>1, <2>2, Fields DEF Facts, Device!CreateInputTensorView, Device!At
  <2>3. CASE transfer' = transfer /\ \E a \in Addrs : Device!AllocateBuffer(t, a)
    <3>1. PICK a \in Addrs : Device!AllocateBuffer(t, a)
      BY <2>3
    <3>2. WITNESS [f EXCEPT !.pc = Device!NextPc(t, "pointing"),
                            !.node = Device!NextNode(t),
                            !.buffers = Append(@, a),
                            !.tensors = IF Device!shape[f.node].tuple
                                          THEN @ ELSE Append(@, Device!Unwritten)]
    <3>3. QED BY <1>1, <2>3, <3>1, Fields
          DEF Facts, Device!AllocateBuffer, Device!Allocating, Device!At, Device!NextPc
  <2>4. CASE transfer' = transfer /\ Device!AllocationFails(t)
    <3>1. WITNESS [f EXCEPT !.pc = "failed"]
    <3>2. QED BY <1>1, <2>4, Fields DEF Facts, Device!AllocationFails
  <2>5. CASE transfer' = transfer /\ Device!SetPointers(t)
    <3>1. WITNESS [f EXCEPT !.pc = Device!NextPc(t, "calling"),
                            !.node = Device!NextNode(t)]
    <3>2. QED BY <1>1, <2>5, Fields
          DEF Facts, Device!SetPointers, Device!At, Device!NextPc
  <2>6. CASE transfer' = transfer /\ Device!Call(t)
    <3>1. WITNESS [f EXCEPT !.tensors = [k \in DOMAIN @ |->
                               Device!ResultOf(Device!Results(Device!shape)[k], f.inputs)],
                            !.pc = "copying"]
    <3>2. QED BY <1>1, <2>6, Fields DEF Facts, Device!Call
  <2>7. CASE transfer' = transfer /\ Device!CopyBack(t)
    <3>1. WITNESS [f EXCEPT !.pc = Device!NextPc(t, "returned"),
                            !.node = Device!NextNode(t),
                            !.i = IF Device!shape[f.node].tuple THEN @ ELSE @ + 1]
    <3>2. QED BY <1>1, <2>7, Fields DEF Facts, Device!CopyBack, Device!At
  <2>8. CASE Release(t) \/ Dismiss(t)
    <3>1. WITNESS Device!NoFrame
    <3>2. QED BY <2>8 DEF Release, Dismiss, Device!Release, Device!Dismiss, Device!NoFrame
  <2>9. QED BY <2>1, <2>2, <2>3, <2>4, <2>5, <2>6, <2>7, <2>8 DEF Execute, Device!Execute
<1>3. CASE g.pc = "returned"
  <2>1. /\ r.pc = "stored" /\ ~r.shape[1].tuple /\ r.shape \in Shapes
    BY <1>1, <1>2, <1>3 DEF Facts, Executing, Active, Typed
  <2>2. /\ HeldBy(t) = LiteralHeld(t, r.shape) /\ ResultBy(t) = None
        /\ ResultBar(t, g, e) = ResultOfHeld(t, e)
    BY <1>2, <1>3, <2>1 DEF HeldBy, HeldBar, ResultBy, ResultBar
  <2>3. /\ HeldBy(t) # None /\ IsArray(HeldBy(t))
        /\ ResultBar(t, g, e) = Computed(e, HeldBy(t))
    BY <1>1, <2>1, <2>2, Known
  <2>4. QED BY <1>1, <1>2, <2>2, <2>3, OneExecution DEF Move, Facts
<1>4. CASE g.pc # "returned" /\ f.pc = "returned"
  <2>1. \E a \in Shapes : ~a[1].tuple
    BY <1>1, <1>4 DEF Facts, Executing
  <2>2. ResultBy(t) # None /\ ResultBar(t, g, e) = None
    BY <1>1, <1>4, <2>1, Known DEF ResultBy, ResultBar
  <2>3. QED BY <1>1, <1>2, <2>2, OneExecution DEF Move, Facts
<1>5. CASE g.pc # "returned" /\ f.pc # "returned"
  <2>1. ResultBy(t) = None /\ ResultBar(t, g, e) = None
    BY <1>5 DEF ResultBy, ResultBar
  <2>2. QED BY <1>1, <1>2, <2>1, OneExecution DEF Move, Facts
<1>6. QED BY <1>3, <1>4, <1>5

LEMMA ServiceStep ==
    ASSUME Invariants, Mapping, Mapping', [Next]_vars
    PROVE  [Service!Next]_(Service!vars)
<1>1. ASSUME NEW t \in Threads, Moves(t)
      PROVE  [Service!Next]_(Service!vars)
  BY <1>1, MovesAreSteps
<1>2. CASE UNCHANGED vars
  <2>1. UNCHANGED <<executable, memory, frame, transfer>>
    BY <1>2 DEF vars, device
  <2>2. \A t \in Threads : /\ HeldLiteral(t)' = HeldLiteral(t)
                           /\ ReturnedResult(t)' = ReturnedResult(t)
                           /\ ReadLiteral(t)' = ReadLiteral(t)
    BY <2>1 DEF Mapping
  <2>3. QED BY <2>1, <2>2 DEF Service!vars
<1>3. QED
  BY <1>1, <1>2, TransferMoves, ReadingMoves, ExecutionMoves DEF Next

\* However the clients' transfers and executions interleave, and whichever fail, each
\* client sees a service that holds its literal and its result and gives them back; all
\* the steps of a transfer or an execution but one are not to be seen
\* (transfer_manager.cc:44-210, ngraph_executable.cc:152-240).
THEOREM ServiceImplemented == Spec => ImplementsLiteralService
<1>1. Init => Service!Init
  <2> SUFFICES ASSUME Init PROVE Service!Init
    OBVIOUS
  <2>1. /\ transfer = [t \in Threads |-> NoTransfer]
        /\ frame = [t \in Threads |-> Device!NoFrame]
    BY DEF Init, Device!Init
  <2>2. \A t \in Threads : /\ HeldLiteral(t) = None /\ ReturnedResult(t) = None
                           /\ ReadLiteral(t) = None
    BY <2>1 DEF HeldLiteral, ReturnedResult, ReadLiteral, At, NoTransfer,
                Device!NoFrame
  <2>3. QED BY <2>2 DEF Service!Init, Service!Nothing
<1>2. Invariants => Mapping
  BY MappingHolds DEF Invariants
<1>3. Invariants /\ Mapping /\ Mapping' /\ [Next]_vars => [Service!Next]_(Service!vars)
  BY ServiceStep
<1>4. QED
  BY <1>1, <1>2, <1>3, InvariantsHold, PTL
  DEF Spec, ImplementsLiteralService, Service!Spec

=============================================================================
