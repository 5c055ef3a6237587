------------------------ MODULE NGraphExecutableProofs ------------------------
(***************************************************************************)
(* Theorems about NGraphExecutable, for any number of threads, any trees,  *)
(* any memory and any allocator.                                           *)
(***************************************************************************)
EXTENDS NGraphExecutable, FiniteSetTheorems, SequenceTheorems, Induction, TLAPS

\* The arrays before node n of a tree, counted.
ArrayCount(s, n) == Cardinality(ArraysBefore(s, n))
Before(n) == ArrayCount(shape, n)

Inputs == {Argument(a) : a \in Arguments}
Output(k, inputs) == ResultOf(Results(shape)[k], inputs)
Tensors == {Unwritten} \cup {Output(k, inputs) : k \in Nat, inputs \in Seq(Inputs)}

Frames == [pc : Steps, arguments : Seq(Arguments), inputs : Seq(Inputs),
           buffers : Seq(Addrs), tensors : Seq(Tensors), node : Nat, i : Nat]

Done(f) == f.pc \in {"pointing", "calling", "copying", "returned"}

\* The locals of an execution agree: with n - 1 nodes allocated there are n - 1
\* buffers and a tensor for each array among them, and the counter of the copy-back
\* is that of the arrays.
Counts(f) ==
    /\ f.node \in DOMAIN shape
    /\ f.pc = "idle" => f = NoFrame
    /\ f.pc \in {"preparing", "failed"} =>
          Len(f.buffers) = f.node - 1 /\ Len(f.tensors) = Before(f.node)
    /\ Done(f) =>
          /\ Len(f.buffers) = Len(shape)
          /\ Len(f.tensors) = Before(Len(shape) + 1)
    /\ f.pc \notin {"copying", "returned"} => f.i = 1
    /\ f.pc \in {"calling", "returned"} => f.node = 1
    /\ f.pc = "copying" => f.i = Before(f.node) + 1
    /\ f.pc = "returned" => f.i = Len(f.tensors) + 1

\* The inputs are the arguments.
Sources(f) ==
    /\ f.arguments \in Calls \cup {<<>>}
    /\ Len(f.inputs) <= Len(f.arguments)
    /\ Len(f.inputs) <= parameters
    /\ f.pc = "preparing" \/ Done(f) => Len(f.arguments) = parameters
    /\ Done(f) => Len(f.inputs) = parameters
    /\ \A p \in 1 .. Len(f.inputs) : f.inputs[p] = Argument(f.arguments[p])

\* Whether the loop of this step is through with node n, or a later step is
\* reached.
Past(f, n, step, later) == f.pc \in later \/ (f.pc = step /\ n < f.node)

\* Node n's buffer, as the result has it.
Pointers(f, n) ==
    Table([k \in DOMAIN shape[n].children |-> f.buffers[shape[n].children[k]]])
Contents(f, m) ==
    /\ \A n \in DOMAIN shape :
          /\ shape[n].tuple
          /\ Past(f, n, "pointing", {"calling", "copying", "returned"})
          => m[f.buffers[n]] = Pointers(f, n)
    /\ f.pc \in {"copying", "returned"} =>
          \A k \in 1 .. Len(f.tensors) : f.tensors[k] = Output(k, f.inputs)
    /\ \A n \in DOMAIN shape :
          ~shape[n].tuple /\ Past(f, n, "copying", {"returned"})
          => m[f.buffers[n]] = ResultOf(n, f.inputs)

FramesOK ==
    /\ executable \in Executables
    /\ DOMAIN memory = Addrs
    /\ allocated \subseteq Addrs
    /\ lost \subseteq Addrs
    /\ frame \in [Threads -> Frames]
    /\ \A t \in Threads : Counts(frame[t]) /\ Sources(frame[t])
    /\ \A a \in Arguments : memory[a] = Argument(a)

ContentsOK == \A t \in Threads : Contents(frame[t], memory)

ExecutionInv == FramesOK /\ BuffersPartitioned /\ ContentsOK

-----------------------------------------------------------------------------
(* The trees *)

\* FlattenSeq joins one sequence after the other: h[k] is what there is after k of
\* the n parts, and r what there is in the end.
JoinSteps(parts, n, h, r) ==
    /\ h[1] = parts[1]
    /\ \A k \in 2 .. n : h[k] = h[k - 1] \o parts[k]
    /\ r = h[n]

LEMMA FlattenSteps ==
    ASSUME NEW n \in Nat, NEW parts, Len(parts) = n
    PROVE  /\ n = 0 => FlattenSeq(parts) = parts
           /\ n > 0 => \E h : JoinSteps(parts, n, h, FlattenSeq(parts))
<1>1. SUFFICES ASSUME n > 0
      PROVE  \E h : JoinSteps(parts, n, h, FlattenSeq(parts))
  BY DEF FlattenSeq
<1> DEFINE
      Body(f, k) == IF k = 1 THEN parts[k] ELSE f[k - 1] \o parts[k]
      Solves(f, m) == f = [k \in 1 .. m |-> Body(f, k)]
      S == {m \in 0 .. n : \E f : Solves(f, m)}
<1> HIDE DEF Body
<1>2. 0 .. n \subseteq S
  <2>1. 0 \in S
    <3> DEFINE f0 == [k \in 1 .. 0 |-> 0]
    <3>1. f0 = [k \in 1 .. 0 |-> Body(f0, k)]
      OBVIOUS
    <3> HIDE DEF f0
    <3>2. 0 \in 0 .. n
      OBVIOUS
    <3>3. QED BY <3>1, <3>2
  <2>2. ASSUME NEW m \in 0 .. n - 1, m \in S  PROVE m + 1 \in S
    <3>1. PICK f : Solves(f, m)
      BY <2>2
    <3> DEFINE g == [k \in 1 .. m + 1 |-> IF k \in 1 .. m THEN f[k] ELSE Body(f, k)]
    <3>2. ASSUME NEW k \in 1 .. m + 1  PROVE g[k] = Body(g, k)
      <4>1. k # 1 => k - 1 \in 1 .. m
        OBVIOUS
      <4>2. k # 1 => g[k - 1] = f[k - 1]
        BY <4>1
      <4>3. Body(g, k) = Body(f, k)
        BY <4>2 DEF Body
      <4>4. k \in 1 .. m => f[k] = Body(f, k)
        BY <3>1
      <4>5. QED BY <4>3, <4>4
    <3>3. g = [k \in 1 .. m + 1 |-> Body(g, k)]
      BY <3>2
    <3> HIDE DEF g
    <3>4. m + 1 \in 0 .. n
      OBVIOUS
    <3>5. QED BY <3>3, <3>4
  <2> HIDE DEF S
  <2>3. QED BY <2>1, <2>2, IntervalInduction
<1>3. \E f : Solves(f, n)
  BY <1>2
<1> DEFINE h == CHOOSE f : Solves(f, n)
<1>4. Solves(h, n)
  BY <1>3
<1>5. FlattenSeq(parts) = h[n]
  BY <1>1 DEF FlattenSeq, Body
<1> HIDE DEF h
<1>6. \A k \in 1 .. n : h[k] = Body(h, k)
  BY <1>4
<1>7. 1 \in 1 .. n /\ \A k \in 2 .. n : k \in 1 .. n /\ k # 1
  BY <1>1
<1>8. h[1] = parts[1] /\ \A k \in 2 .. n : h[k] = h[k - 1] \o parts[k]
  BY <1>6, <1>7 DEF Body
<1>9. QED BY <1>5, <1>8 DEF JoinSteps

-----------------------------------------------------------------------------
LEMMA TreeFacts ==
    ASSUME NEW s, WellFormed(s)
    PROVE  /\ s \in Seq(Nodes)
           /\ Len(s) \in Nat \ {0}
           /\ DOMAIN s = 1 .. Len(s)
           /\ \A n \in DOMAIN s :
                 /\ s[n].tuple \in BOOLEAN
                 /\ s[n].children \in Seq(Nat)
                 /\ ~s[n].tuple => s[n].children = <<>>
                 /\ \A k \in DOMAIN s[n].children :
                       s[n].children[k] \in (n + 1) .. Len(s)
<1>1. s \in Seq(Nodes) /\ s # <<>>
  BY DEF WellFormed
<1>2. Len(s) \in Nat \ {0} /\ DOMAIN s = 1 .. Len(s)
  BY <1>1, EmptySeq
<1>3. ASSUME NEW n \in DOMAIN s
      PROVE  /\ s[n].tuple \in BOOLEAN
             /\ s[n].children \in Seq(Nat)
             /\ ~s[n].tuple => s[n].children = <<>>
             /\ \A k \in DOMAIN s[n].children :
                   s[n].children[k] \in (n + 1) .. Len(s)
  <2>1. s[n] \in Nodes
    BY <1>1, <1>2
  <2>2. Children(s, n) \subseteq (n + 1) .. Len(s)
    BY DEF WellFormed
  <2>3. QED BY <1>2, <2>1, <2>2 DEF Nodes, Children, WellFormed
<1>4. QED BY <1>1, <1>2, <1>3

\* XLAFunction's recursion, node by node.
LEMMA FlattenedNodes ==
    ASSUME NEW s, WellFormed(s)
    PROVE  \E f : /\ Results(s) = f[1]
                  /\ \A n \in DOMAIN s : f[n] =
                        IF s[n].tuple
                          THEN FlattenSeq([k \in DOMAIN s[n].children |->
                                              f[s[n].children[k]]])
                          ELSE <<n>>
<1> DEFINE
      N == Len(s)
      Body(f, n) ==
          IF s[n].tuple
            THEN FlattenSeq([k \in DOMAIN s[n].children |-> f[s[n].children[k]]])
            ELSE <<n>>
      Solved(m) == \E f : \A n \in N - m + 1 .. N : f[n] = Body(f, n)
      S == {m \in 0 .. N : Solved(m)}
<1>1. /\ N \in Nat \ {0} /\ DOMAIN s = 1 .. N
      /\ \A n \in 1 .. N : \A k \in DOMAIN s[n].children :
            s[n].children[k] \in (n + 1) .. N
  BY TreeFacts
<1>2. \A f, g : \A n \in 1 .. N :
         (\A m \in n + 1 .. N : f[m] = g[m]) => Body(f, n) = Body(g, n)
  <2> SUFFICES ASSUME NEW f, NEW g, NEW n \in 1 .. N,
                      \A m \in n + 1 .. N : f[m] = g[m]
               PROVE  Body(f, n) = Body(g, n)
    OBVIOUS
  <2>1. [k \in DOMAIN s[n].children |-> f[s[n].children[k]]]
          = [k \in DOMAIN s[n].children |-> g[s[n].children[k]]]
    BY <1>1
  <2>2. QED BY <2>1
<1> HIDE DEF N, Body
<1>3. 0 .. N \subseteq S
  <2>1. 0 \in S
    <3>1. N - 0 + 1 .. N = {} /\ 0 \in 0 .. N
      BY <1>1
    <3>2. QED BY <3>1
  <2>2. ASSUME NEW m \in 0 .. N - 1, m \in S  PROVE m + 1 \in S
    <3>1. PICK f : \A n \in N - m + 1 .. N : f[n] = Body(f, n)
      BY <2>2
    <3> DEFINE x == N - m
               g == [n \in 1 .. N |-> IF n = x THEN Body(f, x) ELSE f[n]]
    <3>2. /\ x \in 1 .. N /\ N - m + 1 = x + 1 /\ N - (m + 1) + 1 = x
          /\ m + 1 \in 0 .. N
      BY <1>1
    <3>3. ASSUME NEW n \in x .. N  PROVE g[n] = Body(g, n)
      <4>1. n \in 1 .. N /\ \A j \in n + 1 .. N : j \in 1 .. N /\ j # x
        BY <1>1, <3>2
      <4>2. Body(g, n) = Body(f, n)
        <5>1. \A j \in n + 1 .. N : g[j] = f[j]
          BY <4>1
        <5> HIDE DEF g
        <5>2. QED BY <4>1, <5>1, <1>2
      <4>3. n # x => n \in x + 1 .. N
        BY <1>1, <3>2
      <4>4. n # x => f[n] = Body(f, n)
        BY <4>3, <3>1, <3>2
      <4>5. QED BY <4>1, <4>2, <4>4
    <3> HIDE DEF g
    <3>4. Solved(m + 1)
      BY <3>2, <3>3
    <3>5. QED BY <3>2, <3>4
  <2> HIDE DEF S
  <2>3. QED BY <1>1, <2>1, <2>2, IntervalInduction
<1>4. PICK f : \A n \in 1 .. N : f[n] = Body(f, n)
  <2>1. N \in 0 .. N /\ N - N + 1 = 1
    BY <1>1
  <2>2. QED BY <1>3, <2>1
<1> DEFINE h == [n \in DOMAIN s |-> f[n]]
           Solves(g) == g = [n \in DOMAIN s |-> Body(g, n)]
<1>5. Solves(h)
  <2>1. \A n \in 1 .. N : \A m \in n + 1 .. N : m \in 1 .. N
    BY <1>1
  <2>2. \A n \in 1 .. N : Body(h, n) = Body(f, n)
    <3>1. \A n \in 1 .. N : h[n] = f[n]
      BY <1>1
    <3> HIDE DEF h
    <3>2. QED BY <1>2, <2>1, <3>1
  <2>3. QED BY <1>1, <1>4, <2>2
<1> DEFINE g == CHOOSE q : Solves(q)
<1>6. Solves(g)
  <2> HIDE DEF Solves, h
  <2> QED BY <1>5
<1>7. Results(s) = g[1]
  BY DEF Results, Body
<1> HIDE DEF g
<1>8. \A n \in DOMAIN s : g[n] = Body(g, n)
  BY <1>6
<1>9. QED BY <1>7, <1>8 DEF Body

LEMMA ArrayCounts ==
    ASSUME NEW s, WellFormed(s)
    PROVE  /\ ArrayCount(s, 1) = 0
           /\ \A n \in 1 .. Len(s) + 1 :
                 ArrayCount(s, n) \in Nat /\ ArrayCount(s, n) <= n - 1
           /\ \A n \in 1 .. Len(s) + 1 : \A m \in n .. Len(s) + 1 :
                 ArrayCount(s, n) <= ArrayCount(s, m)
           /\ \A n \in DOMAIN s :
                 ArrayCount(s, n + 1) = IF s[n].tuple THEN ArrayCount(s, n)
                                                      ELSE ArrayCount(s, n) + 1
<1> USE DEF ArraysBefore
<1>0. /\ Len(s) \in Nat \ {0}
      /\ DOMAIN s = 1 .. Len(s)
      /\ \A n \in DOMAIN s : s[n].tuple \in BOOLEAN
  BY TreeFacts
<1>1. ArrayCount(s, 1) = 0
  <2>1. ArraysBefore(s, 1) = {}
    OBVIOUS
  <2>2. QED BY <2>1, FS_EmptySet DEF ArrayCount
<1>2. ASSUME NEW n \in 1 .. Len(s) + 1
      PROVE  IsFiniteSet(ArraysBefore(s, n)) /\ ArrayCount(s, n) <= n - 1
  <2>0. 1 \in Int /\ n - 1 \in Int /\ n - 1 >= 0
    BY <1>0
  <2>1. IsFiniteSet(1 .. (n - 1)) /\ Cardinality(1 .. (n - 1)) = n - 1
    <3> DEFINE last == n - 1
    <3>1. last \in Int /\ last >= 0
      BY <2>0
    <3> HIDE DEF last
    <3>2. IsFiniteSet(1 .. last)
      BY <3>1, <2>0, FS_Interval
    <3>3. Cardinality(1 .. last) = last
      <4>1. Cardinality(1 .. last) = IF 1 > last THEN 0 ELSE last - 1 + 1
        BY <3>1, <2>0, FS_Interval, Zenon
      <4>2. QED BY <3>1, <4>1
    <3>4. QED BY <3>2, <3>3 DEF last
  <2>2. ArraysBefore(s, n) \subseteq 1 .. (n - 1)
    OBVIOUS
  <2>3. QED BY <2>1, <2>2, FS_Subset DEF ArrayCount
<1>3. ASSUME NEW n \in 1 .. Len(s) + 1
      PROVE  ArrayCount(s, n) \in Nat
  BY <1>2, FS_CardinalityType DEF ArrayCount
<1>4. ASSUME NEW n \in 1 .. Len(s) + 1, NEW m \in n .. Len(s) + 1
      PROVE  ArrayCount(s, n) <= ArrayCount(s, m)
  <2>1. ArraysBefore(s, n) \subseteq ArraysBefore(s, m) /\ m \in 1 .. Len(s) + 1
    BY <1>0
  <2>2. IsFiniteSet(ArraysBefore(s, m))
    BY <2>1, <1>2
  <2>3. QED BY <2>1, <2>2, FS_Subset DEF ArrayCount
<1>5. ASSUME NEW n \in DOMAIN s
      PROVE  ArrayCount(s, n + 1) = IF s[n].tuple THEN ArrayCount(s, n)
                                                  ELSE ArrayCount(s, n) + 1
  <2>1. CASE s[n].tuple
    <3>1. ArraysBefore(s, n + 1) = ArraysBefore(s, n)
      BY <1>0, <2>1
    <3>2. QED BY <2>1, <3>1 DEF ArrayCount
  <2>2. CASE ~s[n].tuple
    <3>1. ArraysBefore(s, n + 1) = ArraysBefore(s, n) \cup {n}
      BY <1>0, <2>2
    <3>2. n \notin ArraysBefore(s, n) /\ IsFiniteSet(ArraysBefore(s, n))
      BY <1>0, <1>2
    <3>3. QED BY <2>2, <3>1, <3>2, FS_AddElement DEF ArrayCount
  <2>3. QED BY <2>1, <2>2
<1>6. QED BY <1>1, <1>2, <1>3, <1>4, <1>5

\* r has the arrays of the nodes from a on and before b, in their order.
Lists(s, r, a, b) ==
    /\ r \in Seq(Nat)
    /\ Len(r) = ArrayCount(s, b) - ArrayCount(s, a)
    /\ \A n \in a .. b - 1 :
          ~s[n].tuple => r[ArrayCount(s, n) - ArrayCount(s, a) + 1] = n

LEMMA ListsOne ==
    ASSUME NEW s, WellFormed(s), NEW n \in DOMAIN s
    PROVE  /\ s[n].tuple => Lists(s, <<>>, n, n + 1)
           /\ ~s[n].tuple => Lists(s, <<n>>, n, n + 1)
<1>1. /\ n \in Nat /\ n .. (n + 1) - 1 = {n}
      /\ ArrayCount(s, n) \in Nat
      /\ ArrayCount(s, n + 1) = IF s[n].tuple THEN ArrayCount(s, n)
                                              ELSE ArrayCount(s, n) + 1
  <2>1. n \in 1 .. Len(s) + 1 /\ n \in Nat
    BY TreeFacts
  <2>2. QED BY <2>1, ArrayCounts
<1>2. CASE s[n].tuple
  BY <1>1, <1>2 DEF Lists
<1>3. CASE ~s[n].tuple
  BY <1>1, <1>3 DEF Lists
<1>4. QED BY <1>2, <1>3

\* What follows on what.
LEMMA ListsJoin ==
    ASSUME NEW s, WellFormed(s), NEW a \in 1 .. Len(s) + 1, NEW b \in a .. Len(s) + 1,
           NEW c \in b .. Len(s) + 1, NEW r, Lists(s, r, a, b),
           NEW q, Lists(s, q, b, c)
    PROVE  Lists(s, r \o q, a, c)
<1> DEFINE A(n) == ArrayCount(s, n)
<1>1. /\ Len(s) \in Nat /\ b \in 1 .. Len(s) + 1 /\ c \in 1 .. Len(s) + 1
      /\ DOMAIN s = 1 .. Len(s)
  BY TreeFacts
<1>2. /\ A(a) \in Nat /\ A(b) \in Nat /\ A(c) \in Nat
      /\ A(a) <= A(b) /\ A(b) <= A(c)
  BY <1>1, ArrayCounts
<1>3. /\ r \in Seq(Nat) /\ q \in Seq(Nat)
      /\ Len(r) = A(b) - A(a) /\ Len(q) = A(c) - A(b)
  BY DEF Lists
<1>4. r \o q \in Seq(Nat) /\ Len(r \o q) = A(c) - A(a)
  <2>1. r \o q \in Seq(Nat) /\ Len(r \o q) = Len(r) + Len(q)
    BY <1>3
  <2> DEFINE x == A(a)
             y == A(b)
             z == A(c)
  <2>2. x \in Nat /\ y \in Nat /\ z \in Nat /\ Len(r) = y - x /\ Len(q) = z - y
    BY <1>2, <1>3
  <2> HIDE DEF x, y, z, A
  <2>3. Len(r) + Len(q) = z - x
    BY <2>2
  <2>4. QED BY <2>1, <2>3 DEF x, z
<1>5. ASSUME NEW n \in a .. c - 1, ~s[n].tuple
      PROVE  (r \o q)[A(n) - A(a) + 1] = n
  <2>1. /\ n \in 1 .. Len(s) + 1 /\ n + 1 \in 1 .. Len(s) + 1 /\ n \in DOMAIN s
        /\ a <= n /\ n < c
    BY <1>1
  <2>2. A(n) \in Nat /\ A(n + 1) = A(n) + 1
    BY <2>1, <1>5, ArrayCounts
  <2>3. CASE n < b
    <3>1. n \in a .. b - 1 /\ n \in a .. Len(s) + 1 /\ b \in n + 1 .. Len(s) + 1
      BY <1>1, <2>1, <2>3
    <3>2. A(a) <= A(n) /\ A(n + 1) <= A(b)
      BY <2>1, <3>1, ArrayCounts
    <3>3. r[A(n) - A(a) + 1] = n
      BY <3>1, <1>5 DEF Lists
    <3> HIDE DEF A
    <3>4. A(n) - A(a) + 1 \in 1 .. Len(r)
      BY <1>2, <1>3, <2>2, <3>2
    <3>5. QED BY <3>3, <3>4, <1>3
  <2>4. CASE n >= b
    <3>1. n \in b .. c - 1 /\ n \in b .. Len(s) + 1 /\ c \in n + 1 .. Len(s) + 1
      BY <1>1, <2>1, <2>4
    <3>2. A(b) <= A(n) /\ A(n + 1) <= A(c)
      BY <1>1, <2>1, <3>1, ArrayCounts
    <3>3. q[A(n) - A(b) + 1] = n
      BY <3>1, <1>5 DEF Lists
    <3>4. /\ A(n) - A(b) + 1 \in 1 .. Len(q)
          /\ A(n) - A(a) + 1 = Len(r) + (A(n) - A(b) + 1)
      <4> DEFINE x == A(a)
                 y == A(b)
                 z == A(c)
                 w == A(n)
      <4>1. /\ x \in Nat /\ y \in Nat /\ z \in Nat /\ w \in Nat /\ y <= w /\ w + 1 <= z
            /\ Len(r) = y - x /\ Len(q) = z - y
        BY <1>2, <1>3, <2>2, <3>2
      <4> HIDE DEF x, y, z, w, A
      <4>2. w - y + 1 \in 1 .. Len(q) /\ w - x + 1 = Len(r) + (w - y + 1)
        BY <4>1
      <4>3. QED BY <4>2 DEF x, y, w
    <3> HIDE DEF A
    <3>5. QED BY <3>3, <3>4, <1>3
  <2>5. n < b \/ n >= b
    BY <2>1, <1>1
  <2>6. QED BY <2>3, <2>4, <2>5
<1>6. QED BY <1>4, <1>5 DEF Lists

-----------------------------------------------------------------------------
\* The nodes after n and up to e are descendants of n, with all that is below them.
Forest(s, n, e) ==
    /\ e \in n .. Len(s)
    /\ \A q \in n + 1 .. e : Children(s, q) \subseteq n + 1 .. e
    /\ \A m \in n + 1 .. e : \A q \in DOMAIN s : m \in Children(s, q) => q \in n .. e

\* The first k children of n are among them, and no other child.
Holds(s, n, e, k) ==
    \A j \in 1 .. Len(s[n].children) : s[n].children[j] <= e <=> j <= k

Subtree(s, n, e) == Forest(s, n, e) /\ Children(s, n) \subseteq n + 1 .. e

LEMMA ChildFacts ==
    ASSUME NEW s, WellFormed(s), NEW n \in DOMAIN s
    PROVE  /\ n \in 1 .. Len(s) /\ Len(s) \in Nat
           /\ Len(s[n].children) \in Nat
           /\ DOMAIN s[n].children = 1 .. Len(s[n].children)
           /\ \A k \in 1 .. Len(s[n].children) :
                 /\ s[n].children[k] \in n + 1 .. Len(s)
                 /\ s[n].children[k] \in Children(s, n)
                 /\ s[n].children[k] \in DOMAIN s
           /\ \A m \in Children(s, n) : \E k \in 1 .. Len(s[n].children) :
                 m = s[n].children[k]
           /\ \A j, k \in 1 .. Len(s[n].children) :
                 j < k => s[n].children[j] < s[n].children[k]
<1>1. /\ n \in 1 .. Len(s) /\ Len(s) \in Nat /\ DOMAIN s = 1 .. Len(s)
      /\ s[n].children \in Seq(Nat)
      /\ \A k \in DOMAIN s[n].children : s[n].children[k] \in (n + 1) .. Len(s)
  BY TreeFacts
<1>2. \A j, k \in DOMAIN s[n].children :
         j < k => s[n].children[j] < s[n].children[k]
  BY DEF WellFormed
<1>3. /\ Len(s[n].children) \in Nat
      /\ DOMAIN s[n].children = 1 .. Len(s[n].children)
  BY <1>1
<1>4. \A k \in 1 .. Len(s[n].children) :
         /\ s[n].children[k] \in Children(s, n)
         /\ s[n].children[k] \in DOMAIN s
  BY <1>1, <1>3 DEF Children
<1>5. \A m \in Children(s, n) : \E k \in 1 .. Len(s[n].children) :
         m = s[n].children[k]
  BY <1>3 DEF Children
<1>6. QED BY <1>1, <1>2, <1>3, <1>4, <1>5

\* A node has one parent, and a later node's parent is not above it.
LEMMA OneParent ==
    ASSUME NEW s, WellFormed(s), NEW m \in 2 .. Len(s)
    PROVE  \E p \in 1 .. m - 1 :
              /\ p \in DOMAIN s
              /\ m \in Children(s, p)
              /\ \A q \in DOMAIN s : m \in Children(s, q) => q = p
              /\ \A q \in p + 1 .. m - 1 : \A d \in Children(s, q) : d <= m
<1>1. PICK p \in 1 .. (m - 1) :
         /\ m \in Children(s, p)
         /\ \A q \in DOMAIN s \ {p} : m \notin Children(s, q)
         /\ \A q \in (p + 1) .. (m - 1) : Children(s, q) \cap ((m + 1) .. Len(s)) = {}
  BY DEF WellFormed
<1>2. DOMAIN s = 1 .. Len(s) /\ Len(s) \in Nat
  BY TreeFacts
<1>3. ASSUME NEW q \in p + 1 .. m - 1, NEW d \in Children(s, q)
      PROVE  d <= m
  <2>1. q \in DOMAIN s
    BY <1>2
  <2>2. d \in q + 1 .. Len(s)
    BY <2>1 DEF WellFormed
  <2>3. d \notin (m + 1) .. Len(s)
    BY <1>1
  <2>4. QED BY <1>2, <2>1, <2>2, <2>3
<1>4. QED BY <1>1, <1>2, <1>3

\* After the first k children and their descendants comes the next child.
LEMMA NextChild ==
    ASSUME NEW s, WellFormed(s), NEW n \in DOMAIN s,
           NEW k \in 0 .. Len(s[n].children) - 1,
           NEW e, Forest(s, n, e), Holds(s, n, e, k)
    PROVE  s[n].children[k + 1] = e + 1
<1> DEFINE c == s[n].children
<1>1. /\ n \in 1 .. Len(s) /\ Len(s) \in Nat /\ Len(c) \in Nat
      /\ e \in n .. Len(s)
      /\ k + 1 \in 1 .. Len(c)
  BY ChildFacts DEF Forest
<1>2. c[k + 1] \in e + 1 .. Len(s)
  <2>1. c[k + 1] \in n + 1 .. Len(s)
    BY <1>1, ChildFacts
  <2>2. ~(c[k + 1] <= e)
    BY <1>1 DEF Holds
  <2>3. QED BY <1>1, <2>1, <2>2
<1>3. SUFFICES ASSUME c[k + 1] > e + 1 PROVE FALSE
  BY <1>1, <1>2
<1> DEFINE m == e + 1
<1>4. m \in 2 .. Len(s)
  BY <1>1, <1>2
<1>5. PICK p \in 1 .. m - 1 :
         /\ p \in DOMAIN s
         /\ m \in Children(s, p)
         /\ \A q \in p + 1 .. m - 1 : \A d \in Children(s, q) : d <= m
  <2> HIDE DEF m
  <2> QED BY <1>4, OneParent
<1>6. CASE p < n
  <2>1. n \in p + 1 .. m - 1
    BY <1>1, <1>6
  <2>2. c[k + 1] \in Children(s, n)
    BY <1>1, ChildFacts
  <2>3. c[k + 1] <= m
    BY <1>5, <2>1, <2>2
  <2>4. QED BY <2>3, <1>3, <1>2, <1>1
<1>7. CASE p = n
  <2>1. PICK j \in 1 .. Len(c) : m = c[j]
    BY <1>5, <1>7, ChildFacts
  <2>2. j > k
    <3>1. ~(c[j] <= e)
      BY <2>1, <1>1
    <3>2. QED BY <3>1, <1>1 DEF Holds
  <2>3. j # k + 1
    BY <2>1, <1>3, <1>1
  <2>4. k + 1 < j
    BY <2>2, <2>3
  <2>5. c[k + 1] < c[j]
    BY <2>4, <1>1, ChildFacts
  <2>6. QED BY <2>5, <2>1, <1>1, <1>2
<1>8. CASE p > n
  <2>1. p \in n + 1 .. e
    BY <1>8, <1>1, <1>5
  <2>2. m \in n + 1 .. e
    BY <2>1, <1>5 DEF Forest
  <2>3. QED BY <2>2, <1>1
<1>9. QED BY <1>1, <1>5, <1>6, <1>7, <1>8

LEMMA NextForest ==
    ASSUME NEW s, WellFormed(s), NEW n \in DOMAIN s,
           NEW k \in 0 .. Len(s[n].children) - 1,
           NEW e, Forest(s, n, e), Holds(s, n, e, k),
           NEW d, Subtree(s, e + 1, d)
    PROVE  Forest(s, n, d) /\ Holds(s, n, d, k + 1)
<1> DEFINE c == s[n].children
<1>1. /\ n \in 1 .. Len(s) /\ Len(s) \in Nat /\ Len(c) \in Nat
      /\ e \in n .. Len(s)
      /\ k + 1 \in 1 .. Len(c)
      /\ d \in e + 1 .. Len(s)
      /\ DOMAIN s = 1 .. Len(s)
  BY ChildFacts, TreeFacts DEF Forest, Subtree
<1>2. c[k + 1] = e + 1
  BY NextChild
<1>3. ASSUME NEW q \in n + 1 .. d
      PROVE  Children(s, q) \subseteq n + 1 .. d
  <2>1. CASE q <= e
    <3>1. Children(s, q) \subseteq n + 1 .. e
      BY <1>1, <2>1 DEF Forest
    <3>2. QED BY <3>1, <1>1
  <2>2. CASE q > e
    <3>1. Children(s, q) \subseteq (e + 1) + 1 .. d
      <4>1. CASE q = e + 1
        BY <4>1 DEF Subtree
      <4>2. CASE q > e + 1
        <5>1. q \in (e + 1) + 1 .. d
          BY <1>1, <4>2
        <5>2. QED BY <5>1 DEF Subtree, Forest
      <4>3. QED BY <1>1, <2>2, <4>1, <4>2
    <3>2. QED BY <3>1, <1>1
  <2>3. QED BY <1>1, <2>1, <2>2
<1>4. ASSUME NEW m \in n + 1 .. d, NEW q \in DOMAIN s, m \in Children(s, q)
      PROVE  q \in n .. d
  <2>1. CASE m <= e
    <3>1. q \in n .. e
      BY <1>1, <1>4, <2>1 DEF Forest
    <3>2. QED BY <3>1, <1>1
  <2>2. CASE m = e + 1
    <3>1. m \in Children(s, n) /\ m \in 2 .. Len(s)
      BY <1>1, <1>2, <2>2, ChildFacts
    <3>2. q = n
      BY <3>1, <1>4, OneParent
    <3>3. QED BY <3>2, <1>1
  <2>3. CASE m > e + 1
    <3>1. m \in (e + 1) + 1 .. d
      BY <1>1, <2>3
    <3>2. q \in e + 1 .. d
      BY <3>1, <1>4 DEF Subtree, Forest
    <3>3. QED BY <3>2, <1>1
  <2>4. QED BY <1>1, <2>1, <2>2, <2>3
<1>5. ASSUME NEW j \in 1 .. Len(c)
      PROVE  c[j] <= d <=> j <= k + 1
  <2>0. c[j] \in n + 1 .. Len(s) /\ c[j] \in Children(s, n)
    BY ChildFacts
  <2>1. ASSUME j <= k + 1 PROVE c[j] <= d
    <3>1. j = k + 1 \/ j < k + 1
      BY <2>1, <1>1
    <3>2. c[j] = e + 1 \/ c[j] < c[k + 1]
      BY <3>1, <1>1, <1>2, ChildFacts
    <3>3. QED BY <3>2, <2>0, <1>1, <1>2
  <2>2. ASSUME j > k + 1 PROVE ~(c[j] <= d)
    <3>1. c[k + 1] < c[j]
      BY <2>2, <1>1, ChildFacts
    <3>2. SUFFICES ASSUME c[j] <= d PROVE FALSE
      OBVIOUS
    <3>3. c[j] \in (e + 1) + 1 .. d
      BY <3>1, <3>2, <1>1, <1>2, <2>0
    <3>4. n \in e + 1 .. d
      BY <3>3, <2>0 DEF Subtree, Forest
    <3>5. QED BY <3>4, <1>1
  <2>3. QED BY <2>1, <2>2, <1>1
<1>6. d \in n .. Len(s)
  BY <1>1
<1>7. QED BY <1>3, <1>4, <1>5, <1>6 DEF Forest, Holds

\* A tuple's results are those of its children one after the other.
LEMMA ChildrenListed ==
    ASSUME NEW s, WellFormed(s), NEW n \in DOMAIN s, NEW f,
           NEW r, r = FlattenSeq([k \in DOMAIN s[n].children |-> f[s[n].children[k]]]),
           \A k \in 1 .. Len(s[n].children) : \E d :
              /\ Subtree(s, s[n].children[k], d)
              /\ Lists(s, f[s[n].children[k]], s[n].children[k], d + 1)
    PROVE  \E e : Subtree(s, n, e) /\ Lists(s, r, n + 1, e + 1)
<1> DEFINE
      c == s[n].children
      K == Len(c)
      parts == [k \in DOMAIN c |-> f[c[k]]]
<1>1. /\ n \in 1 .. Len(s) /\ Len(s) \in Nat /\ K \in Nat /\ DOMAIN c = 1 .. K
      /\ DOMAIN s = 1 .. Len(s)
  BY ChildFacts, TreeFacts
<1>2. Len(parts) = K /\ \A k \in 1 .. K : parts[k] = f[c[k]]
  BY <1>1
<1> DEFINE Joined(h) == JoinSteps(parts, K, h, r)
<1>3. (K = 0 => r = <<>>) /\ (K > 0 => \E h : Joined(h))
  <2> HIDE DEF K, parts
  <2>1. /\ K = 0 => FlattenSeq(parts) = parts
        /\ K > 0 => \E h : JoinSteps(parts, K, h, FlattenSeq(parts))
    <3>1. K \in Nat /\ Len(parts) = K
      BY <1>1, <1>2
    <3>2. QED BY <3>1, FlattenSteps
  <2>2. K = 0 => parts = <<>>
    BY <1>1 DEF parts
  <2>3. r = FlattenSeq(parts)
    BY DEF parts
  <2>4. QED BY <2>1, <2>2, <2>3
<1>4. PICK h : K > 0 => Joined(h)
  <2> HIDE DEF Joined
  <2> QED BY <1>3
<1> DEFINE
      Listed(k, e) ==
          /\ Forest(s, n, e)
          /\ Holds(s, n, e, k)
          /\ k = 0 => e = n
          /\ k > 0 => Lists(s, h[k], n + 1, e + 1)
      S == {k \in 0 .. K : \E e : Listed(k, e)}
<1>5. 0 \in S
  <2>1. Forest(s, n, n)
    BY <1>1 DEF Forest
  <2>2. Holds(s, n, n, 0)
    <3>1. \A j \in 1 .. K : c[j] \in n + 1 .. Len(s)
      BY ChildFacts
    <3>2. QED BY <1>1, <3>1 DEF Holds
  <2>3. Listed(0, n)
    BY <2>1, <2>2
  <2>4. QED BY <2>3, <1>1
<1>6. ASSUME NEW k \in 0 .. K - 1, k \in S  PROVE k + 1 \in S
  <2>1. PICK e : Listed(k, e)
    BY <1>6
  <2>2. k + 1 \in 1 .. K
    BY <1>1
  <2>3. c[k + 1] = e + 1
    BY <2>1, NextChild
  <2>4. PICK d : /\ Subtree(s, e + 1, d)
                 /\ Lists(s, f[e + 1], e + 1, d + 1)
    BY <2>2, <2>3
  <2>5. Forest(s, n, d) /\ Holds(s, n, d, k + 1)
    BY <2>1, <2>4, NextForest
  <2>6. e \in n .. Len(s) /\ d \in e + 1 .. Len(s)
    BY <2>1, <2>4 DEF Forest, Subtree
  <2>7. Lists(s, h[k + 1], n + 1, d + 1)
    <3>1. Joined(h) /\ parts[k + 1] = f[e + 1]
      <4>1. K > 0
        BY <1>1, <2>2
      <4>2. parts[k + 1] = f[e + 1]
        BY <1>1, <2>2, <2>3
      <4> HIDE DEF Joined, K, parts
      <4>3. QED BY <1>4, <4>1, <4>2
    <3>2. CASE k = 0
      <4>1. e = n /\ h[1] = f[e + 1] /\ k + 1 = 1
        BY <2>1, <3>1, <3>2 DEF JoinSteps
      <4>2. QED BY <4>1, <2>4
    <3>3. CASE k > 0
      <4>1. Lists(s, h[k], n + 1, e + 1)
        BY <2>1, <3>3
      <4>2. h[k + 1] = h[k] \o f[e + 1]
        <5>1. k + 1 \in 2 .. K /\ (k + 1) - 1 = k
          BY <2>2, <3>3
        <5>2. QED BY <5>1, <3>1 DEF JoinSteps
      <4>3. /\ n + 1 \in 1 .. Len(s) + 1
            /\ e + 1 \in n + 1 .. Len(s) + 1
            /\ d + 1 \in e + 1 .. Len(s) + 1
        BY <1>1, <2>6
      <4>4. Lists(s, h[k] \o f[e + 1], n + 1, d + 1)
        BY <4>1, <4>3, <2>4, ListsJoin
      <4>5. QED BY <4>2, <4>4
    <3>4. QED BY <3>2, <3>3
  <2>8. Listed(k + 1, d)
    BY <2>5, <2>7, <2>2
  <2>9. QED BY <2>8, <2>2, <1>1
<1>7. K \in S
  <2> HIDE DEF S, K
  <2>1. 0 .. K \subseteq S
    BY <1>1, <1>5, <1>6, IntervalInduction
  <2>2. QED BY <2>1, <1>1
<1>8. PICK e : Listed(K, e)
  BY <1>7
<1>9. e \in n .. Len(s)
  BY <1>8 DEF Forest
<1>10. Children(s, n) \subseteq n + 1 .. e
  <2>1. ASSUME NEW m \in Children(s, n) PROVE m \in n + 1 .. e
    <3>1. PICK j \in 1 .. K : m = c[j]
      BY ChildFacts
    <3>2. c[j] \in n + 1 .. Len(s)
      BY ChildFacts
    <3>3. c[j] <= e
      BY <1>8, <1>1 DEF Holds
    <3>4. QED BY <3>1, <3>2, <3>3, <1>1, <1>9
  <2>2. QED BY <2>1
<1>11. Lists(s, r, n + 1, e + 1)
  <2>1. CASE K = 0
    <3>1. r = <<>> /\ e = n
      BY <2>1, <1>3, <1>8
    <3>2. ArrayCount(s, n + 1) \in Nat
      BY <1>1, ArrayCounts
    <3>3. QED BY <3>1, <3>2, <1>1 DEF Lists
  <2>2. CASE K > 0
    <3>1. r = h[K]
      BY <2>2, <1>4 DEF JoinSteps
    <3>2. QED BY <2>2, <3>1, <1>8
  <2>3. QED BY <1>1, <2>1, <2>2
<1>12. QED BY <1>8, <1>10, <1>11 DEF Subtree

\* A node's results are the arrays of its subtree, in the order of the tree.
LEMMA NodeListed ==
    ASSUME NEW s, WellFormed(s), NEW n \in DOMAIN s, NEW f,
           f[n] = IF s[n].tuple
                    THEN FlattenSeq([k \in DOMAIN s[n].children |->
                                        f[s[n].children[k]]])
                    ELSE <<n>>,
           \A m \in n + 1 .. Len(s) : \E d : Subtree(s, m, d) /\ Lists(s, f[m], m, d + 1)
    PROVE  \E e : Subtree(s, n, e) /\ Lists(s, f[n], n, e + 1)
<1>1. /\ n \in 1 .. Len(s) /\ Len(s) \in Nat /\ n \in DOMAIN s
      /\ s[n].tuple \in BOOLEAN
  BY ChildFacts, TreeFacts
<1>2. CASE ~s[n].tuple
  <2>1. Children(s, n) = {}
    BY <1>2 DEF WellFormed, Children
  <2>2. Subtree(s, n, n)
    BY <1>1, <2>1 DEF Subtree, Forest
  <2>3. Lists(s, f[n], n, n + 1)
    BY <1>2, ListsOne
  <2>4. QED BY <2>2, <2>3
<1>3. CASE s[n].tuple
  <2>1. \A k \in 1 .. Len(s[n].children) : \E d :
           /\ Subtree(s, s[n].children[k], d)
           /\ Lists(s, f[s[n].children[k]], s[n].children[k], d + 1)
    BY ChildFacts
  <2>2. f[n] = FlattenSeq([k \in DOMAIN s[n].children |-> f[s[n].children[k]]])
    BY <1>3
  <2>3. PICK e : Subtree(s, n, e) /\ Lists(s, f[n], n + 1, e + 1)
    BY <2>1, <2>2, ChildrenListed
  <2>4. Lists(s, <<>>, n, n + 1)
    BY <1>3, ListsOne
  <2>5. /\ n \in 1 .. Len(s) + 1 /\ n + 1 \in n .. Len(s) + 1
        /\ e + 1 \in n + 1 .. Len(s) + 1
    BY <1>1, <2>3 DEF Subtree, Forest
  <2>6. Lists(s, <<>> \o f[n], n, e + 1)
    BY <2>3, <2>4, <2>5, ListsJoin
  <2>7. <<>> \o f[n] = f[n]
    BY <2>3 DEF Lists
  <2>8. QED BY <2>3, <2>6, <2>7
<1>4. QED BY <1>1, <1>2, <1>3

\* XLAFunction goes through any tree in the order in which the other traversals do: the
\* result of an array is as far behind as there are arrays before it (flatten
\* of ngraph_xla_compat.cc is depth first, the allocation and the copy-back go through
\* ShapedBuffer's tree in pre-order).
THEOREM FlattensInOrder ==
    ASSUME NEW s, WellFormed(s)
    PROVE  FlattenedInOrder(s)
<1>1. PICK f : /\ Results(s) = f[1]
               /\ \A n \in DOMAIN s : f[n] =
                     IF s[n].tuple
                       THEN FlattenSeq([k \in DOMAIN s[n].children |->
                                           f[s[n].children[k]]])
                       ELSE <<n>>
  BY FlattenedNodes
<1> DEFINE
      N == Len(s)
      Listed(n) == \E e : Subtree(s, n, e) /\ Lists(s, f[n], n, e + 1)
      S == {k \in 0 .. N : \A n \in N - k + 1 .. N : Listed(n)}
<1>2. N \in Nat \ {0} /\ DOMAIN s = 1 .. N
  BY TreeFacts
<1>3. 0 \in S
  <2>1. N - 0 + 1 .. N = {} /\ 0 \in 0 .. N
    BY <1>2
  <2>2. QED BY <2>1
<1>4. ASSUME NEW k \in 0 .. N - 1, k \in S  PROVE k + 1 \in S
  <2> DEFINE x == N - k
  <2>1. /\ x \in DOMAIN s /\ N - k + 1 = x + 1 /\ N - (k + 1) + 1 = x
        /\ k + 1 \in 0 .. N
    BY <1>2
  <2>2. \A m \in x + 1 .. N : Listed(m)
    BY <1>4, <2>1
  <2>3. Listed(x)
    <3> HIDE DEF x
    <3> QED BY <1>1, <2>1, <2>2, NodeListed
  <2>4. \A m \in x .. N : m = x \/ m \in x + 1 .. N
    <3>1. x \in Nat /\ N \in Nat
      BY <1>2
    <3> HIDE DEF x, N
    <3>2. QED BY <3>1
  <2> HIDE DEF Listed, x
  <2>5. \A m \in x .. N : Listed(m)
    BY <2>2, <2>3, <2>4
  <2>6. QED BY <2>1, <2>5
<1>5. Listed(1)
  <2> HIDE DEF S, N
  <2>1. 0 .. N \subseteq S
    BY <1>2, <1>3, <1>4, IntervalInduction
  <2>2. N \in 0 .. N /\ N - N + 1 = 1 /\ 1 \in 1 .. N
    BY <1>2
  <2> HIDE DEF Listed
  <2>3. QED BY <2>1, <2>2 DEF S
<1>6. PICK e : Subtree(s, 1, e) /\ Lists(s, Results(s), 1, e + 1)
  BY <1>1, <1>5
<1>7. e \in 1 .. N /\ 1 \in DOMAIN s
  BY <1>2, <1>6 DEF Subtree, Forest
<1>8. e = N
  <2>1. SUFFICES ASSUME e + 1 \in 2 .. N PROVE FALSE
    <3> HIDE DEF N
    <3>1. e # N => e + 1 \in 2 .. N
      BY <1>2, <1>7
    <3>2. QED BY <3>1
  <2> DEFINE m == e + 1
  <2>2. PICK p \in 1 .. m - 1 : p \in DOMAIN s /\ m \in Children(s, p)
    <3>1. m \in 2 .. Len(s)
      BY <2>1
    <3> HIDE DEF m
    <3>2. QED BY <3>1, OneParent
  <2>3. p \in 1 .. e
    BY <1>7, <2>2
  <2>4. p = 1 \/ p \in 1 + 1 .. e
    BY <2>3
  <2>5. Children(s, p) \subseteq 1 + 1 .. e
    BY <1>6, <2>4 DEF Subtree, Forest
  <2>6. m \in 1 + 1 .. e
    BY <2>2, <2>5
  <2>7. QED BY <2>6, <1>7
<1>9. ASSUME NEW n \in DOMAIN s, ~s[n].tuple
      PROVE  Results(s)[Cardinality(ArraysBefore(s, n)) + 1] = n
  <2>1. n \in 1 .. (N + 1) - 1 /\ n \in 1 .. Len(s) + 1
    BY <1>2
  <2>2. Results(s)[ArrayCount(s, n) - ArrayCount(s, 1) + 1] = n
    BY <1>6, <1>8, <1>9, <2>1 DEF Lists
  <2>3. ArrayCount(s, 1) = 0 /\ ArrayCount(s, n) \in Nat
    BY <2>1, ArrayCounts
  <2>4. ArrayCount(s, n) - ArrayCount(s, 1) + 1 = ArrayCount(s, n) + 1
    BY <2>3
  <2>5. QED BY <2>2, <2>4 DEF ArrayCount
<1>10. QED BY <1>9 DEF FlattenedInOrder

-----------------------------------------------------------------------------
(* The shapes *)

LEMMA ShapeFacts ==
    ASSUME executable \in Executables
    PROVE  /\ shape \in Seq(Nodes)
           /\ Len(shape) \in Nat \ {0}
           /\ DOMAIN shape = 1 .. Len(shape)
           /\ \A n \in DOMAIN shape :
                 /\ shape[n].tuple \in BOOLEAN
                 /\ shape[n].children \in Seq(Nat)
                 /\ \A k \in DOMAIN shape[n].children :
                       shape[n].children[k] \in DOMAIN shape
           /\ parameters \in Nat
           /\ FlattenedInOrder(shape)
<1>1. WellFormed(shape) /\ parameters \in Nat
  BY ExecutableAssumption DEF shape, parameters
<1>2. /\ shape \in Seq(Nodes)
      /\ Len(shape) \in Nat \ {0}
      /\ DOMAIN shape = 1 .. Len(shape)
      /\ \A n \in DOMAIN shape :
            /\ shape[n].tuple \in BOOLEAN
            /\ shape[n].children \in Seq(Nat)
            /\ \A k \in DOMAIN shape[n].children :
                  shape[n].children[k] \in (n + 1) .. Len(shape)
  BY <1>1, TreeFacts
<1>3. \A n \in 1 .. Len(shape) : \A m \in (n + 1) .. Len(shape) :
         m \in 1 .. Len(shape)
  BY <1>2
<1>4. FlattenedInOrder(shape)
  BY <1>1, FlattensInOrder
<1>5. QED BY <1>1, <1>2, <1>3, <1>4

LEMMA Counting ==
    ASSUME executable \in Executables
    PROVE  /\ Before(1) = 0
           /\ \A n \in 1 .. Len(shape) + 1 :
                 Before(n) \in Nat /\ Before(n) <= Before(Len(shape) + 1)
                   /\ Before(n) <= n - 1
           /\ \A n \in DOMAIN shape :
                 Before(n + 1) = IF shape[n].tuple THEN Before(n)
                                                   ELSE Before(n) + 1
<1>1. WellFormed(shape)
  BY ExecutableAssumption DEF shape
<1>2. Len(shape) \in Nat
  BY ShapeFacts
<1>3. \A n \in 1 .. Len(shape) + 1 : Len(shape) + 1 \in n .. Len(shape) + 1
  BY <1>2
<1>4. QED BY <1>1, <1>3, ArrayCounts DEF Before

\* The predicates on frames depend on the executable only, which never changes.
LEMMA SameExecutable ==
    ASSUME UNCHANGED executable
    PROVE  /\ Frames' = Frames
           /\ \A u \in Threads :
                 /\ (Counts(frame[u]))' <=> Counts(frame'[u])
                 /\ (Sources(frame[u]))' <=> Sources(frame'[u])
                 /\ (Contents(frame[u], memory))' <=> Contents(frame'[u], memory')
<1>1. shape' = shape /\ parameters' = parameters
  BY DEF shape, parameters
<1>2. Frames' = Frames
  BY <1>1 DEF Frames, Tensors, Output
<1>3. \A u \in Threads : (Counts(frame[u]))' <=> Counts(frame'[u])
  BY <1>1 DEF Counts, Before, Done
<1>4. \A u \in Threads : (Sources(frame[u]))' <=> Sources(frame'[u])
  BY <1>1 DEF Sources, Done
<1>5. \A u \in Threads :
         (Contents(frame[u], memory))' <=> Contents(frame'[u], memory')
  BY <1>1 DEF Contents, Past, Pointers, Output
<1>6. QED BY <1>2, <1>3, <1>4, <1>5

\* An action of thread t on its own frame keeps FramesOK, if the new frame is one.
LEMMA FrameUpdate ==
    ASSUME FramesOK, NEW t \in Threads, NEW f \in Frames,
           Counts(f), Sources(f),
           frame' = [frame EXCEPT ![t] = f],
           UNCHANGED executable,
           DOMAIN memory' = Addrs,
           allocated' \subseteq Addrs,
           lost' \subseteq Addrs,
           \A a \in Arguments : memory'[a] = Argument(a)
    PROVE  FramesOK'
<1>1. frame' \in [Threads -> Frames]
  BY DEF FramesOK
<1>2. \A u \in Threads : Counts(frame'[u]) /\ Sources(frame'[u])
  BY DEF FramesOK
<1>3. QED BY <1>1, <1>2, SameExecutable DEF FramesOK

\* What FramesOK says of a thread's frame.
LEMMA FrameFacts ==
    ASSUME FramesOK, NEW t \in Threads
    PROVE  /\ frame[t] \in Frames
           /\ Counts(frame[t])
           /\ Sources(frame[t])
           /\ frame[t].node \in 1 .. Len(shape)
           /\ frame[t].node \in DOMAIN shape
           /\ Len(shape) \in Nat \ {0}
           /\ parameters \in Nat
           /\ shape[frame[t].node].tuple \in BOOLEAN
BY ShapeFacts DEF FramesOK, Counts

LEMMA NoFrameOK ==
    ASSUME executable \in Executables
    PROVE  NoFrame \in Frames /\ Counts(NoFrame) /\ Sources(NoFrame)
<1>1. 1 \in DOMAIN shape /\ parameters \in Nat
  BY ShapeFacts
<1>2. <<>> \in Seq(Inputs) /\ <<>> \in Seq(Addrs) /\ <<>> \in Seq(Tensors)
        /\ <<>> \in Seq(Arguments) /\ Len(<<>>) = 0
  OBVIOUS
<1>3. NoFrame \in Frames
  BY <1>2 DEF NoFrame, Frames, Steps
<1>4. Counts(NoFrame)
  BY <1>1, <1>2, Counting DEF NoFrame, Counts, Done
<1>5. Sources(NoFrame)
  BY <1>1, <1>2 DEF NoFrame, Sources, Done
<1>6. QED BY <1>3, <1>4, <1>5

LEMMA CallStarts ==
    ASSUME FramesOK, NEW t \in Threads, NEW arguments \in Calls,
           ExecuteOnStream(t, arguments)
    PROVE  FramesOK'
<1> DEFINE f == [frame[t] EXCEPT !.arguments = arguments,
                    !.pc = IF Len(arguments) = parameters THEN "preparing"
                                                          ELSE "failed"]
<1>0. executable \in Executables /\ frame[t] = NoFrame
  BY FrameFacts DEF FramesOK, ExecuteOnStream, At, Counts
<1>1. arguments \in Seq(Arguments)
  BY ExecutableAssumption
<1>2. f \in Frames
  BY <1>1, FrameFacts DEF Frames, Steps
<1>3. Counts(f)
  BY <1>0, FrameFacts, Counting DEF Counts, Done, NoFrame
<1>4. Sources(f)
  BY <1>0, <1>1, FrameFacts DEF Sources, Done, NoFrame
<1>5. frame' = [frame EXCEPT ![t] = f]
  BY DEF ExecuteOnStream, FramesOK, Frames
<1> HIDE DEF f
<1>6. QED
  BY <1>2, <1>3, <1>4, <1>5, FrameUpdate DEF ExecuteOnStream, FramesOK

LEMMA InputIsArgument ==
    ASSUME FramesOK, NEW t \in Threads, CreateInputTensorView(t)
    PROVE  FramesOK'
<1> DEFINE next == Len(frame[t].inputs) + 1
           input == memory[frame[t].arguments[next]]
           f == [frame[t] EXCEPT !.inputs = Append(@, input)]
<1>1. frame[t].inputs \in Seq(Inputs) /\ frame[t].arguments \in Seq(Arguments)
  BY FrameFacts DEF Frames
<1>2. next \in 1 .. Len(frame[t].arguments) /\ next <= parameters
  BY <1>1, FrameFacts DEF CreateInputTensorView, At, Sources
<1>3. frame[t].arguments[next] \in Arguments
  BY <1>1, <1>2
<1>4. input = Argument(frame[t].arguments[next])
  BY <1>3 DEF FramesOK
<1>5. input \in Inputs
  BY <1>3, <1>4 DEF Inputs
<1>6. f \in Frames
  <2>1. Append(frame[t].inputs, input) \in Seq(Inputs)
    BY <1>1, <1>5
  <2> HIDE DEF input
  <2>2. QED BY <2>1, FrameFacts DEF Frames
<1>7. Counts(f)
  BY FrameFacts DEF Frames, Counts, Done, CreateInputTensorView, At
<1>8. Sources(f)
  <2> HIDE DEF input
  <2>1. /\ f.inputs = Append(frame[t].inputs, input)
        /\ f.arguments = frame[t].arguments
        /\ f.pc = "preparing"
    BY FrameFacts DEF Frames, CreateInputTensorView, At
  <2>2. Len(f.inputs) = next
    BY <1>1, <1>5, <2>1
  <2>3. \A p \in 1 .. Len(f.inputs) : f.inputs[p] = Argument(f.arguments[p])
    BY <1>1, <1>4, <1>5, <2>1, FrameFacts DEF Sources
  <2>4. QED
    BY <1>1, <1>2, <2>1, <2>2, <2>3, FrameFacts
    DEF Sources, Done, CreateInputTensorView, At
<1>9. frame' = [frame EXCEPT ![t] = f]
  BY DEF CreateInputTensorView, FramesOK, Frames
<1> HIDE DEF f
<1>10. QED
  BY <1>6, <1>7, <1>8, <1>9, FrameUpdate DEF CreateInputTensorView, FramesOK

\* The steps of the three loops: after the last node, the next loop is at the
\* first one.
LEMMA LoopSteps ==
    ASSUME FramesOK, NEW t \in Threads, NEW step
    PROVE  /\ frame[t].node # Len(shape) =>
                 /\ NextNode(t) = frame[t].node + 1
                 /\ NextNode(t) \in DOMAIN shape
                 /\ NextPc(t, step) = frame[t].pc
           /\ frame[t].node = Len(shape) =>
                 NextNode(t) = 1 /\ NextPc(t, step) = step
           /\ NextNode(t) \in DOMAIN shape /\ NextNode(t) \in Nat
BY FrameFacts, ShapeFacts DEF NextNode, NextPc, FramesOK

LEMMA BufferIsCounted ==
    ASSUME FramesOK, NEW t \in Threads, NEW a \in Addrs, AllocateBuffer(t, a)
    PROVE  FramesOK'
<1> DEFINE n == frame[t].node
           buffers == Append(frame[t].buffers, a)
           tensors == IF shape[n].tuple
                        THEN frame[t].tensors
                        ELSE Append(frame[t].tensors, Unwritten)
           f == [frame[t] EXCEPT !.pc = NextPc(t, "pointing"),
                                 !.node = NextNode(t),
                                 !.buffers = buffers,
                                 !.tensors = tensors]
<1>0. frame[t] \in Frames /\ frame[t].pc = "preparing" /\ n \in DOMAIN shape
        /\ n \in 1 .. Len(shape) /\ Len(shape) \in Nat \ {0}
  BY FrameFacts DEF AllocateBuffer, Allocating, At
<1>1. buffers \in Seq(Addrs) /\ Len(buffers) = n
  BY <1>0, FrameFacts DEF Frames, Counts
<1>2. /\ tensors \in Seq(Tensors)
      /\ Len(tensors) = Before(n + 1)
  <2>1. Unwritten \in Tensors /\ frame[t].tensors \in Seq(Tensors)
    BY <1>0 DEF Tensors, Frames
  <2>2. Len(frame[t].tensors) = Before(n)
    BY <1>0, FrameFacts DEF Counts
  <2>3. Before(n + 1) = IF shape[n].tuple THEN Before(n) ELSE Before(n) + 1
    BY <1>0, Counting DEF FramesOK
  <2>4. QED BY <2>1, <2>2, <2>3
<1> HIDE DEF buffers, tensors, n
<1>3. /\ f.pc = NextPc(t, "pointing") /\ f.node = NextNode(t)
      /\ f.buffers = buffers /\ f.tensors = tensors
      /\ f.i = frame[t].i /\ f.inputs = frame[t].inputs
      /\ f.arguments = frame[t].arguments
      /\ f.pc \in {"preparing", "pointing"}
  BY <1>0 DEF Frames, NextPc
<1>4. f \in Frames
  BY <1>0, <1>1, <1>2, <1>3, LoopSteps DEF Frames, Steps
<1>5. Counts(f)
  <2>1. frame[t].i = 1
    BY <1>0, FrameFacts DEF Counts
  <2>2. CASE n # Len(shape)
    <3>1. f.node = n + 1 /\ f.node \in DOMAIN shape /\ f.pc = "preparing"
      BY <1>0, <1>3, <2>2, LoopSteps DEF n
    <3>2. Len(f.buffers) = f.node - 1 /\ Len(f.tensors) = Before(f.node)
      BY <1>0, <1>1, <1>2, <1>3, <3>1
    <3> HIDE DEF f
    <3>3. QED BY <1>3, <2>1, <3>1, <3>2 DEF Counts, Done
  <2>3. CASE n = Len(shape)
    <3>1. f.node = 1 /\ f.node \in DOMAIN shape /\ f.pc = "pointing"
      BY <1>0, <1>3, <2>3, LoopSteps DEF n
    <3>2. Len(f.buffers) = Len(shape) /\ Len(f.tensors) = Before(Len(shape) + 1)
      BY <1>0, <1>1, <1>2, <1>3, <2>3
    <3> HIDE DEF f
    <3>3. QED BY <1>3, <2>1, <3>1, <3>2 DEF Counts, Done
  <2>4. QED BY <2>2, <2>3
<1>6. Sources(f)
  <2>1. Len(frame[t].inputs) = parameters
    BY DEF AllocateBuffer, Allocating
  <2>2. Sources(frame[t])
    BY FrameFacts
  <2> HIDE DEF f
  <2>3. QED BY <1>0, <1>3, <2>1, <2>2 DEF Sources, Done
<1>7. frame' = [frame EXCEPT ![t] = f]
  BY <1>0 DEF AllocateBuffer, FramesOK, Frames, buffers, tensors, n
<1> HIDE DEF f
<1>8. allocated' = allocated \cup {a} /\ UNCHANGED <<executable, memory, lost>>
  BY DEF AllocateBuffer
<1>9. QED
  BY <1>4, <1>5, <1>6, <1>7, <1>8, FrameUpdate DEF FramesOK

LEMMA FailureIsCounted ==
    ASSUME FramesOK, NEW t \in Threads, AllocationFails(t)
    PROVE  FramesOK'
<1> DEFINE f == [frame[t] EXCEPT !.pc = "failed"]
<1>1. f \in Frames
  BY FrameFacts DEF Frames, Steps
<1>2. Counts(f) /\ Sources(f)
  BY FrameFacts
  DEF Frames, Counts, Sources, Done, AllocationFails, Allocating, At
<1>3. frame' = [frame EXCEPT ![t] = f]
  BY DEF AllocationFails, FramesOK, Frames
<1> HIDE DEF f
<1>4. QED
  BY <1>1, <1>2, <1>3, FrameUpdate DEF AllocationFails, FramesOK

\* The buffer of a node of an execution that has allocated all of them is its own.
LEMMA OwnBuffer ==
    ASSUME FramesOK, BuffersPartitioned, NEW t \in Threads, Done(frame[t])
    PROVE  \A n \in DOMAIN shape :
              /\ n \in DOMAIN frame[t].buffers
              /\ frame[t].buffers[n] \in Addrs
              /\ frame[t].buffers[n] \in Owned(t)
              /\ frame[t].buffers[n] \notin Arguments
              /\ \A m \in DOMAIN shape :
                    m # n => frame[t].buffers[m] # frame[t].buffers[n]
              /\ \A u \in Threads \ {t} : frame[t].buffers[n] \notin Owned(u)
<1>1. frame[t].buffers \in Seq(Addrs) /\ Len(frame[t].buffers) = Len(shape)
  BY FrameFacts DEF Frames, Counts
<1>2. DOMAIN shape = 1 .. Len(shape)
  BY ShapeFacts DEF FramesOK
<1>3. DOMAIN frame[t].buffers = DOMAIN shape
  BY <1>1, <1>2
<1>4. ASSUME NEW n \in DOMAIN shape
      PROVE  /\ frame[t].buffers[n] \in Addrs
             /\ frame[t].buffers[n] \in Owned(t)
             /\ \A m \in DOMAIN shape :
                   m # n => frame[t].buffers[m] # frame[t].buffers[n]
  <2>1. IsInjective(frame[t].buffers)
    BY DEF BuffersPartitioned
  <2>2. QED BY <1>1, <1>2, <1>3, <2>1 DEF Owned, Range, IsInjective
<1>5. /\ Owned(t) \cap Arguments = {}
      /\ \A u \in Threads \ {t} : Owned(t) \cap Owned(u) = {}
  BY DEF BuffersPartitioned
<1>6. QED BY <1>3, <1>4, <1>5

LEMMA PointersAreCounted ==
    ASSUME FramesOK, BuffersPartitioned, NEW t \in Threads, SetPointers(t)
    PROVE  FramesOK'
<1> DEFINE f == [frame[t] EXCEPT !.pc = NextPc(t, "calling"),
                                 !.node = NextNode(t)]
<1>0. frame[t] \in Frames /\ frame[t].pc = "pointing" /\ Done(frame[t])
        /\ Counts(frame[t]) /\ Sources(frame[t])
  BY FrameFacts DEF SetPointers, At, Done
<1>1. f \in Frames /\ f.pc \in {"pointing", "calling"} /\ f.node = NextNode(t)
        /\ f.pc = NextPc(t, "calling")
  BY <1>0, LoopSteps DEF Frames, Steps, NextPc
<1>2. /\ f.buffers = frame[t].buffers /\ f.tensors = frame[t].tensors
      /\ f.inputs = frame[t].inputs /\ f.arguments = frame[t].arguments
      /\ f.i = frame[t].i
  BY <1>0 DEF Frames
<1>3. frame' = [frame EXCEPT ![t] = f]
  BY DEF SetPointers, FramesOK, Frames
<1>4. f.pc = "calling" => f.node = 1
  BY <1>0, <1>1, LoopSteps
<1> HIDE DEF f
<1>5. Counts(f)
  BY <1>0, <1>1, <1>2, <1>4, LoopSteps DEF Counts, Done
<1>6. Sources(f)
  BY <1>0, <1>1, <1>2 DEF Sources, Done
<1>7. DOMAIN memory' = Addrs /\ \A a \in Arguments : memory'[a] = Argument(a)
  BY <1>0, OwnBuffer, FrameFacts DEF SetPointers, FramesOK
<1>8. QED
  BY <1>1, <1>3, <1>5, <1>6, <1>7, FrameUpdate DEF SetPointers, FramesOK

LEMMA CallIsCounted ==
    ASSUME FramesOK, NEW t \in Threads, Call(t)
    PROVE  FramesOK'
<1> DEFINE tensors == [k \in DOMAIN frame[t].tensors |->
                          ResultOf(Results(shape)[k], frame[t].inputs)]
           f == [frame[t] EXCEPT !.tensors = tensors, !.pc = "copying"]
<1>0. frame[t] \in Frames /\ frame[t].pc = "calling" /\ Done(frame[t])
        /\ Counts(frame[t]) /\ Sources(frame[t])
  BY FrameFacts DEF Call, At, Done
<1>1. tensors \in Seq(Tensors) /\ Len(tensors) = Len(frame[t].tensors)
  <2>1. /\ frame[t].tensors \in Seq(Tensors)
        /\ frame[t].inputs \in Seq(Inputs)
    BY <1>0 DEF Frames
  <2>2. DOMAIN frame[t].tensors = 1 .. Len(frame[t].tensors)
          /\ Len(frame[t].tensors) \in Nat
    BY <2>1
  <2>3. \A k \in 1 .. Len(frame[t].tensors) :
           ResultOf(Results(shape)[k], frame[t].inputs) \in Tensors
    BY <2>1, <2>2 DEF Tensors, Output
  <2>4. QED BY <2>2, <2>3
<1> HIDE DEF tensors
<1>2. f \in Frames
  BY <1>0, <1>1 DEF Frames, Steps
<1>3. /\ f.pc = "copying" /\ f.tensors = tensors /\ f.node = frame[t].node
      /\ f.buffers = frame[t].buffers /\ f.inputs = frame[t].inputs
      /\ f.arguments = frame[t].arguments /\ f.i = frame[t].i
  BY <1>0 DEF Frames
<1>4. frame' = [frame EXCEPT ![t] = f]
  BY <1>0 DEF Call, FramesOK, Frames, tensors
<1> HIDE DEF f
<1>5. Counts(f)
  <2>1. f.node = 1 /\ f.i = 1 /\ Before(1) = 0
    BY <1>0, <1>3, Counting DEF Counts, FramesOK
  <2>2. QED BY <1>0, <1>1, <1>3, <2>1 DEF Counts, Done
<1>6. Sources(f)
  BY <1>0, <1>3 DEF Sources, Done
<1>7. QED
  BY <1>2, <1>4, <1>5, <1>6, FrameUpdate DEF Call, FramesOK

LEMMA CopyIsCounted ==
    ASSUME FramesOK, BuffersPartitioned, NEW t \in Threads, CopyBack(t)
    PROVE  FramesOK'
<1> DEFINE n == frame[t].node
           i == IF shape[n].tuple THEN frame[t].i ELSE frame[t].i + 1
           f == [frame[t] EXCEPT !.pc = NextPc(t, "returned"),
                                 !.node = NextNode(t), !.i = i]
<1>0. /\ frame[t] \in Frames /\ frame[t].pc = "copying" /\ Done(frame[t])
      /\ Counts(frame[t]) /\ Sources(frame[t])
      /\ n \in DOMAIN shape /\ n \in 1 .. Len(shape)
  BY FrameFacts DEF CopyBack, At, Done
<1>1. i \in Nat /\ i = Before(n + 1) + 1
  <2>1. frame[t].i = Before(n) + 1 /\ frame[t].i \in Nat
    BY <1>0 DEF Counts, Frames
  <2>2. /\ Before(n + 1) = IF shape[n].tuple THEN Before(n) ELSE Before(n) + 1
        /\ Before(n) \in Nat
    BY <1>0, Counting, FrameFacts DEF FramesOK
  <2>3. QED BY <2>1, <2>2
<1>2. frame' = [frame EXCEPT ![t] = f]
  BY <1>0 DEF CopyBack, FramesOK, Frames
<1> HIDE DEF i, n
<1>3. f \in Frames /\ f.pc \in {"copying", "returned"} /\ f.node = NextNode(t)
        /\ f.pc = NextPc(t, "returned") /\ f.i = i
  BY <1>0, <1>1, LoopSteps DEF Frames, Steps, NextPc
<1>4. /\ f.buffers = frame[t].buffers /\ f.tensors = frame[t].tensors
      /\ f.inputs = frame[t].inputs /\ f.arguments = frame[t].arguments
  BY <1>0 DEF Frames
<1> HIDE DEF f
<1>5. Counts(f)
  <2>1. Len(f.buffers) = Len(shape) /\ Len(f.tensors) = Before(Len(shape) + 1)
    BY <1>0, <1>4 DEF Counts
  <2>2. f.node \in DOMAIN shape
    BY <1>3, LoopSteps
  <2>3. CASE n # Len(shape)
    <3>1. f.node = n + 1 /\ f.pc = "copying" /\ f.i = Before(f.node) + 1
      BY <1>0, <1>1, <1>3, <2>3, LoopSteps DEF n
    <3>2. QED BY <2>1, <2>2, <3>1 DEF Counts, Done
  <2>4. CASE n = Len(shape)
    <3>1. f.node = 1 /\ f.pc = "returned" /\ f.i = Len(f.tensors) + 1
      BY <1>0, <1>1, <1>3, <2>1, <2>4, LoopSteps DEF n
    <3>2. QED BY <2>1, <2>2, <3>1 DEF Counts, Done
  <2>5. QED BY <2>3, <2>4
<1>6. Sources(f)
  BY <1>0, <1>3, <1>4 DEF Sources, Done
<1>7. DOMAIN memory' = Addrs /\ \A a \in Arguments : memory'[a] = Argument(a)
  BY <1>0, OwnBuffer DEF CopyBack, FramesOK, n
<1>8. QED
  BY <1>2, <1>3, <1>5, <1>6, <1>7, FrameUpdate DEF CopyBack, FramesOK

LEMMA ReturnIsCounted ==
    ASSUME FramesOK, BuffersPartitioned, NEW t \in Threads,
           Release(t) \/ Dismiss(t)
    PROVE  FramesOK'
<1>1. frame' = [frame EXCEPT ![t] = NoFrame] /\ UNCHANGED executable
  BY DEF Release, Dismiss
<1>2. NoFrame \in Frames /\ Counts(NoFrame) /\ Sources(NoFrame)
  BY NoFrameOK DEF FramesOK
<1>3. Range(frame[t].buffers) \subseteq Addrs
  <2>1. frame[t].buffers \in Seq(Addrs)
    BY FrameFacts DEF Frames
  <2>2. QED BY <2>1 DEF Range
<1>4. allocated' \subseteq Addrs /\ lost' \subseteq Addrs
  BY <1>3 DEF Release, Dismiss, FramesOK
<1>5. DOMAIN memory' = Addrs /\ \A a \in Arguments : memory'[a] = Argument(a)
  <2>1. Range(frame[t].buffers) \cap Arguments = {}
    BY DEF BuffersPartitioned, Owned
  <2>2. CASE Dismiss(t)
    BY <2>2 DEF Dismiss, FramesOK
  <2>3. CASE Release(t)
    BY <2>1, <2>3, ExecutableAssumption DEF Release, FramesOK
  <2>4. QED BY <2>2, <2>3
<1>6. QED BY <1>1, <1>2, <1>4, <1>5, FrameUpdate

LEMMA FramesStep == FramesOK /\ BuffersPartitioned /\ [Next]_vars => FramesOK'
<1> SUFFICES ASSUME FramesOK, BuffersPartitioned, [Next]_vars PROVE FramesOK'
  OBVIOUS
<1>1. ASSUME NEW t \in Threads,
             \/ \E arguments \in Calls : ExecuteOnStream(t, arguments)
             \/ Execute(t) \/ Release(t) \/ Dismiss(t)
      PROVE  FramesOK'
  BY <1>1, CallStarts, InputIsArgument, BufferIsCounted, FailureIsCounted,
     PointersAreCounted, CallIsCounted, CopyIsCounted, ReturnIsCounted
  DEF Execute
<1>2. CASE UNCHANGED vars
  <2>1. UNCHANGED <<executable, memory, allocated, lost, frame>>
    BY <1>2 DEF vars
  <2>2. \A u \in Threads : Counts(frame'[u]) /\ Sources(frame'[u])
    BY <2>1 DEF FramesOK
  <2>3. QED BY <2>1, <2>2, SameExecutable DEF FramesOK
<1>3. QED BY <1>1, <1>2 DEF Next

-----------------------------------------------------------------------------
(* Buffers *)

\* An allocated buffer is of one kind, said of its address.
LEMMA Places ==
    BuffersPartitioned <=>
        /\ \A a : a \in allocated <=> \/ a \in Arguments
                                       \/ a \in lost
                                       \/ \E t \in Threads : a \in Owned(t)
        /\ Arguments \cap lost = {}
        /\ \A t \in Threads :
              /\ IsInjective(frame[t].buffers)
              /\ Owned(t) \cap (Arguments \cup lost) = {}
              /\ \A u \in Threads \ {t} : Owned(t) \cap Owned(u) = {}
BY DEF BuffersPartitioned

LEMMA OneMore ==
    ASSUME NEW s \in Seq(Addrs), NEW a \in Addrs
    PROVE  /\ Range(Append(s, a)) = Range(s) \cup {a}
           /\ a \notin Range(s) /\ IsInjective(s) => IsInjective(Append(s, a))
<1>1. /\ DOMAIN s = 1 .. Len(s) /\ Len(s) \in Nat
      /\ DOMAIN Append(s, a) = 1 .. Len(s) + 1
      /\ \A k \in 1 .. Len(s) : Append(s, a)[k] = s[k]
      /\ Append(s, a)[Len(s) + 1] = a
  OBVIOUS
<1>2. Range(Append(s, a)) = Range(s) \cup {a}
  BY <1>1 DEF Range
<1>3. ASSUME a \notin Range(s), IsInjective(s)
      PROVE  IsInjective(Append(s, a))
  BY <1>1, <1>3 DEF Range, IsInjective
<1>4. QED BY <1>2, <1>3

\* The steps that leave the buffers where they are.
BuffersKept ==
    /\ UNCHANGED <<allocated, lost>>
    /\ \A u \in Threads : frame'[u].buffers = frame[u].buffers

LEMMA KeptPartition == BuffersPartitioned /\ BuffersKept => BuffersPartitioned'
<1> SUFFICES ASSUME BuffersPartitioned, BuffersKept PROVE BuffersPartitioned'
  OBVIOUS
<1>1. \A u \in Threads : Owned(u)' = Owned(u)
  BY DEF BuffersKept, Owned
<1>2. {Owned(u)' : u \in Threads} = {Owned(u) : u \in Threads}
  BY <1>1
<1>3. QED BY <1>1, <1>2 DEF BuffersPartitioned, BuffersKept

LEMMA AllocationPartitions ==
    ASSUME FramesOK, BuffersPartitioned, NEW t \in Threads, NEW a \in Addrs,
           AllocateBuffer(t, a)
    PROVE  BuffersPartitioned'
<1>1. a \in Addrs /\ a \notin allocated
  BY ExecutableAssumption DEF AllocateBuffer
<1>2. /\ frame'[t].buffers = Append(frame[t].buffers, a)
      /\ \A u \in Threads \ {t} : frame'[u].buffers = frame[u].buffers
      /\ allocated' = allocated \cup {a} /\ lost' = lost
  BY FrameFacts DEF AllocateBuffer, FramesOK, Frames
<1>3. a \notin Arguments /\ a \notin lost /\ \A u \in Threads : a \notin Owned(u)
  BY <1>1, Places
<1>4. frame[t].buffers \in Seq(Addrs)
  BY FrameFacts DEF Frames
<1>5. /\ Owned(t)' = Owned(t) \cup {a}
      /\ \A u \in Threads \ {t} : Owned(u)' = Owned(u)
      /\ IsInjective(frame'[t].buffers)
  BY <1>2, <1>3, <1>4, OneMore DEF Owned, BuffersPartitioned
<1>6. \A u \in Threads : IsInjective(frame'[u].buffers)
  BY <1>2, <1>5 DEF BuffersPartitioned
<1>7. \A u \in Threads : Owned(u)' \cap (Arguments \cup lost') = {}
  BY <1>2, <1>3, <1>5 DEF BuffersPartitioned
<1>8. \A u \in Threads : \A v \in Threads \ {u} : Owned(u)' \cap Owned(v)' = {}
  BY <1>3, <1>5 DEF BuffersPartitioned
<1>9. \A b : b \in allocated' <=> \/ b \in Arguments
                                  \/ b \in lost'
                                  \/ \E u \in Threads : b \in Owned(u)'
  <2>1. \A b : b \in allocated <=> \/ b \in Arguments
                                   \/ b \in lost
                                   \/ \E u \in Threads : b \in Owned(u)
    BY Places
  <2>2. QED BY <1>2, <1>5, <2>1
<1>10. allocated' = Arguments \cup lost' \cup UNION {Owned(u)' : u \in Threads}
  BY <1>9
<1>11. QED BY <1>2, <1>6, <1>7, <1>8, <1>10 DEF BuffersPartitioned

LEMMA ReturnPartitions ==
    ASSUME FramesOK, BuffersPartitioned, NEW t \in Threads,
           Release(t) \/ Dismiss(t)
    PROVE  BuffersPartitioned'
<1>1. /\ frame'[t].buffers = <<>>
      /\ \A u \in Threads \ {t} : frame'[u].buffers = frame[u].buffers
  BY DEF Release, Dismiss, FramesOK, NoFrame
<1>2. \/ allocated' = allocated \ Owned(t) /\ lost' = lost
      \/ allocated' = allocated /\ lost' = lost \cup Owned(t)
  BY DEF Release, Dismiss, Owned
<1>3. /\ Owned(t)' = {} /\ IsInjective(frame'[t].buffers)
      /\ \A u \in Threads \ {t} : Owned(u)' = Owned(u)
  BY <1>1 DEF Owned, Range, IsInjective
<1>4. \A u \in Threads : IsInjective(frame'[u].buffers)
  BY <1>1, <1>3 DEF BuffersPartitioned
<1>5. /\ Owned(t) \cap (Arguments \cup lost) = {}
      /\ \A u \in Threads \ {t} : /\ Owned(u) \cap (Arguments \cup lost) = {}
                                   /\ Owned(u) \cap Owned(t) = {}
      /\ Arguments \cap lost = {}
  BY DEF BuffersPartitioned
<1>6. /\ Arguments \cap lost' = {}
      /\ \A u \in Threads : Owned(u)' \cap (Arguments \cup lost') = {}
  BY <1>2, <1>3, <1>5
<1>7. \A u \in Threads : \A v \in Threads \ {u} : Owned(u)' \cap Owned(v)' = {}
  BY <1>3 DEF BuffersPartitioned
<1>8. \A b : b \in allocated' <=> \/ b \in Arguments
                                  \/ b \in lost'
                                  \/ \E u \in Threads : b \in Owned(u)'
  <2>1. \A b : b \in allocated <=> \/ b \in Arguments
                                   \/ b \in lost
                                   \/ \E u \in Threads : b \in Owned(u)
    BY Places
  <2>2. QED BY <1>2, <1>3, <1>5, <2>1
<1>9. allocated' = Arguments \cup lost' \cup UNION {Owned(u)' : u \in Threads}
  BY <1>8
<1>10. QED BY <1>4, <1>6, <1>7, <1>9 DEF BuffersPartitioned

LEMMA PartitionStep ==
    FramesOK /\ BuffersPartitioned /\ [Next]_vars => BuffersPartitioned'
<1> SUFFICES ASSUME FramesOK, BuffersPartitioned, [Next]_vars
             PROVE  BuffersPartitioned'
  OBVIOUS
<1>1. ASSUME NEW t \in Threads,
             \/ \E arguments \in Calls : ExecuteOnStream(t, arguments)
             \/ CreateInputTensorView(t) \/ AllocationFails(t)
             \/ SetPointers(t) \/ Call(t) \/ CopyBack(t)
      PROVE  BuffersPartitioned'
  <2>1. frame \in [Threads -> Frames]
    BY DEF FramesOK
  <2>2. CASE \E arguments \in Calls : ExecuteOnStream(t, arguments)
    BY <2>1, <2>2, KeptPartition DEF BuffersKept, Frames, ExecuteOnStream
  <2>3. CASE CreateInputTensorView(t)
    BY <2>1, <2>3, KeptPartition DEF BuffersKept, Frames, CreateInputTensorView
  <2>4. CASE AllocationFails(t)
    BY <2>1, <2>4, KeptPartition DEF BuffersKept, Frames, AllocationFails
  <2>5. CASE SetPointers(t)
    BY <2>1, <2>5, KeptPartition DEF BuffersKept, Frames, SetPointers
  <2>6. CASE Call(t)
    BY <2>1, <2>6, KeptPartition DEF BuffersKept, Frames, Call
  <2>7. CASE CopyBack(t)
    BY <2>1, <2>7, KeptPartition DEF BuffersKept, Frames, CopyBack
  <2>8. QED BY <1>1, <2>2, <2>3, <2>4, <2>5, <2>6, <2>7
<1>2. CASE UNCHANGED vars
  BY <1>2, KeptPartition DEF BuffersKept, vars
<1>3. QED
  BY <1>1, <1>2, AllocationPartitions, ReturnPartitions DEF Next, Execute

-----------------------------------------------------------------------------
(* Contents *)

\* While its locals and its buffers stay the same, so do the contents of a result.
LEMMA ContentsKept ==
    ASSUME FramesOK, NEW u \in Threads, Contents(frame[u], memory), NEW m,
           Done(frame[u]) => \A n \in DOMAIN shape :
               m[frame[u].buffers[n]] = memory[frame[u].buffers[n]]
    PROVE  Contents(frame[u], m)
BY DEF Contents, Past, Done

\* An execution that is not through with the allocations has no contents yet.
LEMMA NothingYet ==
    ASSUME NEW f, NEW m, ~Done(f)
    PROVE  Contents(f, m)
BY DEF Contents, Past, Done

\* A step of thread t that writes only to its own buffers keeps ContentsOK, if t's
\* contents are right after it.
LEMMA ContentsUpdate ==
    ASSUME FramesOK, BuffersPartitioned, ContentsOK, NEW t \in Threads,
           UNCHANGED executable,
           \A u \in Threads \ {t} : frame'[u] = frame[u],
           \A a \in Addrs \ Owned(t) : memory'[a] = memory[a],
           Contents(frame'[t], memory')
    PROVE  ContentsOK'
<1>1. ASSUME NEW u \in Threads \ {t}
      PROVE  Contents(frame'[u], memory')
  <2>1. Done(frame[u]) => \A n \in DOMAIN shape :
           memory'[frame[u].buffers[n]] = memory[frame[u].buffers[n]]
    BY OwnBuffer
  <2>2. Contents(frame[u], memory)
    BY DEF ContentsOK
  <2>3. Contents(frame[u], memory')
    BY <2>1, <2>2, ContentsKept
  <2>4. QED BY <2>3
<1>2. QED BY <1>1, SameExecutable DEF ContentsOK

LEMMA PreparationStep ==
    ASSUME FramesOK, BuffersPartitioned, ContentsOK, NEW t \in Threads,
           \/ \E arguments \in Calls : ExecuteOnStream(t, arguments)
           \/ CreateInputTensorView(t)
           \/ AllocationFails(t)
           \/ Release(t) \/ Dismiss(t)
    PROVE  ContentsOK'
<1>1. frame \in [Threads -> Frames]
  BY DEF FramesOK
<1>2. UNCHANGED executable /\ \A u \in Threads \ {t} : frame'[u] = frame[u]
  BY <1>1 DEF ExecuteOnStream, CreateInputTensorView, AllocationFails, Release,
              Dismiss
<1>3. frame'[t].pc \in {"idle", "preparing", "failed"}
  <2>1. CASE \E arguments \in Calls : ExecuteOnStream(t, arguments)
    BY <1>1, <2>1 DEF ExecuteOnStream, Frames
  <2>2. CASE CreateInputTensorView(t)
    BY <1>1, <2>2 DEF CreateInputTensorView, At, Frames
  <2>3. CASE AllocationFails(t)
    BY <1>1, <2>3 DEF AllocationFails, Frames
  <2>4. CASE Release(t) \/ Dismiss(t)
    BY <1>1, <2>4 DEF Release, Dismiss, NoFrame
  <2>5. QED BY <2>1, <2>2, <2>3, <2>4
<1>4. \A a \in Addrs \ Owned(t) : memory'[a] = memory[a]
  BY DEF ExecuteOnStream, CreateInputTensorView, AllocationFails, Release,
         Dismiss, Owned
<1>5. Contents(frame'[t], memory')
  BY <1>3, NothingYet DEF Done
<1>6. QED BY <1>2, <1>4, <1>5, ContentsUpdate

LEMMA AllocationStep ==
    ASSUME FramesOK, BuffersPartitioned, ContentsOK, NEW t \in Threads,
           NEW a \in Addrs, AllocateBuffer(t, a)
    PROVE  ContentsOK'
<1>1. frame \in [Threads -> Frames] /\ frame[t].pc = "preparing"
  BY DEF FramesOK, AllocateBuffer, Allocating, At
<1>2. /\ UNCHANGED <<executable, memory>>
      /\ \A u \in Threads \ {t} : frame'[u] = frame[u]
      /\ frame'[t].pc = NextPc(t, "pointing") /\ frame'[t].node = NextNode(t)
  BY <1>1 DEF AllocateBuffer, Frames
<1>3. CASE frame'[t].pc = "preparing"
  BY <1>2, <1>3, NothingYet, ContentsUpdate DEF Done
<1>4. CASE frame'[t].pc = "pointing"
  <2>1. frame'[t].node = 1
    BY <1>1, <1>2, <1>4, LoopSteps
  <2>2. \A n \in DOMAIN shape : ~(n < 1)
    BY ShapeFacts DEF FramesOK
  <2>3. Contents(frame'[t], memory')
    BY <1>4, <2>1, <2>2 DEF Contents, Past
  <2>4. QED BY <1>2, <2>3, ContentsUpdate
<1>5. QED BY <1>1, <1>2, <1>3, <1>4 DEF NextPc

\* The loop at node n of thread t is through with n after the step, and with no
\* other node than those it was through with before.
LEMMA LoopPasses ==
    ASSUME FramesOK, NEW t \in Threads, NEW step, NEW next, step # next,
           frame[t].pc = step, NEW f,
           f.pc = NextPc(t, next), f.node = NextNode(t)
    PROVE  \A n \in DOMAIN shape :
              f.pc = next \/ (f.pc = step /\ n < f.node) =>
                  n = frame[t].node \/ n < frame[t].node
<1>1. /\ DOMAIN shape = 1 .. Len(shape) /\ Len(shape) \in Nat \ {0}
      /\ frame[t].node \in 1 .. Len(shape)
  BY FrameFacts, ShapeFacts DEF FramesOK
<1>2. QED BY <1>1 DEF NextPc, NextNode

LEMMA PointersStep ==
    ASSUME FramesOK, BuffersPartitioned, ContentsOK, NEW t \in Threads,
           SetPointers(t)
    PROVE  ContentsOK'
<1> DEFINE n == frame[t].node
           f == frame'[t]
<1>1. /\ frame[t] \in Frames /\ frame[t].pc = "pointing" /\ Done(frame[t])
      /\ n \in DOMAIN shape
  BY FrameFacts DEF SetPointers, At, Done
<1>2. /\ UNCHANGED executable
      /\ \A u \in Threads \ {t} : frame'[u] = frame[u]
      /\ f.pc = NextPc(t, "calling") /\ f.node = NextNode(t)
      /\ f.buffers = frame[t].buffers
  BY <1>1 DEF SetPointers, FramesOK, Frames
<1>3. memory' = IF shape[n].tuple
                  THEN [memory EXCEPT ![frame[t].buffers[n]] =
                                          Pointers(frame[t], n)]
                  ELSE memory
  BY DEF SetPointers, Pointers
<1>4. \A m \in DOMAIN shape : Pointers(f, m) = Pointers(frame[t], m)
  BY <1>2 DEF Pointers
<1>5. f.pc \in {"pointing", "calling"}
  BY <1>1, <1>2 DEF NextPc
<1> HIDE DEF f, n
<1>6. \A a \in Addrs \ Owned(t) : memory'[a] = memory[a]
  BY <1>1, <1>3, OwnBuffer
<1>7. ASSUME NEW m \in DOMAIN shape, shape[m].tuple,
             Past(f, m, "pointing", {"calling", "copying", "returned"})
      PROVE  memory'[f.buffers[m]] = Pointers(f, m)
  <2>1. f.pc = "calling" \/ (f.pc = "pointing" /\ m < f.node)
    BY <1>5, <1>7 DEF Past
  <2>2. m = n \/ m < n
    BY <1>1, <1>2, <2>1, LoopPasses DEF n
  <2>3. CASE m = n
    <3>1. frame[t].buffers[n] \in DOMAIN memory
      BY <1>1, OwnBuffer DEF FramesOK
    <3>2. QED BY <1>2, <1>3, <1>4, <1>7, <2>3, <3>1
  <2>4. CASE m # n
    <3>1. Past(frame[t], m, "pointing", {"calling", "copying", "returned"})
      BY <1>1, <2>2, <2>4 DEF Past, n
    <3>2. memory[frame[t].buffers[m]] = Pointers(frame[t], m)
      BY <1>7, <3>1 DEF ContentsOK, Contents
    <3>3. frame[t].buffers[m] # frame[t].buffers[n]
      BY <1>1, <2>4, OwnBuffer
    <3>4. frame[t].buffers[m] \in DOMAIN memory
      BY <1>1, OwnBuffer DEF FramesOK
    <3>5. QED BY <1>2, <1>3, <1>4, <3>2, <3>3, <3>4
  <2>5. QED BY <2>3, <2>4
<1>8. Contents(f, memory')
  BY <1>5, <1>7 DEF Contents, Past
<1>9. QED BY <1>2, <1>6, <1>8, ContentsUpdate DEF f

LEMMA CallStep ==
    ASSUME FramesOK, BuffersPartitioned, ContentsOK, NEW t \in Threads, Call(t)
    PROVE  ContentsOK'
<1> DEFINE f == frame'[t]
<1>1. /\ frame[t] \in Frames /\ frame[t].pc = "calling" /\ frame[t].node = 1
      /\ Contents(frame[t], memory)
  BY FrameFacts DEF Call, At, Counts, ContentsOK
<1>2. /\ UNCHANGED <<executable, memory>>
      /\ \A u \in Threads \ {t} : frame'[u] = frame[u]
      /\ f.pc = "copying" /\ f.node = 1
      /\ f.buffers = frame[t].buffers /\ f.inputs = frame[t].inputs
      /\ f.tensors = [k \in DOMAIN frame[t].tensors |->
                         ResultOf(Results(shape)[k], frame[t].inputs)]
  BY <1>1 DEF Call, FramesOK, Frames
<1>3. \A k \in 1 .. Len(f.tensors) : f.tensors[k] = Output(k, f.inputs)
  <2>1. frame[t].tensors \in Seq(Tensors)
    BY <1>1 DEF Frames
  <2>2. DOMAIN frame[t].tensors = 1 .. Len(frame[t].tensors)
          /\ Len(frame[t].tensors) \in Nat
    BY <2>1
  <2>3. Len(f.tensors) = Len(frame[t].tensors)
    <3> HIDE DEF f
    <3>1. f.tensors \in [1 .. Len(frame[t].tensors) ->
                 {ResultOf(Results(shape)[k], frame[t].inputs) :
                      k \in 1 .. Len(frame[t].tensors)}]
      BY <1>2, <2>2
    <3>2. QED BY <2>2, <3>1
  <2>4. QED BY <1>2, <2>2, <2>3 DEF Output
<1>4. \A m \in DOMAIN shape : Pointers(f, m) = Pointers(frame[t], m)
  BY <1>2 DEF Pointers
<1>5. \A m \in DOMAIN shape : ~(m < 1)
  BY ShapeFacts DEF FramesOK
<1> HIDE DEF f
<1>6. Contents(f, memory')
  BY <1>1, <1>2, <1>3, <1>4, <1>5 DEF Contents, Past
<1>7. QED BY <1>2, <1>6, ContentsUpdate DEF f

\* The counter is at the tensor that holds the result for this node: the copy-back
\* and XLAFunction count the same.
LEMMA CounterRight ==
    ASSUME FramesOK, ContentsOK, NEW t \in Threads, CopyBack(t),
           ~shape[frame[t].node].tuple
    PROVE  frame[t].tensors[frame[t].i] =
               ResultOf(frame[t].node, frame[t].inputs)
<1> DEFINE n == frame[t].node
<1>1. /\ n \in DOMAIN shape /\ frame[t].i = Before(n) + 1
      /\ Len(frame[t].tensors) = Before(Len(shape) + 1)
      /\ n \in 1 .. Len(shape) /\ Len(shape) \in Nat \ {0}
  BY FrameFacts DEF CopyBack, At, Done, Counts
<1>2. /\ Before(n) \in Nat /\ Before(n + 1) = Before(n) + 1
      /\ Before(n + 1) <= Before(Len(shape) + 1)
      /\ Before(Len(shape) + 1) \in Nat
  <2>1. n + 1 \in 1 .. Len(shape) + 1 /\ n \in 1 .. Len(shape) + 1
          /\ Len(shape) + 1 \in 1 .. Len(shape) + 1
    BY <1>1
  <2> HIDE DEF n
  <2>2. QED BY <1>1, <2>1, Counting DEF FramesOK, n
<1>3. frame[t].i \in 1 .. Len(frame[t].tensors)
  BY <1>1, <1>2
<1>4. frame[t].tensors[frame[t].i] = Output(frame[t].i, frame[t].inputs)
  BY <1>3 DEF ContentsOK, Contents, CopyBack, At
<1>5. Results(shape)[Before(n) + 1] = n
  BY <1>1, ShapeFacts DEF FramesOK, FlattenedInOrder, Before, ArrayCount
<1>6. QED BY <1>1, <1>4, <1>5 DEF Output

LEMMA CopyStep ==
    ASSUME FramesOK, BuffersPartitioned, ContentsOK, NEW t \in Threads,
           CopyBack(t)
    PROVE  ContentsOK'
<1> DEFINE n == frame[t].node
           f == frame'[t]
<1>1. /\ frame[t] \in Frames /\ frame[t].pc = "copying" /\ Done(frame[t])
      /\ n \in DOMAIN shape /\ Contents(frame[t], memory)
  BY FrameFacts DEF CopyBack, At, Done, ContentsOK
<1>2. /\ UNCHANGED executable
      /\ \A u \in Threads \ {t} : frame'[u] = frame[u]
      /\ f.pc = NextPc(t, "returned") /\ f.node = NextNode(t)
      /\ f.buffers = frame[t].buffers /\ f.tensors = frame[t].tensors
      /\ f.inputs = frame[t].inputs
  BY <1>1 DEF CopyBack, FramesOK, Frames
<1>3. memory' = IF shape[n].tuple
                  THEN memory
                  ELSE [memory EXCEPT ![frame[t].buffers[n]] =
                                          ResultOf(n, frame[t].inputs)]
  BY CounterRight DEF CopyBack
<1>4. \A m \in DOMAIN shape : Pointers(f, m) = Pointers(frame[t], m)
  BY <1>2 DEF Pointers
<1>5. f.pc \in {"copying", "returned"}
  BY <1>1, <1>2 DEF NextPc
<1> HIDE DEF f, n
<1>6. \A a \in Addrs \ Owned(t) : memory'[a] = memory[a]
  BY <1>1, <1>3, OwnBuffer
<1>7. \A m \in DOMAIN shape :
         /\ frame[t].buffers[m] \in DOMAIN memory
         /\ m # n => frame[t].buffers[m] # frame[t].buffers[n]
  BY <1>1, OwnBuffer DEF FramesOK
<1>8. ASSUME NEW m \in DOMAIN shape, shape[m].tuple
      PROVE  memory'[f.buffers[m]] = Pointers(f, m)
  <2>1. memory[frame[t].buffers[m]] = Pointers(frame[t], m)
    BY <1>1, <1>8 DEF Contents, Past
  <2>2. QED BY <1>1, <1>2, <1>3, <1>4, <1>7, <1>8, <2>1
<1>9. ASSUME NEW m \in DOMAIN shape, ~shape[m].tuple,
             Past(f, m, "copying", {"returned"})
      PROVE  memory'[f.buffers[m]] = ResultOf(m, f.inputs)
  <2>1. f.pc = "returned" \/ (f.pc = "copying" /\ m < f.node)
    BY <1>9 DEF Past
  <2>2. m = n \/ m < n
    BY <1>1, <1>2, <2>1, LoopPasses DEF n
  <2>3. CASE m = n
    BY <1>2, <1>3, <1>7, <1>9, <2>3
  <2>4. CASE m # n
    <3>1. Past(frame[t], m, "copying", {"returned"})
      BY <1>1, <2>2, <2>4 DEF Past, n
    <3>2. memory[frame[t].buffers[m]] = ResultOf(m, frame[t].inputs)
      BY <1>1, <1>9, <3>1 DEF Contents
    <3>3. QED BY <1>1, <1>2, <1>3, <1>7, <2>4, <3>2
  <2>5. QED BY <2>3, <2>4
<1>10. \A k \in 1 .. Len(f.tensors) : f.tensors[k] = Output(k, f.inputs)
  BY <1>1, <1>2 DEF Contents
<1>11. Contents(f, memory')
  BY <1>8, <1>9, <1>10 DEF Contents
<1>12. QED BY <1>2, <1>6, <1>11, ContentsUpdate DEF f

LEMMA ContentsStep == ExecutionInv /\ [Next]_vars => ContentsOK'
<1> SUFFICES ASSUME FramesOK, BuffersPartitioned, ContentsOK, [Next]_vars
             PROVE  ContentsOK'
  BY DEF ExecutionInv
<1>1. CASE UNCHANGED vars
  <2>1. UNCHANGED <<executable, memory, frame>>
    BY <1>1 DEF vars
  <2>2. QED BY <2>1, SameExecutable DEF ContentsOK
<1>2. QED
  BY <1>1, PreparationStep, AllocationStep, PointersStep, CallStep, CopyStep
  DEF Next, Execute

-----------------------------------------------------------------------------
(* Theorems *)

LEMMA ExecutionInvariant == Spec => []ExecutionInv
<1>1. Init => ExecutionInv
  <2> SUFFICES ASSUME Init PROVE ExecutionInv
    OBVIOUS
  <2>1. \A t \in Threads : frame[t] = NoFrame
    BY DEF Init
  <2>2. FramesOK
    BY <2>1, NoFrameOK, ExecutableAssumption DEF Init, FramesOK
  <2>3. BuffersPartitioned
    <3>1. \A t \in Threads : Owned(t) = {} /\ IsInjective(frame[t].buffers)
      BY <2>1 DEF NoFrame, Owned, Range, IsInjective
    <3>2. QED BY <3>1 DEF Init, BuffersPartitioned
  <2>4. ContentsOK
    BY <2>1, NothingYet DEF ContentsOK, NoFrame, Done
  <2>5. QED BY <2>2, <2>3, <2>4 DEF ExecutionInv
<1>2. ExecutionInv /\ [Next]_vars => ExecutionInv'
  BY FramesStep, PartitionStep, ContentsStep DEF ExecutionInv
<1>3. QED BY <1>1, <1>2, PTL DEF Spec

\* Every variable keeps its type; in particular no loop runs past the buffers, the
\* tensors or the nodes.
THEOREM TypeCorrect == Spec => []TypeOK
<1>1. ExecutionInv => TypeOK
  <2> SUFFICES ASSUME ExecutionInv PROVE TypeOK
    OBVIOUS
  <2>1. FramesOK
    BY DEF ExecutionInv
  <2>2. ASSUME NEW t \in Threads
        PROVE  /\ Len(frame[t].buffers) <= Len(shape)
               /\ Len(frame[t].tensors) <= Len(frame[t].buffers)
               /\ frame[t].i \in 1 .. Len(frame[t].tensors) + 1
    <3>1. /\ frame[t] \in Frames /\ Counts(frame[t])
          /\ frame[t].node \in 1 .. Len(shape)
          /\ Len(shape) \in Nat \ {0}
      BY <2>1, FrameFacts
    <3>2. frame[t].pc = "idle" => Len(frame[t].buffers) = 0
            /\ Len(frame[t].tensors) = 0
      BY <3>1 DEF Counts, NoFrame
    <3>3. /\ \A k \in 1 .. Len(shape) + 1 :
                Before(k) \in Nat /\ Before(k) <= Before(Len(shape) + 1)
                  /\ Before(k) <= k - 1
      BY <2>1, Counting DEF FramesOK
    <3>4. Len(frame[t].tensors) \in Nat /\ Len(frame[t].buffers) \in Nat
      BY <3>1 DEF Frames
    <3>5. \/ frame[t].pc \in {"idle", "preparing", "failed"}
          \/ Done(frame[t])
      BY <3>1 DEF Frames, Steps, Done
    <3>6. /\ Len(frame[t].buffers) <= Len(shape)
          /\ Len(frame[t].tensors) <= Len(frame[t].buffers)
      BY <3>1, <3>2, <3>3, <3>4, <3>5 DEF Counts
    <3>7. frame[t].i \in 1 .. Len(frame[t].tensors) + 1
      <4>1. CASE frame[t].pc = "copying"
        BY <3>1, <3>3, <3>4, <4>1 DEF Counts, Done
      <4>2. CASE frame[t].pc # "copying"
        BY <3>1, <3>4, <4>2 DEF Counts
      <4>3. QED BY <4>1, <4>2
    <3>8. QED BY <3>6, <3>7
  <2>3. QED BY <2>1, <2>2 DEF TypeOK, FramesOK, Frames, Counts, Sources
<1>2. QED BY <1>1, ExecutionInvariant, PTL

\* However many executions allocate, fail, return and are released at a time, an
\* allocated buffer is an argument's, one result's, or lost by a failure.
THEOREM BuffersHaveOnePlace == Spec => []BuffersPartitioned
<1>1. ExecutionInv => BuffersPartitioned
  BY DEF ExecutionInv
<1>2. QED BY <1>1, ExecutionInvariant, PTL

\* Whatever the tree and whatever other executions do, the result that is returned
\* holds at each leaf what the module computes for that leaf, and at each tuple
\* the addresses of its elements.
THEOREM ResultCorrect == Spec => []ResultThere
<1>1. ExecutionInv => ResultThere
  <2> SUFFICES ASSUME ExecutionInv, NEW t \in Threads, At(t, "returned"),
                      NEW n \in DOMAIN shape
               PROVE  memory[frame[t].buffers[n]] =
                        IF shape[n].tuple
                          THEN Pointers(frame[t], n)
                          ELSE ResultOf(n, [p \in DOMAIN frame[t].arguments |->
                                              Argument(frame[t].arguments[p])])
    BY DEF ResultThere, Pointers
  <2>1. Contents(frame[t], memory) /\ frame[t].pc = "returned" /\ FramesOK
    BY DEF ExecutionInv, ContentsOK, At
  <2>2. frame[t].inputs = [p \in DOMAIN frame[t].arguments |->
                             Argument(frame[t].arguments[p])]
    <3>1. /\ frame[t].inputs \in Seq(Inputs)
          /\ frame[t].arguments \in Seq(Arguments)
          /\ Len(frame[t].inputs) = Len(frame[t].arguments)
          /\ \A p \in 1 .. Len(frame[t].inputs) :
                frame[t].inputs[p] = Argument(frame[t].arguments[p])
      BY <2>1, FrameFacts DEF Frames, Sources, Done
    <3>2. /\ DOMAIN frame[t].inputs = 1 .. Len(frame[t].inputs)
          /\ DOMAIN frame[t].arguments = 1 .. Len(frame[t].inputs)
          /\ frame[t].inputs = [p \in DOMAIN frame[t].inputs |->
                                   frame[t].inputs[p]]
      BY <3>1
    <3>3. QED BY <3>1, <3>2
  <2>3. shape[n].tuple \in BOOLEAN
    BY <2>1, ShapeFacts DEF FramesOK
  <2>4. shape[n].tuple => memory[frame[t].buffers[n]] = Pointers(frame[t], n)
    BY <2>1 DEF Contents, Past
  <2>5. ~shape[n].tuple =>
           memory[frame[t].buffers[n]] = ResultOf(n, frame[t].inputs)
    BY <2>1 DEF Contents, Past
  <2>6. QED BY <2>2, <2>3, <2>4, <2>5
<1>2. QED BY <1>1, ExecutionInvariant, PTL
=============================================================================
