-------------------------- MODULE NGraphFusionLemmas --------------------------
(***************************************************************************)
(* What one rule matches and what one fusion makes of it, for every        *)
(* computation.  First the making of a fusion, operand by operand          *)
(* (CreateFusionInstruction): which instructions stay, what operands the   *)
(* fusion gets and in which order, and when no CHECK fails.                *)
(* Then the rules: the parts that a rule returns are a way down from the   *)
(* root (Walk), they can be fused in the order given (Reachable), the rule *)
(* matches them in every computation that has them (Same), and what they   *)
(* use and do not contain are the arguments of the kernel (Served).        *)
(* Last, of tensors: what their indexes are, that the folds over them do   *)
(* not depend on the order of the elements, and what padding, reducing,    *)
(* broadcasting, pooling and convolving them gives in another order of the *)
(* dimensions.                                                             *)
(***************************************************************************)
EXTENDS NGraphFusion, Induction, SequenceTheorems, FiniteSetTheorems

\* One operand added to those there are.
Plus(s, o) == IF Contains(s, o) THEN s ELSE Append(s, o)

\* Added is a fold, and HLO adds one operand after the other: h[k] is what there is after
\* k of them.
LEMMA AddedSteps ==
    ASSUME NEW s0, NEW n \in Nat, NEW more, DOMAIN more = 1 .. n
    PROVE  \E h : /\ h[0] = s0
                  /\ \A k \in 1 .. n : h[k] = Plus(h[k - 1], more[k])
                  /\ Added(s0, more) = h[n]
<1> DEFINE
      Body(f, s) == IF s = {} THEN s0 ELSE Plus(f[s \ {Max(s)}], more[Max(s)])
      Solves(f, m) == f = [s \in SUBSET (1 .. m) |-> Body(f, s)]
      Solved(m) == \E f : Solves(f, m)
      N == {m \in 0 .. n : Solved(m)}
<1> HIDE DEF Body
<1>1. 0 .. n \subseteq N
  <2>1. 0 \in N
    <3> DEFINE f0 == [s \in SUBSET (1 .. 0) |-> s0]
    <3>1. 1 .. 0 = {}
      OBVIOUS
    <3>2. \A s \in SUBSET (1 .. 0) : Body(f0, s) = s0
      BY <3>1 DEF Body
    <3>3. Solves(f0, 0)
      BY <3>2
    <3>4. Solved(0)
      <4> HIDE DEF Solves, f0
      <4> QED BY <3>3
    <3>5. QED
      <4> HIDE DEF Solved
      <4> QED BY <3>4
  <2>2. ASSUME NEW m \in 0 .. n - 1, m \in N  PROVE m + 1 \in N
    <3>1. PICK f : Solves(f, m)
      <4>1. Solved(m)
        <5> HIDE DEF Solved
        <5> QED BY <2>2
      <4> HIDE DEF Solves
      <4> QED BY <4>1
    <3> DEFINE
          g == [s \in SUBSET (1 .. m + 1) |->
                  IF m + 1 \in s THEN Plus(f[s \ {m + 1}], more[m + 1]) ELSE f[s]]
    <3>2. ASSUME NEW s \in SUBSET (1 .. m + 1)  PROVE g[s] = Body(g, s)
      <4>1. CASE m + 1 \in s
        <5>1. Max(s) = m + 1
          <6>1. m + 1 \in Nat /\ s \in SUBSET (0 .. m + 1) /\ s # {}
            BY <4>1
          <6>2. Max(s) \in s /\ \A j \in s : j <= Max(s)
            BY <6>1, MaxOfNumbers
          <6> DEFINE x == Max(s)
          <6> HIDE DEF x
          <6>3. x \in 1 .. m + 1 /\ m + 1 <= x
            BY <6>2, <4>1 DEF x
          <6>4. x = m + 1
            BY <6>3
          <6>5. QED BY <6>4 DEF x
        <5>2. s \ {m + 1} \in SUBSET (1 .. m + 1) /\ m + 1 \notin s \ {m + 1}
          OBVIOUS
        <5>3. g[s \ {m + 1}] = f[s \ {m + 1}]
          BY <5>2
        <5>4. QED BY <5>1, <5>3, <4>1 DEF Body
      <4>2. CASE m + 1 \notin s
        <5>1. s \in SUBSET (1 .. m)
          BY <4>2
        <5>2. g[s] = Body(f, s)
          BY <3>1, <4>2, <5>1
        <5>3. g[s \ {Max(s)}] = f[s \ {Max(s)}]
          BY <4>2
        <5>4. QED BY <5>2, <5>3 DEF Body
      <4>3. QED BY <4>1, <4>2
    <3>3. Solves(g, m + 1)
      <4> DEFINE R == [s \in SUBSET (1 .. m + 1) |-> Body(g, s)]
      <4>1. \A s \in SUBSET (1 .. m + 1) : g[s] = R[s]
        BY <3>2
      <4>2. DOMAIN g = SUBSET (1 .. m + 1) /\ DOMAIN R = SUBSET (1 .. m + 1)
        OBVIOUS
      <4>3. QED BY <4>1, <4>2
    <3>4. Solved(m + 1)
      <4> HIDE DEF Solves, g
      <4> QED BY <3>3
    <3>5. QED
      <4> HIDE DEF Solved
      <4> QED BY <3>4
  <2>3. QED
    <3> HIDE DEF N
    <3> QED BY <2>1, <2>2, IntervalInduction
<1>2. Solved(n)
  <2> HIDE DEF Solved
  <2> QED BY <1>1
<1> DEFINE iter == CHOOSE f : Solves(f, n)
<1>3. Solves(iter, n)
  <2> HIDE DEF Solves
  <2> QED BY <1>2
<1>4. Added(s0, more) = iter[1 .. n]
  BY DEF Added, FoldLeft, MapThenFoldSet, Plus, Body
<1> HIDE DEF iter
<1> DEFINE h == [k \in 0 .. n |-> iter[1 .. k]]
<1>5. h[0] = s0
  <2>1. 1 .. 0 = {}
    OBVIOUS
  <2>2. QED BY <1>3, <2>1 DEF Body
<1>6. ASSUME NEW k \in 1 .. n  PROVE h[k] = Plus(h[k - 1], more[k])
  <2>1. Max(1 .. k) = k
    BY MaxOfInterval
  <2>2. (1 .. k) \ {k} = 1 .. k - 1 /\ 1 .. k \in SUBSET (1 .. n) /\ 1 .. k # {}
    BY IntervalLast
  <2>3. iter[1 .. k] = Body(iter, 1 .. k)
    BY <1>3, <2>2
  <2>4. h[k] = iter[1 .. k] /\ h[k - 1] = iter[1 .. k - 1]
    OBVIOUS
  <2> HIDE DEF h
  <2>5. QED BY <2>1, <2>2, <2>3, <2>4 DEF Body
<1>7. h[n] = iter[1 .. n]
  OBVIOUS
<1> HIDE DEF h
<1>8. QED BY <1>4, <1>5, <1>6, <1>7

-----------------------------------------------------------------------------
\* No element of s comes twice.
Once(s) == \A j, k \in DOMAIN s : s[j] = s[k] => j = k
\* Wherever b is in s, a has come before it.
Before(s, a, b) == \A k \in DOMAIN s : s[k] = b => \E j \in 1 .. k - 1 : s[j] = a

\* An operand is added at the end, unless it is there: no operand comes twice, and what
\* came first still does.
LEMMA PlusFacts ==
    ASSUME NEW S, NEW s \in Seq(S), NEW o \in S
    PROVE  /\ Plus(s, o) \in Seq(S)
           /\ Range(Plus(s, o)) = Range(s) \cup {o}
           /\ Once(s) => Once(Plus(s, o))
           /\ \A a, b : Before(s, a, b) /\ (o = b => a \in Range(s))
                           => Before(Plus(s, o), a, b)
<1>1. CASE Contains(s, o)
  <2>1. Plus(s, o) = s /\ o \in Range(s)
    BY <1>1 DEF Plus, Contains, Range
  <2>2. QED BY <2>1
<1>2. CASE ~Contains(s, o)
  <2> DEFINE t == Append(s, o)
  <2>1. Plus(s, o) = t /\ \A k \in DOMAIN s : s[k] # o
    BY <1>2 DEF Plus, Contains
  <2>2. /\ t \in Seq(S) /\ Len(t) = Len(s) + 1
        /\ \A k \in DOMAIN s : t[k] = s[k]
        /\ t[Len(s) + 1] = o
        /\ DOMAIN s = 1 .. Len(s) /\ DOMAIN t = 1 .. Len(s) + 1
        /\ Len(s) \in Nat
    OBVIOUS
  <2> HIDE DEF t
  <2>3. Range(t) = Range(s) \cup {o}
    BY <2>2 DEF Range
  <2>4. Once(s) => Once(t)
    BY <2>1, <2>2 DEF Once
  <2>5. ASSUME NEW a, NEW b, Before(s, a, b), o = b => a \in Range(s)
        PROVE  Before(t, a, b)
    BY <2>2, <2>5 DEF Before, Range
  <2>6. QED BY <2>1, <2>2, <2>3, <2>4, <2>5
<1>3. QED BY <1>1, <1>2

\* The same when several operands are added, one after the other (the operands of an
\* instruction that is fused into another).
LEMMA AddedFacts ==
    ASSUME NEW S, NEW s \in Seq(S), NEW more \in Seq(S)
    PROVE  /\ Added(s, more) \in Seq(S)
           /\ Range(Added(s, more)) = Range(s) \cup Range(more)
           /\ Once(s) => Once(Added(s, more))
           /\ \A a, b : Before(s, a, b) /\ (Before(more, a, b) \/ a \in Range(s))
                           => Before(Added(s, more), a, b)
<1> DEFINE n == Len(more)
<1>1. n \in Nat /\ DOMAIN more = 1 .. n /\ \A k \in 1 .. n : more[k] \in S
  OBVIOUS
<1> HIDE DEF n
<1>2. PICK h : /\ h[0] = s
               /\ \A k \in 1 .. n : h[k] = Plus(h[k - 1], more[k])
               /\ Added(s, more) = h[n]
  BY <1>1, AddedSteps
<1> DEFINE
      Ordered(k) == \A a, b : Before(s, a, b) /\ (Before(more, a, b) \/ a \in Range(s))
                                => Before(h[k], a, b)
      Facts(k) == /\ h[k] \in Seq(S)
                  /\ Range(h[k]) = Range(s) \cup {more[j] : j \in 1 .. k}
                  /\ Once(s) => Once(h[k])
                  /\ Ordered(k)
      N == {k \in 0 .. n : Facts(k)}
<1>3. 0 .. n \subseteq N
  <2>1. 0 \in N
    BY <1>1, <1>2
  <2>2. ASSUME NEW k \in 0 .. n - 1, k \in N  PROVE k + 1 \in N
    <3> DEFINE o == more[k + 1]
    <3>1. k + 1 \in 1 .. n /\ (k + 1) - 1 = k /\ o \in S
      BY <1>1
    <3>2. h[k + 1] = Plus(h[k], o)
      BY <3>1, <1>2
    <3>3. h[k] \in Seq(S) /\ Facts(k)
      BY <2>2
    <3>4. /\ h[k + 1] \in Seq(S)
          /\ Range(h[k + 1]) = Range(h[k]) \cup {o}
          /\ Once(h[k]) => Once(h[k + 1])
          /\ \A a, b : Before(h[k], a, b) /\ (o = b => a \in Range(h[k]))
                           => Before(h[k + 1], a, b)
      <4> HIDE DEF o, Facts
      <4> QED BY <3>1, <3>2, <3>3, PlusFacts
    <3>5. Range(h[k + 1]) = Range(s) \cup {more[j] : j \in 1 .. k + 1}
      <4>1. {more[j] : j \in 1 .. k + 1} = {more[j] : j \in 1 .. k} \cup {more[k + 1]}
        <5>1. 1 .. k + 1 = (1 .. k) \cup {k + 1}
          OBVIOUS
        <5>2. QED BY <5>1
      <4>2. QED BY <4>1, <3>3, <3>4
    <3>6. Ordered(k + 1)
      <4> SUFFICES ASSUME NEW a, NEW b, Before(s, a, b),
                          Before(more, a, b) \/ a \in Range(s)
                   PROVE  Before(h[k + 1], a, b)
        OBVIOUS
      <4>1. Before(h[k], a, b)
        BY <3>3
      <4>2. o = b => a \in Range(h[k])
        <5>1. ASSUME o = b, Before(more, a, b)  PROVE \E j \in 1 .. k : more[j] = a
          BY <5>1, <3>1, <1>1 DEF Before
        <5>2. QED BY <5>1, <3>3
      <4>3. QED BY <4>1, <4>2, <3>4
    <3>7. QED
      <4>1. Facts(k + 1)
        BY <3>3, <3>4, <3>5, <3>6
      <4> HIDE DEF Facts
      <4> QED BY <4>1, <3>1
  <2>3. QED
    <3> HIDE DEF N
    <3> QED BY <2>1, <2>2, <1>1, IntervalInduction
<1>4. Facts(n)
  <2> HIDE DEF Facts
  <2> QED BY <1>3, <1>1
<1>5. Range(more) = {more[j] : j \in 1 .. n}
  BY <1>1 DEF Range
<1>6. QED BY <1>2, <1>4, <1>5

\* Removing an operand, which is there once, leaves the others in their order.
LEMMA RemoveFirstFacts ==
    ASSUME NEW S, NEW s \in Seq(S), NEW e \in Range(s), Once(s)
    PROVE  /\ RemoveFirst(s, e) \in Seq(S)
           /\ Range(RemoveFirst(s, e)) = Range(s) \ {e}
           /\ Once(RemoveFirst(s, e))
           /\ \A a, b : Before(s, a, b) /\ a # e
                           => Before(RemoveFirst(s, e), a, b)
<1> DEFINE
      k == SelectInSeq(s, LAMBDA v : v = e)
      I == {j \in 1 .. Len(s) : s[j] = e}
      t == RemoveAt(s, k)
<1>1. Len(s) \in Nat /\ DOMAIN s = 1 .. Len(s) /\ \A j \in 1 .. Len(s) : s[j] \in S
  OBVIOUS
<1>2. k \in 1 .. Len(s) /\ s[k] = e
  <2>1. I \in SUBSET Nat /\ I # {}
    BY <1>1 DEF Range
  <2>2. k = Min(I)
    BY <2>1 DEF SelectInSeq
  <2>3. Min(I) \in I
    <3> HIDE DEF I
    <3> QED BY <2>1, MinOfNumbers
  <2> HIDE DEF k
  <2>4. QED BY <2>2, <2>3
<1>3. RemoveFirst(s, e) = t
  <2>1. \E j \in 1 .. Len(s) : s[j] = e
    BY <1>2
  <2>2. QED BY <2>1 DEF RemoveFirst
<1> HIDE DEF k
<1>4. /\ t \in Seq(S)
      /\ Len(t) = Len(s) - 1
      /\ \A j \in 1 .. Len(s) - 1 : t[j] = IF j < k THEN s[j] ELSE s[j + 1]
  <2> DEFINE
        p == SubSeq(s, 1, k - 1)
        q == SubSeq(s, k + 1, Len(s))
  <2>1. p \in Seq(S) /\ Len(p) = k - 1 /\ \A j \in 1 .. k - 1 : p[j] = s[j]
    BY <1>1, <1>2
  <2>2. /\ q \in Seq(S) /\ Len(q) = Len(s) - k
        /\ \A j \in 1 .. Len(s) - k : q[j] = s[k + j]
    <3>1. k + 1 \in 1 .. Len(s) + 1
      BY <1>1, <1>2
    <3>2. QED BY <1>1, <1>2, <3>1
  <2>3. t = p \o q
    BY DEF RemoveAt
  <2> HIDE DEF p, q, t
  <2>4. /\ t \in Seq(S) /\ Len(t) = Len(p) + Len(q)
        /\ \A j \in 1 .. Len(p) + Len(q) :
              t[j] = IF j <= Len(p) THEN p[j] ELSE q[j - Len(p)]
    BY <2>1, <2>2, <2>3, ConcatProperties
  <2>5. ASSUME NEW j \in 1 .. Len(s) - 1
        PROVE  t[j] = IF j < k THEN s[j] ELSE s[j + 1]
    <3>1. CASE j < k
      BY <3>1, <2>1, <2>2, <2>4, <1>1, <1>2
    <3>2. CASE ~(j < k)
      <4>1. j - (k - 1) \in 1 .. Len(s) - k /\ k + (j - (k - 1)) = j + 1
        BY <3>2, <1>1, <1>2
      <4>2. q[j - (k - 1)] = s[j + 1]
        BY <4>1, <2>2
      <4>3. j \in 1 .. Len(p) + Len(q) /\ ~(j <= Len(p)) /\ Len(p) = k - 1
        BY <3>2, <2>1, <2>2, <1>1, <1>2
      <4>4. t[j] = q[j - (k - 1)]
        BY <4>3, <2>4
      <4>5. QED BY <4>2, <4>4, <3>2
    <3>3. QED BY <3>1, <3>2
  <2>6. QED BY <2>1, <2>2, <2>4, <2>5, <1>1, <1>2
<1> HIDE DEF t
<1> DEFINE n == Len(s) - 1
<1>5. n \in Nat /\ DOMAIN t = 1 .. n /\ DOMAIN s = 1 .. n + 1
  BY <1>1, <1>2, <1>4
<1>6. \A j \in 1 .. n : t[j] = IF j < k THEN s[j] ELSE s[j + 1]
  BY <1>4
<1> HIDE DEF n
<1>7. \A j \in 1 .. n + 1 : j = k \/ s[j] # e
  BY <1>2, <1>5 DEF Once
<1>8. \A j \in 1 .. n : t[j] \in Range(s) /\ t[j] # e
  BY <1>2, <1>5, <1>6, <1>7 DEF Range
<1>9. \A j \in 1 .. n + 1 : j = k \/ s[j] \in Range(t)
  <2>1. ASSUME NEW j \in 1 .. n + 1, j < k  PROVE s[j] \in Range(t)
    <3>1. j \in 1 .. n /\ t[j] = s[j]
      BY <2>1, <1>2, <1>5, <1>6
    <3>2. QED BY <3>1, <1>5 DEF Range
  <2>2. ASSUME NEW j \in 1 .. n + 1, j > k  PROVE s[j] \in Range(t)
    <3>1. j - 1 \in 1 .. n /\ ~(j - 1 < k) /\ (j - 1) + 1 = j
      BY <2>2, <1>2, <1>5
    <3>2. t[j - 1] = s[j]
      BY <3>1, <1>6
    <3>3. QED BY <3>1, <3>2, <1>5 DEF Range
  <2>3. QED BY <2>1, <2>2, <1>2, <1>5
<1>10. Range(t) = Range(s) \ {e}
  <2>1. \A x \in Range(t) : x \in Range(s) \ {e}
    BY <1>8, <1>5 DEF Range
  <2>2. \A x \in Range(s) \ {e} : x \in Range(t)
    <3> SUFFICES ASSUME NEW x \in Range(s), x # e  PROVE x \in Range(t)
      OBVIOUS
    <3>1. PICK j \in 1 .. n + 1 : x = s[j]
      BY <1>5 DEF Range
    <3>2. j # k
      BY <3>1, <1>2
    <3>3. QED BY <3>1, <3>2, <1>9
  <2>3. QED BY <2>1, <2>2
<1>11. Once(t)
  BY <1>2, <1>5, <1>6 DEF Once
<1>12. ASSUME NEW a, NEW b, Before(s, a, b), a # e  PROVE Before(t, a, b)
  <2> SUFFICES ASSUME NEW j \in 1 .. n, t[j] = b
               PROVE  \E i \in 1 .. j - 1 : t[i] = a
    BY <1>5 DEF Before
  <2>1. CASE j < k
    BY <2>1, <1>12, <1>2, <1>5, <1>6 DEF Before
  <2>2. CASE ~(j < k)
    <3>1. j + 1 \in DOMAIN s /\ s[j + 1] = b
      BY <2>2, <1>5, <1>6
    <3>2. PICK i \in 1 .. (j + 1) - 1 : s[i] = a
      BY <3>1, <1>12 DEF Before
    <3>3. i # k
      BY <3>2, <1>12, <1>2
    <3>4. CASE i < k
      <4>1. i \in 1 .. j - 1 /\ t[i] = s[i]
        BY <3>4, <2>2, <1>2, <1>5, <1>6
      <4>2. QED BY <4>1, <3>2
    <3>5. CASE i > k
      <4>1. i - 1 \in 1 .. j - 1 /\ i - 1 \in 1 .. n /\ ~(i - 1 < k) /\ (i - 1) + 1 = i
        BY <3>5, <1>2, <1>5
      <4>2. t[i - 1] = s[i]
        BY <4>1, <1>6
      <4>3. QED BY <4>1, <4>2, <3>2
    <3>6. QED BY <3>3, <3>4, <3>5, <1>2
  <2>3. QED BY <2>1, <2>2, <1>2
<1>13. QED BY <1>3, <1>4, <1>10, <1>11, <1>12

\* The fusion of the root alone, and what one more part makes of a fusion.
Created(c, root) == [computation |-> CreateFusion(c, root), aborted |-> FALSE]
FuseStep(root, r, i) ==
    IF r.aborted \/ i \notin Range(r.computation[root].operands)
      THEN [r EXCEPT !.aborted = TRUE]
      ELSE [r EXCEPT !.computation = FuseInstruction(r.computation, root, i)]

\* CreateFusionInstruction step by step, over the parts after the root.
Unfolds(c, instructions, more, n) ==
    \E h : /\ h[0] = Created(c, instructions[1])
           /\ \A k \in 1 .. n : h[k] = FuseStep(instructions[1], h[k - 1], more[k])
           /\ FusedComputation(c, instructions) = h[n]

\* CreateFusionInstruction is a fold over the parts: h[k] is what there is after k of
\* them have been fused.
LEMMA FusedSteps ==
    ASSUME NEW c, NEW instructions, NEW more, more = Tail(instructions),
           NEW n \in Nat, DOMAIN more = 1 .. n
    PROVE  Unfolds(c, instructions, more, n)
<1> DEFINE
      start == Created(c, instructions[1])
      Body(f, s) == IF s = {} THEN start ELSE FuseStep(instructions[1], f[s \ {Max(s)}], more[Max(s)])
      Solves(f, m) == f = [s \in SUBSET (1 .. m) |-> Body(f, s)]
      Solved(m) == \E f : Solves(f, m)
      N == {m \in 0 .. n : Solved(m)}
<1> HIDE DEF start, Body
<1>1. 0 .. n \subseteq N
  <2>1. 0 \in N
    <3> DEFINE f0 == [s \in SUBSET (1 .. 0) |-> start]
    <3>1. 1 .. 0 = {}
      OBVIOUS
    <3>2. \A s \in SUBSET (1 .. 0) : Body(f0, s) = start
      BY <3>1 DEF Body
    <3>3. Solves(f0, 0)
      BY <3>2
    <3>4. Solved(0)
      <4> HIDE DEF Solves, f0
      <4> QED BY <3>3
    <3>5. QED
      <4> HIDE DEF Solved
      <4> QED BY <3>4
  <2>2. ASSUME NEW m \in 0 .. n - 1, m \in N  PROVE m + 1 \in N
    <3>1. PICK f : Solves(f, m)
      <4>1. Solved(m)
        <5> HIDE DEF Solved
        <5> QED BY <2>2
      <4> HIDE DEF Solves
      <4> QED BY <4>1
    <3> DEFINE
          g == [s \in SUBSET (1 .. m + 1) |->
                  IF m + 1 \in s THEN FuseStep(instructions[1], f[s \ {m + 1}], more[m + 1]) ELSE f[s]]
    <3>2. ASSUME NEW s \in SUBSET (1 .. m + 1)  PROVE g[s] = Body(g, s)
      <4>1. CASE m + 1 \in s
        <5>1. Max(s) = m + 1
          <6>1. m + 1 \in Nat /\ s \in SUBSET (0 .. m + 1) /\ s # {}
            BY <4>1
          <6>2. Max(s) \in s /\ \A j \in s : j <= Max(s)
            BY <6>1, MaxOfNumbers
          <6> DEFINE x == Max(s)
          <6> HIDE DEF x
          <6>3. x \in 1 .. m + 1 /\ m + 1 <= x
            BY <6>2, <4>1 DEF x
          <6>4. x = m + 1
            BY <6>3
          <6>5. QED BY <6>4 DEF x
        <5>2. s \ {m + 1} \in SUBSET (1 .. m + 1) /\ m + 1 \notin s \ {m + 1}
          OBVIOUS
        <5>3. g[s \ {m + 1}] = f[s \ {m + 1}]
          BY <5>2
        <5>4. QED BY <5>1, <5>3, <4>1 DEF Body
      <4>2. CASE m + 1 \notin s
        <5>1. s \in SUBSET (1 .. m)
          BY <4>2
        <5>2. g[s] = Body(f, s)
          BY <3>1, <4>2, <5>1
        <5>3. g[s \ {Max(s)}] = f[s \ {Max(s)}]
          BY <4>2
        <5>4. QED BY <5>2, <5>3 DEF Body
      <4>3. QED BY <4>1, <4>2
    <3>3. Solves(g, m + 1)
      <4> DEFINE R == [s \in SUBSET (1 .. m + 1) |-> Body(g, s)]
      <4>1. \A s \in SUBSET (1 .. m + 1) : g[s] = R[s]
        BY <3>2
      <4>2. DOMAIN g = SUBSET (1 .. m + 1) /\ DOMAIN R = SUBSET (1 .. m + 1)
        OBVIOUS
      <4>3. QED BY <4>1, <4>2
    <3>4. Solved(m + 1)
      <4> HIDE DEF Solves, g
      <4> QED BY <3>3
    <3>5. QED
      <4> HIDE DEF Solved
      <4> QED BY <3>4
  <2>3. QED
    <3> HIDE DEF N
    <3> QED BY <2>1, <2>2, IntervalInduction
<1>2. Solved(n)
  <2> HIDE DEF Solved
  <2> QED BY <1>1
<1> DEFINE iter == CHOOSE f : Solves(f, n)
<1>3. Solves(iter, n)
  <2> HIDE DEF Solves
  <2> QED BY <1>2
<1>4. FusedComputation(c, instructions) = iter[1 .. n]
  <2>1. FusedComputation(c, instructions) = (CHOOSE f : f = [s \in SUBSET DOMAIN more |-> Body(f, s)])[DOMAIN more]
    BY DEF FusedComputation, FoldLeft, MapThenFoldSet, FuseStep, Created, Body, start
  <2>2. QED BY <2>1
<1> HIDE DEF iter
<1> DEFINE h == [k \in 0 .. n |-> iter[1 .. k]]
<1>5. h[0] = start
  <2>1. 1 .. 0 = {}
    OBVIOUS
  <2>2. QED BY <1>3, <2>1 DEF Body
<1>6. ASSUME NEW k \in 1 .. n  PROVE h[k] = FuseStep(instructions[1], h[k - 1], more[k])
  <2>1. Max(1 .. k) = k
    BY MaxOfInterval
  <2>2. (1 .. k) \ {k} = 1 .. k - 1 /\ 1 .. k \in SUBSET (1 .. n) /\ 1 .. k # {}
    BY IntervalLast
  <2>3. iter[1 .. k] = Body(iter, 1 .. k)
    BY <1>3, <2>2
  <2>4. h[k] = iter[1 .. k] /\ h[k - 1] = iter[1 .. k - 1]
    OBVIOUS
  <2> HIDE DEF h
  <2>5. QED BY <2>1, <2>2, <2>3, <2>4 DEF Body
<1>7. h[n] = iter[1 .. n]
  OBVIOUS
<1> HIDE DEF h
<1>8. QED BY <1>4, <1>5, <1>6, <1>7 DEF start, Unfolds


-----------------------------------------------------------------------------
\* What every computation of at most n instructions has: operands come before their
\* users, and are there.
Sound(c, n) ==
    /\ DOMAIN c \subseteq 1 .. n
    /\ \A i \in DOMAIN c :
          /\ {"opcode", "operands", "shape"} \subseteq DOMAIN c[i]
          /\ c[i].operands \in Seq(1 .. i - 1)
          /\ Range(c[i].operands) \subseteq DOMAIN c

\* The elements of a sequence over S are in S.
LEMMA ElementsTyped ==
    ASSUME NEW S, NEW s \in Seq(S)
    PROVE  Range(s) \subseteq S
<1>1. \A k \in 1 .. Len(s) : s[k] \in S
  OBVIOUS
<1>2. DOMAIN s = 1 .. Len(s)
  OBVIOUS
<1>3. ASSUME NEW x \in Range(s)  PROVE x \in S
  <2>1. PICK k \in DOMAIN s : x = s[k]
    BY DEF Range
  <2>2. QED BY <2>1, <1>1, <1>2
<1>4. QED BY <1>3

\* Fusing instruction i into r: i is gone from the operands of r and its own operands
\* have come, the other instructions are as they were, and none loses an operand.
LEMMA FuseInstructionFacts ==
    ASSUME NEW n \in Nat, NEW c, Sound(c, n), NEW r \in DOMAIN c,
           NEW i \in Range(c[r].operands), Once(c[r].operands)
    PROVE  LET d == FuseInstruction(c, r, i)
               s == c[r].operands
               t == d[r].operands
           IN  /\ Sound(d, n)
               /\ i \in DOMAIN c /\ i < r
               /\ DOMAIN d = DOMAIN c \/ DOMAIN d = DOMAIN c \ {i}
               /\ r \in DOMAIN d
               /\ \A j \in DOMAIN d \ {r} : d[j] = c[j]
               /\ d[r] = [c[r] EXCEPT !.operands = t]
               /\ Range(t) = (Range(s) \ {i}) \cup Range(c[i].operands)
               /\ Once(t)
               /\ \A a, b : a \in Range(s) /\ a # i /\ Before(s, a, b)
                               => Before(t, a, b)
<1> DEFINE
      s == c[r].operands
      u == Added(RemoveFirst(s, i), c[i].operands)
      e == [c EXCEPT ![r].operands = u]
      d == FuseInstruction(c, r, i)
<1>1. /\ r \in Int /\ s \in Seq(1 .. r - 1) /\ Range(s) \subseteq DOMAIN c
      /\ "operands" \in DOMAIN c[r]
  BY DEF Sound
<1>2. i \in 1 .. r - 1 /\ i \in DOMAIN c /\ i # r /\ i < r
  BY <1>1, ElementsTyped
<1>3. c[i].operands \in Seq(1 .. i - 1) /\ Range(c[i].operands) \subseteq DOMAIN c
  BY <1>2 DEF Sound
<1>4. c[i].operands \in Seq(1 .. r - 1)
  BY <1>2, <1>3, <1>1
<1> HIDE DEF s
<1>5. /\ RemoveFirst(s, i) \in Seq(1 .. r - 1)
      /\ Range(RemoveFirst(s, i)) = Range(s) \ {i}
      /\ Once(RemoveFirst(s, i))
      /\ \A a, b : Before(s, a, b) /\ a # i => Before(RemoveFirst(s, i), a, b)
  BY <1>1, RemoveFirstFacts DEF s
<1>6. /\ u \in Seq(1 .. r - 1)
      /\ Range(u) = (Range(s) \ {i}) \cup Range(c[i].operands)
      /\ Once(u)
      /\ \A a, b : a \in Range(s) /\ a # i /\ Before(s, a, b) => Before(u, a, b)
  <2> DEFINE x == RemoveFirst(s, i)
  <2>1. u = Added(x, c[i].operands)
    OBVIOUS
  <2> HIDE DEF x, u
  <2>2. /\ u \in Seq(1 .. r - 1)
        /\ Range(u) = Range(x) \cup Range(c[i].operands)
        /\ Once(x) => Once(u)
        /\ \A a, b : Before(x, a, b) /\ a \in Range(x) => Before(u, a, b)
    BY <2>1, <1>4, <1>5, AddedFacts DEF x
  <2>3. QED BY <2>2, <1>5 DEF x
<1>7. u = Added(RemoveFirst(c[r].operands, i), c[i].operands)
  BY DEF s
<1>8. FuseInstruction(c, r, i) =
        IF \E w \in DOMAIN e : i \in Range(e[w].operands)
          THEN e ELSE [x \in DOMAIN e \ {i} |-> e[x]]
  BY DEF FuseInstruction, Restrict, s
<1> HIDE DEF u
<1>9. /\ DOMAIN e = DOMAIN c
      /\ \A j \in DOMAIN c \ {r} : e[j] = c[j]
      /\ e[r] = [c[r] EXCEPT !.operands = u]
      /\ e[r].operands = u
  BY <1>1
<1> HIDE DEF e
<1>10. Range(u) \subseteq DOMAIN c
  BY <1>1, <1>3, <1>6
<1>11. Sound(e, n)
  <2> SUFFICES ASSUME NEW j \in DOMAIN c
               PROVE  /\ {"opcode", "operands", "shape"} \subseteq DOMAIN e[j]
                      /\ e[j].operands \in Seq(1 .. j - 1)
                      /\ Range(e[j].operands) \subseteq DOMAIN c
    BY <1>9 DEF Sound
  <2>1. CASE j = r
    <3>1. DOMAIN e[j] = DOMAIN c[j] /\ {"opcode", "operands", "shape"} \subseteq DOMAIN c[j]
      BY <2>1, <1>9 DEF Sound
    <3>2. QED BY <2>1, <3>1, <1>9, <1>6, <1>10
  <2>2. CASE j # r
    <3>1. e[j] = c[j]
      BY <2>2, <1>9
    <3>2. QED BY <3>1 DEF Sound
  <2>3. QED BY <2>1, <2>2
<1>12. CASE \E w \in DOMAIN e : i \in Range(e[w].operands)
  <2>1. d = e
    BY <1>12, <1>8
  <2> HIDE DEF d
  <2>2. QED BY <2>1, <1>2, <1>6, <1>9, <1>11 DEF s, d
<1>13. CASE ~ \E w \in DOMAIN e : i \in Range(e[w].operands)
  <2>1. d = [x \in DOMAIN e \ {i} |-> e[x]]
    BY <1>13, <1>8
  <2> HIDE DEF d
  <2>2. /\ DOMAIN d = DOMAIN c \ {i} /\ r \in DOMAIN d
        /\ \A j \in DOMAIN d : d[j] = e[j]
    BY <2>1, <1>2, <1>9
  <2>3. Sound(d, n)
    <3>1. \A j \in DOMAIN d : Range(e[j].operands) \subseteq DOMAIN c \ {i}
      BY <1>13, <1>9, <1>11, <2>2 DEF Sound
    <3>2. \A j \in DOMAIN d :
             /\ {"opcode", "operands", "shape"} \subseteq DOMAIN e[j]
             /\ e[j].operands \in Seq(1 .. j - 1)
      BY <2>2, <1>9, <1>11 DEF Sound
    <3>3. DOMAIN d \subseteq 1 .. n
      BY <2>2 DEF Sound
    <3>4. QED BY <3>1, <3>2, <3>3, <2>2 DEF Sound
  <2>4. QED BY <2>2, <2>3, <1>2, <1>6, <1>9 DEF s, d
<1>14. QED BY <1>12, <1>13

\* Making r a fusion of itself: it has its operands, in their order, each once.
LEMMA CreateFusionFacts ==
    ASSUME NEW n \in Nat, NEW c, Sound(c, n), NEW r \in DOMAIN c
    PROVE  LET d == CreateFusion(c, r)
               s == c[r].operands
               t == d[r].operands
           IN  /\ Sound(d, n)
               /\ DOMAIN d = DOMAIN c
               /\ \A j \in DOMAIN d \ {r} : d[j] = c[j]
               /\ d[r] = [c[r] EXCEPT !.opcode = "fusion", !.operands = t]
               /\ Range(t) = Range(s)
               /\ Once(t)
               /\ \A a, b : Before(s, a, b) => Before(t, a, b)
<1> DEFINE
      d == CreateFusion(c, r)
      s == c[r].operands
      u == Added(<<>>, s)
<1>1. /\ r \in Int /\ s \in Seq(1 .. r - 1) /\ Range(s) \subseteq DOMAIN c
      /\ {"opcode", "operands", "shape"} \subseteq DOMAIN c[r]
  BY DEF Sound
<1> HIDE DEF s
<1>2. /\ u \in Seq(1 .. r - 1)
      /\ Range(u) = Range(s)
      /\ Once(u)
      /\ \A a, b : Before(s, a, b) => Before(u, a, b)
  <2> DEFINE e == <<>>
  <2>1. e \in Seq(1 .. r - 1) /\ Range(e) = {} /\ Once(e) /\ \A a, b : Before(e, a, b)
    BY DEF Range, Once, Before
  <2>2. u = Added(e, s)
    OBVIOUS
  <2> HIDE DEF e, u
  <2> DEFINE S == 1 .. r - 1
  <2>3. e \in Seq(S) /\ s \in Seq(S)
    BY <2>1, <1>1
  <2>4. /\ u \in Seq(S)
        /\ Range(u) = Range(e) \cup Range(s)
        /\ Once(e) => Once(u)
        /\ \A a, b : Before(e, a, b) /\ (Before(s, a, b) \/ a \in Range(e))
                         => Before(u, a, b)
    <3> HIDE DEF S
    <3> QED BY <2>2, <2>3, AddedFacts
  <2>5. QED BY <2>1, <2>4
<1>3. u = Added(<<>>, c[r].operands)
  BY DEF s
<1> HIDE DEF u
<1>4. /\ DOMAIN d = DOMAIN c
      /\ \A j \in DOMAIN c \ {r} : d[j] = c[j]
      /\ d[r] = [c[r] EXCEPT !.opcode = "fusion", !.operands = u]
      /\ d[r].operands = u
      /\ DOMAIN d[r] = DOMAIN c[r]
  BY <1>1, <1>3 DEF CreateFusion
<1> HIDE DEF d
<1>5. Sound(d, n)
  BY <1>1, <1>2, <1>4 DEF Sound
<1>6. QED BY <1>2, <1>4, <1>5 DEF d, s

\* How far the making of a fusion from root r of c has come.
Stage(c, n, r, P, F, x) ==
    LET d == x.computation
    IN  /\ x = [computation |-> d, aborted |-> x.aborted]
        /\ x.aborted \in BOOLEAN
        /\ Sound(d, n)
        /\ r \in DOMAIN d
        /\ DOMAIN d \subseteq DOMAIN c
        /\ DOMAIN c \subseteq DOMAIN d \cup F
        /\ P \subseteq DOMAIN d
        /\ \A j \in DOMAIN d \ {r} : d[j] = c[j]
        /\ d[r] = [c[r] EXCEPT !.opcode = "fusion", !.operands = d[r].operands]
        /\ Once(d[r].operands)
        /\ Range(d[r].operands) \cap P = {}

\* What the fusion at r reads, at stage x.
Operands(r, x) == x.computation[r].operands

\* The fusion of the root alone is the first stage ...
LEMMA CreatedStage ==
    ASSUME NEW n \in Nat, NEW c, Sound(c, n), NEW r \in DOMAIN c,
           NEW P \in SUBSET DOMAIN c, NEW F, Range(c[r].operands) \cap P = {}
    PROVE  LET x == Created(c, r)
           IN  /\ Stage(c, n, r, P, F, x)
               /\ ~x.aborted
               /\ Range(Operands(r, x)) = Range(c[r].operands)
               /\ \A a, b : Before(c[r].operands, a, b) => Before(Operands(r, x), a, b)
<1> DEFINE d == CreateFusion(c, r)
<1>1. /\ Sound(d, n)
      /\ DOMAIN d = DOMAIN c
      /\ \A j \in DOMAIN d \ {r} : d[j] = c[j]
      /\ d[r] = [c[r] EXCEPT !.opcode = "fusion", !.operands = d[r].operands]
      /\ Range(d[r].operands) = Range(c[r].operands)
      /\ Once(d[r].operands)
      /\ \A a, b : Before(c[r].operands, a, b) => Before(d[r].operands, a, b)
  BY CreateFusionFacts
<1> HIDE DEF d
<1>2. Created(c, r) = [computation |-> d, aborted |-> FALSE]
  BY DEF Created, d
<1>3. QED BY <1>1, <1>2 DEF Stage, Operands

\* From stage x to stage y the part i is fused into r: the operands of i take its place,
\* and what was before some operand still is.
Advances(c, r, i, x, y) ==
    LET s == Operands(r, x)
        t == Operands(r, y)
    IN  /\ y.aborted \/ (~x.aborted /\ i \in Range(s))
        /\ ~x.aborted /\ i \in Range(s) => ~y.aborted
        /\ ~y.aborted =>
              /\ Range(t) = (Range(s) \ {i}) \cup Range(c[i].operands)
              /\ \A a, b : a \in Range(s) /\ a # i /\ Before(s, a, b) => Before(t, a, b)

\* ... and each part that is fused makes the next.
LEMMA NextStage ==
    ASSUME NEW n \in Nat, NEW c, Sound(c, n), NEW r \in DOMAIN c, NEW P, NEW F,
           \A j \in DOMAIN c \ P : Range(c[j].operands) \cap P = {},
           NEW x, Stage(c, n, r, P, F, x), NEW i \in F
    PROVE  LET y == FuseStep(r, x, i)
           IN  Stage(c, n, r, P, F, y) /\ Advances(c, r, i, x, y)
<1> DEFINE
      d == x.computation
      s == d[r].operands
      y == FuseStep(r, x, i)
<1>1. CASE x.aborted \/ i \notin Range(s)
  <2>1. y = [x EXCEPT !.aborted = TRUE]
    BY <1>1 DEF FuseStep
  <2>2. y.computation = d /\ y.aborted = TRUE
        /\ y = [computation |-> y.computation, aborted |-> y.aborted]
    BY <2>1 DEF Stage
  <2> HIDE DEF y, d
  <2>3. QED BY <2>2, <1>1 DEF Stage, Operands, Advances, y, d
<1>2. CASE ~x.aborted /\ i \in Range(s)
  <2> DEFINE e == FuseInstruction(d, r, i)
  <2>1. y = [x EXCEPT !.computation = e]
    BY <1>2 DEF FuseStep
  <2>2. y.computation = e /\ y.aborted = FALSE
        /\ y = [computation |-> y.computation, aborted |-> y.aborted]
    BY <2>1, <1>2 DEF Stage
  <2>3. /\ Sound(d, n) /\ r \in DOMAIN d /\ Once(d[r].operands)
        /\ DOMAIN d \subseteq DOMAIN c /\ DOMAIN c \subseteq DOMAIN d \cup F
        /\ P \subseteq DOMAIN d
        /\ \A j \in DOMAIN d \ {r} : d[j] = c[j]
        /\ d[r] = [c[r] EXCEPT !.opcode = "fusion", !.operands = d[r].operands]
        /\ Range(d[r].operands) \cap P = {}
    BY DEF Stage
  <2> HIDE DEF d
  <2>4. /\ Sound(e, n)
        /\ i \in DOMAIN d /\ i < r
        /\ DOMAIN e = DOMAIN d \/ DOMAIN e = DOMAIN d \ {i}
        /\ r \in DOMAIN e
        /\ \A j \in DOMAIN e \ {r} : e[j] = d[j]
        /\ e[r] = [d[r] EXCEPT !.operands = e[r].operands]
        /\ Range(e[r].operands) = (Range(s) \ {i}) \cup Range(d[i].operands)
        /\ Once(e[r].operands)
        /\ \A a, b : a \in Range(s) /\ a # i /\ Before(s, a, b)
                         => Before(e[r].operands, a, b)
    BY <2>3, <1>2, FuseInstructionFacts
  <2> HIDE DEF e, y
  <2>5. d[i] = c[i] /\ i \in DOMAIN c /\ i \notin P
    <3>1. r \in Int
      BY DEF Sound
    <3>2. i # r
      BY <2>4, <3>1
    <3>3. QED BY <2>3, <2>4, <3>2, <1>2
  <2>6. Range(e[r].operands) \cap P = {}
    BY <2>3, <2>4, <2>5
  <2>7. e[r] = [c[r] EXCEPT !.opcode = "fusion", !.operands = e[r].operands]
    <3>1. {"opcode", "operands"} \subseteq DOMAIN c[r]
      BY DEF Sound
    <3> DEFINE a == d[r].operands
               b == e[r].operands
    <3>2. d[r] = [c[r] EXCEPT !.opcode = "fusion", !.operands = a] /\ e[r] = [d[r] EXCEPT !.operands = b]
      BY <2>3, <2>4
    <3> HIDE DEF a, b
    <3>3. e[r] = [c[r] EXCEPT !.opcode = "fusion", !.operands = b]
      BY <3>1, <3>2
    <3>4. QED BY <3>3 DEF b
  <2>8. DOMAIN e \subseteq DOMAIN c /\ DOMAIN c \subseteq DOMAIN e \cup F /\ P \subseteq DOMAIN e
    BY <2>3, <2>4, <2>5
  <2>9. \A j \in DOMAIN e \ {r} : e[j] = c[j]
    BY <2>3, <2>4
  <2>10. Stage(c, n, r, P, F, y)
    BY <2>2, <2>4, <2>6, <2>7, <2>8, <2>9 DEF Stage
  <2>11. QED BY <2>2, <2>4, <2>5, <2>10, <1>2 DEF Operands, Advances, y, d
<1>3. QED BY <1>1, <1>2 DEF Stage

\* The parts of a fusion, root first.
Parts(c, L, P) ==
    /\ L \in Seq(Int) /\ Len(L) \in Nat \ {0} /\ DOMAIN L = 1 .. Len(L)
    /\ L[1] \in DOMAIN c
    /\ P \subseteq DOMAIN c
    /\ L[1] \notin P
    /\ \A j \in DOMAIN c \ P : Range(c[j].operands) \cap P = {}

\* The making of a fusion of c, step by step.
Staged(c, n, L, P) ==
    \E h :
       /\ ~h[0].aborted
       /\ Range(Operands(L[1], h[0])) = Range(c[L[1]].operands)
       /\ \A a, b : Before(c[L[1]].operands, a, b)
                       => Before(Operands(L[1], h[0]), a, b)
       /\ \A k \in 0 .. Len(L) - 1 :
             Stage(c, n, L[1], P, {L[j] : j \in 2 .. Len(L)}, h[k])
       /\ \A k \in 1 .. Len(L) - 1 :
             Advances(c, L[1], L[k + 1], h[k - 1], h[k])
       /\ FusedComputation(c, L) = h[Len(L) - 1]

\* All the stages of a fusion, to its end.
LEMMA Stages ==
    ASSUME NEW n \in Nat, NEW c, Sound(c, n), NEW L, NEW P, Parts(c, L, P)
    PROVE  Staged(c, n, L, P)
<1> DEFINE
      r == L[1]
      m == Len(L) - 1
      T == Tail(L)
      F == {L[j] : j \in 2 .. Len(L)}
<1>1. /\ L \in Seq(Int) /\ L # <<>> /\ m \in Nat /\ r \in DOMAIN c
      /\ Len(L) \in Nat
  BY DEF Parts
<1>2. DOMAIN T = 1 .. m /\ \A k \in 1 .. m : T[k] = L[k + 1]
  <2>1. T \in Seq(Int) /\ Len(T) = m /\ \A k \in 1 .. m : T[k] = L[k + 1]
    BY <1>1, HeadTailProperties
  <2>2. QED BY <2>1
<1> HIDE DEF T
<1>3. PICK h : /\ h[0] = Created(c, L[1])
               /\ \A k \in 1 .. m : h[k] = FuseStep(L[1], h[k - 1], T[k])
               /\ FusedComputation(c, L) = h[m]
  <2>1. m \in Nat /\ DOMAIN T = 1 .. m /\ T = Tail(L)
    BY <1>1, <1>2 DEF T
  <2> HIDE DEF m
  <2>2. Unfolds(c, L, T, m)
    BY <2>1, FusedSteps
  <2>3. QED BY <2>2 DEF Unfolds
<1>4. /\ P \in SUBSET DOMAIN c /\ Range(c[r].operands) \cap P = {}
      /\ \A j \in DOMAIN c \ P : Range(c[j].operands) \cap P = {}
  BY DEF Parts
<1> HIDE DEF F, r
<1>5. /\ Stage(c, n, r, P, F, h[0])
      /\ ~h[0].aborted
      /\ Range(Operands(r, h[0])) = Range(c[r].operands)
      /\ \A a, b : Before(c[r].operands, a, b) => Before(Operands(r, h[0]), a, b)
  <2> DEFINE x == Created(c, r)
  <2>1. /\ Stage(c, n, r, P, F, x)
        /\ ~x.aborted
        /\ Range(Operands(r, x)) = Range(c[r].operands)
        /\ \A a, b : Before(c[r].operands, a, b) => Before(Operands(r, x), a, b)
    BY <1>1, <1>4, CreatedStage
  <2>2. h[0] = x
    BY <1>3 DEF r
  <2> HIDE DEF x
  <2>3. QED BY <2>1, <2>2
<1>6. ASSUME NEW k \in 1 .. m, Stage(c, n, r, P, F, h[k - 1])
      PROVE  Stage(c, n, r, P, F, h[k]) /\ Advances(c, r, L[k + 1], h[k - 1], h[k])
  <2>1. h[k] = FuseStep(r, h[k - 1], L[k + 1])
    BY <1>2, <1>3 DEF r
  <2>2. L[k + 1] \in F
    BY <1>1 DEF F
  <2> DEFINE
        x == h[k - 1]
        i == L[k + 1]
        y == FuseStep(r, x, i)
  <2>3. Stage(c, n, r, P, F, x) /\ i \in F /\ h[k] = y
    BY <1>6, <2>1, <2>2
  <2> HIDE DEF x, i
  <2>5. Stage(c, n, r, P, F, y) /\ Advances(c, r, i, x, y)
    BY <1>1, <1>4, <2>3, NextStage
  <2> HIDE DEF y
  <2>6. QED BY <2>3, <2>5 DEF x, i
<1> DEFINE N == {k \in 0 .. m : Stage(c, n, r, P, F, h[k])}
<1>7. 0 .. m \subseteq N
  <2>1. 0 \in N
    BY <1>1, <1>5
  <2>2. ASSUME NEW k \in 0 .. m - 1, k \in N  PROVE k + 1 \in N
    <3>1. k + 1 \in 1 .. m /\ (k + 1) - 1 = k /\ k + 1 \in 0 .. m
      BY <1>1
    <3>2. Stage(c, n, r, P, F, h[k])
      BY <2>2
    <3>3. QED BY <3>1, <3>2, <1>6
  <2>3. QED
    <3> HIDE DEF N, m
    <3> QED BY <2>1, <2>2, <1>1, IntervalInduction
<1>8. \A k \in 1 .. m : k - 1 \in 0 .. m
  BY <1>1
<1>9. QED BY <1>3, <1>5, <1>6, <1>7, <1>8 DEF r, F, Staged

\* Every part after the root is an operand of an earlier one, and has not been fused
\* since that was.
Reachable(c, L) ==
    \A q \in 2 .. Len(L) : \E p \in 1 .. q - 1 :
        /\ L[q] \in Range(c[L[p]].operands)
        /\ \A k \in p + 1 .. q - 1 : L[k] # L[q]

\* If every part is an operand of a part before it, and has not been fused in between,
\* it is an operand of the fusion when its turn comes: no CHECK fails.
LEMMA NoCheckFailsInFusion ==
    ASSUME NEW n \in Nat, NEW c, Sound(c, n), NEW L, NEW P, Parts(c, L, P),
           Reachable(c, L)
    PROVE  ~FusedComputation(c, L).aborted
<1> DEFINE
      r == L[1]
      m == Len(L) - 1
<1>1. m \in Nat /\ Len(L) \in Nat /\ Len(L) = m + 1
  BY DEF Parts
<1>2. PICK h :
         /\ ~h[0].aborted
         /\ Range(Operands(r, h[0])) = Range(c[r].operands)
         /\ \A k \in 1 .. m : Advances(c, r, L[k + 1], h[k - 1], h[k])
         /\ FusedComputation(c, L) = h[m]
  <2>1. Staged(c, n, L, P)
    BY Stages
  <2>2. QED BY <2>1 DEF Staged
<1> DEFINE
      Waiting(k) == \A p \in 1 .. k + 1 : \A x \in Range(c[L[p]].operands) :
                       (\A q \in p + 1 .. k + 1 : L[q] # x)
                          => x \in Range(Operands(r, h[k]))
      N == {k \in 0 .. m : ~h[k].aborted /\ Waiting(k)}
<1>3. 0 .. m \subseteq N
  <2>1. 0 \in N
    <3>1. \A p \in 1 .. 0 + 1 : p = 1
      OBVIOUS
    <3>2. QED BY <3>1, <1>1, <1>2
  <2>2. ASSUME NEW k \in 0 .. m - 1, k \in N  PROVE k + 1 \in N
    <3> DEFINE i == L[k + 2]
    <3>1. /\ k + 1 \in 1 .. m /\ k + 1 \in 0 .. m /\ (k + 1) - 1 = k /\ (k + 1) + 1 = k + 2
          /\ k + 2 \in 2 .. Len(L) /\ k \in Nat
      BY <1>1
    <3>2. ~h[k].aborted /\ Waiting(k)
      BY <2>2
    <3>3. i \in Range(Operands(r, h[k]))
      <4>1. PICK p \in 1 .. (k + 2) - 1 :
               /\ i \in Range(c[L[p]].operands)
               /\ \A q \in p + 1 .. (k + 2) - 1 : L[q] # i
        BY <3>1 DEF Reachable
      <4>2. (k + 2) - 1 = k + 1
        BY <3>1
      <4>3. QED BY <4>1, <4>2, <3>2
    <3>4. Advances(c, r, i, h[k], h[k + 1])
      BY <1>2, <3>1
    <3>5. /\ ~h[k + 1].aborted
          /\ Range(Operands(r, h[k + 1])) =
                (Range(Operands(r, h[k])) \ {i}) \cup Range(c[i].operands)
      BY <3>2, <3>3, <3>4 DEF Advances
    <3>6. Waiting(k + 1)
      <4> SUFFICES ASSUME NEW p \in 1 .. k + 2, NEW x \in Range(c[L[p]].operands),
                          \A q \in p + 1 .. k + 2 : L[q] # x
                   PROVE  x \in Range(Operands(r, h[k + 1]))
        BY <3>1
      <4>1. CASE p = k + 2
        BY <4>1, <3>5
      <4>2. CASE p # k + 2
        <5>1. p \in 1 .. k + 1 /\ k + 2 \in p + 1 .. k + 2
              /\ \A q \in p + 1 .. k + 1 : q \in p + 1 .. k + 2
          BY <4>2, <3>1
        <5>2. x \in Range(Operands(r, h[k])) /\ i # x
          BY <5>1, <3>2
        <5>3. QED BY <5>2, <3>5
      <4>3. QED BY <4>1, <4>2
    <3>7. QED
      <4> HIDE DEF Waiting
      <4> QED BY <3>1, <3>5, <3>6
  <2>3. QED
    <3> HIDE DEF N, m
    <3> QED BY <2>1, <2>2, <1>1, IntervalInduction
<1>4. ~h[m].aborted
  BY <1>1, <1>3
<1>5. QED BY <1>2, <1>4

-----------------------------------------------------------------------------

\* s is a sequence, over what it has.
IsSequence(s) == s \in Seq(Range(s))

\* The short sequences that the rules return.
LEMMA TuplesAreSequences ==
    /\ \A a : IsSequence(<<a>>)
    /\ \A a, b : IsSequence(<<a, b>>)
    /\ \A a, b, c : IsSequence(<<a, b, c>>)
    /\ \A a, b, c, d : IsSequence(<<a, b, c, d>>)
<1>1. ASSUME NEW a  PROVE IsSequence(<<a>>)
  <2>1. <<a>> \in Seq({a})
    OBVIOUS
  <2>2. QED BY <2>1, SeqOfRange DEF IsSequence
<1>2. ASSUME NEW a, NEW b  PROVE IsSequence(<<a, b>>)
  <2>1. <<a, b>> \in Seq({a, b})
    OBVIOUS
  <2>2. QED BY <2>1, SeqOfRange DEF IsSequence
<1>3. ASSUME NEW a, NEW b, NEW c  PROVE IsSequence(<<a, b, c>>)
  <2>1. <<a, b, c>> \in Seq({a, b, c})
    OBVIOUS
  <2>2. QED BY <2>1, SeqOfRange DEF IsSequence
<1>4. ASSUME NEW a, NEW b, NEW c, NEW d  PROVE IsSequence(<<a, b, c, d>>)
  <2>1. <<a, b, c, d>> \in Seq({a, b, c, d})
    OBVIOUS
  <2>2. QED BY <2>1, SeqOfRange DEF IsSequence
<1>5. QED BY <1>1, <1>2, <1>3, <1>4

\* Where the elements of p and q are in p \o q.
LEMMA ConcatenationFacts ==
    ASSUME NEW p, IsSequence(p), NEW q, IsSequence(q)
    PROVE  /\ IsSequence(p \o q)
           /\ Len(p) \in Nat /\ Len(q) \in Nat
           /\ Len(p \o q) = Len(p) + Len(q)
           /\ \A k \in 1 .. Len(p) : (p \o q)[k] = p[k]
           /\ \A k \in 1 .. Len(q) : (p \o q)[Len(p) + k] = q[k]
<1> DEFINE
      S == Range(p) \cup Range(q)
      t == p \o q
<1>1. p \in Seq(Range(p)) /\ q \in Seq(Range(q))
  BY DEF IsSequence
<1>2. p \in Seq(S) /\ q \in Seq(S) /\ Len(p) \in Nat /\ Len(q) \in Nat
  <2>1. \A A, B : \A s \in Seq(A) : s \in Seq(A \cup B)
    OBVIOUS
  <2> DEFINE A == Range(p)
             B == Range(q)
  <2> HIDE DEF A, B
  <2>2. p \in Seq(A \cup B) /\ q \in Seq(B \cup A)
    BY <1>1, <2>1 DEF A, B
  <2>3. B \cup A = A \cup B
    OBVIOUS
  <2>4. QED BY <1>1, <2>2, <2>3 DEF A, B
<1> HIDE DEF S
<1>3. /\ t \in Seq(S) /\ Len(t) = Len(p) + Len(q)
      /\ \A k \in 1 .. Len(p) + Len(q) :
            t[k] = IF k <= Len(p) THEN p[k] ELSE q[k - Len(p)]
  BY <1>2, ConcatProperties
<1>4. t \in Seq(Range(t))
  BY <1>3, SeqOfRange
<1> HIDE DEF t
<1>5. \A k \in 1 .. Len(p) : t[k] = p[k]
  BY <1>2, <1>3
<1>6. ASSUME NEW k \in 1 .. Len(q)  PROVE t[Len(p) + k] = q[k]
  <2>1. /\ Len(p) + k \in 1 .. Len(p) + Len(q) /\ ~(Len(p) + k <= Len(p))
        /\ (Len(p) + k) - Len(p) = k
    BY <1>2
  <2>2. QED BY <2>1, <1>3
<1>7. QED BY <1>2, <1>3, <1>4, <1>5, <1>6 DEF t, IsSequence

-----------------------------------------------------------------------------
\* j is a constant, or a broadcast one, and R is the way to it.
ConstantPath(c, j, R) ==
    \/ c[j].opcode = "constant" /\ R = <<j>>
    \/ /\ c[j].opcode = "broadcast" /\ c[c[j].operands[1]].opcode = "constant"
       /\ R = <<j, c[j].operands[1]>>

\* What the matchers of broadcasted constants return.
LEMMA ConstantPaths ==
    ASSUME NEW c, NEW j
    PROVE  /\ MatchBroadcastedConstant(c, j) # <<>>
                => ConstantPath(c, j, MatchBroadcastedConstant(c, j))
           /\ MatchBroadcastedZero(c, j) # <<>>
                => ConstantPath(c, j, MatchBroadcastedZero(c, j))
           /\ MatchAvgPoolDivideByCountRHSOnes(c, j) # <<>>
                => ConstantPath(c, j, MatchAvgPoolDivideByCountRHSOnes(c, j))
<1>1. CASE c[j].opcode = "broadcast"
  <2> DEFINE p == <<j, c[j].operands[1]>>
  <2>1. p[Len(p)] = c[j].operands[1]
    OBVIOUS
  <2>2. QED
    BY <1>1, <2>1 DEF MatchBroadcastedConstant, MatchBroadcastedZero, Opcode, Operand,
                      MatchAvgPoolDivideByCountRHSOnes, Broadcasted, ConstantPath
<1>2. CASE c[j].opcode # "broadcast"
  <2> DEFINE p == <<j>>
  <2>1. p[Len(p)] = j
    OBVIOUS
  <2>2. QED
    BY <1>2, <2>1 DEF MatchBroadcastedConstant, MatchBroadcastedZero, Opcode, Operand,
                      MatchAvgPoolDivideByCountRHSOnes, Broadcasted, ConstantPath
<1>3. QED BY <1>1, <1>2

-----------------------------------------------------------------------------
\* What the proofs need of a computation in the middle of the pass: fusions have
\* any operands, the other instructions those of their opcode.
Counted(c) ==
    \A i \in DOMAIN c : \A n \in 0 .. 3 :
        c[i].opcode \in OperandCounts[n] => Len(c[i].operands) = n

\* R is a way down from i: every later part is an operand of an earlier one.
Walk(c, i, R) ==
    /\ IsSequence(R) /\ Len(R) \in Nat \ {0} /\ DOMAIN R = 1 .. Len(R)
    /\ R[1] = i
    /\ \A k \in 1 .. Len(R) : R[k] \in DOMAIN c /\ c[R[k]].opcode # "fusion"
    /\ \A q \in 2 .. Len(R) : \E p \in 1 .. q - 1 : R[q] \in Range(c[R[p]].operands)

\* The computations c and d have the same instructions in S.
AgreeOn(c, d, S) == \A x \in S : c[x] = d[x]

\* A way down from i and one from an operand k of a part of it make one way; the parts
\* can be fused in its order if k does not come again in between.
LEMMA Join ==
    ASSUME NEW c, NEW i, NEW k, NEW p, NEW q, Walk(c, i, p), Walk(c, k, q),
           NEW j \in 1 .. Len(p), k \in Range(c[p[j]].operands)
    PROVE  /\ Walk(c, i, p \o q)
           /\ Range(p \o q) = Range(p) \cup Range(q)
           /\ Reachable(c, p) /\ Reachable(c, q)
                 /\ (\A l \in j + 1 .. Len(p) : p[l] # k)
              => Reachable(c, p \o q)
<1> DEFINE t == p \o q
<1>1. /\ IsSequence(p) /\ IsSequence(q) /\ Len(p) \in Nat \ {0} /\ Len(q) \in Nat \ {0}
      /\ DOMAIN p = 1 .. Len(p) /\ DOMAIN q = 1 .. Len(q) /\ p[1] = i /\ q[1] = k
  BY DEF Walk
<1>2. /\ IsSequence(t) /\ Len(t) = Len(p) + Len(q)
      /\ \A l \in 1 .. Len(p) : t[l] = p[l]
      /\ \A l \in 1 .. Len(q) : t[Len(p) + l] = q[l]
  BY <1>1, ConcatenationFacts
<1> DEFINE a == Len(p)
           b == Len(q)
<1>3. DOMAIN t = 1 .. a + b
  <2>1. t \in Seq(Range(t))
    BY <1>2 DEF IsSequence
  <2> HIDE DEF t
  <2>2. DOMAIN t = 1 .. Len(t)
    BY <2>1
  <2>3. QED BY <2>2, <1>2
<1> HIDE DEF t
<1>4. /\ a \in Nat \ {0} /\ b \in Nat \ {0} /\ Len(t) = a + b
      /\ DOMAIN p = 1 .. a /\ DOMAIN q = 1 .. b
      /\ \A l \in 1 .. a : t[l] = p[l]
      /\ \A l \in 1 .. b : t[a + l] = q[l]
      /\ j \in 1 .. a
      /\ \A l \in 1 .. a : p[l] \in DOMAIN c /\ c[p[l]].opcode # "fusion"
      /\ \A l \in 1 .. b : q[l] \in DOMAIN c /\ c[q[l]].opcode # "fusion"
      /\ \A l \in 2 .. a : \E m \in 1 .. l - 1 : p[l] \in Range(c[p[m]].operands)
      /\ \A l \in 2 .. b : \E m \in 1 .. l - 1 : q[l] \in Range(c[q[m]].operands)
  BY <1>1, <1>2 DEF Walk
<1>5. Reachable(c, p) <=>
        \A l \in 2 .. a : \E m \in 1 .. l - 1 :
           p[l] \in Range(c[p[m]].operands) /\ \A e \in m + 1 .. l - 1 : p[e] # p[l]
  BY DEF Reachable
<1>6. Reachable(c, q) <=>
        \A l \in 2 .. b : \E m \in 1 .. l - 1 :
           q[l] \in Range(c[q[m]].operands) /\ \A e \in m + 1 .. l - 1 : q[e] # q[l]
  BY DEF Reachable
<1> HIDE DEF a, b
<1>7. \A l \in a + 1 .. a + b : l - a \in 1 .. b /\ a + (l - a) = l /\ t[l] = q[l - a]
  <2> SUFFICES ASSUME NEW l \in a + 1 .. a + b
               PROVE  l - a \in 1 .. b /\ a + (l - a) = l /\ t[l] = q[l - a]
    OBVIOUS
  <2>1. l - a \in 1 .. b /\ a + (l - a) = l
    BY <1>4
  <2>2. QED BY <2>1, <1>4
<1>8. Range(t) = Range(p) \cup Range(q)
  <2>1. \A x \in Range(t) : x \in Range(p) \cup Range(q)
    <3> SUFFICES ASSUME NEW l \in 1 .. a + b PROVE t[l] \in Range(p) \cup Range(q)
      BY <1>3 DEF Range, a, b
    <3>1. CASE l <= a
      <4>1. l \in 1 .. a
        BY <3>1, <1>4
      <4>2. t[l] = p[l] /\ l \in DOMAIN p
        BY <4>1, <1>4
      <4>3. QED BY <4>2 DEF Range
    <3>2. CASE ~(l <= a)
      <4>1. l \in a + 1 .. a + b
        BY <3>2, <1>4
      <4>2. t[l] = q[l - a] /\ l - a \in DOMAIN q
        BY <4>1, <1>4, <1>7
      <4>3. QED BY <4>2 DEF Range
    <3>3. QED BY <3>1, <3>2
  <2>2. \A l \in 1 .. a : p[l] \in Range(t)
    <3> SUFFICES ASSUME NEW l \in 1 .. a PROVE t[l] \in Range(t)
      BY <1>4
    <3>1. l \in DOMAIN t
      BY <1>3, <1>4 DEF a, b
    <3>2. QED BY <3>1 DEF Range
  <2>3. \A l \in 1 .. b : q[l] \in Range(t)
    <3> SUFFICES ASSUME NEW l \in 1 .. b PROVE t[a + l] \in Range(t)
      BY <1>4
    <3>1. a + l \in DOMAIN t
      BY <1>3, <1>4 DEF a, b
    <3>2. QED BY <3>1 DEF Range
  <2>4. Range(p) = {p[l] : l \in 1 .. a} /\ Range(q) = {q[l] : l \in 1 .. b}
    BY <1>4 DEF Range
  <2>5. QED BY <2>1, <2>2, <2>3, <2>4
<1>9. ASSUME NEW l \in 2 .. a + b
      PROVE  \E m \in 1 .. l - 1 : t[l] \in Range(c[t[m]].operands)
  <2>1. CASE l <= a
    <3>1. PICK m \in 1 .. l - 1 : p[l] \in Range(c[p[m]].operands)
      BY <2>1, <1>4
    <3>2. t[l] = p[l] /\ t[m] = p[m]
      BY <2>1, <1>4
    <3>3. QED BY <3>1, <3>2
  <2>2. CASE l = a + 1
    <3>1. t[l] = k /\ t[j] = p[j] /\ j \in 1 .. l - 1
      <4>1. l - a = 1
        BY <2>2, <1>4
      <4>2. QED BY <4>1, <2>2, <1>1, <1>4, <1>7
    <3>2. QED BY <3>1
  <2>3. CASE l > a + 1
    <3>1. l - a \in 2 .. b /\ t[l] = q[l - a]
      BY <2>3, <1>4, <1>7
    <3>2. PICK m \in 1 .. (l - a) - 1 : q[l - a] \in Range(c[q[m]].operands)
      BY <3>1, <1>4
    <3>3. a + m \in 1 .. l - 1 /\ t[a + m] = q[m]
      BY <3>1, <3>2, <1>4
    <3>4. QED BY <3>1, <3>2, <3>3
  <2>4. QED BY <2>1, <2>2, <2>3, <1>4
<1>10. ASSUME Reachable(c, p), Reachable(c, q), \A l \in j + 1 .. a : p[l] # k,
              NEW l \in 2 .. a + b
       PROVE  \E m \in 1 .. l - 1 :
                  /\ t[l] \in Range(c[t[m]].operands)
                  /\ \A e \in m + 1 .. l - 1 : t[e] # t[l]
  <2>1. CASE l <= a
    <3>1. l \in 2 .. a
      BY <2>1, <1>4
    <3>2. PICK m \in 1 .. l - 1 : p[l] \in Range(c[p[m]].operands)
                                  /\ \A e \in m + 1 .. l - 1 : p[e] # p[l]
      BY <3>1, <1>5, <1>10
    <3>3. t[l] = p[l] /\ \A e \in 1 .. l - 1 : t[e] = p[e]
      BY <3>1, <1>4
    <3>4. QED BY <3>2, <3>3
  <2>2. CASE l = a + 1
    <3>1. t[l] = k /\ t[j] = p[j] /\ j \in 1 .. l - 1
      <4>1. l - a = 1
        BY <2>2, <1>4
      <4>2. QED BY <4>1, <2>2, <1>1, <1>4, <1>7
    <3>2. \A e \in j + 1 .. l - 1 : t[e] # t[l]
      BY <3>1, <2>2, <1>4, <1>10
    <3>3. QED BY <3>1, <3>2
  <2>3. CASE l > a + 1
    <3>1. l - a \in 2 .. b /\ t[l] = q[l - a]
      BY <2>3, <1>4, <1>7
    <3>2. PICK m \in 1 .. (l - a) - 1 : q[l - a] \in Range(c[q[m]].operands)
                                        /\ \A e \in m + 1 .. (l - a) - 1 : q[e] # q[l - a]
      BY <3>1, <1>6, <1>10
    <3>3. a + m \in 1 .. l - 1 /\ t[a + m] = q[m]
      BY <3>1, <3>2, <1>4
    <3>4. ASSUME NEW e \in (a + m) + 1 .. l - 1  PROVE t[e] # t[l]
      <4>1. e - a \in m + 1 .. (l - a) - 1 /\ e \in a + 1 .. a + b
        BY <3>1, <3>2, <1>4
      <4>2. t[e] = q[e - a]
        BY <4>1, <1>7
      <4>3. QED BY <4>1, <4>2, <3>1, <3>2
    <3>5. QED BY <3>1, <3>2, <3>3, <3>4
  <2>4. l <= a \/ l = a + 1 \/ l > a + 1
    BY <1>4
  <2>5. QED BY <2>1, <2>2, <2>3, <2>4
<1>11. \A l \in 1 .. a + b : t[l] \in DOMAIN c /\ c[t[l]].opcode # "fusion"
  <2> SUFFICES ASSUME NEW l \in 1 .. a + b
               PROVE  t[l] \in DOMAIN c /\ c[t[l]].opcode # "fusion"
    OBVIOUS
  <2>1. CASE l <= a
    BY <2>1, <1>4
  <2>2. CASE ~(l <= a)
    <3>1. l \in a + 1 .. a + b
      BY <2>2, <1>4
    <3>2. QED BY <3>1, <1>4, <1>7
  <2>3. QED BY <2>1, <2>2
<1>12. t[1] = i
  <2>1. 1 \in 1 .. a
    BY <1>4
  <2>2. QED BY <2>1, <1>1, <1>4
<1>13. Walk(c, i, t)
  <2>1. Len(t) \in Nat \ {0} /\ Len(t) = a + b /\ DOMAIN t = 1 .. a + b
    BY <1>3, <1>4 DEF a, b
  <2> DEFINE w == a + b
  <2>2. Len(t) = w
    BY <2>1
  <2> HIDE DEF w
  <2>3. /\ \A l \in 2 .. w : \E m \in 1 .. l - 1 : t[l] \in Range(c[t[m]].operands)
        /\ \A l \in 1 .. w : t[l] \in DOMAIN c /\ c[t[l]].opcode # "fusion"
    BY <1>9, <1>11 DEF w
  <2>4. QED BY <1>2, <1>12, <2>1, <2>2, <2>3 DEF Walk, w
<1>14. Reachable(c, p) /\ Reachable(c, q) /\ (\A l \in j + 1 .. a : p[l] # k)
          => Reachable(c, t)
  BY <1>4, <1>10 DEF Reachable
<1>15. QED BY <1>8, <1>13, <1>14 DEF t, a

-----------------------------------------------------------------------------
\* The numbers of operands of the opcodes the rules look for.
LEMMA Counts ==
    /\ {"parameter", "constant"} \subseteq OperandCounts[0]
    /\ {"broadcast", "reverse"} \subseteq OperandCounts[1]
    /\ {"reduce", "reduce-window", "pad", "divide", "maximum", "gt",
        "convolution"} \subseteq OperandCounts[2]
    /\ {"select", "select-and-scatter"} \subseteq OperandCounts[3]
BY DEF OperandCounts

\* The operands that a rule looks at are there.
LEMMA OperandFacts ==
    ASSUME NEW n \in Nat, NEW c, Sound(c, n), Counted(c), NEW i \in DOMAIN c,
           NEW m \in 1 .. 3, c[i].opcode \in OperandCounts[m], NEW k \in 1 .. m
    PROVE  /\ Operand(c, i, k) \in Range(c[i].operands)
           /\ Operand(c, i, k) \in DOMAIN c
           /\ Operand(c, i, k) = c[i].operands[k]
<1>1. /\ c[i].operands \in Seq(1 .. i - 1) /\ Len(c[i].operands) = m
      /\ Range(c[i].operands) \subseteq DOMAIN c
  <2>1. m \in 0 .. 3
    OBVIOUS
  <2>2. Len(c[i].operands) = m
    BY <2>1 DEF Counted
  <2>3. QED BY <2>2 DEF Sound
<1>2. DOMAIN c[i].operands = 1 .. m
  BY <1>1
<1>3. QED BY <1>1, <1>2 DEF Range, Operand

\* The ways down of one, two and three parts that rules return.
LEMMA SingleWalk ==
    ASSUME NEW c, NEW i \in DOMAIN c, c[i].opcode # "fusion"
    PROVE  Walk(c, i, <<i>>) /\ Reachable(c, <<i>>) /\ Range(<<i>>) = {i}
BY TuplesAreSequences DEF Walk, Reachable, Range

\* A root and an operand of it.
LEMMA PairWalk ==
    ASSUME NEW c, NEW i \in DOMAIN c, NEW k \in DOMAIN c, k \in Range(c[i].operands),
           c[i].opcode # "fusion", c[k].opcode # "fusion"
    PROVE  Walk(c, i, <<i, k>>) /\ Reachable(c, <<i, k>>) /\ Range(<<i, k>>) = {i, k}
<1> DEFINE R == <<i, k>>
<1>1. /\ IsSequence(R) /\ Len(R) = 2 /\ DOMAIN R = 1 .. 2 /\ R[1] = i /\ R[2] = k
      /\ Range(R) = {i, k}
  BY TuplesAreSequences DEF Range
<1> HIDE DEF R
<1>2. 2 .. 2 = {2} /\ 1 \in 1 .. 2 - 1 /\ (1 + 1) .. 2 - 1 = {} /\ 1 .. 2 = {1, 2}
  OBVIOUS
<1>3. Walk(c, i, R)
  BY <1>1, <1>2 DEF Walk
<1>4. Reachable(c, R)
  BY <1>1, <1>2 DEF Reachable
<1>5. QED BY <1>1, <1>3, <1>4 DEF R

\* A root, an operand and another of its operands: the last two have to be different for
\* both to be fused.
LEMMA TripleWalk ==
    ASSUME NEW c, NEW i \in DOMAIN c, NEW k \in DOMAIN c, NEW l \in DOMAIN c,
           k \in Range(c[i].operands), l \in Range(c[i].operands),
           c[i].opcode # "fusion", c[k].opcode # "fusion", c[l].opcode # "fusion"
    PROVE  /\ Walk(c, i, <<i, k, l>>) /\ Range(<<i, k, l>>) = {i, k, l}
           /\ k # l => Reachable(c, <<i, k, l>>)
<1> DEFINE R == <<i, k, l>>
<1>1. /\ IsSequence(R) /\ Len(R) = 3 /\ DOMAIN R = 1 .. 3
      /\ R[1] = i /\ R[2] = k /\ R[3] = l
      /\ Range(R) = {i, k, l}
  BY TuplesAreSequences DEF Range
<1> HIDE DEF R
<1>2. /\ 2 .. 3 = {2, 3} /\ 1 \in 1 .. 2 - 1 /\ 1 \in 1 .. 3 - 1
      /\ (1 + 1) .. 2 - 1 = {} /\ (1 + 1) .. 3 - 1 = {2} /\ 1 .. 3 = {1, 2, 3}
  OBVIOUS
<1>3. Walk(c, i, R)
  BY <1>1, <1>2 DEF Walk
<1>4. k # l => Reachable(c, R)
  BY <1>1, <1>2 DEF Reachable
<1>5. QED BY <1>1, <1>3, <1>4 DEF R

\* j is a constant, perhaps broadcasted, all of whose elements are v.
Valued(c, j, v) == Broadcasted(c, j, LAMBDA k : IsAll(c, k, v))

\* A broadcasted constant is a way down, and is found in every computation that has its
\* instructions.
LEMMA Paths ==
    ASSUME NEW n \in Nat, NEW c, Sound(c, n), Counted(c), NEW j \in DOMAIN c
    PROVE  /\ MatchBroadcastedConstant(c, j) # <<>> =>
                LET R == MatchBroadcastedConstant(c, j)
                IN  /\ Walk(c, j, R) /\ Reachable(c, R)
                    /\ \A d : AgreeOn(c, d, Range(R)) => MatchBroadcastedConstant(d, j) = R
           /\ \A v : Valued(c, j, v) # <<>> =>
                LET R == Valued(c, j, v)
                IN  /\ Walk(c, j, R) /\ Reachable(c, R)
                    /\ \A d : AgreeOn(c, d, Range(R)) => Valued(d, j, v) = R
<1> DEFINE k == c[j].operands[1]
<1>1. CASE c[j].opcode = "broadcast"
  <2> DEFINE p == <<j, k>>
  <2>1. p[Len(p)] = k
    OBVIOUS
  <2>2. k \in DOMAIN c /\ k \in Range(c[j].operands)
    <3>1. c[j].opcode \in OperandCounts[1] /\ 1 \in 1 .. 3 /\ 1 \in 1 .. 1
      BY <1>1, Counts
    <3>2. QED BY <3>1, OperandFacts
  <2>3. ASSUME c[k].opcode = "constant"
        PROVE  Walk(c, j, p) /\ Reachable(c, p) /\ Range(p) = {j, k}
    <3>1. c[j].opcode # "fusion" /\ c[k].opcode # "fusion"
      BY <1>1, <2>3
    <3> HIDE DEF k
    <3>2. QED BY <3>1, <2>2, PairWalk
  <2>4. ASSUME NEW d, AgreeOn(c, d, {j, k})
        PROVE  d[j].opcode = "broadcast" /\ d[j].operands[1] = k /\ d[k] = c[k]
    BY <2>4, <1>1 DEF AgreeOn
  <2>5. ASSUME MatchBroadcastedConstant(c, j) # <<>>
        PROVE  LET R == MatchBroadcastedConstant(c, j)
               IN  /\ Walk(c, j, R) /\ Reachable(c, R)
                   /\ \A d : AgreeOn(c, d, Range(R)) => MatchBroadcastedConstant(d, j) = R
    <3>1. MatchBroadcastedConstant(c, j) = p /\ c[k].opcode = "constant"
      BY <2>1, <2>5, <1>1 DEF MatchBroadcastedConstant, Broadcasted, Opcode, Operand
    <3>2. ASSUME NEW d, AgreeOn(c, d, {j, k})
          PROVE  MatchBroadcastedConstant(d, j) = p
      BY <3>1, <3>2, <2>1, <2>4 DEF MatchBroadcastedConstant, Broadcasted, Opcode, Operand
    <3> HIDE DEF p, k
    <3>3. QED BY <3>1, <3>2, <2>3
  <2>6. ASSUME NEW v, Valued(c, j, v) # <<>>
        PROVE  LET R == Valued(c, j, v)
               IN  /\ Walk(c, j, R) /\ Reachable(c, R)
                   /\ \A d : AgreeOn(c, d, Range(R)) => Valued(d, j, v) = R
    <3>1. Valued(c, j, v) = p /\ c[k].opcode = "constant" /\ c[k].literal = v
      BY <2>1, <2>6, <1>1 DEF Valued, Broadcasted, Opcode, Operand, IsAll
    <3>2. ASSUME NEW d, AgreeOn(c, d, {j, k})
          PROVE  Valued(d, j, v) = p
      BY <3>1, <3>2, <2>1, <2>4 DEF Valued, Broadcasted, Opcode, Operand, IsAll
    <3> HIDE DEF p, k
    <3>3. QED BY <3>1, <3>2, <2>3
  <2>7. QED BY <2>5, <2>6
<1>2. CASE c[j].opcode # "broadcast"
  <2> DEFINE p == <<j>>
  <2>1. p[Len(p)] = j
    OBVIOUS
  <2>3. ASSUME c[j].opcode = "constant"
        PROVE  Walk(c, j, p) /\ Reachable(c, p) /\ Range(p) = {j}
    BY <2>3, <1>2, SingleWalk
  <2>4. ASSUME NEW d, AgreeOn(c, d, {j})
        PROVE  d[j].opcode # "broadcast" /\ d[j] = c[j]
    BY <2>4, <1>2 DEF AgreeOn
  <2>5. ASSUME MatchBroadcastedConstant(c, j) # <<>>
        PROVE  LET R == MatchBroadcastedConstant(c, j)
               IN  /\ Walk(c, j, R) /\ Reachable(c, R)
                   /\ \A d : AgreeOn(c, d, Range(R)) => MatchBroadcastedConstant(d, j) = R
    <3>1. MatchBroadcastedConstant(c, j) = p /\ c[j].opcode = "constant"
      BY <2>1, <2>5, <1>2 DEF MatchBroadcastedConstant, Broadcasted, Opcode, Operand
    <3>2. ASSUME NEW d, AgreeOn(c, d, {j})
          PROVE  MatchBroadcastedConstant(d, j) = p
      BY <3>1, <3>2, <2>1, <2>4 DEF MatchBroadcastedConstant, Broadcasted, Opcode, Operand
    <3> HIDE DEF p
    <3>3. QED BY <3>1, <3>2, <2>3
  <2>6. ASSUME NEW v, Valued(c, j, v) # <<>>
        PROVE  LET R == Valued(c, j, v)
               IN  /\ Walk(c, j, R) /\ Reachable(c, R)
                   /\ \A d : AgreeOn(c, d, Range(R)) => Valued(d, j, v) = R
    <3>1. Valued(c, j, v) = p /\ c[j].opcode = "constant" /\ c[j].literal = v
      BY <2>1, <2>6, <1>2 DEF Valued, Broadcasted, Opcode, Operand, IsAll
    <3>2. ASSUME NEW d, AgreeOn(c, d, {j})
          PROVE  Valued(d, j, v) = p
      BY <3>1, <3>2, <2>1, <2>4 DEF Valued, Broadcasted, Opcode, Operand, IsAll
    <3> HIDE DEF p
    <3>3. QED BY <3>1, <3>2, <2>3
  <2>7. QED BY <2>5, <2>6
<1>3. QED BY <1>1, <1>2

\* The same for a sum over windows and its initial value ...
LEMMA SumWalk ==
    ASSUME NEW n \in Nat, NEW c, Sound(c, n), Counted(c), NEW i \in DOMAIN c,
           MatchAvgPoolFpropLHS(c, i) # <<>>
    PROVE  LET R == MatchAvgPoolFpropLHS(c, i)
               init_value == Operand(c, i, 2)
           IN  /\ R = <<i, init_value>>
               /\ Walk(c, i, R) /\ Reachable(c, R) /\ Range(R) = {i, init_value}
               /\ c[i].opcode = "reduce-window"
               /\ ComputationIsTrivialBinop(c[i].apply, "add")
               /\ IsAll(c, init_value, 0)
               /\ init_value = c[i].operands[2]
               /\ Operand(c, i, 1) \in DOMAIN c
               /\ Operand(c, i, 1) \in Range(c[i].operands)
               /\ \A d : AgreeOn(c, d, {i, init_value}) => MatchAvgPoolFpropLHS(d, i) = R
<1> DEFINE k == Operand(c, i, 2)
           R == MatchAvgPoolFpropLHS(c, i)
<1>1. /\ R = <<i, k>> /\ c[i].opcode = "reduce-window" /\ IsAll(c, k, 0)
      /\ ComputationIsTrivialBinop(c[i].apply, "add")
  BY DEF MatchAvgPoolFpropLHS, Opcode
<1>2. c[i].opcode \in OperandCounts[2] /\ 2 \in 1 .. 3 /\ 1 \in 1 .. 2 /\ 2 \in 1 .. 2
  BY <1>1, Counts
<1>3. /\ k \in DOMAIN c /\ k \in Range(c[i].operands) /\ k = c[i].operands[2]
      /\ Operand(c, i, 1) \in DOMAIN c /\ Operand(c, i, 1) \in Range(c[i].operands)
  BY <1>2, OperandFacts
<1>4. c[i].opcode # "fusion" /\ c[k].opcode # "fusion"
  BY <1>1 DEF IsAll, Opcode
<1>5. ASSUME NEW d, AgreeOn(c, d, {i, k})  PROVE MatchAvgPoolFpropLHS(d, i) = R
  <2>1. d[i] = c[i] /\ d[k] = c[k] /\ Operand(d, i, 2) = k
    BY <1>5, <1>3 DEF AgreeOn, Operand
  <2> HIDE DEF k
  <2>2. IsAll(d, k, 0)
    BY <1>1, <2>1 DEF IsAll, Opcode
  <2>3. QED BY <1>1, <2>1, <2>2 DEF MatchAvgPoolFpropLHS, Opcode
<1> HIDE DEF k, R
<1>6. Walk(c, i, R) /\ Reachable(c, R) /\ Range(R) = {i, k}
  BY <1>1, <1>3, <1>4, PairWalk
<1>7. QED BY <1>1, <1>3, <1>5, <1>6 DEF k, R

\* ... for a sum over windows of ones ...
LEMMA CountsWalk ==
    ASSUME NEW n \in Nat, NEW c, Sound(c, n), Counted(c), NEW s \in DOMAIN c,
           MatchAvgPoolDivideByCountRHSPostBroadcast(c, s) # <<>>
    PROVE  LET R == MatchAvgPoolDivideByCountRHSPostBroadcast(c, s)
           IN  /\ Walk(c, s, R) /\ Reachable(c, R) /\ c[s].opcode = "reduce-window"
               /\ \A d : AgreeOn(c, d, Range(R)) =>
                     MatchAvgPoolDivideByCountRHSPostBroadcast(d, s) = R
<1> DEFINE
      o == Operand(c, s, 1)
      i == Operand(c, s, 2)
      p == MatchAvgPoolFpropLHS(c, s)
      q == MatchAvgPoolDivideByCountRHSOnes(c, o)
      R == MatchAvgPoolDivideByCountRHSPostBroadcast(c, s)
<1>1. p # <<>> /\ q # <<>> /\ R = p \o q
  BY DEF MatchAvgPoolDivideByCountRHSPostBroadcast, Both
<1>2. /\ p = <<s, i>> /\ Walk(c, s, p) /\ Reachable(c, p) /\ Range(p) = {s, i}
      /\ c[s].opcode = "reduce-window" /\ IsAll(c, i, 0)
      /\ o \in DOMAIN c /\ o \in Range(c[s].operands)
      /\ \A d : AgreeOn(c, d, {s, i}) => MatchAvgPoolFpropLHS(d, s) = p
  BY <1>1, SumWalk
<1>3. \A d, j : MatchAvgPoolDivideByCountRHSOnes(d, j) = Valued(d, j, 1)
  BY DEF MatchAvgPoolDivideByCountRHSOnes, Valued
<1>4. /\ Walk(c, o, q) /\ Reachable(c, q)
      /\ \A d : AgreeOn(c, d, Range(q)) => MatchAvgPoolDivideByCountRHSOnes(d, o) = q
  <2>1. q = Valued(c, o, 1) /\ Valued(c, o, 1) # <<>>
    BY <1>1, <1>3
  <2> HIDE DEF q, o
  <2>2. /\ Walk(c, o, q) /\ Reachable(c, q)
        /\ \A d : AgreeOn(c, d, Range(q)) => Valued(d, o, 1) = q
    BY <2>1, <1>2, Paths
  <2>3. QED BY <2>2, <1>3
<1>5. o # i
  <2>1. SUFFICES ASSUME o = i PROVE FALSE
    OBVIOUS
  <2>2. c[o].opcode = "constant" /\ c[o].literal = 0
    BY <1>2, <2>1 DEF IsAll, Opcode
  <2> DEFINE path == <<o>>
  <2>3. path[Len(path)] = o
    OBVIOUS
  <2>4. ~IsAll(c, o, 1)
    BY <2>2 DEF IsAll
  <2>5. q = <<>>
    BY <2>2, <2>3, <2>4 DEF MatchAvgPoolDivideByCountRHSOnes, Broadcasted, Opcode
  <2>6. QED BY <2>5, <1>1
<1>6. 1 \in 1 .. Len(p) /\ p[1] = s /\ \A l \in 1 + 1 .. Len(p) : p[l] # o
  BY <1>2, <1>5
<1>7. ASSUME NEW d, AgreeOn(c, d, {s, i}), AgreeOn(c, d, Range(q))
      PROVE  MatchAvgPoolDivideByCountRHSPostBroadcast(d, s) = R
  <2>1. MatchAvgPoolFpropLHS(d, s) = p
    BY <1>2, <1>7
  <2>2. MatchAvgPoolDivideByCountRHSOnes(d, o) = q
    BY <1>4, <1>7
  <2>3. Operand(d, s, 1) = o
    BY <1>7 DEF AgreeOn, Operand
  <2> HIDE DEF p, q, o, i
  <2>4. QED BY <1>1, <2>1, <2>2, <2>3 DEF MatchAvgPoolDivideByCountRHSPostBroadcast, Both
<1> HIDE DEF p, q, o, i, R
<1>8. /\ Walk(c, s, p \o q) /\ Range(p \o q) = Range(p) \cup Range(q)
      /\ Reachable(c, p \o q)
  <2>1. o \in Range(c[p[1]].operands)
    BY <1>2, <1>6
  <2>2. Walk(c, s, p) /\ Walk(c, o, q) /\ Reachable(c, p) /\ Reachable(c, q)
    BY <1>2, <1>4
  <2> DEFINE j == 1
  <2>3. j \in 1 .. Len(p) /\ o \in Range(c[p[j]].operands)
        /\ \A l \in j + 1 .. Len(p) : p[l] # o
    BY <1>6, <2>1
  <2> HIDE DEF j
  <2>4. QED BY <2>2, <2>3, Join
<1>9. \A d : AgreeOn(c, d, Range(R)) => AgreeOn(c, d, {s, i}) /\ AgreeOn(c, d, Range(q))
  BY <1>1, <1>2, <1>8 DEF AgreeOn
<1>10. QED BY <1>1, <1>2, <1>7, <1>8, <1>9 DEF R

\* ... for what an average pool divides by, a constant or the counts ...
LEMMA DivisorWalk ==
    ASSUME NEW n \in Nat, NEW c, Sound(c, n), Counted(c), NEW j \in DOMAIN c,
           MatchAvgPoolDivideByCountRHS(c, j) # <<>>
    PROVE  LET R == MatchAvgPoolDivideByCountRHS(c, j)
           IN  /\ Walk(c, j, R) /\ Reachable(c, R)
               /\ \A d : AgreeOn(c, d, Range(R)) =>
                     /\ MatchAvgPoolDivideByCountRHS(d, j) = R
                     /\ IsValidPadding(d, j) <=> IsValidPadding(c, j)
<1> DEFINE R == MatchAvgPoolDivideByCountRHS(c, j)
<1>1. CASE IsValidPadding(c, j)
  <2> DEFINE q == MatchBroadcastedConstant(c, j)
  <2>1. R = q /\ q # <<>>
    BY <1>1 DEF MatchAvgPoolDivideByCountRHS, IsValidPadding
  <2> HIDE DEF R, q
  <2>2. /\ Walk(c, j, q) /\ Reachable(c, q)
        /\ \A d : AgreeOn(c, d, Range(q)) => MatchBroadcastedConstant(d, j) = q
    BY <2>1, Paths DEF q
  <2>3. ASSUME NEW d, AgreeOn(c, d, Range(q))
        PROVE  MatchAvgPoolDivideByCountRHS(d, j) = q /\ IsValidPadding(d, j)
    BY <2>1, <2>2, <2>3 DEF MatchAvgPoolDivideByCountRHS, IsValidPadding
  <2>4. QED BY <2>1, <2>2, <2>3, <1>1 DEF R
<1>2. CASE ~IsValidPadding(c, j) /\ c[j].opcode = "broadcast"
  <2> DEFINE
        p == <<j>>
        k == Operand(c, j, 1)
        q == MatchAvgPoolDivideByCountRHSPostBroadcast(c, k)
  <2>1. p # <<>>
    OBVIOUS
  <2>2. R = p \o q /\ q # <<>>
    <3>1. R = Both(p, q)
      BY <1>2 DEF MatchAvgPoolDivideByCountRHS, Opcode
    <3> HIDE DEF q
    <3>2. QED BY <3>1, <2>1 DEF Both
  <2>3. k \in DOMAIN c /\ k \in Range(c[j].operands)
    <3>1. c[j].opcode \in OperandCounts[1] /\ 1 \in 1 .. 3 /\ 1 \in 1 .. 1
      BY <1>2, Counts
    <3>2. QED BY <3>1, OperandFacts
  <2> HIDE DEF k
  <2>4. /\ Walk(c, k, q) /\ Reachable(c, q) /\ c[k].opcode = "reduce-window"
        /\ \A d : AgreeOn(c, d, Range(q)) =>
              MatchAvgPoolDivideByCountRHSPostBroadcast(d, k) = q
    <3> HIDE DEF q
    <3> QED BY <2>2, <2>3, CountsWalk DEF q
  <2>5. /\ Walk(c, j, p) /\ Reachable(c, p) /\ Range(p) = {j}
        /\ Len(p) = 1 /\ p[1] = j
    <3>1. c[j].opcode # "fusion"
      BY <1>2
    <3>2. QED BY <3>1, SingleWalk
  <2>6. \A d : AgreeOn(c, d, {j}) =>
           d[j].opcode = "broadcast" /\ Operand(d, j, 1) = k
    BY <1>2 DEF AgreeOn, Operand, k
  <2>7. k \in Range(q)
    <3> HIDE DEF q
    <3>1. q[1] = k /\ 1 \in DOMAIN q
      BY <2>4 DEF Walk
    <3>2. QED BY <3>1 DEF Range
  <2>8. \A d : AgreeOn(c, d, {j}) /\ AgreeOn(c, d, Range(q)) => ~IsValidPadding(d, j)
    <3> SUFFICES ASSUME NEW d, AgreeOn(c, d, {j}), AgreeOn(c, d, Range(q))
                 PROVE  ~IsValidPadding(d, j)
      OBVIOUS
    <3>1. d[k] = c[k]
      BY <2>7 DEF AgreeOn
    <3>2. d[j].opcode = "broadcast" /\ Operand(d, j, 1) = k /\ d[k].opcode # "constant"
      BY <2>4, <2>6, <3>1
    <3> DEFINE path == <<j, k>>
    <3>3. path[Len(path)] = k
      OBVIOUS
    <3>4. QED BY <3>2, <3>3 DEF IsValidPadding, MatchBroadcastedConstant, Broadcasted, Opcode
  <2> HIDE DEF p, q, R
  <2>9. /\ Walk(c, j, p \o q) /\ Range(p \o q) = Range(p) \cup Range(q)
        /\ Reachable(c, p \o q)
    <3> DEFINE l == 1
    <3>1. l \in 1 .. Len(p) /\ k \in Range(c[p[l]].operands)
          /\ \A e \in l + 1 .. Len(p) : p[e] # k
      BY <2>3, <2>5
    <3>2. Walk(c, j, p) /\ Walk(c, k, q) /\ Reachable(c, p) /\ Reachable(c, q)
      BY <2>4, <2>5
    <3> HIDE DEF l
    <3>3. QED BY <3>1, <3>2, Join
  <2>10. \A d : AgreeOn(c, d, Range(R)) => AgreeOn(c, d, {j}) /\ AgreeOn(c, d, Range(q))
    BY <2>2, <2>5, <2>9 DEF AgreeOn
  <2>11. ASSUME NEW d, AgreeOn(c, d, Range(R))
         PROVE  MatchAvgPoolDivideByCountRHS(d, j) = R /\ ~IsValidPadding(d, j)
    <3>1. /\ d[j].opcode = "broadcast" /\ Operand(d, j, 1) = k /\ ~IsValidPadding(d, j)
          /\ MatchAvgPoolDivideByCountRHSPostBroadcast(d, k) = q
      BY <2>4, <2>6, <2>8, <2>10, <2>11
    <3>2. MatchAvgPoolDivideByCountRHS(d, j) = Both(p, q)
      BY <3>1 DEF MatchAvgPoolDivideByCountRHS, Opcode, p
    <3>3. QED BY <3>1, <3>2, <2>1, <2>2 DEF Both
  <2>12. QED BY <2>2, <2>9, <2>11, <1>2 DEF R
<1>3. CASE ~IsValidPadding(c, j) /\ c[j].opcode # "broadcast"
  <2> DEFINE q == MatchAvgPoolDivideByCountRHSPostBroadcast(c, j)
  <2>1. R = q /\ q # <<>>
    BY <1>3 DEF MatchAvgPoolDivideByCountRHS, Opcode
  <2> HIDE DEF R, q
  <2>2. /\ Walk(c, j, q) /\ Reachable(c, q) /\ c[j].opcode = "reduce-window"
        /\ \A d : AgreeOn(c, d, Range(q)) =>
              MatchAvgPoolDivideByCountRHSPostBroadcast(d, j) = q
    BY <2>1, CountsWalk DEF q
  <2>3. j \in Range(q)
    <3>1. q[1] = j /\ 1 \in DOMAIN q
      BY <2>2 DEF Walk
    <3>2. QED BY <3>1 DEF Range
  <2>4. ASSUME NEW d, AgreeOn(c, d, Range(q))
        PROVE  MatchAvgPoolDivideByCountRHS(d, j) = q /\ ~IsValidPadding(d, j)
    <3>1. d[j] = c[j] /\ d[j].opcode = "reduce-window"
      BY <2>2, <2>3, <2>4 DEF AgreeOn
    <3> DEFINE path == <<j>>
    <3>2. path[Len(path)] = j
      OBVIOUS
    <3>3. ~IsValidPadding(d, j)
      BY <3>1, <3>2 DEF IsValidPadding, MatchBroadcastedConstant, Broadcasted, Opcode
    <3>4. QED BY <3>1, <3>3, <2>2, <2>4 DEF MatchAvgPoolDivideByCountRHS, Opcode
  <2>5. QED BY <2>1, <2>2, <2>4, <1>3 DEF R
<1>4. QED BY <1>1, <1>2, <1>3

\* ... and for a padded quotient, the gradient that an average pool's gets.  The value
\* padded with has to be another instruction than the divisor.
LEMMA PaddedGradientWalk ==
    ASSUME NEW n \in Nat, NEW c, Sound(c, n), Counted(c), NEW i \in DOMAIN c,
           MatchAvgPoolBpropReduceWindowOperand(c, i) # <<>>
    PROVE  LET R == MatchAvgPoolBpropReduceWindowOperand(c, i)
               divide == Operand(c, i, 1)
               pad_value == Operand(c, i, 2)
               counts == Operand(c, divide, 2)
           IN  /\ Walk(c, i, R) /\ c[i].opcode = "pad" /\ IsAll(c, pad_value, 0)
               /\ c[divide].opcode = "divide"
               /\ pad_value # counts => Reachable(c, R)
               /\ \A d : AgreeOn(c, d, Range(R)) =>
                     /\ MatchAvgPoolBpropReduceWindowOperand(d, i) = R
                     /\ IsValidPadding(d, counts) <=> IsValidPadding(c, counts)
                     /\ d[i] = c[i] /\ d[divide] = c[divide]
<1> DEFINE
      R == MatchAvgPoolBpropReduceWindowOperand(c, i)
      divide == Operand(c, i, 1)
      pad_value == Operand(c, i, 2)
      counts == Operand(c, divide, 2)
      p == <<i, divide, pad_value>>
      q == MatchAvgPoolDivideByCountRHS(c, counts)
<1>1. p # <<>>
  OBVIOUS
<1>2. /\ c[i].opcode = "pad" /\ c[divide].opcode = "divide" /\ IsAll(c, pad_value, 0)
      /\ R = p \o q /\ q # <<>>
  <2>1. /\ c[i].opcode = "pad" /\ c[divide].opcode = "divide" /\ IsAll(c, pad_value, 0)
        /\ R = Both(p, q)
    BY DEF MatchAvgPoolBpropReduceWindowOperand, Opcode
  <2> HIDE DEF p, q
  <2>2. QED BY <2>1, <1>1 DEF Both
<1>3. /\ divide \in DOMAIN c /\ divide \in Range(c[i].operands)
      /\ pad_value \in DOMAIN c /\ pad_value \in Range(c[i].operands)
  <2>1. c[i].opcode \in OperandCounts[2] /\ 2 \in 1 .. 3 /\ 1 \in 1 .. 2 /\ 2 \in 1 .. 2
    BY <1>2, Counts
  <2>2. QED BY <2>1, OperandFacts
<1> HIDE DEF divide, pad_value
<1>4. counts \in DOMAIN c /\ counts \in Range(c[divide].operands)
  <2>1. c[divide].opcode \in OperandCounts[2] /\ 2 \in 1 .. 3 /\ 2 \in 1 .. 2
    BY <1>2, Counts
  <2>2. QED BY <1>3, <2>1, OperandFacts
<1> HIDE DEF counts
<1>5. /\ Walk(c, counts, q) /\ Reachable(c, q)
      /\ \A d : AgreeOn(c, d, Range(q)) =>
             /\ MatchAvgPoolDivideByCountRHS(d, counts) = q
             /\ IsValidPadding(d, counts) <=> IsValidPadding(c, counts)
  <2> HIDE DEF q
  <2> QED BY <1>2, <1>4, DivisorWalk DEF q
<1>6. c[i].opcode # "fusion" /\ c[divide].opcode # "fusion" /\ c[pad_value].opcode # "fusion"
      /\ divide # pad_value
  BY <1>2 DEF IsAll, Opcode
<1>7. /\ Walk(c, i, p) /\ Range(p) = {i, divide, pad_value} /\ Reachable(c, p)
      /\ Len(p) = 3 /\ p[2] = divide /\ p[3] = pad_value
  BY <1>3, <1>6, TripleWalk
<1> HIDE DEF p, q, R
<1>8. /\ Walk(c, i, p \o q) /\ Range(p \o q) = Range(p) \cup Range(q)
      /\ pad_value # counts => Reachable(c, p \o q)
  <2> DEFINE l == 2
  <2>1. l \in 1 .. Len(p) /\ counts \in Range(c[p[l]].operands)
        /\ (pad_value # counts => \A e \in l + 1 .. Len(p) : p[e] # counts)
    BY <1>4, <1>7
  <2>2. Walk(c, i, p) /\ Walk(c, counts, q) /\ Reachable(c, p) /\ Reachable(c, q)
    BY <1>5, <1>7
  <2> HIDE DEF l
  <2>3. QED BY <2>1, <2>2, Join
<1>9. ASSUME NEW d, AgreeOn(c, d, Range(R))
      PROVE  /\ MatchAvgPoolBpropReduceWindowOperand(d, i) = R
             /\ IsValidPadding(d, counts) <=> IsValidPadding(c, counts)
             /\ d[i] = c[i] /\ d[divide] = c[divide]
  <2>1. d[i] = c[i] /\ d[divide] = c[divide] /\ d[pad_value] = c[pad_value]
        /\ AgreeOn(c, d, Range(q))
    BY <1>9, <1>2, <1>7, <1>8 DEF AgreeOn
  <2>2. /\ Operand(d, i, 1) = divide /\ Operand(d, i, 2) = pad_value
        /\ Operand(d, divide, 2) = counts
        /\ d[i].opcode = "pad" /\ d[divide].opcode = "divide" /\ IsAll(d, pad_value, 0)
    BY <1>2, <2>1 DEF Operand, divide, pad_value, counts, IsAll, Opcode
  <2>3. /\ MatchAvgPoolDivideByCountRHS(d, counts) = q
        /\ IsValidPadding(d, counts) <=> IsValidPadding(c, counts)
    BY <1>5, <2>1
  <2>4. MatchAvgPoolBpropReduceWindowOperand(d, i) = Both(p, q)
    BY <2>2, <2>3 DEF MatchAvgPoolBpropReduceWindowOperand, Opcode, p
  <2>5. QED BY <2>1, <2>3, <2>4, <1>1, <1>2 DEF Both
<1>10. QED BY <1>2, <1>8, <1>9 DEF R, divide, pad_value, counts

-----------------------------------------------------------------------------
\* No instruction of c has been fused, and none divides a value by itself.
Fresh(c) == (\A x \in DOMAIN c : WellShaped(c, x)) /\ NoSelfDivision(c)

\* What a rule has matched at i is a way down from i, and can be fused.
Recognised(c, i, m) ==
    /\ Walk(c, i, m.fuse)
    /\ m.emitter.kind \in Emitters
    /\ Fresh(c) => Reachable(c, m.fuse)

\* A rule that finds m at i in c finds it in d.
Same(c, d, i, m) ==
    /\ AgreeOn(c, d, Range(m.fuse))
    /\ \A x \in Range(c[i].operands) : d[x].shape = c[x].shape

\* The fields of what rules return.
LEMMA MatchFacts ==
    /\ \A L, e : Match(L, e).fuse = L /\ Match(L, e).emitter = e
    /\ \A k, w, f : PoolEmitter(k, w, f).kind = k
    /\ \A k, o, w : [NoEmitter EXCEPT !.kind = k, !.opcode = o, !.dimensions = w].kind = k
    /\ \A k : [NoEmitter EXCEPT !.kind = k].kind = k
BY DEF Match, PoolEmitter, NoEmitter

\* What FuseReduce matches is a way down from i, and it matches wherever the instructions
\* matched are the same.
LEMMA ReduceRule ==
    ASSUME NEW n \in Nat, NEW c, Sound(c, n), Counted(c), NEW i \in DOMAIN c,
           NEW m, m = FuseReduce(c, i), m # NoMatch
    PROVE  /\ Recognised(c, i, m)
           /\ \A d : Same(c, d, i, m) => FuseReduce(d, i) = m
<1> DEFINE k == Operand(c, i, 2)
           L == <<i, k>>
           e == [NoEmitter EXCEPT !.kind = "reduction", !.opcode = c[i].apply.root,
                                  !.dimensions = c[i].dimensions]
<1>1. PICK op \in DOMAIN Identity :
         /\ m = Match(L, e) /\ c[i].opcode = "reduce"
         /\ ComputationIsTrivialBinop(c[i].apply, op) /\ IsAll(c, k, Identity[op])
  BY DEF FuseReduce, Opcode
<1>2. m.fuse = L /\ m.emitter.kind = "reduction"
  <2>1. e.kind = "reduction"
    BY MatchFacts
  <2> HIDE DEF e, L
  <2>2. QED BY <1>1, <2>1, MatchFacts
<1>3. k \in DOMAIN c /\ k \in Range(c[i].operands)
  <2>1. c[i].opcode \in OperandCounts[2] /\ 2 \in 1 .. 3 /\ 2 \in 1 .. 2
    BY <1>1, Counts
  <2>2. QED BY <2>1, OperandFacts
<1>4. c[i].opcode # "fusion" /\ c[k].opcode # "fusion"
  BY <1>1 DEF IsAll, Opcode
<1>5. ASSUME NEW d, AgreeOn(c, d, {i, k})  PROVE FuseReduce(d, i) = m
  <2>1. d[i] = c[i] /\ d[k] = c[k] /\ Operand(d, i, 2) = k
    BY <1>5 DEF AgreeOn, Operand
  <2> HIDE DEF k
  <2>2. IsAll(d, k, Identity[op])
    BY <1>1, <2>1 DEF IsAll, Opcode
  <2>3. QED BY <1>1, <2>1, <2>2 DEF FuseReduce, Opcode
<1> HIDE DEF k
<1>6. Walk(c, i, L) /\ Reachable(c, L) /\ Range(L) = {i, k}
  BY <1>3, <1>4, PairWalk
<1> HIDE DEF L
<1>7. QED BY <1>2, <1>5, <1>6 DEF Recognised, Same, Emitters

\* The same for FuseMaxPoolFprop ...
LEMMA MaxPoolRule ==
    ASSUME NEW n \in Nat, NEW c, Sound(c, n), Counted(c), NEW i \in DOMAIN c,
           NEW m, m = FuseMaxPoolFprop(c, i), m # NoMatch
    PROVE  /\ Recognised(c, i, m)
           /\ \A d : Same(c, d, i, m) => FuseMaxPoolFprop(d, i) = m
<1> DEFINE k == Operand(c, i, 2)
           L == <<i, k>>
           format == ReconstructDataFormatFromPoolingWindow(c[i].window)
<1>1. /\ m = Match(L, PoolEmitter("max-pool", c[i].window, format))
      /\ c[i].opcode = "reduce-window" /\ format # "none"
      /\ ComputationIsTrivialBinop(c[i].apply, "maximum") /\ IsAll(c, k, MinValue)
  BY DEF FuseMaxPoolFprop, Opcode
<1>2. m.fuse = L /\ m.emitter.kind = "max-pool"
  <2> HIDE DEF format, L
  <2> QED BY <1>1, MatchFacts
<1>3. k \in DOMAIN c /\ k \in Range(c[i].operands)
  <2>1. c[i].opcode \in OperandCounts[2] /\ 2 \in 1 .. 3 /\ 2 \in 1 .. 2
    BY <1>1, Counts
  <2>2. QED BY <2>1, OperandFacts
<1>4. c[i].opcode # "fusion" /\ c[k].opcode # "fusion"
  BY <1>1 DEF IsAll, Opcode
<1>5. ASSUME NEW d, AgreeOn(c, d, {i, k})  PROVE FuseMaxPoolFprop(d, i) = m
  <2>1. d[i] = c[i] /\ d[k] = c[k] /\ Operand(d, i, 2) = k
    BY <1>5 DEF AgreeOn, Operand
  <2> HIDE DEF k
  <2>2. IsAll(d, k, MinValue)
    BY <1>1, <2>1 DEF IsAll, Opcode
  <2>3. QED BY <1>1, <2>1, <2>2 DEF FuseMaxPoolFprop, Opcode
<1> HIDE DEF k
<1>6. Walk(c, i, L) /\ Reachable(c, L) /\ Range(L) = {i, k}
  BY <1>3, <1>4, PairWalk
<1> HIDE DEF L
<1>7. QED BY <1>2, <1>5, <1>6 DEF Recognised, Same, Emitters

\* ... for FuseMaxPoolBprop ...
LEMMA MaxPoolBpropRule ==
    ASSUME NEW n \in Nat, NEW c, Sound(c, n), Counted(c), NEW i \in DOMAIN c,
           NEW m, m = FuseMaxPoolBprop(c, i), m # NoMatch
    PROVE  /\ Recognised(c, i, m)
           /\ \A d : Same(c, d, i, m) => FuseMaxPoolBprop(d, i) = m
<1> DEFINE k == Operand(c, i, 3)
           L == <<i, k>>
           format == ReconstructDataFormatFromPoolingWindow(c[i].window)
<1>1. /\ m = Match(L, PoolEmitter("max-pool-backprop", c[i].window, format))
      /\ c[i].opcode = "select-and-scatter" /\ format # "none" /\ IsAll(c, k, 0)
      /\ ComputationIsTrivialBinop(c[i].apply, "ge")
      /\ ComputationIsTrivialBinop(c[i].scatter, "add")
  BY DEF FuseMaxPoolBprop, Opcode
<1>2. m.fuse = L /\ m.emitter.kind = "max-pool-backprop"
  <2> HIDE DEF format, L
  <2> QED BY <1>1, MatchFacts
<1>3. k \in DOMAIN c /\ k \in Range(c[i].operands)
  <2>1. c[i].opcode \in OperandCounts[3] /\ 3 \in 1 .. 3
    BY <1>1, Counts
  <2>2. QED BY <2>1, OperandFacts
<1>4. c[i].opcode # "fusion" /\ c[k].opcode # "fusion"
  BY <1>1 DEF IsAll, Opcode
<1>5. ASSUME NEW d, AgreeOn(c, d, {i, k})  PROVE FuseMaxPoolBprop(d, i) = m
  <2>1. d[i] = c[i] /\ d[k] = c[k] /\ Operand(d, i, 3) = k
    BY <1>5 DEF AgreeOn, Operand
  <2> HIDE DEF k
  <2>2. IsAll(d, k, 0)
    BY <1>1, <2>1 DEF IsAll, Opcode
  <2>3. QED BY <1>1, <2>1, <2>2 DEF FuseMaxPoolBprop, Opcode
<1> HIDE DEF k
<1>6. Walk(c, i, L) /\ Reachable(c, L) /\ Range(L) = {i, k}
  BY <1>3, <1>4, PairWalk
<1> HIDE DEF L
<1>7. QED BY <1>2, <1>5, <1>6 DEF Recognised, Same, Emitters

\* ... for FuseConvolutionBpropData, which also reads the shape of an operand ...
LEMMA ConvolutionDataRule ==
    ASSUME NEW n \in Nat, NEW c, Sound(c, n), Counted(c), NEW i \in DOMAIN c,
           NEW m, m = FuseConvolutionBpropData(c, i), m # NoMatch
    PROVE  /\ Recognised(c, i, m)
           /\ \A d : Same(c, d, i, m) => FuseConvolutionBpropData(d, i) = m
<1> DEFINE
      k == Operand(c, i, 2)
      l == Operand(c, i, 1)
      L == <<i, k>>
<1>1. /\ c[i].opcode = "convolution" /\ c[k].opcode = "reverse"
      /\ m.fuse = L /\ m.emitter.kind = "conv-backprop-input"
  BY DEF FuseConvolutionBpropData, Opcode, RevAppliesToFilterSpatialDims, Match,
         ConvEmitter, NoEmitter
<1>3. /\ k \in DOMAIN c /\ k \in Range(c[i].operands)
      /\ l \in DOMAIN c /\ l \in Range(c[i].operands)
  <2>1. c[i].opcode \in OperandCounts[2] /\ 2 \in 1 .. 3 /\ 1 \in 1 .. 2 /\ 2 \in 1 .. 2
    BY <1>1, Counts
  <2>2. QED BY <2>1, OperandFacts
<1>4. c[i].opcode # "fusion" /\ c[k].opcode # "fusion"
  BY <1>1
<1>5. ASSUME NEW d, AgreeOn(c, d, {i, k}), d[l].shape = c[l].shape
      PROVE  FuseConvolutionBpropData(d, i) = m
  <2>1. d[i] = c[i] /\ d[k] = c[k] /\ Operand(d, i, 2) = k /\ Operand(d, i, 1) = l
    BY <1>5 DEF AgreeOn, Operand
  <2> HIDE DEF k, l
  <2>2. RevAppliesToFilterSpatialDims(d, k) = RevAppliesToFilterSpatialDims(c, k)
    BY <2>1 DEF RevAppliesToFilterSpatialDims, Opcode
  <2>3. QED BY <1>5, <2>1, <2>2 DEF FuseConvolutionBpropData, Opcode, k, l
<1> HIDE DEF k, l
<1>6. Walk(c, i, L) /\ Reachable(c, L) /\ Range(L) = {i, k}
  BY <1>3, <1>4, PairWalk
<1> HIDE DEF L
<1>7. QED BY <1>1, <1>3, <1>5, <1>6 DEF Recognised, Same, Emitters

\* ... for FuseConvolutionBpropFilters, which reads those of both ...
LEMMA ConvolutionFiltersRule ==
    ASSUME NEW n \in Nat, NEW c, Sound(c, n), Counted(c), NEW i \in DOMAIN c,
           NEW m, m = FuseConvolutionBpropFilters(c, i), m # NoMatch
    PROVE  /\ Recognised(c, i, m)
           /\ \A d : Same(c, d, i, m) => FuseConvolutionBpropFilters(d, i) = m
<1> DEFINE
      k == Operand(c, i, 2)
      l == Operand(c, i, 1)
      L == <<i>>
<1>1. /\ c[i].opcode = "convolution"
      /\ m.fuse = L /\ m.emitter.kind = "conv-backprop-filters"
  BY DEF FuseConvolutionBpropFilters, Opcode, Match, ConvEmitter, NoEmitter
<1>3. /\ k \in DOMAIN c /\ k \in Range(c[i].operands)
      /\ l \in DOMAIN c /\ l \in Range(c[i].operands)
  <2>1. c[i].opcode \in OperandCounts[2] /\ 2 \in 1 .. 3 /\ 1 \in 1 .. 2 /\ 2 \in 1 .. 2
    BY <1>1, Counts
  <2>2. QED BY <2>1, OperandFacts
<1>4. c[i].opcode # "fusion"
  BY <1>1
<1>5. ASSUME NEW d, AgreeOn(c, d, {i}), d[l].shape = c[l].shape, d[k].shape = c[k].shape
      PROVE  FuseConvolutionBpropFilters(d, i) = m
  <2>1. d[i] = c[i] /\ Operand(d, i, 2) = k /\ Operand(d, i, 1) = l
    BY <1>5 DEF AgreeOn, Operand
  <2> HIDE DEF k, l
  <2>3. QED BY <1>5, <2>1 DEF FuseConvolutionBpropFilters, Opcode, k, l
<1> HIDE DEF k, l
<1>6. Walk(c, i, L) /\ Reachable(c, L) /\ Range(L) = {i}
  BY <1>4, SingleWalk
<1> HIDE DEF L
<1>7. QED BY <1>1, <1>3, <1>5, <1>6 DEF Recognised, Same, Emitters

\* Concatenation is associative.
LEMMA Reassociate ==
    ASSUME NEW p, IsSequence(p), NEW q, IsSequence(q), NEW r, IsSequence(r)
    PROVE  (p \o q) \o r = p \o (q \o r)
<1> DEFINE
      A == Range(p)
      B == Range(q)
      C == Range(r)
      S == A \cup B \cup C
<1>1. p \in Seq(A) /\ q \in Seq(B) /\ r \in Seq(C)
  BY DEF IsSequence
<1> HIDE DEF A, B, C
<1>2. \A X, Y : X \subseteq Y => \A s \in Seq(X) : s \in Seq(Y)
  OBVIOUS
<1>3. A \subseteq S /\ B \subseteq S /\ C \subseteq S
  OBVIOUS
<1> HIDE DEF S
<1>4. p \in Seq(S) /\ q \in Seq(S) /\ r \in Seq(S)
  BY <1>1, <1>2, <1>3
<1>5. QED BY <1>4, ConcatAssociative

\* ... for FuseRelu ...
LEMMA ReluRule ==
    ASSUME NEW n \in Nat, NEW c, Sound(c, n), Counted(c), NEW i \in DOMAIN c,
           NEW m, m = FuseRelu(c, i), m # NoMatch
    PROVE  /\ Recognised(c, i, m)
           /\ \A d : Same(c, d, i, m) => FuseRelu(d, i) = m
<1> DEFINE
      k == Operand(c, i, 1)
      p == <<i>>
      q == MatchBroadcastedZero(c, k)
      e == [NoEmitter EXCEPT !.kind = "relu"]
<1>1. m = Match(p \o q, e) /\ c[i].opcode = "maximum" /\ q # <<>>
  BY DEF FuseRelu, Opcode
<1>2. e.kind = "relu"
  BY MatchFacts
<1> HIDE DEF e
<1>3. m.fuse = p \o q /\ m.emitter.kind = "relu"
  <2> DEFINE L == p \o q
  <2>1. m = Match(L, e)
    BY <1>1
  <2> HIDE DEF L
  <2>2. m.fuse = L /\ m.emitter.kind = "relu"
    BY <2>1, <1>2, MatchFacts
  <2>3. QED BY <2>2 DEF L
<1>4. k \in DOMAIN c /\ k \in Range(c[i].operands)
  <2>1. c[i].opcode \in OperandCounts[2] /\ 2 \in 1 .. 3 /\ 1 \in 1 .. 2
    BY <1>1, Counts
  <2>2. QED BY <2>1, OperandFacts
<1> HIDE DEF k
<1>5. \A d, j : MatchBroadcastedZero(d, j) = Valued(d, j, 0)
  BY DEF MatchBroadcastedZero, Valued
<1>6. /\ Walk(c, k, q) /\ Reachable(c, q)
      /\ \A d : AgreeOn(c, d, Range(q)) => MatchBroadcastedZero(d, k) = q
  <2>1. q = Valued(c, k, 0) /\ Valued(c, k, 0) # <<>>
    BY <1>1, <1>5
  <2> HIDE DEF q
  <2>2. /\ Walk(c, k, q) /\ Reachable(c, q)
        /\ \A d : AgreeOn(c, d, Range(q)) => Valued(d, k, 0) = q
    BY <2>1, <1>4, Paths
  <2>3. QED BY <2>2, <1>5
<1>7. /\ Walk(c, i, p) /\ Reachable(c, p) /\ Range(p) = {i} /\ Len(p) = 1 /\ p[1] = i
  <2>1. c[i].opcode # "fusion"
    BY <1>1
  <2>2. QED BY <2>1, SingleWalk
<1> HIDE DEF q
<1>8. ASSUME NEW d, d[i] = c[i], AgreeOn(c, d, Range(q))  PROVE FuseRelu(d, i) = m
  <2>1. Operand(d, i, 1) = k /\ MatchBroadcastedZero(d, k) = q
    BY <1>6, <1>8 DEF Operand, k
  <2>2. QED BY <1>1, <1>8, <2>1 DEF FuseRelu, Opcode, e
<1> HIDE DEF p
<1>9. /\ Walk(c, i, p \o q) /\ Range(p \o q) = Range(p) \cup Range(q)
      /\ Reachable(c, p \o q)
  <2> DEFINE l == 1
  <2>1. l \in 1 .. Len(p) /\ k \in Range(c[p[l]].operands)
        /\ \A x \in l + 1 .. Len(p) : p[x] # k
    BY <1>4, <1>7
  <2>2. Walk(c, i, p) /\ Walk(c, k, q) /\ Reachable(c, p) /\ Reachable(c, q)
    BY <1>6, <1>7
  <2> HIDE DEF l
  <2>3. QED BY <2>1, <2>2, Join
<1>10. \A d : Same(c, d, i, m) => d[i] = c[i] /\ AgreeOn(c, d, Range(q))
  BY <1>3, <1>7, <1>9 DEF Same, AgreeOn
<1>11. Recognised(c, i, m)
  BY <1>3, <1>9 DEF Recognised, Emitters
<1>12. QED BY <1>8, <1>10, <1>11

\* ... for FuseReluBprop ...
LEMMA ReluBpropRule ==
    ASSUME NEW n \in Nat, NEW c, Sound(c, n), Counted(c), NEW i \in DOMAIN c,
           NEW m, m = FuseReluBprop(c, i), m # NoMatch
    PROVE  /\ Recognised(c, i, m)
           /\ \A d : Same(c, d, i, m) => FuseReluBprop(d, i) = m
<1> DEFINE
      k == Operand(c, i, 1)
      b == Operand(c, k, 2)
      z == Operand(c, b, 1)
      L == <<i, k, b, z>>
      e == [NoEmitter EXCEPT !.kind = "relu-backprop"]
<1>1. /\ m = Match(L, e) /\ c[i].opcode = "select" /\ c[k].opcode = "gt"
      /\ c[b].opcode = "broadcast" /\ IsAll(c, z, 0) /\ Operand(c, i, 3) = b
  BY DEF FuseReluBprop, Opcode
<1>2. e.kind = "relu-backprop"
  BY MatchFacts
<1> HIDE DEF e
<1>3. m.fuse = L /\ m.emitter.kind = "relu-backprop"
  <2> HIDE DEF L
  <2> QED BY <1>1, <1>2, MatchFacts
<1>4. k \in DOMAIN c /\ k \in Range(c[i].operands)
  <2>1. c[i].opcode \in OperandCounts[3] /\ 3 \in 1 .. 3 /\ 1 \in 1 .. 3
    BY <1>1, Counts
  <2>2. QED BY <2>1, OperandFacts
<1> HIDE DEF k
<1>5. b \in DOMAIN c /\ b \in Range(c[k].operands)
  <2>1. c[k].opcode \in OperandCounts[2] /\ 2 \in 1 .. 3 /\ 2 \in 1 .. 2
    BY <1>1, Counts
  <2>2. QED BY <1>4, <2>1, OperandFacts
<1> HIDE DEF b
<1>6. z \in DOMAIN c /\ z \in Range(c[b].operands)
  <2>1. c[b].opcode \in OperandCounts[1] /\ 1 \in 1 .. 3 /\ 1 \in 1 .. 1
    BY <1>1, Counts
  <2>2. QED BY <1>5, <2>1, OperandFacts
<1> HIDE DEF z
<1>7. ASSUME NEW d, AgreeOn(c, d, {i, k, b, z})  PROVE FuseReluBprop(d, i) = m
  <2>1. d[i] = c[i] /\ d[k] = c[k] /\ d[b] = c[b] /\ d[z] = c[z]
    BY <1>7 DEF AgreeOn
  <2>2. /\ Operand(d, i, 1) = k /\ Operand(d, k, 2) = b /\ Operand(d, b, 1) = z
        /\ Operand(d, i, 3) = b /\ IsAll(d, z, 0)
    BY <1>1, <2>1 DEF Operand, k, b, z, IsAll, Opcode
  <2>3. QED BY <1>1, <2>1, <2>2 DEF FuseReluBprop, Opcode, e
<1>8. /\ IsSequence(L) /\ Len(L) = 4 /\ DOMAIN L = 1 .. 4
      /\ L[1] = i /\ L[2] = k /\ L[3] = b /\ L[4] = z /\ Range(L) = {i, k, b, z}
  BY TuplesAreSequences DEF Range
<1> HIDE DEF L
<1>9. /\ 2 .. 4 = {2, 3, 4} /\ 1 .. 4 = {1, 2, 3, 4}
      /\ 1 \in 1 .. 2 - 1 /\ 2 \in 1 .. 3 - 1 /\ 3 \in 1 .. 4 - 1
      /\ (1 + 1) .. 2 - 1 = {} /\ (2 + 1) .. 3 - 1 = {} /\ (3 + 1) .. 4 - 1 = {}
  OBVIOUS
<1>10. /\ c[i].opcode # "fusion" /\ c[k].opcode # "fusion"
       /\ c[b].opcode # "fusion" /\ c[z].opcode # "fusion"
  BY <1>1 DEF IsAll, Opcode
<1>11. Walk(c, i, L)
  BY <1>4, <1>5, <1>6, <1>8, <1>9, <1>10 DEF Walk
<1>12. Reachable(c, L)
  BY <1>4, <1>5, <1>6, <1>8, <1>9 DEF Reachable
<1>13. QED BY <1>3, <1>7, <1>8, <1>11, <1>12 DEF Recognised, Same, Emitters

\* t is p followed by q.
Joined(p, q, t) ==
    /\ Len(t) = Len(p) + Len(q)
    /\ \A k \in 1 .. Len(p) : t[k] = p[k]
    /\ \A k \in 1 .. Len(q) : t[Len(p) + k] = q[k]

\* How p and q make p \o q, and what it has.
LEMMA Joins ==
    ASSUME NEW p, IsSequence(p), NEW q, IsSequence(q)
    PROVE  Joined(p, q, p \o q)
BY ConcatenationFacts DEF Joined

\* The elements of p \o q are those of p and of q.
LEMMA JoinedRange ==
    ASSUME NEW p, IsSequence(p), NEW q, IsSequence(q)
    PROVE  IsSequence(p \o q) /\ Range(p \o q) = Range(p) \cup Range(q)
<1> DEFINE t == p \o q
<1>1. IsSequence(t) /\ Joined(p, q, t)
  BY ConcatenationFacts, Joins
<1> HIDE DEF t
<1>2. /\ DOMAIN t = 1 .. Len(t) /\ DOMAIN p = 1 .. Len(p) /\ DOMAIN q = 1 .. Len(q)
      /\ Len(p) \in Nat /\ Len(q) \in Nat
  BY <1>1 DEF IsSequence
<1>3. \A x \in Range(p) : x \in Range(t)
  BY <1>1, <1>2 DEF Joined, Range
<1>4. ASSUME NEW k \in 1 .. Len(q)  PROVE q[k] \in Range(t)
  <2>1. Len(p) + k \in DOMAIN t /\ t[Len(p) + k] = q[k]
    BY <1>1, <1>2 DEF Joined
  <2> DEFINE l == Len(p) + k
  <2> HIDE DEF l
  <2>2. l \in DOMAIN t /\ t[l] = q[k]
    BY <2>1 DEF l
  <2>3. QED BY <2>2 DEF Range
<1>5. ASSUME NEW k \in 1 .. Len(t)  PROVE t[k] \in Range(p) \cup Range(q)
  <2>1. CASE k \in 1 .. Len(p)
    BY <2>1, <1>1, <1>2 DEF Joined, Range
  <2>2. CASE k \notin 1 .. Len(p)
    <3>1. k - Len(p) \in 1 .. Len(q) /\ Len(p) + (k - Len(p)) = k
      BY <2>2, <1>1, <1>2 DEF Joined
    <3>2. t[k] = q[k - Len(p)] /\ k - Len(p) \in DOMAIN q
      BY <3>1, <1>1, <1>2 DEF Joined
    <3>3. QED BY <3>2 DEF Range
  <2>3. QED BY <2>1, <2>2
<1>6. \A x \in Range(t) : x \in Range(p) \cup Range(q)
  BY <1>2, <1>5 DEF Range
<1>7. \A x \in Range(q) : x \in Range(t)
  BY <1>2, <1>4 DEF Range
<1>8. QED BY <1>1, <1>3, <1>6, <1>7 DEF t

\* One element and two are three.
LEMMA OneAndTwo ==
    ASSUME NEW a, IsSequence(a), Len(a) = 1, NEW p, IsSequence(p), Len(p) = 2
    PROVE  Len(a \o p) = 3 /\ (a \o p)[1] = a[1] /\ (a \o p)[2] = p[1] /\ (a \o p)[3] = p[2]
<1> DEFINE b == a \o p
<1>1. /\ Len(b) = Len(a) + Len(p)
      /\ \A k \in 1 .. Len(a) : b[k] = a[k]
      /\ \A k \in 1 .. Len(p) : b[Len(a) + k] = p[k]
  <2>1. Joined(a, p, b)
    BY Joins
  <2> HIDE DEF b
  <2>2. QED BY <2>1 DEF Joined
<1> HIDE DEF b
<1>2. 1 \in 1 .. 1 /\ 1 \in 1 .. 2 /\ 2 \in 1 .. 2 /\ 1 + 1 = 2 /\ 1 + 2 = 3
  OBVIOUS
<1>3. /\ Len(b) = 1 + 2
      /\ \A k \in 1 .. 1 : b[k] = a[k]
      /\ \A k \in 1 .. 2 : b[1 + k] = p[k]
  BY <1>1
<1>4. b[1] = a[1] /\ b[1 + 1] = p[1] /\ b[1 + 2] = p[2]
  BY <1>2, <1>3
<1>5. QED BY <1>2, <1>3, <1>4 DEF b

\* A window or padding that has a data format has three dimensions or more.
LEMMA FormatFacts ==
    /\ \A w : ReconstructDataFormatFromPoolingWindow(w) # "none" => ~(Len(w) < 3)
    /\ \A w : ReconstructDataFormatFromAvgPoolBackpropPadding(w) # "none"
                 => ~(Len(w) < 3)
BY DEF ReconstructDataFormatFromPoolingWindow, DataFormat,
       ReconstructDataFormatFromAvgPoolBackpropPadding

\* ... for FuseAvgPoolFprop: the sum, the quotient's divisor and the initial value are
\* different instructions if no value is divided by itself ...
LEMMA AvgPoolRule ==
    ASSUME NEW n \in Nat, NEW c, Sound(c, n), Counted(c), NEW i \in DOMAIN c,
           NEW m, m = FuseAvgPoolFprop(c, i), m # NoMatch
    PROVE  /\ Recognised(c, i, m)
           /\ \A d : Same(c, d, i, m) => FuseAvgPoolFprop(d, i) = m
<1> DEFINE
      lhs == Operand(c, i, 1)
      rhs == Operand(c, i, 2)
      init_value == Operand(c, lhs, 2)
      a == <<i>>
      p == MatchAvgPoolFpropLHS(c, lhs)
      q == MatchAvgPoolDivideByCountRHS(c, rhs)
      format == ReconstructDataFormatFromPoolingWindow(c[lhs].window)
      e == PoolEmitter("avg-pool", c[lhs].window, format)
      L == a \o (p \o q)
<1>1. /\ m = Match(L, e) /\ c[i].opcode = "divide" /\ format # "none"
      /\ p # <<>> /\ q # <<>>
  <2> DEFINE r == Both(p, q)
  <2>1. /\ m = Match(a \o r, e) /\ c[i].opcode = "divide" /\ format # "none"
        /\ r # <<>>
    BY DEF FuseAvgPoolFprop, Opcode
  <2> HIDE DEF p, q, e, format
  <2>2. p # <<>> /\ q # <<>> /\ r = p \o q
    BY <2>1 DEF Both
  <2>3. QED BY <2>1, <2>2
<1>2. e.kind = "avg-pool"
  BY MatchFacts
<1>3. m.fuse = L /\ m.emitter.kind = "avg-pool"
  <2> HIDE DEF L, e
  <2> QED BY <1>1, <1>2, MatchFacts
<1>4. /\ lhs \in DOMAIN c /\ lhs \in Range(c[i].operands) /\ lhs = c[i].operands[1]
      /\ rhs \in DOMAIN c /\ rhs \in Range(c[i].operands) /\ rhs = c[i].operands[2]
      /\ {1, 2} \subseteq DOMAIN c[i].operands
  <2>1. c[i].opcode \in OperandCounts[2] /\ 2 \in 1 .. 3 /\ 1 \in 1 .. 2 /\ 2 \in 1 .. 2
    BY <1>1, Counts
  <2>2. Len(c[i].operands) = 2 /\ c[i].operands \in Seq(1 .. i - 1)
    BY <2>1 DEF Counted, Sound
  <2>3. {1, 2} \subseteq DOMAIN c[i].operands
    BY <2>2
  <2>4. QED BY <2>1, <2>3, OperandFacts
<1> HIDE DEF lhs, rhs
<1>5. /\ p = <<lhs, init_value>> /\ Walk(c, lhs, p) /\ Reachable(c, p)
      /\ Range(p) = {lhs, init_value} /\ c[lhs].opcode = "reduce-window"
      /\ init_value = c[lhs].operands[2]
      /\ \A d : AgreeOn(c, d, {lhs, init_value}) => MatchAvgPoolFpropLHS(d, lhs) = p
  BY <1>1, <1>4, SumWalk
<1>6. /\ Walk(c, rhs, q) /\ Reachable(c, q)
      /\ \A d : AgreeOn(c, d, Range(q)) => MatchAvgPoolDivideByCountRHS(d, rhs) = q
  BY <1>1, <1>4, DivisorWalk
<1> HIDE DEF init_value, q
<1>7. Len(p) = 2 /\ p[1] = lhs /\ p[2] = init_value
  BY <1>5
<1>8. /\ Walk(c, i, a) /\ Reachable(c, a) /\ Range(a) = {i} /\ Len(a) = 1 /\ a[1] = i
  <2>1. c[i].opcode # "fusion"
    BY <1>1
  <2>2. QED BY <2>1, SingleWalk
<1> HIDE DEF p, a
<1> DEFINE b == a \o p
<1>9. Walk(c, i, b) /\ Range(b) = {i, lhs, init_value} /\ Reachable(c, b)
  <2> DEFINE l == 1
  <2>1. l \in 1 .. Len(a) /\ lhs \in Range(c[a[l]].operands)
        /\ \A x \in l + 1 .. Len(a) : a[x] # lhs
    BY <1>4, <1>8
  <2>2. Walk(c, i, a) /\ Walk(c, lhs, p) /\ Reachable(c, a) /\ Reachable(c, p)
    BY <1>5, <1>8
  <2> HIDE DEF l
  <2>3. Walk(c, i, a \o p) /\ Range(a \o p) = Range(a) \cup Range(p) /\ Reachable(c, a \o p)
    BY <2>1, <2>2, Join
  <2>4. QED BY <2>3, <1>5, <1>8
<1>10. Len(b) = 3 /\ b[1] = i /\ b[2] = lhs /\ b[3] = init_value
  <2>1. IsSequence(a) /\ IsSequence(p)
    BY <1>5, <1>8 DEF Walk
  <2>2. QED BY <2>1, <1>7, <1>8, OneAndTwo
<1>11. L = b \o q
  <2>1. IsSequence(a) /\ IsSequence(p) /\ IsSequence(q)
    BY <1>5, <1>6, <1>8 DEF Walk
  <2>2. QED BY <2>1, Reassociate
<1> HIDE DEF b, L
<1>12. /\ Walk(c, i, b \o q) /\ Range(b \o q) = Range(b) \cup Range(q)
       /\ lhs # rhs /\ init_value # rhs => Reachable(c, b \o q)
  <2> DEFINE l == 1
  <2>1. l \in 1 .. Len(b) /\ rhs \in Range(c[b[l]].operands)
    BY <1>4, <1>10
  <2>2. lhs # rhs /\ init_value # rhs => \A x \in l + 1 .. Len(b) : b[x] # rhs
    BY <1>10
  <2>3. Walk(c, i, b) /\ Walk(c, rhs, q) /\ Reachable(c, b) /\ Reachable(c, q)
    BY <1>6, <1>9
  <2> HIDE DEF l
  <2>4. /\ Walk(c, i, b \o q) /\ Range(b \o q) = Range(b) \cup Range(q)
        /\ Reachable(c, b) /\ Reachable(c, q)
              /\ (\A x \in l + 1 .. Len(b) : b[x] # rhs)
           => Reachable(c, b \o q)
    BY <2>1, <2>3, Join
  <2>5. QED BY <2>2, <2>3, <2>4
<1>13. Fresh(c) => lhs # rhs /\ init_value # rhs
  <2> SUFFICES ASSUME Fresh(c) PROVE lhs # rhs /\ init_value # rhs
    OBVIOUS
  <2>1. lhs # rhs
    BY <1>1 DEF Fresh, NoSelfDivision, Opcode, lhs, rhs
  <2>2. c[lhs].shape = c[i].shape /\ c[rhs].shape = c[i].shape
    BY <1>1, <1>4 DEF Fresh, WellShaped
  <2>3. IsScalar(c, init_value) /\ Len(c[lhs].window) = Rank(c, lhs)
    BY <1>4, <1>5 DEF Fresh, WellShaped
  <2>4. ~(Len(c[lhs].window) < 3)
    BY <1>1, FormatFacts
  <2>5. ASSUME init_value = rhs  PROVE FALSE
    <3>1. c[lhs].shape = <<>>
      BY <2>2, <2>3, <2>5 DEF IsScalar
    <3>2. Rank(c, lhs) = Len(<<>>)
      BY <3>1 DEF Rank
    <3>3. Len(<<>>) = 0
      OBVIOUS
    <3>4. Len(c[lhs].window) = 0
      BY <3>2, <3>3, <2>3
    <3>5. QED BY <3>4, <2>4
  <2>6. QED BY <2>1, <2>5
<1>14. ASSUME NEW d, Same(c, d, i, m)  PROVE FuseAvgPoolFprop(d, i) = m
  <2>1. AgreeOn(c, d, {lhs, init_value}) /\ AgreeOn(c, d, Range(q))
        /\ d[i] = c[i] /\ d[lhs] = c[lhs]
    BY <1>3, <1>9, <1>11, <1>12, <1>14 DEF Same, AgreeOn
  <2>2. MatchAvgPoolFpropLHS(d, lhs) = p /\ MatchAvgPoolDivideByCountRHS(d, rhs) = q
    BY <2>1, <1>5, <1>6
  <2>3. Operand(d, i, 1) = lhs /\ Operand(d, i, 2) = rhs
    BY <2>1 DEF Operand, lhs, rhs
  <2>4. Both(p, q) = p \o q
    BY <1>1 DEF Both
  <2>5. p \o q # <<>>
    <3>1. IsSequence(p) /\ IsSequence(q) /\ Len(q) \in Nat
      BY <1>5, <1>6 DEF Walk
    <3>2. Len(p \o q) = Len(p) + Len(q)
      BY <3>1, ConcatenationFacts
    <3> DEFINE t == p \o q
    <3>3. Len(t) = 2 + Len(q)
      BY <3>2, <1>7
    <3> HIDE DEF t
    <3>4. t # <<>>
      BY <3>1, <3>3
    <3>5. QED BY <3>4 DEF t
  <2>6. QED BY <1>1, <2>1, <2>2, <2>3, <2>4, <2>5 DEF FuseAvgPoolFprop, Opcode, L, a
<1>15. Recognised(c, i, m)
  BY <1>3, <1>11, <1>12, <1>13 DEF Recognised, Emitters
<1>16. QED BY <1>14, <1>15

\* ... and for FuseAvgPoolBprop.
LEMMA AvgPoolBpropRule ==
    ASSUME NEW n \in Nat, NEW c, Sound(c, n), Counted(c), NEW i \in DOMAIN c,
           NEW m, m = FuseAvgPoolBprop(c, i), m # NoMatch
    PROVE  /\ Recognised(c, i, m)
           /\ \A d : Same(c, d, i, m) => FuseAvgPoolBprop(d, i) = m
<1> DEFINE
      pad == Operand(c, i, 1)
      init_value == Operand(c, i, 2)
      divide == Operand(c, pad, 1)
      pad_value == Operand(c, pad, 2)
      counts == Operand(c, divide, 2)
      p == MatchAvgPoolFpropLHS(c, i)
      q == MatchAvgPoolBpropReduceWindowOperand(c, pad)
      L == p \o q
      format == ReconstructDataFormatFromAvgPoolBackpropPadding(c[pad].padding)
      w == ForwardPoolWindow(c[i].window, c[pad].padding, format,
                             IsValidPadding(c, counts))
      e == [PoolEmitter("avg-pool-backprop", w, format) EXCEPT !.shape = c[i].shape]
<1>1. m = Match(L, e) /\ format # "none" /\ p # <<>> /\ q # <<>>
  <2> DEFINE M == MatchAvgPoolBprop(c, i)
  <2>1. m = Match(M, e) /\ M # <<>> /\ format # "none"
    BY DEF FuseAvgPoolBprop
  <2>2. M # <<>> => p # <<>> /\ M = Both(p, q)
    BY DEF MatchAvgPoolBprop
  <2> HIDE DEF M, p, q, e, format
  <2>3. p # <<>> /\ q # <<>> /\ M = p \o q
    BY <2>1, <2>2 DEF Both
  <2>4. QED BY <2>1, <2>3
<1>2. e.kind = "avg-pool-backprop"
  BY DEF PoolEmitter, NoEmitter
<1>3. m.fuse = L /\ m.emitter.kind = "avg-pool-backprop"
  <2> HIDE DEF L, e
  <2> QED BY <1>1, <1>2, MatchFacts
<1>4. /\ p = <<i, init_value>> /\ Walk(c, i, p) /\ Reachable(c, p)
      /\ Range(p) = {i, init_value} /\ IsAll(c, init_value, 0)
      /\ pad \in DOMAIN c /\ pad \in Range(c[i].operands)
      /\ \A d : AgreeOn(c, d, {i, init_value}) => MatchAvgPoolFpropLHS(d, i) = p
  BY <1>1, SumWalk
<1> HIDE DEF pad, init_value
<1>5. /\ Walk(c, pad, q) /\ c[pad].opcode = "pad" /\ IsAll(c, pad_value, 0)
      /\ c[divide].opcode = "divide"
      /\ pad_value # counts => Reachable(c, q)
      /\ \A d : AgreeOn(c, d, Range(q)) =>
             /\ MatchAvgPoolBpropReduceWindowOperand(d, pad) = q
             /\ IsValidPadding(d, counts) <=> IsValidPadding(c, counts)
             /\ d[pad] = c[pad] /\ d[divide] = c[divide]
  BY <1>1, <1>4, PaddedGradientWalk
<1>6. /\ divide \in DOMAIN c /\ divide \in Range(c[pad].operands)
      /\ divide = c[pad].operands[1] /\ pad_value = c[pad].operands[2]
  <2>1. c[pad].opcode \in OperandCounts[2] /\ 2 \in 1 .. 3 /\ 1 \in 1 .. 2 /\ 2 \in 1 .. 2
    BY <1>5, Counts
  <2>2. QED BY <1>4, <2>1, OperandFacts
<1> HIDE DEF divide, pad_value
<1>7. counts = c[divide].operands[2] /\ {1, 2} \subseteq DOMAIN c[divide].operands
  <2>1. c[divide].opcode \in OperandCounts[2] /\ 2 \in 1 .. 3 /\ 2 \in 1 .. 2
    BY <1>5, Counts
  <2>2. Len(c[divide].operands) = 2 /\ c[divide].operands \in Seq(1 .. divide - 1)
    BY <1>6, <2>1 DEF Counted, Sound
  <2>3. {1, 2} \subseteq DOMAIN c[divide].operands
    BY <2>2
  <2>4. QED BY <1>6, <2>1, <2>3, OperandFacts
<1> HIDE DEF counts
<1>8. Len(p) = 2 /\ p[1] = i /\ p[2] = init_value /\ init_value # pad
  BY <1>4, <1>5 DEF IsAll, Opcode
<1> HIDE DEF p, q, L
<1>9. /\ Walk(c, i, p \o q) /\ Range(p \o q) = Range(p) \cup Range(q)
      /\ pad_value # counts => Reachable(c, p \o q)
  <2> DEFINE l == 1
  <2>1. l \in 1 .. Len(p) /\ pad \in Range(c[p[l]].operands)
    BY <1>4, <1>8
  <2>2. \A x \in l + 1 .. Len(p) : p[x] # pad
    BY <1>8
  <2>3. Walk(c, i, p) /\ Walk(c, pad, q) /\ Reachable(c, p)
        /\ (pad_value # counts => Reachable(c, q))
    BY <1>4, <1>5
  <2> HIDE DEF l
  <2>4. /\ Walk(c, i, p \o q) /\ Range(p \o q) = Range(p) \cup Range(q)
        /\ Reachable(c, p) /\ Reachable(c, q)
              /\ (\A x \in l + 1 .. Len(p) : p[x] # pad)
           => Reachable(c, p \o q)
    BY <2>1, <2>3, Join
  <2>5. QED BY <2>2, <2>3, <2>4
<1>10. Fresh(c) => pad_value # counts
  <2> SUFFICES ASSUME Fresh(c), pad_value = counts PROVE FALSE
    OBVIOUS
  <2>1. c[counts].shape = c[divide].shape
    BY <1>5, <1>6, <1>7 DEF Fresh, WellShaped
  <2>2. IsScalar(c, pad_value) /\ Len(c[pad].padding) = Rank(c, divide)
    BY <1>4, <1>5, <1>6 DEF Fresh, WellShaped
  <2>3. ~(Len(c[pad].padding) < 3)
    BY <1>1, FormatFacts
  <2>4. c[divide].shape = <<>>
    BY <2>1, <2>2 DEF IsScalar
  <2>5. Rank(c, divide) = Len(<<>>)
    BY <2>4 DEF Rank
  <2>6. Len(<<>>) = 0
    OBVIOUS
  <2>7. Len(c[pad].padding) = 0
    BY <2>2, <2>5, <2>6
  <2>8. QED BY <2>3, <2>7
<1>11. ASSUME NEW d, Same(c, d, i, m)  PROVE FuseAvgPoolBprop(d, i) = m
  <2>1. AgreeOn(c, d, {i, init_value}) /\ AgreeOn(c, d, Range(q)) /\ d[i] = c[i]
    BY <1>3, <1>4, <1>9, <1>11 DEF Same, AgreeOn, L
  <2>2. /\ MatchAvgPoolFpropLHS(d, i) = p
        /\ MatchAvgPoolBpropReduceWindowOperand(d, pad) = q
        /\ IsValidPadding(d, counts) <=> IsValidPadding(c, counts)
        /\ d[pad] = c[pad] /\ d[divide] = c[divide]
    BY <2>1, <1>4, <1>5
  <2>3. /\ Operand(d, i, 1) = pad /\ Operand(d, pad, 1) = divide
        /\ Operand(d, divide, 2) = counts
    BY <2>1, <2>2 DEF Operand, pad, divide, counts
  <2>4. MatchAvgPoolBprop(d, i) = L
    BY <1>1, <2>2, <2>3 DEF MatchAvgPoolBprop, Both, L
  <2>5. L # <<>>
    <3>1. IsSequence(p) /\ IsSequence(q) /\ Len(q) \in Nat
      BY <1>4, <1>5 DEF Walk
    <3>2. Len(p \o q) = Len(p) + Len(q)
      BY <3>1, ConcatenationFacts
    <3>3. Len(L) = 2 + Len(q)
      BY <3>2, <1>8 DEF L
    <3>4. QED BY <3>1, <3>3
  <2>6. IsValidPadding(d, counts) = IsValidPadding(c, counts)
    BY <2>2 DEF IsValidPadding
  <2>7. QED BY <1>1, <2>1, <2>2, <2>3, <2>4, <2>5, <2>6 DEF FuseAvgPoolBprop
<1>12. Recognised(c, i, m)
  BY <1>3, <1>9, <1>10 DEF Recognised, Emitters, L
<1>13. QED BY <1>11, <1>12

\* The same of all rules.
LEMMA RuleFacts ==
    ASSUME NEW n \in Nat, NEW c, Sound(c, n), Counted(c), NEW i \in DOMAIN c,
           NEW r \in 1 .. 9, NEW m, m = Rules(c, i)[r], m # NoMatch
    PROVE  /\ Recognised(c, i, m)
           /\ \A d : Same(c, d, i, m) => Rules(d, i)[r] = m
<1>1. \A d : /\ Rules(d, i)[1] = FuseReduce(d, i)
             /\ Rules(d, i)[2] = FuseMaxPoolFprop(d, i)
             /\ Rules(d, i)[3] = FuseAvgPoolFprop(d, i)
             /\ Rules(d, i)[4] = FuseMaxPoolBprop(d, i)
             /\ Rules(d, i)[5] = FuseAvgPoolBprop(d, i)
             /\ Rules(d, i)[6] = FuseConvolutionBpropData(d, i)
             /\ Rules(d, i)[7] = FuseConvolutionBpropFilters(d, i)
             /\ Rules(d, i)[8] = FuseRelu(d, i)
             /\ Rules(d, i)[9] = FuseReluBprop(d, i)
  BY DEF Rules
<1>2. CASE r = 1
  BY <1>1, <1>2, ReduceRule
<1>3. CASE r = 2
  BY <1>1, <1>3, MaxPoolRule
<1>4. CASE r = 3
  BY <1>1, <1>4, AvgPoolRule
<1>5. CASE r = 4
  BY <1>1, <1>5, MaxPoolBpropRule
<1>6. CASE r = 5
  BY <1>1, <1>6, AvgPoolBpropRule
<1>7. CASE r = 6
  BY <1>1, <1>7, ConvolutionDataRule
<1>8. CASE r = 7
  BY <1>1, <1>8, ConvolutionFiltersRule
<1>9. CASE r = 8
  BY <1>1, <1>9, ReluRule
<1>10. CASE r = 9
  BY <1>1, <1>10, ReluBpropRule
<1>11. QED
  BY <1>2, <1>3, <1>4, <1>5, <1>6, <1>7, <1>8, <1>9, <1>10

-----------------------------------------------------------------------------
\* What the parts L use that is not fused after its last use: A.
Remain(c, L, A) ==
    \A x : x \in A <=> \E p \in 1 .. Len(L) :
                           /\ x \in Range(c[L[p]].operands)
                           /\ \A q \in p + 1 .. Len(L) : L[q] # x

\* The arguments of the kernel rooted at i remain, the first before the second.
Takes(c, i, L, arguments) ==
    \/ \E a : arguments = <<a>> /\ Remain(c, L, {a})
    \/ \E a, b : /\ arguments = <<a, b>> /\ Remain(c, L, {a, b})
                 /\ a \in Range(c[i].operands)
                 /\ a # b => Before(c[i].operands, a, b)

\* Instructions with one and with two operands that are fused one after the other.
LEMMA RemainJoin ==
    ASSUME NEW c, NEW p, NEW q, IsSequence(p), IsSequence(q), NEW A, NEW B,
           Remain(c, p, A), Remain(c, q, B)
    PROVE  Remain(c, p \o q, (A \ Range(q)) \cup B)
<1> DEFINE t == p \o q
           u == Len(p)
           v == Len(q)
           C == (A \ Range(q)) \cup B
           After(s, x, j) == \A k \in j + 1 .. Len(s) : s[k] # x
           Uses(s, x, j) == x \in Range(c[s[j]].operands)
<1>1. /\ u \in Nat /\ v \in Nat /\ Len(t) = u + v
      /\ \A k \in 1 .. u : t[k] = p[k]
      /\ \A k \in 1 .. v : t[u + k] = q[k]
      /\ DOMAIN q = 1 .. v
  <2>1. DOMAIN q = 1 .. v /\ u \in Nat /\ v \in Nat
    BY DEF IsSequence
  <2>2. Joined(p, q, t)
    BY Joins
  <2> HIDE DEF t
  <2>3. QED BY <2>1, <2>2 DEF Joined
<1> HIDE DEF t, u, v
<1>2. /\ \A x : x \in A <=> \E j \in 1 .. u : Uses(p, x, j) /\ After(p, x, j)
      /\ \A x : x \in B <=> \E j \in 1 .. v : Uses(q, x, j) /\ After(q, x, j)
  BY DEF Remain, u, v
<1>3. ASSUME NEW x, NEW j \in 1 .. v
      PROVE  /\ u + j \in 1 .. u + v /\ (Uses(t, x, u + j) <=> Uses(q, x, j))
             /\ After(t, x, u + j) <=> After(q, x, j)
  <2>1. u + j \in 1 .. u + v /\ t[u + j] = q[j]
    BY <1>1
  <2>2. ASSUME After(q, x, j), NEW k \in (u + j) + 1 .. u + v  PROVE t[k] # x
    <3>1. k - u \in j + 1 .. v /\ k - u \in 1 .. v /\ u + (k - u) = k
      BY <1>1
    <3>2. QED BY <2>2, <3>1, <1>1 DEF v
  <2>3. ASSUME After(t, x, u + j), NEW k \in j + 1 .. v  PROVE q[k] # x
    <3>1. u + k \in (u + j) + 1 .. u + v /\ k \in 1 .. v
      BY <1>1
    <3>2. t[u + k] # x
      BY <2>3, <3>1, <1>1
    <3>3. QED BY <3>1, <3>2, <1>1
  <2>4. QED BY <2>1, <2>2, <2>3, <1>1 DEF v
<1>4. ASSUME NEW x, NEW j \in 1 .. u
      PROVE  /\ j \in 1 .. u + v /\ (Uses(t, x, j) <=> Uses(p, x, j))
             /\ After(t, x, j) <=> After(p, x, j) /\ x \notin Range(q)
  <2>1. j \in 1 .. u + v /\ t[j] = p[j]
    BY <1>1
  <2>2. ASSUME After(p, x, j), x \notin Range(q), NEW k \in j + 1 .. u + v  PROVE t[k] # x
    <3>1. CASE k \in 1 .. u
      BY <2>2, <3>1, <1>1 DEF u
    <3>2. CASE k \notin 1 .. u
      <4>1. k - u \in 1 .. v /\ u + (k - u) = k
        BY <3>2, <1>1
      <4>2. QED BY <4>1, <1>1, <2>2 DEF Range
    <3>3. QED BY <3>1, <3>2
  <2>3. ASSUME After(t, x, j)  PROVE After(p, x, j) /\ x \notin Range(q)
    <3>1. ASSUME NEW k \in j + 1 .. u PROVE p[k] # x
      <4>1. k \in j + 1 .. u + v /\ k \in 1 .. u
        BY <1>1
      <4>2. QED BY <2>3, <4>1, <1>1
    <3>2. ASSUME NEW k \in 1 .. v PROVE q[k] # x
      <4>1. u + k \in j + 1 .. u + v
        BY <1>1
      <4>2. t[u + k] # x
        BY <4>1, <2>3, <1>1
      <4>3. QED BY <4>2, <1>1
    <3>3. QED BY <3>1, <3>2, <1>1 DEF u, Range
  <2>4. QED BY <2>1, <2>2, <2>3, <1>1
<1>5. ASSUME NEW j \in 1 .. u + v, j \notin 1 .. u
      PROVE  j - u \in 1 .. v /\ u + (j - u) = j
  BY <1>1, <1>5
<1> HIDE DEF After, Uses
<1>6. ASSUME NEW x
      PROVE  x \in C <=> \E j \in 1 .. u + v : Uses(t, x, j) /\ After(t, x, j)
  <2>1. ASSUME x \in A, x \notin Range(q)
        PROVE  \E j \in 1 .. u + v : Uses(t, x, j) /\ After(t, x, j)
    BY <2>1, <1>2, <1>4
  <2>2. ASSUME x \in B
        PROVE  \E j \in 1 .. u + v : Uses(t, x, j) /\ After(t, x, j)
    <3>1. PICK j \in 1 .. v : Uses(q, x, j) /\ After(q, x, j)
      BY <2>2, <1>2
    <3> DEFINE k == u + j
    <3>2. k \in 1 .. u + v /\ Uses(t, x, k) /\ After(t, x, k)
      BY <3>1, <1>3
    <3> HIDE DEF k
    <3>3. QED BY <3>2
  <2>3. ASSUME NEW j \in 1 .. u + v, Uses(t, x, j), After(t, x, j)
        PROVE  x \in C
    <3>1. CASE j \in 1 .. u
      BY <2>3, <3>1, <1>2, <1>4
    <3>2. CASE j \notin 1 .. u
      <4> DEFINE k == j - u
      <4>1. k \in 1 .. v /\ u + k = j
        BY <3>2, <1>5
      <4> HIDE DEF k
      <4>2. Uses(q, x, k) /\ After(q, x, k)
        BY <4>1, <2>3, <1>3
      <4>3. QED BY <4>1, <4>2, <1>2
    <3>3. QED BY <3>1, <3>2
  <2>4. QED BY <2>1, <2>2, <2>3
<1>7. QED BY <1>1, <1>6 DEF Remain, Uses, After, t, u, v

\* Two sequences of a and b, each once and a first, are the same.
LEMMA InOrder ==
    ASSUME NEW S, NEW s \in Seq(S), NEW t \in Seq(S), NEW a, NEW b, Once(s), Once(t),
           Range(s) = {a, b}, Range(t) = {a, b},
           a # b => Before(s, a, b) /\ Before(t, a, b)
    PROVE  s = t
<1>1. ASSUME NEW r \in Seq(S), Once(r), Range(r) = {a, b}, a # b => Before(r, a, b)
      PROVE  r = IF a = b THEN <<a>> ELSE <<a, b>>
  <2>1. Len(r) \in Nat /\ DOMAIN r = 1 .. Len(r) /\ \A k \in 1 .. Len(r) : r[k] \in {a, b}
    BY <1>1 DEF Range
  <2>2. \A j, k \in 1 .. Len(r) : r[j] = r[k] => j = k
    BY <1>1, <2>1 DEF Once
  <2>3. PICK j \in 1 .. Len(r) : r[j] = a
    BY <1>1, <2>1 DEF Range
  <2>4. CASE a = b
    <3>1. \A k \in 1 .. Len(r) : k = 1 /\ j = 1
      <4>1. \A k \in 1 .. Len(r) : k = j
        BY <2>1, <2>2, <2>3, <2>4
      <4>2. 1 \in 1 .. Len(r)
        BY <2>1, <2>3
      <4>3. QED BY <4>1, <4>2
    <3>2. Len(r) = 1
      BY <2>1, <2>3, <3>1
    <3>3. r[1] = a
      BY <2>3, <3>1
    <3>4. QED BY <1>1, <2>4, <3>2, <3>3
  <2>5. CASE a # b
    <3>1. PICK k \in 1 .. Len(r) : r[k] = b
      BY <1>1, <2>1 DEF Range
    <3>2. PICK l \in 1 .. k - 1 : r[l] = a
      BY <1>1, <2>1, <2>5, <3>1 DEF Before
    <3>3. \A m \in 1 .. Len(r) : m = l \/ m = k
      BY <2>1, <2>2, <3>1, <3>2
    <3>4. l \in 1 .. Len(r) /\ k \in 1 .. Len(r) /\ l < k
      BY <2>1, <3>1, <3>2
    <3>5. l = 1
      <4>1. 1 \in 1 .. Len(r)
        BY <3>4
      <4>2. QED BY <3>3, <3>4, <4>1
    <3>6. k = 2
      <4>1. 2 \in 1 .. Len(r)
        BY <3>4, <2>1
      <4>2. QED BY <3>3, <3>4, <3>5, <4>1
    <3>7. Len(r) = 2
      <4> DEFINE w == Len(r)
      <4>1. w \in 1 .. w
        BY <3>4
      <4>2. w = l \/ w = k
        BY <3>3, <4>1
      <4> HIDE DEF w
      <4>3. l = 1 /\ k = 2 /\ k \in 1 .. w
        BY <3>4, <3>5, <3>6 DEF w
      <4>4. w = 2
        BY <4>1, <4>2, <4>3
      <4>5. QED BY <4>4 DEF w
    <3>8. QED BY <1>1, <2>5, <3>1, <3>2, <3>5, <3>6, <3>7
  <2>6. QED BY <2>4, <2>5
<1>2. QED BY <1>1

\* The operands of a fusion are the arguments of the kernel: what its parts leave, in
\* the order in which the instructions brought them in.
LEMMA OperandsOfFusion ==
    ASSUME NEW n \in Nat, NEW c, Sound(c, n), NEW L, NEW P, Parts(c, L, P),
           NEW arguments, Takes(c, L[1], L, arguments),
           Range(arguments) \cap Range(L) = {},
           ~FusedComputation(c, L).aborted
    PROVE  FusedComputation(c, L).computation[L[1]].operands = Added(<<>>, arguments)
<1> DEFINE
      r == L[1]
      m == Len(L) - 1
      F == {L[j] : j \in 2 .. Len(L)}
<1>1. m \in Nat /\ Len(L) \in Nat /\ Len(L) = m + 1 /\ DOMAIN L = 1 .. Len(L)
  BY DEF Parts
<1>2. PICK h :
         /\ ~h[0].aborted
         /\ Range(Operands(r, h[0])) = Range(c[r].operands)
         /\ \A a, b : Before(c[r].operands, a, b) => Before(Operands(r, h[0]), a, b)
         /\ \A k \in 0 .. m : Stage(c, n, r, P, F, h[k])
         /\ \A k \in 1 .. m : Advances(c, r, L[k + 1], h[k - 1], h[k])
         /\ FusedComputation(c, L) = h[m]
  <2>1. Staged(c, n, L, P)
    BY Stages
  <2>2. QED BY <2>1 DEF Staged
<1> HIDE DEF m, F
<1>3. \A k \in 0 .. m : ~h[k].aborted
  <2> DEFINE Bad == {k \in 0 .. m : h[m - k].aborted}
  <2>1. SUFFICES ASSUME Bad # {} PROVE FALSE
    <3>1. ASSUME NEW k \in 0 .. m, h[k].aborted  PROVE m - k \in Bad
      <4>1. m - k \in 0 .. m /\ m - (m - k) = k
        BY <1>1
      <4>2. QED BY <4>1, <3>1
    <3>2. QED BY <3>1
  <2>2. Bad \in SUBSET Nat
    OBVIOUS
  <2>3. PICK q \in Bad : \A k \in Bad : q <= k
    <3> HIDE DEF Bad
    <3> QED BY <2>1, <2>2, LeastNumber
  <2>4. q # 0
    <3>1. m - 0 = m
      BY <1>1
    <3>2. QED BY <2>3, <3>1, <1>2
  <2>5. /\ q - 1 \in 0 .. m /\ q - 1 \notin Bad /\ m - (q - 1) \in 1 .. m
        /\ (m - (q - 1)) - 1 = m - q
    BY <2>3, <2>4, <1>1
  <2> DEFINE k == m - (q - 1)
  <2>6. ~h[k].aborted /\ h[k - 1].aborted /\ k \in 1 .. m
    BY <2>3, <2>5
  <2> HIDE DEF k
  <2>7. Advances(c, r, L[k + 1], h[k - 1], h[k])
    BY <2>6, <1>2
  <2>8. QED BY <2>6, <2>7 DEF Advances
<1> DEFINE
      Used(x, p, k) == x \in Range(c[L[p]].operands) /\ \A q \in p + 1 .. k + 1 : L[q] # x
      Holds(k) == \A x : x \in Range(Operands(r, h[k])) <=> \E p \in 1 .. k + 1 : Used(x, p, k)
      N == {k \in 0 .. m : Holds(k)}
<1>4. 0 .. m \subseteq N
  <2>1. 0 \in N
    <3>1. 1 .. 0 + 1 = {1} /\ 1 + 1 .. 0 + 1 = {}
      OBVIOUS
    <3>2. \A x : (\E p \in 1 .. 0 + 1 : Used(x, p, 0)) <=> x \in Range(c[r].operands)
      BY <3>1
    <3>3. QED BY <3>2, <1>1, <1>2
  <2>2. ASSUME NEW k \in 0 .. m - 1, k \in N  PROVE k + 1 \in N
    <3> DEFINE i == L[k + 2]
    <3>1. /\ k + 1 \in 1 .. m /\ k + 1 \in 0 .. m /\ (k + 1) - 1 = k /\ (k + 1) + 1 = k + 2
          /\ k \in Nat
      BY <1>1
    <3>2. Holds(k)
      BY <2>2
    <3>3. Advances(c, r, i, h[k], h[k + 1])
      BY <1>2, <3>1
    <3>4. Range(Operands(r, h[k + 1])) =
             (Range(Operands(r, h[k])) \ {i}) \cup Range(c[i].operands)
      <4>1. ~h[k + 1].aborted
        BY <1>3, <3>1
      <4>2. QED BY <3>3, <4>1 DEF Advances
    <3>5. ASSUME NEW x, NEW p \in 1 .. k + 1
          PROVE  /\ p \in 1 .. k + 2
                 /\ Used(x, p, k + 1) <=> Used(x, p, k) /\ x # i
      <4>1. /\ p \in 1 .. k + 2 /\ k + 2 \in p + 1 .. k + 2
            /\ \A q \in p + 1 .. k + 2 : q = k + 2 \/ q \in p + 1 .. k + 1
            /\ \A q \in p + 1 .. k + 1 : q \in p + 1 .. k + 2
        BY <3>1
      <4>2. QED BY <4>1, <3>1
    <3>6. ASSUME NEW x  PROVE Used(x, k + 2, k + 1) <=> x \in Range(c[i].operands)
      <4>1. (k + 2) + 1 .. (k + 1) + 1 = {}
        BY <3>1
      <4>2. QED BY <4>1
    <3>7. \A p \in 1 .. k + 2 : p = k + 2 \/ p \in 1 .. k + 1
      BY <3>1
    <3>8. k + 2 \in 1 .. k + 2
      BY <3>1
    <3> HIDE DEF Used, i
    <3>9. \A x : x \in Range(Operands(r, h[k + 1])) <=> \E p \in 1 .. k + 2 : Used(x, p, k + 1)
      BY <3>2, <3>4, <3>5, <3>6, <3>7, <3>8
    <3>10. Holds(k + 1)
      BY <3>1, <3>9
    <3>11. QED
      <4> HIDE DEF Holds
      <4> QED BY <3>1, <3>10
  <2>3. QED
    <3> HIDE DEF N
    <3> QED BY <2>1, <2>2, <1>1, IntervalInduction
<1>5. ASSUME NEW A, Remain(c, L, A)  PROVE Range(Operands(r, h[m])) = A
  <2>1. m \in 0 .. m /\ m + 1 = Len(L)
    BY <1>1
  <2>2. Holds(m)
    BY <1>4, <2>1
  <2>3. QED BY <1>5, <2>1, <2>2 DEF Remain
<1>6. ASSUME NEW a, NEW b, a \in Range(c[r].operands), a \notin Range(L),
             Before(c[r].operands, a, b)
      PROVE  Before(Operands(r, h[m]), a, b)
  <2> DEFINE
        Good(k) == a \in Range(Operands(r, h[k])) /\ Before(Operands(r, h[k]), a, b)
        M == {k \in 0 .. m : Good(k)}
  <2>1. 0 \in M
    BY <1>1, <1>2, <1>6
  <2>2. ASSUME NEW k \in 0 .. m - 1, k \in M  PROVE k + 1 \in M
    <3>1. /\ k + 1 \in 1 .. m /\ k + 1 \in 0 .. m /\ (k + 1) - 1 = k /\ (k + 1) + 1 = k + 2
          /\ k + 2 \in 1 .. Len(L)
      BY <1>1
    <3>2. Advances(c, r, L[k + 2], h[k], h[k + 1]) /\ ~h[k + 1].aborted
      BY <1>2, <1>3, <3>1
    <3>3. L[k + 2] # a
      BY <1>1, <1>6, <3>1 DEF Range
    <3>4. Good(k)
      BY <2>2
    <3>5. Good(k + 1)
      BY <3>2, <3>3, <3>4 DEF Advances
    <3>6. QED
      <4> HIDE DEF Good
      <4> QED BY <3>1, <3>5
  <2>3. 0 .. m \subseteq M
    <3> HIDE DEF M
    <3> QED BY <2>1, <2>2, <1>1, IntervalInduction
  <2>4. QED BY <2>3, <1>1
<1>7. LET s == Operands(r, h[m])
      IN  s \in Seq(Int) /\ Once(s) /\ FusedComputation(c, L).computation[L[1]].operands = s
  <2>1. Stage(c, n, r, P, F, h[m])
    BY <1>1, <1>2
  <2> DEFINE d == h[m].computation
  <2>2. Sound(d, n) /\ r \in DOMAIN d /\ Once(d[r].operands)
    BY <2>1 DEF Stage
  <2> HIDE DEF d
  <2>3. d[r].operands \in Seq(1 .. r - 1)
    BY <2>2 DEF Sound
  <2>4. \A X, Y : X \subseteq Y => \A s \in Seq(X) : s \in Seq(Y)
    OBVIOUS
  <2>5. d[r].operands \in Seq(Int)
    <3> DEFINE o == d[r].operands
               A == 1 .. r - 1
    <3>1. o \in Seq(A) /\ A \subseteq Int
      BY <2>3
    <3> HIDE DEF o, A
    <3>2. o \in Seq(Int)
      BY <2>4, <3>1
    <3>3. QED BY <3>2 DEF o
  <2>6. QED BY <2>2, <2>5, <1>2 DEF Operands, d
<1> DEFINE s == Operands(r, h[m])
<1>8. ASSUME NEW a, NEW b, Range(s) = {a, b},
             (arguments = <<a>> /\ a = b) \/ arguments = <<a, b>>,
             a # b => Before(s, a, b)
      PROVE  s = Added(<<>>, arguments)
  <2> DEFINE t == Added(<<>>, arguments)
             e == <<>>
  <2>1. {a, b} \subseteq Int
    <3>1. s \in Seq(Int)
      BY <1>7
    <3> HIDE DEF s
    <3>2. Range(s) \subseteq Int
      BY <3>1, ElementsTyped
    <3>3. QED BY <3>2, <1>8
  <2>2. arguments \in Seq(Int) /\ Range(arguments) = {a, b}
        /\ (a # b => Before(arguments, a, b))
    <3>1. CASE arguments = <<a>> /\ a = b
      <4>1. arguments \in Seq(Int) /\ DOMAIN arguments = 1 .. 1 /\ arguments[1] = a
        BY <2>1, <3>1
      <4>2. QED BY <3>1, <4>1 DEF Range
    <3>2. CASE arguments = <<a, b>>
      <4>1. /\ arguments \in Seq(Int) /\ DOMAIN arguments = 1 .. 2
            /\ arguments[1] = a /\ arguments[2] = b
        BY <2>1, <3>2
      <4>2. 1 .. 2 = {1, 2} /\ 1 \in 1 .. 2 - 1
        OBVIOUS
      <4> HIDE DEF s
      <4>3. Range(arguments) = {a, b}
        BY <4>1, <4>2 DEF Range
      <4>4. a # b => Before(arguments, a, b)
        BY <4>1, <4>2 DEF Before
      <4>5. QED BY <4>1, <4>3, <4>4
    <3>3. QED BY <3>1, <3>2, <1>8
  <2>3. e \in Seq(Int) /\ Range(e) = {} /\ Once(e) /\ \A x, y : Before(e, x, y)
    BY DEF Range, Once, Before
  <2>4. t = Added(e, arguments)
    OBVIOUS
  <2> HIDE DEF e, t
  <2>5. /\ t \in Seq(Int)
        /\ Range(t) = Range(e) \cup Range(arguments)
        /\ Once(e) => Once(t)
        /\ \A x, y : Before(e, x, y) /\ (Before(arguments, x, y) \/ x \in Range(e))
                         => Before(t, x, y)
    <3> DEFINE S == Int
    <3>1. e \in Seq(S) /\ arguments \in Seq(S)
      BY <2>2, <2>3
    <3> HIDE DEF S
    <3>2. /\ Added(e, arguments) \in Seq(S)
          /\ Range(Added(e, arguments)) = Range(e) \cup Range(arguments)
          /\ Once(e) => Once(Added(e, arguments))
          /\ \A x, y : Before(e, x, y) /\ (Before(arguments, x, y) \/ x \in Range(e))
                           => Before(Added(e, arguments), x, y)
      BY <3>1, AddedFacts
    <3>3. QED BY <2>4, <3>2 DEF S
  <2>6. Range(t) = {a, b} /\ Once(t) /\ (a # b => Before(t, a, b))
    BY <2>2, <2>3, <2>5
  <2>7. s \in Seq(Int) /\ Once(s)
    BY <1>7
  <2> HIDE DEF s
  <2>8. s = t
    BY <1>8, <2>5, <2>6, <2>7, InOrder
  <2>9. QED BY <2>8 DEF t
<1>9. s = Added(<<>>, arguments)
  <2>1. CASE \E a : arguments = <<a>> /\ Remain(c, L, {a})
    <3>1. PICK a : arguments = <<a>> /\ Remain(c, L, {a})
      BY <2>1
    <3>2. Range(s) = {a, a}
      <4>1. Range(s) = {a}
        BY <3>1, <1>5
      <4>2. QED BY <4>1
    <3> HIDE DEF s
    <3>3. QED BY <3>1, <3>2, <1>8
  <2>2. CASE \E a, b : /\ arguments = <<a, b>> /\ Remain(c, L, {a, b})
                       /\ a \in Range(c[r].operands)
                       /\ a # b => Before(c[r].operands, a, b)
    <3>1. PICK a, b : /\ arguments = <<a, b>> /\ Remain(c, L, {a, b})
                      /\ a \in Range(c[r].operands)
                      /\ a # b => Before(c[r].operands, a, b)
      BY <2>2
    <3>2. Range(s) = {a, b}
      BY <3>1, <1>5
    <3>3. a \notin Range(L)
      <4>1. a \in Range(arguments)
        BY <3>1 DEF Range
      <4>2. QED BY <4>1
    <3>4. a # b => Before(s, a, b)
      BY <3>1, <3>3, <1>6
    <3> HIDE DEF s
    <3>5. QED BY <3>1, <3>2, <3>4, <1>8
  <2>3. QED BY <2>1, <2>2 DEF Takes
<1>10. QED BY <1>7, <1>9

\* The operands by the number an opcode has; the first comes before the others.
LEMMA OperandSets ==
    ASSUME NEW n \in Nat, NEW c, Sound(c, n), Counted(c), NEW i \in DOMAIN c
    PROVE  /\ c[i].opcode \in OperandCounts[0] => Range(c[i].operands) = {}
           /\ c[i].opcode \in OperandCounts[1] => Range(c[i].operands) = {Operand(c, i, 1)}
           /\ c[i].opcode \in OperandCounts[2] =>
                 /\ Range(c[i].operands) = {Operand(c, i, 1), Operand(c, i, 2)}
                 /\ \A b : b # Operand(c, i, 1) =>
                       Before(c[i].operands, Operand(c, i, 1), b)
           /\ c[i].opcode \in OperandCounts[3] =>
                 /\ Range(c[i].operands) = {Operand(c, i, 1), Operand(c, i, 2), Operand(c, i, 3)}
                 /\ \A b : b \notin {Operand(c, i, 1), Operand(c, i, 3)} =>
                       Before(c[i].operands, Operand(c, i, 1), b)
<1> DEFINE s == c[i].operands
<1>1. /\ DOMAIN s = 1 .. Len(s)
      /\ \A m \in 0 .. 3 : c[i].opcode \in OperandCounts[m] => Len(s) = m
      /\ \A m : Operand(c, i, m) = s[m]
  BY DEF Sound, Counted, Operand
<1> HIDE DEF s
<1>2. 1 .. 0 = {} /\ 1 .. 1 = {1} /\ 1 .. 2 = {1, 2} /\ 1 .. 3 = {1, 2, 3}
      /\ 0 \in 0 .. 3 /\ 1 \in 0 .. 3 /\ 2 \in 0 .. 3 /\ 3 \in 0 .. 3
      /\ 1 \in 1 .. 2 - 1
  OBVIOUS
<1>3. /\ c[i].opcode \in OperandCounts[0] => DOMAIN s = {}
      /\ c[i].opcode \in OperandCounts[1] => DOMAIN s = {1}
      /\ c[i].opcode \in OperandCounts[2] => DOMAIN s = {1, 2}
      /\ c[i].opcode \in OperandCounts[3] => DOMAIN s = {1, 2, 3}
  BY <1>1, <1>2
<1>4. /\ DOMAIN s = {} => Range(s) = {}
      /\ DOMAIN s = {1} => Range(s) = {s[1]}
      /\ DOMAIN s = {1, 2} => Range(s) = {s[1], s[2]}
      /\ DOMAIN s = {1, 2, 3} => Range(s) = {s[1], s[2], s[3]}
  BY DEF Range
<1>5. DOMAIN s = {1, 2} => \A b : b # s[1] => Before(s, s[1], b)
  BY <1>2 DEF Before
<1>6. DOMAIN s = {1, 2, 3} => \A b : b \notin {s[1], s[3]} => Before(s, s[1], b)
  BY <1>2 DEF Before
<1>7. QED BY <1>1, <1>3, <1>4, <1>5, <1>6 DEF s

\* What remains of one, two and three instructions fused one after the other.
LEMMA TuplesRemain ==
    ASSUME NEW c, NEW i
    PROVE  /\ Remain(c, <<i>>, Range(c[i].operands))
           /\ \A k : Remain(c, <<i, k>>,
                            (Range(c[i].operands) \ {k}) \cup Range(c[k].operands))
           /\ \A k, l : Remain(c, <<i, k, l>>,
                               (Range(c[i].operands) \ {k, l})
                                 \cup (Range(c[k].operands) \ {l})
                                 \cup Range(c[l].operands))
<1>0. /\ 1 .. 1 = {1} /\ 1 .. 2 = {1, 2} /\ 1 .. 3 = {1, 2, 3}
      /\ 1 + 1 .. 1 = {} /\ 1 + 1 .. 2 = {2} /\ 2 + 1 .. 2 = {}
      /\ 1 + 1 .. 3 = {2, 3} /\ 2 + 1 .. 3 = {3} /\ 3 + 1 .. 3 = {}
  OBVIOUS
<1>1. Remain(c, <<i>>, Range(c[i].operands))
  <2> DEFINE L == <<i>>
  <2>1. Len(L) = 1 /\ L[1] = i
    OBVIOUS
  <2> HIDE DEF L
  <2>2. Remain(c, L, Range(c[i].operands))
    BY <1>0, <2>1 DEF Remain
  <2>3. QED BY <2>2 DEF L
<1>2. ASSUME NEW k
      PROVE  Remain(c, <<i, k>>, (Range(c[i].operands) \ {k}) \cup Range(c[k].operands))
  <2> DEFINE L == <<i, k>>
             A == Range(c[i].operands)
             B == Range(c[k].operands)
  <2>1. Len(L) = 2 /\ L[1] = i /\ L[2] = k
    OBVIOUS
  <2> HIDE DEF L
  <2>2. \A x : (\E p \in 1 .. Len(L) : /\ x \in Range(c[L[p]].operands)
                                       /\ \A q \in p + 1 .. Len(L) : L[q] # x)
                  <=> (x \in A /\ x # k) \/ x \in B
    BY <1>0, <2>1
  <2> HIDE DEF A, B
  <2>3. Remain(c, L, (A \ {k}) \cup B)
    BY <2>2 DEF Remain
  <2>4. QED BY <2>3 DEF L, A, B
<1>3. ASSUME NEW k, NEW l
      PROVE  Remain(c, <<i, k, l>>, (Range(c[i].operands) \ {k, l})
                                       \cup (Range(c[k].operands) \ {l})
                                       \cup Range(c[l].operands))
  <2> DEFINE L == <<i, k, l>>
             A == Range(c[i].operands)
             B == Range(c[k].operands)
             C == Range(c[l].operands)
  <2>1. Len(L) = 3 /\ L[1] = i /\ L[2] = k /\ L[3] = l
    OBVIOUS
  <2> HIDE DEF L
  <2>2. \A x : (\E p \in 1 .. Len(L) : /\ x \in Range(c[L[p]].operands)
                                       /\ \A q \in p + 1 .. Len(L) : L[q] # x)
                  <=> (x \in A /\ x # k /\ x # l) \/ (x \in B /\ x # l) \/ x \in C
    BY <1>0, <2>1
  <2> HIDE DEF A, B, C
  <2>3. Remain(c, L, (A \ {k, l}) \cup (B \ {l}) \cup C)
    BY <2>2 DEF Remain
  <2>4. QED BY <2>3 DEF L, A, B, C
<1>4. QED BY <1>1, <1>2, <1>3

\* Nothing remains of a constant and its broadcast.
LEMMA ConstantRemains ==
    ASSUME NEW n \in Nat, NEW c, Sound(c, n), Counted(c), NEW j \in DOMAIN c,
           NEW R, ConstantPath(c, j, R)
    PROVE  IsSequence(R) /\ Remain(c, R, {}) /\ j \in Range(R)
<1>1. CASE c[j].opcode = "constant" /\ R = <<j>>
  <2>1. Range(c[j].operands) = {}
    BY <1>1, Counts, OperandSets
  <2>2. Remain(c, R, {})
    BY <1>1, <2>1, TuplesRemain
  <2>3. QED BY <1>1, <2>2, TuplesAreSequences DEF Range
<1>2. CASE /\ c[j].opcode = "broadcast" /\ c[c[j].operands[1]].opcode = "constant"
           /\ R = <<j, c[j].operands[1]>>
  <2> DEFINE k == Operand(c, j, 1)
  <2>1. k = c[j].operands[1] /\ k \in DOMAIN c
    <3>1. c[j].opcode \in OperandCounts[1] /\ 1 \in 1 .. 3 /\ 1 \in 1 .. 1
      BY <1>2, Counts
    <3>2. QED BY <3>1, OperandFacts
  <2>2. Range(c[j].operands) = {k}
    BY <1>2, Counts, OperandSets
  <2>3. Range(c[k].operands) = {}
    BY <1>2, <2>1, Counts, OperandSets
  <2> HIDE DEF k
  <2>4. Remain(c, <<j, k>>, (Range(c[j].operands) \ {k}) \cup Range(c[k].operands))
    BY TuplesRemain
  <2>5. (Range(c[j].operands) \ {k}) \cup Range(c[k].operands) = {}
    BY <2>2, <2>3
  <2>6. Remain(c, R, {})
    BY <1>2, <2>1, <2>4, <2>5
  <2>7. IsSequence(R)
    BY <1>2, TuplesAreSequences
  <2>8. QED BY <1>2, <2>6, <2>7 DEF Range
<1>3. QED BY <1>1, <1>2 DEF ConstantPath

\* Nothing remains of the divisor of an average pool.
LEMMA DivisorRemains ==
    ASSUME NEW n \in Nat, NEW c, Sound(c, n), Counted(c), NEW j \in DOMAIN c,
           MatchAvgPoolDivideByCountRHS(c, j) # <<>>
    PROVE  LET R == MatchAvgPoolDivideByCountRHS(c, j)
           IN  IsSequence(R) /\ Remain(c, R, {}) /\ j \in Range(R)
<1>1. ASSUME NEW s \in DOMAIN c, MatchAvgPoolDivideByCountRHSPostBroadcast(c, s) # <<>>
      PROVE  LET R == MatchAvgPoolDivideByCountRHSPostBroadcast(c, s)
             IN  IsSequence(R) /\ Remain(c, R, {}) /\ s \in Range(R)
  <2> DEFINE
        o == Operand(c, s, 1)
        i == Operand(c, s, 2)
        p == MatchAvgPoolFpropLHS(c, s)
        q == MatchAvgPoolDivideByCountRHSOnes(c, o)
        R == MatchAvgPoolDivideByCountRHSPostBroadcast(c, s)
  <2>1. p # <<>> /\ q # <<>> /\ R = p \o q
    BY <1>1 DEF MatchAvgPoolDivideByCountRHSPostBroadcast, Both
  <2>2. /\ p = <<s, i>> /\ Walk(c, s, p) /\ c[s].opcode = "reduce-window"
        /\ IsAll(c, i, 0) /\ o \in DOMAIN c
    BY <2>1, SumWalk
  <2>3. i \in DOMAIN c
    <3>1. c[s].opcode \in OperandCounts[2] /\ 2 \in 1 .. 3 /\ 2 \in 1 .. 2
      BY <2>2, Counts
    <3>2. QED BY <3>1, OperandFacts
  <2>4. Range(c[s].operands) = {o, i} /\ Range(c[i].operands) = {}
    BY <2>2, <2>3, Counts, OperandSets DEF IsAll, Opcode
  <2>5. ConstantPath(c, o, q)
    BY <2>1, ConstantPaths
  <2> HIDE DEF o, i, q
  <2>6. IsSequence(q) /\ Remain(c, q, {}) /\ o \in Range(q)
    BY <2>2, <2>5, ConstantRemains
  <2> DEFINE A == (Range(c[s].operands) \ {i}) \cup Range(c[i].operands)
  <2>7. Remain(c, p, A) /\ A \subseteq {o} /\ IsSequence(p) /\ s \in Range(p)
    <3>1. Remain(c, p, A)
      BY <2>2, TuplesRemain
    <3>2. IsSequence(p) /\ s \in Range(p)
      BY <2>2, TuplesAreSequences DEF Range
    <3>3. QED BY <2>4, <3>1, <3>2
  <2> HIDE DEF A, p, R
  <2>8. Remain(c, p \o q, (A \ Range(q)) \cup {})
    BY <2>6, <2>7, RemainJoin
  <2>9. (A \ Range(q)) \cup {} = {}
    BY <2>6, <2>7
  <2>10. IsSequence(p \o q) /\ s \in Range(p \o q)
    BY <2>6, <2>7, JoinedRange
  <2>11. QED BY <2>1, <2>8, <2>9, <2>10 DEF R
<1> DEFINE R == MatchAvgPoolDivideByCountRHS(c, j)
<1>2. CASE IsValidPadding(c, j)
  <2>1. R = MatchBroadcastedConstant(c, j) /\ R # <<>>
    BY <1>2 DEF MatchAvgPoolDivideByCountRHS
  <2>2. ConstantPath(c, j, R)
    BY <2>1, ConstantPaths
  <2> HIDE DEF R
  <2>3. IsSequence(R) /\ Remain(c, R, {}) /\ j \in Range(R)
    BY <2>2, ConstantRemains
  <2>4. QED BY <2>3 DEF R
<1>3. CASE ~IsValidPadding(c, j) /\ c[j].opcode = "broadcast"
  <2> DEFINE
        s == Operand(c, j, 1)
        p == <<j>>
        q == MatchAvgPoolDivideByCountRHSPostBroadcast(c, s)
  <2>1. R = p \o q /\ q # <<>>
    BY <1>3 DEF MatchAvgPoolDivideByCountRHS, Both, Opcode
  <2>2. s \in DOMAIN c /\ Range(c[j].operands) = {s}
    <3>1. c[j].opcode \in OperandCounts[1] /\ 1 \in 1 .. 3 /\ 1 \in 1 .. 1
      BY <1>3, Counts
    <3>2. QED BY <3>1, OperandFacts, OperandSets
  <2> HIDE DEF s
  <2>3. IsSequence(q) /\ Remain(c, q, {}) /\ s \in Range(q)
    BY <1>1, <2>1, <2>2
  <2>4. Remain(c, p, {s}) /\ IsSequence(p) /\ j \in Range(p)
    <3>1. Remain(c, p, {s})
      BY <2>2, TuplesRemain
    <3>2. IsSequence(p)
      BY TuplesAreSequences
    <3>3. 1 \in DOMAIN p /\ p[1] = j
      OBVIOUS
    <3> HIDE DEF p
    <3>4. QED BY <3>1, <3>2, <3>3 DEF Range
  <2> HIDE DEF p, q, R
  <2>5. Remain(c, p \o q, ({s} \ Range(q)) \cup {})
    BY <2>3, <2>4, RemainJoin
  <2>6. ({s} \ Range(q)) \cup {} = {}
    BY <2>3
  <2>7. IsSequence(p \o q) /\ j \in Range(p \o q)
    BY <2>3, <2>4, JoinedRange
  <2>8. QED BY <2>1, <2>5, <2>6, <2>7 DEF R
<1>4. CASE ~IsValidPadding(c, j) /\ c[j].opcode # "broadcast"
  <2>1. R = MatchAvgPoolDivideByCountRHSPostBroadcast(c, j)
    BY <1>4 DEF MatchAvgPoolDivideByCountRHS, Opcode
  <2>2. QED BY <1>1, <2>1
<1>5. QED BY <1>2, <1>3, <1>4

\* The arguments of the kernel that a rule has matched remain.
Served(c, i, m) ==
    LET arguments == Arguments(c, i, m.emitter.kind)
    IN  Range(arguments) \cap Range(m.fuse) = {} => Takes(c, i, m.fuse, arguments)

\* The rules for which a kernel's graph is its root and an initial value.
LEMMA InitialValueServed ==
    ASSUME NEW n \in Nat, NEW c, Sound(c, n), Counted(c), NEW i \in DOMAIN c,
           NEW m, m.fuse = <<i, Operand(c, i, 2)>>,
           m.emitter.kind \in {"reduction", "max-pool"},
           c[i].opcode \in OperandCounts[2],
           \E v : IsAll(c, Operand(c, i, 2), v)
    PROVE  Served(c, i, m)
<1> DEFINE x == Operand(c, i, 1)
           k == Operand(c, i, 2)
           L == <<i, k>>
           A == (Range(c[i].operands) \ {k}) \cup Range(c[k].operands)
<1>1. Arguments(c, i, m.emitter.kind) = <<x>>
  BY DEF Arguments
<1>2. k \in DOMAIN c
  <2>1. 2 \in 1 .. 3 /\ 2 \in 1 .. 2
    OBVIOUS
  <2>2. QED BY <2>1, OperandFacts
<1>3. Range(c[i].operands) = {x, k} /\ Range(c[k].operands) = {}
  BY <1>2, Counts, OperandSets DEF IsAll, Opcode
<1> HIDE DEF x, k
<1>4. Remain(c, L, A)
  BY TuplesRemain
<1>5. SUFFICES ASSUME Range(<<x>>) \cap Range(L) = {} PROVE Takes(c, i, L, <<x>>)
  BY <1>1 DEF Served, k
<1>6. x # k
  BY <1>5 DEF Range
<1>7. A = {x}
  BY <1>3, <1>6
<1> HIDE DEF L, A
<1>8. QED BY <1>4, <1>7 DEF Takes

\* The same for the gradient of a max pool ...
LEMMA MaxPoolBpropServed ==
    ASSUME NEW n \in Nat, NEW c, Sound(c, n), Counted(c), NEW i \in DOMAIN c,
           NEW m, m.fuse = <<i, Operand(c, i, 3)>>,
           m.emitter.kind = "max-pool-backprop",
           c[i].opcode \in OperandCounts[3],
           \E v : IsAll(c, Operand(c, i, 3), v)
    PROVE  Served(c, i, m)
<1> DEFINE x == Operand(c, i, 1)
           y == Operand(c, i, 2)
           k == Operand(c, i, 3)
           L == <<i, k>>
           A == (Range(c[i].operands) \ {k}) \cup Range(c[k].operands)
<1>1. Arguments(c, i, m.emitter.kind) = <<x, y>>
  BY DEF Arguments
<1>2. k \in DOMAIN c
  <2>1. 3 \in 1 .. 3
    OBVIOUS
  <2>2. QED BY <2>1, OperandFacts
<1>3. Range(c[i].operands) = {x, y, k} /\ Range(c[k].operands) = {}
      /\ \A b : b \notin {x, k} => Before(c[i].operands, x, b)
  BY <1>2, Counts, OperandSets DEF IsAll, Opcode
<1> HIDE DEF x, y, k
<1>4. Remain(c, L, A)
  BY TuplesRemain
<1>5. SUFFICES ASSUME Range(<<x, y>>) \cap Range(L) = {} PROVE Takes(c, i, L, <<x, y>>)
  BY <1>1 DEF Served, k
<1>6. x # k /\ y # k
  BY <1>5 DEF Range
<1>7. A = {x, y}
  BY <1>3, <1>6
<1> HIDE DEF L, A
<1>8. Remain(c, L, {x, y}) /\ x \in Range(c[i].operands)
      /\ (x # y => Before(c[i].operands, x, y))
  BY <1>3, <1>4, <1>6, <1>7
<1>9. QED BY <1>8 DEF Takes

\* ... for the gradients of a convolution, of its data ...
LEMMA ConvolutionDataServed ==
    ASSUME NEW n \in Nat, NEW c, Sound(c, n), Counted(c), NEW i \in DOMAIN c,
           NEW m, m.fuse = <<i, Operand(c, i, 2)>>,
           m.emitter.kind = "conv-backprop-input",
           c[i].opcode = "convolution", c[Operand(c, i, 2)].opcode = "reverse"
    PROVE  Served(c, i, m)
<1> DEFINE x == Operand(c, i, 1)
           k == Operand(c, i, 2)
           y == Operand(c, k, 1)
           L == <<i, k>>
           A == (Range(c[i].operands) \ {k}) \cup Range(c[k].operands)
<1>1. Arguments(c, i, m.emitter.kind) = <<x, y>>
  BY DEF Arguments
<1>2. k \in DOMAIN c
  <2>1. 2 \in 1 .. 3 /\ 2 \in 1 .. 2 /\ c[i].opcode \in OperandCounts[2]
    BY Counts
  <2>2. QED BY <2>1, OperandFacts
<1>3. Range(c[i].operands) = {x, k} /\ Range(c[k].operands) = {y}
      /\ \A b : b # x => Before(c[i].operands, x, b)
  BY <1>2, Counts, OperandSets
<1> HIDE DEF x, y, k
<1>4. Remain(c, L, A)
  BY TuplesRemain
<1>5. SUFFICES ASSUME Range(<<x, y>>) \cap Range(L) = {} PROVE Takes(c, i, L, <<x, y>>)
  BY <1>1 DEF Served, k
<1>6. x # k /\ y # k
  BY <1>5 DEF Range
<1>7. A = {x, y}
  BY <1>3, <1>6
<1> HIDE DEF L, A
<1>8. Remain(c, L, {x, y}) /\ x \in Range(c[i].operands)
      /\ (x # y => Before(c[i].operands, x, y))
  BY <1>3, <1>4, <1>6, <1>7
<1>9. QED BY <1>8 DEF Takes

\* ... and of its filters ...
LEMMA ConvolutionFiltersServed ==
    ASSUME NEW n \in Nat, NEW c, Sound(c, n), Counted(c), NEW i \in DOMAIN c,
           NEW m, m.fuse = <<i>>, m.emitter.kind = "conv-backprop-filters",
           c[i].opcode = "convolution"
    PROVE  Served(c, i, m)
<1> DEFINE x == Operand(c, i, 1)
           y == Operand(c, i, 2)
           L == <<i>>
<1>1. Arguments(c, i, m.emitter.kind) = <<x, y>>
  BY DEF Arguments
<1>2. Range(c[i].operands) = {x, y} /\ \A b : b # x => Before(c[i].operands, x, b)
  BY Counts, OperandSets
<1> HIDE DEF x, y
<1>3. Remain(c, L, {x, y})
  BY <1>2, TuplesRemain
<1> HIDE DEF L
<1>4. Takes(c, i, L, <<x, y>>)
  <2>1. x \in Range(c[i].operands) /\ (x # y => Before(c[i].operands, x, y))
    BY <1>2
  <2>2. QED BY <1>3, <2>1 DEF Takes
<1>5. QED BY <1>1, <1>4 DEF Served, L

\* ... for a rectifier ...
LEMMA ReluServed ==
    ASSUME NEW n \in Nat, NEW c, Sound(c, n), Counted(c), NEW i \in DOMAIN c,
           NEW m, m.fuse = <<i>> \o MatchBroadcastedZero(c, Operand(c, i, 1)),
           MatchBroadcastedZero(c, Operand(c, i, 1)) # <<>>,
           m.emitter.kind = "relu", c[i].opcode = "maximum"
    PROVE  Served(c, i, m)
<1> DEFINE k == Operand(c, i, 1)
           x == Operand(c, i, 2)
           p == <<i>>
           q == MatchBroadcastedZero(c, k)
<1>1. Arguments(c, i, m.emitter.kind) = <<x>>
  BY DEF Arguments
<1>2. k \in DOMAIN c
  <2>1. 2 \in 1 .. 3 /\ 1 \in 1 .. 2 /\ c[i].opcode \in OperandCounts[2]
    BY Counts
  <2>2. QED BY <2>1, OperandFacts
<1>3. Range(c[i].operands) = {k, x}
  BY Counts, OperandSets
<1>4. ConstantPath(c, k, q)
  BY ConstantPaths
<1> HIDE DEF x, k, q
<1>5. IsSequence(q) /\ Remain(c, q, {}) /\ k \in Range(q)
  BY <1>2, <1>4, ConstantRemains
<1>6. IsSequence(p) /\ Remain(c, p, {k, x})
  BY <1>3, TuplesRemain, TuplesAreSequences
<1> HIDE DEF p
<1>7. Remain(c, p \o q, ({k, x} \ Range(q)) \cup {})
  BY <1>5, <1>6, RemainJoin
<1> DEFINE L == p \o q
<1>8. m.fuse = L
  BY DEF p, q, k
<1>9. SUFFICES ASSUME Range(<<x>>) \cap Range(L) = {} PROVE Takes(c, i, L, <<x>>)
  BY <1>1, <1>8 DEF Served
<1>10. Range(L) = Range(p) \cup Range(q)
  BY <1>5, <1>6, JoinedRange
<1>11. ({k, x} \ Range(q)) \cup {} = {x}
  <2>1. x \in Range(<<x>>)
    BY DEF Range
  <2>2. x \notin Range(q)
    BY <1>9, <1>10, <2>1
  <2>3. QED BY <2>2, <1>5
<1>12. Remain(c, L, {x})
  BY <1>7, <1>11
<1> HIDE DEF L
<1>13. QED BY <1>12 DEF Takes

\* ... and its gradient ...
LEMMA ReluBpropServed ==
    ASSUME NEW n \in Nat, NEW c, Sound(c, n), Counted(c), NEW i \in DOMAIN c,
           NEW k, k = Operand(c, i, 1), NEW b, b = Operand(c, k, 2),
           NEW z, z = Operand(c, b, 1),
           NEW m, m.fuse = <<i, k, b, z>>, m.emitter.kind = "relu-backprop",
           c[i].opcode = "select", c[k].opcode = "gt", c[b].opcode = "broadcast",
           c[z].opcode = "constant", Operand(c, i, 3) = b
    PROVE  Served(c, i, m)
<1> DEFINE x == Operand(c, i, 2)
           y == Operand(c, k, 1)
           L == <<i, k, b, z>>
<1>1. Arguments(c, i, m.emitter.kind) = <<x, y>>
  BY DEF Arguments
<1>2. k \in DOMAIN c /\ b \in DOMAIN c /\ z \in DOMAIN c
  <2>1. c[i].opcode \in OperandCounts[3] /\ 1 \in 1 .. 3 /\ 3 \in 1 .. 3
    BY Counts
  <2>2. k \in DOMAIN c /\ b \in DOMAIN c
    BY <2>1, OperandFacts
  <2>3. c[b].opcode \in OperandCounts[1] /\ 1 \in 1 .. 3 /\ 1 \in 1 .. 1
    BY Counts
  <2>4. z \in DOMAIN c
    BY <2>2, <2>3, OperandFacts
  <2>5. QED BY <2>2, <2>4
<1>3. /\ Range(c[i].operands) = {k, x, b} /\ Range(c[k].operands) = {y, b}
      /\ Range(c[b].operands) = {z} /\ Range(c[z].operands) = {}
  BY <1>2, Counts, OperandSets
<1>4. \A u : u \notin {k, b} => x \in Range(c[i].operands)
  BY <1>3
<1> HIDE DEF x, y
<1>5. SUFFICES ASSUME Range(<<x, y>>) \cap Range(L) = {} PROVE Takes(c, i, L, <<x, y>>)
  BY <1>1 DEF Served
<1>6. /\ Len(L) = 4 /\ DOMAIN L = 1 .. 4
      /\ L[1] = i /\ L[2] = k /\ L[3] = b /\ L[4] = z
  OBVIOUS
<1> HIDE DEF L
<1>7. /\ 1 .. 4 = {1, 2, 3, 4}
      /\ 1 + 1 .. 4 = {2, 3, 4} /\ 2 + 1 .. 4 = {3, 4} /\ 3 + 1 .. 4 = {4} /\ 4 + 1 .. 4 = {}
  OBVIOUS
<1>8. x \notin {i, k, b, z} /\ y \notin {i, k, b, z}
  <2>1. {i, k, b, z} \subseteq Range(L)
    BY <1>6, <1>7 DEF Range
  <2>2. x \in Range(<<x, y>>) /\ y \in Range(<<x, y>>)
    BY DEF Range
  <2>3. QED BY <1>5, <2>1, <2>2
<1>9. Remain(c, L, {x, y})
  <2>1. \A u : (\E p \in 1 .. Len(L) : /\ u \in Range(c[L[p]].operands)
                                       /\ \A q \in p + 1 .. Len(L) : L[q] # u)
                  <=> \/ u \in {k, x, b} /\ u # k /\ u # b /\ u # z
                      \/ u \in {y, b} /\ u # b /\ u # z
                      \/ u \in {z} /\ u # z
    BY <1>3, <1>6, <1>7
  <2>2. QED BY <1>8, <2>1 DEF Remain
<1>10. x \in Range(c[i].operands) /\ (x # y => Before(c[i].operands, x, y))
  <2>1. x # y => y \notin Range(c[i].operands)
    BY <1>3, <1>8
  <2>2. y \notin Range(c[i].operands) => Before(c[i].operands, x, y)
    BY DEF Range, Before
  <2>3. QED BY <1>3, <2>1, <2>2
<1>11. QED BY <1>9, <1>10 DEF Takes

\* ... for an average pool ...
LEMMA AvgPoolServed ==
    ASSUME NEW n \in Nat, NEW c, Sound(c, n), Counted(c), NEW i \in DOMAIN c,
           NEW lhs, lhs = Operand(c, i, 1), NEW rhs, rhs = Operand(c, i, 2),
           MatchAvgPoolFpropLHS(c, lhs) # <<>>, MatchAvgPoolDivideByCountRHS(c, rhs) # <<>>,
           NEW m, m.emitter.kind = "avg-pool", c[i].opcode = "divide",
           m.fuse = <<i>> \o (MatchAvgPoolFpropLHS(c, lhs)
                                \o MatchAvgPoolDivideByCountRHS(c, rhs))
    PROVE  Served(c, i, m)
<1> DEFINE x == Operand(c, lhs, 1)
           k == Operand(c, lhs, 2)
           a == <<i>>
           p == MatchAvgPoolFpropLHS(c, lhs)
           q == MatchAvgPoolDivideByCountRHS(c, rhs)
           t == p \o q
           L == a \o t
<1>1. Arguments(c, i, m.emitter.kind) = <<x>>
  BY DEF Arguments
<1>2. lhs \in DOMAIN c /\ rhs \in DOMAIN c /\ Range(c[i].operands) = {lhs, rhs}
  <2>1. 2 \in 1 .. 3 /\ 1 \in 1 .. 2 /\ 2 \in 1 .. 2 /\ c[i].opcode \in OperandCounts[2]
    BY Counts
  <2>2. lhs \in DOMAIN c /\ rhs \in DOMAIN c
    BY <2>1, OperandFacts
  <2>3. Range(c[i].operands) = {lhs, rhs}
    BY <2>1, OperandSets
  <2>4. QED BY <2>2, <2>3
<1>3. p = <<lhs, k>> /\ c[lhs].opcode = "reduce-window" /\ IsAll(c, k, 0)
  BY <1>2, SumWalk
<1>4. k \in DOMAIN c
  <2>1. 2 \in 1 .. 3 /\ 2 \in 1 .. 2 /\ c[lhs].opcode \in OperandCounts[2]
    BY <1>3, Counts
  <2>2. QED BY <1>2, <2>1, OperandFacts
<1>5. Range(c[lhs].operands) = {x, k} /\ Range(c[k].operands) = {}
  <2>1. c[lhs].opcode \in OperandCounts[2] /\ c[k].opcode \in OperandCounts[0]
    BY <1>3, Counts DEF IsAll, Opcode
  <2>2. QED BY <1>2, <1>4, <2>1, OperandSets
<1>6. IsSequence(q) /\ Remain(c, q, {}) /\ rhs \in Range(q)
  BY <1>2, DivisorRemains
<1> HIDE DEF x, k, q
<1>7. IsSequence(p) /\ Remain(c, p, {x} \ {k}) /\ Range(p) = {lhs, k}
  <2>1. Remain(c, <<lhs, k>>, (Range(c[lhs].operands) \ {k}) \cup Range(c[k].operands))
    BY TuplesRemain
  <2>2. (Range(c[lhs].operands) \ {k}) \cup Range(c[k].operands) = {x} \ {k}
    BY <1>5
  <2>3. Range(<<lhs, k>>) = {lhs, k}
    <3> DEFINE s == <<lhs, k>>
    <3>1. DOMAIN s = {1, 2} /\ s[1] = lhs /\ s[2] = k
      OBVIOUS
    <3> HIDE DEF s
    <3>2. Range(s) = {lhs, k}
      BY <3>1 DEF Range
    <3>3. QED BY <3>2 DEF s
  <2>4. IsSequence(<<lhs, k>>)
    BY TuplesAreSequences
  <2>5. p = <<lhs, k>>
    BY <1>3
  <2> HIDE DEF p
  <2>6. QED BY <2>1, <2>2, <2>3, <2>4, <2>5
<1>8. IsSequence(a) /\ Remain(c, a, {lhs, rhs})
  BY <1>2, TuplesRemain, TuplesAreSequences
<1> HIDE DEF p, a
<1>9. Remain(c, t, (({x} \ {k}) \ Range(q)) \cup {})
  BY <1>6, <1>7, RemainJoin
<1>10. IsSequence(t) /\ Range(t) = Range(p) \cup Range(q)
  BY <1>6, <1>7, JoinedRange
<1> DEFINE B == (({x} \ {k}) \ Range(q)) \cup {}
<1> HIDE DEF t, B
<1>11. Remain(c, L, ({lhs, rhs} \ Range(t)) \cup B)
  BY <1>8, <1>9, <1>10, RemainJoin DEF B
<1>12. Range(L) = Range(a) \cup Range(t)
  BY <1>8, <1>10, JoinedRange
<1>13. m.fuse = L
  BY DEF L, a, t, p, q
<1> HIDE DEF L
<1>14. SUFFICES ASSUME Range(<<x>>) \cap Range(L) = {} PROVE Takes(c, i, L, <<x>>)
  BY <1>1, <1>13 DEF Served
<1>15. x \notin Range(L)
  <2>1. x \in Range(<<x>>)
    BY DEF Range
  <2>2. QED BY <1>14, <2>1
<1>16. ({lhs, rhs} \ Range(t)) \cup B = {x}
  BY <1>6, <1>7, <1>10, <1>12, <1>15 DEF B
<1>17. Remain(c, L, {x})
  BY <1>11, <1>16
<1>18. QED BY <1>17 DEF Takes

\* ... and its gradient.
LEMMA AvgPoolBpropServed ==
    ASSUME NEW n \in Nat, NEW c, Sound(c, n), Counted(c), NEW i \in DOMAIN c,
           NEW pad, pad = Operand(c, i, 1),
           MatchAvgPoolFpropLHS(c, i) # <<>>,
           MatchAvgPoolBpropReduceWindowOperand(c, pad) # <<>>,
           NEW m, m.emitter.kind = "avg-pool-backprop",
           m.fuse = MatchAvgPoolFpropLHS(c, i)
                      \o MatchAvgPoolBpropReduceWindowOperand(c, pad)
    PROVE  Served(c, i, m)
<1> DEFINE k == Operand(c, i, 2)
           divide == Operand(c, pad, 1)
           l == Operand(c, pad, 2)
           x == Operand(c, divide, 1)
           rhs == Operand(c, divide, 2)
           p == MatchAvgPoolFpropLHS(c, i)
           a == <<pad, divide, l>>
           q == MatchAvgPoolDivideByCountRHS(c, rhs)
           t == MatchAvgPoolBpropReduceWindowOperand(c, pad)
           L == p \o t
<1>1. Arguments(c, i, m.emitter.kind) = <<x>>
  BY DEF Arguments
<1>2. p = <<i, k>> /\ c[i].opcode = "reduce-window" /\ IsAll(c, k, 0)
  BY SumWalk
<1>3. /\ t = a \o q /\ q # <<>> /\ c[pad].opcode = "pad" /\ c[divide].opcode = "divide"
      /\ IsAll(c, l, 0)
  <2> HIDE DEF q
  <2>1. a # <<>>
    OBVIOUS
  <2>2. t = Both(a, q) /\ c[pad].opcode = "pad" /\ c[divide].opcode = "divide" /\ IsAll(c, l, 0)
    BY DEF MatchAvgPoolBpropReduceWindowOperand, Opcode, q
  <2> HIDE DEF a
  <2>3. q # <<>> /\ t = a \o q
    BY <2>1, <2>2 DEF Both
  <2>4. QED BY <2>2, <2>3
<1>4. pad \in DOMAIN c /\ k \in DOMAIN c
  <2>1. 2 \in 1 .. 3 /\ 1 \in 1 .. 2 /\ 2 \in 1 .. 2 /\ c[i].opcode \in OperandCounts[2]
    BY <1>2, Counts
  <2>2. QED BY <2>1, OperandFacts
<1>5. divide \in DOMAIN c /\ l \in DOMAIN c
  <2>1. 2 \in 1 .. 3 /\ 1 \in 1 .. 2 /\ 2 \in 1 .. 2 /\ c[pad].opcode \in OperandCounts[2]
    BY <1>3, Counts
  <2>2. QED BY <1>4, <2>1, OperandFacts
<1>6. rhs \in DOMAIN c
  <2>1. 2 \in 1 .. 3 /\ 2 \in 1 .. 2 /\ c[divide].opcode \in OperandCounts[2]
    BY <1>3, Counts
  <2>2. QED BY <1>5, <2>1, OperandFacts
<1>7. /\ Range(c[i].operands) = {pad, k} /\ Range(c[k].operands) = {}
      /\ Range(c[pad].operands) = {divide, l} /\ Range(c[l].operands) = {}
      /\ Range(c[divide].operands) = {x, rhs}
  BY <1>2, <1>3, <1>4, <1>5, Counts, OperandSets DEF IsAll, Opcode
<1>8. IsSequence(q) /\ Remain(c, q, {}) /\ rhs \in Range(q)
  BY <1>3, <1>6, DivisorRemains
<1> HIDE DEF k, divide, l, x, rhs, q
<1>9. IsSequence(p) /\ Remain(c, p, {pad} \ {k})
  <2>1. Remain(c, <<i, k>>, (Range(c[i].operands) \ {k}) \cup Range(c[k].operands))
    BY TuplesRemain
  <2>2. (Range(c[i].operands) \ {k}) \cup Range(c[k].operands) = {pad} \ {k}
    BY <1>7
  <2>3. QED BY <1>2, <2>1, <2>2, TuplesAreSequences
<1>10. IsSequence(a) /\ Remain(c, a, {x, rhs} \ {l}) /\ {pad, divide, l} \subseteq Range(a)
  <2>1. Remain(c, a, (Range(c[pad].operands) \ {divide, l})
                        \cup (Range(c[divide].operands) \ {l}) \cup Range(c[l].operands))
    BY TuplesRemain
  <2>2. (Range(c[pad].operands) \ {divide, l})
           \cup (Range(c[divide].operands) \ {l}) \cup Range(c[l].operands) = {x, rhs} \ {l}
    BY <1>7
  <2>3. Remain(c, a, {x, rhs} \ {l})
    BY <2>1, <2>2
  <2>4. IsSequence(a)
    BY TuplesAreSequences
  <2>5. DOMAIN a = {1, 2, 3} /\ a[1] = pad /\ a[2] = divide /\ a[3] = l
    OBVIOUS
  <2> HIDE DEF a
  <2>6. {pad, divide, l} \subseteq Range(a)
    BY <2>5 DEF Range
  <2>7. QED BY <2>3, <2>4, <2>6
<1> HIDE DEF p, a
<1> DEFINE B == (({x, rhs} \ {l}) \ Range(q)) \cup {}
<1>11. Remain(c, a \o q, B) /\ IsSequence(a \o q) /\ Range(a \o q) = Range(a) \cup Range(q)
  BY <1>8, <1>10, RemainJoin, JoinedRange
<1>12. Remain(c, t, B) /\ IsSequence(t) /\ Range(t) = Range(a) \cup Range(q)
  BY <1>3, <1>11
<1> HIDE DEF t, B
<1> DEFINE A == {pad} \ {k}
<1> HIDE DEF A
<1>13. Remain(c, L, (A \ Range(t)) \cup B) /\ Range(L) = Range(p) \cup Range(t)
  BY <1>9, <1>12, RemainJoin, JoinedRange DEF A
<1>14. m.fuse = L
  BY DEF L, t, p
<1> HIDE DEF L
<1>15. SUFFICES ASSUME Range(<<x>>) \cap Range(L) = {} PROVE Takes(c, i, L, <<x>>)
  BY <1>1, <1>14 DEF Served
<1>16. x \notin Range(L)
  <2>1. x \in Range(<<x>>)
    BY DEF Range
  <2>2. QED BY <1>15, <2>1
<1>17. (A \ Range(t)) \cup B = {x}
  BY <1>8, <1>10, <1>12, <1>13, <1>16 DEF A, B
<1>18. Remain(c, L, {x})
  BY <1>13, <1>17
<1>19. QED BY <1>18 DEF Takes

\* What a rule has matched is served.
LEMMA RulesServe ==
    ASSUME NEW n \in Nat, NEW c, Sound(c, n), Counted(c), NEW i \in DOMAIN c,
           NEW r \in 1 .. 9, NEW m, m = Rules(c, i)[r], m # NoMatch
    PROVE  Served(c, i, m)
<1> DEFINE j == Operand(c, i, 1)
           k == Operand(c, i, 2)
<1>1. CASE r = 1
  <2> DEFINE L == <<i, k>>
             e == [NoEmitter EXCEPT !.kind = "reduction", !.opcode = c[i].apply.root,
                                    !.dimensions = c[i].dimensions]
  <2>1. /\ m = Match(L, e) /\ c[i].opcode = "reduce"
        /\ \E v : IsAll(c, k, v)
    BY <1>1 DEF Rules, FuseReduce, Opcode
  <2>2. e.kind = "reduction"
    BY MatchFacts
  <2> HIDE DEF e, L
  <2>3. m.fuse = L /\ m.emitter.kind = "reduction"
    BY <2>1, <2>2, MatchFacts
  <2>4. QED BY <2>1, <2>3, Counts, InitialValueServed DEF L
<1>2. CASE r = 2
  <2> DEFINE L == <<i, k>>
             format == ReconstructDataFormatFromPoolingWindow(c[i].window)
  <2>1. /\ m = Match(L, PoolEmitter("max-pool", c[i].window, format))
        /\ c[i].opcode = "reduce-window" /\ \E v : IsAll(c, k, v)
    BY <1>2 DEF Rules, FuseMaxPoolFprop, Opcode
  <2> HIDE DEF format, L
  <2>2. m.fuse = L /\ m.emitter.kind = "max-pool"
    BY <2>1, MatchFacts
  <2>3. QED BY <2>1, <2>2, Counts, InitialValueServed DEF L
<1>3. CASE r = 3
  <2> DEFINE
        p == MatchAvgPoolFpropLHS(c, j)
        q == MatchAvgPoolDivideByCountRHS(c, k)
        a == <<i>>
        b == Both(p, q)
        e == PoolEmitter("avg-pool", c[j].window,
                         ReconstructDataFormatFromPoolingWindow(c[j].window))
  <2>1. m = Match(a \o b, e) /\ c[i].opcode = "divide" /\ b # <<>>
    BY <1>3 DEF Rules, FuseAvgPoolFprop, Opcode
  <2>2. e.kind = "avg-pool"
    BY MatchFacts
  <2> HIDE DEF p, q, e
  <2>3. p # <<>> /\ q # <<>> /\ b = p \o q
    BY <2>1 DEF Both
  <2> DEFINE L == a \o (p \o q)
  <2>4. m = Match(L, e)
    BY <2>1, <2>3
  <2> HIDE DEF L
  <2>5. m.fuse = L /\ m.emitter.kind = "avg-pool"
    BY <2>2, <2>4, MatchFacts
  <2> HIDE DEF j, k
  <2>6. /\ m.fuse = <<i>> \o (MatchAvgPoolFpropLHS(c, j) \o MatchAvgPoolDivideByCountRHS(c, k))
        /\ MatchAvgPoolFpropLHS(c, j) # <<>> /\ MatchAvgPoolDivideByCountRHS(c, k) # <<>>
    BY <2>3, <2>5 DEF L, p, q
  <2>7. j = Operand(c, i, 1) /\ k = Operand(c, i, 2)
    BY DEF j, k
  <2>8. QED BY <2>1, <2>5, <2>6, <2>7, AvgPoolServed
<1>4. CASE r = 4
  <2> DEFINE l == Operand(c, i, 3)
             L == <<i, l>>
             format == ReconstructDataFormatFromPoolingWindow(c[i].window)
  <2>1. /\ m = Match(L, PoolEmitter("max-pool-backprop", c[i].window, format))
        /\ c[i].opcode = "select-and-scatter" /\ IsAll(c, l, 0)
    BY <1>4 DEF Rules, FuseMaxPoolBprop, Opcode
  <2> HIDE DEF format, L
  <2>2. m.fuse = L /\ m.emitter.kind = "max-pool-backprop"
    BY <2>1, MatchFacts
  <2>3. QED BY <2>1, <2>2, Counts, MaxPoolBpropServed DEF L
<1>5. CASE r = 5
  <2> DEFINE
        p == MatchAvgPoolFpropLHS(c, i)
        q == MatchAvgPoolBpropReduceWindowOperand(c, j)
        M == MatchAvgPoolBprop(c, i)
        padding == c[j].padding
        format == ReconstructDataFormatFromAvgPoolBackpropPadding(padding)
        w == ForwardPoolWindow(c[i].window, padding, format,
                               IsValidPadding(c, Operand(c, Operand(c, j, 1), 2)))
        e == [PoolEmitter("avg-pool-backprop", w, format) EXCEPT !.shape = c[i].shape]
  <2>1. m = Match(M, e) /\ M # <<>>
    BY <1>5 DEF Rules, FuseAvgPoolBprop
  <2>2. e.kind = "avg-pool-backprop"
    BY DEF PoolEmitter, NoEmitter
  <2>3. M # <<>> => p # <<>> /\ M = Both(p, q)
    BY DEF MatchAvgPoolBprop
  <2> HIDE DEF M, p, q, e
  <2>4. p # <<>> /\ q # <<>> /\ M = p \o q
    BY <2>1, <2>3 DEF Both
  <2>5. m.fuse = M /\ m.emitter.kind = "avg-pool-backprop"
    BY <2>1, <2>2, MatchFacts
  <2> HIDE DEF j
  <2>6. /\ m.fuse = MatchAvgPoolFpropLHS(c, i) \o MatchAvgPoolBpropReduceWindowOperand(c, j)
        /\ MatchAvgPoolFpropLHS(c, i) # <<>>
        /\ MatchAvgPoolBpropReduceWindowOperand(c, j) # <<>>
    BY <2>4, <2>5 DEF p, q
  <2>7. j = Operand(c, i, 1)
    BY DEF j
  <2>8. QED BY <2>5, <2>6, <2>7, AvgPoolBpropServed
<1>6. CASE r = 6
  <2>1. /\ c[i].opcode = "convolution" /\ c[k].opcode = "reverse"
        /\ m.fuse = <<i, k>> /\ m.emitter.kind = "conv-backprop-input"
    BY <1>6 DEF Rules, FuseConvolutionBpropData, Opcode, RevAppliesToFilterSpatialDims,
                Match, ConvEmitter, NoEmitter
  <2>2. QED BY <2>1, ConvolutionDataServed
<1>7. CASE r = 7
  <2>1. /\ c[i].opcode = "convolution"
        /\ m.fuse = <<i>> /\ m.emitter.kind = "conv-backprop-filters"
    BY <1>7 DEF Rules, FuseConvolutionBpropFilters, Opcode, Match, ConvEmitter, NoEmitter
  <2>2. QED BY <2>1, ConvolutionFiltersServed
<1>8. CASE r = 8
  <2> DEFINE
        p == <<i>>
        q == MatchBroadcastedZero(c, j)
        L == p \o q
        e == [NoEmitter EXCEPT !.kind = "relu"]
  <2>1. m = Match(L, e) /\ c[i].opcode = "maximum" /\ q # <<>>
    BY <1>8 DEF Rules, FuseRelu, Opcode
  <2>2. e.kind = "relu"
    BY MatchFacts
  <2> HIDE DEF e, L
  <2>3. m.fuse = L /\ m.emitter.kind = "relu"
    BY <2>1, <2>2, MatchFacts
  <2>4. QED BY <2>1, <2>3, ReluServed DEF L
<1>9. CASE r = 9
  <2> DEFINE
        b == Operand(c, j, 2)
        z == Operand(c, b, 1)
        L == <<i, j, b, z>>
        e == [NoEmitter EXCEPT !.kind = "relu-backprop"]
  <2>1. /\ m = Match(L, e) /\ c[i].opcode = "select" /\ c[j].opcode = "gt"
        /\ c[b].opcode = "broadcast" /\ IsAll(c, z, 0) /\ Operand(c, i, 3) = b
    BY <1>9 DEF Rules, FuseReluBprop, Opcode
  <2>2. e.kind = "relu-backprop"
    BY MatchFacts
  <2> HIDE DEF e, L
  <2>3. m.fuse = L /\ m.emitter.kind = "relu-backprop"
    BY <2>1, <2>2, MatchFacts
  <2>4. c[z].opcode = "constant"
    BY <2>1 DEF IsAll, Opcode
  <2>5. m.fuse = <<i, j, b, z>>
    BY <2>3 DEF L
  <2>6. j = Operand(c, i, 1) /\ b = Operand(c, j, 2) /\ z = Operand(c, b, 1)
    OBVIOUS
  <2> HIDE DEF j, b, z
  <2>7. QED BY <2>1, <2>3, <2>4, <2>5, <2>6, ReluBpropServed
<1>10. QED
  BY <1>1, <1>2, <1>3, <1>4, <1>5, <1>6, <1>7, <1>8, <1>9

-----------------------------------------------------------------------------
\* The shapes of tensors, whose dimensions are not empty.
Shapes == Seq(Nat \ {0})

\* The indexes of the first d dimensions of a shape.
Within(shape, d) ==
    {i \in Seq(Nat) : Len(i) = d /\ \A e \in 1 .. d : i[e] < shape[e]}
IndexBody(shape, f, d) ==
    IF d = 0 THEN {<<>>}
             ELSE {Append(i, n) : i \in f[d - 1], n \in 0 .. (shape[d] - 1)}

LEMMA WithinNone ==
    ASSUME NEW shape
    PROVE  Within(shape, 0) = {<<>>}
<1>1. \A i \in Seq(Nat) : Len(i) = 0 <=> i = <<>>
  OBVIOUS
<1>2. <<>> \in Seq(Nat)
  OBVIOUS
<1>3. ASSUME NEW i \in Within(shape, 0)  PROVE i = <<>>
  <2>1. i \in Seq(Nat) /\ Len(i) = 0
    BY DEF Within
  <2>2. QED BY <1>1, <2>1
<1>4. <<>> \in Within(shape, 0)
  <2>1. 1 .. 0 = {} /\ Len(<<>>) = 0
    OBVIOUS
  <2>2. QED BY <1>2, <2>1 DEF Within
<1>5. QED BY <1>3, <1>4

LEMMA WithinNext ==
    ASSUME NEW shape \in Seq(Nat), NEW d \in 1 .. Len(shape)
    PROVE  Within(shape, d) =
              {Append(i, n) : i \in Within(shape, d - 1), n \in 0 .. (shape[d] - 1)}
<1> DEFINE A == Within(shape, d)
           P == Within(shape, d - 1)
           K == 0 .. (shape[d] - 1)
<1>0. shape[d] \in Nat /\ d \in Nat \ {0}
  OBVIOUS
<1>1. ASSUME NEW i \in A  PROVE \E j \in P, k \in K : i = Append(j, k)
  <2> DEFINE j == SubSeq(i, 1, d - 1)
             k == i[d]
  <2>1. i \in Seq(Nat) /\ Len(i) = d /\ \A e \in 1 .. d : i[e] < shape[e]
    BY DEF Within
  <2>2. k \in Nat /\ k < shape[d]
    BY <1>0, <2>1
  <2>3. j \in Seq(Nat) /\ Len(j) = d - 1 /\ \A e \in 1 .. d - 1 : j[e] = i[e]
    BY <1>0, <2>1
  <2>4. i = Append(j, k)
    <3>1. Append(j, k) \in Seq(Nat) /\ Len(Append(j, k)) = d
      BY <1>0, <2>2, <2>3
    <3>2. \A e \in 1 .. d : Append(j, k)[e] = i[e]
      BY <1>0, <2>2, <2>3
    <3> HIDE DEF j, k
    <3>3. QED BY <2>1, <3>1, <3>2, SeqEqual
  <2>5. j \in P
    <3>1. \A e \in 1 .. d - 1 : e \in 1 .. d
      BY <1>0
    <3>2. \A e \in 1 .. d - 1 : j[e] < shape[e]
      BY <2>1, <2>3, <3>1
    <3> HIDE DEF j
    <3>3. QED BY <2>3, <3>2 DEF Within
  <2>6. k \in K
    BY <1>0, <2>2
  <2> HIDE DEF j, k, P, K
  <2>7. QED BY <2>4, <2>5, <2>6
<1>2. ASSUME NEW j \in P, NEW k \in K  PROVE Append(j, k) \in A
  <2>1. j \in Seq(Nat) /\ Len(j) = d - 1 /\ \A e \in 1 .. d - 1 : j[e] < shape[e]
    BY DEF Within
  <2>2. k \in Nat /\ k < shape[d]
    BY <1>0
  <2>3. Append(j, k) \in Seq(Nat) /\ Len(Append(j, k)) = d
    BY <1>0, <2>1, <2>2
  <2>4. \A e \in 1 .. d : Append(j, k)[e] < shape[e]
    BY <1>0, <2>1, <2>2
  <2>5. QED BY <2>3, <2>4 DEF Within
<1> HIDE DEF A, P, K
<1>3. A = {Append(i, k) : i \in P, k \in K}
  <2> DEFINE R == {Append(i, k) : i \in P, k \in K}
  <2>1. \A i \in A : i \in R
    BY <1>1
  <2>2. \A i \in R : \E j \in P, k \in K : i = Append(j, k)
    OBVIOUS
  <2>3. \A i \in R : i \in A
    <3> HIDE DEF R
    <3> QED BY <1>2, <2>2
  <2> HIDE DEF R
  <2>4. A = R
    BY <2>1, <2>3
  <2>5. QED BY <2>4 DEF R
<1>4. QED BY <1>3 DEF A, P, K

\* The indexes of a shape: a number for each dimension, smaller than its size.
LEMMA IndexIs ==
    ASSUME NEW shape \in Seq(Nat)
    PROVE  Index(shape) = Within(shape, Len(shape))
<1> DEFINE
      n == Len(shape)
      g == [d \in 0 .. n |-> Within(shape, d)]
      ix == CHOOSE f : f = [d \in 0 .. n |-> IndexBody(shape, f, d)]
<1>1. n \in Nat
  OBVIOUS
<1>2. \A d \in 0 .. n : g[d] = IndexBody(shape, g, d)
  <2>1. ASSUME NEW d \in 0 .. n  PROVE g[d] = IndexBody(shape, g, d)
    <3>1. g[d] = Within(shape, d)
      OBVIOUS
    <3>2. CASE d = 0
      <4>1. IndexBody(shape, g, d) = {<<>>}
        BY <3>2 DEF IndexBody
      <4>2. QED BY <3>1, <3>2, <4>1, WithinNone
    <3>3. CASE d # 0
      <4>1. d \in 1 .. n /\ d - 1 \in 0 .. n
        BY <3>3, <1>1
      <4>2. g[d - 1] = Within(shape, d - 1)
        BY <4>1
      <4> HIDE DEF g
      <4>3. IndexBody(shape, g, d) =
              {Append(i, k) : i \in Within(shape, d - 1), k \in 0 .. (shape[d] - 1)}
        BY <3>3, <4>2 DEF IndexBody
      <4>4. QED BY <3>1, <4>1, <4>3, WithinNext
    <3>4. QED BY <3>2, <3>3
  <2>2. QED BY <2>1
<1>3. g = [d \in 0 .. n |-> IndexBody(shape, g, d)]
  <2> DEFINE h == [d \in 0 .. n |-> IndexBody(shape, g, d)]
  <2>1. g = [d \in 0 .. n |-> g[d]]
    OBVIOUS
  <2>2. \A d \in 0 .. n : h[d] = IndexBody(shape, g, d)
    OBVIOUS
  <2>3. h = [d \in 0 .. n |-> h[d]]
    OBVIOUS
  <2> HIDE DEF g
  <2>4. QED BY <1>2, <2>1
<1>4. ix = [d \in 0 .. n |-> IndexBody(shape, ix, d)]
  <2> HIDE DEF g
  <2>1. \E f : f = [d \in 0 .. n |-> IndexBody(shape, f, d)]
    BY <1>3
  <2>2. QED BY <2>1
<1>5. Index(shape) = ix[n]
  BY DEF Index, IndexBody
<1> HIDE DEF ix
<1>6. \A d \in 0 .. n : ix[d] = IndexBody(shape, ix, d)
  BY <1>4
<1> DEFINE N == {d \in 0 .. n : ix[d] = g[d]}
<1>7. 0 .. n \subseteq N
  <2>1. 0 \in N
    <3>1. 0 \in 0 .. n
      BY <1>1
    <3>2. ix[0] = IndexBody(shape, ix, 0) /\ g[0] = IndexBody(shape, g, 0)
      BY <3>1, <1>2, <1>6
    <3> HIDE DEF g
    <3>3. ix[0] = g[0]
      BY <3>2 DEF IndexBody
    <3>4. QED BY <3>1, <3>3
  <2>2. ASSUME NEW d \in 0 .. n - 1, d \in N  PROVE d + 1 \in N
    <3>1. d + 1 \in 0 .. n /\ d + 1 # 0 /\ (d + 1) - 1 = d
      BY <1>1
    <3>2. ix[d] = g[d]
      BY <2>2
    <3>3. ix[d + 1] = IndexBody(shape, ix, d + 1) /\ g[d + 1] = IndexBody(shape, g, d + 1)
      BY <1>2, <1>6, <3>1
    <3> HIDE DEF g
    <3>4. IndexBody(shape, ix, d + 1) = IndexBody(shape, g, d + 1)
      BY <3>1, <3>2 DEF IndexBody
    <3>5. ix[d + 1] = g[d + 1]
      BY <3>3, <3>4
    <3>6. QED BY <3>1, <3>5
  <2>3. QED
    <3> HIDE DEF N
    <3> QED BY <2>1, <2>2, <1>1, IntervalInduction
<1>8. n \in 0 .. n
  BY <1>1
<1>9. ix[n] = g[n] /\ g[n] = Within(shape, n)
  BY <1>7, <1>8
<1>10. QED BY <1>5, <1>9

\* Indexes by their functions: what the dimensions are for quantifiers.
LEMMA IndexFacts ==
    ASSUME NEW shape \in Shapes, NEW i \in Index(shape)
    PROVE  /\ DOMAIN i = 1 .. Len(shape) /\ DOMAIN shape = 1 .. Len(shape)
           /\ Len(shape) \in Nat /\ Len(i) = Len(shape)
           /\ \A d \in 1 .. Len(shape) :
                 /\ i[d] \in Nat /\ i[d] < shape[d]
                 /\ shape[d] \in Nat \ {0}
           /\ i = [d \in 1 .. Len(shape) |-> i[d]]
<1>1. shape \in Seq(Nat)
  BY DEF Shapes
<1>2. i \in Seq(Nat) /\ Len(i) = Len(shape) /\ \A d \in 1 .. Len(shape) : i[d] < shape[d]
  BY <1>1, IndexIs DEF Within
<1>3. Len(shape) \in Nat /\ DOMAIN shape = 1 .. Len(shape)
      /\ \A d \in 1 .. Len(shape) : shape[d] \in Nat \ {0}
  BY DEF Shapes
<1>4. QED BY <1>2, <1>3

LEMMA IndexMade ==
    ASSUME NEW shape \in Shapes, NEW j, DOMAIN j = 1 .. Len(shape),
           j = [d \in DOMAIN j |-> j[d]],
           \A d \in 1 .. Len(shape) : j[d] \in Nat /\ j[d] < shape[d]
    PROVE  j \in Index(shape)
<1>1. shape \in Seq(Nat) /\ Len(shape) \in Nat
  BY DEF Shapes
<1>2. j \in [1 .. Len(shape) -> Nat]
  OBVIOUS
<1>3. j \in Seq(Nat) /\ Len(j) = Len(shape)
  BY <1>1, <1>2
<1>4. j \in Within(shape, Len(shape))
  BY <1>3 DEF Within
<1>5. QED BY <1>1, <1>4, IndexIs

\* A shape is that of the tensors of the shape.
LEMMA ShapeOfIs ==
    ASSUME NEW shape \in Shapes, NEW x, DOMAIN x = Index(shape)
    PROVE  ShapeOf(x) = shape
<1> DEFINE n == Len(shape)
           zero == [d \in 1 .. n |-> 0]
           top == [d \in 1 .. n |-> shape[d] - 1]
<1>1. n \in Nat /\ DOMAIN shape = 1 .. n /\ shape = [d \in 1 .. n |-> shape[d]]
      /\ \A d \in 1 .. n : shape[d] \in Nat \ {0}
  BY DEF Shapes
<1>2. zero \in Index(shape)
  <2>1. DOMAIN zero = 1 .. n /\ \A d \in 1 .. n : zero[d] \in Nat /\ zero[d] < shape[d]
    BY <1>1
  <2>2. QED BY <2>1, IndexMade
<1>3. top \in Index(shape)
  <2>1. DOMAIN top = 1 .. n /\ \A d \in 1 .. n : top[d] \in Nat /\ top[d] < shape[d]
    BY <1>1
  <2>2. QED BY <2>1, IndexMade
<1>4. Len(CHOOSE i \in DOMAIN x : TRUE) = n
  BY <1>2, IndexFacts
<1>5. ASSUME NEW d \in 1 .. n  PROVE Max({i[d] : i \in DOMAIN x}) + 1 = shape[d]
  <2> DEFINE S == {i[d] : i \in DOMAIN x}
             t == shape[d] - 1
  <2>1. t \in S
    <3>1. top[d] = t
      OBVIOUS
    <3> HIDE DEF top, t
    <3>2. QED BY <1>3, <3>1
  <2>2. \A y \in S : y \in Nat /\ y <= t
    BY <1>1, IndexFacts
  <2>3. t \in Nat
    BY <1>1
  <2> HIDE DEF S, t
  <2>4. \A y \in S : (\A z \in S : y >= z) => y = t
    BY <2>1, <2>2, <2>3
  <2>5. Max(S) = t
    BY <2>1, <2>2, <2>3, <2>4 DEF Max
  <2>6. QED BY <2>5, <1>1 DEF S, t
<1>6. ShapeOf(x) = [d \in 1 .. n |-> Max({i[d] : i \in DOMAIN x}) + 1]
  BY <1>4 DEF ShapeOf
<1> HIDE DEF n
<1>7. QED BY <1>1, <1>5, <1>6

\* The shape of the tensors of a shape is found in them, and there is an element.
LEMMA TensorOf ==
    ASSUME NEW shape \in Shapes, NEW x \in [Index(shape) -> Int]
    PROVE  ShapeOf(x) = shape /\ x # Missing
<1> DEFINE zero == [d \in 1 .. Len(shape) |-> 0]
<1>1. DOMAIN x = Index(shape)
  OBVIOUS
<1>2. zero \in Index(shape)
  <2>1. \A d \in 1 .. Len(shape) : shape[d] \in Nat \ {0}
    BY DEF Shapes
  <2>2. DOMAIN zero = 1 .. Len(shape) /\ zero = [d \in DOMAIN zero |-> zero[d]]
        /\ \A d \in 1 .. Len(shape) : zero[d] \in Nat /\ zero[d] < shape[d]
    BY <2>1
  <2> HIDE DEF zero
  <2>3. QED BY <2>2, IndexMade
<1>3. DOMAIN Missing = {}
  BY DEF Missing
<1>4. QED BY <1>1, <1>2, <1>3, ShapeOfIs

\* Implicit broadcasts: of zeros, whatever their shape ...
LEMMA ZeroUnder ==
    ASSUME NEW s \in Shapes, NEW z \in [Index(s) -> Int], \A j \in Index(s) : z[j] = 0,
           NEW shape \in Shapes, Len(s) <= Len(shape),
           \A d \in DOMAIN s : s[d] \in {1, shape[Len(shape) - Len(s) + d]},
           NEW i \in Index(shape)
    PROVE  Under(z, i) = 0
<1> DEFINE m == Len(s)
           n == Len(shape)
           at == [d \in DOMAIN s |-> IF s[d] = 1 THEN 0 ELSE i[(Len(i) - m) + d]]
<1>1. /\ m \in Nat /\ n \in Nat /\ m <= n /\ DOMAIN s = 1 .. m /\ Len(i) = n
      /\ \A d \in 1 .. m : s[d] \in Nat \ {0}
  BY IndexFacts DEF Shapes
<1>2. \A d \in 1 .. n : i[d] \in Nat /\ i[d] < shape[d]
  BY IndexFacts
<1>3. at \in Index(s)
  <2>1. DOMAIN at = 1 .. m /\ at = [d \in DOMAIN at |-> at[d]]
    BY <1>1
  <2>2. ASSUME NEW d \in 1 .. m  PROVE at[d] \in Nat /\ at[d] < s[d]
    <3> DEFINE e == (n - m) + d
    <3>1. e \in 1 .. n /\ d \in DOMAIN s
      BY <1>1
    <3>2. s[d] \in {1, shape[e]}
      BY <3>1
    <3>3. i[e] \in Nat /\ i[e] < shape[e]
      BY <3>1, <1>2
    <3>4. at[d] = IF s[d] = 1 THEN 0 ELSE i[e]
      BY <1>1, <3>1
    <3> HIDE DEF e, at
    <3>5. QED BY <1>1, <3>2, <3>3, <3>4
  <2> HIDE DEF at
  <2>3. QED BY <2>1, <2>2, IndexMade
<1>4. Under(z, i) = z[at]
  <2>1. ShapeOf(z) = s
    BY TensorOf
  <2>2. QED BY <2>1 DEF Under
<1>5. QED BY <1>3, <1>4

\* ... and of a tensor that has the shape.
LEMMA WholeUnder ==
    ASSUME NEW shape \in Shapes, NEW y \in [Index(shape) -> Int], NEW i \in Index(shape)
    PROVE  Under(y, i) = y[i]
<1> DEFINE n == Len(shape)
           at == [d \in DOMAIN shape |-> IF shape[d] = 1 THEN 0 ELSE i[(Len(i) - n) + d]]
<1>1. /\ n \in Nat /\ DOMAIN shape = 1 .. n /\ Len(i) = n /\ DOMAIN i = 1 .. n
      /\ \A d \in 1 .. n : i[d] \in Nat /\ i[d] < shape[d] /\ shape[d] \in Nat
      /\ i = [d \in 1 .. n |-> i[d]]
  BY IndexFacts
<1>2. at = i
  <2>1. ASSUME NEW d \in 1 .. n  PROVE at[d] = i[d]
    <3>1. (Len(i) - n) + d = d
      BY <1>1
    <3>2. i[d] \in Nat /\ i[d] < shape[d]
      BY <1>1
    <3>3. at[d] = IF shape[d] = 1 THEN 0 ELSE i[d]
      BY <1>1, <3>1
    <3> HIDE DEF at
    <3>4. shape[d] = 1 => i[d] = 0
      BY <3>2
    <3>5. QED BY <3>3, <3>4
  <2>2. at = [d \in 1 .. n |-> at[d]]
    BY <1>1
  <2> HIDE DEF at, n
  <2>3. QED BY <1>1, <2>1, <2>2
<1>3. Under(y, i) = y[at]
  <2>1. ShapeOf(y) = shape
    BY TensorOf
  <2>2. QED BY <2>1 DEF Under
<1>4. QED BY <1>2, <1>3

\* Functions on one set with the same values.
LEMMA SameFunction ==
    ASSUME NEW S, NEW f, f = [i \in S |-> f[i]], NEW g, g = [i \in S |-> g[i]],
           \A i \in S : f[i] = g[i]
    PROVE  f = g
OBVIOUS

\* The greater of zeros and a tensor is the rectified tensor.
LEMMA ReluOf ==
    ASSUME NEW s \in Shapes, NEW z \in [Index(s) -> Int], \A j \in Index(s) : z[j] = 0,
           NEW shape \in Shapes, Len(s) <= Len(shape),
           \A d \in DOMAIN s : s[d] \in {1, shape[Len(shape) - Len(s) + d]},
           NEW y \in [Index(shape) -> Int]
    PROVE  Elementwise("maximum", shape, z, y) = Relu(y)
<1> DEFINE E == Elementwise("maximum", shape, z, y)
           R == [i \in Index(shape) |-> IF y[i] > 0 THEN y[i] ELSE 0]
<1>1. Relu(y) = R
  BY DEF Relu
<1>2. \A a \in Int : Combined("maximum", 0, a) = IF a > 0 THEN a ELSE 0
  BY DEF Combined
<1>3. CASE DOMAIN z = DOMAIN y
  <2>1. Index(s) = Index(shape)
    BY <1>3
  <2>2. E = [i \in Index(shape) |-> Combined("maximum", z[i], y[i])]
    BY <1>3, <2>1 DEF Elementwise
  <2>3. ASSUME NEW i \in Index(shape)
        PROVE  Combined("maximum", z[i], y[i]) = IF y[i] > 0 THEN y[i] ELSE 0
    <3>1. z[i] = 0 /\ y[i] \in Int
      BY <2>1
    <3>2. QED BY <3>1, <1>2
  <2>4. R = [i \in Index(shape) |-> R[i]]
        /\ \A i \in Index(shape) : R[i] = IF y[i] > 0 THEN y[i] ELSE 0
    OBVIOUS
  <2>5. E = [i \in Index(shape) |-> E[i]] /\ \A i \in Index(shape) : E[i] = R[i]
    <3> HIDE DEF E, R
    <3> QED BY <2>2, <2>3, <2>4
  <2> HIDE DEF E, R
  <2>6. E = R
    BY <2>4, <2>5, SameFunction
  <2>7. QED BY <1>1, <2>6 DEF E
<1>4. CASE DOMAIN z # DOMAIN y
  <2>1. E = [i \in Index(shape) |-> Combined("maximum", Under(z, i), Under(y, i))]
    BY <1>4 DEF Elementwise
  <2>2. ASSUME NEW i \in Index(shape)
        PROVE  Combined("maximum", Under(z, i), Under(y, i)) = IF y[i] > 0 THEN y[i] ELSE 0
    <3>1. Under(z, i) = 0 /\ Under(y, i) = y[i] /\ y[i] \in Int
      BY ZeroUnder, WholeUnder
    <3>2. QED BY <3>1, <1>2
  <2>3. R = [i \in Index(shape) |-> R[i]]
        /\ \A i \in Index(shape) : R[i] = IF y[i] > 0 THEN y[i] ELSE 0
    OBVIOUS
  <2>4. E = [i \in Index(shape) |-> E[i]] /\ \A i \in Index(shape) : E[i] = R[i]
    <3> HIDE DEF E, R
    <3> QED BY <2>1, <2>2, <2>3
  <2> HIDE DEF E, R
  <2>5. E = R
    BY <2>3, <2>4, SameFunction
  <2>6. QED BY <1>1, <2>5 DEF E
<1>5. QED BY <1>3, <1>4

\* What is greater than zeros selects as the rectifier's gradient does.
LEMMA ReluBackpropOf ==
    ASSUME NEW shape \in Shapes, NEW z \in [Index(shape) -> Int],
           \A j \in Index(shape) : z[j] = 0,
           NEW x \in [Index(shape) -> Int], NEW y \in [Index(shape) -> Int], NEW any
    PROVE  Select(Elementwise("gt", any, x, z), y, z) = ReluBackprop(x, y)
<1> DEFINE P == Elementwise("gt", any, x, z)
<1>1. P = [i \in Index(shape) |-> Combined("gt", x[i], z[i])]
  BY DEF Elementwise
<1>2. \A a, b : Combined("gt", a, b) = IF a > b THEN 1 ELSE 0
  BY DEF Combined
<1> HIDE DEF P
<1>3. ASSUME NEW i \in Index(shape)
      PROVE  (IF P[i] = 1 THEN y[i] ELSE z[i]) = IF x[i] > 0 THEN y[i] ELSE 0
  <2>1. P[i] = IF x[i] > z[i] THEN 1 ELSE 0
    BY <1>1, <1>2
  <2>2. z[i] = 0
    OBVIOUS
  <2>3. QED BY <2>1, <2>2
<1>4. Select(P, y, z) = [i \in Index(shape) |-> IF P[i] = 1 THEN y[i] ELSE z[i]]
  BY DEF Select
<1>5. ReluBackprop(x, y) = [i \in Index(shape) |-> IF x[i] > 0 THEN y[i] ELSE 0]
  BY DEF ReluBackprop
<1>6. QED BY <1>3, <1>4, <1>5 DEF P

\* The window z is the spatial dimensions of window, with two trivial ones before.
SpatialFirst(window, nchw, z) ==
    /\ z \in Seq(WindowDimensions) /\ Len(z) = Len(window) /\ Len(window) >= 3
    /\ z[1] = Unit /\ z[2] = Unit
    /\ \A d \in 1 .. Len(window) - 2 :
          /\ FirstSpatial(nchw) + d - 1 \in 1 .. Len(window)
          /\ z[d + 2] = window[FirstSpatial(nchw) + d - 1]

\* Such a window is that of nGraph's with its two trivial dimensions.
LEMMA SpatialWindow ==
    ASSUME NEW window \in Seq(WindowDimensions), Undilated(window), NEW nchw, NEW z,
           SpatialFirst(window, nchw, z)
    PROVE  Spatial(XlaWindowToNGraph(window, nchw)) = z
<1> DEFINE n == Len(window)
           w == XlaWindowToNGraph(window, nchw)
           u == <<Unit, Unit>>
<1>1. /\ n \in Nat /\ ~(n < 3) /\ z[1] = Unit /\ z[2] = Unit
      /\ z \in Seq(WindowDimensions) /\ Len(z) = n
      /\ \A d \in 1 .. n - 2 : /\ FirstSpatial(nchw) + d - 1 \in 1 .. n
                              /\ z[d + 2] = window[FirstSpatial(nchw) + d - 1]
  BY LenProperties DEF SpatialFirst
<1>2. DOMAIN window = 1 .. n /\ \A d \in 1 .. n : window[d] \in WindowDimensions
  OBVIOUS
<1>3. w = [d \in 1 .. n - 2 |-> z[d + 2]]
  <2>1. \A v \in WindowDimensions : v.dilation = 1 /\ v.base = 1 =>
           [Unit EXCEPT !.size = v.size, !.stride = v.stride,
                        !.low = v.low, !.high = v.high] = v
    <3> SUFFICES ASSUME NEW v \in WindowDimensions, v.dilation = 1, v.base = 1
                 PROVE  [Unit EXCEPT !.size = v.size, !.stride = v.stride,
                                     !.low = v.low, !.high = v.high] = v
      OBVIOUS
    <3>1. v = [size |-> v.size, stride |-> v.stride, low |-> v.low, high |-> v.high,
               dilation |-> 1, base |-> 1]
      BY DEF WindowDimensions
    <3>2. [Unit EXCEPT !.size = v.size, !.stride = v.stride,
                       !.low = v.low, !.high = v.high] =
             [size |-> v.size, stride |-> v.stride, low |-> v.low, high |-> v.high,
              dilation |-> 1, base |-> 1]
      <4> DEFINE e == [Unit EXCEPT !.size = v.size, !.stride = v.stride,
                                   !.low = v.low, !.high = v.high]
                 r == [size |-> v.size, stride |-> v.stride, low |-> v.low,
                       high |-> v.high, dilation |-> 1, base |-> 1]
                 F == {"size", "stride", "low", "high", "dilation", "base"}
      <4>1. DOMAIN e = F /\ e = [x \in DOMAIN e |-> e[x]]
        BY DEF Unit
      <4>2. DOMAIN r = F /\ r = [x \in F |-> r[x]]
        OBVIOUS
      <4>3. /\ e["size"] = v.size /\ e["stride"] = v.stride /\ e["low"] = v.low
            /\ e["high"] = v.high /\ e["dilation"] = 1 /\ e["base"] = 1
        BY DEF Unit
      <4>4. \A x \in F : e[x] = r[x]
        <5> HIDE DEF e
        <5> QED BY <4>3
      <4>5. e = r
        <5> HIDE DEF e, r, F
        <5> QED BY <4>1, <4>2, <4>4, SameFunction
      <4>6. QED BY <4>5
    <3>3. QED BY <3>1, <3>2
  <2>2. ASSUME NEW d \in 1 .. n - 2
        PROVE  LET v == window[FirstSpatial(nchw) + d - 1]
               IN  [Unit EXCEPT !.size = v.size, !.stride = v.stride,
                                !.low = v.low, !.high = v.high] = z[d + 2]
    <3> DEFINE e == FirstSpatial(nchw) + d - 1
    <3>1. e \in 1 .. n /\ z[d + 2] = window[e]
      BY <1>1
    <3> HIDE DEF e
    <3>2. window[e] \in WindowDimensions /\ window[e].dilation = 1 /\ window[e].base = 1
      BY <3>1, <1>2 DEF Undilated
    <3>3. LET v == window[e]
          IN  [Unit EXCEPT !.size = v.size, !.stride = v.stride,
                           !.low = v.low, !.high = v.high] = z[d + 2]
      BY <2>1, <3>1, <3>2
    <3>4. QED BY <3>3 DEF e
  <2>3. QED BY <2>2 DEF XlaWindowToNGraph
<1>4. w \in Seq(WindowDimensions) /\ Len(w) = n - 2 /\ \A d \in 1 .. n - 2 : w[d] = z[d + 2]
  <2> DEFINE v == [d \in 1 .. n - 2 |-> z[d + 2]]
  <2>1. n - 2 \in Nat /\ \A d \in 1 .. n - 2 : d + 2 \in 1 .. n
    BY <1>1
  <2>2. v \in [1 .. n - 2 -> WindowDimensions]
    BY <2>1, <1>1
  <2>3. v \in Seq(WindowDimensions) /\ Len(v) = n - 2 /\ \A d \in 1 .. n - 2 : v[d] = z[d + 2]
    <3>1. \A d \in 1 .. n - 2 : v[d] = z[d + 2]
      OBVIOUS
    <3> DEFINE k == n - 2
    <3>2. k \in Nat /\ v \in [1 .. k -> WindowDimensions]
      BY <2>1, <2>2
    <3> HIDE DEF k, v
    <3>3. v \in Seq(WindowDimensions) /\ Len(v) = k
      BY <3>2
    <3>4. QED BY <3>1, <3>3 DEF k
  <2>4. QED BY <1>3, <2>3
<1> HIDE DEF w
<1>5. u \in Seq(WindowDimensions) /\ Len(u) = 2 /\ u[1] = Unit /\ u[2] = Unit
  <2>1. Unit \in WindowDimensions
    BY DEF Unit, WindowDimensions
  <2>2. QED BY <2>1
<1> HIDE DEF u
<1>6. /\ u \o w \in Seq(WindowDimensions) /\ Len(u \o w) = n
      /\ \A d \in 1 .. n : (u \o w)[d] = IF d <= 2 THEN u[d] ELSE w[d - 2]
  <2>1. Len(u) + Len(w) = n
    BY <1>1, <1>4, <1>5
  <2> DEFINE S == WindowDimensions
  <2>2. u \in Seq(S) /\ w \in Seq(S)
    BY <1>4, <1>5
  <2> HIDE DEF S, n
  <2>3. /\ u \o w \in Seq(S) /\ Len(u \o w) = Len(u) + Len(w)
        /\ \A d \in 1 .. Len(u) + Len(w) :
              (u \o w)[d] = IF d <= Len(u) THEN u[d] ELSE w[d - Len(u)]
    BY <2>2, ConcatProperties
  <2>4. QED BY <2>1, <2>3, <1>5 DEF S
<1>7. ASSUME NEW d \in 1 .. n  PROVE (u \o w)[d] = z[d]
  <2>1. CASE d <= 2
    <3>1. d = 1 \/ d = 2
      BY <2>1
    <3>2. QED BY <3>1, <2>1, <1>1, <1>5, <1>6
  <2>2. CASE ~(d <= 2)
    <3>1. d - 2 \in 1 .. n - 2 /\ (d - 2) + 2 = d
      BY <2>2, <1>1
    <3>2. QED BY <3>1, <2>2, <1>4, <1>6
  <2>3. QED BY <2>1, <2>2
<1>8. Len(u \o w) = Len(z)
  BY <1>1, <1>6
<1>9. u \o w = z
  <2> HIDE DEF n
  <2>1. QED BY <1>1, <1>6, <1>7, <1>8, SeqEqual DEF n
<1>10. QED BY <1>9 DEF Spatial, w, u

\* In NCHW the window is nGraph's as it is.
LEMMA NchwWindow ==
    ASSUME NEW window \in Seq(WindowDimensions), Undilated(window),
           ReconstructDataFormatFromPoolingWindow(window) = "NCHW"
    PROVE  Spatial(XlaWindowToNGraph(window, TRUE)) = window
<1>1. /\ Len(window) \in Nat /\ ~(Len(window) < 3)
      /\ window[1] = Unit /\ window[2] = Unit
  BY LenProperties DEF ReconstructDataFormatFromPoolingWindow, DataFormat
<1>2. \A d \in 1 .. Len(window) - 2 :
         FirstSpatial(TRUE) + d - 1 = d + 2 /\ d + 2 \in 1 .. Len(window)
  BY <1>1 DEF FirstSpatial
<1>3. SpatialFirst(window, TRUE, window)
  <2> DEFINE n == Len(window)
  <2>1. n >= 3
    BY <1>1
  <2>2. \A d \in 1 .. n - 2 : /\ FirstSpatial(TRUE) + d - 1 \in 1 .. n
                             /\ window[d + 2] = window[FirstSpatial(TRUE) + d - 1]
    BY <1>2
  <2> HIDE DEF n
  <2>3. QED BY <1>1, <2>1, <2>2 DEF SpatialFirst, n
<1>4. QED BY <1>3, SpatialWindow

\* The dimensions that are kept up to d, of those that increase in dims.
KeptUpTo(dims, axes, f, d) ==
    IF d = 0 THEN <<>> ELSE IF d \in axes THEN f[d - 1] ELSE Append(f[d - 1], d)

\* Dimensions that increase are what is kept without all others.
LEMMA KeptIs ==
    ASSUME NEW n \in Nat, NEW dims \in Seq(1 .. n),
           \A k \in 2 .. Len(dims) : dims[k - 1] < dims[k]
    PROVE  Kept(n, (1 .. n) \ Range(dims)) = dims
<1> DEFINE axes == (1 .. n) \ Range(dims)
           m == Len(dims)
           kept == CHOOSE f : f = [d \in 0 .. n |-> KeptUpTo(dims, axes, f, d)]
           Split(d, k) == /\ \A e \in 1 .. k : dims[e] <= d
                          /\ \A e \in k + 1 .. m : dims[e] > d
           First(k) == [e \in 1 .. k |-> dims[e]]
<1>1. /\ m \in Nat /\ DOMAIN dims = 1 .. m
      /\ \A e \in 1 .. m : dims[e] \in 1 .. n
  OBVIOUS
<1>2. \A e, f \in 1 .. m : e < f => dims[e] < dims[f]
  <2>1. ASSUME NEW e \in 1 .. m  PROVE \A f \in 1 .. m : e < f => dims[e] < dims[f]
    <3> DEFINE N == {f \in 0 .. m : f \in 1 .. m /\ e < f => dims[e] < dims[f]}
    <3>1. 0 \in N
      BY <1>1
    <3>2. ASSUME NEW f \in 0 .. m - 1, f \in N  PROVE f + 1 \in N
      <4>1. SUFFICES ASSUME e < f + 1  PROVE dims[e] < dims[f + 1]
        BY <1>1
      <4>2. e = f \/ e < f
        BY <4>1, <1>1
      <4>3. f \in 1 .. m /\ f + 1 \in 2 .. m /\ (f + 1) - 1 = f
        BY <4>2, <1>1
      <4>4. dims[f] < dims[f + 1] /\ dims[e] \in Int /\ dims[f] \in Int
            /\ dims[f + 1] \in Int
        BY <4>3, <1>1
      <4>5. e < f => dims[e] < dims[f]
        BY <4>3, <3>2
      <4>6. QED BY <4>2, <4>4, <4>5
    <3> HIDE DEF N
    <3>3. 0 .. m \subseteq N
      BY <1>1, <3>1, <3>2, IntervalInduction
    <3>4. \A f \in 1 .. m : f \in 0 .. m
      BY <1>1
    <3>5. QED BY <3>3, <3>4 DEF N
  <2>2. QED BY <2>1
<1>3. \A d \in 0 .. n : \E k \in 0 .. m : Split(d, k)
  <2> DEFINE N == {d \in 0 .. n : \E k \in 0 .. m : Split(d, k)}
  <2>1. 0 \in N
    <3>1. Split(0, 0)
      BY <1>1
    <3>2. 0 \in 0 .. m /\ 0 \in 0 .. n
      BY <1>1
    <3>3. QED BY <3>1, <3>2
  <2>2. ASSUME NEW d \in 0 .. n - 1, d \in N  PROVE d + 1 \in N
    <3>1. PICK k \in 0 .. m : Split(d, k)
      BY <2>2
    <3>2. CASE k < m /\ dims[k + 1] = d + 1
      <4>1. k + 1 \in 0 .. m /\ k + 1 \in 1 .. m
        BY <3>2, <1>1
      <4>2. \A e \in 1 .. k + 1 : dims[e] <= d + 1
        BY <3>1, <3>2, <1>1, <4>1
      <4>3. \A e \in (k + 1) + 1 .. m : dims[e] > d + 1
        BY <1>2, <3>2, <1>1, <4>1
      <4>4. Split(d + 1, k + 1) /\ d + 1 \in 0 .. n
        BY <4>2, <4>3, <1>1
      <4> HIDE DEF Split
      <4>5. QED BY <4>1, <4>4
    <3>3. CASE ~(k < m /\ dims[k + 1] = d + 1)
      <4>1. \A e \in 1 .. k : dims[e] <= d + 1
        BY <3>1, <1>1
      <4>2. ASSUME NEW e \in k + 1 .. m  PROVE dims[e] > d + 1
        <5>1. k < m /\ k + 1 \in 1 .. m /\ e \in 1 .. m
          BY <1>1
        <5>2. dims[k + 1] > d /\ dims[k + 1] # d + 1 /\ dims[k + 1] \in Int
          BY <5>1, <3>1, <3>3, <1>1
        <5>3. e = k + 1 \/ dims[k + 1] < dims[e]
          BY <5>1, <1>2
        <5>4. dims[e] \in Int
          BY <5>1, <1>1
        <5>5. QED BY <5>2, <5>3, <5>4
      <4>3. Split(d + 1, k) /\ d + 1 \in 0 .. n
        BY <4>1, <4>2, <1>1
      <4> HIDE DEF Split
      <4>4. QED BY <4>3
    <3>4. QED BY <3>2, <3>3
  <2> HIDE DEF N
  <2>3. 0 .. n \subseteq N
    BY <2>1, <2>2, IntervalInduction
  <2>4. QED BY <2>3 DEF N
<1> DEFINE Many(d) == CHOOSE k \in 0 .. m : Split(d, k)
           g == [d \in 0 .. n |-> First(Many(d))]
<1>4. ASSUME NEW d \in 0 .. n
      PROVE  Many(d) \in 0 .. m /\ Split(d, Many(d))
  BY <1>3
<1>5. ASSUME NEW d \in 0 .. n, NEW k \in 0 .. m, Split(d, k)  PROVE k = Many(d)
  <2> DEFINE l == Many(d)
  <2>1. l \in 0 .. m /\ Split(d, l)
    BY <1>4
  <2> HIDE DEF l
  <2>2. ~(k < l)
    <3>1. SUFFICES ASSUME k < l PROVE FALSE
      OBVIOUS
    <3>2. l \in k + 1 .. m /\ l \in 1 .. l
      BY <3>1, <2>1, <1>1
    <3>3. dims[l] <= d /\ dims[l] > d /\ dims[l] \in Int
      BY <3>2, <2>1, <1>5, <1>1
    <3>4. QED BY <3>3
  <2>3. ~(l < k)
    <3>1. SUFFICES ASSUME l < k PROVE FALSE
      OBVIOUS
    <3>2. k \in l + 1 .. m /\ k \in 1 .. k
      BY <3>1, <2>1, <1>1
    <3>3. dims[k] <= d /\ dims[k] > d /\ dims[k] \in Int
      BY <3>2, <2>1, <1>5, <1>1
    <3>4. QED BY <3>3
  <2>4. k = l
    BY <2>1, <2>2, <2>3
  <2>5. QED BY <2>4 DEF l
<1> HIDE DEF Many
<1>6. First(0) = <<>>
  BY DEF First
<1>7. \A d \in 0 .. n : g[d] = KeptUpTo(dims, axes, g, d)
  <2>1. g[0] = <<>>
    <3>1. Split(0, 0) /\ 0 \in 0 .. m /\ 0 \in 0 .. n
      BY <1>1
    <3>2. Many(0) = 0
      BY <3>1, <1>5
    <3>3. QED BY <3>1, <3>2, <1>6
  <2>2. ASSUME NEW d \in 1 .. n  PROVE g[d] = KeptUpTo(dims, axes, g, d)
    <3> DEFINE k == Many(d - 1)
    <3>1. d - 1 \in 0 .. n /\ d \in 0 .. n /\ d # 0 /\ (d - 1) + 1 = d
      BY <1>1
    <3>2. k \in 0 .. m /\ Split(d - 1, k)
      BY <3>1, <1>4
    <3>3. g[d - 1] = First(k) /\ g[d] = First(Many(d))
      BY <3>1
    <3> HIDE DEF k, g, First
    <3>4. CASE d \in Range(dims)
      <4>1. PICK f \in 1 .. m : dims[f] = d
        BY <3>4, <1>1 DEF Range
      <4>2. f = k + 1
        <5>1. ~(f \in 1 .. k)
          BY <3>2, <4>1, <3>1
        <5>2. f > k
          BY <5>1, <3>2, <1>1
        <5>3. ~(f > k + 1)
          <6>1. SUFFICES ASSUME f > k + 1 PROVE FALSE
            OBVIOUS
          <6>2. k + 1 \in k + 1 .. m /\ k + 1 \in 1 .. m
            BY <6>1, <3>2, <1>1
          <6>3. dims[k + 1] > d - 1 /\ dims[k + 1] < dims[f] /\ dims[k + 1] \in Int
            BY <6>1, <6>2, <3>2, <1>1, <1>2
          <6>4. QED BY <6>3, <4>1
        <5>4. QED BY <5>2, <5>3, <3>2, <1>1
      <4>3. Split(d, k + 1)
        <5>1. \A e \in 1 .. k + 1 : dims[e] <= d
          BY <3>2, <4>1, <4>2, <1>1, <3>1
        <5>2. \A e \in (k + 1) + 1 .. m : dims[e] > d
          BY <1>2, <4>1, <4>2, <1>1, <3>2
        <5>3. QED BY <5>1, <5>2
      <4>4. k + 1 \in 0 .. m
        BY <4>2, <1>1
      <4>5. Many(d) = k + 1
        BY <4>3, <4>4, <3>1, <1>5
      <4>6. Append(First(k), d) = First(k + 1)
        <5> DEFINE S == Int
                   a == First(k)
                   t == First(k + 1)
                   z == d
        <5>1. a \in Seq(S) /\ Len(a) = k /\ \A e \in 1 .. k : a[e] = dims[e]
          <6>1. a \in [1 .. k -> Int]
            BY <1>1, <3>2 DEF First
          <6>2. QED BY <6>1, <3>2 DEF First
        <5>2. t \in Seq(S) /\ Len(t) = k + 1 /\ \A e \in 1 .. k + 1 : t[e] = dims[e]
          <6>1. t \in [1 .. k + 1 -> Int]
            BY <1>1, <4>4, <3>2 DEF First
          <6>2. QED BY <6>1, <3>2 DEF First
        <5>3. z \in S /\ dims[k + 1] = z
          BY <4>1, <4>2
        <5> HIDE DEF S, a, t, z
        <5> DEFINE u == Append(a, z)
        <5>4. /\ u \in Seq(S) /\ Len(u) = Len(a) + 1
              /\ \A e \in 1 .. Len(a) : u[e] = a[e]
              /\ u[Len(a) + 1] = z
          BY <5>1, <5>3, AppendProperties
        <5> HIDE DEF u
        <5>5. \A e \in 1 .. k + 1 : u[e] = t[e]
          <6>1. \A e \in 1 .. k + 1 : e \in 1 .. k \/ e = k + 1
            BY <3>2
          <6>2. u[k + 1] = dims[k + 1] /\ \A e \in 1 .. k : u[e] = dims[e]
            BY <5>1, <5>3, <5>4
          <6>3. \A e \in 1 .. k + 1 : u[e] = dims[e]
            BY <6>1, <6>2
          <6>4. QED BY <6>3, <5>2
        <5>6. u = t
          <6>1. Len(u) = Len(t) /\ \A e \in 1 .. Len(t) : u[e] = t[e]
            BY <5>1, <5>2, <5>4, <5>5
          <6>2. QED BY <6>1, <5>2, <5>4, SeqEqual
        <5>7. QED BY <5>6 DEF a, t, u, z
      <4>7. d \notin axes
        BY <3>4
      <4> HIDE DEF axes
      <4>8. QED BY <3>1, <3>3, <4>5, <4>6, <4>7 DEF KeptUpTo
    <3>5. CASE d \notin Range(dims)
      <4>1. \A e \in 1 .. m : dims[e] # d /\ dims[e] \in Int
        BY <3>5, <1>1 DEF Range
      <4>2. \A e \in 1 .. k : dims[e] <= d
        BY <3>2, <4>1, <1>1
      <4>3. \A e \in k + 1 .. m : dims[e] > d
        BY <3>2, <4>1, <1>1
      <4>4. Many(d) = k
        BY <4>2, <4>3, <3>1, <3>2, <1>5
      <4>5. d \in axes
        BY <3>5
      <4> HIDE DEF axes
      <4>6. QED BY <3>1, <3>3, <4>4, <4>5 DEF KeptUpTo
    <3>6. QED BY <3>4, <3>5
  <2>3. KeptUpTo(dims, axes, g, 0) = <<>>
    BY DEF KeptUpTo
  <2>4. \A d \in 0 .. n : d = 0 \/ d \in 1 .. n
    OBVIOUS
  <2> HIDE DEF g, axes
  <2>5. QED BY <2>1, <2>2, <2>3, <2>4
<1>8. g = [d \in 0 .. n |-> g[d]]
  OBVIOUS
<1> HIDE DEF g, axes
<1>9. kept = [d \in 0 .. n |-> KeptUpTo(dims, axes, kept, d)]
  <2>1. g = [d \in 0 .. n |-> KeptUpTo(dims, axes, g, d)]
    <3> DEFINE h == [d \in 0 .. n |-> KeptUpTo(dims, axes, g, d)]
    <3>1. h = [d \in 0 .. n |-> h[d]] /\ \A d \in 0 .. n : h[d] = g[d]
      BY <1>7
    <3> HIDE DEF h
    <3>2. g = h
      BY <3>1, <1>8, SameFunction
    <3>3. QED BY <3>2 DEF h
  <2>2. \E f : f = [d \in 0 .. n |-> KeptUpTo(dims, axes, f, d)]
    BY <2>1
  <2>3. QED BY <2>2
<1>10. Kept(n, axes) = kept[n]
  BY DEF Kept, KeptUpTo
<1> HIDE DEF kept
<1>11. \A d \in 0 .. n : kept[d] = KeptUpTo(dims, axes, kept, d)
  BY <1>9
<1>12. 0 .. n \subseteq {d \in 0 .. n : kept[d] = g[d]}
  <2> DEFINE N == {d \in 0 .. n : kept[d] = g[d]}
  <2>1. 0 \in N
    <3>1. 0 \in 0 .. n
      OBVIOUS
    <3>2. kept[0] = KeptUpTo(dims, axes, kept, 0) /\ g[0] = KeptUpTo(dims, axes, g, 0)
      BY <3>1, <1>7, <1>11
    <3>3. QED BY <3>1, <3>2 DEF KeptUpTo
  <2>2. ASSUME NEW d \in 0 .. n - 1, d \in N  PROVE d + 1 \in N
    <3>1. d + 1 \in 0 .. n /\ d + 1 # 0 /\ (d + 1) - 1 = d /\ kept[d] = g[d]
      BY <2>2
    <3>2. /\ kept[d + 1] = KeptUpTo(dims, axes, kept, d + 1)
          /\ g[d + 1] = KeptUpTo(dims, axes, g, d + 1)
      BY <3>1, <1>7, <1>11
    <3>3. KeptUpTo(dims, axes, kept, d + 1) = KeptUpTo(dims, axes, g, d + 1)
      BY <3>1 DEF KeptUpTo
    <3>4. QED BY <3>1, <3>2, <3>3
  <2> HIDE DEF N
  <2>3. 0 .. n \subseteq N
    BY <2>1, <2>2, IntervalInduction
  <2>4. QED BY <2>3 DEF N
<1>13. kept[n] = g[n]
  BY <1>12
<1>14. g[n] = dims
  <2>1. Split(n, m) /\ m \in 0 .. m /\ n \in 0 .. n
    BY <1>1
  <2>2. Many(n) = m
    BY <2>1, <1>5
  <2>3. g[n] = [e \in 1 .. m |-> dims[e]]
    BY <2>1, <2>2 DEF g
  <2>4. QED BY <2>3, <1>1
<1>15. QED BY <1>10, <1>13, <1>14 DEF axes

-----------------------------------------------------------------------------
\* Folds do not depend on the order in which the library takes the elements.
Folding == {"add", "maximum"}
LEMMA Foldings ==
    ASSUME NEW op \in Folding, NEW a \in Int, NEW b \in Int, NEW c \in Int
    PROVE  /\ Combined(op, a, b) \in Int
           /\ Combined(op, Combined(op, a, b), c) = Combined(op, Combined(op, a, c), b)
<1>1. CASE op = "add"
  BY <1>1 DEF Combined
<1>2. CASE op = "maximum"
  <2>1. \A p, q : Combined("maximum", p, q) = IF p >= q THEN p ELSE q
    BY DEF Combined
  <2>2. QED BY <1>2, <2>1
<1>3. QED BY <1>1, <1>2 DEF Folding

\* One step of a fold, which takes any element first.
Taken(op, init, x, f, s) ==
    IF s = {} THEN init
    ELSE LET i == CHOOSE i \in s : TRUE IN Combined(op, f[s \ {i}], x[i])

\* What a fold is of every set of elements, any of which may be taken last.
FoldsTo(op, init, x, S, f) ==
    /\ Fold(op, init, x, S) = f[S]
    /\ f[{}] = init
    /\ \A s \in SUBSET S : /\ f[s] \in Int
                          /\ \A i \in s : f[s] = Combined(op, f[s \ {i}], x[i])

LEMMA FoldIs ==
    ASSUME NEW op \in Folding, NEW init \in Int, NEW x, NEW S, IsFiniteSet(S),
           \A i \in S : x[i] \in Int
    PROVE  \E f : FoldsTo(op, init, x, S, f)
<1> DEFINE Body(f, s) == Taken(op, init, x, f, s)
           Small(n) == {s \in SUBSET S : Cardinality(s) <= n}
           Solves(f, n) == f = [s \in Small(n) |-> Body(f, s)]
           N == {n \in Nat : \E f : Solves(f, n)}
           card == Cardinality(S)
<1>1. /\ card \in Nat
      /\ \A s \in SUBSET S : IsFiniteSet(s) /\ Cardinality(s) \in Nat /\ Cardinality(s) <= card
      /\ \A s \in SUBSET S : \A i \in s : Cardinality(s \ {i}) = Cardinality(s) - 1
      /\ \A s \in SUBSET S : Cardinality(s) = 0 <=> s = {}
  <2>1. \A s \in SUBSET S : IsFiniteSet(s) /\ Cardinality(s) <= card
    BY FS_Subset
  <2>2. \A s \in SUBSET S : Cardinality(s) \in Nat
    BY <2>1, FS_CardinalityType
  <2>3. \A s \in SUBSET S : \A i \in s : Cardinality(s \ {i}) = Cardinality(s) - 1
    BY <2>1, FS_RemoveElement
  <2>4. \A s \in SUBSET S : Cardinality(s) = 0 <=> s = {}
    BY <2>1, FS_EmptySet
  <2>5. card \in Nat
    BY FS_CardinalityType
  <2>6. QED BY <2>1, <2>2, <2>3, <2>4, <2>5
<1> HIDE DEF card
<1> DEFINE Some(s) == CHOOSE i \in s : TRUE
<1>2. \A s \in SUBSET S : s # {} => Some(s) \in s
  OBVIOUS
<1>3. \A f, s : Body(f, s) = IF s = {} THEN init ELSE Combined(op, f[s \ {Some(s)}], x[Some(s)])
  BY DEF Taken
<1> HIDE DEF Some, Body
<1>4. Nat \subseteq N
  <2>1. 0 \in N
    <3> DEFINE f == [s \in Small(0) |-> init]
               R == [s \in Small(0) |-> Body(f, s)]
    <3>1. \A s \in Small(0) : s = {}
      BY <1>1
    <3>2. \A s \in Small(0) : R[s] = init /\ f[s] = init
      BY <1>3, <3>1
    <3>3. f = [s \in Small(0) |-> f[s]] /\ R = [s \in Small(0) |-> R[s]]
      OBVIOUS
    <3>4. f = R
      <4> HIDE DEF f, R, Small
      <4> QED BY <3>2, <3>3, SameFunction
    <3>5. Solves(f, 0)
      BY <3>4
    <3> HIDE DEF f, Solves
    <3>6. QED BY <3>5
  <2>2. ASSUME NEW n \in Nat, n \in N  PROVE n + 1 \in N
    <3>1. PICK f : Solves(f, n)
      <4> HIDE DEF Solves
      <4> QED BY <2>2
    <3>2. \A s \in Small(n) : f[s] = Body(f, s)
      BY <3>1
    <3> DEFINE g == [s \in Small(n + 1) |-> IF s \in Small(n) THEN f[s] ELSE Body(f, s)]
               R == [s \in Small(n + 1) |-> Body(g, s)]
    <3>3. \A s \in Small(n + 1) : g[s] = Body(f, s)
      BY <3>2
    <3>4. \A s \in Small(n) : g[s] = f[s]
      <4>1. \A s \in Small(n) : s \in Small(n + 1)
        BY <1>1
      <4>2. QED BY <4>1
    <3>5. ASSUME NEW s \in Small(n + 1), NEW i \in s  PROVE s \ {i} \in Small(n)
      <4>1. Cardinality(s \ {i}) = Cardinality(s) - 1 /\ Cardinality(s) \in Nat
        BY <1>1
      <4>2. QED BY <4>1
    <3>6. \A s \in Small(n + 1) : R[s] = Body(g, s)
      OBVIOUS
    <3>7. g = [s \in Small(n + 1) |-> g[s]] /\ R = [s \in Small(n + 1) |-> R[s]]
      OBVIOUS
    <3>8. \A s \in Small(n + 1) : s \in SUBSET S
      OBVIOUS
    <3> HIDE DEF g, R
    <3>9. ASSUME NEW s \in Small(n + 1)  PROVE Body(g, s) = Body(f, s)
      <4>1. CASE s = {}
        BY <1>3, <4>1
      <4>2. CASE s # {}
        <5>1. Some(s) \in s
          BY <1>2, <3>8, <4>2
        <5>2. s \ {Some(s)} \in Small(n)
          BY <3>5, <5>1
        <5> HIDE DEF Small
        <5>3. g[s \ {Some(s)}] = f[s \ {Some(s)}]
          BY <3>4, <5>2
        <5>4. QED BY <1>3, <5>3
      <4>3. QED BY <4>1, <4>2
    <3>10. g = R
      <4> HIDE DEF Small
      <4>1. \A s \in Small(n + 1) : g[s] = R[s]
        BY <3>3, <3>6, <3>9
      <4>2. QED BY <3>7, <4>1, SameFunction
    <3>11. Solves(g, n + 1)
      BY <3>10 DEF R
    <3>12. n + 1 \in Nat
      OBVIOUS
    <3> HIDE DEF Solves
    <3>13. QED BY <3>11, <3>12
  <2> HIDE DEF N
  <2>3. QED BY <2>1, <2>2, SetInduction
<1>5. Small(card) = SUBSET S
  BY <1>1
<1> DEFINE All(f) == f = [s \in SUBSET S |-> Body(f, s)]
           it == CHOOSE f : All(f)
<1>6. All(it)
  <2>1. \E f : Solves(f, card)
    <3> HIDE DEF Solves
    <3> QED BY <1>1, <1>4
  <2>2. PICK f : Solves(f, card)
    <3> HIDE DEF Solves
    <3> QED BY <2>1
  <2>3. All(f)
    BY <1>5, <2>2
  <2> HIDE DEF All
  <2>4. QED BY <2>3
<1>7. Fold(op, init, x, S) = it[S]
  BY DEF Fold, FoldSet, MapThenFoldSet, Body, Taken
<1> HIDE DEF it
<1>8. \A s \in SUBSET S : it[s] = Body(it, s)
  BY <1>6
<1> HIDE DEF All, Small, Solves, N
<1>9. it[{}] = init
  BY <1>3, <1>8
<1> DEFINE Free(s) == /\ it[s] \in Int
                      /\ \A i \in s : it[s] = Combined(op, it[s \ {i}], x[i])
           M == {n \in Nat : \A s \in SUBSET S : Cardinality(s) <= n => Free(s)}
<1>10. Nat \subseteq M
  <2>1. 0 \in M
    <3>1. \A s \in SUBSET S : Cardinality(s) <= 0 => s = {}
      BY <1>1
    <3>2. Free({})
      BY <1>9
    <3> HIDE DEF Free
    <3>3. QED BY <3>1, <3>2
  <2>2. ASSUME NEW n \in Nat, n \in M  PROVE n + 1 \in M
    <3> SUFFICES ASSUME NEW s \in SUBSET S, Cardinality(s) <= n + 1  PROVE Free(s)
      OBVIOUS
    <3>1. ASSUME NEW t \in SUBSET S, Cardinality(t) <= n  PROVE Free(t)
      <4> HIDE DEF Free
      <4> QED BY <2>2, <3>1
    <3>2. CASE s = {}
      BY <3>2, <1>9
    <3>3. CASE s # {}
      <4> DEFINE j == Some(s)
                 C(a, b) == Combined(op, a, b)
      <4>1. j \in s /\ it[s] = C(it[s \ {j}], x[j])
        BY <1>2, <1>3, <1>8, <3>3
      <4> HIDE DEF j
      <4>2. ASSUME NEW i \in s
            PROVE  s \ {i} \in SUBSET S /\ Cardinality(s \ {i}) <= n
        BY <1>1
      <4>3. \A i \in s : Free(s \ {i})
        <5> HIDE DEF Free
        <5> QED BY <3>1, <4>2
      <4>4. \A i \in s : it[s \ {i}] \in Int /\ x[i] \in Int
        BY <4>3
      <4>5. it[s] \in Int
        <5>1. it[s \ {j}] \in Int /\ x[j] \in Int
          BY <4>1, <4>4
        <5>2. QED BY <4>1, <5>1, Foldings
      <4>6. ASSUME NEW i \in s, i # j  PROVE it[s] = C(it[s \ {i}], x[i])
        <5> DEFINE u == (s \ {j}) \ {i}
        <5>1. u = (s \ {i}) \ {j} /\ i \in s \ {j} /\ j \in s \ {i}
          BY <4>1, <4>6
        <5>2. it[s \ {j}] = C(it[u], x[i])
          BY <4>1, <4>3, <5>1
        <5>3. it[s \ {i}] = C(it[u], x[j])
          BY <4>3, <5>1
        <5>4. it[u] \in Int
          <6>1. u \in SUBSET S /\ Cardinality(u) <= n
            <7>1. s \ {j} \in SUBSET S /\ Cardinality(s \ {j}) <= n
              BY <4>1, <4>2
            <7>2. Cardinality(u) = Cardinality(s \ {j}) - 1
              BY <1>1, <5>1, <7>1
            <7>3. Cardinality(s \ {j}) \in Nat
              BY <1>1, <7>1
            <7> HIDE DEF u
            <7>4. u \in SUBSET S
              BY DEF u
            <7>5. QED BY <7>1, <7>2, <7>3, <7>4
          <6> HIDE DEF u
          <6>2. QED BY <3>1, <6>1
        <5>5. x[i] \in Int /\ x[j] \in Int
          BY <4>1
        <5> HIDE DEF u, C
        <5>6. C(C(it[u], x[i]), x[j]) = C(C(it[u], x[j]), x[i])
          BY <5>4, <5>5, Foldings DEF C
        <5>7. QED BY <4>1, <5>2, <5>3, <5>6
      <4>7. QED BY <4>1, <4>5, <4>6
    <3>4. QED BY <3>2, <3>3
  <2> HIDE DEF M
  <2>3. QED BY <2>1, <2>2, SetInduction
<1>11. \A s \in SUBSET S : Free(s)
  <2> HIDE DEF Free
  <2>1. SUFFICES ASSUME NEW s \in SUBSET S  PROVE Free(s)
    OBVIOUS
  <2>2. card \in M
    BY <1>1, <1>10
  <2>3. QED BY <1>1, <2>2
<1>12. FoldsTo(op, init, x, S, it)
  BY <1>7, <1>9, <1>11 DEF FoldsTo
<1>13. QED BY <1>12

\* The fold of one set is that of another whose elements correspond.
LEMMA FoldAlong ==
    ASSUME NEW op \in Folding, NEW init \in Int, NEW S, IsFiniteSet(S),
           NEW T, IsFiniteSet(T), NEW x, \A i \in S : x[i] \in Int,
           NEW b \in Bijection(S, T), NEW y, \A i \in S : y[b[i]] = x[i]
    PROVE  Fold(op, init, x, S) = Fold(op, init, y, T)
<1>1. /\ DOMAIN b = S /\ \A i \in S : b[i] \in T
      /\ \A i, j \in S : b[i] = b[j] => i = j
      /\ \A j \in T : \E i \in S : b[i] = j
  BY DEF Bijection, Injection, Surjection, IsInjective
<1>2. \A j \in T : y[j] \in Int
  BY <1>1
<1>3. \E f, h : /\ FoldsTo(op, init, x, S, f)
                /\ FoldsTo(op, init, y, T, h)
  BY <1>2, FoldIs
<1>4. PICK f, h : /\ FoldsTo(op, init, x, S, f)
                  /\ FoldsTo(op, init, y, T, h)
  BY <1>3
<1> DEFINE Image(s) == {b[i] : i \in s}
           Alike(s) == f[s] = h[Image(s)]
           N == {n \in Nat : \A s \in SUBSET S : Cardinality(s) <= n => Alike(s)}
<1>5. \A s \in SUBSET S : IsFiniteSet(s) /\ Cardinality(s) \in Nat
  BY FS_Subset, FS_CardinalityType
<1>6. Alike({})
  BY <1>4 DEF FoldsTo
<1>7. Nat \subseteq N
  <2>1. 0 \in N
    <3>1. \A s \in SUBSET S : Cardinality(s) <= 0 => s = {}
      BY <1>5, FS_EmptySet
    <3> HIDE DEF Alike
    <3>2. QED BY <1>6, <3>1
  <2>2. ASSUME NEW n \in Nat, n \in N  PROVE n + 1 \in N
    <3> SUFFICES ASSUME NEW s \in SUBSET S, Cardinality(s) <= n + 1  PROVE Alike(s)
      OBVIOUS
    <3>1. ASSUME s # {}  PROVE Alike(s)
      <4>1. PICK i \in s : TRUE
        BY <3>1
      <4> DEFINE r == s \ {i}
      <4>2. Cardinality(r) <= n /\ r \in SUBSET S
        <5>1. Cardinality(r) = Cardinality(s) - 1
          BY <1>5, FS_RemoveElement
        <5>2. QED BY <5>1, <1>5
      <4>3. Alike(r)
        <5> HIDE DEF Alike, r
        <5> QED BY <2>2, <4>2
      <4>4. Image(s) \in SUBSET T /\ b[i] \in Image(s) /\ y[b[i]] = x[i]
        BY <1>1
      <4>5. Image(s) \ {b[i]} = Image(r)
        BY <1>1
      <4>6. f[s] = Combined(op, f[r], x[i])
        BY <1>4 DEF FoldsTo
      <4> HIDE DEF Image, r
      <4>7. h[Image(s)] = Combined(op, h[Image(r)], x[i])
        <5>1. \A t \in SUBSET T : \A j \in t : h[t] = Combined(op, h[t \ {j}], y[j])
          BY <1>4 DEF FoldsTo
        <5>2. h[Image(s)] = Combined(op, h[Image(s) \ {b[i]}], y[b[i]])
          BY <5>1, <4>4
        <5>3. QED BY <5>2, <4>4, <4>5
      <4>8. QED BY <4>3, <4>6, <4>7
    <3> HIDE DEF Alike
    <3>2. QED BY <1>6, <3>1
  <2> HIDE DEF N
  <2>3. QED BY <2>1, <2>2, SetInduction
<1>8. Alike(S)
  <2>1. Cardinality(S) \in Nat /\ Cardinality(S) <= Cardinality(S)
    BY FS_CardinalityType
  <2> HIDE DEF Alike
  <2>2. QED BY <1>7, <2>1
<1>9. Image(S) = T
  BY <1>1
<1>10. QED BY <1>4, <1>8, <1>9 DEF FoldsTo

-----------------------------------------------------------------------------
\* An index in the order p, and back.
PermutedTo(p, i) == [e \in DOMAIN p |-> i[p[e]]]
PermutedFrom(p, j) == [d \in DOMAIN p |-> j[CHOOSE e \in DOMAIN p : p[e] = d]]

\* The order p of the dimensions takes the indexes of shape s to those of shape t.
Permutes(s, p, t) ==
    /\ t \in Shapes /\ Len(t) = Len(s) /\ DOMAIN p = 1 .. Len(s)
    /\ \A i \in Index(s) : PermutedTo(p, i) \in Index(t)
    /\ \A j \in Index(t) :
          /\ PermutedFrom(p, j) \in Index(s)
          /\ PermutedTo(p, PermutedFrom(p, j)) = j
          /\ DOMAIN j = 1 .. Len(s)
          /\ \A i \in Index(s) :
                (\A e \in 1 .. Len(s) : j[e] = i[p[e]]) <=> i = PermutedFrom(p, j)
LEMMA PermutedIndexes ==
    ASSUME NEW s \in Shapes, NEW p \in Bijection(DOMAIN s, DOMAIN s),
           NEW t, t = [d \in DOMAIN s |-> s[p[d]]]
    PROVE  Permutes(s, p, t)
<1> DEFINE n == Len(s)
           Place(d) == CHOOSE e \in DOMAIN p : p[e] = d
           From(j) == [d \in DOMAIN p |-> j[Place(d)]]
           To(i) == [e \in DOMAIN p |-> i[p[e]]]
<1>1. n \in Nat /\ DOMAIN s = 1 .. n /\ \A d \in 1 .. n : s[d] \in Nat \ {0}
  BY DEF Shapes
<1>2. /\ DOMAIN p = 1 .. n /\ \A e \in 1 .. n : p[e] \in 1 .. n
      /\ \A d, e \in 1 .. n : p[d] = p[e] => d = e
      /\ \A d \in 1 .. n : \E e \in 1 .. n : p[e] = d
  BY <1>1 DEF Bijection, Injection, Surjection, IsInjective
<1>3. ASSUME NEW d \in 1 .. n
      PROVE  Place(d) \in 1 .. n /\ p[Place(d)] = d
  BY <1>2
<1>4. ASSUME NEW e \in 1 .. n  PROVE Place(p[e]) = e
  BY <1>2
<1> HIDE DEF Place
<1>5. t \in Shapes /\ Len(t) = n /\ DOMAIN t = 1 .. n /\ \A e \in 1 .. n : t[e] = s[p[e]]
  <2>1. t \in [1 .. n -> Nat \ {0}]
    BY <1>1, <1>2
  <2>2. QED BY <1>1, <2>1 DEF Shapes
<1>6. ASSUME NEW i \in Index(s)  PROVE To(i) \in Index(t)
  <2>1. \A d \in 1 .. n : i[d] \in Nat /\ i[d] < s[d]
    BY IndexFacts
  <2>2. /\ DOMAIN To(i) = 1 .. n /\ To(i) = [d \in DOMAIN To(i) |-> To(i)[d]]
        /\ \A d \in 1 .. n : To(i)[d] \in Nat /\ To(i)[d] < t[d]
    BY <1>2, <1>5, <2>1
  <2> HIDE DEF To, n
  <2>3. QED BY <1>5, <2>2, IndexMade
<1>7. ASSUME NEW j \in Index(t)
      PROVE  /\ From(j) \in Index(s)
             /\ To(From(j)) = j
             /\ DOMAIN j = 1 .. n
             /\ \A i \in Index(s) : (\A e \in 1 .. n : j[e] = i[p[e]]) <=> i = From(j)
  <2>1. /\ DOMAIN j = 1 .. n /\ j = [d \in 1 .. n |-> j[d]]
        /\ \A d \in 1 .. n : j[d] \in Nat /\ j[d] < t[d]
    <3> HIDE DEF n
    <3> QED BY <1>5, IndexFacts
  <2>2. /\ DOMAIN From(j) = 1 .. n /\ From(j) = [d \in DOMAIN From(j) |-> From(j)[d]]
        /\ \A d \in 1 .. n : From(j)[d] = j[Place(d)]
    BY <1>2
  <2>3. \A d \in 1 .. n : From(j)[d] \in Nat /\ From(j)[d] < s[d]
    BY <1>3, <1>5, <2>1, <2>2
  <2> HIDE DEF From
  <2>4. From(j) \in Index(s)
    <3> DEFINE f == From(j)
    <3>1. DOMAIN f = 1 .. Len(s) /\ f = [d \in DOMAIN f |-> f[d]]
          /\ \A d \in 1 .. Len(s) : f[d] \in Nat /\ f[d] < s[d]
      BY <2>2, <2>3
    <3> HIDE DEF f, n
    <3>2. f \in Index(s)
      BY <3>1, IndexMade
    <3>3. QED BY <3>2 DEF f
  <2>5. \A e \in 1 .. n : From(j)[p[e]] = j[e]
    BY <1>2, <1>4, <2>2
  <2>6. To(From(j)) = j
    <3>1. To(From(j)) = [e \in 1 .. n |-> From(j)[p[e]]]
      BY <1>2
    <3>2. QED BY <2>1, <2>5, <3>1
  <2>7. ASSUME NEW i \in Index(s), \A e \in 1 .. n : j[e] = i[p[e]]  PROVE i = From(j)
    <3>1. i = [d \in 1 .. n |-> i[d]]
      BY IndexFacts
    <3>2. \A d \in 1 .. n : i[d] = From(j)[d]
      BY <1>3, <2>2, <2>7
    <3> DEFINE f == From(j)
    <3>3. f = [d \in 1 .. n |-> f[d]]
      BY <2>2
    <3> HIDE DEF f, n
    <3>4. i = f
      BY <3>1, <3>2, <3>3, SameFunction DEF f
    <3>5. QED BY <3>4 DEF f
  <2>8. \A e \in 1 .. n : j[e] = From(j)[p[e]]
    BY <2>5
  <2>9. QED BY <2>1, <2>4, <2>6, <2>7, <2>8
<1>8. QED BY <1>2, <1>5, <1>6, <1>7 DEF n, To, From, Place, Permutes, PermutedTo, PermutedFrom

\* nGraph's Reshape with an order is XLA's transpose by it.
LEMMA TransposeOf ==
    ASSUME NEW s \in Shapes, NEW x, DOMAIN x = Index(s),
           NEW p \in Bijection(DOMAIN s, DOMAIN s)
    PROVE  Reshape(x, p) = Transpose([d \in DOMAIN s |-> s[p[d]]], x, p)
<1> DEFINE n == Len(s)
           t == [d \in DOMAIN s |-> s[p[d]]]
           To(i) == PermutedTo(p, i)
           From(j) == PermutedFrom(p, j)
<1>1. /\ DOMAIN p = 1 .. n
      /\ \A i \in Index(s) : To(i) \in Index(t)
      /\ \A j \in Index(t) :
            /\ From(j) \in Index(s) /\ To(From(j)) = j /\ DOMAIN j = 1 .. n
            /\ \A i \in Index(s) : (\A e \in 1 .. n : j[e] = i[p[e]]) <=> i = From(j)
  <2>1. t = [d \in DOMAIN s |-> s[p[d]]]
    OBVIOUS
  <2> HIDE DEF t
  <2>2. Permutes(s, p, t)
    BY <2>1, PermutedIndexes
  <2>3. QED BY <2>2 DEF Permutes
<1> DEFINE R == [j \in {To(i) : i \in DOMAIN x} |-> x[From(j)]]
           Pick(j) == CHOOSE i \in DOMAIN x : \A e \in DOMAIN j : j[e] = i[p[e]]
           T == [j \in Index(t) |-> x[Pick(j)]]
<1>8. Reshape(x, p) = R
  BY DEF Reshape, PermutedTo, PermutedFrom
<1>9. Transpose(t, x, p) = T
  BY DEF Transpose
<1>10. DOMAIN x = Index(s)
  OBVIOUS
<1> HIDE DEF t, To, From, n
<1>11. {To(i) : i \in DOMAIN x} = Index(t)
  <2>1. \A i \in DOMAIN x : To(i) \in Index(t)
    BY <1>1, <1>10
  <2>2. \A j \in Index(t) : From(j) \in DOMAIN x /\ To(From(j)) = j
    BY <1>1, <1>10
  <2>3. QED BY <2>1, <2>2
<1>12. R = [j \in Index(t) |-> R[j]] /\ \A j \in Index(t) : R[j] = x[From(j)]
  BY <1>11
<1>13. T = [j \in Index(t) |-> T[j]] /\ \A j \in Index(t) : T[j] = x[From(j)]
  <2>1. ASSUME NEW j \in Index(t)  PROVE Pick(j) = From(j)
    <3>1. From(j) \in DOMAIN x /\ DOMAIN j = 1 .. n
          /\ \A i \in DOMAIN x : (\A e \in 1 .. n : j[e] = i[p[e]]) <=> i = From(j)
      BY <1>1, <1>10
    <3>2. QED BY <3>1
  <2> HIDE DEF Pick
  <2>2. \A j \in Index(t) : T[j] = x[Pick(j)]
    OBVIOUS
  <2>3. T = [j \in Index(t) |-> T[j]]
    OBVIOUS
  <2>4. QED BY <2>1, <2>2, <2>3
<1> HIDE DEF R, T
<1>14. R = T
  BY <1>12, <1>13, SameFunction
<1>15. QED BY <1>8, <1>9, <1>14 DEF t

\* Without padding and dilation, a window is its sizes and strides.
LEMMA PlainWindow ==
    ASSUME NEW window \in Seq(WindowDimensions), ~HasPadding(window), Undilated(window)
    PROVE  SizesAndStrides(window) = window
<1>1. ASSUME NEW d \in DOMAIN window
      PROVE  [Unit EXCEPT !.size = window[d].size, !.stride = window[d].stride] = window[d]
  <2> DEFINE v == window[d]
             e == [Unit EXCEPT !.size = v.size, !.stride = v.stride]
             F == {"size", "stride", "low", "high", "dilation", "base"}
  <2>1. v \in WindowDimensions /\ v.low = 0 /\ v.high = 0 /\ v.dilation = 1 /\ v.base = 1
    BY DEF HasPadding, Undilated
  <2> HIDE DEF v
  <2>2. DOMAIN e = F /\ e = [x \in F |-> e[x]]
    BY DEF Unit
  <2>3. DOMAIN v = F /\ v = [x \in F |-> v[x]]
    BY <2>1 DEF WindowDimensions
  <2>4. /\ e["size"] = v.size /\ e["stride"] = v.stride /\ e["low"] = 0
        /\ e["high"] = 0 /\ e["dilation"] = 1 /\ e["base"] = 1
    BY DEF Unit
  <2>5. \A x \in F : e[x] = v[x]
    <3> HIDE DEF e
    <3> QED BY <2>1, <2>4
  <2>6. e = v
    <3> HIDE DEF e, F
    <3> QED BY <2>2, <2>3, <2>5, SameFunction
  <2>7. QED BY <2>6 DEF v
<1>2. window = [d \in DOMAIN window |-> window[d]]
  OBVIOUS
<1>3. SizesAndStrides(window) = [d \in DOMAIN window |->
         [Unit EXCEPT !.size = window[d].size, !.stride = window[d].stride]]
  BY DEF SizesAndStrides
<1>4. QED BY <1>1, <1>2, <1>3

\* ProcessReduceWindow has the positions that shape inference finds, of the windows that it
\* does not refuse.
LEMMA ReduceWindowOf ==
    ASSUME NEW s \in Shapes, NEW x \in [Index(s) -> Int], NEW init, NEW ins,
           ins.window \in Seq(WindowDimensions), Len(ins.window) = Len(s),
           ins.shape = [d \in DOMAIN s |-> WindowedSize(s[d], ins.window[d])]
    PROVE  ProcessReduceWindow(ins, x, init) \in
              {ReduceWindow(ins.shape, ins.apply.root, x, init, ins.window), Missing}
<1> DEFINE w == ins.window
           n == Len(s)
<1>1. CASE HasDilation(w) \/ HasPadding(w)
  BY <1>1 DEF ProcessReduceWindow
<1>2. CASE ~HasDilation(w) /\ ~HasPadding(w)
  <2>1. Undilated(w)
    BY <1>2 DEF HasDilation, Undilated
  <2>2. SizesAndStrides(w) = w
    BY <1>2, <2>1, PlainWindow
  <2>3. n \in Nat /\ DOMAIN s = 1 .. n /\ DOMAIN w = 1 .. n /\ \A d \in 1 .. n : s[d] \in Nat
    BY DEF Shapes
  <2>4. ShapeOf(x) = s
    BY TensorOf
  <2>5. ASSUME NEW d \in 1 .. n
        PROVE  (s[d] - w[d].size) \div w[d].stride + 1 = WindowedSize(s[d], w[d])
    <3>1. w[d] \in WindowDimensions /\ s[d] \in Nat
      BY <2>3
    <3>2. /\ w[d].dilation = 1 /\ w[d].base = 1 /\ w[d].low = 0 /\ w[d].high = 0
          /\ w[d].size \in Nat
      BY <2>1, <2>3, <3>1, <1>2 DEF Undilated, HasPadding, WindowDimensions
    <3>3. (s[d] - 1) * 1 + 1 + 0 + 0 - ((w[d].size - 1) * 1 + 1) = s[d] - w[d].size
      BY <3>1, <3>2
    <3>4. QED BY <3>2, <3>3 DEF WindowedSize
  <2>6. Positions(x, w) = [d \in 1 .. n |-> (s[d] - w[d].size) \div w[d].stride + 1]
    BY <2>3, <2>4 DEF Positions
  <2>7. ins.shape = [d \in 1 .. n |-> WindowedSize(s[d], w[d])]
    BY <2>3
  <2>8. Positions(x, w) = ins.shape
    BY <2>5, <2>6, <2>7
  <2>9. QED BY <1>2, <2>2, <2>8 DEF ProcessReduceWindow
<1>3. QED BY <1>1, <1>2

\* Of operands of different shapes the operations of nGraph's on one shape make nothing.
LEMMA SameShapeOf ==
    ASSUME NEW op, NEW x, NEW y
    PROVE  /\ DOMAIN x = DOMAIN y =>
                 SameShape(op, x, y) = [i \in DOMAIN x |-> Combined(op, x[i], y[i])]
           /\ DOMAIN x # DOMAIN y => SameShape(op, x, y) = Missing
BY DEF SameShape

\* XLA's Clamp, put together from the two operations, when they are given one shape.
LEMMA ClampOf ==
    ASSUME NEW S, S # {}, NEW low \in [S -> Int], NEW T, NEW x \in [T -> Int],
           NEW U, U # {}, NEW high \in [U -> Int]
    PROVE  ProcessClamp(low, x, high) \in {Clamp(low, x, high), Missing}
<1> DEFINE m == SameShape("maximum", x, low)
<1>1. ProcessClamp(low, x, high) = SameShape("minimum", m, high)
  BY DEF ProcessClamp
<1>2. DOMAIN low = S /\ DOMAIN x = T /\ DOMAIN high = U
  OBVIOUS
<1>3. CASE T # S
  <2>1. m = Missing
    BY <1>2, <1>3, SameShapeOf
  <2>2. DOMAIN m # DOMAIN high
    BY <1>2, <2>1 DEF Missing
  <2> HIDE DEF m
  <2>3. QED BY <1>1, <2>2, SameShapeOf
<1>4. CASE T = S
  <2>1. m = [i \in T |-> Combined("maximum", x[i], low[i])]
    BY <1>2, <1>4, SameShapeOf
  <2> HIDE DEF m
  <2>2. CASE U # T
    BY <1>1, <1>2, <2>1, <2>2, SameShapeOf
  <2>3. CASE U = T
    <3>1. SameShape("minimum", m, high) =
             [i \in T |-> Combined("minimum", m[i], high[i])]
      BY <1>2, <2>1, <2>3, SameShapeOf
    <3>2. Clamp(low, x, high) = [i \in T |-> Min({Max({x[i], low[i]}), high[i]})]
      BY <1>2 DEF Clamp
    <3>3. \A a, b \in Int : /\ Combined("maximum", a, b) = Max({a, b})
                            /\ Combined("minimum", a, b) = Min({a, b})
                            /\ Max({a, b}) \in Int
      <4> SUFFICES ASSUME NEW a \in Int, NEW b \in Int
                   PROVE  /\ Combined("maximum", a, b) = Max({a, b})
                          /\ Combined("minimum", a, b) = Min({a, b})
                          /\ Max({a, b}) \in Int
        OBVIOUS
      <4>1. Combined("maximum", a, b) = IF a >= b THEN a ELSE b
        BY DEF Combined
      <4>2. Combined("minimum", a, b) = IF a <= b THEN a ELSE b
        BY DEF Combined
      <4>3. Max({a, b}) = IF a >= b THEN a ELSE b
        BY DEF Max
      <4>4. Min({a, b}) = IF a <= b THEN a ELSE b
        BY DEF Min
      <4>5. QED BY <4>1, <4>2, <4>3, <4>4
    <3>4. ASSUME NEW i \in T
          PROVE  Combined("minimum", m[i], high[i]) = Min({Max({x[i], low[i]}), high[i]})
      <4>1. x[i] \in Int /\ low[i] \in Int /\ high[i] \in Int
        BY <1>4, <2>3
      <4>2. m[i] = Max({x[i], low[i]}) /\ Max({x[i], low[i]}) \in Int
        BY <2>1, <3>3, <4>1
      <4>3. QED BY <3>3, <4>1, <4>2
    <3>5. SameShape("minimum", m, high) = Clamp(low, x, high)
      BY <3>1, <3>2, <3>4
    <3>6. QED BY <1>1, <3>5
  <2>4. QED BY <2>2, <2>3
<1>5. QED BY <1>3, <1>4

\* A shape has finitely many indexes.
LEMMA IndexFinite ==
    ASSUME NEW s \in Shapes
    PROVE  IsFiniteSet(Index(s))
<1> DEFINE n == Len(s)
           N == {d \in Nat : d <= n => IsFiniteSet(Within(s, d))}
<1>1. s \in Seq(Nat) /\ n \in Nat /\ \A d \in 1 .. n : s[d] \in Nat
  BY DEF Shapes
<1>2. 0 \in N
  <2>1. IsFiniteSet({<<>>})
    BY FS_Singleton
  <2>2. QED BY <2>1, WithinNone
<1>3. ASSUME NEW d \in Nat, d \in N  PROVE d + 1 \in N
  <2> SUFFICES ASSUME d + 1 <= n  PROVE IsFiniteSet(Within(s, d + 1))
    OBVIOUS
  <2> DEFINE P == Within(s, d)
             K == 0 .. (s[d + 1] - 1)
             T == {Append(i, k) : i \in P, k \in K}
             f == [p \in P \X K |-> Append(p[1], p[2])]
  <2>1. d + 1 \in 1 .. n /\ (d + 1) - 1 = d
    BY <1>1
  <2>2. Within(s, d + 1) = T
    <3> DEFINE e == d + 1
    <3>1. e \in 1 .. Len(s) /\ e - 1 = d
      BY <2>1
    <3> HIDE DEF e
    <3>2. Within(s, e) = {Append(i, k) : i \in Within(s, e - 1), k \in 0 .. (s[e] - 1)}
      BY <1>1, <3>1, WithinNext
    <3>3. QED BY <3>1, <3>2 DEF e
  <2>3. IsFiniteSet(P)
    BY <1>3, <2>1
  <2>4. IsFiniteSet(K)
    <3> DEFINE top == s[d + 1] - 1
    <3>1. top \in Int /\ 0 \in Int
      BY <1>1, <2>1
    <3> HIDE DEF top
    <3>2. IsFiniteSet(0 .. top)
      BY <3>1, FS_Interval
    <3>3. QED BY <3>2 DEF top
  <2> HIDE DEF P, K
  <2>5. IsFiniteSet(P \X K)
    BY <2>3, <2>4, FS_Product
  <2>6. f \in Surjection(P \X K, T)
    <3>1. \A p \in P \X K : f[p] \in T
      OBVIOUS
    <3>2. \A t \in T : \E p \in P \X K : f[p] = t
      <4>1. ASSUME NEW t \in T  PROVE \E p \in P \X K : f[p] = t
        <5>1. PICK i \in P, k \in K : t = Append(i, k)
          OBVIOUS
        <5>2. <<i, k>> \in P \X K /\ f[<<i, k>>] = t
          BY <5>1
        <5>3. QED BY <5>2
      <4>2. QED BY <4>1
    <3>3. f \in [P \X K -> T]
      BY <3>1
    <3> HIDE DEF f, T
    <3>4. QED BY <3>2, <3>3 DEF Surjection
  <2> HIDE DEF f, T
  <2>7. QED BY <2>2, <2>5, <2>6, FS_Surjection
<1> HIDE DEF N
<1>4. Nat \subseteq N
  BY <1>2, <1>3, SetInduction
<1>5. IsFiniteSet(Within(s, n))
  BY <1>1, <1>4 DEF N
<1>6. QED BY <1>1, <1>5, IndexIs

\* What reshaping by the order p makes of x, of shape s: y, of shape t.
Moves(s, p, t, x, y) ==
    /\ Permutes(s, p, t)
    /\ DOMAIN y = Index(t) /\ y = [j \in Index(t) |-> y[j]]
    /\ \A i \in Index(s) : PermutedTo(p, i) \in Index(t) /\ y[PermutedTo(p, i)] = x[i]

LEMMA ReshapeOf ==
    ASSUME NEW s \in Shapes, NEW x, x = [i \in Index(s) |-> x[i]],
           NEW p \in Bijection(DOMAIN s, DOMAIN s),
           NEW t, t = [d \in DOMAIN s |-> s[p[d]]]
    PROVE  Moves(s, p, t, x, Reshape(x, p))
<1> DEFINE n == Len(s)
           Pick(j) == CHOOSE i \in DOMAIN x : \A e \in DOMAIN j : j[e] = i[p[e]]
           T == [j \in Index(t) |-> x[Pick(j)]]
<1>1. DOMAIN x = Index(s)
  OBVIOUS
<1>2. Permutes(s, p, t)
  BY PermutedIndexes
<1>3. /\ DOMAIN p = 1 .. n
      /\ \A i \in Index(s) : PermutedTo(p, i) \in Index(t)
      /\ \A j \in Index(t) :
            /\ DOMAIN j = 1 .. n
            /\ \A i \in Index(s) :
                  (\A e \in 1 .. n : j[e] = i[p[e]]) <=> i = PermutedFrom(p, j)
  BY <1>2 DEF Permutes
<1>4. Reshape(x, p) = T
  <2>1. Reshape(x, p) = Transpose(t, x, p)
    BY <1>1, TransposeOf
  <2>2. QED BY <2>1 DEF Transpose
<1>5. ASSUME NEW i \in Index(s)  PROVE T[PermutedTo(p, i)] = x[i]
  <2> DEFINE j == PermutedTo(p, i)
  <2>1. j \in Index(t) /\ \A e \in 1 .. n : j[e] = i[p[e]]
    BY <1>3 DEF PermutedTo
  <2> HIDE DEF j
  <2>2. i = PermutedFrom(p, j)
    BY <1>3, <2>1
  <2>3. DOMAIN j = 1 .. n /\ \A h \in DOMAIN x :
           (\A e \in DOMAIN j : j[e] = h[p[e]]) <=> h = i
    BY <1>1, <1>3, <2>1, <2>2
  <2>4. Pick(j) = i
    BY <1>1, <2>3
  <2> HIDE DEF Pick
  <2>5. T[j] = x[i]
    BY <2>1, <2>4
  <2>6. QED BY <2>5 DEF j
<1>6. DOMAIN T = Index(t) /\ T = [j \in Index(t) |-> T[j]]
  BY DEF T
<1> HIDE DEF T, Pick
<1>7. QED BY <1>2, <1>3, <1>4, <1>5, <1>6 DEF Moves

\* A shuffle is such a reshape, or nothing.
LEMMA ShuffleOf ==
    ASSUME NEW s \in Shapes, NEW x, x = [i \in Index(s) |-> x[i]],
           NEW p \in Bijection(DOMAIN s, DOMAIN s),
           NEW t, t = [d \in DOMAIN s |-> s[p[d]]]
    PROVE  Moves(s, p, t, x, MaybeAddAxesShuffle(x, p))
<1> DEFINE n == Len(s)
           natural == [d \in DOMAIN p |-> d]
<1>1. /\ n \in Nat /\ DOMAIN s = 1 .. n /\ s = [d \in 1 .. n |-> s[d]]
      /\ DOMAIN x = Index(s)
  BY DEF Shapes
<1>2. Permutes(s, p, t)
  BY PermutedIndexes
<1>3. DOMAIN p = 1 .. n
  BY <1>2 DEF Permutes
<1>4. CASE p = natural
  <2>1. \A d \in 1 .. n : p[d] = d
    BY <1>3, <1>4
  <2>2. t = s
    BY <1>1, <2>1
  <2>3. ASSUME NEW i \in Index(s)  PROVE PermutedTo(p, i) = i
    <3>1. i = [d \in 1 .. n |-> i[d]]
      BY IndexFacts
    <3>2. PermutedTo(p, i) = [d \in 1 .. n |-> i[p[d]]]
      BY <1>3 DEF PermutedTo
    <3>3. QED BY <2>1, <3>1, <3>2
  <2>4. MaybeAddAxesShuffle(x, p) = x
    BY <1>4 DEF MaybeAddAxesShuffle
  <2>5. QED BY <1>1, <1>2, <2>2, <2>3, <2>4 DEF Moves
<1>5. CASE p # natural
  <2>1. MaybeAddAxesShuffle(x, p) = Reshape(x, p)
    BY <1>5 DEF MaybeAddAxesShuffle
  <2>2. QED BY <2>1, ReshapeOf
<1>6. QED BY <1>4, <1>5

\* The sums of products over pairs that correspond are equal.
LEMMA ProductsAlong ==
    ASSUME NEW P, IsFiniteSet(P), NEW Q, IsFiniteSet(Q),
           NEW x, NEW y, \A p \in P : x[p[1]] \in Int /\ y[p[2]] \in Int,
           NEW b \in Bijection(P, Q),
           NEW v, NEW w, \A p \in P : v[b[p][1]] = x[p[1]] /\ w[b[p][2]] = y[p[2]]
    PROVE  Products(x, y, P) = Products(v, w, Q)
<1> DEFINE f == [p \in P |-> x[p[1]] * y[p[2]]]
           g == [q \in Q |-> v[q[1]] * w[q[2]]]
<1>1. \A p \in P : f[p] \in Int
  OBVIOUS
<1>2. \A p \in P : b[p] \in Q
  BY DEF Bijection, Injection
<1>3. \A p \in P : g[b[p]] = f[p]
  BY <1>2
<1>4. Products(x, y, P) = Fold("add", 0, f, P) /\ Products(v, w, Q) = Fold("add", 0, g, Q)
  BY DEF Products, Total
<1> HIDE DEF f, g
<1>5. "add" \in Folding /\ 0 \in Int
  BY DEF Folding
<1>6. Fold("add", 0, f, P) = Fold("add", 0, g, Q)
  <2> DEFINE op == "add"  zero == 0
  <2>1. op \in Folding /\ zero \in Int
    BY <1>5
  <2> HIDE DEF op, zero
  <2>2. Fold(op, zero, f, P) = Fold(op, zero, g, Q)
    BY <1>1, <1>3, <2>1, FoldAlong
  <2>3. QED BY <2>2 DEF op, zero
<1>7. QED BY <1>4, <1>6

\* The output's shuffle is the inverse of the input's.
LEMMA OutputShuffle ==
    ASSUME NEW dn, NEW r \in Nat,
           NEW A, A = GetConvolutionImagebatchShuffleVector(dn),
           A \in Bijection(1 .. r, 1 .. r), Len(A) = r
    PROVE  LET C == GetConvolutionOutputShuffleVector(dn)
           IN  C \in Bijection(1 .. r, 1 .. r) /\ \A d \in 1 .. r : A[C[d]] = d
<1> DEFINE C == GetConvolutionOutputShuffleVector(dn)
           At(d) == {e \in 1 .. Len(A) : A[e] = d}
           Place(d) == IF At(d) # {} THEN Min(At(d)) ELSE 0
<1>1. /\ DOMAIN A = 1 .. r /\ \A e \in 1 .. r : A[e] \in 1 .. r
      /\ \A d, e \in 1 .. r : A[d] = A[e] => d = e
      /\ \A d \in 1 .. r : \E e \in 1 .. r : A[e] = d
  BY DEF Bijection, Injection, Surjection, IsInjective
<1>2. C = [d \in 1 .. r |-> Place(d)]
  <2>1. A = <<dn.input_batch, dn.input_feature>> \o dn.input_spatial
    BY DEF GetConvolutionImagebatchShuffleVector
  <2>2. C = [d \in DOMAIN A |-> SelectInSeq(A, LAMBDA a : a = d)]
    BY <2>1 DEF GetConvolutionOutputShuffleVector
  <2>3. QED BY <1>1, <2>2 DEF SelectInSeq
<1>3. ASSUME NEW d \in 1 .. r  PROVE Place(d) \in 1 .. r /\ A[Place(d)] = d
  <2>1. At(d) \in SUBSET Nat /\ At(d) # {}
    <3>1. PICK e \in 1 .. r : A[e] = d
      BY <1>1
    <3>2. e \in At(d)
      BY <3>1
    <3>3. QED BY <3>2
  <2>2. Min(At(d)) \in At(d)
    <3> HIDE DEF At
    <3> QED BY <2>1, MinOfNumbers
  <2>3. QED BY <2>1, <2>2
<1> HIDE DEF Place, C
<1>4. /\ DOMAIN C = 1 .. r /\ \A d \in 1 .. r : C[d] \in 1 .. r /\ A[C[d]] = d
  BY <1>2, <1>3
<1>5. \A e \in 1 .. r : C[A[e]] = e
  BY <1>1, <1>4
<1>6. C \in [1 .. r -> 1 .. r] /\ IsInjective(C)
  <2>1. C = [d \in 1 .. r |-> C[d]]
    BY <1>2
  <2>2. C \in [1 .. r -> 1 .. r]
    BY <1>4, <2>1
  <2>3. \A d, e \in 1 .. r : C[d] = C[e] => d = e
    BY <1>4
  <2>4. QED BY <1>4, <2>2, <2>3 DEF IsInjective
<1>7. \A d \in 1 .. r : \E e \in 1 .. r : C[e] = d
  <2>1. ASSUME NEW d \in 1 .. r  PROVE A[d] \in 1 .. r /\ C[A[d]] = d
    BY <1>1, <1>5
  <2>2. QED BY <2>1
<1>8. C \in Bijection(1 .. r, 1 .. r)
  BY <1>6, <1>7 DEF Bijection, Injection, Surjection
<1>9. QED BY <1>4, <1>8 DEF C

\* Index by index, the pairs of elements that the two convolutions multiply are the same.
XlaTerms(dn, window, o, p) ==
    /\ p[1][dn.input_batch] = o[dn.output_batch]
    /\ p[2][dn.kernel_output_feature] = o[dn.output_feature]
    /\ p[2][dn.kernel_input_feature] = p[1][dn.input_feature]
    /\ \A d \in DOMAIN window :
          On(window[d], o[dn.output_spatial[d]],
             p[2][dn.kernel_spatial[d]], p[1][dn.input_spatial[d]])
NGraphTerms(window, o, p) ==
    /\ p[1][1] = o[1] /\ p[2][1] = o[2] /\ p[2][2] = p[1][2]
    /\ \A d \in DOMAIN window :
          On(window[d], o[d + 2], p[2][d + 2], p[1][d + 2])

\* The shuffles by their elements.
ShufflesOf(dn, A, B, n) ==
    /\ A[1] = dn.input_batch /\ A[2] = dn.input_feature
    /\ \A d \in 1 .. n : A[d + 2] = dn.input_spatial[d]
    /\ B[1] = dn.kernel_output_feature /\ B[2] = dn.kernel_input_feature
    /\ \A d \in 1 .. n : B[d + 2] = dn.kernel_spatial[d]
LEMMA ShuffleElements ==
    ASSUME NEW dn, NEW n \in Nat,
           Roles(dn.input_batch, dn.input_feature, dn.input_spatial, n + 2),
           Roles(dn.kernel_output_feature, dn.kernel_input_feature, dn.kernel_spatial,
                 n + 2)
    PROVE  LET A == GetConvolutionImagebatchShuffleVector(dn)
               B == GetConvolutionFiltersShuffleVector(dn)
           IN  /\ ShufflesOf(dn, A, B, n)
               /\ A \in Bijection(1 .. n + 2, 1 .. n + 2) /\ Len(A) = n + 2
               /\ B \in Bijection(1 .. n + 2, 1 .. n + 2) /\ Len(B) = n + 2
<1>1. ASSUME NEW a, NEW b, NEW s, Roles(a, b, s, n + 2)
      PROVE  LET v == <<a, b>> \o s
             IN  /\ v[1] = a /\ v[2] = b /\ \A d \in 1 .. n : v[d + 2] = s[d]
                 /\ v \in Bijection(1 .. n + 2, 1 .. n + 2) /\ Len(v) = n + 2
  <2> DEFINE v == <<a, b>> \o s
             u == <<a, b>>
  <2>1. v \in Bijection(1 .. n + 2, 1 .. n + 2) /\ s \in [1 .. (n + 2) - 2 -> 1 .. n + 2]
    BY <1>1 DEF Roles
  <2>3. s \in Seq(Nat) /\ Len(s) = n
    <3>1. (n + 2) - 2 = n
      OBVIOUS
    <3>2. s \in [1 .. n -> Nat]
      BY <2>1, <3>1
    <3>3. QED BY <3>2
  <2>4. u \in Seq({a, b} \cup Nat) /\ Len(u) = 2 /\ u[1] = a /\ u[2] = b
    OBVIOUS
  <2>5. s \in Seq({a, b} \cup Nat)
    BY <2>3
  <2> DEFINE S == {a, b} \cup Nat
  <2> HIDE DEF u, S
  <2>6. /\ Len(u \o s) = 2 + n
        /\ \A d \in 1 .. 2 + n : (u \o s)[d] = IF d <= 2 THEN u[d] ELSE s[d - 2]
    <3>1. u \in Seq(S) /\ s \in Seq(S)
      BY <2>4, <2>5 DEF S
    <3>2. /\ Len(u \o s) = Len(u) + Len(s)
          /\ \A d \in 1 .. Len(u) + Len(s) :
                (u \o s)[d] = IF d <= Len(u) THEN u[d] ELSE s[d - Len(u)]
      BY <3>1, ConcatProperties
    <3>3. Len(u) = 2 /\ Len(s) = n
      BY <2>3, <2>4
    <3>4. QED BY <3>2, <3>3
  <2> DEFINE w == u \o s
  <2> HIDE DEF w
  <2>7. /\ Len(w) = 2 + n
        /\ \A d \in 1 .. 2 + n : w[d] = IF d <= 2 THEN u[d] ELSE s[d - 2]
    BY <2>6 DEF w
  <2>8. w[1] = a /\ w[2] = b
    BY <2>4, <2>7
  <2>9. ASSUME NEW d \in 1 .. n  PROVE w[d + 2] = s[d]
    <3>1. d + 2 \in 1 .. 2 + n /\ ~(d + 2 <= 2) /\ (d + 2) - 2 = d
      OBVIOUS
    <3>2. QED BY <2>7, <3>1
  <2>10. w = v
    BY DEF w, u
  <2>11. Len(w) = n + 2
    BY <2>7
  <2> HIDE DEF v
  <2>12. QED BY <2>1, <2>8, <2>9, <2>10, <2>11 DEF v
<1>2. QED BY <1>1 DEF ShufflesOf, GetConvolutionImagebatchShuffleVector,
                      GetConvolutionFiltersShuffleVector

\* A pair that XLA multiplies for o is one that nGraph multiplies for the shuffled o ...
LEMMA TermsShuffled ==
    ASSUME NEW dn, OutputAsInput(dn), NEW n \in Nat, NEW A, NEW B,
           DOMAIN A = 1 .. n + 2, DOMAIN B = 1 .. n + 2, ShufflesOf(dn, A, B, n),
           NEW window, DOMAIN window = 1 .. n, NEW o, NEW i, NEW k
    PROVE  XlaTerms(dn, window, o, <<i, k>>)
             <=> NGraphTerms(window, PermutedTo(A, o),
                             <<PermutedTo(A, i), PermutedTo(B, k)>>)
<1> DEFINE a == PermutedTo(A, i)
           b == PermutedTo(B, k)
           c == PermutedTo(A, o)
<1>1. \A e \in 1 .. n + 2 : a[e] = i[A[e]] /\ b[e] = k[B[e]] /\ c[e] = o[A[e]]
  BY DEF PermutedTo
<1>2. 1 \in 1 .. n + 2 /\ 2 \in 1 .. n + 2 /\ \A d \in 1 .. n : d + 2 \in 1 .. n + 2
  OBVIOUS
<1> HIDE DEF a, b, c
<1>3. /\ a[1] = i[dn.input_batch] /\ a[2] = i[dn.input_feature]
      /\ b[1] = k[dn.kernel_output_feature] /\ b[2] = k[dn.kernel_input_feature]
      /\ c[1] = o[dn.output_batch] /\ c[2] = o[dn.output_feature]
  BY <1>1, <1>2 DEF ShufflesOf, OutputAsInput
<1>4. \A d \in 1 .. n : /\ a[d + 2] = i[dn.input_spatial[d]]
                        /\ b[d + 2] = k[dn.kernel_spatial[d]]
                        /\ c[d + 2] = o[dn.output_spatial[d]]
  BY <1>1, <1>2 DEF ShufflesOf, OutputAsInput
<1>5. XlaTerms(dn, window, o, <<i, k>>) <=>
         /\ i[dn.input_batch] = o[dn.output_batch]
         /\ k[dn.kernel_output_feature] = o[dn.output_feature]
         /\ k[dn.kernel_input_feature] = i[dn.input_feature]
         /\ \A d \in 1 .. n : On(window[d], o[dn.output_spatial[d]],
                                  k[dn.kernel_spatial[d]], i[dn.input_spatial[d]])
  BY DEF XlaTerms
<1>6. NGraphTerms(window, c, <<a, b>>) <=>
         /\ a[1] = c[1] /\ b[1] = c[2] /\ b[2] = a[2]
         /\ \A d \in 1 .. n : On(window[d], c[d + 2], b[d + 2], a[d + 2])
  BY DEF NGraphTerms
<1>7. (\A d \in 1 .. n : On(window[d], o[dn.output_spatial[d]],
                            k[dn.kernel_spatial[d]], i[dn.input_spatial[d]]))
         <=> \A d \in 1 .. n : On(window[d], c[d + 2], b[d + 2], a[d + 2])
  BY <1>4
<1>8. XlaTerms(dn, window, o, <<i, k>>) <=> NGraphTerms(window, c, <<a, b>>)
  BY <1>3, <1>5, <1>6, <1>7
<1>9. QED BY <1>8 DEF a, b, c

\* ... so that the pairs correspond.
XlaPairs(dn, window, o, s1, s2) ==
    {p \in Index(s1) \X Index(s2) : XlaTerms(dn, window, o, p)}
NGraphPairs(window, o, t1, t2) ==
    {q \in Index(t1) \X Index(t2) : NGraphTerms(window, o, q)}
PairTo(A, B, P) == [p \in P |-> <<PermutedTo(A, p[1]), PermutedTo(B, p[2])>>]
LEMMA PairsShuffled ==
    ASSUME NEW dn, OutputAsInput(dn), NEW n \in Nat, NEW A, NEW B, ShufflesOf(dn, A, B, n),
           NEW window, DOMAIN window = 1 .. n, NEW o,
           NEW s1 \in Shapes, Len(s1) = n + 2, NEW t1, Permutes(s1, A, t1),
           NEW s2 \in Shapes, Len(s2) = n + 2, NEW t2, Permutes(s2, B, t2)
    PROVE  PairTo(A, B, XlaPairs(dn, window, o, s1, s2))
              \in Bijection(XlaPairs(dn, window, o, s1, s2),
                            NGraphPairs(window, PermutedTo(A, o), t1, t2))
<1> DEFINE P == {p \in Index(s1) \X Index(s2) : XlaTerms(dn, window, o, p)}
           Q == {q \in Index(t1) \X Index(t2) : NGraphTerms(window, PermutedTo(A, o), q)}
           b == [p \in P |-> <<PermutedTo(A, p[1]), PermutedTo(B, p[2])>>]
<1>1. /\ DOMAIN A = 1 .. n + 2 /\ DOMAIN B = 1 .. n + 2
      /\ \A i \in Index(s1) : PermutedTo(A, i) \in Index(t1)
      /\ \A j \in Index(t1) : /\ PermutedFrom(A, j) \in Index(s1)
                              /\ PermutedTo(A, PermutedFrom(A, j)) = j
      /\ \A i \in Index(s2) : PermutedTo(B, i) \in Index(t2)
      /\ \A j \in Index(t2) : /\ PermutedFrom(B, j) \in Index(s2)
                              /\ PermutedTo(B, PermutedFrom(B, j)) = j
  BY DEF Permutes
<1>2. \A i \in Index(s1) : PermutedFrom(A, PermutedTo(A, i)) = i
  <2>1. ASSUME NEW i \in Index(s1)  PROVE PermutedFrom(A, PermutedTo(A, i)) = i
    <3> DEFINE j == PermutedTo(A, i)
    <3>1. j \in Index(t1) /\ \A e \in 1 .. n + 2 : j[e] = i[A[e]]
      BY <1>1 DEF PermutedTo
    <3> HIDE DEF j
    <3>2. i = PermutedFrom(A, j)
      BY <3>1 DEF Permutes
    <3>3. QED BY <3>2 DEF j
  <2>2. QED BY <2>1
<1>3. \A i \in Index(s2) : PermutedFrom(B, PermutedTo(B, i)) = i
  <2>1. ASSUME NEW i \in Index(s2)  PROVE PermutedFrom(B, PermutedTo(B, i)) = i
    <3> DEFINE j == PermutedTo(B, i)
    <3>1. j \in Index(t2) /\ \A e \in 1 .. n + 2 : j[e] = i[B[e]]
      BY <1>1 DEF PermutedTo
    <3> HIDE DEF j
    <3>2. i = PermutedFrom(B, j)
      BY <3>1 DEF Permutes
    <3>3. QED BY <3>2 DEF j
  <2>2. QED BY <2>1
<1>4. \A i, k : XlaTerms(dn, window, o, <<i, k>>)
          <=> NGraphTerms(window, PermutedTo(A, o), <<PermutedTo(A, i), PermutedTo(B, k)>>)
  BY <1>1, TermsShuffled
<1>5. \A p \in P : p = <<p[1], p[2]>> /\ p[1] \in Index(s1) /\ p[2] \in Index(s2)
  OBVIOUS
<1>6. \A p \in P : b[p] = <<PermutedTo(A, p[1]), PermutedTo(B, p[2])>>
  OBVIOUS
<1>7. \A p \in P : b[p] \in Q
  <2>1. ASSUME NEW p \in P  PROVE b[p] \in Q
    <3>1. XlaTerms(dn, window, o, <<p[1], p[2]>>)
      BY <1>5
    <3>2. NGraphTerms(window, PermutedTo(A, o), b[p])
      BY <1>4, <1>6, <3>1
    <3>3. b[p] \in Index(t1) \X Index(t2)
      BY <1>1, <1>5, <1>6
    <3> HIDE DEF P, b
    <3>4. QED BY <3>2, <3>3
  <2>2. QED BY <2>1
<1>8. \A p, q \in P : b[p] = b[q] => p = q
  <2>1. ASSUME NEW p \in P, NEW q \in P, b[p] = b[q]  PROVE p = q
    <3> HIDE DEF P, b
    <3>1. PermutedTo(A, p[1]) = PermutedTo(A, q[1]) /\ PermutedTo(B, p[2]) = PermutedTo(B, q[2])
      BY <1>6, <2>1
    <3>2. p[1] = q[1] /\ p[2] = q[2]
      BY <1>2, <1>3, <1>5, <3>1
    <3>3. QED BY <1>5, <3>2
  <2>2. QED BY <2>1
<1>9. \A q \in Q : \E p \in P : b[p] = q
  <2>1. ASSUME NEW q \in Q  PROVE \E p \in P : b[p] = q
    <3> DEFINE i == PermutedFrom(A, q[1])
               k == PermutedFrom(B, q[2])
    <3>1. q = <<q[1], q[2]>> /\ q[1] \in Index(t1) /\ q[2] \in Index(t2)
      OBVIOUS
    <3>2. /\ i \in Index(s1) /\ PermutedTo(A, i) = q[1]
          /\ k \in Index(s2) /\ PermutedTo(B, k) = q[2]
      BY <1>1, <3>1
    <3>3. NGraphTerms(window, PermutedTo(A, o), q)
      OBVIOUS
    <3> HIDE DEF i, k
    <3>4. XlaTerms(dn, window, o, <<i, k>>)
      BY <1>4, <3>1, <3>2, <3>3
    <3>5. <<i, k>> \in P
      BY <3>2, <3>4
    <3>6. b[<<i, k>>] = q
      BY <1>6, <3>1, <3>2, <3>5
    <3>7. QED BY <3>5, <3>6
  <2>2. QED BY <2>1
<1>10. b = [p \in P |-> b[p]]
  OBVIOUS
<1> HIDE DEF P, Q, b
<1>11. b \in [P -> Q]
  BY <1>7, <1>10
<1>12. IsInjective(b)
  BY <1>8, <1>11 DEF IsInjective
<1>13. b \in Bijection(P, Q)
  BY <1>9, <1>11, <1>12 DEF Bijection, Injection, Surjection
<1>14. QED BY <1>13 DEF P, Q, b, XlaPairs, NGraphPairs, PairTo

\* What shape inference says of a convolution of an image of shape s1 by a filter of
\* shape s2.
ConvolutionShaped(s, s1, s2, window, dn, n) ==
    /\ Len(s) = n + 2 /\ Len(s1) = n + 2 /\ Len(s2) = n + 2
    /\ Roles(dn.input_batch, dn.input_feature, dn.input_spatial, n + 2)
    /\ Roles(dn.kernel_output_feature, dn.kernel_input_feature, dn.kernel_spatial, n + 2)
    /\ s[dn.output_batch] = s1[dn.input_batch]
    /\ s[dn.output_feature] = s2[dn.kernel_output_feature]
    /\ \A d \in 1 .. n :
          /\ window[d].size = s2[dn.kernel_spatial[d]]
          /\ s[dn.output_spatial[d]] =
                WindowedSize(s1[dn.input_spatial[d]], window[d])

\* The sizes of the dimensions, shuffled.
ShapesShuffled(s, s1, s2, n, A, B, t, t1, t2) ==
    /\ t = [d \in DOMAIN s |-> s[A[d]]]
    /\ t1 = [d \in DOMAIN s1 |-> s1[A[d]]]
    /\ t2 = [d \in DOMAIN s2 |-> s2[B[d]]]
    /\ \A e \in 1 .. n + 2 : A[e] \in 1 .. n + 2 /\ B[e] \in 1 .. n + 2

LEMMA SizesOf ==
    ASSUME NEW s \in Shapes
    PROVE  DOMAIN s = 1 .. Len(s) /\ \A d \in 1 .. Len(s) : s[d] \in Nat \ {0}
BY DEF Shapes

\* nGraph's convolution into shape t.
ConvolvedInto(X, F, window, t) ==
    [o \in Index(t) |->
       Products(X, F, {p \in (DOMAIN X) \X (DOMAIN F) : NGraphTerms(window, o, p)})]

\* The result of nGraph's convolution of the shuffled operands has the shuffled shape.
LEMMA ConvolvedShape ==
    ASSUME NEW n \in Nat, NEW s \in Shapes, NEW s1 \in Shapes, NEW s2 \in Shapes,
           NEW window \in Seq(WindowDimensions), Len(window) = n,
           NEW dn, OutputAsInput(dn), ConvolutionShaped(s, s1, s2, window, dn, n),
           NEW A, NEW B, ShufflesOf(dn, A, B, n),
           NEW t, NEW tA, NEW tB, ShapesShuffled(s, s1, s2, n, A, B, t, tA, tB),
           NEW X, ShapeOf(X) = tA, NEW F, ShapeOf(F) = tB
    PROVE  NGraphConvolution(X, F, window) = ConvolvedInto(X, F, window, t)
<1> DEFINE out(d) ==
                LET v == window[d]
                    image == (ShapeOf(X)[d + 2] - 1) * v.base + 1 + v.low + v.high
                    kernel == (ShapeOf(F)[d + 2] - 1) * v.dilation + 1
                IN  (image - kernel) \div v.stride + 1
           u == <<ShapeOf(X)[1], ShapeOf(F)[1]>>
           w == [d \in DOMAIN window |-> out(d)]
<1>1. NGraphConvolution(X, F, window) =
         [o \in Index(u \o w) |->
            Products(X, F, {p \in (DOMAIN X) \X (DOMAIN F) : NGraphTerms(window, o, p)})]
  <2> DEFINE Terms(o) == {p \in (DOMAIN X) \X (DOMAIN F) :
                LET i == p[1]  k == p[2]
                IN  /\ i[1] = o[1] /\ k[1] = o[2] /\ k[2] = i[2]
                    /\ \A d \in DOMAIN window :
                          On(window[d], o[d + 2], k[d + 2], i[d + 2])}
  <2>1. NGraphConvolution(X, F, window) = [o \in Index(u \o w) |-> Products(X, F, Terms(o))]
    BY DEF NGraphConvolution
  <2>3. \A o : Terms(o) = {p \in (DOMAIN X) \X (DOMAIN F) : NGraphTerms(window, o, p)}
    BY DEF NGraphTerms
  <2> HIDE DEF Terms, u, w
  <2>4. QED BY <2>1, <2>3
<1>2. /\ DOMAIN s = 1 .. n + 2 /\ DOMAIN s1 = 1 .. n + 2 /\ DOMAIN s2 = 1 .. n + 2
      /\ DOMAIN window = 1 .. n
  BY DEF Shapes, ConvolutionShaped
<1>3. 1 \in 1 .. n + 2 /\ 2 \in 1 .. n + 2 /\ \A d \in 1 .. n : d + 2 \in 1 .. n + 2
  OBVIOUS
<1>4. \A e \in 1 .. n + 2 : tA[e] = s1[A[e]] /\ tB[e] = s2[B[e]] /\ t[e] = s[A[e]]
  BY <1>2 DEF ShapesShuffled
<1>41. u = <<u[1], u[2]>> /\ u[1] = tA[1] /\ u[2] = tB[1]
  OBVIOUS
<1>42. w = [d \in 1 .. n |-> w[d]] /\ \A d \in 1 .. n :
          w[d] = ((tA[d + 2] - 1) * window[d].base + 1 + window[d].low + window[d].high
                    - ((tB[d + 2] - 1) * window[d].dilation + 1))
                   \div window[d].stride + 1
  <2>1. \A d \in 1 .. n : /\ window[d] \in WindowDimensions
                         /\ tA[d + 2] \in Int /\ tB[d + 2] \in Int
    <3>1. \A e \in 1 .. n + 2 : s1[e] \in Nat \ {0} /\ s2[e] \in Nat \ {0}
      BY <1>2, SizesOf DEF ConvolutionShaped
    <3>2. \A e \in 1 .. n + 2 : tA[e] \in Int /\ tB[e] \in Int
      <4>1. ASSUME NEW e \in 1 .. n + 2  PROVE tA[e] \in Int /\ tB[e] \in Int
        <5>1. A[e] \in 1 .. n + 2 /\ B[e] \in 1 .. n + 2
          BY DEF ShapesShuffled
        <5>2. tA[e] = s1[A[e]] /\ tB[e] = s2[B[e]]
          BY <1>4
        <5>3. QED BY <3>1, <5>1, <5>2
      <4>2. QED BY <4>1
    <3>3. QED BY <1>2, <1>3, <3>2
  <2>2. ASSUME NEW d \in 1 .. n
        PROVE  out(d) = ((tA[d + 2] - 1) * window[d].base + 1
                          + window[d].low + window[d].high
                          - ((tB[d + 2] - 1) * window[d].dilation + 1))
                             \div window[d].stride + 1
    <3> DEFINE v == window[d]
               a == tA[d + 2]
               b == tB[d + 2]
    <3>1. out(d) = (((a - 1) * v.base + 1 + v.low + v.high) - ((b - 1) * v.dilation + 1))
                       \div v.stride + 1
      OBVIOUS
    <3>2. a \in Int /\ b \in Int /\ v \in WindowDimensions
      BY <2>1
    <3> HIDE DEF a, b, v
    <3>7. v.base \in Int /\ v.low \in Int /\ v.high \in Int /\ v.dilation \in Int
      BY <3>2 DEF WindowDimensions
    <3>3. \A k, l, low, high \in Int : (k + 1 + low + high) - l = k + 1 + low + high - l
      OBVIOUS
    <3> DEFINE k == (a - 1) * v.base
               l == (b - 1) * v.dilation + 1
    <3>4. k \in Int /\ l \in Int
      BY <3>2, <3>7
    <3> HIDE DEF k, l
    <3>5. (k + 1 + v.low + v.high) - l = k + 1 + v.low + v.high - l
      BY <3>7, <3>3, <3>4
    <3>6. QED BY <3>1, <3>5 DEF a, b, v, k, l
  <2> HIDE DEF out
  <2>3. QED BY <1>2, <2>2
<1>43. t = [e \in 1 .. n + 2 |-> t[e]]
  BY <1>2 DEF ShapesShuffled
<1> HIDE DEF u, w, out
<1>44. /\ tA[1] = s1[A[1]] /\ tB[1] = s2[B[1]] /\ t[1] = s[A[1]] /\ t[2] = s[A[2]]
       /\ \A d \in 1 .. n : /\ tA[d + 2] = s1[A[d + 2]] /\ tB[d + 2] = s2[B[d + 2]]
                            /\ t[d + 2] = s[A[d + 2]]
  BY <1>3, <1>4
<1>45. /\ A[1] = dn.input_batch /\ A[2] = dn.input_feature
       /\ A[1] = dn.output_batch /\ A[2] = dn.output_feature
       /\ B[1] = dn.kernel_output_feature
       /\ \A d \in 1 .. n : /\ A[d + 2] = dn.input_spatial[d]
                            /\ A[d + 2] = dn.output_spatial[d]
                            /\ B[d + 2] = dn.kernel_spatial[d]
  BY DEF ShufflesOf, OutputAsInput
<1>46. /\ s[A[1]] = s1[A[1]] /\ s[A[2]] = s2[B[1]]
       /\ \A d \in 1 .. n : /\ window[d].size = s2[B[d + 2]]
                            /\ s[A[d + 2]] = WindowedSize(s1[A[d + 2]], window[d])
  BY <1>45 DEF ConvolutionShaped
<1>5. u[1] = t[1] /\ u[2] = t[2]
  BY <1>41, <1>44, <1>46
<1>6. \A d \in 1 .. n : w[d] = t[d + 2]
  <2>1. ASSUME NEW d \in 1 .. n  PROVE w[d] = t[d + 2]
    <3>1. t[d + 2] = WindowedSize(tA[d + 2], window[d]) /\ window[d].size = tB[d + 2]
      BY <1>44, <1>46
    <3>2. QED BY <1>42, <3>1 DEF WindowedSize
  <2>2. QED BY <2>1
<1>7. t \in Seq(Int) /\ Len(t) = n + 2 /\ \A e \in 1 .. n + 2 : t[e] \in Int
  <2>1. \A e \in 1 .. n + 2 : s[e] \in Int
    BY <1>2 DEF Shapes
  <2>2. \A e \in 1 .. n + 2 : t[e] \in Int
    BY <1>4, <2>1 DEF ShapesShuffled
  <2>3. t \in [1 .. n + 2 -> Int]
    BY <1>43, <2>2
  <2>4. QED BY <2>2, <2>3
<1>8. u \in Seq(Int) /\ Len(u) = 2
  <2>1. u[1] \in Int /\ u[2] \in Int
    BY <1>3, <1>5, <1>7
  <2>2. \A a, b \in Int : <<a, b>> \in Seq(Int) /\ Len(<<a, b>>) = 2
    OBVIOUS
  <2>3. QED BY <1>41, <2>1, <2>2
<1>9. w \in Seq(Int) /\ Len(w) = n
  <2>1. \A d \in 1 .. n : w[d] \in Int
    BY <1>3, <1>6, <1>7
  <2>2. w \in [1 .. n -> Int]
    BY <1>42, <2>1
  <2>3. QED BY <2>2
<1>10. /\ u \o w \in Seq(Int) /\ Len(u \o w) = Len(u) + Len(w)
       /\ \A d \in 1 .. Len(u) + Len(w) :
             (u \o w)[d] = IF d <= Len(u) THEN u[d] ELSE w[d - Len(u)]
  <2> DEFINE S == Int
  <2>1. u \in Seq(S) /\ w \in Seq(S)
    BY <1>8, <1>9
  <2> HIDE DEF S
  <2>2. /\ u \o w \in Seq(S) /\ Len(u \o w) = Len(u) + Len(w)
        /\ \A d \in 1 .. Len(u) + Len(w) :
              (u \o w)[d] = IF d <= Len(u) THEN u[d] ELSE w[d - Len(u)]
    BY <2>1, ConcatProperties
  <2>3. QED BY <2>2 DEF S
<1>11. u \o w = t
  <2> DEFINE v == u \o w
  <2>1. /\ v \in Seq(Int) /\ Len(v) = n + 2
        /\ \A d \in 1 .. n + 2 : v[d] = IF d <= 2 THEN u[d] ELSE w[d - 2]
    BY <1>8, <1>9, <1>10
  <2> HIDE DEF v
  <2>2. ASSUME NEW e \in 1 .. n + 2  PROVE v[e] = t[e]
    <3>1. CASE e > 2
      <4>1. e - 2 \in 1 .. n /\ e = (e - 2) + 2 /\ v[e] = w[e - 2]
        BY <2>1, <3>1
      <4>2. w[e - 2] = t[(e - 2) + 2]
        BY <1>6, <4>1
      <4>3. QED BY <4>1, <4>2
    <3>2. CASE e = 1 \/ e = 2
      BY <1>5, <2>1, <3>2
    <3>3. QED BY <3>1, <3>2
  <2>3. v = t
    BY <1>7, <2>1, <2>2, SeqEqual
  <2>4. QED BY <2>3 DEF v
<1>12. QED BY <1>1, <1>11 DEF ConvolvedInto

\* The handler of a convolution makes what XLA computes, whatever the layouts of the input
\* and of the filters, when the result has the layout of the input.
LEMMA ConvolutionOf ==
    ASSUME NEW ins, NEW n \in Nat, NEW s1 \in Shapes, NEW s2 \in Shapes, ins.shape \in Shapes,
           ins.window \in Seq(WindowDimensions), Len(ins.window) = n, OutputAsInput(ins.dn),
           ConvolutionShaped(ins.shape, s1, s2, ins.window, ins.dn, n),
           NEW x \in [Index(s1) -> Int], NEW f \in [Index(s2) -> Int]
    PROVE  ProcessConvolution(ins, x, f)
              \in {Convolution(ins.shape, x, f, ins.window, ins.dn), Missing}
<1> DEFINE dn == ins.dn
           s == ins.shape
           window == ins.window
           A == GetConvolutionImagebatchShuffleVector(dn)
           B == GetConvolutionFiltersShuffleVector(dn)
           C == GetConvolutionOutputShuffleVector(dn)
           tA == [d \in DOMAIN s1 |-> s1[A[d]]]
           tB == [d \in DOMAIN s2 |-> s2[B[d]]]
           t == [d \in DOMAIN s |-> s[A[d]]]
           back == [d \in DOMAIN t |-> t[C[d]]]
           X == MaybeAddAxesShuffle(x, A)
           F == MaybeAddAxesShuffle(f, B)
           Y == NGraphConvolution(X, F, window)
           Z == MaybeAddAxesShuffle(Y, C)
           V == Convolution(s, x, f, window, dn)
           R == 1 .. n + 2
<1>1. /\ DOMAIN s = R /\ DOMAIN s1 = R /\ DOMAIN s2 = R /\ DOMAIN window = 1 .. n
      /\ Len(s) = n + 2 /\ Len(s1) = n + 2 /\ Len(s2) = n + 2
      /\ s = [d \in R |-> s[d]] /\ \A d \in R : s[d] \in Nat \ {0}
  BY DEF Shapes, ConvolutionShaped
<1>2. /\ ShufflesOf(dn, A, B, n) /\ A \in Bijection(R, R) /\ B \in Bijection(R, R)
      /\ Len(A) = n + 2
  BY ShuffleElements DEF ConvolutionShaped
<1>3. \A e \in R : A[e] \in R /\ B[e] \in R
  BY <1>2 DEF Bijection, Injection
<1>4. C \in Bijection(R, R) /\ \A d \in R : C[d] \in R /\ A[C[d]] = d
  <2> DEFINE r == n + 2
             a == A
  <2>1. r \in Nat /\ a = GetConvolutionImagebatchShuffleVector(dn)
        /\ a \in Bijection(1 .. r, 1 .. r) /\ Len(a) = r
    BY <1>2
  <2> HIDE DEF r, a, dn
  <2>2. LET c == GetConvolutionOutputShuffleVector(dn)
        IN  c \in Bijection(1 .. r, 1 .. r) /\ \A d \in 1 .. r : a[c[d]] = d
    BY <2>1, OutputShuffle
  <2>3. C \in Bijection(R, R) /\ \A d \in R : A[C[d]] = d
    BY <2>2 DEF r, a
  <2> HIDE DEF C, A, R
  <2>4. \A d \in R : C[d] \in R
    BY <2>3 DEF Bijection, Injection
  <2>5. QED BY <2>3, <2>4
<1>5. tA = [d \in DOMAIN s1 |-> s1[A[d]]] /\ tB = [d \in DOMAIN s2 |-> s2[B[d]]]
      /\ t = [d \in DOMAIN s |-> s[A[d]]] /\ back = [d \in DOMAIN t |-> t[C[d]]]
  OBVIOUS
<1>6. V = [o \in Index(s) |->
             Products(x, f, {p \in (DOMAIN x) \X (DOMAIN f) : XlaTerms(dn, window, o, p)})]
  <2> DEFINE Terms(o) == {p \in (DOMAIN x) \X (DOMAIN f) :
            LET i == p[1]  k == p[2]
            IN  /\ i[dn.input_batch] = o[dn.output_batch]
                /\ k[dn.kernel_output_feature] = o[dn.output_feature]
                /\ k[dn.kernel_input_feature] = i[dn.input_feature]
                /\ \A d \in DOMAIN window :
                      On(window[d], o[dn.output_spatial[d]],
                         k[dn.kernel_spatial[d]], i[dn.input_spatial[d]])}
  <2>1. V = [o \in Index(s) |-> Products(x, f, Terms(o))]
    BY DEF Convolution
  <2>2. \A o : Terms(o) = {p \in (DOMAIN x) \X (DOMAIN f) : XlaTerms(dn, window, o, p)}
    BY DEF XlaTerms
  <2> HIDE DEF Terms, V
  <2>3. QED BY <2>1, <2>2
<1>7. ProcessConvolution(ins, x, f) \in {Z, Missing}
  BY DEF ProcessConvolution
<1>8. /\ OutputAsInput(dn) /\ ConvolutionShaped(s, s1, s2, window, dn, n)
      /\ s \in Shapes /\ window \in Seq(WindowDimensions) /\ Len(window) = n
      /\ DOMAIN x = Index(s1) /\ DOMAIN f = Index(s2)
      /\ x = [i \in Index(s1) |-> x[i]] /\ f = [i \in Index(s2) |-> f[i]]
      /\ \A i \in Index(s1) : x[i] \in Int
      /\ \A i \in Index(s2) : f[i] \in Int
  OBVIOUS
<1> HIDE DEF dn, s, window, A, B, C, tA, tB, t, back, V
<1>9. Moves(s1, A, tA, x, X) /\ Moves(s2, B, tB, f, F) /\ Permutes(s, A, t)
  <2>1. Moves(s1, A, tA, x, X)
    BY <1>1, <1>2, <1>5, <1>8, ShuffleOf
  <2>2. Moves(s2, B, tB, f, F)
    BY <1>1, <1>2, <1>5, <1>8, ShuffleOf
  <2>3. Permutes(s, A, t)
    BY <1>1, <1>2, <1>5, <1>8, PermutedIndexes
  <2>4. QED BY <2>1, <2>2, <2>3
<1> HIDE DEF X, F
<1>10. /\ Permutes(s1, A, tA) /\ DOMAIN X = Index(tA) /\ tA \in Shapes
       /\ \A i \in Index(s1) : PermutedTo(A, i) \in Index(tA) /\ X[PermutedTo(A, i)] = x[i]
       /\ Permutes(s2, B, tB) /\ DOMAIN F = Index(tB) /\ tB \in Shapes
       /\ \A i \in Index(s2) : PermutedTo(B, i) \in Index(tB) /\ F[PermutedTo(B, i)] = f[i]
       /\ t \in Shapes /\ Len(t) = n + 2
       /\ \A o \in Index(s) : PermutedTo(A, o) \in Index(t)
  BY <1>1, <1>9 DEF Moves, Permutes
<1>11. ShapeOf(X) = tA /\ ShapeOf(F) = tB
  BY <1>10, ShapeOfIs
<1>12. Y = ConvolvedInto(X, F, window, t)
  <2>1. ShapesShuffled(s, s1, s2, n, A, B, t, tA, tB)
    BY <1>3, <1>5 DEF ShapesShuffled
  <2>2. QED BY <1>2, <1>8, <1>11, <2>1, ConvolvedShape
<1> HIDE DEF Y
<1>13. Y = [o \in Index(t) |-> Y[o]] /\ DOMAIN Y = Index(t)
  BY <1>12 DEF ConvolvedInto
<1>14. DOMAIN t = R /\ back = s
  <2>1. DOMAIN t = R
    BY <1>1, <1>5
  <2>2. \A d \in R : back[d] = s[d]
    BY <1>1, <1>4, <1>5, <2>1
  <2>3. back = [d \in R |-> back[d]]
    BY <1>5, <2>1
  <2>4. QED BY <1>1, <2>1, <2>2, <2>3
<1>15. Moves(t, C, s, Y, Z)
  <2>1. s = [d \in DOMAIN t |-> t[C[d]]] /\ C \in Bijection(DOMAIN t, DOMAIN t)
    BY <1>4, <1>5, <1>14
  <2>2. QED BY <1>10, <1>13, <2>1, ShuffleOf
<1> HIDE DEF Z
<1>16. /\ DOMAIN Z = Index(s) /\ Z = [o \in Index(s) |-> Z[o]]
       /\ \A o \in Index(t) : Z[PermutedTo(C, o)] = Y[o]
       /\ DOMAIN C = R
  BY <1>10, <1>15 DEF Moves, Permutes
<1>17. ASSUME NEW o \in Index(s)  PROVE Z[o] = V[o]
  <2> DEFINE c == PermutedTo(A, o)
             P == {p \in Index(s1) \X Index(s2) : XlaTerms(dn, window, o, p)}
             Q == {q \in Index(tA) \X Index(tB) : NGraphTerms(window, c, q)}
             b == [p \in P |-> <<PermutedTo(A, p[1]), PermutedTo(B, p[2])>>]
  <2>1. c \in Index(t)
    BY <1>10
  <2>2. PermutedTo(C, c) = o
    <3>1. PermutedTo(C, c) = [d \in R |-> c[C[d]]]
      BY <1>16 DEF PermutedTo
    <3>2. DOMAIN A = R
      BY <1>1, <1>10 DEF Permutes
    <3>3. \A e \in R : c[e] = o[A[e]]
      BY <3>2 DEF PermutedTo
    <3> HIDE DEF c
    <3>4. \A d \in R : c[C[d]] = o[d]
      BY <1>4, <3>3
    <3>5. o = [d \in R |-> o[d]]
      BY <1>1, <1>8, IndexFacts
    <3>6. QED BY <3>1, <3>4, <3>5
  <2>3. Z[o] = Products(X, F, Q)
    <3>1. Z[o] = Y[c]
      BY <1>16, <2>1, <2>2
    <3>2. Y[c] = Products(X, F, {p \in (DOMAIN X) \X (DOMAIN F) : NGraphTerms(window, c, p)})
      BY <1>12, <2>1 DEF ConvolvedInto
    <3>3. QED BY <3>1, <3>2, <1>10
  <2>4. V[o] = Products(x, f, P)
    BY <1>6, <1>8
  <2>5. IsFiniteSet(P) /\ IsFiniteSet(Q)
    <3>1. /\ IsFiniteSet(Index(s1)) /\ IsFiniteSet(Index(s2))
          /\ IsFiniteSet(Index(tA)) /\ IsFiniteSet(Index(tB))
      BY <1>10, IndexFinite
    <3>2. /\ IsFiniteSet(Index(s1) \X Index(s2))
          /\ IsFiniteSet(Index(tA) \X Index(tB))
      BY <3>1, FS_Product
    <3>3. P \subseteq Index(s1) \X Index(s2) /\ Q \subseteq Index(tA) \X Index(tB)
      OBVIOUS
    <3> HIDE DEF P, Q
    <3>4. QED BY <3>2, <3>3, FS_Subset
  <2>6. b \in Bijection(P, Q)
    <3>1. PairTo(A, B, XlaPairs(dn, window, o, s1, s2))
             \in Bijection(XlaPairs(dn, window, o, s1, s2), NGraphPairs(window, c, tA, tB))
      BY <1>1, <1>2, <1>8, <1>10, PairsShuffled
    <3>2. /\ XlaPairs(dn, window, o, s1, s2) = P /\ NGraphPairs(window, c, tA, tB) = Q
          /\ PairTo(A, B, P) = b
      BY DEF XlaPairs, NGraphPairs, PairTo
    <3> HIDE DEF P, Q, b, c
    <3>3. QED BY <3>1, <3>2
  <2>7. \A p \in P : x[p[1]] \in Int /\ f[p[2]] \in Int
    BY <1>8
  <2>8. \A p \in P : X[b[p][1]] = x[p[1]] /\ F[b[p][2]] = f[p[2]]
    <3>1. ASSUME NEW p \in P  PROVE X[b[p][1]] = x[p[1]] /\ F[b[p][2]] = f[p[2]]
      <4>1. p[1] \in Index(s1) /\ p[2] \in Index(s2)
        OBVIOUS
      <4>2. b[p][1] = PermutedTo(A, p[1]) /\ b[p][2] = PermutedTo(B, p[2])
        OBVIOUS
      <4> HIDE DEF b, P
      <4>3. QED BY <1>10, <4>1, <4>2
    <3>2. QED BY <3>1
  <2> HIDE DEF P, Q, b, c
  <2>9. Products(x, f, P) = Products(X, F, Q)
    BY <2>5, <2>6, <2>7, <2>8, ProductsAlong
  <2>10. QED BY <2>3, <2>4, <2>9
<1>18. V = [o \in Index(s) |-> V[o]]
  BY <1>6
<1>19. Z = V
  BY <1>16, <1>17, <1>18, SameFunction
<1>20. QED BY <1>7, <1>19 DEF V, s, window, dn

\* The orders between NHWC and NCHW, which are inverse.
LEMMA NhwcOrders ==
    ASSUME NEW r \in Nat, r >= 3
    PROVE  LET p == NhwcToNchw(r)  q == NchwToNhwc(r)
           IN  /\ p \in Bijection(1 .. r, 1 .. r) /\ q \in Bijection(1 .. r, 1 .. r)
               /\ \A d \in 1 .. r : p[d] = IF d = 1 THEN 1 ELSE IF d = 2 THEN r ELSE d - 1
               /\ \A d \in 1 .. r : p[q[d]] = d /\ q[d] \in 1 .. r
<1> DEFINE p == NhwcToNchw(r)
           q == NchwToNhwc(r)
           inner == [d \in 1 .. r - 2 |-> d + 1]
           outer == [d \in 1 .. r - 2 |-> d + 2]
           k == r - 2
<1>1. k \in Nat /\ 2 + k = r /\ 1 + k + 1 = r
  OBVIOUS
<1>2. /\ inner \in Seq(Nat) /\ Len(inner) = k /\ \A d \in 1 .. k : inner[d] = d + 1
      /\ outer \in Seq(Nat) /\ Len(outer) = k /\ \A d \in 1 .. k : outer[d] = d + 2
  <2>1. \A d \in 1 .. k : inner[d] = d + 1 /\ outer[d] = d + 2
    OBVIOUS
  <2>2. inner \in [1 .. k -> Nat] /\ outer \in [1 .. k -> Nat]
    OBVIOUS
  <2> HIDE DEF inner, outer, k
  <2>3. QED BY <1>1, <2>1, <2>2
<1> DEFINE first == <<1, r>>
           one == <<1>>
           two == <<2>>
<1>3. /\ first \in Seq(Nat) /\ Len(first) = 2 /\ first[1] = 1 /\ first[2] = r
      /\ one \in Seq(Nat) /\ Len(one) = 1 /\ one[1] = 1
      /\ two \in Seq(Nat) /\ Len(two) = 1 /\ two[1] = 2
  OBVIOUS
<1>4. p = first \o inner /\ q = (one \o outer) \o two
  BY DEF NhwcToNchw, NchwToNhwc
<1> HIDE DEF inner, outer, first, one, two, k, p, q
<1> DEFINE N == Nat
<1> HIDE DEF N
<1>5. /\ p \in Seq(Nat) /\ Len(p) = r
      /\ \A d \in 1 .. r : p[d] = IF d <= 2 THEN first[d] ELSE inner[d - 2]
  <2>1. first \in Seq(N) /\ inner \in Seq(N)
    BY <1>2, <1>3 DEF N
  <2>2. /\ p \in Seq(N) /\ Len(p) = Len(first) + Len(inner)
        /\ \A d \in 1 .. Len(first) + Len(inner) :
              p[d] = IF d <= Len(first) THEN first[d] ELSE inner[d - Len(first)]
    BY <1>4, <2>1, ConcatProperties
  <2>3. Len(first) + Len(inner) = r /\ Len(first) = 2
    BY <1>1, <1>2, <1>3
  <2>4. QED BY <2>2, <2>3 DEF N
<1> DEFINE head == one \o outer
<1>6. /\ head \in Seq(Nat) /\ Len(head) = 1 + k
      /\ \A d \in 1 .. 1 + k : head[d] = IF d <= 1 THEN one[d] ELSE outer[d - 1]
  <2>1. one \in Seq(N) /\ outer \in Seq(N)
    BY <1>2, <1>3 DEF N
  <2> DEFINE h == one \o outer
  <2> HIDE DEF h
  <2>2. /\ h \in Seq(N) /\ Len(h) = Len(one) + Len(outer)
        /\ \A d \in 1 .. Len(one) + Len(outer) :
              h[d] = IF d <= Len(one) THEN one[d] ELSE outer[d - Len(one)]
    BY <2>1, ConcatProperties DEF h
  <2>3. Len(one) = 1 /\ Len(outer) = k
    BY <1>2, <1>3
  <2>4. QED BY <2>2, <2>3 DEF N, h
<1> HIDE DEF head
<1>7. /\ q \in Seq(Nat) /\ Len(q) = r
      /\ \A d \in 1 .. r : q[d] = IF d <= 1 + k THEN head[d] ELSE two[d - (1 + k)]
  <2>1. head \in Seq(N) /\ two \in Seq(N) /\ q = head \o two
    BY <1>3, <1>4, <1>6 DEF N, head
  <2>2. /\ q \in Seq(N) /\ Len(q) = Len(head) + Len(two)
        /\ \A d \in 1 .. Len(head) + Len(two) :
              q[d] = IF d <= Len(head) THEN head[d] ELSE two[d - Len(head)]
    BY <2>1, ConcatProperties
  <2>3. Len(head) = 1 + k /\ Len(head) + Len(two) = r
    BY <1>1, <1>3, <1>6
  <2>4. QED BY <2>2, <2>3 DEF N
<1>8. ASSUME NEW d \in 1 .. r
      PROVE  p[d] = IF d = 1 THEN 1 ELSE IF d = 2 THEN r ELSE d - 1
  <2>1. CASE d > 2
    <3>1. d - 2 \in 1 .. k /\ p[d] = inner[d - 2]
      BY <1>1, <1>5, <2>1
    <3>2. inner[d - 2] = (d - 2) + 1
      BY <1>2, <3>1
    <3>3. QED BY <2>1, <3>1, <3>2
  <2>2. CASE d = 1 \/ d = 2
    BY <1>3, <1>5, <2>2
  <2>3. QED BY <2>1, <2>2
<1>9. ASSUME NEW d \in 1 .. r
      PROVE  q[d] = IF d = 1 THEN 1 ELSE IF d = r THEN 2 ELSE d + 1
  <2>1. CASE d = r
    <3>1. ~(d <= 1 + k) /\ d - (1 + k) = 1
      BY <1>1, <2>1
    <3>2. QED BY <1>3, <1>7, <2>1, <3>1
  <2>2. CASE d = 1
    BY <1>1, <1>3, <1>6, <1>7, <2>2
  <2>3. CASE d # 1 /\ d # r
    <3>1. d - 1 \in 1 .. k /\ d <= 1 + k /\ ~(d <= 1) /\ d \in 1 .. 1 + k
      BY <1>1, <2>3
    <3>2. q[d] = outer[d - 1]
      BY <1>6, <1>7, <3>1
    <3>3. outer[d - 1] = (d - 1) + 2
      BY <1>2, <3>1
    <3>4. QED BY <2>3, <3>2, <3>3
  <2>4. QED BY <2>1, <2>2, <2>3
<1>10. \A d \in 1 .. r : /\ p[d] \in 1 .. r /\ q[d] \in 1 .. r
                         /\ p[q[d]] = d /\ q[p[d]] = d
  <2>1. ASSUME NEW d \in 1 .. r
        PROVE  p[d] \in 1 .. r /\ q[d] \in 1 .. r
    BY <1>8, <1>9
  <2>2. ASSUME NEW d \in 1 .. r  PROVE p[q[d]] = d
    <3> DEFINE e == q[d]
    <3>1. e \in 1 .. r /\ e = IF d = 1 THEN 1 ELSE IF d = r THEN 2 ELSE d + 1
      BY <1>9, <2>1
    <3> HIDE DEF e
    <3>2. p[e] = d
      BY <1>8, <3>1
    <3>3. QED BY <3>2 DEF e
  <2>3. ASSUME NEW d \in 1 .. r  PROVE q[p[d]] = d
    <3> DEFINE e == p[d]
    <3>1. e \in 1 .. r /\ e = IF d = 1 THEN 1 ELSE IF d = 2 THEN r ELSE d - 1
      BY <1>8, <2>1
    <3> HIDE DEF e
    <3>2. q[e] = d
      BY <1>9, <3>1
    <3>3. QED BY <3>2 DEF e
  <2>4. QED BY <2>1, <2>2, <2>3
<1>11. ASSUME NEW f, NEW g, f \in Seq(Nat), Len(f) = r,
              \A d \in 1 .. r : f[d] \in 1 .. r /\ g[d] \in 1 .. r
                                /\ f[g[d]] = d /\ g[f[d]] = d
       PROVE  f \in Bijection(1 .. r, 1 .. r)
  <2>1. DOMAIN f = 1 .. r
    BY <1>11
  <2>2. f \in [1 .. r -> 1 .. r]
    BY <1>11, <2>1
  <2>3. IsInjective(f)
    BY <1>11, <2>1 DEF IsInjective
  <2>4. \A d \in 1 .. r : \E e \in 1 .. r : f[e] = d
    <3>1. ASSUME NEW d \in 1 .. r  PROVE g[d] \in 1 .. r /\ f[g[d]] = d
      BY <1>11
    <3>2. QED BY <3>1
  <2>5. QED BY <2>2, <2>3, <2>4 DEF Bijection, Injection, Surjection
<1>12. p \in Bijection(1 .. r, 1 .. r)
  BY <1>5, <1>10, <1>11
<1>13. q \in Bijection(1 .. r, 1 .. r)
  BY <1>7, <1>10, <1>11
<1>14. QED BY <1>8, <1>10, <1>12, <1>13 DEF p, q

\* In NHWC, nGraph's window is the one for the batch in NCHW.
LEMMA NhwcWindow ==
    ASSUME NEW window \in Seq(WindowDimensions), Undilated(window),
           ReconstructDataFormatFromPoolingWindow(window) \notin {"none", "NCHW"},
           NEW n, n = Len(window), NEW p, p = NhwcToNchw(n),
           NEW z, z = Permuted(window, p)
    PROVE  /\ n \in Nat /\ n >= 3
           /\ z \in Seq(WindowDimensions) /\ Len(z) = n /\ Undilated(z)
           /\ Spatial(XlaWindowToNGraph(window, FALSE)) = z
<1>1. /\ n \in Nat /\ n >= 3 /\ window[1] = Unit /\ window[n] = Unit
  <2>1. /\ Len(window) \in Nat /\ ~(Len(window) < 3)
        /\ window[1] = Unit /\ window[Len(window)] = Unit
    BY LenProperties DEF ReconstructDataFormatFromPoolingWindow, DataFormat
  <2>2. QED BY <2>1
<1>2. /\ p \in Bijection(1 .. n, 1 .. n)
      /\ \A d \in 1 .. n : p[d] = IF d = 1 THEN 1 ELSE IF d = 2 THEN n ELSE d - 1
  BY <1>1, NhwcOrders
<1>3. \A d \in 1 .. n : p[d] \in 1 .. n
  BY <1>1, <1>2
<1>4. DOMAIN window = 1 .. n /\ \A d \in 1 .. n : window[d] \in WindowDimensions
  OBVIOUS
<1>5. z = [d \in 1 .. n |-> window[p[d]]]
  BY <1>2 DEF Permuted, Bijection, Injection
<1>6. z \in Seq(WindowDimensions) /\ Len(z) = n
  <2>1. z \in [1 .. n -> WindowDimensions]
    BY <1>3, <1>4, <1>5
  <2>2. QED BY <1>1, <2>1
<1>7. Undilated(z)
  <2>1. DOMAIN z = 1 .. n /\ \A d \in 1 .. n : z[d] = window[p[d]]
    BY <1>5
  <2>2. QED BY <1>3, <1>4, <2>1 DEF Undilated
<1>8. SpatialFirst(window, FALSE, z)
  <2>1. z[1] = Unit /\ z[2] = Unit
    <3>1. p[1] = 1 /\ p[2] = n
      BY <1>1, <1>2
    <3>2. z[1] = window[p[1]] /\ z[2] = window[p[2]]
      BY <1>1, <1>5
    <3>3. QED BY <1>1, <3>1, <3>2
  <2>2. ASSUME NEW d \in 1 .. n - 2
        PROVE  /\ FirstSpatial(FALSE) + d - 1 \in 1 .. n
               /\ z[d + 2] = window[FirstSpatial(FALSE) + d - 1]
    <3>1. FirstSpatial(FALSE) + d - 1 = d + 1 /\ d + 1 \in 1 .. n
      BY <1>1 DEF FirstSpatial
    <3>2. d + 2 \in 1 .. n /\ p[d + 2] = d + 1
      BY <1>1, <1>2
    <3>3. z[d + 2] = window[p[d + 2]]
      BY <1>5, <3>2
    <3>4. QED BY <3>1, <3>2, <3>3
  <2>3. QED BY <1>1, <1>6, <2>1, <2>2 DEF SpatialFirst
<1>9. Spatial(XlaWindowToNGraph(window, FALSE)) = z
  BY <1>8, SpatialWindow
<1>10. QED BY <1>1, <1>6, <1>7, <1>9

\* The largest element under a window is the same in another order of the dimensions.
LEMMA LargestAlong ==
    ASSUME NEW s \in Shapes, NEW p \in Bijection(DOMAIN s, DOMAIN s),
           NEW t, NEW x, \A i \in Index(s) : x[i] \in Int, DOMAIN x = Index(s),
           NEW X, Moves(s, p, t, x, X),
           NEW window, DOMAIN window = DOMAIN s,
           NEW z, z = Permuted(window, p), NEW o
    PROVE  Fold("maximum", MinValue, x, Covered(window, o, x)) =
              Fold("maximum", MinValue, X, Covered(z, PermutedTo(p, o), X))
<1> DEFINE n == Len(s)
           c == PermutedTo(p, o)
           S == Covered(window, o, x)
           T == Covered(z, c, X)
           b == [i \in S |-> PermutedTo(p, i)]
<1>1. DOMAIN s = 1 .. n /\ s \in Shapes
  BY DEF Shapes
<1>2. /\ DOMAIN p = 1 .. n /\ \A e \in 1 .. n : p[e] \in 1 .. n
      /\ \A d \in 1 .. n : \E e \in 1 .. n : p[e] = d
  BY <1>1 DEF Bijection, Injection, Surjection
<1>3. /\ Permutes(s, p, t) /\ DOMAIN X = Index(t) /\ t \in Shapes
      /\ \A i \in Index(s) : PermutedTo(p, i) \in Index(t) /\ X[PermutedTo(p, i)] = x[i]
      /\ \A j \in Index(t) : /\ PermutedFrom(p, j) \in Index(s)
                             /\ PermutedTo(p, PermutedFrom(p, j)) = j
  BY DEF Moves, Permutes
<1>4. ASSUME NEW i  PROVE Covers(window, o, i) <=> Covers(z, c, PermutedTo(p, i))
  <2> DEFINE j == PermutedTo(p, i)
             Tap(w, a, e) == \E k \in 0 .. w.size - 1 : On(w, a, k, e)
  <2>1. \A e \in 1 .. n : c[e] = o[p[e]] /\ j[e] = i[p[e]] /\ z[e] = window[p[e]]
    BY <1>1, <1>2 DEF PermutedTo, Permuted
  <2>2. DOMAIN z = 1 .. n /\ DOMAIN window = 1 .. n
    BY <1>1, <1>2 DEF Permuted
  <2> HIDE DEF c, j
  <2>3. Covers(window, o, i) <=> \A d \in 1 .. n : Tap(window[d], o[d], i[d])
    BY <2>2 DEF Covers
  <2>4. Covers(z, c, j) <=> \A e \in 1 .. n : Tap(z[e], c[e], j[e])
    BY <2>2 DEF Covers
  <2> HIDE DEF Tap
  <2>5. (\A e \in 1 .. n : Tap(z[e], c[e], j[e]))
           <=> \A e \in 1 .. n : Tap(window[p[e]], o[p[e]], i[p[e]])
    BY <2>1
  <2>6. (\A e \in 1 .. n : Tap(window[p[e]], o[p[e]], i[p[e]]))
           <=> \A d \in 1 .. n : Tap(window[d], o[d], i[d])
    BY <1>2
  <2>7. Covers(window, o, i) <=> Covers(z, c, j)
    BY <2>3, <2>4, <2>5, <2>6
  <2>8. QED BY <2>7 DEF j
<1>5. \A i \in Index(s) : PermutedFrom(p, PermutedTo(p, i)) = i
  <2>1. ASSUME NEW i \in Index(s)  PROVE PermutedFrom(p, PermutedTo(p, i)) = i
    <3> DEFINE j == PermutedTo(p, i)
    <3>1. j \in Index(t) /\ \A e \in 1 .. n : j[e] = i[p[e]]
      BY <1>2, <1>3 DEF PermutedTo
    <3> HIDE DEF j
    <3>2. i = PermutedFrom(p, j)
      BY <1>3, <3>1 DEF Permutes
    <3>3. QED BY <3>2 DEF j
  <2>2. QED BY <2>1
<1>6. /\ S = {i \in Index(s) : Covers(window, o, i)}
      /\ T = {j \in Index(t) : Covers(z, c, j)}
  BY <1>3 DEF Covered
<1>7. b = [i \in S |-> b[i]] /\ DOMAIN b = S /\ \A i \in S : b[i] = PermutedTo(p, i)
  OBVIOUS
<1> HIDE DEF S, T, b, c
<1>8. \A i \in S : b[i] \in T
  BY <1>3, <1>4, <1>6, <1>7
<1>9. b \in Bijection(S, T)
  <2>1. b \in [S -> T]
    BY <1>7, <1>8
  <2>2. IsInjective(b)
    BY <1>5, <1>6, <1>7 DEF IsInjective
  <2>3. \A j \in T : \E i \in S : b[i] = j
    <3>1. ASSUME NEW j \in T  PROVE \E i \in S : b[i] = j
      <4> DEFINE i == PermutedFrom(p, j)
      <4>1. i \in Index(s) /\ PermutedTo(p, i) = j /\ Covers(z, c, j)
        BY <1>3, <1>6
      <4> HIDE DEF i
      <4>2. i \in S
        BY <1>4, <1>6, <4>1
      <4>3. b[i] = j
        BY <1>7, <4>1, <4>2
      <4>4. QED BY <4>2, <4>3
    <3>2. QED BY <3>1
  <2>4. QED BY <2>1, <2>2, <2>3 DEF Bijection, Injection, Surjection
<1>10. IsFiniteSet(S) /\ IsFiniteSet(T)
  <2>1. IsFiniteSet(Index(s)) /\ IsFiniteSet(Index(t))
    BY <1>3, IndexFinite
  <2>2. S \subseteq Index(s) /\ T \subseteq Index(t)
    BY <1>6
  <2>3. QED BY <2>1, <2>2, FS_Subset
<1>11. /\ \A i \in S : x[i] \in Int
       /\ \A i \in S : X[b[i]] = x[i]
  BY <1>3, <1>6, <1>7
<1>12. Fold("maximum", MinValue, x, S) = Fold("maximum", MinValue, X, T)
  <2> DEFINE op == "maximum"
  <2>1. op \in Folding /\ MinValue \in Int
    BY DEF Folding, MinValue
  <2> HIDE DEF op
  <2>2. Fold(op, MinValue, x, S) = Fold(op, MinValue, X, T)
    BY <1>9, <1>10, <1>11, <2>1, FoldAlong
  <2>3. QED BY <2>2 DEF op
<1>13. QED BY <1>12 DEF S, T, c
=============================================================================
