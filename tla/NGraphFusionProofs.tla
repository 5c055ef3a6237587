-------------------------- MODULE NGraphFusionProofs --------------------------
(***************************************************************************)
(* The theorems about the fusion pass.  The inductive invariant is         *)
(* PassInvariant: fusions apart, the computation is the given one with     *)
(* some instructions gone.  With it a rule matches at an instruction just  *)
(* when it matches there in the given computation and none of the parts    *)
(* has been fused, which makes what the pass finds (Kernels) a function of *)
(* the given computation.  The operands of the fusions and the values of   *)
(* the instructions follow from that, for computations whose kernels and   *)
(* handlers are right one by one.  Last, which kernels and handlers are    *)
(* right whatever the shapes, windows, paddings and layouts.               *)
(***************************************************************************)
EXTENDS NGraphFusionLemmas

\* What the pass has made of g by now.
Rewritten(c, g) ==
    /\ Sound(c, Len(g))
    /\ \A j \in DOMAIN c : /\ j \in DOMAIN g
                           /\ c[j].shape = g[j].shape
                           /\ c[j].opcode # "fusion" => c[j] = g[j]

\* The computation that is given is one that the pass may have made of it.
LEMMA GivenFacts ==
    ASSUME NEW g, WellFormed(g)
    PROVE  /\ Len(g) \in Nat \ {0} /\ DOMAIN g = 1 .. Len(g)
           /\ Rewritten(g, g) /\ Counted(g)
           /\ \A i \in DOMAIN g : g[i].opcode # "fusion" /\ WellShaped(g, i)
<1>1. Len(g) \in Nat \ {0} /\ DOMAIN g = 1 .. Len(g)
  BY DEF WellFormed
<1>2. DOMAIN OperandCounts = 0 .. 3
  BY DEF OperandCounts
<1>3. ASSUME NEW i \in DOMAIN g
      PROVE  /\ {"opcode", "operands", "shape"} \subseteq DOMAIN g[i]
             /\ g[i].opcode # "fusion" /\ WellShaped(g, i)
             /\ g[i].operands \in Seq(1 .. i - 1)
             /\ \A n \in 0 .. 3 : g[i].opcode \in OperandCounts[n] => Len(g[i].operands) = n
  BY <1>2 DEF WellFormed
<1>4. ASSUME NEW i \in DOMAIN g  PROVE Range(g[i].operands) \subseteq DOMAIN g
  <2> DEFINE s == g[i].operands
             S == 1 .. i - 1
  <2>1. s \in Seq(S) /\ S \subseteq DOMAIN g
    BY <1>1, <1>3
  <2> HIDE DEF s, S
  <2>2. Range(s) \subseteq S
    BY <2>1, ElementsTyped
  <2>3. QED BY <2>1, <2>2 DEF s
<1>5. Sound(g, Len(g))
  BY <1>1, <1>3, <1>4 DEF Sound
<1>6. QED BY <1>1, <1>3, <1>5 DEF Rewritten, Counted

\* The pass changes no numbers of operands but those of fusions.
LEMMA RewrittenCounted ==
    ASSUME NEW g, WellFormed(g), NEW c, Rewritten(c, g)
    PROVE  Counted(c)
<1>1. \A n \in 0 .. 3 : "fusion" \notin OperandCounts[n]
  BY DEF OperandCounts
<1>2. Counted(g)
  BY GivenFacts
<1>3. QED BY <1>1, <1>2 DEF Counted, Rewritten

\* Every part of a graph but the root is before it.
LEMMA WalkDown ==
    ASSUME NEW n \in Nat, NEW c, Sound(c, n), NEW i, NEW R, Walk(c, i, R)
    PROVE  \A k \in 2 .. Len(R) : R[k] < i
<1>1. /\ Len(R) \in Nat \ {0} /\ R[1] = i
      /\ \A k \in 1 .. Len(R) : R[k] \in DOMAIN c
      /\ \A q \in 2 .. Len(R) : \E p \in 1 .. q - 1 : R[q] \in Range(c[R[p]].operands)
  BY DEF Walk
<1>2. \A x \in DOMAIN c : x \in Int /\ \A y \in Range(c[x].operands) : y < x /\ y \in Int
  <2> SUFFICES ASSUME NEW x \in DOMAIN c
               PROVE  x \in Int /\ \A y \in Range(c[x].operands) : y < x /\ y \in Int
    OBVIOUS
  <2>1. c[x].operands \in Seq(1 .. x - 1) /\ x \in Int
    BY DEF Sound
  <2>2. Range(c[x].operands) \subseteq 1 .. x - 1
    BY <2>1, ElementsTyped
  <2>3. QED BY <2>1, <2>2
<1> DEFINE Bad == {k \in 2 .. Len(R) : ~(R[k] < i)}
<1>3. SUFFICES ASSUME Bad # {} PROVE FALSE
  OBVIOUS
<1>4. Bad \in SUBSET Nat
  OBVIOUS
<1>5. PICK q \in Bad : \A k \in Bad : q <= k
  <2> HIDE DEF Bad
  <2> QED BY <1>3, <1>4, LeastNumber
<1>6. PICK p \in 1 .. q - 1 : R[q] \in Range(c[R[p]].operands)
  BY <1>1, <1>5
<1>7. p \in 1 .. Len(R) /\ q \in 2 .. Len(R) /\ ~(R[q] < i)
  BY <1>1, <1>5, <1>6
<1>8. R[q] < R[p] /\ R[p] \in Int /\ R[q] \in Int /\ i \in Int
  <2>1. R[p] \in DOMAIN c /\ R[1] \in DOMAIN c /\ 1 \in 1 .. Len(R)
    BY <1>1, <1>7
  <2>2. QED BY <2>1, <1>1, <1>2, <1>6
<1>9. p = 1 \/ R[p] < i
  BY <1>5, <1>6, <1>7
<1>10. QED BY <1>1, <1>7, <1>8, <1>9

\* A rule that matches in the computation matches in the one that was given ...
LEMMA MatchesInGiven ==
    ASSUME NEW g, WellFormed(g), NEW c, Rewritten(c, g), NEW i \in DOMAIN c,
           NEW r \in 1 .. 9, NEW m, m = Rules(c, i)[r], m # NoMatch
    PROVE  /\ Rules(g, i)[r] = m
           /\ Recognised(c, i, m) /\ Recognised(g, i, m)
           /\ AgreeOn(c, g, Range(m.fuse))
<1>1. Sound(c, Len(g)) /\ Counted(c) /\ Len(g) \in Nat
  BY GivenFacts, RewrittenCounted DEF Rewritten
<1>2. Recognised(c, i, m) /\ \A d : Same(c, d, i, m) => Rules(d, i)[r] = m
  BY <1>1, RuleFacts
<1>3. AgreeOn(c, g, Range(m.fuse))
  <2>1. \A k \in DOMAIN m.fuse : m.fuse[k] \in DOMAIN c /\ c[m.fuse[k]].opcode # "fusion"
    BY <1>2 DEF Recognised, Walk
  <2>2. QED BY <2>1 DEF Rewritten, AgreeOn, Range
<1>4. \A x \in Range(c[i].operands) : g[x].shape = c[x].shape
  BY DEF Rewritten, Sound
<1>5. Rules(g, i)[r] = m
  BY <1>2, <1>3, <1>4 DEF Same
<1>6. Recognised(g, i, m)
  <2>1. Sound(g, Len(g)) /\ Counted(g) /\ i \in DOMAIN g
    BY GivenFacts DEF Rewritten
  <2>2. QED BY <2>1, <1>1, <1>5, RuleFacts
<1>7. QED BY <1>2, <1>3, <1>5, <1>6

\* ... and the other way round, unless one of the instructions has been fused.
LEMMA MatchesInComputation ==
    ASSUME NEW g, WellFormed(g), NEW c, Rewritten(c, g), NEW i \in DOMAIN c,
           NEW r \in 1 .. 9, NEW m, m = Rules(g, i)[r], m # NoMatch,
           \A x \in Range(m.fuse) : x \in DOMAIN c => c[x].opcode # "fusion"
    PROVE  Rules(c, i)[r] = m
<1> DEFINE R == m.fuse
<1>1. Sound(g, Len(g)) /\ Counted(g) /\ Len(g) \in Nat /\ i \in DOMAIN g
  BY GivenFacts DEF Rewritten
<1>2. Recognised(g, i, m) /\ \A d : Same(g, d, i, m) => Rules(d, i)[r] = m
  BY <1>1, RuleFacts
<1>3. /\ Len(R) \in Nat \ {0} /\ R[1] = i /\ DOMAIN R = 1 .. Len(R)
      /\ \A q \in 2 .. Len(R) : \E p \in 1 .. q - 1 : R[q] \in Range(g[R[p]].operands)
  BY <1>2 DEF Recognised, Walk
<1>4. \A k \in 1 .. Len(R) : R[k] \in DOMAIN c => c[R[k]] = g[R[k]]
  BY <1>3 DEF Rewritten, Range
<1> HIDE DEF R
<1> DEFINE Bad == {k \in 1 .. Len(R) : R[k] \notin DOMAIN c}
<1>5. Bad = {}
  <2>1. SUFFICES ASSUME Bad # {} PROVE FALSE
    OBVIOUS
  <2>2. Bad \in SUBSET Nat
    OBVIOUS
  <2>3. PICK q \in Bad : \A k \in Bad : q <= k
    <3> HIDE DEF Bad
    <3> QED BY <2>1, <2>2, LeastNumber
  <2>4. q \in 2 .. Len(R)
    BY <1>3, <2>3
  <2>5. PICK p \in 1 .. q - 1 : R[q] \in Range(g[R[p]].operands)
    BY <1>3, <2>4
  <2>6. p \in 1 .. Len(R) /\ p \notin Bad
    BY <2>3, <2>4, <2>5, <1>3
  <2>7. R[p] \in DOMAIN c /\ c[R[p]] = g[R[p]]
    BY <2>6, <1>4
  <2>8. R[q] \in DOMAIN c
    BY <2>5, <2>7 DEF Rewritten, Sound
  <2>9. QED BY <2>3, <2>8
<1>6. AgreeOn(g, c, Range(R))
  BY <1>3, <1>4, <1>5 DEF AgreeOn, Range
<1>7. c[i] = g[i]
  <2>1. 1 \in 1 .. Len(R)
    BY <1>3
  <2>2. QED BY <2>1, <1>3, <1>4
<1>8. \A x \in Range(g[i].operands) : c[x].shape = g[x].shape
  BY <1>7 DEF Rewritten, Sound
<1>9. QED BY <1>2, <1>6, <1>8 DEF Same, R

-----------------------------------------------------------------------------
\* The inductive invariant: the fusions apart, what is left of the computation is as
\* it was given, and nothing that has been visited uses what has not.
PassInvariant ==
    LET g == given.instructions
    IN  /\ given \in Computations
        /\ Rewritten(computation, g)
        /\ Root \in DOMAIN computation
        /\ pending \subseteq DOMAIN computation
        /\ \A j \in DOMAIN computation \ pending :
              Range(computation[j].operands) \cap pending = {}
        /\ DOMAIN fusion_map = {j \in DOMAIN computation : computation[j].opcode = "fusion"}
        /\ DOMAIN fusion_map \cap pending = {}
        /\ \A j \in DOMAIN fusion_map : fusion_map[j].kind \in Emitters
        /\ m_changed \in BOOLEAN
        /\ aborted \in BOOLEAN

\* DefaultAction takes a rule that matches.
LEMMA FirstRule ==
    ASSUME NEW c, NEW i, NEW r,
           r = SelectInSeq(Rules(c, i), LAMBDA m : m # NoMatch), r # 0
    PROVE  r \in 1 .. 9 /\ Rules(c, i)[r] # NoMatch
<1> DEFINE R == Rules(c, i)
           I == {j \in 1 .. 9 : R[j] # NoMatch}
<1>1. Len(R) = 9
  BY DEF Rules
<1> HIDE DEF R
<1>2. r = IF I = {} THEN 0 ELSE Min(I)
  BY <1>1 DEF SelectInSeq, R
<1>3. I # {} /\ I \in SUBSET Nat
  BY <1>2
<1>4. Min(I) \in I
  <2> HIDE DEF I
  <2> QED BY <1>3, MinOfNumbers
<1>5. r \in I
  BY <1>2, <1>3, <1>4
<1>6. QED BY <1>5 DEF R

\* What a fused graph leaves.
Leaves(c, g, P, i, L) ==
    LET x == FusedComputation(c, L)
        d == x.computation
    IN  /\ Parts(c, L, P)
        /\ Rewritten(d, g) /\ P \subseteq DOMAIN d /\ i \in DOMAIN d
        /\ x.aborted \in BOOLEAN
        /\ DOMAIN d \subseteq DOMAIN c
        /\ \A j \in DOMAIN d \ {i} : d[j] = c[j]
        /\ d[i].opcode = "fusion"
        /\ \A j \in DOMAIN c \ DOMAIN d : j < i /\ c[j].opcode # "fusion"
        /\ \A j \in DOMAIN d \ P : Range(d[j].operands) \cap P = {}
        /\ \A k \in 2 .. Len(L) : L[k] < i /\ L[k] \in DOMAIN c \ P

\* Fusing a graph that is a way down from i, while P is still to be visited, leaves the
\* computation as PassInvariant wants it.
LEMMA FusionFacts ==
    ASSUME NEW g, WellFormed(g), NEW c, Rewritten(c, g), NEW P, P \subseteq DOMAIN c,
           \A j \in DOMAIN c \ P : Range(c[j].operands) \cap P = {},
           NEW i \in DOMAIN c \ P, NEW L, Walk(c, i, L)
    PROVE  Leaves(c, g, P, i, L)
<1> DEFINE n == Len(g)
           F == {L[j] : j \in 2 .. Len(L)}
           x == FusedComputation(c, L)
           d == x.computation
<1>1. n \in Nat /\ Sound(c, n)
  BY GivenFacts DEF Rewritten
<1> HIDE DEF n
<1>2. /\ IsSequence(L) /\ Len(L) \in Nat \ {0} /\ DOMAIN L = 1 .. Len(L) /\ L[1] = i
      /\ \A k \in 1 .. Len(L) : L[k] \in DOMAIN c /\ c[L[k]].opcode # "fusion"
      /\ \A q \in 2 .. Len(L) : \E p \in 1 .. q - 1 : L[q] \in Range(c[L[p]].operands)
  BY DEF Walk
<1>3. L \in Seq(Int)
  <2>1. Range(L) \subseteq Int
    <3>1. DOMAIN c \subseteq Int
      BY <1>1 DEF Sound
    <3>2. QED BY <1>2, <3>1 DEF Range
  <2> DEFINE S == Range(L)
  <2>2. L \in Seq(S)
    BY <1>2 DEF IsSequence
  <2> HIDE DEF S
  <2>3. S \subseteq Int
    BY <2>1 DEF S
  <2>4. \A X, Y : X \subseteq Y => \A s \in Seq(X) : s \in Seq(Y)
    OBVIOUS
  <2>5. QED BY <2>2, <2>3, <2>4
<1>4. Parts(c, L, P)
  BY <1>2, <1>3 DEF Parts
<1>5. \A k \in 2 .. Len(L) : L[k] < i
  BY <1>1, WalkDown
<1>6. PICK h :
         /\ \A k \in 0 .. Len(L) - 1 : Stage(c, n, L[1], P, F, h[k])
         /\ x = h[Len(L) - 1]
  <2>1. Staged(c, n, L, P)
    BY <1>1, <1>4, Stages
  <2>2. QED BY <2>1 DEF Staged
<1>7. Stage(c, n, i, P, F, x)
  <2>1. Len(L) - 1 \in 0 .. Len(L) - 1
    BY <1>2
  <2> HIDE DEF x, F
  <2>2. QED BY <2>1, <1>2, <1>6
<1> HIDE DEF x
<1>8. /\ Sound(d, n) /\ i \in DOMAIN d /\ x.aborted \in BOOLEAN
      /\ DOMAIN d \subseteq DOMAIN c /\ DOMAIN c \subseteq DOMAIN d \cup F
      /\ P \subseteq DOMAIN d
      /\ \A j \in DOMAIN d \ {i} : d[j] = c[j]
      /\ d[i] = [c[i] EXCEPT !.opcode = "fusion", !.operands = d[i].operands]
      /\ Range(d[i].operands) \cap P = {}
  BY <1>7 DEF Stage
<1> HIDE DEF d
<1>9. \A j \in DOMAIN c \ DOMAIN d : j < i /\ c[j].opcode # "fusion"
  BY <1>2, <1>5, <1>8
<1>10. {"opcode", "operands", "shape"} \subseteq DOMAIN c[i]
  BY <1>1 DEF Sound
<1>11. d[i].opcode = "fusion" /\ d[i].shape = c[i].shape
  <2> DEFINE t == d[i].operands
  <2>1. d[i] = [c[i] EXCEPT !.opcode = "fusion", !.operands = t]
    BY <1>8
  <2> HIDE DEF t
  <2>2. QED BY <2>1, <1>10
<1>12. Rewritten(d, g)
  BY <1>8, <1>11 DEF Rewritten, n
<1>13. \A j \in DOMAIN d \ P : Range(d[j].operands) \cap P = {}
  BY <1>8
<1>14. \A k \in 2 .. Len(L) : L[k] \notin P
  <2> DEFINE Bad == {k \in 2 .. Len(L) : L[k] \in P}
  <2>1. SUFFICES ASSUME Bad # {} PROVE FALSE
    OBVIOUS
  <2>2. Bad \in SUBSET Nat
    OBVIOUS
  <2>3. PICK q \in Bad : \A k \in Bad : q <= k
    <3> HIDE DEF Bad
    <3> QED BY <2>1, <2>2, LeastNumber
  <2>4. PICK p \in 1 .. q - 1 : L[q] \in Range(c[L[p]].operands)
    BY <1>2, <2>3
  <2>5. p \in 1 .. Len(L) /\ (p = 1 \/ L[p] \notin P)
    BY <2>3, <2>4, <1>2
  <2>6. L[p] \in DOMAIN c \ P
    BY <2>5, <1>2
  <2>7. QED BY <2>3, <2>4, <2>6
<1>15. QED BY <1>2, <1>4, <1>5, <1>8, <1>9, <1>11, <1>12, <1>13, <1>14 DEF d, x, Leaves

\* What is known when the visitor comes to instruction i and a rule fuses it.
LEMMA FuseFacts ==
    ASSUME NEW i \in DOMAIN given.instructions, PassInvariant, Fuse(i)
    PROVE  LET g == given.instructions
               P == pending \ {i}
           IN  /\ WellFormed(g) /\ i \in pending /\ i \in DOMAIN computation \ P
               /\ pending' = P /\ given' = given
               /\ P \subseteq DOMAIN computation
               /\ \A j \in DOMAIN computation \ P :
                     Range(computation[j].operands) \cap P = {}
               /\ \E r \in 1 .. 9 : \E m :
                     /\ m = Rules(computation, i)[r] /\ m # NoMatch
                     /\ FuseInstructions(m.emitter, m.fuse)
                     /\ Rules(g, i)[r] = m
                     /\ Recognised(computation, i, m) /\ Recognised(g, i, m)
                     /\ AgreeOn(computation, g, Range(m.fuse))
<1> DEFINE
      g == given.instructions
      c == computation
      P == pending \ {i}
      r == SelectInSeq(Rules(c, i), LAMBDA m : m # NoMatch)
      m == Rules(c, i)[r]
<1>1. WellFormed(g) /\ Rewritten(c, g)
  BY ComputationsAssumption DEF PassInvariant
<1>2. /\ i \in pending /\ Range(g[i].operands) \cap pending = {} /\ pending' = P
      /\ given' = given
      /\ FuseInstructions(m.emitter, m.fuse) /\ r # 0
  BY DEF Fuse, Visited
<1>3. i \in DOMAIN c /\ c[i] = g[i]
  <2>1. i \in DOMAIN c /\ c[i].opcode # "fusion"
    BY <1>2 DEF PassInvariant
  <2>2. QED BY <1>1, <2>1 DEF Rewritten
<1>4. \A j \in DOMAIN c \ P : Range(c[j].operands) \cap P = {}
  BY <1>2, <1>3 DEF PassInvariant
<1>5. r \in 1 .. 9 /\ m # NoMatch
  <2> DEFINE q == r
  <2>1. q = r /\ q # 0
    BY <1>2
  <2> HIDE DEF q
  <2>2. q \in 1 .. 9 /\ Rules(c, i)[q] # NoMatch
    BY <2>1, FirstRule
  <2>3. QED BY <2>1, <2>2
<1> HIDE DEF r
<1>6. /\ Rules(g, i)[r] = m
      /\ Recognised(c, i, m) /\ Recognised(g, i, m)
      /\ AgreeOn(c, g, Range(m.fuse))
  <2> HIDE DEF m, c, g
  <2>1. m = Rules(c, i)[r]
    BY DEF m
  <2>2. QED BY <2>1, <1>1, <1>3, <1>5, MatchesInGiven
<1>7. P \subseteq DOMAIN c
  BY DEF PassInvariant
<1> HIDE DEF m
<1>8. m = Rules(c, i)[r]
  BY DEF m
<1>9. \E s \in 1 .. 9 : \E x :
         /\ x = Rules(c, i)[s] /\ x # NoMatch
         /\ FuseInstructions(x.emitter, x.fuse)
         /\ Rules(g, i)[s] = x
         /\ Recognised(c, i, x) /\ Recognised(g, i, x)
         /\ AgreeOn(c, g, Range(x.fuse))
  BY <1>2, <1>5, <1>6, <1>8
<1>10. QED BY <1>1, <1>2, <1>3, <1>4, <1>7, <1>9

\* Every step of the visitor keeps it.
LEMMA PassInvariantHolds == Spec => []PassInvariant
<1>1. Init => PassInvariant
  <2> SUFFICES ASSUME Init PROVE PassInvariant
    OBVIOUS
  <2> DEFINE g == given.instructions
  <2>1. WellFormed(g)
    BY ComputationsAssumption DEF Init
  <2>2. /\ Rewritten(g, g) /\ Root \in DOMAIN g
        /\ \A i \in DOMAIN g : g[i].opcode # "fusion"
    BY <2>1, GivenFacts DEF Root
  <2>3. DOMAIN fusion_map = {}
    BY DEF Init
  <2>4. QED BY <2>1, <2>2, <2>3 DEF Init, PassInvariant
<1>2. PassInvariant /\ [Next]_vars => PassInvariant'
  <2> SUFFICES ASSUME PassInvariant, [Next]_vars PROVE PassInvariant'
    OBVIOUS
  <2> DEFINE g == given.instructions
             c == computation
  <2>1. ASSUME NEW i \in DOMAIN given.instructions, Fuse(i)  PROVE PassInvariant'
    <3> DEFINE P == pending \ {i}
    <3>1. /\ WellFormed(g) /\ i \in DOMAIN c \ P /\ i \in pending
          /\ pending' = P /\ given' = given /\ P \subseteq DOMAIN c
          /\ \A j \in DOMAIN c \ P : Range(c[j].operands) \cap P = {}
      BY <2>1, FuseFacts
    <3>1a. PICK r \in 1 .. 9 : \E m :
            /\ FuseInstructions(m.emitter, m.fuse)
            /\ Recognised(c, i, m)
      BY <2>1, FuseFacts
    <3>2. PICK m :
            /\ FuseInstructions(m.emitter, m.fuse)
            /\ Recognised(c, i, m)
      BY <3>1a
    <3> DEFINE L == m.fuse
               x == FusedComputation(c, L)
               d == x.computation
    <3>3. Walk(c, i, L) /\ L[1] = i /\ m.emitter.kind \in Emitters
      BY <3>2 DEF Recognised, Walk
    <3>4. /\ computation' = d /\ aborted' = x.aborted
          /\ fusion_map' = [j \in DOMAIN fusion_map \cup {i} |->
                               IF j = i THEN m.emitter ELSE fusion_map[j]]
          /\ m_changed' = TRUE
      BY <2>1, <3>2, <3>3 DEF FuseInstructions, Fuse
    <3>5. Rewritten(c, g)
      BY DEF PassInvariant
    <3>6. /\ Rewritten(d, g) /\ P \subseteq DOMAIN d /\ i \in DOMAIN d
          /\ x.aborted \in BOOLEAN
          /\ DOMAIN d \subseteq DOMAIN c
          /\ \A j \in DOMAIN d \ {i} : d[j] = c[j]
          /\ d[i].opcode = "fusion"
          /\ \A j \in DOMAIN c \ DOMAIN d : j < i /\ c[j].opcode # "fusion"
          /\ \A j \in DOMAIN d \ P : Range(d[j].operands) \cap P = {}
      <4>1. Leaves(c, g, P, i, L)
        <5> HIDE DEF P, L, c, g, d, x
        <5> QED BY <3>1, <3>3, <3>5, FusionFacts
      <4>2. QED BY <4>1 DEF Leaves
    <3> HIDE DEF d, x, L
    <3>7. Root' = Root
      BY <3>1 DEF Root
    <3>8. Root \in DOMAIN d
      <4>1. Root \in DOMAIN c /\ i \in DOMAIN c /\ Root = Len(g) /\ Len(g) \in Nat
            /\ DOMAIN c \subseteq 1 .. Len(g)
        BY <3>1, <3>5, GivenFacts DEF PassInvariant, Root, Rewritten, Sound
      <4>2. ~(Root < i)
        BY <4>1
      <4>3. QED BY <3>6, <4>1, <4>2
    <3>9. DOMAIN fusion_map' = DOMAIN fusion_map \cup {i}
      BY <3>4
    <3>10. DOMAIN fusion_map' = {j \in DOMAIN d : d[j].opcode = "fusion"}
      BY <3>6, <3>9 DEF PassInvariant
    <3>11. \A j \in DOMAIN fusion_map' : fusion_map'[j].kind \in Emitters
      BY <3>3, <3>4 DEF PassInvariant
    <3>12. DOMAIN fusion_map' \cap P = {}
      BY <3>9 DEF PassInvariant
    <3>13. QED
      BY <3>1, <3>4, <3>6, <3>7, <3>8, <3>10, <3>11, <3>12 DEF PassInvariant
  <2>2. ASSUME NEW i \in DOMAIN given.instructions, Leave(i)  PROVE PassInvariant'
    <3>1. /\ i \in pending /\ Range(g[i].operands) \cap pending = {}
          /\ pending' = pending \ {i} /\ given' = given /\ computation' = c
          /\ fusion_map' = fusion_map /\ m_changed' = m_changed /\ aborted' = aborted
      BY <2>2 DEF Leave, Visited
    <3>2. c[i] = g[i]
      <4>1. i \in DOMAIN c /\ c[i].opcode # "fusion"
        BY <3>1 DEF PassInvariant
      <4>2. QED BY <4>1 DEF Rewritten, PassInvariant
    <3>3. Root' = Root
      BY <3>1 DEF Root
    <3>4. \A j \in DOMAIN c \ (pending \ {i}) : Range(c[j].operands) \cap (pending \ {i}) = {}
      BY <3>1, <3>2 DEF PassInvariant
    <3>5. QED BY <3>1, <3>3, <3>4 DEF PassInvariant
  <2>3. ASSUME UNCHANGED vars  PROVE PassInvariant'
    BY <2>3 DEF vars, PassInvariant, Root
  <2>4. QED BY <2>1, <2>2, <2>3 DEF Next
<1>3. QED BY <1>1, <1>2, PTL DEF Spec

\* TypeOK: the root is never fused away, and the fusion map has an emitter for just the
\* fusions that are in the computation (ngraph_fusion.cc:136-143).
THEOREM TypeCorrect == Spec => []TypeOK
<1>1. PassInvariant => TypeOK
  <2> SUFFICES ASSUME PassInvariant PROVE TypeOK
    OBVIOUS
  <2>1. pending \subseteq DOMAIN computation
        /\ DOMAIN computation \subseteq DOMAIN given.instructions
    BY DEF PassInvariant, Rewritten
  <2>2. QED BY <2>1 DEF PassInvariant, TypeOK, Opcode
<1>2. QED BY <1>1, PassInvariantHolds, PTL

\* NothingDangles: no instruction uses one that is gone, and the visitor comes to none.
THEOREM LeavesNothingDangling == Spec => []NothingDangles
<1>1. PassInvariant => NothingDangles
  BY DEF PassInvariant, NothingDangles, Rewritten, Sound
<1>2. QED BY <1>1, PassInvariantHolds, PTL

-----------------------------------------------------------------------------
\* NoCheckFails: each instruction that a rule returns is an operand of the fusion when
\* its turn comes, also when the parts share a constant or have other users, so the
\* CHECK of CreateFusionInstruction holds (ngraph_fusion.cc:83-84).  One computation has
\* to be left out: a sum of ones over windows divided by itself, which the rule of
\* average pools matches with the sum in both places.
THEOREM FusesEveryPart ==
    ASSUME \A g \in Computations : NoSelfDivision(g.instructions)
    PROVE  Spec => []NoCheckFails
<1>1. Init => ~aborted
  BY DEF Init
<1>2. PassInvariant /\ ~aborted /\ [Next]_vars => ~aborted'
  <2> SUFFICES ASSUME PassInvariant, ~aborted, [Next]_vars PROVE ~aborted'
    OBVIOUS
  <2> DEFINE g == given.instructions
             c == computation
  <2>1. ASSUME NEW i \in DOMAIN given.instructions, Fuse(i)  PROVE ~aborted'
    <3> DEFINE P == pending \ {i}
    <3>1. /\ WellFormed(g) /\ i \in DOMAIN c \ P /\ P \subseteq DOMAIN c
          /\ \A j \in DOMAIN c \ P : Range(c[j].operands) \cap P = {}
      BY <2>1, FuseFacts
    <3>1a. PICK r \in 1 .. 9 : \E m :
            /\ FuseInstructions(m.emitter, m.fuse)
            /\ Recognised(c, i, m) /\ Recognised(g, i, m)
            /\ AgreeOn(c, g, Range(m.fuse))
      BY <2>1, FuseFacts
    <3>2. PICK m :
            /\ FuseInstructions(m.emitter, m.fuse)
            /\ Recognised(c, i, m) /\ Recognised(g, i, m)
            /\ AgreeOn(c, g, Range(m.fuse))
      BY <3>1a
    <3> DEFINE L == m.fuse
    <3>3. Rewritten(c, g) /\ Sound(c, Len(g)) /\ Len(g) \in Nat
      BY <3>1, GivenFacts DEF PassInvariant, Rewritten
    <3>4. Walk(c, i, L) /\ (Fresh(g) => Reachable(g, L)) /\ DOMAIN L = 1 .. Len(L)
          /\ Len(L) \in Nat
      BY <3>2 DEF Recognised, Walk
    <3>5. Reachable(g, L)
      <4>1. NoSelfDivision(g)
        BY DEF PassInvariant
      <4>2. Fresh(g)
        BY <4>1, <3>1, GivenFacts DEF Fresh
      <4>3. QED BY <3>4, <4>2
    <3>6. AgreeOn(c, g, Range(L))
      BY <3>2
    <3> HIDE DEF L
    <3>7. Reachable(c, L)
      <4>1. \A k \in 1 .. Len(L) : c[L[k]] = g[L[k]]
        BY <3>4, <3>6 DEF AgreeOn, Range
      <4>2. \A q \in 2 .. Len(L) : \A p \in 1 .. q - 1 : p \in 1 .. Len(L)
        BY <3>4
      <4>3. QED BY <3>5, <4>1, <4>2 DEF Reachable
    <3>8. Parts(c, L, P)
      <4>1. Leaves(c, g, P, i, L)
        <5> HIDE DEF P, c, g
        <5> QED BY <3>1, <3>3, <3>4, FusionFacts
      <4>2. QED BY <4>1 DEF Leaves
    <3>9. ~FusedComputation(c, L).aborted
      <4> HIDE DEF P, c, g
      <4> QED BY <3>3, <3>7, <3>8, NoCheckFailsInFusion
    <3>10. aborted' = FusedComputation(c, L).aborted
      BY <3>2 DEF FuseInstructions, L
    <3>11. QED BY <3>9, <3>10
  <2>2. ASSUME NEW i \in DOMAIN given.instructions, Leave(i)  PROVE ~aborted'
    BY <2>2 DEF Leave
  <2>3. ASSUME UNCHANGED vars  PROVE ~aborted'
    BY <2>3 DEF vars
  <2>4. QED BY <2>1, <2>2, <2>3 DEF Next
<1>3. ~aborted => NoCheckFails
  BY DEF NoCheckFails
<1>4. QED BY <1>1, <1>2, <1>3, PassInvariantHolds, PTL DEF Spec

-----------------------------------------------------------------------------
\* The parts but the root are the tail of what a rule returns.
Tailed(L) ==
    /\ \A k \in 2 .. Len(L) : L[k] \in Range(Tail(L))
    /\ \A x \in Range(Tail(L)) : \E k \in 2 .. Len(L) : x = L[k]

\* The parts of a match are before its root.
LEMMA MatchedParts ==
    ASSUME NEW g, WellFormed(g), NEW i \in DOMAIN g, NEW m \in Matches(g, i)
    PROVE  /\ m # NoMatch /\ Recognised(g, i, m)
           /\ Tailed(m.fuse)
           /\ Range(Tail(m.fuse)) \subseteq 1 .. i - 1
           /\ \E r \in 1 .. 9 : m = Rules(g, i)[r]
<1> DEFINE L == m.fuse
           T == Tail(L)
<1>1. PICK r \in 1 .. 9 : m = Rules(g, i)[r] /\ m # NoMatch
  <2>1. DOMAIN Rules(g, i) = 1 .. 9
    BY DEF Rules
  <2>2. QED BY <2>1 DEF Matches, Range
<1>2. Sound(g, Len(g)) /\ Counted(g) /\ Len(g) \in Nat /\ DOMAIN g = 1 .. Len(g)
  BY GivenFacts DEF Rewritten
<1>3. Recognised(g, i, m)
  BY <1>1, <1>2, RuleFacts
<1>4. /\ Walk(g, i, L) /\ IsSequence(L) /\ Len(L) \in Nat \ {0}
      /\ \A k \in 1 .. Len(L) : L[k] \in DOMAIN g
  BY <1>3 DEF Recognised, Walk
<1> HIDE DEF L
<1>5. \A k \in 2 .. Len(L) : L[k] < i
  BY <1>2, <1>4, WalkDown
<1>6. \A k \in 2 .. Len(L) : L[k] \in 1 .. i - 1
  BY <1>2, <1>4, <1>5
<1>7. DOMAIN T = 1 .. Len(L) - 1 /\ \A k \in 1 .. Len(L) - 1 : T[k] = L[k + 1]
  <2> DEFINE S == Range(L)
  <2>1. L \in Seq(S) /\ L # <<>>
    BY <1>4 DEF IsSequence
  <2> HIDE DEF S
  <2>2. T \in Seq(S) /\ Len(T) = Len(L) - 1 /\ \A k \in 1 .. Len(T) : T[k] = L[k + 1]
    BY <2>1, HeadTailProperties
  <2>3. QED BY <2>2
<1> HIDE DEF T
<1>8. Tailed(L) /\ Range(T) \subseteq 1 .. i - 1
  <2>1. \A x \in Range(T) : x \in {L[k] : k \in 2 .. Len(L)}
    <3> SUFFICES ASSUME NEW k \in 1 .. Len(L) - 1 PROVE T[k] \in {L[q] : q \in 2 .. Len(L)}
      BY <1>7 DEF Range
    <3>1. k + 1 \in 2 .. Len(L) /\ T[k] = L[k + 1]
      BY <1>4, <1>7
    <3>2. QED BY <3>1
  <2>2. \A k \in 2 .. Len(L) : L[k] \in Range(T)
    <3> SUFFICES ASSUME NEW k \in 2 .. Len(L) PROVE L[k] \in Range(T)
      OBVIOUS
    <3>1. k - 1 \in 1 .. Len(L) - 1 /\ (k - 1) + 1 = k
      BY <1>4
    <3>2. T[k - 1] = L[k] /\ k - 1 \in DOMAIN T
      BY <3>1, <1>7
    <3>3. QED BY <3>2 DEF Range
  <2>3. Range(T) \subseteq 1 .. i - 1
    BY <2>1, <1>6
  <2>4. QED BY <2>1, <2>2, <2>3 DEF Tailed, T
<1>9. QED BY <1>1, <1>3, <1>8 DEF L, T

\* The definition of Kernels is one: a graph's parts are before its root.
LEMMA KernelsAre ==
    ASSUME NEW g, WellFormed(g)
    PROVE  \A i \in DOMAIN g :
              Kernels(g)[i] = {m \in Matches(g, i) :
                                  \A j \in Range(Tail(m.fuse)) : Kernels(g)[j] = {}}
<1> DEFINE
      n == Len(g)
      Body(f, i) == {m \in Matches(g, i) : \A j \in Range(Tail(m.fuse)) : f[j] = {}}
      Solves(f, m) == f = [i \in 1 .. m |-> Body(f, i)]
      Solved(m) == \E f : Solves(f, m)
      N == {m \in 0 .. n : Solved(m)}
<1>1. n \in Nat /\ DOMAIN g = 1 .. n
  BY GivenFacts
<1>2. ASSUME NEW f, NEW e, NEW i \in DOMAIN g, \A j \in 1 .. i - 1 : f[j] = e[j]
      PROVE  Body(f, i) = Body(e, i)
  <2>1. \A m \in Matches(g, i) : Range(Tail(m.fuse)) \subseteq 1 .. i - 1
    BY MatchedParts
  <2>2. QED BY <1>2, <2>1
<1> HIDE DEF Body, n
<1>3. 0 .. n \subseteq N
  <2>1. 0 \in N
    <3> DEFINE f0 == [i \in 1 .. 0 |-> {}]
    <3>1. f0 = [i \in 1 .. 0 |-> Body(f0, i)]
      <4> DEFINE e0 == [i \in 1 .. 0 |-> Body(f0, i)]
      <4>1. 1 .. 0 = {}
        OBVIOUS
      <4>2. \A i \in 1 .. 0 : f0[i] = e0[i]
        BY <4>1
      <4>3. DOMAIN f0 = 1 .. 0 /\ DOMAIN e0 = 1 .. 0
        OBVIOUS
      <4>4. QED BY <4>2, <4>3
    <3>2. Solved(0)
      <4>1. Solves(f0, 0)
        BY <3>1
      <4> HIDE DEF Solves, f0
      <4> QED BY <4>1
    <3>3. QED
      <4> HIDE DEF Solved
      <4> QED BY <3>2, <1>1
  <2>2. ASSUME NEW m \in 0 .. n - 1, m \in N  PROVE m + 1 \in N
    <3>1. PICK f : Solves(f, m)
      <4>1. Solved(m)
        <5> HIDE DEF Solved
        <5> QED BY <2>2
      <4> HIDE DEF Solves
      <4> QED BY <4>1
    <3> DEFINE e == [i \in 1 .. m + 1 |-> Body(f, i)]
    <3>2. \A i \in 1 .. m : e[i] = f[i]
      BY <3>1
    <3>3. \A i \in 1 .. m + 1 : e[i] = Body(e, i)
      <4> SUFFICES ASSUME NEW i \in 1 .. m + 1 PROVE e[i] = Body(e, i)
        OBVIOUS
      <4>1. i \in DOMAIN g /\ \A j \in 1 .. i - 1 : j \in 1 .. m
        BY <1>1
      <4>2. e[i] = Body(f, i)
        OBVIOUS
      <4>3. \A j \in 1 .. i - 1 : f[j] = e[j]
        BY <4>1, <3>2
      <4> HIDE DEF e
      <4>4. QED BY <4>1, <4>2, <4>3, <1>2
    <3>4. Solves(e, m + 1)
      <4> DEFINE e1 == [i \in 1 .. m + 1 |-> Body(e, i)]
      <4>1. DOMAIN e = 1 .. m + 1 /\ DOMAIN e1 = 1 .. m + 1 /\ \A i \in 1 .. m + 1 : e[i] = e1[i]
        BY <3>3
      <4>2. QED BY <4>1
    <3>5. Solved(m + 1)
      <4> HIDE DEF Solves, e
      <4> QED BY <3>4
    <3>6. QED
      <4> HIDE DEF Solved
      <4> QED BY <3>5, <1>1
  <2>3. QED
    <3> HIDE DEF N
    <3> QED BY <2>1, <2>2, <1>1, IntervalInduction
<1>4. Solved(n)
  <2> HIDE DEF Solved
  <2> QED BY <1>1, <1>3
<1> DEFINE K == CHOOSE f : Solves(f, n)
<1>5. Solves(K, n)
  <2> HIDE DEF Solves
  <2> QED BY <1>4
<1>6. Kernels(g) = K
  BY <1>1 DEF Kernels, Body
<1> HIDE DEF K
<1>7. \A i \in DOMAIN g : K[i] = Body(K, i)
  BY <1>1, <1>5
<1>8. QED BY <1>6, <1>7 DEF Body

-----------------------------------------------------------------------------
\* A fusion is a kernel's, and has the emitter that the rule returned for it.
FusionsAreKernels ==
    \A f \in DOMAIN fusion_map :
        \E m \in Kernels(given.instructions)[f] : fusion_map[f] = m.emitter

\* What a rule fuses is one of the kernels.
LEMMA FusesKernel ==
    ASSUME NEW i \in DOMAIN given.instructions, PassInvariant, Fuse(i),
           PassFindsKernels
    PROVE  \E m \in Kernels(given.instructions)[i] :
              /\ FuseInstructions(m.emitter, m.fuse)
              /\ Recognised(computation, i, m)
              /\ Recognised(given.instructions, i, m)
              /\ AgreeOn(computation, given.instructions, Range(m.fuse))
<1> DEFINE g == given.instructions
           c == computation
           P == pending \ {i}
<1>1. /\ WellFormed(g) /\ i \in DOMAIN c \ P /\ i \in pending /\ P \subseteq DOMAIN c
      /\ \A j \in DOMAIN c \ P : Range(c[j].operands) \cap P = {}
  BY FuseFacts
<1>1a. PICK r \in 1 .. 9 : \E m :
         /\ m = Rules(c, i)[r] /\ m # NoMatch
         /\ FuseInstructions(m.emitter, m.fuse)
         /\ Rules(g, i)[r] = m
         /\ Recognised(c, i, m) /\ Recognised(g, i, m)
         /\ AgreeOn(c, g, Range(m.fuse))
  BY FuseFacts
<1>2. PICK m :
         /\ m = Rules(c, i)[r] /\ m # NoMatch
         /\ FuseInstructions(m.emitter, m.fuse)
         /\ Rules(g, i)[r] = m
         /\ Recognised(c, i, m) /\ Recognised(g, i, m)
         /\ AgreeOn(c, g, Range(m.fuse))
  BY <1>1a
<1> DEFINE L == m.fuse
<1>3. m \in Matches(g, i)
  <2>1. DOMAIN Rules(g, i) = 1 .. 9
    BY DEF Rules
  <2>2. m \in Range(Rules(g, i))
    BY <2>1, <1>2 DEF Range
  <2>3. QED BY <2>2, <1>2 DEF Matches
<1>4. \A x \in Range(Tail(L)) : \E k \in 2 .. Len(L) : x = L[k]
  <2> HIDE DEF g
  <2>1. i \in DOMAIN g
    BY DEF g
  <2>2. Tailed(m.fuse)
    BY <1>1, <1>3, <2>1, MatchedParts
  <2>3. QED BY <2>2 DEF Tailed
<1>5. Walk(c, i, L) /\ \A k \in 1 .. Len(L) : c[L[k]].opcode # "fusion"
  BY <1>2 DEF Recognised, Walk
<1>6. Rewritten(c, g)
  BY DEF PassInvariant
<1>7. \A k \in 2 .. Len(L) : L[k] < i /\ L[k] \in DOMAIN c \ P
  <2>1. Leaves(c, g, P, i, L)
    <3> HIDE DEF P, L, c, g
    <3> QED BY <1>1, <1>5, <1>6, FusionFacts
  <2>2. QED BY <2>1 DEF Leaves
<1>8. ASSUME NEW k \in 2 .. Len(L)  PROVE Kernels(g)[L[k]] = {}
  <2>1. L[k] \in DOMAIN g \ pending
    <3>1. i \in Int
      BY <1>1, GivenFacts
    <3>2. QED BY <3>1, <1>6, <1>7 DEF Rewritten
  <2>2. L[k] \notin DOMAIN fusion_map
    <3>1. k \in 1 .. Len(L)
      OBVIOUS
    <3>2. QED BY <3>1, <1>5 DEF PassInvariant
  <2>3. QED BY <2>1, <2>2 DEF PassFindsKernels
<1>9. m \in Kernels(g)[i]
  <2>1. \A j \in Range(Tail(L)) : Kernels(g)[j] = {}
    BY <1>4, <1>8
  <2>2. QED BY <2>1, <1>1, <1>3, KernelsAre
<1>10. QED BY <1>2, <1>9

\* What every rule leaves is none.
LEMMA LeavesNoKernel ==
    ASSUME NEW i \in DOMAIN given.instructions, PassInvariant, Leave(i),
           PassFindsKernels
    PROVE  Kernels(given.instructions)[i] = {}
<1> DEFINE g == given.instructions
           c == computation
<1>1. WellFormed(g) /\ Rewritten(c, g) /\ i \in DOMAIN c
  BY ComputationsAssumption DEF PassInvariant, Leave, Visited
<1>2. SUFFICES ASSUME NEW m \in Kernels(g)[i] PROVE FALSE
  OBVIOUS
<1>3. m \in Matches(g, i) /\ \A j \in Range(Tail(m.fuse)) : Kernels(g)[j] = {}
  BY <1>1, KernelsAre
<1> DEFINE L == m.fuse
<1>4. /\ m # NoMatch /\ Recognised(g, i, m)
      /\ \A k \in 2 .. Len(L) : L[k] \in Range(Tail(L))
  <2> HIDE DEF g
  <2>1. i \in DOMAIN g
    BY DEF g
  <2>2. m # NoMatch /\ Recognised(g, i, m) /\ Tailed(m.fuse)
    BY <1>1, <1>3, <2>1, MatchedParts
  <2>3. QED BY <2>2 DEF Tailed
<1>5. PICK r \in 1 .. 9 : m = Rules(g, i)[r]
  <2> HIDE DEF g
  <2>1. i \in DOMAIN g
    BY DEF g
  <2>2. QED BY <1>1, <1>3, <2>1, MatchedParts
<1>6. Len(L) \in Nat \ {0} /\ L[1] = i /\ DOMAIN L = 1 .. Len(L)
  BY <1>4 DEF Recognised, Walk
<1>7. \A x \in Range(L) : x = i \/ x \in Range(Tail(L))
  <2>1. \A k \in 1 .. Len(L) : k = 1 \/ k \in 2 .. Len(L)
    BY <1>6
  <2>2. \A x \in Range(L) : \E k \in 1 .. Len(L) : x = L[k]
    BY <1>6 DEF Range
  <2>3. QED BY <1>4, <1>6, <2>1, <2>2
<1>8. \A x \in Range(L) : x \notin DOMAIN fusion_map
  <2>1. i \notin DOMAIN fusion_map
    BY DEF PassInvariant, Leave, Visited
  <2>2. \A x \in Range(Tail(L)) : x \notin DOMAIN fusion_map
    BY <1>3 DEF PassFindsKernels
  <2>3. QED BY <1>7, <2>1, <2>2
<1>9. \A x \in Range(L) : x \in DOMAIN c => c[x].opcode # "fusion"
  BY <1>8 DEF PassInvariant
<1>10. Rules(c, i)[r] = m
  <2> HIDE DEF g, c
  <2> QED BY <1>1, <1>4, <1>5, <1>9, MatchesInComputation
<1>11. QED BY <1>4, <1>10 DEF Leave

\* What has been fused is just the kernels that have been visited.
LEMMA FindsKernels == Spec => [](PassFindsKernels /\ FusionsAreKernels)
<1>1. Init => PassFindsKernels /\ FusionsAreKernels
  <2> SUFFICES ASSUME Init PROVE PassFindsKernels /\ FusionsAreKernels
    OBVIOUS
  <2>1. DOMAIN fusion_map = {} /\ DOMAIN given.instructions \ pending = {}
    BY DEF Init
  <2>2. QED BY <2>1 DEF PassFindsKernels, FusionsAreKernels
<1>2. PassInvariant /\ PassFindsKernels /\ FusionsAreKernels /\ [Next]_vars
        => (PassFindsKernels /\ FusionsAreKernels)'
  <2> SUFFICES ASSUME PassInvariant, PassFindsKernels, FusionsAreKernels, [Next]_vars
               PROVE  PassFindsKernels' /\ FusionsAreKernels'
    OBVIOUS
  <2> DEFINE g == given.instructions
  <2>1. ASSUME NEW i \in DOMAIN given.instructions, Fuse(i)
        PROVE  PassFindsKernels' /\ FusionsAreKernels'
    <3>1. PICK m \in Kernels(g)[i] : /\ FuseInstructions(m.emitter, m.fuse)
                                     /\ Recognised(g, i, m)
      BY <2>1, FusesKernel
    <3>2. m.fuse[1] = i
      BY <3>1 DEF Recognised, Walk
    <3>3. /\ i \in pending /\ pending' = pending \ {i} /\ given' = given
      BY <2>1 DEF Fuse, Visited
    <3>4. fusion_map' = [j \in DOMAIN fusion_map \cup {i} |->
                            IF j = i THEN m.emitter ELSE fusion_map[j]]
      BY <3>1, <3>2 DEF FuseInstructions
    <3>5. DOMAIN fusion_map' = DOMAIN fusion_map \cup {i}
      BY <3>4
    <3>6. PassFindsKernels'
      <4> DEFINE K == Kernels(g)
      <4>1. Kernels(given'.instructions) = K /\ K[i] # {}
        BY <3>1, <3>3
      <4>2. DOMAIN fusion_map = {j \in DOMAIN g \ pending : K[j] # {}}
        BY DEF PassFindsKernels
      <4> HIDE DEF K
      <4>3. DOMAIN fusion_map' = {j \in DOMAIN g \ (pending \ {i}) : K[j] # {}}
        BY <4>1, <4>2, <3>3, <3>5
      <4>4. QED BY <4>1, <4>3, <3>3 DEF PassFindsKernels
    <3>7. FusionsAreKernels'
      BY <3>1, <3>3, <3>4, <3>5 DEF FusionsAreKernels
    <3>8. QED BY <3>6, <3>7
  <2>2. ASSUME NEW i \in DOMAIN given.instructions, Leave(i)
        PROVE  PassFindsKernels' /\ FusionsAreKernels'
    <3>1. pending' = pending \ {i} /\ given' = given /\ fusion_map' = fusion_map
      BY <2>2 DEF Leave, Visited
    <3>2. Kernels(g)[i] = {}
      BY <2>2, LeavesNoKernel
    <3>3. QED BY <3>1, <3>2 DEF PassFindsKernels, FusionsAreKernels
  <2>3. ASSUME UNCHANGED vars PROVE PassFindsKernels' /\ FusionsAreKernels'
    BY <2>3 DEF vars, PassFindsKernels, FusionsAreKernels
  <2>4. QED BY <2>1, <2>2, <2>3 DEF Next
<1>3. QED BY <1>1, <1>2, PassInvariantHolds, PTL DEF Spec

\* PassFindsKernels: the order of the visits does not matter, nor what was rewritten
\* before a kernel was visited (ngraph_fusion.cc:62-76).
THEOREM PassFuses == Spec => []PassFindsKernels
BY FindsKernels, PTL

-----------------------------------------------------------------------------
\* Making a fusion of a kernel's graph gives it the kernel's arguments.
LEMMA FusesArguments ==
    ASSUME NEW i \in DOMAIN given.instructions, PassInvariant, Fuse(i),
           PassFindsKernels, ArgumentsApart(given.instructions)
    PROVE  /\ computation'[i].operands =
                 Added(<<>>, Arguments(given.instructions, i, fusion_map'[i].kind))
              \/ aborted'
           /\ \A f \in DOMAIN fusion_map :
                 /\ f # i
                 /\ computation'[f] = computation[f]
                 /\ fusion_map'[f] = fusion_map[f]
           /\ DOMAIN fusion_map' = DOMAIN fusion_map \cup {i}
<1> DEFINE g == given.instructions
           c == computation
           P == pending \ {i}
<1>1. /\ WellFormed(g) /\ i \in DOMAIN c \ P /\ i \in pending /\ P \subseteq DOMAIN c
      /\ \A j \in DOMAIN c \ P : Range(c[j].operands) \cap P = {}
  BY FuseFacts
<1>2. PICK m \in Kernels(g)[i] :
         /\ FuseInstructions(m.emitter, m.fuse)
         /\ Recognised(c, i, m) /\ Recognised(g, i, m)
         /\ AgreeOn(c, g, Range(m.fuse))
  BY FusesKernel
<1> DEFINE L == m.fuse
           x == FusedComputation(c, L)
           d == x.computation
           arguments == Arguments(g, i, m.emitter.kind)
<1>3. /\ Rewritten(c, g) /\ Sound(c, Len(g)) /\ Len(g) \in Nat
      /\ Sound(g, Len(g)) /\ Counted(g)
  BY <1>1, GivenFacts DEF PassInvariant, Rewritten
<1>4. /\ Walk(c, i, L) /\ L[1] = i /\ DOMAIN L = 1 .. Len(L) /\ Len(L) \in Nat \ {0}
      /\ \A k \in 1 .. Len(L) : c[L[k]] = g[L[k]]
  BY <1>2 DEF Recognised, Walk, AgreeOn, Range
<1>5. /\ computation' = d /\ aborted' = x.aborted
      /\ fusion_map' = [j \in DOMAIN fusion_map \cup {i} |->
                           IF j = i THEN m.emitter ELSE fusion_map[j]]
  BY <1>2, <1>4 DEF FuseInstructions
<1>6. /\ Parts(c, L, P) /\ \A j \in DOMAIN d \ {i} : d[j] = c[j]
      /\ \A j \in DOMAIN c \ DOMAIN d : c[j].opcode # "fusion"
  <2>1. Leaves(c, g, P, i, L)
    <3> HIDE DEF P, L, c, g, d, x
    <3> QED BY <1>1, <1>3, <1>4, FusionFacts
  <2>2. QED BY <2>1 DEF Leaves
<1>7. /\ DOMAIN fusion_map = {j \in DOMAIN c : c[j].opcode = "fusion"}
      /\ i \notin DOMAIN fusion_map
  BY <1>1 DEF PassInvariant
<1>8. \A f \in DOMAIN fusion_map : /\ f # i
                                   /\ computation'[f] = c[f]
                                   /\ fusion_map'[f] = fusion_map[f]
  <2> HIDE DEF d, x, L
  <2> QED BY <1>5, <1>6, <1>7
<1>9. Range(arguments) \cap Range(L) = {}
  BY <1>2 DEF ArgumentsApart
<1>10. Takes(g, i, L, arguments)
  <2>1. m \in Matches(g, i)
    BY <1>1, <1>2, KernelsAre
  <2>2. Served(g, i, m)
    <3> HIDE DEF g
    <3>1. i \in DOMAIN g
      BY DEF g
    <3>2. m # NoMatch
      BY <2>1, <3>1, <1>1, MatchedParts
    <3>3. PICK r \in 1 .. 9 : m = Rules(g, i)[r]
      BY <2>1, <3>1, <1>1, MatchedParts
    <3>4. QED BY <3>1, <3>2, <3>3, <1>3, RulesServe
  <2>3. QED BY <2>2, <1>9 DEF Served
<1>11. Takes(c, L[1], L, arguments)
  <2> HIDE DEF L, c, g, arguments
  <2>1. \A A : Remain(c, L, A) <=> Remain(g, L, A)
    BY <1>4 DEF Remain
  <2>2. c[i] = g[i]
    <3>1. 1 \in 1 .. Len(L)
      BY <1>4
    <3>2. QED BY <3>1, <1>4
  <2>3. QED BY <2>1, <2>2, <1>4, <1>10 DEF Takes
<1>12. ~x.aborted => d[i].operands = Added(<<>>, arguments)
  <2> DEFINE e == Added(<<>>, arguments)
  <2>1. ASSUME ~x.aborted
        PROVE  FusedComputation(c, L).computation[L[1]].operands = Added(<<>>, arguments)
    <3> HIDE DEF L, c, g, P, arguments
    <3> QED BY <2>1, <1>3, <1>6, <1>9, <1>11, OperandsOfFusion DEF x
  <2>2. QED BY <2>1, <1>4
<1>13. fusion_map'[i].kind = m.emitter.kind /\ DOMAIN fusion_map' = DOMAIN fusion_map \cup {i}
  BY <1>5
<1>14. QED BY <1>5, <1>8, <1>12, <1>13

\* OperandsAsEmitReads: HLO drops the operands of a fused instruction and adds its own at
\* the end, and what comes out is what Emit reads (ngraph_emitter.cc:2199-2200), for every
\* kernel that is not given a part of itself, a constant that it uses as well.
THEOREM FusionsReadInOrder ==
    ASSUME \A g \in Computations : ArgumentsApart(g.instructions)
    PROVE  Spec => []OperandsAsEmitReads
<1>1. Init => OperandsAsEmitReads
  <2>1. Init => DOMAIN fusion_map = {}
    BY DEF Init
  <2>2. QED BY <2>1 DEF OperandsAsEmitReads
<1>2. PassInvariant /\ PassFindsKernels /\ OperandsAsEmitReads /\ [Next]_vars
        => OperandsAsEmitReads'
  <2> SUFFICES ASSUME PassInvariant, PassFindsKernels, OperandsAsEmitReads, [Next]_vars
               PROVE  OperandsAsEmitReads'
    OBVIOUS
  <2>1. ASSUME NEW i \in DOMAIN given.instructions, Fuse(i)
        PROVE  OperandsAsEmitReads'
    <3>1. ArgumentsApart(given.instructions)
      BY DEF PassInvariant
    <3>2. given' = given /\ ~aborted
      BY <2>1 DEF Fuse, Visited
    <3>3. /\ computation'[i].operands =
                Added(<<>>, Arguments(given.instructions, i, fusion_map'[i].kind))
             \/ aborted'
          /\ \A f \in DOMAIN fusion_map : /\ computation'[f] = computation[f]
                                          /\ fusion_map'[f] = fusion_map[f]
          /\ DOMAIN fusion_map' = DOMAIN fusion_map \cup {i}
      BY <2>1, <3>1, FusesArguments
    <3>4. QED BY <3>2, <3>3 DEF OperandsAsEmitReads
  <2>2. ASSUME NEW i \in DOMAIN given.instructions, Leave(i)
        PROVE  OperandsAsEmitReads'
    BY <2>2 DEF Leave, Visited, OperandsAsEmitReads
  <2>3. ASSUME UNCHANGED vars  PROVE OperandsAsEmitReads'
    BY <2>3 DEF vars, OperandsAsEmitReads
  <2>4. QED BY <2>1, <2>2, <2>3 DEF Next
<1>3. QED BY <1>1, <1>2, PassInvariantHolds, FindsKernels, PTL DEF Spec

-----------------------------------------------------------------------------
\* What an instruction computes from the values of the others, and what its handler makes
\* of them.
Computed(c, emitters, value, i) ==
    LET ins == c[i]
        args == [k \in DOMAIN ins.operands |-> value[ins.operands[k]]]
    IN  CASE ins.opcode = "parameter" ->
               [j \in Index(ins.shape) |-> Data(ins.literal, j)]
          [] ins.opcode = "constant" -> Constant(ins.shape, ins.literal)
          [] ins.opcode = "fusion" -> Emit(emitters[i], args)
          [] OTHER -> Meaning(ins, args)
Made(c, emitters, value, i) ==
    LET ins == c[i]
        args == [k \in DOMAIN ins.operands |-> value[ins.operands[k]]]
    IN  CASE ins.opcode = "parameter" ->
               [j \in Index(ins.shape) |-> Data(ins.literal, j)]
          [] ins.opcode = "constant" -> Constant(ins.shape, ins.literal)
          [] ins.opcode = "fusion" -> Emit(emitters[i], args)
          [] OTHER -> Handled(ins, args)
Either(makes, c, emitters, value, i) ==
    IF makes THEN Made(c, emitters, value, i) ELSE Computed(c, emitters, value, i)

\* Both depend on the values of its operands only ...
LEMMA ComputedFromOperands ==
    ASSUME NEW c, NEW emitters, NEW f, NEW e, NEW i,
           \A x \in Range(c[i].operands) : f[x] = e[x]
    PROVE  /\ Computed(c, emitters, f, i) = Computed(c, emitters, e, i)
           /\ Made(c, emitters, f, i) = Made(c, emitters, e, i)
<1> DEFINE ops == c[i].operands
           a == [k \in DOMAIN ops |-> f[ops[k]]]
           b == [k \in DOMAIN ops |-> e[ops[k]]]
<1>1. a = b
  <2>1. \A k \in DOMAIN ops : ops[k] \in Range(ops)
    BY DEF Range
  <2>2. \A k \in DOMAIN ops : f[ops[k]] = e[ops[k]]
    BY <2>1
  <2>3. QED BY <2>2
<1>2. QED BY <1>1 DEF Computed, Made

\* ... so that there are functions that solve the equations ...
LEMMA Solutions ==
    ASSUME NEW n \in Nat, NEW c, Sound(c, n), NEW emitters, NEW makes \in BOOLEAN
    PROVE  \E f : f = [i \in DOMAIN c |-> Either(makes, c, emitters, f, i)]
<1> DEFINE
      D(m) == {i \in DOMAIN c : i <= m}
      Body(f, i) == Either(makes, c, emitters, f, i)
      Solves(f, m) == f = [i \in D(m) |-> Body(f, i)]
      Solved(m) == \E f : Solves(f, m)
      N == {m \in 0 .. n : Solved(m)}
<1>1. DOMAIN c \subseteq 1 .. n /\ D(n) = DOMAIN c /\ D(0) = {}
  <2>1. DOMAIN c \subseteq 1 .. n
    BY DEF Sound
  <2>2. \A i \in DOMAIN c : i \in 1 .. n
    BY <2>1
  <2>3. \A i \in DOMAIN c : i <= n /\ ~(i <= 0)
    BY <2>2
  <2>4. QED BY <2>1, <2>3
<1>2. ASSUME NEW f, NEW e, NEW i \in DOMAIN c,
             \A j \in DOMAIN c : j < i => f[j] = e[j]
      PROVE  Body(f, i) = Body(e, i)
  <2>1. Range(c[i].operands) \subseteq DOMAIN c /\ Range(c[i].operands) \subseteq 1 .. i - 1
    BY ElementsTyped DEF Sound
  <2>2. \A x \in Range(c[i].operands) : f[x] = e[x]
    BY <2>1, <1>1, <1>2
  <2>3. QED BY <2>2, ComputedFromOperands DEF Either
<1> HIDE DEF Body
<1>3. 0 .. n \subseteq N
  <2>1. 0 \in N
    <3> DEFINE f0 == [i \in {} |-> {}]
    <3>1. f0 = [i \in D(0) |-> Body(f0, i)]
      <4> DEFINE e0 == [i \in D(0) |-> Body(f0, i)]
      <4> HIDE DEF D
      <4>1. DOMAIN f0 = {} /\ DOMAIN e0 = {}
        BY <1>1
      <4>2. QED BY <1>1, <4>1
    <3>2. Solved(0)
      <4>1. Solves(f0, 0)
        BY <3>1
      <4> HIDE DEF Solves, f0
      <4> QED BY <4>1
    <3>3. QED
      <4> HIDE DEF Solved
      <4> QED BY <3>2
  <2>2. ASSUME NEW m \in 0 .. n - 1, m \in N  PROVE m + 1 \in N
    <3>1. PICK f : Solves(f, m)
      <4>1. Solved(m)
        <5> HIDE DEF Solved
        <5> QED BY <2>2
      <4> HIDE DEF Solves
      <4> QED BY <4>1
    <3> DEFINE e == [i \in D(m + 1) |-> Body(f, i)]
    <3>2. \A i \in DOMAIN c : i \in D(m) => e[i] = f[i]
      <4>1. D(m) \subseteq D(m + 1)
        BY <1>1
      <4> HIDE DEF D
      <4>2. \A i \in D(m) : f[i] = Body(f, i)
        BY <3>1
      <4>3. QED BY <4>1, <4>2
    <3>3. \A i \in D(m + 1) : e[i] = Body(e, i)
      <4> SUFFICES ASSUME NEW i \in D(m + 1) PROVE e[i] = Body(e, i)
        OBVIOUS
      <4>1. i \in DOMAIN c /\ \A j \in DOMAIN c : j < i => j \in D(m)
        BY <1>1
      <4>2. e[i] = Body(f, i)
        OBVIOUS
      <4>3. \A j \in DOMAIN c : j < i => f[j] = e[j]
        BY <4>1, <3>2
      <4> HIDE DEF e, D
      <4>4. Body(f, i) = Body(e, i)
        BY <4>1, <4>3, <1>2
      <4>5. QED BY <4>2, <4>4
    <3>4. Solves(e, m + 1)
      <4> DEFINE e1 == [i \in D(m + 1) |-> Body(e, i)]
      <4> HIDE DEF D
      <4>1. DOMAIN e = D(m + 1) /\ DOMAIN e1 = D(m + 1) /\ \A i \in D(m + 1) : e[i] = e1[i]
        BY <3>3
      <4>2. QED BY <4>1
    <3>5. Solved(m + 1)
      <4> HIDE DEF Solves, e
      <4> QED BY <3>4
    <3>6. QED
      <4> HIDE DEF Solved
      <4> QED BY <3>5
  <2>3. QED
    <3> HIDE DEF N
    <3> QED BY <2>1, <2>2, IntervalInduction
<1>4. Solved(n)
  <2> HIDE DEF Solved
  <2> QED BY <1>3
<1>5. \E f : f = [i \in DOMAIN c |-> Body(f, i)]
  <2> HIDE DEF D
  <2> QED BY <1>1, <1>4
<1>6. QED BY <1>5 DEF Body

\* ... and Value is one ...
LEMMA ValueIs ==
    ASSUME NEW n \in Nat, NEW c, Sound(c, n), NEW emitters
    PROVE  \A i \in DOMAIN c :
              Value(c, emitters)[i] = Computed(c, emitters, Value(c, emitters), i)
<1> DEFINE Body(f, i) == Computed(c, emitters, f, i)
           V == CHOOSE f : f = [i \in DOMAIN c |-> Body(f, i)]
<1>1. V = [i \in DOMAIN c |-> Body(V, i)]
  <2>1. PICK f : f = [i \in DOMAIN c |-> Either(FALSE, c, emitters, f, i)]
    BY Solutions
  <2>2. \A i \in DOMAIN c : Either(FALSE, c, emitters, f, i) = Body(f, i)
    BY DEF Either
  <2> HIDE DEF Body
  <2>3. f = [i \in DOMAIN c |-> Body(f, i)]
    BY <2>1, <2>2
  <2>4. QED BY <2>3
<1>2. Value(c, emitters) = V
  BY DEF Value, ValueBy, Body, Computed
<1> HIDE DEF V
<1>3. \A i \in DOMAIN c : V[i] = Body(V, i)
  BY <1>1
<1>4. QED BY <1>2, <1>3 DEF Body

\* ... and so is the function that is emitted.
LEMMA FunctionIs ==
    ASSUME NEW n \in Nat, NEW c, Sound(c, n), NEW emitters
    PROVE  \A i \in DOMAIN c :
              FunctionOf(c, emitters)[i] = Made(c, emitters, FunctionOf(c, emitters), i)
<1> DEFINE Body(f, i) == Made(c, emitters, f, i)
           V == CHOOSE f : f = [i \in DOMAIN c |-> Body(f, i)]
<1>1. V = [i \in DOMAIN c |-> Body(V, i)]
  <2>1. PICK f : f = [i \in DOMAIN c |-> Either(TRUE, c, emitters, f, i)]
    BY Solutions
  <2>2. \A i \in DOMAIN c : Either(TRUE, c, emitters, f, i) = Body(f, i)
    BY DEF Either
  <2> HIDE DEF Body
  <2>3. f = [i \in DOMAIN c |-> Body(f, i)]
    BY <2>1, <2>2
  <2>4. QED BY <2>3
<1>2. FunctionOf(c, emitters) = V
  BY DEF FunctionOf, ValueBy, Body, Made
<1> HIDE DEF V
<1>3. \A i \in DOMAIN c : V[i] = Body(V, i)
  BY <1>1
<1>4. QED BY <1>2, <1>3 DEF Body

\* With each fusion done by its emitter, every instruction that is left computes what
\* it did.
LEMMA ValuesKept ==
    ASSUME PassInvariant, FusionsAreKernels, OperandsAsEmitReads, ~aborted,
           KernelsRight(given.instructions),
           \A f \in DOMAIN fusion_map : ~LacksOperand(f)
    PROVE  \A i \in DOMAIN computation :
              Value(computation, fusion_map)[i] = Value(given.instructions, <<>>)[i]
<1> DEFINE
      g == given.instructions
      c == computation
      E == fusion_map
      e == <<>>
      V == Value(c, E)
      W == Value(g, e)
      n == Len(g)
<1>1. /\ WellFormed(g) /\ Rewritten(c, g) /\ Sound(c, n) /\ n \in Nat /\ Sound(g, n)
      /\ \A i \in DOMAIN g : g[i].opcode # "fusion"
  <2>1. WellFormed(g) /\ Rewritten(c, g)
    BY ComputationsAssumption DEF PassInvariant
  <2>2. QED BY <2>1, GivenFacts DEF Rewritten
<1> HIDE DEF n, e
<1>2. \A i \in DOMAIN c : V[i] = Computed(c, E, V, i)
  BY <1>1, ValueIs
<1>3. \A i \in DOMAIN g : W[i] = Computed(g, e, W, i)
  <2> HIDE DEF g
  <2> QED BY <1>1, ValueIs
<1> HIDE DEF V, W
<1>4. ASSUME NEW i \in DOMAIN c, \A j \in DOMAIN c : j < i => V[j] = W[j]
      PROVE  V[i] = W[i]
  <2>1. /\ Range(c[i].operands) \subseteq DOMAIN c /\ Range(c[i].operands) \subseteq 1 .. i - 1
        /\ i \in Int /\ i \in DOMAIN g
    BY <1>1, ElementsTyped DEF Sound, Rewritten
  <2>2. \A x \in Range(c[i].operands) : V[x] = W[x]
    BY <2>1, <1>4
  <2>3. V[i] = Computed(c, E, W, i)
    BY <1>2, <2>2, ComputedFromOperands
  <2>4. CASE c[i].opcode # "fusion"
    <3>1. c[i] = g[i]
      BY <2>4, <1>1 DEF Rewritten
    <3>2. Computed(c, E, W, i) = Computed(g, e, W, i)
      BY <2>4, <3>1 DEF Computed
    <3>3. QED BY <2>1, <2>3, <3>2, <1>3
  <2>5. CASE c[i].opcode = "fusion"
    <3>1. i \in DOMAIN E
      BY <2>5 DEF PassInvariant
    <3>2. PICK m \in Kernels(g)[i] : E[i] = m.emitter
      BY <3>1 DEF FusionsAreKernels
    <3> DEFINE a == Added(<<>>, Arguments(g, i, m.emitter.kind))
    <3>3. c[i].operands = a
      BY <3>1, <3>2 DEF OperandsAsEmitReads
    <3>4. ~(Len(a) < Reads(m.emitter.kind))
      BY <3>1, <3>2, <3>3 DEF LacksOperand
    <3>5. Emit(m.emitter, [k \in DOMAIN a |-> W[a[k]]]) = W[i]
      <4>1. KernelRight(g, i, m)
        BY <2>1, <3>2 DEF KernelsRight
      <4> HIDE DEF g
      <4>2. QED BY <4>1, <3>4 DEF KernelRight, Inputs, ValuesOf, W, e
    <3> HIDE DEF a
    <3>6. Computed(c, E, W, i) = Emit(m.emitter, [k \in DOMAIN a |-> W[a[k]]])
      BY <2>5, <3>2, <3>3 DEF Computed
    <3>7. QED BY <2>3, <3>5, <3>6
  <2>6. QED BY <2>4, <2>5
<1> DEFINE Bad == {i \in DOMAIN c : V[i] # W[i]}
<1>5. Bad = {}
  <2>1. SUFFICES ASSUME Bad # {} PROVE FALSE
    OBVIOUS
  <2>2. Bad \in SUBSET Nat
    <3>1. DOMAIN c \subseteq 1 .. n
      BY <1>1 DEF Sound
    <3>2. QED BY <3>1, <1>1
  <2>3. PICK i \in Bad : \A j \in Bad : i <= j
    <3> HIDE DEF Bad
    <3> QED BY <2>1, <2>2, LeastNumber
  <2>4. \A j \in DOMAIN c : j < i => V[j] = W[j]
    <3> SUFFICES ASSUME NEW j \in DOMAIN c, j < i, V[j] # W[j] PROVE FALSE
      OBVIOUS
    <3>1. j \in Bad
      OBVIOUS
    <3>2. j \in Nat /\ i \in Nat /\ i <= j
      BY <3>1, <2>2, <2>3
    <3>3. QED BY <3>2
  <2>5. QED BY <2>3, <2>4, <1>4
<1>6. \A i \in DOMAIN c : V[i] = W[i]
  BY <1>5
<1>7. QED BY <1>6 DEF V, W, e

\* FusionPreservesValue: if the emitter of every kernel, alone, computes what the graph of
\* the kernel does, then the computation with any of them fused computes its root
\* (ngraph_fusion.cc:50-55): kernels may feed each other, share instructions and have
\* users outside, and no fusion spoils another.
THEOREM FusionsPreserveValue ==
    ASSUME \A g \in Computations : ArgumentsApart(g.instructions),
           \A g \in Computations : KernelsRight(g.instructions)
    PROVE  Spec => []FusionPreservesValue
<1>1. PassInvariant /\ FusionsAreKernels /\ OperandsAsEmitReads => FusionPreservesValue
  <2> SUFFICES ASSUME PassInvariant, FusionsAreKernels, OperandsAsEmitReads,
                      ~aborted, \A f \in DOMAIN fusion_map : ~LacksOperand(f)
               PROVE  Value(computation, fusion_map)[Root]
                        = Value(given.instructions, <<>>)[Root]
    BY DEF FusionPreservesValue
  <2>1. KernelsRight(given.instructions) /\ Root \in DOMAIN computation
    BY DEF PassInvariant
  <2>2. QED BY <2>1, ValuesKept
<1>2. QED BY <1>1, PassInvariantHolds, FindsKernels, FusionsReadInOrder, PTL


\* A rule that matches, and what the instruction is for that.
LEMMA RuleOpcodes ==
    ASSUME NEW c, NEW i \in DOMAIN c,
           Opcode(c, i, "convolution") => c[i].dn.input_spatial \in Seq(Nat), NEW r \in 1 .. 9,
           Rules(c, i)[r] # NoMatch
    PROVE  \/ r = 1 /\ Opcode(c, i, "reduce")
           \/ r = 2 /\ Opcode(c, i, "reduce-window") /\ c[i].apply.root = "maximum"
           \/ r = 3 /\ Opcode(c, i, "divide")
           \/ r = 4 /\ Opcode(c, i, "select-and-scatter")
           \/ r = 5 /\ Opcode(c, i, "reduce-window") /\ c[i].apply.root = "add"
           \/ r = 6 /\ Opcode(c, i, "convolution") /\ c[i].dn.input_feature # 1
           \/ r = 7 /\ Opcode(c, i, "convolution") /\ c[i].dn.input_feature = 1
           \/ r = 8 /\ Opcode(c, i, "maximum")
           \/ r = 9 /\ Opcode(c, i, "select")
<1> DEFINE dn == c[i].dn
<1>1. CASE r = 1
  BY <1>1 DEF Rules, FuseReduce
<1>2. CASE r = 2
  BY <1>2 DEF Rules, FuseMaxPoolFprop, ComputationIsTrivialBinop
<1>3. CASE r = 3
  BY <1>3 DEF Rules, FuseAvgPoolFprop
<1>4. CASE r = 4
  BY <1>4 DEF Rules, FuseMaxPoolBprop
<1>5. CASE r = 5
  <2>1. MatchAvgPoolBprop(c, i) # <<>>
    BY <1>5 DEF Rules, FuseAvgPoolBprop
  <2>2. MatchAvgPoolFpropLHS(c, i) # <<>>
    BY <2>1 DEF MatchAvgPoolBprop
  <2>3. QED BY <1>5, <2>2 DEF MatchAvgPoolFpropLHS, ComputationIsTrivialBinop
<1>6. CASE r = 6
  <2> DEFINE format == ReconstructConvolutionDataFormatForBpropData(dn)
  <2>1. Opcode(c, i, "convolution") /\ format # "none"
    BY <1>6 DEF Rules, FuseConvolutionBpropData, ReconstructConvolutionPaddingType
  <2>2. Len(dn.input_spatial) \in Nat
    BY <2>1, LenProperties
  <2>3. dn.input_feature = 2 \/ dn.input_feature = Len(dn.input_spatial) + 2
    BY <2>1 DEF ReconstructConvolutionDataFormatForBpropData
  <2>4. QED BY <1>6, <2>1, <2>2, <2>3
<1>7. CASE r = 7
  <2> DEFINE format == ReconstructConvolutionDataFormatForBpropFilters(dn)
  <2>1. Opcode(c, i, "convolution") /\ format # "none"
    BY <1>7 DEF Rules, FuseConvolutionBpropFilters, ReconstructConvolutionPaddingType
  <2>2. QED BY <1>7, <2>1 DEF ReconstructConvolutionDataFormatForBpropFilters
<1>8. CASE r = 8
  BY <1>8 DEF Rules, FuseRelu
<1>9. CASE r = 9
  BY <1>9 DEF Rules, FuseReluBprop
<1>10. QED BY <1>1, <1>2, <1>3, <1>4, <1>5, <1>6, <1>7, <1>8, <1>9


\* At most one of the nine rules matches an instruction that the visitor has still to
\* visit.
OneRule ==
    \A i \in pending : \A r, s \in 1 .. 9 :
        /\ Rules(computation, i)[r] # NoMatch
        /\ Rules(computation, i)[s] # NoMatch
        => r = s

\* The order in which the rules are tried (ngraph_fusion.cc:62-76) decides nothing,
\* whatever the pass has rewritten before.
THEOREM RulesExclude == Spec => []OneRule
<1>1. PassInvariant => OneRule
  <2> SUFFICES ASSUME PassInvariant, NEW i \in pending,
                      NEW r \in 1 .. 9, Rules(computation, i)[r] # NoMatch,
                      NEW s \in 1 .. 9, Rules(computation, i)[s] # NoMatch
               PROVE  r = s
    BY DEF OneRule
  <2> DEFINE c == computation
             g == given.instructions
  <2>1. /\ WellFormed(g) /\ Rewritten(c, g) /\ i \in DOMAIN c /\ i \in DOMAIN g
        /\ c[i].opcode # "fusion"
    BY ComputationsAssumption DEF PassInvariant, Rewritten, Sound
  <2>2. c[i] = g[i]
    BY <2>1 DEF Rewritten
  <2>3. Opcode(c, i, "convolution") => c[i].dn.input_spatial \in Seq(Nat)
    BY <2>1, <2>2 DEF WellFormed, WellShaped, Opcode
  <2>4. QED BY <2>1, <2>3, RuleOpcodes DEF Opcode
<1>2. QED BY <1>1, PassInvariantHolds, PTL

\* A graph is the kernel of one emitter.
LEMMA OneKernel ==
    ASSUME NEW g, WellFormed(g), NEW i \in DOMAIN g,
           NEW m \in Kernels(g)[i], NEW n \in Kernels(g)[i]
    PROVE  m = n
<1>1. m \in Matches(g, i) /\ n \in Matches(g, i)
  BY KernelsAre
<1>2. PICK r \in 1 .. 9 : m = Rules(g, i)[r] /\ m # NoMatch
  BY <1>1, MatchedParts
<1>3. PICK s \in 1 .. 9 : n = Rules(g, i)[s] /\ n # NoMatch
  BY <1>1, MatchedParts
<1>4. Opcode(g, i, "convolution") => g[i].dn.input_spatial \in Seq(Nat)
  BY DEF WellFormed, WellShaped, Opcode
<1>5. r = s
  BY <1>2, <1>3, <1>4, RuleOpcodes DEF Opcode
<1>6. QED BY <1>2, <1>3, <1>5

\* KernelsRecognised: the emitters in the map are those of the kernels, if those are the
\* ones that are listed of a computation (ngraph_fusion.cc:57-60).
THEOREM KernelsAreRecognised ==
    ASSUME \A g \in Computations : Listed(g)
    PROVE  Spec => []KernelsRecognised
<1>1. PassInvariant /\ PassFindsKernels /\ FusionsAreKernels => KernelsRecognised
  <2> SUFFICES ASSUME PassInvariant, PassFindsKernels, FusionsAreKernels, pending = {}
               PROVE  {<<f, fusion_map[f].kind>> : f \in DOMAIN fusion_map} = given.fused
    BY DEF KernelsRecognised
  <2> DEFINE g == given.instructions
             K == Kernels(g)
             F == {<<f, fusion_map[f].kind>> : f \in DOMAIN fusion_map}
             L == UNION {{<<i, m.emitter.kind>> : m \in K[i]} : i \in DOMAIN g}
  <2>1. WellFormed(g) /\ given.fused = L
    BY ComputationsAssumption DEF PassInvariant, Listed
  <2>2. DOMAIN fusion_map = {i \in DOMAIN g : K[i] # {}}
    BY DEF PassFindsKernels
  <2>3. \A f \in DOMAIN fusion_map : \E m \in K[f] : fusion_map[f] = m.emitter
    BY DEF FusionsAreKernels
  <2>4. \A i \in DOMAIN g : \A m, n \in K[i] : m = n
    BY <2>1, OneKernel
  <2> HIDE DEF K, g
  <2>5. F \subseteq L
    BY <2>2, <2>3
  <2>6. L \subseteq F
    <3> SUFFICES ASSUME NEW i \in DOMAIN g, NEW m \in K[i]
                 PROVE  <<i, m.emitter.kind>> \in F
      OBVIOUS
    <3>1. i \in DOMAIN fusion_map /\ fusion_map[i] = m.emitter
      BY <2>2, <2>3, <2>4
    <3>2. QED BY <3>1
  <2>7. QED BY <2>1, <2>5, <2>6
<1>2. QED BY <1>1, PassInvariantHolds, FindsKernels, PTL


\* What a kernel is given is before its root.
LEMMA InputsBefore ==
    ASSUME NEW g, WellFormed(g), ArgumentsApart(g),
           NEW i \in DOMAIN g, NEW m \in Kernels(g)[i]
    PROVE  /\ Inputs(g, i, m) \in Seq(1 .. i - 1)
           /\ Range(Inputs(g, i, m)) \subseteq 1 .. i - 1
<1> DEFINE L == m.fuse
           arguments == Arguments(g, i, m.emitter.kind)
           S == 1 .. i - 1
<1>1. m \in Matches(g, i) /\ Range(arguments) \cap Range(L) = {}
  BY KernelsAre DEF ArgumentsApart
<1>2. /\ Recognised(g, i, m) /\ Sound(g, Len(g)) /\ Counted(g)
      /\ DOMAIN g = 1 .. Len(g) /\ Len(g) \in Nat
  BY <1>1, MatchedParts, GivenFacts DEF Rewritten
<1>3. Takes(g, i, L, arguments)
  <2>1. PICK r \in 1 .. 9 : m = Rules(g, i)[r] /\ m # NoMatch
    BY <1>1, MatchedParts
  <2>2. Served(g, i, m)
    BY <1>2, <2>1, RulesServe
  <2>3. QED BY <1>1, <2>2 DEF Served
<1>4. ASSUME NEW A, Remain(g, L, A)  PROVE A \subseteq S
  <2> SUFFICES ASSUME NEW x \in A PROVE x \in S
    OBVIOUS
  <2>1. PICK p \in 1 .. Len(L) : x \in Range(g[L[p]].operands)
    BY <1>4 DEF Remain
  <2>2. /\ Walk(g, i, L) /\ L[p] \in DOMAIN g /\ Len(L) \in Nat /\ L[1] = i
    BY <1>2 DEF Recognised, Walk
  <2>3. L[p] = i \/ L[p] < i
    <3>1. p = 1 \/ p \in 2 .. Len(L)
      BY <2>2
    <3> HIDE DEF L
    <3>2. QED BY <1>2, <2>2, <3>1, WalkDown
  <2>4. x \in 1 .. L[p] - 1
    BY <1>2, <2>1, <2>2, ElementsTyped DEF Sound
  <2>5. QED BY <1>2, <2>2, <2>3, <2>4
<1>5. arguments \in Seq(S)
  <2> HIDE DEF L, S
  <2>1. CASE \E a : arguments = <<a>> /\ Remain(g, L, {a})
    <3>1. PICK a : arguments = <<a>> /\ Remain(g, L, {a})
      BY <2>1
    <3>2. a \in S
      BY <3>1, <1>4
    <3>3. <<a>> \in Seq(S)
      BY <3>2
    <3>4. QED BY <3>1, <3>3
  <2>2. CASE \E a, b : arguments = <<a, b>> /\ Remain(g, L, {a, b})
    <3>1. PICK a, b : arguments = <<a, b>> /\ Remain(g, L, {a, b})
      BY <2>2
    <3>2. a \in S /\ b \in S
      BY <3>1, <1>4
    <3>3. <<a, b>> \in Seq(S)
      BY <3>2
    <3>4. QED BY <3>1, <3>3
  <2>3. QED BY <1>3, <2>1, <2>2 DEF Takes
<1>6. Inputs(g, i, m) \in Seq(S)
  <2> HIDE DEF S, arguments
  <2>1. <<>> \in Seq(S)
    OBVIOUS
  <2>2. QED BY <1>5, <2>1, AddedFacts DEF Inputs, arguments
<1>7. QED
  <2> HIDE DEF S
  <2> QED BY <1>6, ElementsTyped DEF S

LEMMA NeedsBefore ==
    ASSUME NEW g, WellFormed(g), ArgumentsApart(g), NEW i \in DOMAIN g
    PROVE  Needs(g, i) \subseteq 1 .. i - 1
<1>1. Range(g[i].operands) \subseteq 1 .. i - 1
  BY ElementsTyped DEF WellFormed
<1>2. \A m \in Kernels(g)[i] : Range(Inputs(g, i, m)) \subseteq 1 .. i - 1
  BY InputsBefore
<1>3. QED BY <1>1, <1>2 DEF Needs

\* The definition of Refusals is one.
LEMMA RefusalsAre ==
    ASSUME NEW g, WellFormed(g), ArgumentsApart(g)
    PROVE  \A i \in DOMAIN g :
              Refusals(g)[i] = (IF Refuses(g, i) THEN {i} ELSE {})
                                  \cup UNION {Refusals(g)[x] : x \in Needs(g, i)}
<1> DEFINE
      n == Len(g)
      Body(f, i) == (IF Refuses(g, i) THEN {i} ELSE {})
                       \cup UNION {f[x] : x \in Needs(g, i)}
      Solves(f, m) == f = [i \in 1 .. m |-> Body(f, i)]
      Solved(m) == \E f : Solves(f, m)
      N == {m \in 0 .. n : Solved(m)}
<1>1. n \in Nat /\ DOMAIN g = 1 .. n
  BY GivenFacts
<1>2. ASSUME NEW f, NEW e, NEW i \in DOMAIN g, \A j \in 1 .. i - 1 : f[j] = e[j]
      PROVE  Body(f, i) = Body(e, i)
  <2>1. Needs(g, i) \subseteq 1 .. i - 1
    BY NeedsBefore
  <2>2. \A x \in Needs(g, i) : f[x] = e[x]
    BY <1>2, <2>1
  <2>3. {f[x] : x \in Needs(g, i)} = {e[x] : x \in Needs(g, i)}
    BY <2>2
  <2>4. QED BY <2>3
<1> HIDE DEF Body, n
<1>3. 0 .. n \subseteq N
  <2>1. 0 \in N
    <3> DEFINE f0 == [i \in 1 .. 0 |-> {}]
    <3>1. f0 = [i \in 1 .. 0 |-> Body(f0, i)]
      <4> DEFINE e0 == [i \in 1 .. 0 |-> Body(f0, i)]
      <4>1. 1 .. 0 = {}
        OBVIOUS
      <4>2. \A i \in 1 .. 0 : f0[i] = e0[i]
        BY <4>1
      <4>3. DOMAIN f0 = 1 .. 0 /\ DOMAIN e0 = 1 .. 0
        OBVIOUS
      <4>4. QED BY <4>2, <4>3
    <3>2. Solved(0)
      <4>1. Solves(f0, 0)
        BY <3>1
      <4> HIDE DEF Solves, f0
      <4> QED BY <4>1
    <3>3. QED
      <4> HIDE DEF Solved
      <4> QED BY <3>2, <1>1
  <2>2. ASSUME NEW m \in 0 .. n - 1, m \in N  PROVE m + 1 \in N
    <3>1. PICK f : Solves(f, m)
      <4>1. Solved(m)
        <5> HIDE DEF Solved
        <5> QED BY <2>2
      <4> HIDE DEF Solves
      <4> QED BY <4>1
    <3> DEFINE e == [i \in 1 .. m + 1 |-> Body(f, i)]
    <3>2. \A i \in 1 .. m : e[i] = f[i]
      BY <3>1
    <3>3. \A i \in 1 .. m + 1 : e[i] = Body(e, i)
      <4> SUFFICES ASSUME NEW i \in 1 .. m + 1 PROVE e[i] = Body(e, i)
        OBVIOUS
      <4>1. i \in DOMAIN g /\ \A j \in 1 .. i - 1 : j \in 1 .. m
        BY <1>1
      <4>2. e[i] = Body(f, i)
        OBVIOUS
      <4>3. \A j \in 1 .. i - 1 : f[j] = e[j]
        BY <4>1, <3>2
      <4> HIDE DEF e
      <4>4. QED BY <4>1, <4>2, <4>3, <1>2
    <3>4. Solves(e, m + 1)
      <4> DEFINE e1 == [i \in 1 .. m + 1 |-> Body(e, i)]
      <4>1. DOMAIN e = 1 .. m + 1 /\ DOMAIN e1 = 1 .. m + 1 /\ \A i \in 1 .. m + 1 : e[i] = e1[i]
        BY <3>3
      <4>2. QED BY <4>1
    <3>5. Solved(m + 1)
      <4> HIDE DEF Solves, e
      <4> QED BY <3>4
    <3>6. QED
      <4> HIDE DEF Solved
      <4> QED BY <3>5, <1>1
  <2>3. QED
    <3> HIDE DEF N
    <3> QED BY <2>1, <2>2, <1>1, IntervalInduction
<1>4. Solved(n)
  <2> HIDE DEF Solved
  <2> QED BY <1>1, <1>3
<1> DEFINE K == CHOOSE f : Solves(f, n)
<1>5. Solves(K, n)
  <2> HIDE DEF Solves
  <2> QED BY <1>4
<1>6. Refusals(g) = K
  BY <1>1 DEF Refusals, Body
<1> HIDE DEF K
<1>7. \A i \in DOMAIN g : K[i] = Body(K, i)
  BY <1>1, <1>5
<1>8. QED BY <1>6, <1>7 DEF Body


\* A handler, and an emitter, that is given nothing makes nothing.
LEMMA NothingOfNothing ==
    /\ \A ins, a : (\E k \in DOMAIN a : a[k] = Missing) => Handled(ins, a) = Missing
    /\ \A e, a : Len(a) < Reads(e.kind) \/ (\E k \in DOMAIN a : a[k] = Missing)
                    => Emit(e, a) = Missing
<1>1. \A ins, a : (\E k \in DOMAIN a : a[k] = Missing) => Handled(ins, a) = Missing
  BY DEF Handled
<1>2. \A e, a : Len(a) < Reads(e.kind) \/ (\E k \in DOMAIN a : a[k] = Missing)
                    => Emit(e, a) = Missing
  BY DEF Emit
<1>3. QED BY <1>1, <1>2

\* The pass is through with the given computation, and has made no mistake.
Fused ==
    /\ PassInvariant /\ PassFindsKernels /\ FusionsAreKernels /\ OperandsAsEmitReads
    /\ ~aborted /\ pending = {}
    /\ ArgumentsApart(given.instructions)

\* What is generated for an instruction that is left is generated for the kernel there, or
\* for the instruction as it was given.
LEMMA GeneratedAt ==
    ASSUME Fused, NEW i \in DOMAIN computation
    PROVE  LET g == given.instructions
               c == computation
           IN  \/ /\ c[i].opcode # "fusion" /\ c[i] = g[i] /\ Kernels(g)[i] = {}
                  /\ Needs(g, i) = Range(c[i].operands)
               \/ /\ c[i].opcode = "fusion"
                  /\ \E m \in Kernels(g)[i] :
                        /\ fusion_map[i] = m.emitter
                        /\ Kernels(g)[i] = {m}
                        /\ c[i].operands = Inputs(g, i, m)
                        /\ Needs(g, i) = Range(c[i].operands)
<1> DEFINE g == given.instructions
           c == computation
<1>1. /\ WellFormed(g) /\ Rewritten(c, g) /\ i \in DOMAIN g
      /\ DOMAIN fusion_map = {j \in DOMAIN c : c[j].opcode = "fusion"}
      /\ DOMAIN fusion_map = {j \in DOMAIN g : Kernels(g)[j] # {}}
  BY ComputationsAssumption DEF Fused, PassInvariant, PassFindsKernels, Rewritten
<1>2. CASE c[i].opcode # "fusion"
  <2>1. c[i] = g[i]
    BY <1>1, <1>2 DEF Rewritten
  <2>2. i \notin DOMAIN fusion_map
    BY <1>1, <1>2
  <2>3. Kernels(g)[i] = {}
    BY <1>1, <2>2
  <2>4. QED BY <1>2, <2>1, <2>3 DEF Needs
<1>3. CASE c[i].opcode = "fusion"
  <2>1. i \in DOMAIN fusion_map
    BY <1>1, <1>3
  <2>2. PICK m \in Kernels(g)[i] : fusion_map[i] = m.emitter
    BY <2>1 DEF Fused, FusionsAreKernels
  <2>3. Kernels(g)[i] = {m}
    BY <1>1, <2>2, OneKernel
  <2>4. c[i].operands = Inputs(g, i, m)
    BY <2>1, <2>2 DEF Fused, OperandsAsEmitReads, Inputs
  <2>5. Needs(g, i) = Range(c[i].operands)
    BY <2>3, <2>4 DEF Needs
  <2>6. QED BY <1>3, <2>2, <2>3, <2>4, <2>5
<1>4. QED BY <1>2, <1>3

\* The function has, at each instruction that is left, the value that was meant, unless
\* something refuses that it needs.
LEMMA FunctionValues ==
    ASSUME Fused, KernelsRight(given.instructions), HandlersRight(given.instructions)
    PROVE  \A i \in DOMAIN computation :
              FunctionOf(computation, fusion_map)[i] =
                 IF Refusals(given.instructions)[i] = {}
                   THEN Value(given.instructions, <<>>)[i] ELSE Missing
<1> DEFINE
      g == given.instructions
      c == computation
      E == fusion_map
      F == FunctionOf(c, E)
      e == <<>>
      W == Value(g, e)
      R == Refusals(g)
      n == Len(g)
<1>1. /\ WellFormed(g) /\ Rewritten(c, g) /\ Sound(c, n) /\ n \in Nat /\ Sound(g, n)
      /\ Counted(g) /\ ArgumentsApart(g)
  <2>1. WellFormed(g) /\ Rewritten(c, g) /\ ArgumentsApart(g)
    BY ComputationsAssumption DEF PassInvariant, Fused
  <2>2. QED BY <2>1, GivenFacts DEF Rewritten
<1> HIDE DEF n, e
<1>2. \A i \in DOMAIN c : F[i] = Made(c, E, F, i)
  BY <1>1, FunctionIs
<1>3. \A i \in DOMAIN g : W[i] = Computed(g, e, W, i)
  <2> HIDE DEF g
  <2> QED BY <1>1, ValueIs
<1>4. \A i \in DOMAIN g : R[i] = (IF Refuses(g, i) THEN {i} ELSE {})
                                    \cup UNION {R[x] : x \in Needs(g, i)}
  <2> HIDE DEF g
  <2> QED BY <1>1, RefusalsAre
<1> HIDE DEF F, W, R
<1> DEFINE Good(i) == F[i] = IF R[i] = {} THEN W[i] ELSE Missing
<1>5. ASSUME NEW i \in DOMAIN c, \A j \in DOMAIN c : j < i => Good(j)
      PROVE  Good(i)
  <2> DEFINE ops == c[i].operands
             args == ValuesOf(W, ops)
             argF == ValuesOf(F, ops)
  <2>1. /\ Range(ops) \subseteq DOMAIN c /\ Range(ops) \subseteq 1 .. i - 1
        /\ i \in Int /\ i \in DOMAIN g
    BY <1>1, ElementsTyped DEF Sound, Rewritten
  <2>2. \A x \in Range(ops) : Good(x)
    BY <2>1, <1>5
  <2>3. /\ Needs(g, i) = Range(ops)
        /\ \/ c[i].opcode # "fusion" /\ c[i] = g[i] /\ Kernels(g)[i] = {}
           \/ c[i].opcode = "fusion"
    BY GeneratedAt
  <2>4. DOMAIN argF = DOMAIN ops /\ \A k \in DOMAIN ops : argF[k] = F[ops[k]] /\ ops[k] \in Range(ops)
    BY DEF ValuesOf, Range
  <2>5. CASE \E x \in Range(ops) : R[x] # {}
    <3>1. R[i] # {}
      BY <2>5, <2>3, <2>1, <1>4
    <3>2. PICK k \in DOMAIN ops : R[ops[k]] # {}
      BY <2>5 DEF Range
    <3>3. argF[k] = Missing
      BY <2>2, <2>4, <3>2
    <3>4. c[i].opcode \notin Sources
      <4>1. SUFFICES ASSUME c[i].opcode \in Sources PROVE FALSE
        OBVIOUS
      <4>2. c[i] = g[i] /\ g[i].opcode \in OperandCounts[0]
        BY <4>1, <2>3 DEF Sources, OperandCounts
      <4>3. Len(ops) = 0 /\ ops \in Seq(1 .. i - 1)
        BY <1>1, <2>1, <4>2 DEF Counted, Sound
      <4>4. DOMAIN ops = {}
        BY <4>3
      <4>5. QED BY <4>4, <3>2
    <3>5. F[i] = IF c[i].opcode = "fusion" THEN Emit(E[i], argF) ELSE Handled(c[i], argF)
      BY <1>2, <3>4 DEF Made, Sources, ValuesOf
    <3>6. F[i] = Missing
      BY <3>3, <3>5, <2>4, NothingOfNothing
    <3>7. QED BY <3>1, <3>6
  <2>6. CASE \A x \in Range(ops) : R[x] = {}
    <3>1. \A x \in Range(ops) : F[x] = W[x]
      BY <2>2, <2>6
    <3>2. F[i] = Made(c, E, W, i)
      BY <1>2, <3>1, ComputedFromOperands
    <3>3. R[i] = IF Refuses(g, i) THEN {i} ELSE {}
      <4>1. UNION {R[x] : x \in Needs(g, i)} = {}
        BY <2>3, <2>6
      <4>2. QED BY <4>1, <1>4, <2>1
    <3>4. CASE c[i].opcode # "fusion"
      <4>1. c[i] = g[i] /\ Kernels(g)[i] = {}
        BY <2>3, <3>4
      <4>2. W[i] = Computed(g, e, W, i)
        BY <1>3, <2>1
      <4>3. CASE c[i].opcode \in Sources
        <5>1. ~Refuses(g, i)
          BY <4>1, <4>3 DEF Refuses
        <5>2. F[i] = W[i]
          BY <3>2, <4>1, <4>2, <4>3 DEF Made, Computed, Sources
        <5>3. QED BY <3>3, <5>1, <5>2
      <4>4. CASE c[i].opcode \notin Sources
        <5>1. F[i] = Handled(g[i], args) /\ W[i] = Meaning(g[i], args)
          BY <3>2, <3>4, <4>1, <4>2, <4>4 DEF Made, Computed, Sources, ValuesOf
        <5>2. Refuses(g, i) <=> Handled(g[i], args) = Missing
          BY <4>1, <4>4 DEF Refuses, W, e
        <5>3. Handled(g[i], args) \in {Meaning(g[i], args), Missing}
          BY <4>1, <4>4, <2>1 DEF HandlersRight, HandlerRight, W, e
        <5>4. QED BY <3>3, <5>1, <5>2, <5>3
      <4>5. QED BY <4>3, <4>4
    <3>5. CASE c[i].opcode = "fusion"
      <4>1. PICK m \in Kernels(g)[i] :
               /\ E[i] = m.emitter
               /\ Kernels(g)[i] = {m}
               /\ ops = Inputs(g, i, m)
        BY <3>5, GeneratedAt
      <4>2. F[i] = Emit(m.emitter, args)
        BY <3>2, <3>5, <4>1 DEF Made, ValuesOf
      <4>3. Refuses(g, i) <=> Emit(m.emitter, args) = Missing
        BY <4>1 DEF Refuses, W, e
      <4>4. \/ Len(ops) < Reads(m.emitter.kind)
            \/ Emit(m.emitter, args) = W[i]
        BY <4>1, <2>1 DEF KernelsRight, KernelRight, W, e
      <4>5. CASE Len(ops) < Reads(m.emitter.kind)
        <5>1. Len(args) = Len(ops)
          <6>1. ops \in Seq(1 .. i - 1)
            BY <1>1 DEF Sound
          <6>2. DOMAIN args = 1 .. Len(ops) /\ Len(ops) \in Nat
            BY <6>1 DEF ValuesOf
          <6>3. args = [k \in 1 .. Len(ops) |-> args[k]]
            BY <6>2 DEF ValuesOf
          <6> HIDE DEF args, ops
          <6>4. args \in Seq({args[k] : k \in 1 .. Len(ops)})
            BY <6>2, <6>3
          <6>5. QED BY <6>2, <6>4
        <5>2. Emit(m.emitter, args) = Missing
          BY <4>5, <5>1, NothingOfNothing
        <5>3. QED BY <3>3, <4>2, <4>3, <5>2
      <4>6. CASE Emit(m.emitter, args) = W[i]
        BY <3>3, <4>2, <4>3, <4>6
      <4>7. QED BY <4>4, <4>5, <4>6
    <3>6. QED BY <3>4, <3>5
  <2>7. QED BY <2>5, <2>6
<1> DEFINE Bad == {i \in DOMAIN c : ~Good(i)}
<1>6. Bad = {}
  <2>1. SUFFICES ASSUME Bad # {} PROVE FALSE
    OBVIOUS
  <2>2. Bad \in SUBSET Nat
    <3>1. DOMAIN c \subseteq 1 .. n
      BY <1>1 DEF Sound
    <3>2. QED BY <3>1, <1>1
  <2>3. PICK i \in Bad : \A j \in Bad : i <= j
    <3> HIDE DEF Bad
    <3> QED BY <2>1, <2>2, LeastNumber
  <2> HIDE DEF Good
  <2>4. \A j \in DOMAIN c : j < i => Good(j)
    <3> SUFFICES ASSUME NEW j \in DOMAIN c, j < i, ~Good(j) PROVE FALSE
      OBVIOUS
    <3>1. j \in Bad
      OBVIOUS
    <3>2. j \in Nat /\ i \in Nat /\ i <= j
      BY <3>1, <2>2, <2>3
    <3>3. QED BY <3>2
  <2>5. QED BY <2>3, <2>4, <1>5
<1>7. \A i \in DOMAIN c : Good(i)
  BY <1>6
<1>8. QED BY <1>7 DEF F, W, R, e

\* EmittedFunctionComputesRoot: the function that is made of the computation after the pass
\* computes its root if nothing refuses that the root needs, and is not made otherwise
\* (ngraph_emitter.cc:144-632, 857-1591, 1594-2205), if each handler and each kernel's
\* emitter is right on the values in the given computation.
THEOREM EmittedFunctionCorrect ==
    ASSUME \A g \in Computations : ArgumentsApart(g.instructions),
           \A g \in Computations : KernelsRight(g.instructions),
           \A g \in Computations : HandlersRight(g.instructions),
           \A g \in Computations : Listed(g)
    PROVE  Spec => []EmittedFunctionComputesRoot
<1>1. PassInvariant /\ PassFindsKernels /\ FusionsAreKernels /\ OperandsAsEmitReads
        => EmittedFunctionComputesRoot
  <2> SUFFICES ASSUME PassInvariant, PassFindsKernels, FusionsAreKernels,
                      OperandsAsEmitReads, pending = {}, ~aborted
               PROVE  FunctionOf(computation, fusion_map)[Root] =
                         IF given.refused THEN Missing
                                          ELSE Value(given.instructions, <<>>)[Root]
    BY DEF EmittedFunctionComputesRoot
  <2> DEFINE g == given.instructions
  <2>1. /\ given \in Computations /\ Root \in DOMAIN computation
    BY DEF PassInvariant
  <2>2. Fused /\ KernelsRight(g) /\ HandlersRight(g)
    BY <2>1 DEF Fused
  <2>3. given.refused = (Refusals(g)[Root] # {})
    BY <2>1 DEF Listed, Root
  <2>4. QED BY <2>1, <2>2, <2>3, FunctionValues
<1>2. QED BY <1>1, PassInvariantHolds, FindsKernels, FusionsReadInOrder, PTL

-----------------------------------------------------------------------------
\* How many operands the opcodes have that an emitter or a handler is given.
LEMMA AllCounts ==
    /\ {"parameter", "constant"} \subseteq OperandCounts[0]
    /\ {"broadcast", "reverse", "transpose"} \subseteq OperandCounts[1]
    /\ {"reduce", "reduce-window", "pad", "add", "multiply", "divide", "maximum",
        "minimum", "gt", "dot", "convolution"} \subseteq OperandCounts[2]
    /\ {"select", "select-and-scatter", "clamp"} \subseteq OperandCounts[3]
BY DEF OperandCounts

\* The operands of a fusion with one argument, and with two.
LEMMA InputsAre ==
    /\ \A a : Added(<<>>, <<a>>) = <<a>>
    /\ \A a, b : Added(<<>>, <<a, b>>) = IF a = b THEN <<a>> ELSE <<a, b>>
<1>1. ASSUME NEW a  PROVE Added(<<>>, <<a>>) = <<a>>
  <2> DEFINE more == <<a>>
  <2>1. DOMAIN more = 1 .. 1 /\ more[1] = a
    OBVIOUS
  <2>2. Plus(<<>>, a) = <<a>>
    BY DEF Plus, Contains
  <2> HIDE DEF more
  <2>3. PICK h : /\ h[0] = <<>>
                 /\ \A k \in 1 .. 1 : h[k] = Plus(h[k - 1], more[k])
                 /\ Added(<<>>, more) = h[1]
    <3> DEFINE n == 1
               none == <<>>
    <3>1. n \in Nat /\ DOMAIN more = 1 .. n
      BY <2>1
    <3> HIDE DEF n, none
    <3>2. \E h : /\ h[0] = none
                 /\ \A k \in 1 .. n : h[k] = Plus(h[k - 1], more[k])
                 /\ Added(none, more) = h[n]
      BY <3>1, AddedSteps
    <3>3. QED BY <3>2 DEF n, none
  <2>4. h[1] = Plus(h[0], more[1])
    BY <2>3
  <2>5. QED BY <2>1, <2>2, <2>3, <2>4 DEF more
<1>2. ASSUME NEW a, NEW b
      PROVE  Added(<<>>, <<a, b>>) = IF a = b THEN <<a>> ELSE <<a, b>>
  <2> DEFINE more == <<a, b>>
  <2>1. DOMAIN more = 1 .. 2 /\ more[1] = a /\ more[2] = b
    OBVIOUS
  <2>2. Plus(<<>>, a) = <<a>>
    BY DEF Plus, Contains
  <2>3. Plus(<<a>>, b) = IF a = b THEN <<a>> ELSE <<a, b>>
    <3>1. Contains(<<a>>, b) <=> a = b
      BY DEF Contains
    <3>2. Append(<<a>>, b) = <<a, b>>
      <4> DEFINE S == {a, b}
                 t == Append(<<a>>, b)
      <4>1. <<a>> \in Seq(S) /\ b \in S /\ <<a, b>> \in Seq(S) /\ Len(<<a>>) = 1
        OBVIOUS
      <4>2. t \in Seq(S) /\ Len(t) = 2 /\ t[1] = a /\ t[2] = b
        <5>1. /\ t \in Seq(S) /\ Len(t) = Len(<<a>>) + 1
              /\ \A k \in 1 .. Len(<<a>>) : t[k] = <<a>>[k]
              /\ t[Len(<<a>>) + 1] = b
          <6> HIDE DEF S
          <6> QED BY <4>1, AppendProperties
        <5>2. QED BY <4>1, <5>1
      <4>3. Len(<<a, b>>) = 2 /\ <<a, b>>[1] = a /\ <<a, b>>[2] = b /\ 1 .. 2 = {1, 2}
        OBVIOUS
      <4> DEFINE u == <<a, b>>
      <4> HIDE DEF t, u
      <4>4. Len(t) = Len(u) /\ \A k \in 1 .. Len(t) : t[k] = u[k]
        BY <4>2, <4>3 DEF u
      <4>5. t = u
        <5> HIDE DEF S
        <5> QED BY <4>1, <4>2, <4>4, SeqEqual DEF u
      <4>6. QED BY <4>5 DEF t, u
    <3>3. QED BY <3>1, <3>2 DEF Plus
  <2> HIDE DEF more
  <2>4. PICK h : /\ h[0] = <<>>
                 /\ \A k \in 1 .. 2 : h[k] = Plus(h[k - 1], more[k])
                 /\ Added(<<>>, more) = h[2]
    <3> DEFINE n == 2
               none == <<>>
    <3>1. n \in Nat /\ DOMAIN more = 1 .. n
      BY <2>1
    <3> HIDE DEF n, none
    <3>2. \E h : /\ h[0] = none
                 /\ \A k \in 1 .. n : h[k] = Plus(h[k - 1], more[k])
                 /\ Added(none, more) = h[n]
      BY <3>1, AddedSteps
    <3>3. QED BY <3>2 DEF n, none
  <2>5. h[1] = Plus(h[0], more[1]) /\ h[2] = Plus(h[1], more[2])
    BY <2>4
  <2>6. QED BY <2>1, <2>2, <2>3, <2>4, <2>5 DEF more
<1>3. QED BY <1>1, <1>2

\* A rule's emitters are of one kind.
LEMMA RuleKinds ==
    ASSUME NEW c, NEW i, NEW r \in 1 .. 9, Rules(c, i)[r] # NoMatch
    PROVE  Rules(c, i)[r].emitter.kind =
              <<"reduction", "max-pool", "avg-pool", "max-pool-backprop",
                "avg-pool-backprop", "conv-backprop-input", "conv-backprop-filters",
                "relu", "relu-backprop">>[r]
<1>1. CASE r = 1
  BY <1>1 DEF Rules, FuseReduce, Match, NoEmitter
<1>2. CASE r = 2
  BY <1>2 DEF Rules, FuseMaxPoolFprop, Match, PoolEmitter, NoEmitter
<1>3. CASE r = 3
  BY <1>3 DEF Rules, FuseAvgPoolFprop, Match, PoolEmitter, NoEmitter
<1>4. CASE r = 4
  BY <1>4 DEF Rules, FuseMaxPoolBprop, Match, PoolEmitter, NoEmitter
<1>5. CASE r = 5
  BY <1>5 DEF Rules, FuseAvgPoolBprop, Match, PoolEmitter, NoEmitter
<1>6. CASE r = 6
  BY <1>6 DEF Rules, FuseConvolutionBpropData, Match, ConvEmitter, NoEmitter
<1>7. CASE r = 7
  BY <1>7 DEF Rules, FuseConvolutionBpropFilters, Match, ConvEmitter, NoEmitter
<1>8. CASE r = 8
  BY <1>8 DEF Rules, FuseRelu, Match, NoEmitter
<1>9. CASE r = 9
  BY <1>9 DEF Rules, FuseReluBprop, Match, NoEmitter
<1>10. QED BY <1>1, <1>2, <1>3, <1>4, <1>5, <1>6, <1>7, <1>8, <1>9

\* What an instruction of a given computation computes.
LEMMA Operated ==
    ASSUME NEW g, WellFormed(g), NEW i \in DOMAIN g
    PROVE  LET value == Value(g, <<>>)
           IN  /\ g[i].opcode = "constant" =>
                     value[i] = Constant(g[i].shape, g[i].literal)
               /\ g[i].opcode \notin Sources =>
                     value[i] = Meaning(g[i], ValuesOf(value, g[i].operands))
<1> DEFINE value == Value(g, <<>>)
<1>1. Sound(g, Len(g)) /\ Len(g) \in Nat /\ g[i].opcode # "fusion"
  BY GivenFacts DEF Rewritten
<1>2. value[i] = Computed(g, <<>>, value, i)
  BY <1>1, ValueIs
<1>3. ValuesOf(value, g[i].operands) =
         [k \in DOMAIN g[i].operands |-> value[g[i].operands[k]]]
  BY DEF ValuesOf
<1> HIDE DEF value
<1>4. g[i].opcode = "constant" => value[i] = Constant(g[i].shape, g[i].literal)
  BY <1>2 DEF Computed
<1>5. g[i].opcode \notin Sources =>
         value[i] = Meaning(g[i], ValuesOf(value, g[i].operands))
  BY <1>1, <1>2, <1>3 DEF Computed, Sources
<1>6. QED BY <1>4, <1>5 DEF value

\* The operands of an instruction, by the number that its opcode has, and their values.
LEMMA OperandValues ==
    ASSUME NEW g, WellFormed(g), NEW i \in DOMAIN g, NEW n \in 1 .. 3,
           g[i].opcode \in OperandCounts[n], NEW k \in 1 .. n, NEW value
    PROVE  /\ Operand(g, i, k) \in DOMAIN g
           /\ Operand(g, i, k) = g[i].operands[k]
           /\ ValuesOf(value, g[i].operands)[k] = value[Operand(g, i, k)]
<1>1. Sound(g, Len(g)) /\ Len(g) \in Nat /\ Counted(g)
  BY GivenFacts DEF Rewritten
<1>2. Operand(g, i, k) \in DOMAIN g /\ Operand(g, i, k) = g[i].operands[k]
  BY <1>1, OperandFacts
<1>3. k \in DOMAIN g[i].operands
  <2>1. n \in 0 .. 3
    OBVIOUS
  <2>2. Len(g[i].operands) = n
    BY <1>1, <2>1 DEF Counted
  <2>3. g[i].operands \in Seq(1 .. i - 1)
    BY <1>1 DEF Sound
  <2>4. DOMAIN g[i].operands = 1 .. n
    BY <2>2, <2>3
  <2>5. QED BY <2>4
<1>4. QED BY <1>2, <1>3 DEF ValuesOf

\* The values of the instructions, by their shapes.
LEMMA TypedValue ==
    ASSUME NEW g, ShapesInferred(g), NEW i \in DOMAIN g
    PROVE  /\ g[i].shape \in Shapes
           /\ Value(g, <<>>)[i] \in [Index(g[i].shape) -> Int]
           /\ Value(g, <<>>)[i] # Missing
           /\ ShapeOf(Value(g, <<>>)[i]) = g[i].shape
           /\ Inferred(g, i)
<1>1. /\ g[i].shape \in Shapes /\ Value(g, <<>>)[i] \in [Index(g[i].shape) -> Int]
      /\ Inferred(g, i)
  BY DEF ShapesInferred, Shapes
<1>2. QED BY <1>1, TensorOf

\* A zero, and a broadcast of one, is zero everywhere.
LEMMA ZeroValue ==
    ASSUME NEW g, WellFormed(g), ShapesInferred(g), NEW k \in DOMAIN g,
           MatchBroadcastedZero(g, k) # <<>>
    PROVE  \A j \in Index(g[k].shape) : Value(g, <<>>)[k][j] = 0
<1> DEFINE value == Value(g, <<>>)
           z == Operand(g, k, 1)
<1>1. \A s : Constant(s, 0) = [j \in Index(s) |-> 0]
  BY DEF Constant
<1>2. CASE g[k].opcode = "broadcast"
  <2>1. g[z].opcode = "constant" /\ g[z].literal = 0
    <3> DEFINE path == <<k, z>>
    <3>1. path[Len(path)] = z
      OBVIOUS
    <3>2. IsAll(g, path[Len(path)], 0)
      BY <1>2 DEF MatchBroadcastedZero, Broadcasted, Opcode
    <3> HIDE DEF z, path
    <3>3. QED BY <3>1, <3>2 DEF IsAll, Opcode
  <2>2. z \in DOMAIN g /\ ValuesOf(value, g[k].operands)[1] = value[z]
    <3>1. g[k].opcode \in OperandCounts[1] /\ 1 \in 1 .. 3 /\ 1 \in 1 .. 1
      BY <1>2, AllCounts
    <3> HIDE DEF value
    <3>2. QED BY <3>1, OperandValues
  <2> DEFINE s == g[z].shape
             t == g[k].shape
             D == g[k].dimensions
  <2>3. value[z] = [j \in Index(s) |-> 0]
    BY <1>1, <2>1, <2>2, Operated
  <2>4. value[k] = Broadcast(t, value[z], D)
    <3>1. value[k] = Meaning(g[k], ValuesOf(value, g[k].operands))
      BY <1>2, Operated DEF Sources
    <3> HIDE DEF value, z
    <3>2. QED BY <1>2, <2>2, <3>1 DEF Meaning
  <2>5. /\ s \in Shapes /\ t \in Shapes /\ DOMAIN D = DOMAIN s
        /\ \A d \in DOMAIN s : D[d] \in DOMAIN t /\ s[d] = t[D[d]]
    <3>1. Inferred(g, k) /\ s \in Shapes /\ t \in Shapes
      BY <2>2, TypedValue
    <3> HIDE DEF z
    <3>2. /\ D \in [DOMAIN s -> DOMAIN t]
          /\ \A d \in DOMAIN s : s[d] = t[D[d]]
      BY <1>2, <3>1 DEF Inferred, Opcode, z
    <3> HIDE DEF s, t, D
    <3>3. QED BY <3>1, <3>2
  <2> HIDE DEF value, z, s, t, D
  <2>6. ASSUME NEW j \in Index(t)  PROVE value[k][j] = 0
    <3> DEFINE at == [d \in DOMAIN D |-> j[D[d]]]
    <3>1. DOMAIN s = 1 .. Len(s) /\ DOMAIN t = 1 .. Len(t)
      BY <2>5 DEF Shapes
    <3>2. \A d \in 1 .. Len(t) : j[d] \in Nat /\ j[d] < t[d]
      BY <2>5, IndexFacts
    <3>3. DOMAIN at = 1 .. Len(s) /\ at = [d \in DOMAIN at |-> at[d]]
      BY <2>5, <3>1
    <3>4. \A d \in 1 .. Len(s) : at[d] \in Nat /\ at[d] < s[d]
      BY <2>5, <3>1, <3>2
    <3>5. value[k][j] = value[z][at]
      BY <2>4 DEF Broadcast
    <3> HIDE DEF at
    <3>6. at \in Index(s)
      BY <2>5, <3>3, <3>4, IndexMade
    <3>7. QED BY <2>3, <3>5, <3>6
  <2>7. QED BY <2>6 DEF value, t
<1>3. CASE g[k].opcode # "broadcast"
  <2> DEFINE path == <<k>>
  <2>1. path[Len(path)] = k
    OBVIOUS
  <2>2. IsAll(g, path[Len(path)], 0)
    BY <1>3 DEF MatchBroadcastedZero, Broadcasted, Opcode
  <2> HIDE DEF path
  <2>3. g[k].opcode = "constant" /\ g[k].literal = 0
    BY <2>1, <2>2 DEF IsAll, Opcode
  <2>4. value[k] = [j \in Index(g[k].shape) |-> 0]
    BY <1>1, <2>3, Operated
  <2> HIDE DEF value
  <2>5. QED BY <2>4 DEF value
<1>4. QED BY <1>2, <1>3

\* What an emitter makes of one argument, and of two.
LEMMA EmitsOfOne ==
    ASSUME NEW value, NEW a, value[a] # Missing, NEW e,
           e.kind \in {"reduction", "relu", "max-pool"}
    PROVE  Emit(e, ValuesOf(value, <<a>>)) =
              CASE e.kind = "reduction" -> Reduction(e.opcode, value[a], e.dimensions)
                [] e.kind = "relu" -> Relu(value[a])
                [] e.kind = "max-pool" -> Pooling(e, value[a])
<1> DEFINE args == ValuesOf(value, <<a>>)
           x == value[a]
<1>1. DOMAIN args = 1 .. 1 /\ args = [k \in 1 .. 1 |-> args[k]] /\ args[1] = x
  <2>1. DOMAIN <<a>> = 1 .. 1 /\ <<a>>[1] = a
    OBVIOUS
  <2> DEFINE s == <<a>>
  <2> HIDE DEF s
  <2>2. ValuesOf(value, s) = [k \in DOMAIN s |-> value[s[k]]]
    BY DEF ValuesOf
  <2>3. QED BY <2>1, <2>2 DEF s
<1> HIDE DEF args, x
<1>2. Len(args) = 1
  <2>1. args \in [1 .. 1 -> {x}]
    BY <1>1
  <2>2. QED BY <2>1
<1>3. Reads(e.kind) = 1
  BY DEF Reads
<1>4. ~(Len(args) < Reads(e.kind) \/ \E k \in DOMAIN args : args[k] = Missing)
  BY <1>1, <1>2, <1>3 DEF x
<1>5. CASE e.kind = "reduction"
  BY <1>1, <1>4, <1>5 DEF Emit, args, x
<1>6. CASE e.kind = "relu"
  BY <1>1, <1>4, <1>6 DEF Emit, args, x
<1>7. CASE e.kind = "max-pool"
  BY <1>1, <1>4, <1>7 DEF Emit, args, x
<1>8. QED BY <1>5, <1>6, <1>7

LEMMA EmitsOfTwo ==
    ASSUME NEW value, NEW a, NEW b, value[a] # Missing, value[b] # Missing, NEW e,
           e.kind \in {"relu-backprop", "max-pool-backprop"}
    PROVE  Emit(e, ValuesOf(value, <<a, b>>)) =
              CASE e.kind = "relu-backprop" -> ReluBackprop(value[b], value[a])
                [] e.kind = "max-pool-backprop" ->
                      MaxPoolBackpropOf(e, value[a], value[b])
<1> DEFINE args == ValuesOf(value, <<a, b>>)
           x == value[a]
           y == value[b]
<1>1. DOMAIN args = 1 .. 2 /\ args = [k \in 1 .. 2 |-> args[k]]
      /\ args[1] = x /\ args[2] = y
  <2>1. DOMAIN <<a, b>> = 1 .. 2 /\ <<a, b>>[1] = a /\ <<a, b>>[2] = b
    OBVIOUS
  <2> DEFINE s == <<a, b>>
  <2> HIDE DEF s
  <2>2. ValuesOf(value, s) = [k \in DOMAIN s |-> value[s[k]]]
    BY DEF ValuesOf
  <2>3. QED BY <2>1, <2>2 DEF s
<1> HIDE DEF args, x, y
<1>2. Len(args) = 2
  <2>1. args \in [1 .. 2 -> {x, y}]
    BY <1>1
  <2>2. QED BY <2>1
<1>3. Reads(e.kind) = 2
  BY DEF Reads
<1>4. ~(Len(args) < Reads(e.kind) \/ \E k \in DOMAIN args : args[k] = Missing)
  BY <1>1, <1>2, <1>3 DEF x, y
<1>5. CASE e.kind = "relu-backprop"
  BY <1>1, <1>4, <1>5 DEF Emit, args, x, y
<1>6. CASE e.kind = "max-pool-backprop"
  BY <1>1, <1>4, <1>6 DEF Emit, args, x, y
<1>7. QED BY <1>5, <1>6

\* The emitter of a reduction folds from the identity of its function, which the rule
\* has seen to be the initial value.
LEMMA ReductionRight ==
    ASSUME NEW g, WellFormed(g), ShapesInferred(g), NEW i \in DOMAIN g,
           NEW m, m = FuseReduce(g, i), m # NoMatch
    PROVE  KernelRight(g, i, m)
<1> DEFINE value == Value(g, <<>>)
           a == Operand(g, i, 1)
           k == Operand(g, i, 2)
           e == m.emitter
           root == g[i].apply.root
           D == g[i].dimensions
<1>1. PICK op \in DOMAIN Identity :
         /\ g[i].opcode = "reduce" /\ root = op /\ IsAll(g, k, Identity[op])
         /\ e = [NoEmitter EXCEPT !.kind = "reduction", !.opcode = root,
                                  !.dimensions = D]
  BY DEF FuseReduce, Opcode, Match, ComputationIsTrivialBinop
<1>2. e.kind = "reduction" /\ e.opcode = root /\ e.dimensions = D
  BY <1>1 DEF NoEmitter
<1>3. /\ a \in DOMAIN g /\ ValuesOf(value, g[i].operands)[1] = value[a]
      /\ k \in DOMAIN g /\ ValuesOf(value, g[i].operands)[2] = value[k]
  <2>1. g[i].opcode \in OperandCounts[2] /\ 2 \in 1 .. 3 /\ 1 \in 1 .. 2 /\ 2 \in 1 .. 2
    BY <1>1, AllCounts
  <2> HIDE DEF value
  <2>2. QED BY <2>1, OperandValues
<1>4. Inputs(g, i, m) = <<a>>
  <2>1. Arguments(g, i, "reduction") = <<a>>
    BY DEF Arguments
  <2> HIDE DEF a, e
  <2>2. QED BY <1>2, <2>1, InputsAre DEF Inputs, e
<1>5. g[k].shape = <<>> /\ g[i].shape = Without(g[a].shape, Range(D))
  <2>1. Inferred(g, i)
    BY TypedValue
  <2>2. QED BY <1>1, <2>1 DEF Inferred, Opcode
<1>6. value[k] = Constant(<<>>, Identity[op])
  <2> HIDE DEF k
  <2>1. g[k].opcode = "constant" /\ g[k].literal = Identity[op]
    BY <1>1 DEF IsAll, Opcode
  <2>2. QED BY <1>3, <1>5, <2>1, Operated
<1>7. value[a] # Missing /\ ShapeOf(value[a]) = g[a].shape
  BY <1>3, TypedValue
<1>8. value[i] = ReduceDimensions(g[i].shape, root, value[a], value[k], D)
  <2>1. value[i] = Meaning(g[i], ValuesOf(value, g[i].operands))
    BY <1>1, Operated DEF Sources
  <2> HIDE DEF value, a, k
  <2>2. QED BY <1>1, <1>3, <2>1 DEF Meaning
<1>9. Emit(e, ValuesOf(value, <<a>>)) = Reduction(root, value[a], D)
  <2> HIDE DEF value, a, e, root, D
  <2> QED BY <1>2, <1>7, EmitsOfOne
<1>10. Reduction(root, value[a], D)
          = ReduceDimensions(g[i].shape, root, value[a], Constant(<<>>, Identity[op]), D)
  <2> HIDE DEF value, a, D, root
  <2>1. op \in {"add", "multiply", "maximum"}
    BY DEF Identity
  <2>2. Identity[op] = CASE op = "add" -> 0
                         [] op = "multiply" -> 1
                         [] op = "maximum" -> MinValue
    BY <2>1 DEF Identity
  <2>3. QED BY <1>1, <1>5, <1>7, <2>2 DEF Reduction
<1> HIDE DEF value, a, k, e, root, D
<1>11. Emit(e, ValuesOf(value, <<a>>)) = value[i]
  BY <1>6, <1>8, <1>9, <1>10
<1>12. QED BY <1>4, <1>11 DEF KernelRight, value, e

\* The emitter of a rectifier is given what the greater of zeros and it is taken of.
LEMMA ReluRight ==
    ASSUME NEW g, WellFormed(g), ShapesInferred(g), NEW i \in DOMAIN g,
           NEW m, m = FuseRelu(g, i), m # NoMatch, ArgumentsOfShape(g, i, m)
    PROVE  KernelRight(g, i, m)
<1> DEFINE value == Value(g, <<>>)
           z == Operand(g, i, 1)
           a == Operand(g, i, 2)
           e == m.emitter
           shape == g[i].shape
           s == g[z].shape
<1>1. /\ g[i].opcode = "maximum" /\ MatchBroadcastedZero(g, z) # <<>>
      /\ e = [NoEmitter EXCEPT !.kind = "relu"]
  BY DEF FuseRelu, Opcode, Match
<1>2. e.kind = "relu"
  BY <1>1 DEF NoEmitter
<1>3. /\ z \in DOMAIN g /\ ValuesOf(value, g[i].operands)[1] = value[z]
      /\ a \in DOMAIN g /\ ValuesOf(value, g[i].operands)[2] = value[a]
  <2>1. g[i].opcode \in OperandCounts[2] /\ 2 \in 1 .. 3 /\ 1 \in 1 .. 2 /\ 2 \in 1 .. 2
    BY <1>1, AllCounts
  <2> HIDE DEF value
  <2>2. QED BY <2>1, OperandValues
<1>4. Arguments(g, i, e.kind) = <<a>> /\ Inputs(g, i, m) = <<a>>
  <2>1. Arguments(g, i, "relu") = <<a>>
    BY DEF Arguments
  <2> HIDE DEF a, e
  <2>2. QED BY <1>2, <2>1, InputsAre DEF Inputs, e
<1>5. g[a].shape = shape
  <2>1. a \in Range(<<a>>)
    BY DEF Range
  <2> HIDE DEF a
  <2>2. QED BY <1>4, <2>1 DEF ArgumentsOfShape, e
<1>6. /\ s \in Shapes /\ shape \in Shapes /\ Len(s) <= Len(shape)
      /\ \A d \in DOMAIN s : s[d] \in {1, shape[Len(shape) - Len(s) + d]}
  <2>1. s \in Shapes /\ shape \in Shapes /\ Inferred(g, i)
    BY <1>3, TypedValue
  <2>2. 1 \in 1 .. 2
    OBVIOUS
  <2> HIDE DEF z
  <2>3. QED BY <1>1, <2>1, <2>2 DEF Inferred, Opcode, Rank, z
<1>7. /\ value[z] \in [Index(s) -> Int] /\ \A j \in Index(s) : value[z][j] = 0
      /\ value[a] \in [Index(shape) -> Int] /\ value[a] # Missing
  BY <1>1, <1>3, <1>5, TypedValue, ZeroValue
<1>8. value[i] = Elementwise("maximum", shape, value[z], value[a])
  <2>1. value[i] = Meaning(g[i], ValuesOf(value, g[i].operands))
    BY <1>1, Operated DEF Sources
  <2> HIDE DEF value, a, z
  <2>2. QED BY <1>1, <1>3, <2>1 DEF Meaning
<1>9. Emit(e, ValuesOf(value, <<a>>)) = Relu(value[a])
  <2> HIDE DEF value, a, e
  <2> QED BY <1>2, <1>7, EmitsOfOne
<1> HIDE DEF value, a, e, z, s, shape
<1>10. Elementwise("maximum", shape, value[z], value[a]) = Relu(value[a])
  BY <1>6, <1>7, ReluOf
<1>11. QED BY <1>4, <1>8, <1>9, <1>10 DEF KernelRight, value, e

\* The emitter of a rectifier's gradient takes the features last.
LEMMA ReluBackpropRight ==
    ASSUME NEW g, WellFormed(g), ShapesInferred(g), NEW i \in DOMAIN g,
           NEW m, m = FuseReluBprop(g, i), m # NoMatch, ArgumentsOfShape(g, i, m)
    PROVE  KernelRight(g, i, m)
<1> DEFINE value == Value(g, <<>>)
           pred == Operand(g, i, 1)
           b == Operand(g, i, 2)
           a == Operand(g, pred, 1)
           z == Operand(g, pred, 2)
           e == m.emitter
           shape == g[i].shape
<1>1. /\ g[i].opcode = "select" /\ g[pred].opcode = "gt"
      /\ g[z].opcode = "broadcast" /\ IsAll(g, Operand(g, z, 1), 0)
      /\ Operand(g, i, 3) = z
      /\ e = [NoEmitter EXCEPT !.kind = "relu-backprop"]
  BY DEF FuseReluBprop, Opcode, Match
<1>2. e.kind = "relu-backprop"
  BY <1>1 DEF NoEmitter
<1>3. /\ pred \in DOMAIN g /\ ValuesOf(value, g[i].operands)[1] = value[pred]
      /\ b \in DOMAIN g /\ ValuesOf(value, g[i].operands)[2] = value[b]
      /\ z \in DOMAIN g /\ ValuesOf(value, g[i].operands)[3] = value[z]
  <2>1. g[i].opcode \in OperandCounts[3] /\ 3 \in 1 .. 3 /\ 1 \in 1 .. 3 /\ 2 \in 1 .. 3
    BY <1>1, AllCounts
  <2> HIDE DEF value, z
  <2>2. QED BY <1>1, <2>1, OperandValues
<1>4. /\ a \in DOMAIN g /\ ValuesOf(value, g[pred].operands)[1] = value[a]
      /\ ValuesOf(value, g[pred].operands)[2] = value[z]
  <2> HIDE DEF value, pred
  <2>1. g[pred].opcode \in OperandCounts[2] /\ 2 \in 1 .. 3 /\ 1 \in 1 .. 2 /\ 2 \in 1 .. 2
    BY <1>1, AllCounts
  <2>2. QED BY <1>3, <2>1, OperandValues
<1>5. /\ Arguments(g, i, e.kind) = <<b, a>>
      /\ Inputs(g, i, m) = IF b = a THEN <<b>> ELSE <<b, a>>
  <2>1. Arguments(g, i, "relu-backprop") = <<b, a>>
    BY DEF Arguments
  <2> HIDE DEF a, b, e
  <2>2. QED BY <1>2, <2>1, InputsAre DEF Inputs, e
<1>6. CASE b = a
  <2>1. Reads(e.kind) = 2
    BY <1>2 DEF Reads
  <2> HIDE DEF a, b, e
  <2>2. Len(<<b>>) = 1
    OBVIOUS
  <2>3. QED BY <1>5, <1>6, <2>1, <2>2 DEF KernelRight, e
<1>7. CASE b # a
  <2>1. g[a].shape = shape /\ g[b].shape = shape
    <3>1. a \in Range(<<b, a>>) /\ b \in Range(<<b, a>>)
      BY DEF Range
    <3> HIDE DEF a, b
    <3>2. QED BY <1>5, <3>1 DEF ArgumentsOfShape, e
  <2>2. shape \in Shapes /\ g[z].shape = shape
    <3>1. shape \in Shapes /\ Inferred(g, i)
      BY TypedValue
    <3> HIDE DEF z
    <3>2. QED BY <1>1, <3>1 DEF Inferred, Opcode
  <2>3. MatchBroadcastedZero(g, z) # <<>>
    <3> DEFINE path == <<z, Operand(g, z, 1)>>
    <3>1. path[Len(path)] = Operand(g, z, 1) /\ path # <<>>
      OBVIOUS
    <3>2. Opcode(g, path[Len(path)], "constant") /\ IsAll(g, path[Len(path)], 0)
      BY <1>1, <3>1 DEF IsAll
    <3> HIDE DEF z
    <3>3. MatchBroadcastedZero(g, z) = path
      BY <1>1, <3>2 DEF MatchBroadcastedZero, Broadcasted, Opcode
    <3>4. QED BY <3>1, <3>3
  <2>4. /\ value[z] \in [Index(shape) -> Int]
        /\ \A j \in Index(shape) : value[z][j] = 0
        /\ value[a] \in [Index(shape) -> Int] /\ value[a] # Missing
        /\ value[b] \in [Index(shape) -> Int] /\ value[b] # Missing
    BY <1>3, <1>4, <2>1, <2>2, <2>3, TypedValue, ZeroValue
  <2>5. value[pred] = Elementwise("gt", g[pred].shape, value[a], value[z])
    <3>1. value[pred] = Meaning(g[pred], ValuesOf(value, g[pred].operands))
      BY <1>1, <1>3, Operated DEF Sources
    <3> HIDE DEF value, a, z, pred
    <3>2. QED BY <1>1, <1>4, <3>1 DEF Meaning
  <2>6. value[i] = Select(value[pred], value[b], value[z])
    <3>1. value[i] = Meaning(g[i], ValuesOf(value, g[i].operands))
      BY <1>1, Operated DEF Sources
    <3> HIDE DEF value, b, z, pred
    <3>2. QED BY <1>1, <1>3, <3>1 DEF Meaning
  <2>7. Emit(e, ValuesOf(value, <<b, a>>)) = ReluBackprop(value[a], value[b])
    <3> HIDE DEF value, a, b, e
    <3> QED BY <1>2, <2>4, EmitsOfTwo
  <2>8. Select(Elementwise("gt", g[pred].shape, value[a], value[z]), value[b], value[z])
           = ReluBackprop(value[a], value[b])
    <3> HIDE DEF value, a, b, e, z, pred, shape
    <3> QED BY <2>2, <2>4, ReluBackpropOf
  <2> HIDE DEF value, a, b, e, z, pred, shape
  <2>9. Emit(e, ValuesOf(value, <<b, a>>)) = value[i]
    BY <2>5, <2>6, <2>7, <2>8
  <2>10. QED BY <1>5, <1>7, <2>9 DEF KernelRight, value, e
<1>8. QED BY <1>6, <1>7

\* What a rule that names a pool's data format says of the emitter.
LEMMA PoolEmitterFacts ==
    ASSUME NEW kind, NEW window, NEW format
    PROVE  LET e == PoolEmitter(kind, window, format)
           IN  /\ e.kind = kind /\ e.window = window
               /\ e.nchw = (format = "NCHW")
BY DEF PoolEmitter, NoEmitter

\* The sizes of nGraph's pool are those of XLA's reduction over windows.
LEMMA PooledShape ==
    ASSUME NEW s \in Shapes, NEW window \in Seq(WindowDimensions), Undilated(window),
           Len(window) = Len(s), NEW w, Spatial(w) = window
    PROVE  Pooled(s, w) = [d \in DOMAIN s |-> WindowedSize(s[d], window[d])]
<1>1. DOMAIN s = 1 .. Len(s) /\ \A d \in DOMAIN s : s[d] \in Nat
  BY DEF Shapes
<1>2. ASSUME NEW d \in DOMAIN s
      PROVE  (s[d] + window[d].low + window[d].high - window[d].size)
                 \div window[d].stride + 1 = WindowedSize(s[d], window[d])
  <2> DEFINE v == window[d]
             n == s[d]
  <2>1. v \in WindowDimensions /\ v.dilation = 1 /\ v.base = 1
    BY <1>1 DEF Undilated
  <2>2. n \in Int
    BY <1>1
  <2> HIDE DEF v, n
  <2>0. v.low \in Int /\ v.high \in Int /\ v.size \in Int
    BY <2>1 DEF WindowDimensions
  <2>3. (n - 1) * v.base + 1 + v.low + v.high - ((v.size - 1) * v.dilation + 1)
           = n + v.low + v.high - v.size
    <3>1. (n - 1) * v.base = n - 1 /\ (v.size - 1) * v.dilation = v.size - 1
      BY <2>0, <2>1, <2>2
    <3>2. QED BY <2>0, <2>2, <3>1
  <2>4. WindowedSize(n, v) = (n + v.low + v.high - v.size) \div v.stride + 1
    BY <2>3 DEF WindowedSize
  <2>5. QED BY <2>4 DEF v, n
<1>3. Pooled(s, w) = [d \in DOMAIN s |->
         (s[d] + window[d].low + window[d].high - window[d].size)
             \div window[d].stride + 1]
  BY DEF Pooled
<1>4. QED BY <1>2, <1>3

\* The emitter of a max-pool's gradient in NCHW scatters where the windows' largest
\* elements are.
LEMMA MaxPoolBackpropRight ==
    ASSUME NEW g, WellFormed(g), ShapesInferred(g), NEW i \in DOMAIN g,
           NEW m, m = FuseMaxPoolBprop(g, i), m # NoMatch,
           Undilated(g[i].window), m.emitter.nchw
    PROVE  KernelRight(g, i, m)
<1> DEFINE value == Value(g, <<>>)
           a == Operand(g, i, 1)
           b == Operand(g, i, 2)
           k == Operand(g, i, 3)
           e == m.emitter
           window == g[i].window
           format == ReconstructDataFormatFromPoolingWindow(window)
           w == XlaWindowToNGraph(window, TRUE)
<1>1. /\ g[i].opcode = "select-and-scatter" /\ g[i].scatter.root = "add"
      /\ IsAll(g, k, 0) /\ e = PoolEmitter("max-pool-backprop", window, format)
  BY DEF FuseMaxPoolBprop, Opcode, Match, ComputationIsTrivialBinop
<1>2. e.kind = "max-pool-backprop" /\ e.window = window /\ e.nchw = (format = "NCHW")
  <2> HIDE DEF format, window, e
  <2> QED BY <1>1, PoolEmitterFacts
<1>3. format = "NCHW" /\ e.nchw = TRUE
  BY <1>2
<1>4. /\ a \in DOMAIN g /\ ValuesOf(value, g[i].operands)[1] = value[a]
      /\ b \in DOMAIN g /\ ValuesOf(value, g[i].operands)[2] = value[b]
      /\ k \in DOMAIN g /\ ValuesOf(value, g[i].operands)[3] = value[k]
  <2>1. g[i].opcode \in OperandCounts[3] /\ 3 \in 1 .. 3 /\ 1 \in 1 .. 3 /\ 2 \in 1 .. 3
    BY <1>1, AllCounts
  <2> HIDE DEF value
  <2>2. QED BY <2>1, OperandValues
<1>5. Inputs(g, i, m) = IF a = b THEN <<a>> ELSE <<a, b>>
  <2>1. Arguments(g, i, "max-pool-backprop") = <<a, b>>
    BY DEF Arguments
  <2> HIDE DEF a, b, e
  <2>2. Arguments(g, i, m.emitter.kind) = <<a, b>>
    BY <1>2, <2>1 DEF e
  <2>3. Inputs(g, i, m) = Added(<<>>, <<a, b>>)
    BY <2>2 DEF Inputs
  <2>4. QED BY <2>3, InputsAre
<1>6. window \in Seq(WindowDimensions) /\ g[k].shape = <<>>
  <2>1. Inferred(g, i)
    BY TypedValue
  <2>2. QED BY <1>1, <2>1 DEF Inferred, Opcode
<1>7. value[a] # Missing /\ value[b] # Missing
  BY <1>4, TypedValue
<1>8. value[k][<<>>] = 0
  <2>1. value[k] = Constant(<<>>, 0)
    <3> HIDE DEF k
    <3>1. g[k].opcode = "constant" /\ g[k].literal = 0
      BY <1>1 DEF IsAll, Opcode
    <3>2. QED BY <1>4, <1>6, <3>1, Operated
  <2>2. <<>> \in Index(<<>>)
    <3> DEFINE none == <<>>
    <3>1. none \in Seq(Nat) /\ Len(none) = 0
      OBVIOUS
    <3> HIDE DEF none
    <3>2. Index(none) = Within(none, 0)
      BY <3>1, IndexIs
    <3>3. QED BY <3>2, WithinNone DEF none
  <2> HIDE DEF value, k
  <2>3. QED BY <2>1, <2>2 DEF Constant
<1>9. Spatial(w) = window
  <2> HIDE DEF window, w
  <2> QED BY <1>3, <1>6, NchwWindow DEF format, w, window
<1>10. value[i] = SelectAndScatter(value[a], value[b], "add", value[k], window)
  <2>1. value[i] = Meaning(g[i], ValuesOf(value, g[i].operands))
    BY <1>1, Operated DEF Sources
  <2> HIDE DEF value, a, b, k
  <2>2. QED BY <1>1, <1>4, <2>1 DEF Meaning
<1>11. Emit(e, ValuesOf(value, <<a, b>>)) = MaxPoolBackprop(value[a], value[b], w)
  <2> HIDE DEF value, a, b, e, window
  <2>1. Emit(e, ValuesOf(value, <<a, b>>)) = MaxPoolBackpropOf(e, value[a], value[b])
    BY <1>2, <1>7, EmitsOfTwo
  <2>2. MaxPoolBackpropOf(e, value[a], value[b]) = MaxPoolBackprop(value[a], value[b], w)
    BY <1>2, <1>3 DEF MaxPoolBackpropOf, FromNchw, ToNchw
  <2>3. QED BY <2>1, <2>2
<1>12. CASE a = b
  <2>1. Reads(e.kind) = 2
    BY <1>2 DEF Reads
  <2> HIDE DEF a, b, e
  <2>2. Len(<<a>>) = 1
    OBVIOUS
  <2>3. QED BY <1>5, <1>12, <2>1, <2>2 DEF KernelRight, e
<1>13. CASE a # b
  <2> DEFINE x == value[a]
             y == value[b]
             At(i_) == {o \in DOMAIN y : /\ Covers(window, o, i_)
                                         /\ Largest(x, Covered(window, o, x)) = i_}
  <2> HIDE DEF value, a, b, k, e, w, window, x, y
  <2>1. MaxPoolBackprop(x, y, w) = [j \in DOMAIN x |-> Fold("add", 0, y, At(j))]
    BY <1>9 DEF MaxPoolBackprop, Total
  <2>2. value[i] = [j \in DOMAIN x |-> Fold("add", 0, y, At(j))]
    BY <1>8, <1>10 DEF SelectAndScatter, x, y
  <2>3. QED BY <1>5, <1>11, <1>13, <2>1, <2>2 DEF KernelRight, value, e, x, y
<1>14. QED BY <1>12, <1>13

\* The sizes, and the elements, of a max-pool of tensor x of shape s.
Windowed(s, window) == [d \in DOMAIN s |-> WindowedSize(s[d], window[d])]
LargestUnder(window, shape, x) ==
    [o \in Index(shape) |-> Fold("maximum", MinValue, x, Covered(window, o, x))]

\* In NHWC the emitter of a max-pool pools the batch in NCHW and puts the result back.
LEMMA NhwcMaxPool ==
    ASSUME NEW s \in Shapes, NEW x \in [Index(s) -> Int],
           NEW window \in Seq(WindowDimensions), Undilated(window), Len(window) = Len(s),
           ReconstructDataFormatFromPoolingWindow(window) \notin {"none", "NCHW"},
           NEW shape \in Shapes,
           shape = Windowed(s, window)
    PROVE  Reshape(MaxPool(Reshape(x, NhwcToNchw(Len(window))),
                           XlaWindowToNGraph(window, FALSE)),
                   NchwToNhwc(Len(window)))
              = LargestUnder(window, shape, x)
<1> DEFINE n == Len(window)
           p == NhwcToNchw(n)
           q == NchwToNhwc(n)
           w == XlaWindowToNGraph(window, FALSE)
           z == Permuted(window, p)
           t == [d \in DOMAIN s |-> s[p[d]]]
           to == [d \in DOMAIN shape |-> shape[p[d]]]
           back == [d \in DOMAIN to |-> to[q[d]]]
           X == Reshape(x, p)
           M == MaxPool(X, w)
           Z == Reshape(M, q)
           At(o) == Fold("maximum", MinValue, x, Covered(window, o, x))
           V == [o \in Index(shape) |-> At(o)]
<1>1. /\ n \in Nat /\ n >= 3 /\ z \in Seq(WindowDimensions) /\ Len(z) = n /\ Undilated(z)
      /\ Spatial(w) = z
  <2>1. n = Len(window) /\ p = NhwcToNchw(n) /\ z = Permuted(window, p)
    OBVIOUS
  <2> HIDE DEF n, p, z
  <2>2. n \in Nat /\ n >= 3
    BY <2>1, NhwcWindow
  <2>3. z \in Seq(WindowDimensions) /\ Len(z) = n /\ Undilated(z)
    BY <2>1, NhwcWindow
  <2>4. Spatial(XlaWindowToNGraph(window, FALSE)) = z
    BY <2>1, NhwcWindow
  <2>5. QED BY <2>2, <2>3, <2>4
<1>2. /\ p \in Bijection(1 .. n, 1 .. n) /\ q \in Bijection(1 .. n, 1 .. n)
      /\ \A d \in 1 .. n : p[q[d]] = d /\ q[d] \in 1 .. n
  BY <1>1, NhwcOrders
<1>3. \A d \in 1 .. n : p[d] \in 1 .. n
  BY <1>2 DEF Bijection, Injection
<1>4. /\ DOMAIN s = 1 .. n /\ Len(s) = n /\ DOMAIN window = 1 .. n
      /\ DOMAIN shape = 1 .. n /\ Len(shape) = n
      /\ shape = [d \in 1 .. n |-> shape[d]]
      /\ \A d \in 1 .. n : shape[d] = WindowedSize(s[d], window[d])
  <2>1. DOMAIN s = 1 .. n /\ Len(s) = n /\ DOMAIN window = 1 .. n
    BY <1>1 DEF Shapes
  <2>2. DOMAIN shape = 1 .. n /\ shape = [d \in 1 .. n |-> shape[d]]
        /\ \A d \in 1 .. n : shape[d] = WindowedSize(s[d], window[d])
    BY <2>1 DEF Windowed
  <2>3. Len(shape) = n
    BY <1>1, <2>2 DEF Shapes
  <2>4. QED BY <2>1, <2>2, <2>3
<1>5. /\ x = [i \in Index(s) |-> x[i]] /\ DOMAIN x = Index(s)
      /\ \A i \in Index(s) : x[i] \in Int
  OBVIOUS
<1>6. /\ t = [d \in DOMAIN s |-> s[p[d]]] /\ DOMAIN t = 1 .. n
      /\ z = Permuted(window, p) /\ DOMAIN p = 1 .. n
      /\ to = [d \in DOMAIN shape |-> shape[p[d]]] /\ DOMAIN to = 1 .. n
      /\ back = [d \in DOMAIN to |-> to[q[d]]]
  BY <1>2, <1>4 DEF Bijection, Injection
<1> HIDE DEF n, p, q, w, z, t, to, back
<1>7. Moves(s, p, t, x, X)
  BY <1>2, <1>4, <1>5, <1>6, ReshapeOf
<1> HIDE DEF X
<1>8. t \in Shapes /\ DOMAIN X = Index(t) /\ Len(t) = n
  BY <1>4, <1>7 DEF Moves, Permutes
<1>9. ShapeOf(X) = t
  BY <1>8, ShapeOfIs
<1>10. Pooled(t, w) = to
  <2>1. Pooled(t, w) = [d \in DOMAIN t |-> WindowedSize(t[d], z[d])]
    BY <1>1, <1>8, PooledShape
  <2>2. ASSUME NEW d \in 1 .. n  PROVE WindowedSize(t[d], z[d]) = to[d]
    <3>1. t[d] = s[p[d]] /\ z[d] = window[p[d]] /\ to[d] = shape[p[d]] /\ p[d] \in 1 .. n
      BY <1>3, <1>4, <1>6 DEF Permuted
    <3>2. QED BY <1>4, <3>1
  <2>3. to = [d \in 1 .. n |-> to[d]]
    BY <1>4, <1>6
  <2> DEFINE u == Pooled(t, w)
  <2>4. u = [d \in 1 .. n |-> WindowedSize(t[d], z[d])]
    BY <1>6, <2>1
  <2> HIDE DEF u
  <2>5. u = [d \in 1 .. n |-> u[d]] /\ \A d \in 1 .. n : u[d] = to[d]
    BY <2>2, <2>4
  <2>6. u = to
    BY <2>3, <2>5, SameFunction
  <2>7. QED BY <2>6 DEF u
<1>11. M = [c \in Index(to) |-> Fold("maximum", MinValue, X, Covered(z, c, X))]
  BY <1>1, <1>9, <1>10 DEF MaxPool
<1>12. Permutes(shape, p, to)
  BY <1>2, <1>4, <1>6, PermutedIndexes
<1>13. to \in Shapes /\ Len(to) = n
  BY <1>4, <1>12 DEF Permutes
<1>14. ASSUME NEW o \in Index(shape)
       PROVE  PermutedTo(p, o) \in Index(to) /\ M[PermutedTo(p, o)] = At(o)
  <2>1. PermutedTo(p, o) \in Index(to)
    BY <1>12 DEF Permutes
  <2>2. At(o) = Fold("maximum", MinValue, X, Covered(z, PermutedTo(p, o), X))
    <3>1. p \in Bijection(DOMAIN s, DOMAIN s) /\ DOMAIN window = DOMAIN s
      BY <1>2, <1>4
    <3> HIDE DEF At
    <3>2. Fold("maximum", MinValue, x, Covered(window, o, x))
             = Fold("maximum", MinValue, X, Covered(z, PermutedTo(p, o), X))
      BY <1>5, <1>6, <1>7, <3>1, LargestAlong
    <3>3. QED BY <3>2 DEF At
  <2>3. QED BY <1>11, <2>1, <2>2
<1>15. M = [c \in Index(to) |-> M[c]]
  BY <1>11
<1> HIDE DEF M
<1>16. Moves(to, q, back, M, Z)
  BY <1>2, <1>6, <1>13, <1>15, ReshapeOf
<1>17. back = shape
  <2>1. ASSUME NEW d \in 1 .. n  PROVE back[d] = shape[d]
    <3>1. back[d] = to[q[d]] /\ q[d] \in 1 .. n /\ p[q[d]] = d
      BY <1>2, <1>6
    <3>2. to[q[d]] = shape[p[q[d]]]
      BY <1>4, <1>6, <3>1
    <3>3. QED BY <3>1, <3>2
  <2>2. back = [d \in 1 .. n |-> back[d]]
    BY <1>6
  <2>3. QED BY <1>4, <2>1, <2>2
<1> HIDE DEF Z, At
<1>18. ASSUME NEW o \in Index(shape)  PROVE Z[o] = At(o)
  <2> DEFINE c == PermutedTo(p, o)
  <2>1. c \in Index(to) /\ M[c] = At(o)
    BY <1>14
  <2>2. PermutedTo(q, c) = o
    <3>1. o = [d \in 1 .. n |-> o[d]]
      BY <1>4, IndexFacts
    <3>2. DOMAIN p = 1 .. n /\ DOMAIN q = 1 .. n
      BY <1>2 DEF Bijection, Injection
    <3>3. \A e \in 1 .. n : c[e] = o[p[e]]
      BY <3>2 DEF PermutedTo
    <3> HIDE DEF c
    <3>4. PermutedTo(q, c) = [e \in 1 .. n |-> c[q[e]]]
      BY <3>2 DEF PermutedTo
    <3>5. \A e \in 1 .. n : c[q[e]] = o[e]
      BY <1>2, <3>3
    <3>6. QED BY <3>1, <3>4, <3>5
  <2> HIDE DEF c
  <2>3. Z[PermutedTo(q, c)] = M[c]
    BY <1>16, <2>1 DEF Moves
  <2>4. QED BY <2>1, <2>2, <2>3
<1>19. Z = [o \in Index(shape) |-> Z[o]]
  BY <1>16, <1>17 DEF Moves
<1>20. V = LargestUnder(window, shape, x)
  BY DEF LargestUnder, At
<1>21. V = [o \in Index(shape) |-> V[o]] /\ \A o \in Index(shape) : V[o] = At(o)
  OBVIOUS
<1> HIDE DEF V
<1>22. Z = V
  BY <1>18, <1>19, <1>21, SameFunction
<1>23. QED BY <1>20, <1>22 DEF Z, M, X, V, At, n, p, q, w

\* The emitter of a max-pool has the window's sizes, strides and padding.
LEMMA MaxPoolRight ==
    ASSUME NEW g, WellFormed(g), ShapesInferred(g), NEW i \in DOMAIN g,
           NEW m, m = FuseMaxPoolFprop(g, i), m # NoMatch,
           Undilated(g[i].window)
    PROVE  KernelRight(g, i, m)
<1> DEFINE value == Value(g, <<>>)
           a == Operand(g, i, 1)
           k == Operand(g, i, 2)
           e == m.emitter
           window == g[i].window
           shape == g[i].shape
           format == ReconstructDataFormatFromPoolingWindow(window)
           w == XlaWindowToNGraph(window, TRUE)
           M == LargestUnder(window, shape, value[a])
<1>1. /\ g[i].opcode = "reduce-window" /\ g[i].apply.root = "maximum"
      /\ IsAll(g, k, MinValue) /\ e = PoolEmitter("max-pool", window, format)
      /\ format # "none"
  BY DEF FuseMaxPoolFprop, Opcode, Match, ComputationIsTrivialBinop
<1>2. e.kind = "max-pool" /\ e.window = window /\ e.nchw = (format = "NCHW")
  <2> HIDE DEF format, window, e
  <2> QED BY <1>1, PoolEmitterFacts
<1>4. /\ a \in DOMAIN g /\ ValuesOf(value, g[i].operands)[1] = value[a]
      /\ k \in DOMAIN g /\ ValuesOf(value, g[i].operands)[2] = value[k]
  <2>1. g[i].opcode \in OperandCounts[2] /\ 2 \in 1 .. 3 /\ 1 \in 1 .. 2 /\ 2 \in 1 .. 2
    BY <1>1, AllCounts
  <2> HIDE DEF value
  <2>2. QED BY <2>1, OperandValues
<1>5. Inputs(g, i, m) = <<a>>
  <2>1. Arguments(g, i, "max-pool") = <<a>>
    BY DEF Arguments
  <2> HIDE DEF a, e
  <2>2. QED BY <1>2, <2>1, InputsAre DEF Inputs, e
<1>6. /\ window \in Seq(WindowDimensions) /\ Len(window) = Len(g[a].shape)
      /\ shape = [d \in DOMAIN g[a].shape |-> WindowedSize(g[a].shape[d], window[d])]
      /\ g[k].shape = <<>>
  <2>1. Inferred(g, i)
    BY TypedValue
  <2>2. WellShaped(g, i)
    BY GivenFacts
  <2>3. g[k].shape = <<>>
    BY <1>1, <2>2 DEF WellShaped, IsScalar, Operand
  <2>4. QED BY <1>1, <2>1, <2>3 DEF Inferred, Opcode
<1>7. g[a].shape \in Shapes /\ value[a] # Missing /\ ShapeOf(value[a]) = g[a].shape
  BY <1>4, TypedValue
<1>8. value[k][<<>>] = MinValue
  <2>1. value[k] = Constant(<<>>, MinValue)
    <3> HIDE DEF k
    <3>1. g[k].opcode = "constant" /\ g[k].literal = MinValue
      BY <1>1 DEF IsAll, Opcode
    <3>2. QED BY <1>4, <1>6, <3>1, Operated
  <2>2. <<>> \in Index(<<>>)
    <3> DEFINE none == <<>>
    <3>1. none \in Seq(Nat) /\ Len(none) = 0
      OBVIOUS
    <3> HIDE DEF none
    <3>2. Index(none) = Within(none, 0)
      BY <3>1, IndexIs
    <3>3. QED BY <3>2, WithinNone DEF none
  <2> HIDE DEF value, k
  <2>3. QED BY <2>1, <2>2 DEF Constant
<1>11. value[i] = ReduceWindow(shape, "maximum", value[a], value[k], window)
  <2>1. value[i] = Meaning(g[i], ValuesOf(value, g[i].operands))
    BY <1>1, Operated DEF Sources
  <2> HIDE DEF value, a, k
  <2>2. QED BY <1>1, <1>4, <2>1 DEF Meaning
<1>12. Emit(e, ValuesOf(value, <<a>>)) = Pooling(e, value[a])
  <2> HIDE DEF value, a, e, window
  <2>1. QED BY <1>2, <1>7, EmitsOfOne
<1>13. value[i] = M
  <2> HIDE DEF value, a, k, window, shape
  <2>1. QED BY <1>8, <1>11 DEF ReduceWindow, LargestUnder
<1> HIDE DEF value, a, k, e, w, window, shape, format
<1>14. ASSUME format = "NCHW"
       PROVE  Pooling(e, value[a]) = M
  <2>1. Spatial(w) = window
    BY <1>6, <1>14, NchwWindow DEF format, w, window
  <2>2. Pooled(g[a].shape, w) = shape
    BY <1>6, <1>7, <2>1, PooledShape DEF window
  <2>3. Pooling(e, value[a]) = MaxPool(value[a], w)
    BY <1>2, <1>14 DEF Pooling, Pool, FromNchw, ToNchw, w
  <2>4. MaxPool(value[a], w) = M
    BY <1>7, <2>1, <2>2 DEF MaxPool, LargestUnder
  <2>5. QED BY <2>3, <2>4
<1>15. ASSUME format # "NCHW"
       PROVE  Pooling(e, value[a]) = M
  <2> DEFINE n == Len(window)
             x == value[a]
             s == g[a].shape
             P == Reshape(MaxPool(Reshape(x, NhwcToNchw(n)),
                                  XlaWindowToNGraph(window, FALSE)), NchwToNhwc(n))
  <2>1. e.nchw = FALSE
    BY <1>2, <1>15
  <2>2. Pooling(e, x) = P
    BY <1>2, <2>1 DEF Pooling, Pool, FromNchw, ToNchw
  <2> HIDE DEF n, P
  <2>3. /\ x \in [Index(s) -> Int] /\ s \in Shapes
        /\ shape \in Shapes /\ Undilated(window)
    BY <1>4, TypedValue DEF value, shape, window
  <2>4. ReconstructDataFormatFromPoolingWindow(window) \notin {"none", "NCHW"}
    BY <1>1, <1>15 DEF format
  <2>5. /\ window \in Seq(WindowDimensions) /\ Len(window) = Len(s)
        /\ shape = Windowed(s, window)
    BY <1>6 DEF Windowed
  <2>6. M = LargestUnder(window, shape, x)
    BY DEF M
  <2> HIDE DEF x, s
  <2>7. P = LargestUnder(window, shape, x)
    BY <2>3, <2>4, <2>5, NhwcMaxPool DEF P, n
  <2>8. QED BY <2>2, <2>6, <2>7 DEF x
<1>16. Pooling(e, value[a]) = M
  BY <1>14, <1>15
<1>17. QED BY <1>5, <1>12, <1>13, <1>16 DEF KernelRight, value, e

-----------------------------------------------------------------------------
\* KernelsRight for reductions, rectifiers and their gradients, max-pools in either
\* layout and the gradients of max-pools in NCHW.  Whatever the
\* shapes, windows and paddings, what the emitter makes of the arguments
\* (ngraph_emitter.cc:1594-2205) is what the graph computes, if the graph is as
\* XLA's shape inference has it, as are its values.
THEOREM KernelsRightByShape ==
    ASSUME NEW g, WellFormed(g), ShapesInferred(g), AsKernelsMake(g),
           NEW i \in DOMAIN g, NEW m \in Kernels(g)[i], KernelByShape(m)
    PROVE  KernelRight(g, i, m)
<1> DEFINE kind == m.emitter.kind
<1>1. m \in Matches(g, i)
  BY KernelsAre
<1>2. PICK r \in 1 .. 9 : m = Rules(g, i)[r] /\ m # NoMatch
  BY <1>1, MatchedParts
<1>3. kind = <<"reduction", "max-pool", "avg-pool", "max-pool-backprop",
               "avg-pool-backprop", "conv-backprop-input", "conv-backprop-filters",
               "relu", "relu-backprop">>[r]
  BY <1>2, RuleKinds
<1>4. /\ kind \in Rectifiers => ArgumentsOfShape(g, i, m)
      /\ kind \in MaxPools => Undilated(g[i].window)
  BY DEF AsKernelsMake
<1>5. \/ kind \in Rectifiers \cup {"reduction", "max-pool"}
      \/ kind = "max-pool-backprop" /\ m.emitter.nchw
  BY DEF KernelByShape
<1> HIDE DEF kind
<1>6. CASE r = 1
  <2>1. m = FuseReduce(g, i)
    BY <1>2, <1>6 DEF Rules
  <2>2. QED BY <1>2, <2>1, ReductionRight
<1>7. CASE r = 2
  <2>1. m = FuseMaxPoolFprop(g, i)
    BY <1>2, <1>7 DEF Rules
  <2>2. Undilated(g[i].window)
    BY <1>3, <1>4, <1>7 DEF MaxPools
  <2>3. QED BY <1>2, <2>1, <2>2, MaxPoolRight
<1>8. CASE r = 4
  <2>1. m = FuseMaxPoolBprop(g, i)
    BY <1>2, <1>8 DEF Rules
  <2>2. Undilated(g[i].window) /\ m.emitter.nchw
    BY <1>3, <1>4, <1>5, <1>8 DEF Rectifiers, MaxPools
  <2>3. QED BY <1>2, <2>1, <2>2, MaxPoolBackpropRight
<1>9. CASE r = 8
  <2>1. m = FuseRelu(g, i)
    BY <1>2, <1>9 DEF Rules
  <2>2. ArgumentsOfShape(g, i, m)
    BY <1>3, <1>4, <1>9 DEF Rectifiers
  <2>3. QED BY <1>2, <2>1, <2>2, ReluRight
<1>10. CASE r = 9
  <2>1. m = FuseReluBprop(g, i)
    BY <1>2, <1>10 DEF Rules
  <2>2. ArgumentsOfShape(g, i, m)
    BY <1>3, <1>4, <1>10 DEF Rectifiers
  <2>3. QED BY <1>2, <2>1, <2>2, ReluBackpropRight
<1>11. CASE r \in {3, 5, 6, 7}
  BY <1>3, <1>5, <1>11 DEF Rectifiers, MaxPools
<1>12. QED BY <1>6, <1>7, <1>8, <1>9, <1>10, <1>11

-----------------------------------------------------------------------------
\* The operand k of an instruction, by its shape.
LEMMA TypedOperand ==
    ASSUME NEW g, WellFormed(g), ShapesInferred(g), NEW i \in DOMAIN g,
           NEW n \in 1 .. 3, g[i].opcode \in OperandCounts[n], NEW k \in 1 .. n
    PROVE  LET value == Value(g, <<>>)
               shape == g[Operand(g, i, k)].shape
           IN  /\ shape \in Shapes
               /\ ValuesOf(value, g[i].operands)[k] \in [Index(shape) -> Int]
               /\ ValuesOf(value, g[i].operands)[k] # Missing
               /\ ShapeOf(ValuesOf(value, g[i].operands)[k]) = shape
<1> DEFINE value == Value(g, <<>>)
           o == Operand(g, i, k)
<1>1. o \in DOMAIN g /\ ValuesOf(value, g[i].operands)[k] = value[o]
  <2> HIDE DEF value
  <2>1. QED BY OperandValues
<1>2. /\ g[o].shape \in Shapes /\ value[o] \in [Index(g[o].shape) -> Int]
      /\ value[o] # Missing /\ ShapeOf(value[o]) = g[o].shape
  <2> HIDE DEF o
  <2>1. QED BY <1>1, TypedValue
<1>3. QED BY <1>1, <1>2

\* ProcessBroadcast has nGraph copy along the dimensions that the operand's are not
\* mapped to, which is what is meant of those it does not refuse.
LEMMA BroadcastOf ==
    ASSUME NEW s \in Shapes, NEW x \in [Index(s) -> Int], NEW ins, ins.shape \in Shapes,
           ins.dimensions \in [DOMAIN s -> DOMAIN ins.shape]
    PROVE  ProcessBroadcast(ins, x) \in
              {Broadcast(ins.shape, x, ins.dimensions), Missing}
<1> DEFINE n == Len(ins.shape)
           dims == ins.dimensions
           axes == (1 .. n) \ Range(dims)
           B == BroadcastAlong(x, ins.shape, axes)
           increase == \A k \in 2 .. Len(dims) : dims[k - 1] < dims[k]
<1>1. /\ n \in Nat /\ DOMAIN ins.shape = 1 .. n
      /\ DOMAIN s = 1 .. Len(s) /\ Len(s) \in Nat
  BY DEF Shapes
<1>2. dims \in Seq(1 .. n) /\ DOMAIN dims = 1 .. Len(s) /\ Len(dims) = Len(s)
  BY <1>1
<1>3. CASE ~increase
  <2>1. \E k \in 2 .. Len(dims) : dims[k - 1] >= dims[k]
    <3>1. PICK k \in 2 .. Len(dims) : ~(dims[k - 1] < dims[k])
      BY <1>3
    <3>2. k \in 1 .. Len(dims) /\ k - 1 \in 1 .. Len(dims)
      BY <1>2
    <3>3. dims[k] \in 1 .. n /\ dims[k - 1] \in 1 .. n
      BY <1>2, <3>2
    <3>4. QED BY <3>1, <3>3
  <2>2. QED BY <2>1 DEF ProcessBroadcast
<1>4. CASE increase
  <2>1. Kept(n, axes) = dims
    BY <1>1, <1>2, <1>4, KeptIs
  <2>2. ASSUME NEW i \in Index(ins.shape)
        PROVE  Without(i, axes) = [d \in DOMAIN dims |-> i[dims[d]]]
    <3>1. Len(i) = n
      BY IndexFacts
    <3>2. QED BY <2>1, <3>1 DEF Without
  <2>3. B \in {Broadcast(ins.shape, x, dims), Missing}
    <3> HIDE DEF axes, n, dims
    <3>1. [i \in Index(ins.shape) |-> x[Without(i, axes)]] =
             [i \in Index(ins.shape) |-> x[[d \in DOMAIN dims |-> i[dims[d]]]]]
      BY <2>2
    <3>2. B \in {[i \in Index(ins.shape) |-> x[Without(i, axes)]], Missing}
      BY DEF BroadcastAlong
    <3>3. Broadcast(ins.shape, x, dims) =
             [i \in Index(ins.shape) |-> x[[d \in DOMAIN dims |-> i[dims[d]]]]]
      BY DEF Broadcast
    <3> HIDE DEF B
    <3>4. QED BY <3>1, <3>2, <3>3
  <2>4. ProcessBroadcast(ins, x) \in {B, Missing}
    BY DEF ProcessBroadcast
  <2> HIDE DEF B
  <2>5. QED BY <2>3, <2>4
<1>5. QED BY <1>3, <1>4

\* The handlers whose operation, axes and windows are those of the instruction make what it
\* means, or refuse it, whatever the shapes: Broadcast, Reverse, Reshape, Select, Pad,
\* Reduce, ReduceWindow, SelectAndScatter, Transpose, Clamp and comparisons; arithmetic
\* that needs no broadcast; a dot of the last dimension with the first; batch
\* normalization of the second dimension; and convolution, whatever the layouts of its
\* input and its filters, when its result has the input's (ngraph_emitter.cc:144-273,
\* 336-350, 554-632, 857-1563).
THEOREM HandlersRightByShape ==
    ASSUME NEW g, WellFormed(g), ShapesInferred(g), NEW i \in DOMAIN g, RightByShape(g, i)
    PROVE  HandlerRight(g, i)
<1> DEFINE value == Value(g, <<>>)
           ins == g[i]
           a == ValuesOf(value, ins.operands)
           S(k) == g[Operand(g, i, k)].shape
<1>1. SUFFICES HandlerOf(ins, a) \in {Meaning(ins, a), Missing}
  BY DEF HandlerRight, Handled
<1>2. ASSUME NEW n \in 1 .. 3, ins.opcode \in OperandCounts[n], NEW k \in 1 .. n
      PROVE  /\ S(k) \in Shapes /\ a[k] \in [Index(S(k)) -> Int]
             /\ a[k] # Missing /\ ShapeOf(a[k]) = S(k)
  BY <1>2, TypedOperand
<1>3. Inferred(g, i)
  BY TypedValue
<1>4. /\ \A k \in 1 .. 1 : k \in {1}
      /\ 1 \in 1 .. 1 /\ 1 \in 1 .. 2 /\ 2 \in 1 .. 2
      /\ 1 \in 1 .. 3 /\ 2 \in 1 .. 3 /\ 3 \in 1 .. 3
  OBVIOUS
<1> HIDE DEF value, a
<1>5. CASE ins.opcode \in {"select", "negate", "reshape", "concatenate"}
  BY <1>5 DEF HandlerOf, Meaning, Compares, ProcessReshape
<1>6. CASE ins.opcode = "reverse"
  <2>1. ShapeOf(a[1]) = S(1)
    BY <1>2, <1>4, <1>6, AllCounts
  <2>2. ins.shape = S(1)
    BY <1>3, <1>6 DEF Inferred, Opcode
  <2>3. HandlerOf(ins, a) = ProcessReverse(ins, a[1])
    BY <1>6 DEF HandlerOf, Compares
  <2>4. Meaning(ins, a) = Rev(ins.shape, a[1], ins.dimensions)
    BY <1>6 DEF Meaning
  <2>5. QED BY <2>1, <2>2, <2>3, <2>4 DEF ProcessReverse
<1>7. CASE ins.opcode = "transpose"
  <2>1. S(1) \in Shapes /\ a[1] \in [Index(S(1)) -> Int]
    BY <1>2, <1>4, <1>7, AllCounts
  <2>2. /\ ins.dimensions \in Bijection(DOMAIN S(1), DOMAIN S(1))
        /\ ins.shape = [d \in DOMAIN S(1) |-> S(1)[ins.dimensions[d]]]
    BY <1>3, <1>7 DEF Inferred, Opcode
  <2>3. HandlerOf(ins, a) = Reshape(a[1], ins.dimensions)
    BY <1>7 DEF HandlerOf, Compares, ProcessTranspose
  <2>4. Meaning(ins, a) = Transpose(ins.shape, a[1], ins.dimensions)
    BY <1>7 DEF Meaning
  <2> DEFINE s == S(1)
  <2>5. Reshape(a[1], ins.dimensions) =
           Transpose([d \in DOMAIN s |-> s[ins.dimensions[d]]], a[1], ins.dimensions)
    <3> HIDE DEF S
    <3> QED BY <2>1, <2>2, TransposeOf
  <2>6. QED BY <2>2, <2>3, <2>4, <2>5
<1>8. CASE ins.opcode = "reduce"
  <2>1. ShapeOf(a[1]) = S(1)
    BY <1>2, <1>4, <1>8, AllCounts
  <2>2. ins.shape = Without(S(1), Range(ins.dimensions))
    BY <1>3, <1>8 DEF Inferred, Opcode
  <2>3. HandlerOf(ins, a) = ProcessReduce(ins, a[1], a[2])
    BY <1>8 DEF HandlerOf, Compares
  <2>4. Meaning(ins, a) =
           ReduceDimensions(ins.shape, ins.apply.root, a[1], a[2], ins.dimensions)
    BY <1>8 DEF Meaning
  <2>5. QED BY <2>1, <2>2, <2>3, <2>4 DEF ProcessReduce
<1>9. CASE ins.opcode = "pad"
  <2>1. ShapeOf(a[1]) = S(1)
    BY <1>2, <1>4, <1>9, AllCounts
  <2> DEFINE shape == [d \in DOMAIN ins.padding |->
                          ins.padding[d].low + ins.padding[d].high + S(1)[d]
                            + (S(1)[d] - 1) * ins.padding[d].interior]
  <2>2. ins.shape = shape
    BY <1>3, <1>9 DEF Inferred, Opcode
  <2>3. HandlerOf(ins, a) = ProcessPad(ins, a[1], a[2])
    BY <1>9 DEF HandlerOf, Compares
  <2>4. Meaning(ins, a) = PadWith(ins.shape, a[1], a[2], ins.padding)
    BY <1>9 DEF Meaning
  <2>5. ProcessPad(ins, a[1], a[2]) \in {PadWith(shape, a[1], a[2], ins.padding), Missing}
    BY <2>1 DEF ProcessPad
  <2> HIDE DEF shape
  <2>6. QED BY <2>2, <2>3, <2>4, <2>5
<1>10. CASE ins.opcode = "reduce-window"
  <2>1. S(1) \in Shapes /\ a[1] \in [Index(S(1)) -> Int]
    BY <1>2, <1>4, <1>10, AllCounts
  <2>2. /\ ins.window \in Seq(WindowDimensions) /\ Len(ins.window) = Len(S(1))
        /\ ins.shape = [d \in DOMAIN S(1) |-> WindowedSize(S(1)[d], ins.window[d])]
    BY <1>3, <1>10 DEF Inferred, Opcode
  <2>3. HandlerOf(ins, a) = ProcessReduceWindow(ins, a[1], a[2])
    BY <1>10 DEF HandlerOf, Compares
  <2>4. Meaning(ins, a) =
           ReduceWindow(ins.shape, ins.apply.root, a[1], a[2], ins.window)
    BY <1>10 DEF Meaning
  <2> DEFINE s == S(1)
  <2>5. ProcessReduceWindow(ins, a[1], a[2]) \in
           {ReduceWindow(ins.shape, ins.apply.root, a[1], a[2], ins.window), Missing}
    <3>1. /\ s \in Shapes /\ a[1] \in [Index(s) -> Int]
          /\ ins.window \in Seq(WindowDimensions) /\ Len(ins.window) = Len(s)
          /\ ins.shape = [d \in DOMAIN s |-> WindowedSize(s[d], ins.window[d])]
      BY <2>1, <2>2
    <3> HIDE DEF s, S, ins
    <3>2. QED BY <3>1, ReduceWindowOf
  <2>6. QED BY <2>3, <2>4, <2>5
<1>11. CASE ins.opcode = "select-and-scatter"
  <2>1. ins.window \in Seq(WindowDimensions) /\ Undilated(ins.window)
    BY <1>3, <1>11 DEF Inferred, Opcode
  <2>2. HandlerOf(ins, a) = ProcessSelectAndScatter(ins, a[1], a[2], a[3])
    BY <1>11 DEF HandlerOf, Compares
  <2>3. Meaning(ins, a) =
           SelectAndScatter(a[1], a[2], ins.scatter.root, a[3], ins.window)
    BY <1>11 DEF Meaning
  <2>4. ~HasPadding(ins.window) => SizesAndStrides(ins.window) = ins.window
    BY <2>1, PlainWindow
  <2>5. QED BY <2>2, <2>3, <2>4 DEF ProcessSelectAndScatter
<1>12. CASE ins.opcode = "clamp"
  <2>1. \A k \in 1 .. 3 : S(k) \in Shapes /\ a[k] \in [Index(S(k)) -> Int] /\ a[k] # Missing
    BY <1>2, <1>4, <1>12, AllCounts
  <2>2. HandlerOf(ins, a) = ProcessClamp(a[1], a[2], a[3])
    BY <1>12 DEF HandlerOf, Compares
  <2>3. Meaning(ins, a) = Clamp(a[1], a[2], a[3])
    BY <1>12 DEF Meaning
  <2>4. Index(S(1)) # {} /\ Index(S(3)) # {}
    <3>1. \A s : \A x \in [Index(s) -> Int] : Index(s) = {} => x = Missing
      BY DEF Missing
    <3>2. QED BY <1>4, <2>1, <3>1
  <2>5. QED BY <1>4, <2>1, <2>2, <2>3, <2>4, ClampOf
<1>13. CASE ins.opcode \in Compares
  <2>1. HandlerOf(ins, a) = SameShape(ins.opcode, a[1], a[2])
    BY <1>13 DEF HandlerOf, Compares, ProcessCompare
  <2>2. Meaning(ins, a) = Elementwise(ins.opcode, ins.shape, a[1], a[2])
    BY <1>13 DEF Meaning, Compares
  <2>3. QED BY <2>1, <2>2 DEF SameShape, Elementwise
<1>14. CASE ins.opcode \in Arithmetic /\ S(1) = S(2)
  <2>1. /\ a[1] \in [Index(S(1)) -> Int] /\ a[2] \in [Index(S(2)) -> Int]
        /\ ShapeOf(a[1]) = S(1) /\ ShapeOf(a[2]) = S(2)
    <3>1. ins.opcode \in OperandCounts[2]
      BY <1>14, AllCounts DEF Arithmetic
    <3>2. QED BY <1>2, <1>4, <3>1
  <2>2. AutoBroadcast(a[1], a[2]) = <<a[1], a[2]>>
    BY <2>1, <1>14 DEF AutoBroadcast
  <2>3. HandlerOf(ins, a) = ProcessElementwiseBinary(ins.opcode, a[1], a[2])
    BY <1>14 DEF HandlerOf, Compares, Arithmetic
  <2>4. Meaning(ins, a) = Elementwise(ins.opcode, ins.shape, a[1], a[2])
    BY <1>14 DEF Meaning, Arithmetic
  <2>5. HandlerOf(ins, a) = SameShape(ins.opcode, a[1], a[2])
    BY <2>2, <2>3 DEF ProcessElementwiseBinary
  <2>6. DOMAIN a[1] = DOMAIN a[2]
    BY <2>1, <1>14
  <2>7. QED BY <2>4, <2>5, <2>6 DEF SameShape, Elementwise
<1>15. CASE ins.opcode = "broadcast"
  <2>1. S(1) \in Shapes /\ a[1] \in [Index(S(1)) -> Int] /\ ins.shape \in Shapes
    BY <1>2, <1>4, <1>15, AllCounts, TypedValue
  <2>2. ins.dimensions \in [DOMAIN S(1) -> DOMAIN ins.shape]
    BY <1>3, <1>15 DEF Inferred, Opcode
  <2>3. HandlerOf(ins, a) = ProcessBroadcast(ins, a[1])
    BY <1>15 DEF HandlerOf, Compares
  <2>4. Meaning(ins, a) = Broadcast(ins.shape, a[1], ins.dimensions)
    BY <1>15 DEF Meaning
  <2> DEFINE s == S(1)
  <2>5. ProcessBroadcast(ins, a[1]) \in
           {Broadcast(ins.shape, a[1], ins.dimensions), Missing}
    <3>1. s \in Shapes /\ a[1] \in [Index(s) -> Int]
          /\ ins.dimensions \in [DOMAIN s -> DOMAIN ins.shape]
      BY <2>1, <2>2
    <3> HIDE DEF s, S, ins
    <3>2. QED BY <2>1, <3>1, BroadcastOf
  <2>6. QED BY <2>3, <2>4, <2>5
<1>16. CASE /\ ins.opcode = "dot"
            /\ ins.dimensions[1] = Rank(g, Operand(g, i, 1)) /\ ins.dimensions[2] = 1
  <2>1. ShapeOf(a[1]) = S(1) /\ ShapeOf(a[2]) = S(2)
    BY <1>2, <1>4, <1>16, AllCounts
  <2>2. ins.shape = RemoveAt(S(1), Len(S(1))) \o RemoveAt(S(2), 1)
    BY <1>3, <1>16 DEF Inferred, Opcode, Rank
  <2>3. HandlerOf(ins, a) = Dot(a[1], a[2])
    BY <1>16 DEF HandlerOf, Compares, ProcessDot
  <2>4. Meaning(ins, a) = DotGeneral(ins.shape, a[1], a[2], Len(S(1)), 1)
    BY <1>16 DEF Meaning, Rank
  <2>5. QED BY <2>1, <2>2, <2>3, <2>4 DEF Dot
<1>17. CASE ins.opcode \in BatchNormalizations /\ ins.dimensions[1] = 2
  BY <1>17 DEF HandlerOf, Meaning, Compares, BatchNormalizations, Normalized,
               ProcessBatchNormTraining, ProcessBatchNormInference, ProcessBatchNormGrad
<1>18. CASE ins.opcode = "convolution" /\ OutputAsInput(ins.dn)
  <2> DEFINE s1 == S(1)
             s2 == S(2)
             n == Len(ins.window)
  <2>1. /\ s1 \in Shapes /\ a[1] \in [Index(s1) -> Int]
        /\ s2 \in Shapes /\ a[2] \in [Index(s2) -> Int] /\ ins.shape \in Shapes
    BY <1>2, <1>4, <1>18, AllCounts, TypedValue
  <2>2. /\ ins.window \in Seq(WindowDimensions) /\ n = Len(s1) - 2
        /\ LET r == Len(s1)
           IN  /\ Len(s2) = r /\ Len(ins.shape) = r
               /\ Roles(ins.dn.input_batch, ins.dn.input_feature, ins.dn.input_spatial, r)
               /\ Roles(ins.dn.kernel_output_feature, ins.dn.kernel_input_feature,
                        ins.dn.kernel_spatial, r)
        /\ ins.shape[ins.dn.output_batch] = s1[ins.dn.input_batch]
        /\ ins.shape[ins.dn.output_feature] = s2[ins.dn.kernel_output_feature]
        /\ \A d \in DOMAIN ins.window :
              /\ ins.window[d].size = s2[ins.dn.kernel_spatial[d]]
              /\ ins.shape[ins.dn.output_spatial[d]] =
                    WindowedSize(s1[ins.dn.input_spatial[d]], ins.window[d])
    BY <1>3, <1>18 DEF Inferred, Opcode, Rank
  <2>3. HandlerOf(ins, a) = ProcessConvolution(ins, a[1], a[2])
    BY <1>18 DEF HandlerOf, Compares
  <2>4. Meaning(ins, a) = Convolution(ins.shape, a[1], a[2], ins.window, ins.dn)
    BY <1>18 DEF Meaning
  <2>5. n \in Nat /\ DOMAIN ins.window = 1 .. n /\ Len(s1) = n + 2
    <3>1. Len(s1) \in Nat
      BY <2>1 DEF Shapes
    <3>2. QED BY <2>2, <3>1
  <2>6. ConvolutionShaped(ins.shape, s1, s2, ins.window, ins.dn, n)
    <3> HIDE DEF s1, s2, S, n, ins
    <3> QED BY <2>2, <2>5 DEF ConvolutionShaped
  <2>7. ProcessConvolution(ins, a[1], a[2]) \in
           {Convolution(ins.shape, a[1], a[2], ins.window, ins.dn), Missing}
    <3>1. OutputAsInput(ins.dn) /\ Len(ins.window) = n
      BY <1>18
    <3> HIDE DEF s1, s2, S, n, ins
    <3>2. QED BY <2>1, <2>2, <2>5, <2>6, <3>1, ConvolutionOf
  <2>8. QED BY <2>3, <2>4, <2>7
<1>19. QED BY <1>5, <1>6, <1>7, <1>8, <1>9, <1>10, <1>11, <1>12, <1>13, <1>14,
              <1>15, <1>16, <1>17, <1>18
         DEF RightByShape, Opcode

-----------------------------------------------------------------------------
\* Both together: what is right by the shapes need not be asked of a computation.
LEMMA RightByShapes ==
    ASSUME NEW g, WellFormed(g), ShapesInferred(g)
    PROVE  /\ AsKernelsMake(g) /\ OtherKernelsRight(g) => KernelsRight(g)
           /\ OtherHandlersRight(g) => HandlersRight(g)
<1>1. ASSUME AsKernelsMake(g), OtherKernelsRight(g),
             NEW i \in DOMAIN g, NEW m \in Kernels(g)[i]
      PROVE  KernelRight(g, i, m)
  <2>1. CASE KernelByShape(m)
    BY <1>1, <2>1, KernelsRightByShape
  <2>2. CASE ~KernelByShape(m)
    BY <1>1, <2>2 DEF OtherKernelsRight
  <2>3. QED BY <2>1, <2>2
<1>2. ASSUME OtherHandlersRight(g), NEW i \in DOMAIN g, Kernels(g)[i] = {},
             g[i].opcode \notin Sources
      PROVE  HandlerRight(g, i)
  <2>1. CASE RightByShape(g, i)
    BY <2>1, HandlersRightByShape
  <2>2. CASE ~RightByShape(g, i)
    BY <1>2, <2>2 DEF OtherHandlersRight
  <2>3. QED BY <2>1, <2>2
<1>3. QED BY <1>1, <1>2 DEF KernelsRight, HandlersRight

\* FusionPreservesValue, where of the kernels only those are asked to be right one by one
\* that the shapes do not make right: average pools and their gradients, gradients of
\* max-pools in NHWC, and gradients of convolutions.
COROLLARY FusionsPreserveShapedValues ==
    ASSUME \A g \in Computations : ArgumentsApart(g.instructions),
           \A g \in Computations : ShapesInferred(g.instructions),
           \A g \in Computations : AsKernelsMake(g.instructions),
           \A g \in Computations : OtherKernelsRight(g.instructions)
    PROVE  Spec => []FusionPreservesValue
<1>1. \A g \in Computations : KernelsRight(g.instructions)
  BY ComputationsAssumption, RightByShapes
<1>2. QED BY <1>1, FusionsPreserveValue

\* EmittedFunctionComputesRoot, where of the handlers only those are asked one by one
\* whose operands are broadcast implicitly, and convolution into another layout than the
\* input's, dot and batch normalization of other dimensions than nGraph's.
COROLLARY ShapedFunctionCorrect ==
    ASSUME \A g \in Computations : ArgumentsApart(g.instructions),
           \A g \in Computations : ShapesInferred(g.instructions),
           \A g \in Computations : AsKernelsMake(g.instructions),
           \A g \in Computations : OtherKernelsRight(g.instructions),
           \A g \in Computations : OtherHandlersRight(g.instructions),
           \A g \in Computations : Listed(g)
    PROVE  Spec => []EmittedFunctionComputesRoot
<1>1. \A g \in Computations : KernelsRight(g.instructions) /\ HandlersRight(g.instructions)
  BY ComputationsAssumption, RightByShapes
<1>2. QED BY <1>1, EmittedFunctionCorrect
=============================================================================
