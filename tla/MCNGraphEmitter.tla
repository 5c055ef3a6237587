--------------------------- MODULE MCNGraphEmitter ---------------------------
(***************************************************************************)
(* Instances of NGraphEmitter: for each family, every well-formed          *)
(* computation of at most `size' instructions over its opcodes, with at    *)
(* most two parameters (they are numbered first, which is no restriction:  *)
(* the visit does not follow the numbering), and a batch-norm of one       *)
(* operand.                                                                *)
(***************************************************************************)
EXTENDS NGraphEmitter, TLC

CONSTANT Families \* a set of [ops, types, attributes, elements, size]

\* Every handler, and every default action.
Handlers == [ops |-> Opcodes, types |-> {"F32", "F64"}, attributes |-> Attributes,
             elements |-> {0, 1}, size |-> 2]
\* One opcode of each kind, whose results meet each other.
Mixed == [ops |-> {"constant", "negate", "add", "tuple", "batch-norm-grad", "slice"},
          types |-> {"F32", "F64"}, attributes |-> Attributes,
          elements |-> {1, 2}, size |-> 3]
\* Tuples, tuples of tuples and batch-norm outputs, taken apart.
Nested == [ops |-> {"tuple", "batch-norm-training"}, types |-> {"F32"},
           attributes |-> {"usual"}, elements |-> {1}, size |-> 5]
\* The table of supported operations says YES to a batch norm, which may be the root.
BatchNorms == [Nested EXCEPT !.ops = {"batch-norm-training"}, !.size = 2]
\* Slices that have strides, and those that have not.
Slices == [Mixed EXCEPT !.ops = {"negate", "slice"}, !.types = {"F32"}, !.size = 2]

MCFamilies == {Handlers, Mixed, Nested}
MCBatchNorms == {BatchNorms}
MCSlices == {Slices}

-----------------------------------------------------------------------------
\* The value of every instruction of g, by ValueEquation.
ValuesOf(g) ==
    LET value[i \in DOMAIN g] ==
            LET args == [k \in DOMAIN g[i].operands |-> value[g[i].operands[k]]]
            IN  CASE g[i].op = "tuple" -> Tuple(args)
                  [] g[i].op = "get-tuple-element" ->
                       args[1].args[g[i].index + 1]
                  [] g[i].op \in TupleOutputOps ->
                       Tuple(BatchNormOutputs(i, args))
                  [] OTHER -> Output(i, 1, args)
    IN  value

Arities(family, op) ==
    CASE op = "constant" -> {0}
      [] op = "tuple" -> family.elements
      [] op \in BinaryOps \cup {"reduce"} -> {2}
      [] OTHER -> {1}
AttributesOf(family, op) ==
    CASE op = "slice" -> family.attributes
      [] op \in RestrictedOps \ {"slice"} -> family.attributes \ {"strided"}
      [] OTHER -> {"usual"}

\* The instructions that may come after those of g.
NextInstructions(family, g) ==
    LET values == ValuesOf(g)
        arrays == {i \in DOMAIN g : ~values[i].tuple}
        numbers == IF Parameters(g) = DOMAIN g
                     THEN {0, 1} \ {g[i].index : i \in DOMAIN g} ELSE {}
        sources(op) == IF op = "tuple" THEN DOMAIN g ELSE arrays
        operandsOf(op) ==
            UNION {[1 .. n -> sources(op)] : n \in Arities(family, op)}
        ins(op, type, operands, index, attributes) ==
            [op |-> op, type |-> type, operands |-> operands, index |-> index,
             attributes |-> attributes]
    IN  {ins("parameter", type, <<>>, n, "usual") :
            type \in family.types, n \in numbers}
          \cup {ins("get-tuple-element", "F32", <<p[1]>>, p[2] - 1, "usual") :
                   p \in {q \in (DOMAIN g \ arrays) \X (1 .. 3) :
                             q[2] \in DOMAIN values[q[1]].args}}
          \cup UNION {{ins(op, "F32", operands, 0, a) :
                          operands \in operandsOf(op),
                          a \in AttributesOf(family, op)} :
                         op \in family.ops \ {"parameter", "get-tuple-element"}}

GraphsOf(family) ==
    LET ofSize[n \in 0 .. family.size] ==
            IF n = 0 THEN {<<>>}
            ELSE UNION {{Append(g, i) : i \in NextInstructions(family, g)} :
                           g \in ofSize[n - 1]}
        numbered(g) ==
            \A i \in Parameters(g) : g[i].index = 1 =>
                \E j \in Parameters(g) : g[j].index = 0
    IN  {g \in UNION {ofSize[n] : n \in 1 .. family.size} : numbered(g)}

MCGraphs == UNION {GraphsOf(family) : family \in Families}
MCValue(g, i) == ValuesOf(g)[i]
=============================================================================
