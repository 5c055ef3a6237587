---------------------------- MODULE NGraphEmitter ----------------------------
(***************************************************************************)
(* The translation of one HLO computation to an nGraph function:           *)
(* NGraphBuilder runs the NGraphEmitter as the visitor of the root         *)
(* instruction, then asks it for the function.                             *)
(*                                                                         *)
(* The emitter records the node of every instruction in m_op_map and the   *)
(* elements of tuple-shaped instructions in m_tuple_op_map_vector.  Which  *)
(* of the two maps a handler fills, and which of them it reads without a   *)
(* check, decides which computations are translated, and to what.          *)
(*                                                                         *)
(* An HLO computation is a sequence of instructions, operands before their *)
(* users, the root last.  Value is what XLA says each instruction computes *)
(* (external: the semantics of HLO), as a term over the instructions.      *)
(***************************************************************************)
EXTENDS Naturals, Sequences

CONSTANTS
    Graphs,     \* the computations to translate
    Value(_, _) \* Value(g, i): what instruction i of computation g computes

\* A node, or a value: number `out' of the outputs of instruction `of' applied
\* to args, or the tuple (compat::op::Tuple) of args.
Output(i, k, args) == [tuple |-> FALSE, of |-> i, out |-> k, args |-> args]
Tuple(args) == [tuple |-> TRUE, of |-> 0, out |-> 0, args |-> args]
NoNode == [tuple |-> FALSE, of |-> 0, out |-> 0, args |-> <<>>]
BatchNormOutputs(i, args) == [k \in 1 .. 3 |-> Output(i, k, args)]

-----------------------------------------------------------------------------
\* The opcodes, by the handler NGraphOpHandler dispatches them to.

UnaryOps == {"abs", "ceil", "exp", "floor", "log", "negate", "sign", "sine",
             "cosine", "tanh", "not", "is-finite", "reduce-precision"}
BinaryOps == {"add", "subtract", "multiply", "divide", "power", "maximum",
              "minimum", "remainder", "and", "or", "complex",
              "shift-left", "shift-right-arithmetic", "shift-right-logical"}
CompareOps == {"equal-to", "greater-than", "less-than", "not-equal-to",
               "greater-than-or-equal-to", "less-than-or-equal-to"}
TupleOutputOps == {"batch-norm-training", "batch-norm-grad"}
OtherOps == {"parameter", "constant", "tuple", "get-tuple-element", "fusion",
             "clamp", "concatenate", "convert", "reverse", "convolution",
             "select", "dot", "slice", "broadcast", "reshape", "transpose",
             "pad", "batch-norm-inference", "reduce", "reduce-window",
             "select-and-scatter"}
DefaultOps == {"bitcast", "call", "copy", "cross-replica-sum", "custom-call",
               "dynamic-slice", "dynamic-update-slice", "infeed", "map",
               "outfeed", "recv", "rng", "send", "sort", "while"}
Opcodes == UnaryOps \cup BinaryOps \cup CompareOps \cup TupleOutputOps
             \cup OtherOps \cup DefaultOps

\* What the handlers of these opcodes have a case for.
UnaryHandled == UnaryOps \ {"not", "is-finite", "reduce-precision"}
BinaryHandled == BinaryOps \ {"complex", "shift-left",
                              "shift-right-arithmetic", "shift-right-logical"}
ElementTypes == {"F32", "S32", "S64", "PRED", "F64"}
EmittedTypes == {"F32", "S32", "S64", "PRED"}

\* The handlers that refuse some instructions for their attributes: a slice to
\* a scalar, negative padding, a window with padding or dilation, an embedded
\* computation the embedded emitter refuses, a fusion that is not kCustom or has
\* no emitter in the fusion map.  Of the others, a slice may have strides.
Attributes == {"usual", "refused", "strided"}
RestrictedOps == {"slice", "pad", "fusion", "reduce", "reduce-window",
                  "select-and-scatter"}

Accepts(ins) ==
    /\ ins.op \notin DefaultOps
    /\ ins.op \in UnaryOps => ins.op \in UnaryHandled
    /\ ins.op \in BinaryOps => ins.op \in BinaryHandled
    /\ ins.op \in {"parameter", "constant", "convert"} =>
           ins.type \in EmittedTypes
    /\ ins.op \in RestrictedOps => ins.attributes # "refused"

-----------------------------------------------------------------------------
\* The computations the HLO verifier lets through.

Operands(ins) == {ins.operands[k] : k \in DOMAIN ins.operands}
Parameters(g) == {i \in DOMAIN g : g[i].op = "parameter"}

TupleOnly(g, i) == \A o \in Operands(g[i]) : Value(g, o).tuple
ArraysOnly(g, i) == \A o \in Operands(g[i]) : ~Value(g, o).tuple

Instructions == [op : Opcodes, type : ElementTypes, operands : Seq(Nat),
                 index : Nat, attributes : Attributes]

WellFormed(g) ==
    /\ g \in Seq(Instructions) \ {<<>>}
    /\ \A i \in DOMAIN g :
          /\ Operands(g[i]) \subseteq 1 .. (i - 1)
          /\ g[i].attributes = "strided" => g[i].op = "slice"
          /\ CASE g[i].op \in {"parameter", "constant"} -> g[i].operands = <<>>
               [] g[i].op = "tuple" -> TRUE
               [] g[i].op = "get-tuple-element" ->
                    /\ Len(g[i].operands) = 1
                    /\ TupleOnly(g, i)
                    /\ g[i].index + 1 \in DOMAIN Value(g, g[i].operands[1]).args
               [] OTHER -> ArraysOnly(g, i)
    /\ \A i, j \in Parameters(g) : i # j => g[i].index # g[j].index
    /\ \A i \in Parameters(g) : \A n \in 0 .. g[i].index :
          \E j \in Parameters(g) : g[j].index = n

\* The semantics of HLO, as an equation for the value of each instruction.
ValueEquation(g, i) ==
    LET args == [k \in DOMAIN g[i].operands |-> Value(g, g[i].operands[k])]
    IN  Value(g, i) = CASE g[i].op = "tuple" -> Tuple(args)
                        [] g[i].op = "get-tuple-element" ->
                             args[1].args[g[i].index + 1]
                        [] g[i].op \in TupleOutputOps ->
                             Tuple(BatchNormOutputs(i, args))
                        [] OTHER -> Output(i, 1, args)

ASSUME GraphsAssumption ==
    \A g \in Graphs :
        /\ WellFormed(g)
        /\ \A i \in DOMAIN g : ValueEquation(g, i)

-----------------------------------------------------------------------------
VARIABLES
    graph,                \* the computation the emitter is given
    status,               \* how far the translation is, or how it ended
    visited,              \* instructions whose handler has returned
    op_map,               \* NGraphEmitter::m_op_map
    tuple_op_map_vector,  \* NGraphEmitter::m_tuple_op_map_vector
    parameter_number_map, \* NGraphEmitter::m_parameter_number_map
    ng_function           \* the root node and the parameters of the function

maps == <<op_map, tuple_op_map_vector, parameter_number_map>>
vars == <<graph, status, visited, maps, ng_function>>

Root == Len(graph)
NoElements == <<>>
NoFunction == [root |-> NoNode, parameters |-> <<>>]

\* "refused": an error status, on which a TF_CHECK_OK ends the process (the one of
\* NGraphBuilder::Visitor, or that of the visit in RunBackend);
\* "thrown": std::out_of_range; "undefined": a dereferenced end() or nullptr.
Ends == {"built", "refused", "thrown", "undefined"}

TypeOK ==
    /\ WellFormed(graph)
    /\ status \in {"created", "visiting", "visited"} \cup Ends
    /\ visited \subseteq DOMAIN graph
    /\ DOMAIN op_map = DOMAIN graph
    /\ DOMAIN tuple_op_map_vector = DOMAIN graph
    /\ \A n \in DOMAIN parameter_number_map :
          parameter_number_map[n] \in Parameters(graph)
    /\ DOMAIN ng_function = {"root", "parameters"}

Init ==
    /\ graph \in Graphs
    /\ status = "created"
    /\ visited = {}
    /\ op_map = [i \in DOMAIN graph |-> NoNode]
    /\ tuple_op_map_vector = [i \in DOMAIN graph |-> NoElements]
    /\ parameter_number_map = <<>>
    /\ ng_function = NoFunction

-----------------------------------------------------------------------------
Missing(i) == \E o \in Operands(graph[i]) : op_map[o] = NoNode
OperandNodes(i) ==
    [k \in DOMAIN graph[i].operands |-> op_map[graph[i].operands[k]]]

End(how) ==
    /\ status' = how
    /\ UNCHANGED <<graph, visited, maps, ng_function>>

\* The instruction's handler returns OK.
Visited(i) ==
    /\ visited' = visited \cup {i}
    /\ UNCHANGED <<graph, status, parameter_number_map, ng_function>>

Save(i, node) ==
    /\ op_map' = [op_map EXCEPT ![i] = node]
    /\ UNCHANGED tuple_op_map_vector
    /\ Visited(i)

\* Mutant: m_parameter_number_map is filled from instruction to number.
InitializeSwapped ==
    LET params == Parameters(graph)
    IN  /\ status = "created"
        /\ \A i \in params : Accepts(graph[i])
        /\ status' = "visiting"
        /\ op_map' = [i \in DOMAIN graph |->
                         IF i \in params THEN Output(i, 1, <<>>) ELSE NoNode]
        /\ parameter_number_map' = [i \in params |-> graph[i].index]
        /\ UNCHANGED <<graph, visited, tuple_op_map_vector, ng_function>>

\* Mutant: only the parameters some instruction uses get a node.
InitializeUsed ==
    LET params == {i \in Parameters(graph) :
                      \E j \in DOMAIN graph : i \in Operands(graph[j])}
    IN  /\ status = "created"
        /\ \A i \in params : Accepts(graph[i])
        /\ status' = "visiting"
        /\ op_map' = [i \in DOMAIN graph |->
                         IF i \in params THEN Output(i, 1, <<>>) ELSE NoNode]
        /\ parameter_number_map' =
              [n \in {graph[i].index : i \in params} |->
                  CHOOSE i \in params : graph[i].index = n]
        /\ UNCHANGED <<graph, visited, tuple_op_map_vector, ng_function>>

\* NGraphBuilder::Visitor: every parameter of the computation, used or not,
\* gets its node; another element type is an InternalError.
Initialize ==
    LET params == Parameters(graph)
    IN  /\ status = "created"
        /\ IF \E i \in params : ~Accepts(graph[i])
             THEN End("refused")
             ELSE /\ status' = "visiting"
                  /\ op_map' = [i \in DOMAIN graph |->
                        IF i \in params THEN Output(i, 1, <<>>) ELSE NoNode]
                  /\ parameter_number_map' =
                        [n \in {graph[i].index : i \in params} |->
                            CHOOSE i \in params : graph[i].index = n]
                  /\ UNCHANGED <<graph, visited, tuple_op_map_vector,
                                 ng_function>>

\* ProcessParameter: the node is there since Initialize.
ProcessParameter(i) ==
    /\ graph[i].op = "parameter"
    /\ IF op_map[i] = NoNode THEN End("refused")
                             ELSE UNCHANGED maps /\ Visited(i)

ProcessConstant(i) ==
    /\ graph[i].op = "constant"
    /\ IF Accepts(graph[i]) THEN Save(i, Output(i, 1, <<>>))
                            ELSE End("refused")

\* m_op_map.find(operand)->second, or m_op_map[operand] with its nullptr, for the
\* operands; then a refusal, or one node from theirs.
FindAndBuild(i) ==
    \/ Missing(i) /\ End("undefined")
    \/ ~Missing(i) /\ ~Accepts(graph[i]) /\ End("refused")
    \/ /\ ~Missing(i) /\ Accepts(graph[i])
       /\ Save(i, Output(i, 1, OperandNodes(i)))

\* The same, with the refusal first.
CheckAndBuild(i) ==
    \/ ~Accepts(graph[i]) /\ End("refused")
    \/ Accepts(graph[i]) /\ FindAndBuild(i)

\* The same with m_op_map.at(operand).
CheckAndBuildAt(i) ==
    \/ ~Accepts(graph[i]) /\ End("refused")
    \/ Accepts(graph[i]) /\ Missing(i) /\ End("thrown")
    \/ /\ Accepts(graph[i]) /\ ~Missing(i)
       /\ Save(i, Output(i, 1, OperandNodes(i)))

ProcessElementwiseUnary(i) == graph[i].op \in UnaryOps /\ FindAndBuild(i)
ProcessElementwiseBinary(i) == graph[i].op \in BinaryOps /\ FindAndBuild(i)
ProcessCompare(i) == graph[i].op \in CompareOps /\ FindAndBuild(i)
ProcessClamp(i) == graph[i].op = "clamp" /\ FindAndBuild(i)
ProcessConcatenate(i) == graph[i].op = "concatenate" /\ FindAndBuild(i)
ProcessConvert(i) == graph[i].op = "convert" /\ FindAndBuild(i)
ProcessReverse(i) == graph[i].op = "reverse" /\ FindAndBuild(i)
ProcessConvolution(i) == graph[i].op = "convolution" /\ FindAndBuild(i)
ProcessSelect(i) == graph[i].op = "select" /\ FindAndBuild(i)
ProcessDot(i) == graph[i].op = "dot" /\ FindAndBuild(i)
\* The node of the slice has its bounds, and unit strides whatever it asks for.
ProcessSlice(i) ==
    /\ graph[i].op = "slice"
    /\ \/ graph[i].attributes # "strided" /\ CheckAndBuild(i)
       \/ graph[i].attributes = "strided" /\ Missing(i) /\ End("undefined")
       \/ /\ graph[i].attributes = "strided" /\ ~Missing(i)
          /\ Save(i, Output(i, 0, OperandNodes(i)))

ProcessBroadcast(i) == graph[i].op = "broadcast" /\ FindAndBuild(i)
ProcessReshape(i) == graph[i].op = "reshape" /\ FindAndBuild(i)
ProcessTranspose(i) == graph[i].op = "transpose" /\ FindAndBuild(i)
ProcessPad(i) == graph[i].op = "pad" /\ FindAndBuild(i)
ProcessBatchNormInference(i) ==
    graph[i].op = "batch-norm-inference" /\ FindAndBuild(i)

\* An emitter of its own, with maps of its own and the same fusion map, visits
\* the embedded computation before the operands are looked up.
ProcessReduce(i) == graph[i].op = "reduce" /\ CheckAndBuildAt(i)
ProcessReduceWindow(i) == graph[i].op = "reduce-window" /\ CheckAndBuildAt(i)

\* A refusal of the window comes before the operands, one of the select or the
\* scatter computation after them.
ProcessSelectAndScatter(i) ==
    /\ graph[i].op = "select-and-scatter"
    /\ \/ ~Accepts(graph[i]) /\ End("refused")
       \/ FindAndBuild(i)

\* kCustom with an emitter in the fusion map: Emit makes the root node from the
\* nodes of the fusion's operands.  The other kinds go to the default action.
ProcessFusion(i) == graph[i].op = "fusion" /\ CheckAndBuild(i)

\* Mutant: only the op map is told of the tuple.
ProcessTupleOpMapOnly(i) ==
    /\ graph[i].op = "tuple"
    /\ IF Missing(i) THEN End("thrown")
                     ELSE Save(i, Tuple(OperandNodes(i)))

\* A tuple is recorded in both maps.
ProcessTuple(i) ==
    /\ graph[i].op = "tuple"
    /\ IF Missing(i)
         THEN End("thrown")
         ELSE /\ op_map' = [op_map EXCEPT ![i] = Tuple(OperandNodes(i))]
              /\ tuple_op_map_vector' =
                    [tuple_op_map_vector EXCEPT ![i] = OperandNodes(i)]
              /\ Visited(i)

\* Mutant: the element is taken by its position counted from one.
ProcessGetTupleElementFromOne(i) ==
    /\ graph[i].op = "get-tuple-element"
    /\ LET elements == tuple_op_map_vector[graph[i].operands[1]]
       IN  IF graph[i].index \in DOMAIN elements
             THEN Save(i, elements[graph[i].index])
             ELSE End("undefined")

\* The element is taken from the tuple map only, where operator[] makes an empty
\* vector for an operand that is not there; the element itself may be a Tuple.
ProcessGetTupleElement(i) ==
    /\ graph[i].op = "get-tuple-element"
    /\ LET elements == tuple_op_map_vector[graph[i].operands[1]]
       IN  IF graph[i].index + 1 \in DOMAIN elements
             THEN Save(i, elements[graph[i].index + 1])
             ELSE End("undefined")

\* The three outputs are told to the tuple map only ("we need to put it in the
\* tuple op map"), although a Tuple of them is made for the debug list.
SaveOutputs(i) ==
    /\ IF Missing(i)
         THEN End("undefined")
         ELSE /\ tuple_op_map_vector' =
                    [tuple_op_map_vector EXCEPT
                        ![i] = BatchNormOutputs(i, OperandNodes(i))]
              /\ UNCHANGED op_map
              /\ Visited(i)

ProcessBatchNormTraining(i) ==
    graph[i].op = "batch-norm-training" /\ SaveOutputs(i)
ProcessBatchNormGrad(i) == graph[i].op = "batch-norm-grad" /\ SaveOutputs(i)

DefaultAction(i) == graph[i].op \in DefaultOps /\ End("refused")

\* HloInstruction::Accept on the root calls the handler of each instruction the
\* root depends on, operands first.
Reaches(S) ==
    Root \in S /\ \A i \in S : Operands(graph[i]) \subseteq S
Reachable ==
    {i \in DOMAIN graph : \A S \in SUBSET DOMAIN graph : Reaches(S) => i \in S}

Process(i) ==
    /\ status = "visiting"
    /\ i \in Reachable \ visited
    /\ Operands(graph[i]) \subseteq visited
    /\ \/ ProcessParameter(i)
       \/ ProcessConstant(i)
       \/ ProcessElementwiseUnary(i)
       \/ ProcessElementwiseBinary(i)
       \/ ProcessCompare(i)
       \/ ProcessClamp(i)
       \/ ProcessConcatenate(i)
       \/ ProcessConvert(i)
       \/ ProcessReverse(i)
       \/ ProcessConvolution(i)
       \/ ProcessSelect(i)
       \/ ProcessDot(i)
       \/ ProcessSlice(i)
       \/ ProcessBroadcast(i)
       \/ ProcessReshape(i)
       \/ ProcessTranspose(i)
       \/ ProcessPad(i)
       \/ ProcessBatchNormInference(i)
       \/ ProcessReduce(i)
       \/ ProcessReduceWindow(i)
       \/ ProcessSelectAndScatter(i)
       \/ ProcessFusion(i)
       \/ ProcessTuple(i)
       \/ ProcessGetTupleElement(i)
       \/ ProcessBatchNormTraining(i)
       \/ ProcessBatchNormGrad(i)
       \/ DefaultAction(i)

FinishVisit ==
    /\ status = "visiting"
    /\ Root \in visited
    /\ status' = "visited"
    /\ UNCHANGED <<graph, visited, maps, ng_function>>

\* The parameters in the order of their numbers, and the root's node, looked up
\* without a check.
NGraphFunction ==
    /\ status = "visited"
    /\ IF op_map[Root] = NoNode
         THEN End("undefined")
         ELSE /\ ng_function' =
                    [root |-> op_map[Root],
                     parameters |-> [n \in DOMAIN parameter_number_map |->
                                        op_map[parameter_number_map[n]]]]
              /\ status' = "built"
              /\ UNCHANGED <<graph, visited, maps>>

Next ==
    \/ Initialize
    \/ \E i \in DOMAIN graph : Process(i)
    \/ FinishVisit
    \/ NGraphFunction

Spec == Init /\ [][Next]_vars

-----------------------------------------------------------------------------
(* Properties *)

UnitStrides(g) == \A i \in DOMAIN g : g[i].attributes # "strided"

\* What the maps hold for an instruction is what the instruction computes, also
\* for an element that was itself a tuple, whatever the order of the visit, if
\* no slice has strides.
MapsDenoteValues ==
    UnitStrides(graph) =>
        \A i \in DOMAIN graph :
            /\ op_map[i] \in {NoNode, Value(graph, i)}
            /\ tuple_op_map_vector[i] \in {NoElements, Value(graph, i).args}

\* The function that is built computes the value of the root, if no slice has
\* strides, from all the parameters of the computation, unused ones included,
\* each at its number: the executable passes one tensor per parameter
\* (ngraph_executable.cc:131-135).
FunctionComputesRoot ==
    status = "built" =>
        /\ UnitStrides(graph) => ng_function.root = Value(graph, Root)
        /\ \A i \in Parameters(graph) :
              /\ graph[i].index \in DOMAIN ng_function.parameters
              /\ ng_function.parameters[graph[i].index] = Value(graph, i)

\* A slice is supported (ngraph_op_handler.h:110), and its handler checks that it
\* has a stride for each dimension: the function computes it, strides included.
StridesKept == status = "built" => ng_function.root = Value(graph, Root)

\* A computation of accepted instructions is translated, if tuples are taken
\* apart only where they are made, and the outputs of a batch-norm only by
\* get-tuple-element: no handler reads an entry its operand did not leave.
TuplesNearby(g) ==
    \A i \in DOMAIN g :
        /\ g[i].op = "get-tuple-element" =>
              \A o \in Operands(g[i]) : g[o].op \in {"tuple"} \cup TupleOutputOps
        /\ g[i].op \in TupleOutputOps =>
              /\ i # Len(g)
              /\ \A j \in DOMAIN g : i \in Operands(g[j]) =>
                    g[j].op = "get-tuple-element"
NearbyTuplesTranslated ==
    TuplesNearby(graph) /\ (\A i \in DOMAIN graph : Accepts(graph[i])) =>
        status \in {"created", "visiting", "visited", "built"}

\* The table of the operations nGraph supports (ngraph_op_handler.h:47-118): an
\* instruction with YES is translated, for the element types of the emitter and
\* the attributes its handler does not refuse.
SupportedOps == Opcodes \ (DefaultOps \cup
                   {"clamp", "concatenate", "is-finite", "complex", "shift-left",
                    "shift-right-arithmetic", "shift-right-logical"})
SupportedTable ==
    (\A i \in DOMAIN graph : /\ graph[i].op \in SupportedOps
                             /\ graph[i].type \in EmittedTypes
                             /\ graph[i].attributes # "refused") =>
        status \in {"created", "visiting", "visited", "built"}

=============================================================================
