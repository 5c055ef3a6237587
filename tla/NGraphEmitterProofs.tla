------------------------ MODULE NGraphEmitterProofs ------------------------
(***************************************************************************)
(* Theorems about NGraphEmitter, for any set of computations the HLO       *)
(* verifier lets through, of any size, and any order of the visit.         *)
(***************************************************************************)
EXTENDS NGraphEmitter, TLAPS

-----------------------------------------------------------------------------
(* Computations and the values of their instructions *)

LEMMA OperandsPrecede ==
    ASSUME NEW g, WellFormed(g), NEW i \in DOMAIN g
    PROVE  /\ i \in Nat /\ i # 0
           /\ g[i] \in Instructions
           /\ Operands(g[i]) \subseteq DOMAIN g
           /\ \A k \in DOMAIN g[i].operands : g[i].operands[k] \in Operands(g[i])
           /\ Len(g) \in DOMAIN g
<1>1. g \in Seq(Instructions) /\ g # <<>>
  BY DEF WellFormed
<1>2. DOMAIN g = 1 .. Len(g) /\ Len(g) \in Nat /\ Len(g) # 0
  BY <1>1
<1>3. Operands(g[i]) \subseteq 1 .. (i - 1)
  BY DEF WellFormed
<1>4. g[i] \in Instructions
  BY <1>1, <1>2
<1>5. \A k \in DOMAIN g[i].operands : g[i].operands[k] \in Operands(g[i])
  BY DEF Operands
<1>6. QED BY <1>2, <1>3, <1>4, <1>5

ArrayOp(ins) ==
    ins.op \notin {"parameter", "tuple", "get-tuple-element"} \cup TupleOutputOps

Arguments(g, i) ==
    [k \in DOMAIN g[i].operands |-> Value(g, g[i].operands[k])]

LEMMA Values ==
    ASSUME NEW g \in Graphs, NEW i \in DOMAIN g
    PROVE  /\ ArrayOp(g[i]) \/ g[i].op = "parameter" =>
                  Value(g, i) = Output(i, 1, Arguments(g, i))
           /\ g[i].op = "tuple" => Value(g, i) = Tuple(Arguments(g, i))
           /\ g[i].op = "get-tuple-element" =>
                  /\ 1 \in DOMAIN g[i].operands
                  /\ Value(g, i) =
                        Value(g, g[i].operands[1]).args[g[i].index + 1]
           /\ g[i].op \in TupleOutputOps =>
                  Value(g, i) = Tuple(BatchNormOutputs(i, Arguments(g, i)))
<1>1. WellFormed(g) /\ ValueEquation(g, i)
  BY GraphsAssumption
<1>2. Value(g, i) =
          CASE g[i].op = "tuple" -> Tuple(Arguments(g, i))
            [] g[i].op = "get-tuple-element" ->
                 Arguments(g, i)[1].args[g[i].index + 1]
            [] g[i].op \in TupleOutputOps ->
                 Tuple(BatchNormOutputs(i, Arguments(g, i)))
            [] OTHER -> Output(i, 1, Arguments(g, i))
  BY <1>1 DEF ValueEquation, Arguments
<1>3. g[i].op = "get-tuple-element" => 1 \in DOMAIN g[i].operands
  <2>1. g[i].operands \in Seq(Nat)
    BY <1>1, OperandsPrecede DEF Instructions
  <2>2. g[i].op = "get-tuple-element" => Len(g[i].operands) = 1
    BY <1>1 DEF WellFormed
  <2>3. QED BY <2>1, <2>2
<1>4. g[i].op = "get-tuple-element" =>
          Arguments(g, i)[1] = Value(g, g[i].operands[1])
  BY <1>3 DEF Arguments
<1>5. ArrayOp(g[i]) \/ g[i].op = "parameter" =>
          Value(g, i) = Output(i, 1, Arguments(g, i))
  BY <1>2 DEF ArrayOp, TupleOutputOps
<1>6. g[i].op = "tuple" => Value(g, i) = Tuple(Arguments(g, i))
  BY <1>2 DEF TupleOutputOps
<1>7. g[i].op = "get-tuple-element" =>
          Value(g, i) = Value(g, g[i].operands[1]).args[g[i].index + 1]
  BY <1>2, <1>4 DEF TupleOutputOps
<1>8. g[i].op \in TupleOutputOps =>
          Value(g, i) = Tuple(BatchNormOutputs(i, Arguments(g, i)))
  BY <1>2 DEF TupleOutputOps
<1>9. QED BY <1>3, <1>5, <1>6, <1>7, <1>8

LEMMA NodesAreNodes ==
    ASSUME NEW i, i # 0, NEW k, NEW args
    PROVE  Output(i, k, args) # NoNode /\ Tuple(args) # NoNode
BY DEF Output, Tuple, NoNode

-----------------------------------------------------------------------------
(* What the handlers do *)

\* The graph is one of Graphs, and the maps are about its instructions.
Shape ==
    /\ graph \in Graphs
    /\ visited \subseteq DOMAIN graph
    /\ DOMAIN op_map = DOMAIN graph
    /\ DOMAIN tuple_op_map_vector = DOMAIN graph

\* Why the visit may end at instruction i.
Fails(i) ==
    \/ ~Accepts(graph[i])
    \/ graph[i].op = "parameter" /\ op_map[i] = NoNode
    \/ graph[i].op # "get-tuple-element" /\ Missing(i)
    \/ /\ graph[i].op = "get-tuple-element"
       /\ graph[i].index + 1 \notin
             DOMAIN tuple_op_map_vector[graph[i].operands[1]]

EndsVisit(i) == \E how \in Ends \ {"built"} : End(how) /\ Fails(i)
KeepsParameter(i) ==
    graph[i].op = "parameter" /\ op_map[i] # NoNode /\ UNCHANGED maps /\ Visited(i)
SavesArray(i) ==
    /\ ArrayOp(graph[i])
    /\ ~Missing(i)
    /\ \E out \in Nat : /\ graph[i].attributes # "strided" => out = 1
                        /\ Save(i, Output(i, out, OperandNodes(i)))
SavesTuple(i) ==
    /\ graph[i].op = "tuple"
    /\ ~Missing(i)
    /\ op_map' = [op_map EXCEPT ![i] = Tuple(OperandNodes(i))]
    /\ tuple_op_map_vector' = [tuple_op_map_vector EXCEPT ![i] = OperandNodes(i)]
    /\ Visited(i)
SavesElement(i) ==
    LET elements == tuple_op_map_vector[graph[i].operands[1]]
    IN  /\ graph[i].op = "get-tuple-element"
        /\ graph[i].index + 1 \in DOMAIN elements
        /\ Save(i, elements[graph[i].index + 1])
SavesOutputs(i) ==
    /\ graph[i].op \in TupleOutputOps
    /\ ~Missing(i)
    /\ tuple_op_map_vector' =
          [tuple_op_map_vector EXCEPT ![i] = BatchNormOutputs(i, OperandNodes(i))]
    /\ UNCHANGED op_map
    /\ Visited(i)

\* The three helpers the handlers of arrays are made of.
LEMMA BuildsArray ==
    ASSUME NEW i, ArrayOp(graph[i]), graph[i].attributes # "strided",
           FindAndBuild(i) \/ CheckAndBuild(i) \/ CheckAndBuildAt(i)
    PROVE  EndsVisit(i) \/ SavesArray(i)
BY DEF FindAndBuild, CheckAndBuild, CheckAndBuildAt, EndsVisit, SavesArray,
   Fails, Ends, ArrayOp

LEMMA Handlers ==
    ASSUME Shape, NEW i \in DOMAIN graph, Process(i)
    PROVE  \/ EndsVisit(i) \/ KeepsParameter(i) \/ SavesArray(i)
           \/ SavesTuple(i) \/ SavesElement(i) \/ SavesOutputs(i)
<1>1. WellFormed(graph)
  BY GraphsAssumption DEF Shape
<1>2. graph[i].attributes = "strided" => graph[i].op = "slice"
  BY <1>1 DEF WellFormed
<1>3. CASE ProcessParameter(i)
  BY <1>3 DEF ProcessParameter, EndsVisit, Fails, KeepsParameter, Ends
<1>4. CASE ProcessConstant(i)
  <2>1. graph[i].op = "constant"
    BY <1>4 DEF ProcessConstant
  <2>2. graph[i].operands = <<>>
    BY <1>1, <2>1 DEF WellFormed
  <2>3. OperandNodes(i) = <<>> /\ ~Missing(i)
    BY <2>2 DEF OperandNodes, Missing, Operands
  <2>4. CASE ~Accepts(graph[i])
    BY <1>4, <2>4 DEF ProcessConstant, EndsVisit, Fails, Ends
  <2>5. CASE Accepts(graph[i])
    BY <1>2, <1>4, <2>1, <2>3, <2>5
       DEF ProcessConstant, SavesArray, ArrayOp, TupleOutputOps
  <2>6. QED BY <2>4, <2>5
<1>5. ASSUME graph[i].op \in UnaryOps \cup BinaryOps \cup CompareOps
                \cup {"clamp", "concatenate", "convert", "reverse",
                      "convolution", "select", "dot", "broadcast", "reshape",
                      "transpose", "pad", "batch-norm-inference", "reduce",
                      "reduce-window", "select-and-scatter", "fusion"},
             FindAndBuild(i) \/ CheckAndBuild(i) \/ CheckAndBuildAt(i)
      PROVE  EndsVisit(i) \/ SavesArray(i)
  <2>1. ArrayOp(graph[i]) /\ graph[i].op # "slice"
    BY <1>5 DEF ArrayOp, TupleOutputOps, UnaryOps, BinaryOps, CompareOps
  <2>2. QED BY <1>2, <1>5, <2>1, BuildsArray
<1>6. CASE \/ ProcessElementwiseUnary(i) \/ ProcessElementwiseBinary(i)
           \/ ProcessCompare(i) \/ ProcessClamp(i) \/ ProcessConcatenate(i)
           \/ ProcessConvert(i) \/ ProcessReverse(i) \/ ProcessConvolution(i)
           \/ ProcessSelect(i) \/ ProcessDot(i) \/ ProcessBroadcast(i)
           \/ ProcessReshape(i) \/ ProcessTranspose(i) \/ ProcessPad(i)
           \/ ProcessBatchNormInference(i) \/ ProcessReduce(i)
           \/ ProcessReduceWindow(i) \/ ProcessFusion(i)
  BY <1>5, <1>6
     DEF ProcessElementwiseUnary, ProcessElementwiseBinary, ProcessCompare,
         ProcessClamp, ProcessConcatenate, ProcessConvert, ProcessReverse,
         ProcessConvolution, ProcessSelect, ProcessDot, ProcessBroadcast,
         ProcessReshape, ProcessTranspose, ProcessPad,
         ProcessBatchNormInference, ProcessReduce, ProcessReduceWindow,
         ProcessFusion
<1>7. CASE ProcessSelectAndScatter(i)
  <2>1. CASE ~Accepts(graph[i]) /\ End("refused")
    BY <2>1 DEF EndsVisit, Fails, Ends
  <2>2. CASE FindAndBuild(i)
    BY <1>5, <1>7, <2>2 DEF ProcessSelectAndScatter
  <2>3. QED BY <1>7, <2>1, <2>2 DEF ProcessSelectAndScatter
<1>8. CASE ProcessSlice(i)
  <2>1. ArrayOp(graph[i])
    BY <1>8 DEF ProcessSlice, ArrayOp, TupleOutputOps
  <2>2. CASE graph[i].attributes # "strided"
    BY <1>8, <2>1, <2>2, BuildsArray DEF ProcessSlice
  <2>3. CASE graph[i].attributes = "strided" /\ Missing(i)
    BY <1>8, <2>3 DEF ProcessSlice, EndsVisit, Fails, Ends
  <2>4. CASE graph[i].attributes = "strided" /\ ~Missing(i)
    BY <1>8, <2>1, <2>4 DEF ProcessSlice, SavesArray
  <2>5. QED BY <2>2, <2>3, <2>4
<1>9. CASE ProcessTuple(i)
  BY <1>9 DEF ProcessTuple, EndsVisit, Fails, Ends, SavesTuple
<1>10. CASE ProcessGetTupleElement(i)
  BY <1>10 DEF ProcessGetTupleElement, EndsVisit, Fails, Ends, SavesElement
<1>11. CASE ProcessBatchNormTraining(i) \/ ProcessBatchNormGrad(i)
  BY <1>11 DEF ProcessBatchNormTraining, ProcessBatchNormGrad, SaveOutputs,
     EndsVisit, Fails, Ends, SavesOutputs, TupleOutputOps
<1>12. CASE DefaultAction(i)
  BY <1>12 DEF DefaultAction, EndsVisit, Fails, Ends, Accepts
<1>13. QED BY <1>3, <1>4, <1>6, <1>7, <1>8, <1>9, <1>10, <1>11, <1>12 DEF Process

-----------------------------------------------------------------------------
(* Typing *)

TypeInv == TypeOK /\ graph \in Graphs

LEMMA TypeGivesShape == TypeInv => Shape
BY DEF TypeInv, TypeOK, Shape

LEMMA TypeStep == TypeInv /\ [Next]_vars => TypeInv'
<1> SUFFICES ASSUME TypeInv, [Next]_vars PROVE TypeInv'
  OBVIOUS
<1> USE DEF TypeInv, TypeOK
<1>1. CASE Initialize
  <2>1. graph' = graph
    BY <1>1 DEF Initialize, End
  <2>2. CASE End("refused")
    BY <2>2 DEF End, maps, Ends
  <2>3. CASE ~End("refused")
    <3>1. \A n \in DOMAIN parameter_number_map' :
              parameter_number_map'[n] \in Parameters(graph)
      BY <1>1, <2>3 DEF Initialize
    <3>2. DOMAIN op_map' = DOMAIN graph
      BY <1>1, <2>3 DEF Initialize
    <3>3. QED BY <1>1, <2>1, <2>3, <3>1, <3>2 DEF Initialize
  <2>4. QED BY <2>2, <2>3
<1>2. ASSUME NEW i \in DOMAIN graph, Process(i)
      PROVE  TypeInv'
  <2>1. \/ EndsVisit(i) \/ KeepsParameter(i) \/ SavesArray(i)
        \/ SavesTuple(i) \/ SavesElement(i) \/ SavesOutputs(i)
    BY <1>2, Handlers, TypeGivesShape
  <2>2. CASE EndsVisit(i)
    BY <2>2 DEF EndsVisit, End, maps, Ends
  <2>3. CASE KeepsParameter(i)
    BY <2>3 DEF KeepsParameter, Visited, maps
  <2>4. CASE SavesArray(i)
    BY <2>4 DEF SavesArray, Save, Visited
  <2>5. CASE SavesTuple(i)
    BY <2>5 DEF SavesTuple, Visited
  <2>6. CASE SavesElement(i)
    BY <2>6 DEF SavesElement, Save, Visited
  <2>7. CASE SavesOutputs(i)
    BY <2>7 DEF SavesOutputs, Visited
  <2>8. QED BY <2>1, <2>2, <2>3, <2>4, <2>5, <2>6, <2>7
<1>3. CASE FinishVisit
  BY <1>3 DEF FinishVisit, maps
<1>4. CASE NGraphFunction
  BY <1>4 DEF NGraphFunction, End, maps, Ends
<1>5. CASE UNCHANGED vars
  BY <1>5 DEF vars, maps
<1>6. QED BY <1>1, <1>2, <1>3, <1>4, <1>5 DEF Next

\* Every variable keeps its type: the maps are about the computation's own
\* instructions, whatever the handlers do.
THEOREM TypeCorrect == Spec => []TypeOK
<1>1. Init => TypeInv
  BY GraphsAssumption DEF Init, TypeInv, TypeOK, NoFunction
<1>2. TypeInv /\ [Next]_vars => TypeInv'
  BY TypeStep
<1>3. TypeInv => TypeOK
  BY DEF TypeInv
<1>4. QED BY <1>1, <1>2, <1>3, PTL DEF Spec

-----------------------------------------------------------------------------
(* The maps hold values. *)

LEMMA NodesDenote ==
    ASSUME Shape, MapsDenoteValues, UnitStrides(graph), NEW i \in DOMAIN graph,
           ~Missing(i)
    PROVE  OperandNodes(i) = Arguments(graph, i)
<1>1. ASSUME NEW k \in DOMAIN graph[i].operands
      PROVE  op_map[graph[i].operands[k]] = Value(graph, graph[i].operands[k])
  <2>1. WellFormed(graph)
    BY GraphsAssumption DEF Shape
  <2>2. graph[i].operands[k] \in Operands(graph[i])
    BY <2>1, OperandsPrecede
  <2>3. graph[i].operands[k] \in DOMAIN graph
    BY <2>1, <2>2, OperandsPrecede
  <2>4. op_map[graph[i].operands[k]] # NoNode
    BY <2>2 DEF Missing
  <2>5. QED BY <2>3, <2>4 DEF MapsDenoteValues
<1>2. QED BY <1>1 DEF OperandNodes, Arguments

LEMMA MapsStep ==
    TypeInv /\ MapsDenoteValues /\ [Next]_vars => MapsDenoteValues'
<1> SUFFICES ASSUME TypeInv, MapsDenoteValues, [Next]_vars
             PROVE  MapsDenoteValues'
  OBVIOUS
<1>1. Shape
  BY TypeGivesShape
<1>2. WellFormed(graph) /\ graph \in Graphs
  BY DEF TypeInv, TypeOK
<1>3. CASE UNCHANGED <<graph, maps>>
  BY <1>3 DEF MapsDenoteValues, maps
<1>4. CASE Initialize /\ ~End("refused")
  <2>1. ASSUME NEW i \in Parameters(graph)
        PROVE  Output(i, 1, <<>>) = Value(graph, i)
    <3>1. i \in DOMAIN graph /\ graph[i].op = "parameter"
      BY DEF Parameters
    <3>2. graph[i].operands = <<>>
      BY <1>2, <3>1 DEF WellFormed
    <3>3. Arguments(graph, i) = <<>>
      BY <3>2 DEF Arguments
    <3>4. QED BY <1>2, <3>1, <3>3, Values
  <2>2. \A i \in DOMAIN graph : op_map'[i] =
            IF i \in Parameters(graph) THEN Output(i, 1, <<>>) ELSE NoNode
    BY <1>4 DEF Initialize
  <2>3. UNCHANGED <<graph, tuple_op_map_vector>>
    BY <1>4 DEF Initialize
  <2>4. QED BY <2>1, <2>2, <2>3 DEF MapsDenoteValues
<1>5. ASSUME NEW i \in DOMAIN graph, Process(i)
      PROVE  MapsDenoteValues'
  <2> SUFFICES ASSUME UnitStrides(graph)'
               PROVE  \A j \in DOMAIN graph' :
                        /\ op_map'[j] \in {NoNode, Value(graph, j)'}
                        /\ tuple_op_map_vector'[j] \in
                              {NoElements, Value(graph, j)'.args}
    BY DEF MapsDenoteValues
  <2>1. graph' = graph
    BY <1>1, <1>5, Handlers
       DEF EndsVisit, KeepsParameter, SavesArray, SavesTuple, SavesElement,
           SavesOutputs, End, Save, Visited
  <2>2. UnitStrides(graph)
    BY <2>1
  <2>3. \A j \in DOMAIN graph :
            /\ op_map[j] \in {NoNode, Value(graph, j)}
            /\ tuple_op_map_vector[j] \in {NoElements, Value(graph, j).args}
    BY <2>2 DEF MapsDenoteValues
  <2>4. Missing(i) \/ OperandNodes(i) = Arguments(graph, i)
    BY <1>1, <2>2, NodesDenote
  <2>5. CASE EndsVisit(i) \/ KeepsParameter(i)
    BY <2>1, <2>3, <2>5 DEF EndsVisit, KeepsParameter, End, maps
  <2>6. CASE SavesArray(i)
    <3>1. graph[i].attributes # "strided"
      BY <2>2 DEF UnitStrides
    <3>2. op_map' = [op_map EXCEPT ![i] = Value(graph, i)]
      BY <1>2, <2>4, <2>6, <3>1, Values DEF SavesArray, Save
    <3>3. QED BY <1>1, <2>1, <2>3, <2>6, <3>2 DEF SavesArray, Save, Shape
  <2>7. CASE SavesTuple(i)
    <3>1. Value(graph, i) = Tuple(OperandNodes(i))
      BY <1>2, <2>4, <2>7, Values DEF SavesTuple
    <3>2. Value(graph, i).args = OperandNodes(i)
      BY <3>1 DEF Tuple
    <3>3. QED BY <1>1, <2>1, <2>3, <2>7, <3>1, <3>2 DEF SavesTuple, Shape
  <2>8. CASE SavesElement(i)
    <3> DEFINE o == graph[i].operands[1]
    <3>1. 1 \in DOMAIN graph[i].operands
      BY <1>2, <2>8, Values DEF SavesElement
    <3>2. o \in DOMAIN graph
      BY <1>2, <3>1, OperandsPrecede
    <3>3. tuple_op_map_vector[o] # NoElements
      BY <2>8 DEF SavesElement, NoElements
    <3>4. tuple_op_map_vector[o] = Value(graph, o).args
      BY <2>3, <3>2, <3>3
    <3>5. op_map' = [op_map EXCEPT ![i] = Value(graph, i)]
      BY <1>2, <2>8, <3>4, Values DEF SavesElement, Save
    <3>6. QED BY <1>1, <2>1, <2>3, <2>8, <3>5 DEF SavesElement, Save, Shape
  <2>9. CASE SavesOutputs(i)
    <3>1. Value(graph, i).args = BatchNormOutputs(i, OperandNodes(i))
      BY <1>2, <2>4, <2>9, Values DEF SavesOutputs, Tuple
    <3>2. QED BY <1>1, <2>1, <2>3, <2>9, <3>1 DEF SavesOutputs, Shape
  <2>10. QED BY <1>1, <1>5, <2>5, <2>6, <2>7, <2>8, <2>9, Handlers
<1>6. QED
  BY <1>3, <1>4, <1>5
     DEF Next, Initialize, End, FinishVisit, NGraphFunction, vars, maps

\* Whatever the order of the visit and however tuples are nested, the maps never
\* hold for an instruction anything but what it computes.
THEOREM MapsCorrect == Spec => []MapsDenoteValues
<1>1. Init => TypeInv /\ MapsDenoteValues
  BY GraphsAssumption
     DEF Init, TypeInv, TypeOK, NoFunction, MapsDenoteValues
<1>2. TypeInv /\ MapsDenoteValues /\ [Next]_vars => (TypeInv /\ MapsDenoteValues)'
  BY TypeStep, MapsStep
<1>3. QED BY <1>1, <1>2, PTL DEF Spec

-----------------------------------------------------------------------------
(* The function that is built *)

\* Once Initialize is done, every parameter of the computation, used or not, is
\* at its number and has its node.
ParametersHeld ==
    status \in {"visiting", "visited", "built"} =>
        \A i \in Parameters(graph) :
            /\ graph[i].index \in DOMAIN parameter_number_map
            /\ parameter_number_map[graph[i].index] = i
            /\ op_map[i] = Value(graph, i)

LEMMA ParameterValues ==
    ASSUME NEW g \in Graphs, NEW i \in Parameters(g)
    PROVE  i \in DOMAIN g /\ Value(g, i) = Output(i, 1, <<>>)
<1>1. i \in DOMAIN g /\ g[i].op = "parameter"
  BY DEF Parameters
<1>2. g[i].operands = <<>>
  BY <1>1, GraphsAssumption DEF WellFormed
<1>3. Arguments(g, i) = <<>>
  BY <1>2 DEF Arguments
<1>4. QED BY <1>1, <1>3, Values

LEMMA ParametersStep ==
    TypeInv /\ ParametersHeld /\ [Next]_vars => ParametersHeld'
<1> SUFFICES ASSUME TypeInv, ParametersHeld, [Next]_vars PROVE ParametersHeld'
  OBVIOUS
<1>1. Shape
  BY TypeGivesShape
<1>2. WellFormed(graph) /\ graph \in Graphs
  BY DEF TypeInv, TypeOK
<1>3. CASE Initialize
  <2>1. CASE End("refused")
    BY <2>1 DEF End, ParametersHeld
  <2>2. CASE ~End("refused")
    <3>1. graph' = graph
      BY <1>3, <2>2 DEF Initialize
    <3>2. ASSUME NEW i \in Parameters(graph)
          PROVE  /\ graph[i].index \in DOMAIN parameter_number_map'
                 /\ parameter_number_map'[graph[i].index] = i
                 /\ op_map'[i] = Value(graph, i)
      <4>1. \A j \in Parameters(graph) :
                graph[j].index = graph[i].index => j = i
        BY <1>2 DEF WellFormed
      <4>2. (CHOOSE j \in Parameters(graph) : graph[j].index = graph[i].index) = i
        BY <4>1
      <4>3. op_map'[i] = Output(i, 1, <<>>)
        BY <1>2, <1>3, <2>2, ParameterValues DEF Initialize
      <4>4. op_map'[i] = Value(graph, i)
        BY <1>2, <4>3, ParameterValues
      <4> DEFINE numbers == {graph[j].index : j \in Parameters(graph)}
                 number(n) == CHOOSE j \in Parameters(graph) : graph[j].index = n
      <4>5. parameter_number_map' = [n \in numbers |-> number(n)]
        BY <1>3, <2>2 DEF Initialize
      <4>6. graph[i].index \in numbers /\ number(graph[i].index) = i
        BY <4>2
      <4> HIDE DEF numbers, number
      <4>7. QED BY <4>4, <4>5, <4>6
    <3>3. QED BY <3>1, <3>2 DEF ParametersHeld
  <2>3. QED BY <2>1, <2>2
<1>4. ASSUME NEW i \in DOMAIN graph, Process(i)
      PROVE  ParametersHeld'
  <2>1. status = "visiting"
    BY <1>4 DEF Process
  <2>2. CASE EndsVisit(i)
    BY <2>2 DEF EndsVisit, End, Ends, ParametersHeld
  <2>3. CASE KeepsParameter(i)
    BY <2>1, <2>3 DEF KeepsParameter, Visited, maps, ParametersHeld
  <2>4. CASE SavesOutputs(i)
    BY <2>1, <2>4 DEF SavesOutputs, Visited, ParametersHeld
  <2>5. CASE SavesArray(i) \/ SavesTuple(i) \/ SavesElement(i)
    <3>1. i \notin Parameters(graph)
      BY <2>5 DEF SavesArray, ArrayOp, SavesTuple, SavesElement, Parameters
    <3>2. /\ \A j \in DOMAIN graph : j # i => op_map'[j] = op_map[j]
          /\ UNCHANGED <<graph, status, parameter_number_map>>
      BY <1>1, <2>5
         DEF SavesArray, SavesTuple, SavesElement, Save, Visited, Shape
    <3>3. Parameters(graph) \subseteq DOMAIN graph
      BY DEF Parameters
    <3>4. QED BY <2>1, <3>1, <3>2, <3>3 DEF ParametersHeld
  <2>6. QED BY <1>1, <1>4, <2>2, <2>3, <2>4, <2>5, Handlers
<1>5. CASE FinishVisit
  BY <1>5 DEF FinishVisit, maps, ParametersHeld
<1>6. CASE NGraphFunction
  BY <1>6 DEF NGraphFunction, End, maps, ParametersHeld
<1>7. CASE UNCHANGED vars
  BY <1>7 DEF vars, maps, ParametersHeld
<1>8. QED BY <1>3, <1>4, <1>5, <1>6, <1>7 DEF Next

LEMMA FunctionStep ==
    TypeInv /\ MapsDenoteValues /\ ParametersHeld /\ FunctionComputesRoot
        /\ [Next]_vars => FunctionComputesRoot'
<1> SUFFICES ASSUME TypeInv, MapsDenoteValues, ParametersHeld,
                    FunctionComputesRoot, [Next]_vars
             PROVE  FunctionComputesRoot'
  OBVIOUS
<1>1. Shape
  BY TypeGivesShape
<1>2. CASE Initialize
  BY <1>2 DEF Initialize, End, FunctionComputesRoot
<1>3. ASSUME NEW i \in DOMAIN graph, Process(i)
      PROVE  FunctionComputesRoot'
  BY <1>1, <1>3, Handlers
     DEF Process, EndsVisit, KeepsParameter, SavesArray, SavesTuple,
         SavesElement, SavesOutputs, Save, Visited, End, Ends,
         FunctionComputesRoot
<1>4. CASE FinishVisit
  BY <1>4 DEF FinishVisit, FunctionComputesRoot
<1>5. CASE NGraphFunction /\ op_map[Root] = NoNode
  BY <1>5 DEF NGraphFunction, End, FunctionComputesRoot
<1>6. CASE NGraphFunction /\ op_map[Root] # NoNode
  <2>1. Root \in DOMAIN graph
    <3>1. WellFormed(graph)
      BY GraphsAssumption DEF Shape, TypeInv
    <3>2. graph \in Seq(Instructions) /\ graph # <<>>
      BY <3>1 DEF WellFormed
    <3>3. QED BY <3>2 DEF Root
  <2>2. /\ graph' = graph /\ status = "visited"
        /\ ng_function'.root = op_map[Root]
        /\ ng_function'.parameters =
              [n \in DOMAIN parameter_number_map |->
                  op_map[parameter_number_map[n]]]
    BY <1>6 DEF NGraphFunction
  <2>3. UnitStrides(graph) => op_map[Root] = Value(graph, Root)
    BY <1>6, <2>1 DEF MapsDenoteValues
  <2>4. ASSUME NEW i \in Parameters(graph)
        PROVE  /\ graph[i].index \in DOMAIN ng_function'.parameters
               /\ ng_function'.parameters[graph[i].index] = Value(graph, i)
    BY <2>2 DEF ParametersHeld
  <2>5. Root' = Root
    BY <2>2 DEF Root
  <2>6. QED BY <2>2, <2>3, <2>4, <2>5 DEF FunctionComputesRoot
<1>7. CASE UNCHANGED vars
  BY <1>7 DEF vars, FunctionComputesRoot, Root
<1>8. QED BY <1>2, <1>3, <1>4, <1>5, <1>6, <1>7 DEF Next

\* The function built for any computation without strided slices computes its
\* root, and takes every parameter of the computation at its number.
THEOREM FunctionCorrect == Spec => []FunctionComputesRoot
<1> DEFINE Inv == TypeInv /\ MapsDenoteValues /\ ParametersHeld
                    /\ FunctionComputesRoot
<1>1. Init => Inv
  BY GraphsAssumption
     DEF Init, TypeInv, TypeOK, NoFunction, MapsDenoteValues, ParametersHeld,
         FunctionComputesRoot
<1>2. Inv /\ [Next]_vars => Inv'
  BY TypeStep, MapsStep, ParametersStep, FunctionStep
<1>3. Inv => FunctionComputesRoot
  OBVIOUS
<1>4. QED BY <1>1, <1>2, <1>3, PTL DEF Spec

-----------------------------------------------------------------------------
(* Which computations are translated *)

Regular(g) == TuplesNearby(g) /\ \A i \in DOMAIN g : Accepts(g[i])

\* The elements of tuple-shaped instruction i are in the tuple map.
ElementsThere(i) ==
    /\ DOMAIN tuple_op_map_vector[i] = DOMAIN Value(graph, i).args
    /\ \A k \in DOMAIN tuple_op_map_vector[i] :
          tuple_op_map_vector[i][k] # NoNode

\* A visited instruction has left the entries its users will look up.
EntriesThere ==
    \A i \in visited :
        /\ graph[i].op \notin TupleOutputOps => op_map[i] # NoNode
        /\ graph[i].op \in {"tuple"} \cup TupleOutputOps => ElementsThere(i)

Translated ==
    Regular(graph) =>
        /\ status \in {"created", "visiting", "visited", "built"}
        /\ status = "created" => visited = {}
        /\ status = "visited" => Root \in visited
        /\ EntriesThere

LEMMA NothingFails ==
    ASSUME TypeInv, Regular(graph), EntriesThere, ParametersHeld,
           status = "visiting", NEW i \in DOMAIN graph,
           Operands(graph[i]) \subseteq visited
    PROVE  ~Fails(i)
<1>1. WellFormed(graph) /\ graph \in Graphs
  BY DEF TypeInv, TypeOK
<1>2. Accepts(graph[i])
  BY DEF Regular
<1>3. graph[i].op = "parameter" => op_map[i] # NoNode
  <2> SUFFICES ASSUME graph[i].op = "parameter" PROVE op_map[i] # NoNode
    OBVIOUS
  <2>1. i \in Parameters(graph)
    BY DEF Parameters
  <2>2. op_map[i] = Output(i, 1, <<>>)
    BY <1>1, <2>1, ParameterValues DEF ParametersHeld
  <2>3. i # 0
    BY <1>1, OperandsPrecede
  <2>4. QED BY <2>2, <2>3, NodesAreNodes
<1>4. graph[i].op # "get-tuple-element" => ~Missing(i)
  <2>1. ASSUME NEW o \in Operands(graph[i]), op_map[o] = NoNode
        PROVE  graph[i].op = "get-tuple-element"
    <3>1. o \in visited /\ o \in DOMAIN graph
      BY <1>1, OperandsPrecede
    <3>2. graph[o].op \in TupleOutputOps
      BY <2>1, <3>1 DEF EntriesThere
    <3>3. QED BY <3>1, <3>2 DEF Regular, TuplesNearby
  <2>2. QED BY <2>1 DEF Missing
<1>5. graph[i].op = "get-tuple-element" =>
          graph[i].index + 1 \in
             DOMAIN tuple_op_map_vector[graph[i].operands[1]]
  <2> SUFFICES ASSUME graph[i].op = "get-tuple-element"
               PROVE  graph[i].index + 1 \in
                         DOMAIN tuple_op_map_vector[graph[i].operands[1]]
    OBVIOUS
  <2> DEFINE o == graph[i].operands[1]
  <2>1. o \in Operands(graph[i])
    BY <1>1, Values, OperandsPrecede
  <2>2. graph[o].op \in {"tuple"} \cup TupleOutputOps
    BY <2>1 DEF Regular, TuplesNearby
  <2>3. ElementsThere(o)
    BY <2>1, <2>2 DEF EntriesThere
  <2>4. graph[i].index + 1 \in DOMAIN Value(graph, o).args
    BY <1>1 DEF WellFormed
  <2>5. QED BY <2>3, <2>4 DEF ElementsThere
<1>6. QED BY <1>2, <1>3, <1>4, <1>5 DEF Fails

\* What a handler that returns OK leaves, for its instruction and the others.
LEMMA HandlersLeaveEntries ==
    ASSUME TypeInv, Regular(graph), EntriesThere, NEW i \in DOMAIN graph,
           Operands(graph[i]) \subseteq visited,
           \/ KeepsParameter(i) \/ SavesArray(i) \/ SavesTuple(i)
           \/ SavesElement(i) \/ SavesOutputs(i)
    PROVE  EntriesThere'
<1>1. WellFormed(graph) /\ graph \in Graphs /\ Shape
  BY TypeGivesShape DEF TypeInv, TypeOK
<1>2. /\ graph' = graph /\ visited' = visited \cup {i}
      /\ \A j \in DOMAIN graph \ {i} :
            /\ op_map'[j] = op_map[j]
            /\ tuple_op_map_vector'[j] = tuple_op_map_vector[j]
  BY <1>1 DEF KeepsParameter, SavesArray, SavesTuple, SavesElement,
     SavesOutputs, Save, Visited, maps, Shape
<1>3. i # 0 /\ i \in Nat
  BY <1>1, OperandsPrecede
<1>4. OperandNodes(i) = [k \in DOMAIN graph[i].operands |->
                            op_map[graph[i].operands[k]]]
  BY DEF OperandNodes
<1>5. graph[i].op \notin TupleOutputOps => op_map'[i] # NoNode
  <2>1. CASE KeepsParameter(i)
    BY <2>1 DEF KeepsParameter, maps
  <2>2. CASE SavesArray(i)
    BY <1>1, <1>3, <2>2, NodesAreNodes DEF SavesArray, Save, Shape
  <2>3. CASE SavesTuple(i)
    BY <1>1, <1>3, <2>3, NodesAreNodes DEF SavesTuple, Shape
  <2>4. CASE SavesElement(i)
    <3> DEFINE o == graph[i].operands[1]
    <3>1. graph[i].op = "get-tuple-element"
      BY <2>4 DEF SavesElement
    <3>2. o \in Operands(graph[i])
      BY <1>1, <3>1, Values, OperandsPrecede
    <3>3. ElementsThere(o)
      BY <3>1, <3>2 DEF Regular, TuplesNearby, EntriesThere
    <3>4. QED BY <1>1, <2>4, <3>3 DEF SavesElement, Save, ElementsThere, Shape
  <2>5. CASE SavesOutputs(i)
    BY <2>5 DEF SavesOutputs
  <2>6. QED BY <2>1, <2>2, <2>3, <2>4, <2>5
<1>6. graph[i].op \in {"tuple"} \cup TupleOutputOps =>
          /\ DOMAIN tuple_op_map_vector'[i] = DOMAIN Value(graph, i).args
          /\ \A k \in DOMAIN tuple_op_map_vector'[i] :
                tuple_op_map_vector'[i][k] # NoNode
  <2>1. CASE KeepsParameter(i) \/ SavesArray(i) \/ SavesElement(i)
    BY <2>1 DEF KeepsParameter, SavesArray, ArrayOp, SavesElement, TupleOutputOps
  <2>2. CASE SavesTuple(i)
    <3>1. tuple_op_map_vector'[i] = OperandNodes(i)
      BY <1>1, <2>2 DEF SavesTuple, Shape
    <3>2. Value(graph, i).args = Arguments(graph, i)
      BY <1>1, <2>2, Values DEF SavesTuple, Tuple
    <3>3. \A k \in DOMAIN graph[i].operands :
              op_map[graph[i].operands[k]] # NoNode
      BY <1>1, <2>2, OperandsPrecede DEF SavesTuple, Missing
    <3>4. QED BY <1>4, <3>1, <3>2, <3>3 DEF Arguments
  <2>3. CASE SavesOutputs(i)
    <3>1. tuple_op_map_vector'[i] = BatchNormOutputs(i, OperandNodes(i))
      BY <1>1, <2>3 DEF SavesOutputs, Shape
    <3>2. Value(graph, i).args = BatchNormOutputs(i, Arguments(graph, i))
      BY <1>1, <2>3, Values DEF SavesOutputs, Tuple
    <3>3. QED BY <1>3, <3>1, <3>2, NodesAreNodes DEF BatchNormOutputs
  <2>4. QED BY <2>1, <2>2, <2>3
<1>7. visited \subseteq DOMAIN graph
  BY <1>1 DEF Shape
<1>8. ASSUME NEW j \in visited'
      PROVE  /\ graph'[j].op \notin TupleOutputOps => op_map'[j] # NoNode
             /\ graph'[j].op \in {"tuple"} \cup TupleOutputOps =>
                   ElementsThere(j)'
  <2>1. CASE j = i
    BY <1>2, <1>5, <1>6, <2>1 DEF ElementsThere
  <2>2. CASE j # i
    BY <1>2, <1>7, <2>2 DEF EntriesThere, ElementsThere
  <2>3. QED BY <2>1, <2>2
<1>9. QED BY <1>8 DEF EntriesThere

LEMMA TranslatedStep ==
    TypeInv /\ ParametersHeld /\ Translated /\ [Next]_vars => Translated'
<1> SUFFICES ASSUME TypeInv, ParametersHeld, Translated, [Next]_vars,
                    Regular(graph)'
             PROVE  /\ status' \in {"created", "visiting", "visited", "built"}
                    /\ status' = "created" => visited' = {}
                    /\ status' = "visited" => (Root \in visited)'
                    /\ EntriesThere'
  BY DEF Translated
<1>1. WellFormed(graph) /\ graph \in Graphs /\ Shape
  BY TypeGivesShape DEF TypeInv, TypeOK
<1>2. graph' = graph
  <2>1. ASSUME NEW i \in DOMAIN graph, Process(i) PROVE graph' = graph
    BY <1>1, <2>1, Handlers
       DEF EndsVisit, KeepsParameter, SavesArray, SavesTuple, SavesElement,
           SavesOutputs, Save, Visited, End
  <2>2. QED
    BY <2>1 DEF Next, Initialize, FinishVisit, NGraphFunction, End, vars
<1>3. Regular(graph) /\ Root' = Root
  BY <1>2 DEF Root
<1>4. /\ status \in {"created", "visiting", "visited", "built"}
      /\ status = "created" => visited = {}
      /\ status = "visited" => Root \in visited
      /\ EntriesThere
  BY <1>3 DEF Translated
<1>5. CASE Initialize
  <2>1. ~\E i \in Parameters(graph) : ~Accepts(graph[i])
    BY <1>3 DEF Regular, Parameters
  <2>2. status' = "visiting" /\ visited' = visited /\ status = "created"
    BY <1>5, <2>1 DEF Initialize
  <2>3. QED BY <1>4, <2>2 DEF EntriesThere
<1>6. ASSUME NEW i \in DOMAIN graph, Process(i)
      PROVE  /\ status' \in {"created", "visiting", "visited", "built"}
             /\ status' = "created" => visited' = {}
             /\ status' = "visited" => (Root \in visited)'
             /\ EntriesThere'
  <2>1. status = "visiting" /\ Operands(graph[i]) \subseteq visited
    BY <1>6 DEF Process
  <2>2. ~EndsVisit(i)
    BY <1>3, <1>4, <2>1, NothingFails DEF EndsVisit
  <2>3. \/ KeepsParameter(i) \/ SavesArray(i) \/ SavesTuple(i)
        \/ SavesElement(i) \/ SavesOutputs(i)
    BY <1>1, <1>6, <2>2, Handlers
  <2>4. EntriesThere'
    BY <1>3, <1>4, <2>1, <2>3, HandlersLeaveEntries
  <2>5. status' = "visiting"
    BY <2>1, <2>3
       DEF KeepsParameter, SavesArray, SavesTuple, SavesElement, SavesOutputs,
           Save, Visited
  <2>6. QED BY <2>4, <2>5
<1>7. CASE FinishVisit
  BY <1>3, <1>4, <1>7 DEF FinishVisit, maps, EntriesThere, ElementsThere
<1>8. CASE NGraphFunction
  <2>1. Root \in visited /\ Root \in DOMAIN graph
    BY <1>1, <1>4, <1>8 DEF NGraphFunction, Shape
  <2>2. graph[Root].op \notin TupleOutputOps
    BY <1>3, <2>1 DEF Regular, TuplesNearby, Root
  <2>3. op_map[Root] # NoNode
    BY <1>4, <2>1, <2>2 DEF EntriesThere
  <2>4. status' = "built" /\ UNCHANGED <<graph, visited, maps>>
    BY <1>8, <2>3 DEF NGraphFunction
  <2>5. QED BY <1>4, <2>4 DEF maps, EntriesThere, ElementsThere
<1>9. CASE UNCHANGED vars
  BY <1>3, <1>4, <1>9 DEF vars, maps, EntriesThere, ElementsThere
<1>10. QED BY <1>5, <1>6, <1>7, <1>8, <1>9 DEF Next

\* Every computation of accepted instructions whose tuples are taken apart where
\* they are made is translated: no handler misses an entry of the maps.
THEOREM TranslationCorrect == Spec => []NearbyTuplesTranslated
<1> DEFINE Inv == TypeInv /\ ParametersHeld /\ Translated
<1>1. Init => Inv
  BY GraphsAssumption
     DEF Init, TypeInv, TypeOK, NoFunction, ParametersHeld, Translated,
         EntriesThere
<1>2. Inv /\ [Next]_vars => Inv'
  BY TypeStep, ParametersStep, TranslatedStep
<1>3. Inv => NearbyTuplesTranslated
  BY DEF Translated, NearbyTuplesTranslated, Regular
<1>4. QED BY <1>1, <1>2, <1>3, PTL DEF Spec

=============================================================================
