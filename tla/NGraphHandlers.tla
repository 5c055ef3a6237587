---------------------------- MODULE NGraphHandlers ----------------------------
(***************************************************************************)
(* What the handlers of NGraphEmitter make of an instruction: the nGraph   *)
(* operations they put together, on the values of the operands.            *)
(* NGraphEmitter (the module) has their control; this one has the axes,    *)
(* the windows and the broadcasts, where the two libraries' conventions    *)
(* differ.  A handler that returns an error makes nothing: Missing.        *)
(*                                                                         *)
(* Element types, the unary functions but one, and slices (whose strides   *)
(* the module NGraphEmitter shows to be dropped) are left out.             *)
(***************************************************************************)
EXTENDS Tensors

-----------------------------------------------------------------------------
(* Shuffles *)

\* Sorted, the axes increase by one.
IsPermutationOfZeroBasedVector(v) ==
    /\ Cardinality(Range(v)) = Len(v)
    /\ v # <<>> => Max(Range(v)) - Min(Range(v)) = Len(v) - 1

\* No operation if the order is the natural one.
MaybeAddAxesShuffle(x, axes_shuffle) ==
    IF axes_shuffle = [d \in DOMAIN axes_shuffle |-> d]
      THEN x ELSE Reshape(x, axes_shuffle)

GetConvolutionImagebatchShuffleVector(dn) ==
    <<dn.input_batch, dn.input_feature>> \o dn.input_spatial
GetConvolutionFiltersShuffleVector(dn) ==
    <<dn.kernel_output_feature, dn.kernel_input_feature>> \o dn.kernel_spatial

\* Mutant: the order in which the input was shuffled, not its inverse.
OutputShuffleVectorUninverted(dn) ==
    <<dn.input_batch, dn.input_feature>> \o dn.input_spatial

\* The positions of the axes of the INPUT in nGraph's order.
GetConvolutionOutputShuffleVector(dn) ==
    LET order == <<dn.input_batch, dn.input_feature>> \o dn.input_spatial
    IN  [d \in DOMAIN order |-> SelectInSeq(order, LAMBDA a : a = d)]

ProcessConvolution(ins, image_batch, filters) ==
    LET shuffles == <<GetConvolutionImagebatchShuffleVector(ins.dn),
                      GetConvolutionFiltersShuffleVector(ins.dn),
                      GetConvolutionOutputShuffleVector(ins.dn)>>
    IN  IF \E s \in Range(shuffles) : ~IsPermutationOfZeroBasedVector(s)
          THEN Missing
          ELSE MaybeAddAxesShuffle(
                   NGraphConvolution(
                       MaybeAddAxesShuffle(image_batch, shuffles[1]),
                       MaybeAddAxesShuffle(filters, shuffles[2]), ins.window),
                   shuffles[3])

-----------------------------------------------------------------------------
(* Broadcasts *)

\* The axes that are not in dimensions, which must increase.
ProcessBroadcast(ins, x) ==
    LET rank == Len(ins.shape)
        dimensions == ins.dimensions
    IN  IF \/ Len(ShapeOf(x)) # Len(dimensions)
           \/ rank < Len(dimensions)
           \/ \E k \in 2 .. Len(dimensions) : dimensions[k - 1] >= dimensions[k]
          THEN Missing
          ELSE BroadcastAlong(x, ins.shape, (1 .. rank) \ Range(dimensions))

\* ReshapeAndBroadcast: x, of this shape, to the other one along the axes.
ReshapeAndBroadcast(x, shape, axes, broadcast_shape) ==
    LET reshape == Without(broadcast_shape, axes)
        reshaped == IF shape = reshape THEN x ELSE Reshaped(x, reshape)
    IN  IF broadcast_shape = reshape
          THEN reshaped
          ELSE BroadcastAlong(reshaped, broadcast_shape, axes)

\* Both operands, broadcast to a common shape; as they are if there is none.
AutoBroadcast(x, y) ==
    LET lhs == ShapeOf(x)  rhs == ShapeOf(y)
        rank == Max({Len(lhs), Len(rhs)})
        ones(s) == [d \in 1 .. rank - Len(s) |-> 1] \o s
        l == ones(lhs)  r == ones(rhs)
        axes(a, b) == {d \in 1 .. rank : a[d] = 1 /\ b[d] # 1}
        shape == [d \in 1 .. rank |-> IF r[d] = 1 THEN l[d] ELSE r[d]]
        possible == \A d \in 1 .. rank : l[d] = r[d] \/ 1 \in {l[d], r[d]}
    IN  IF lhs = rhs \/ ~possible
          THEN <<x, y>>
          ELSE <<ReshapeAndBroadcast(x, lhs, axes(l, r), shape),
                 ReshapeAndBroadcast(y, rhs, axes(r, l), shape)>>

\* An operation of nGraph's on operands of one shape.
SameShape(op, x, y) ==
    IF DOMAIN x # DOMAIN y THEN Missing
    ELSE [i \in DOMAIN x |-> Combined(op, x[i], y[i])]

ProcessElementwiseBinary(op, x, y) ==
    LET operands == AutoBroadcast(x, y)
    IN  SameShape(op, operands[1], operands[2])

ProcessCompare(op, x, y) == SameShape(op, x, y)

\* Minimum(Maximum(arg, min), max).
ProcessClamp(min, arg, max) ==
    SameShape("minimum", SameShape("maximum", arg, min), max)

-----------------------------------------------------------------------------
(* Windows, padding and contraction *)

HasPadding(window) == \E d \in DOMAIN window : window[d].low # 0 \/ window[d].high # 0
HasDilation(window) ==
    \E d \in DOMAIN window : window[d].dilation # 1 \/ window[d].base # 1

\* The shape of the windows' positions in x.
Positions(x, window) ==
    [d \in DOMAIN window |->
        (ShapeOf(x)[d] - window[d].size) \div window[d].stride + 1]

ProcessReduceWindow(ins, x, init) ==
    IF HasDilation(ins.window) \/ HasPadding(ins.window)
      THEN Missing
      ELSE LET window == SizesAndStrides(ins.window)
           IN  ReduceWindow(Positions(x, window), ins.apply.root, x, init, window)

ProcessSelectAndScatter(ins, x, source, init) ==
    IF HasPadding(ins.window)
      THEN Missing
      ELSE SelectAndScatter(x, source, ins.scatter.root, init,
                            SizesAndStrides(ins.window))

\* The axes go, whatever their order.
ProcessReduce(ins, x, init) ==
    ReduceDimensions(Without(ShapeOf(x), Range(ins.dimensions)), ins.apply.root,
                     x, init, ins.dimensions)

\* Negative padding at an edge is refused.
ProcessPad(ins, x, value) ==
    LET padding == ins.padding
        shape == [d \in DOMAIN padding |->
                     padding[d].low + padding[d].high + ShapeOf(x)[d]
                       + (ShapeOf(x)[d] - 1) * padding[d].interior]
    IN  IF \E d \in DOMAIN padding : padding[d].low < 0 \/ padding[d].high < 0
          THEN Missing
          ELSE PadWith(shape, x, value, padding)

\* The contracted dimensions of the instruction are not looked at.
ProcessDot(x, y) == Dot(x, y)

ProcessReverse(ins, x) == Rev(ShapeOf(x), x, ins.dimensions)
ProcessReshape(ins, x) == Reshaped(x, ins.shape)
ProcessTranspose(ins, x) == Reshape(x, ins.dimensions)

-----------------------------------------------------------------------------
(* Batch normalization: nGraph has the feature in the second dimension. *)

Naturally(rank) == [d \in 1 .. rank |-> d]

\* The feature goes to the second dimension; the others keep their order.
FeatureToSecond(rank, feature) ==
    InsertAt(RemoveAt(Naturally(rank), feature), 2, feature)
FeatureBack(rank, feature) ==
    InsertAt(RemoveAt(Naturally(rank), 2), feature, 2)

Normalized(feature, xs, ps) ==
    LET rank == Len(ShapeOf(xs[1]))
        moved(x) == Reshape(x, FeatureToSecond(rank, feature))
    IN  IF feature = 2
          THEN BatchNormalized(2, xs, ps)
          ELSE Reshape(BatchNormalized(2, [k \in DOMAIN xs |-> moved(xs[k])], ps),
                       FeatureBack(rank, feature))

\* The first outputs.
ProcessBatchNormTraining(ins, a) ==
    Normalized(ins.dimensions[1], <<a[1]>>, <<a[2], a[3]>>)
ProcessBatchNormInference(ins, a) ==
    Normalized(ins.dimensions[1], <<a[1]>>, <<a[2], a[3], a[4], a[5]>>)
ProcessBatchNormGrad(ins, a) ==
    Normalized(ins.dimensions[1], <<a[1], a[5]>>, <<a[2], a[3], a[4]>>)

-----------------------------------------------------------------------------
(* The handler of an instruction, and the instruction itself, on its operands. *)

Compares == {"gt"}

HandlerOf(ins, a) ==
    CASE ins.opcode = "broadcast" -> ProcessBroadcast(ins, a[1])
      [] ins.opcode = "select" -> Select(a[1], a[2], a[3])
      [] ins.opcode = "reverse" -> ProcessReverse(ins, a[1])
      [] ins.opcode = "pad" -> ProcessPad(ins, a[1], a[2])
      [] ins.opcode = "reduce" -> ProcessReduce(ins, a[1], a[2])
      [] ins.opcode = "reduce-window" -> ProcessReduceWindow(ins, a[1], a[2])
      [] ins.opcode = "select-and-scatter" ->
            ProcessSelectAndScatter(ins, a[1], a[2], a[3])
      [] ins.opcode = "convolution" -> ProcessConvolution(ins, a[1], a[2])
      [] ins.opcode = "negate" -> Negate(a[1])
      [] ins.opcode = "clamp" -> ProcessClamp(a[1], a[2], a[3])
      [] ins.opcode = "reshape" -> ProcessReshape(ins, a[1])
      [] ins.opcode = "transpose" -> ProcessTranspose(ins, a[1])
      [] ins.opcode = "concatenate" ->
            Concatenate(a[1], a[2], ins.dimensions[1])
      [] ins.opcode = "dot" -> ProcessDot(a[1], a[2])
      [] ins.opcode = "batch-norm-training" -> ProcessBatchNormTraining(ins, a)
      [] ins.opcode = "batch-norm-inference" -> ProcessBatchNormInference(ins, a)
      [] ins.opcode = "batch-norm-grad" -> ProcessBatchNormGrad(ins, a)
      [] ins.opcode \in Compares -> ProcessCompare(ins.opcode, a[1], a[2])
      [] OTHER -> ProcessElementwiseBinary(ins.opcode, a[1], a[2])
\* There is nothing to look up for an operand that could not be made.
Handled(ins, a) ==
    IF \E k \in DOMAIN a : a[k] = Missing THEN Missing ELSE HandlerOf(ins, a)

Meaning(ins, a) ==
    CASE ins.opcode = "broadcast" -> Broadcast(ins.shape, a[1], ins.dimensions)
      [] ins.opcode = "select" -> Select(a[1], a[2], a[3])
      [] ins.opcode = "reverse" -> Rev(ins.shape, a[1], ins.dimensions)
      [] ins.opcode = "pad" -> PadWith(ins.shape, a[1], a[2], ins.padding)
      [] ins.opcode = "reduce" ->
            ReduceDimensions(ins.shape, ins.apply.root, a[1], a[2],
                             ins.dimensions)
      [] ins.opcode = "reduce-window" ->
            ReduceWindow(ins.shape, ins.apply.root, a[1], a[2], ins.window)
      [] ins.opcode = "select-and-scatter" ->
            SelectAndScatter(a[1], a[2], ins.scatter.root, a[3], ins.window)
      [] ins.opcode = "convolution" ->
            Convolution(ins.shape, a[1], a[2], ins.window, ins.dn)
      [] ins.opcode = "negate" -> Negate(a[1])
      [] ins.opcode = "clamp" -> Clamp(a[1], a[2], a[3])
      [] ins.opcode = "reshape" -> Reshaped(a[1], ins.shape)
      [] ins.opcode = "transpose" ->
            Transpose(ins.shape, a[1], ins.dimensions)
      [] ins.opcode = "concatenate" ->
            Concatenate(a[1], a[2], ins.dimensions[1])
      [] ins.opcode = "dot" ->
            DotGeneral(ins.shape, a[1], a[2], ins.dimensions[1],
                       ins.dimensions[2])
      [] ins.opcode = "batch-norm-training" ->
            BatchNormalized(ins.dimensions[1], <<a[1]>>, <<a[2], a[3]>>)
      [] ins.opcode = "batch-norm-inference" ->
            BatchNormalized(ins.dimensions[1], <<a[1]>>,
                            <<a[2], a[3], a[4], a[5]>>)
      [] ins.opcode = "batch-norm-grad" ->
            BatchNormalized(ins.dimensions[1], <<a[1], a[5]>>,
                            <<a[2], a[3], a[4]>>)
      [] OTHER -> Elementwise(ins.opcode, ins.shape, a[1], a[2])
=============================================================================
