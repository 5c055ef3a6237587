---------------------------- MODULE NGraphFusion ----------------------------
(***************************************************************************)
(* The fusion pass over one HLO computation.  A visitor tries nine rules   *)
(* at every instruction, operands before their users; a rule recognises    *)
(* the graph a TensorFlow kernel makes, replaces it by a kCustom fusion    *)
(* instruction and maps that to an emitter, which later makes ONE nGraph   *)
(* operation from the fusion's operands.                                   *)
(*                                                                         *)
(* The rules and the emitters have to agree on things neither of them      *)
(* states: on the operands the fusion has in the end and their order, and  *)
(* on a window and padding that the graph does not contain but implies.    *)
(* So the computation keeps its meaning here: Value is what it computes,   *)
(* with every fusion replaced by what its emitter makes of it.             *)
(***************************************************************************)
EXTENDS NGraphHandlers

CONSTANTS
    Computations, \* [instructions, fused, refused]: computations, the fusions
                  \* the pass has to find in each, as a set of <<root, emitter>>,
                  \* and whether the emitter makes no function of it
    Data(_, _)    \* Data(n, i): the element at i of parameter n

-----------------------------------------------------------------------------
(* Computations as XLA makes them: HloComputation, HloInstruction and shape   *)
(* inference.                                                                 *)

OperandCounts ==
    [n \in 0 .. 3 |->
        CASE n = 0 -> {"parameter", "constant"}
          [] n = 1 -> {"broadcast", "reverse", "transpose"}
          [] n = 2 -> {"reduce", "reduce-window", "pad", "add", "multiply",
                       "divide", "maximum", "minimum", "gt", "dot",
                       "convolution"}
          [] n = 3 -> {"select", "select-and-scatter", "clamp"}]

IsScalar(c, i) == c[i].shape = <<>>
Rank(c, i) == Len(c[i].shape)

\* Initial and padding values are scalars; windows and paddings have an entry for
\* each dimension, and dimension numbers one for each spatial dimension; a quotient is
\* taken element by element.
WellShaped(c, i) ==
    LET ins == c[i]
        operands == ins.operands
    IN  /\ ins.opcode = "reduce-window" =>
              IsScalar(c, operands[2]) /\ Len(ins.window) = Rank(c, i)
        /\ ins.opcode = "pad" =>
              /\ IsScalar(c, operands[2])
              /\ Len(ins.padding) = Rank(c, operands[1])
        /\ ins.opcode = "divide" =>
              \A k \in DOMAIN operands : c[operands[k]].shape = ins.shape
        /\ ins.opcode = "convolution" => ins.dn.input_spatial \in Seq(Nat)

\* In post order, with the operands each opcode has.  No pass before this one makes
\* fusion instructions.
WellFormed(c) ==
    /\ Len(c) \in Nat \ {0}
    /\ DOMAIN c = 1 .. Len(c)
    /\ \A i \in DOMAIN c :
          /\ {"opcode", "operands", "shape"} \subseteq DOMAIN c[i]
          /\ c[i].opcode # "fusion"
          /\ c[i].operands \in Seq(1 .. i - 1)
          /\ \A n \in DOMAIN OperandCounts :
                c[i].opcode \in OperandCounts[n] => Len(c[i].operands) = n
          /\ WellShaped(c, i)

ASSUME ComputationsAssumption ==
    \A g \in Computations : WellFormed(g.instructions)

-----------------------------------------------------------------------------
(* Emitters: NGraphEmitter::FusedOpEmitter and its subclasses. *)

NoEmitter == [kind |-> "none", opcode |-> "none", dimensions |-> <<>>,
              shape |-> <<>>, window |-> <<>>, nchw |-> TRUE]
Emitters == {"reduction", "max-pool", "max-pool-backprop", "avg-pool",
             "avg-pool-backprop", "conv-backprop-input",
             "conv-backprop-filters", "relu", "relu-backprop"}

\* The orders of the reshapes, for batches and filters of this rank.
NhwcToNchw(rank) == <<1, rank>> \o [d \in 1 .. rank - 2 |-> d + 1]
NchwToNhwc(rank) == <<1>> \o [d \in 1 .. rank - 2 |-> d + 2] \o <<2>>
\* Mutant: the two channel dimensions of the filters stay in their order.
HwioToOihwUnswapped(rank) == <<rank - 1, rank>> \o [d \in 1 .. rank - 2 |-> d]

HwioToOihw(rank) == <<rank, rank - 1>> \o [d \in 1 .. rank - 2 |-> d]
OihwToHwio(rank) == [d \in 1 .. rank - 2 |-> d + 2] \o <<2, 1>>

Permuted(shape, order) == [d \in DOMAIN order |-> shape[order[d]]]

ToNchw(e, rank, x) == IF e.nchw THEN x ELSE Reshape(x, NhwcToNchw(rank))
FromNchw(e, rank, x) == IF e.nchw THEN x ELSE Reshape(x, NchwToNhwc(rank))
ShapeToNchw(e) ==
    IF e.nchw THEN e.shape ELSE Permuted(e.shape, NhwcToNchw(Len(e.shape)))

FirstSpatial(nchw) == IF nchw THEN 3 ELSE 2

\* The sizes, strides and paddings of the spatial dimensions of the window.
XlaWindowToNGraph(window, nchw) ==
    [d \in 1 .. Len(window) - 2 |->
        LET w == window[FirstSpatial(nchw) + d - 1]
        IN  [Unit EXCEPT !.size = w.size, !.stride = w.stride,
                         !.low = w.low, !.high = w.high]]

\* What the emitters that read one batch make of it, in NCHW.
Pool(e, x, window) ==
    CASE e.kind = "max-pool" -> MaxPool(x, window)
      [] e.kind = "avg-pool" -> AvgPool(x, window)
      [] e.kind = "avg-pool-backprop" ->
            AvgPoolBackprop(ShapeToNchw(e), x, window)
Pooling(e, x) ==
    LET rank == Len(e.window)
    IN  FromNchw(e, rank, Pool(e, ToNchw(e, rank, x),
                               XlaWindowToNGraph(e.window, e.nchw)))

MaxPoolBackpropOf(e, x, deltas) ==
    LET rank == Len(e.window)
        window == XlaWindowToNGraph(e.window, e.nchw)
    IN  FromNchw(e, rank, MaxPoolBackprop(ToNchw(e, rank, x),
                                          ToNchw(e, rank, deltas), window))

ConvBackpropInput(e, deltas, filters) ==
    LET rank == Len(e.shape)
    IN  FromNchw(e, rank,
            ConvolutionBackpropData(ShapeToNchw(e),
                                    Reshape(filters, HwioToOihw(rank)),
                                    ToNchw(e, rank, deltas), e.window))

ConvBackpropFilters(e, data, deltas) ==
    LET rank == Len(e.shape)
    IN  Reshape(ConvolutionBackpropFilters(ToNchw(e, rank, data),
                                           Permuted(e.shape, HwioToOihw(rank)),
                                           ToNchw(e, rank, deltas), e.window),
                OihwToHwio(rank))

\* The number of operands Emit reads.
Reads(kind) ==
    IF kind \in {"max-pool-backprop", "conv-backprop-input",
                 "conv-backprop-filters", "relu-backprop"} THEN 2 ELSE 1

\* Emit: the operation for a fusion with these operands.  A fusion with fewer
\* than Emit reads has none: operand(1) is past the end.
Emit(e, args) ==
    IF Len(args) < Reads(e.kind) \/ \E k \in DOMAIN args : args[k] = Missing
      THEN Missing
      ELSE CASE e.kind = "reduction" ->
                   Reduction(e.opcode, args[1], e.dimensions)
             [] e.kind \in {"max-pool", "avg-pool", "avg-pool-backprop"} ->
                   Pooling(e, args[1])
             [] e.kind = "max-pool-backprop" ->
                   MaxPoolBackpropOf(e, args[1], args[2])
             [] e.kind = "conv-backprop-input" ->
                   ConvBackpropInput(e, args[1], args[2])
             [] e.kind = "conv-backprop-filters" ->
                   ConvBackpropFilters(e, args[1], args[2])
             [] e.kind = "relu" -> Relu(args[1])
             [] e.kind = "relu-backprop" -> ReluBackprop(args[2], args[1])

-----------------------------------------------------------------------------
(* What a computation c computes at each of its instructions, if Op says what *)
(* an instruction does with the values of its operands.                       *)

ValueBy(Op(_, _), c, emitters) ==
    LET value[i \in DOMAIN c] ==
            LET ins == c[i]
                args == [k \in DOMAIN ins.operands |-> value[ins.operands[k]]]
            IN  CASE ins.opcode = "parameter" ->
                       [j \in Index(ins.shape) |-> Data(ins.literal, j)]
                  [] ins.opcode = "constant" -> Constant(ins.shape, ins.literal)
                  [] ins.opcode = "fusion" -> Emit(emitters[i], args)
                  [] OTHER -> Op(ins, args)
    IN  value

\* By the semantics of HLO, and by what the emitter makes of it.
Value(c, emitters) == ValueBy(Meaning, c, emitters)
FunctionOf(c, emitters) == ValueBy(Handled, c, emitters)

-----------------------------------------------------------------------------
(* The rules.  Each returns the instructions to fuse, root first, and the     *)
(* emitter, or NoMatch.  The matchers of a rule's parts return the            *)
(* instructions matched, in the order the code collects them, or <<>>.        *)

Match(instructions, emitter) == [fuse |-> instructions, emitter |-> emitter]
NoMatch == Match(<<>>, NoEmitter)

Operand(c, i, k) == c[i].operands[k]
Opcode(c, i, op) == c[i].opcode = op
IsAll(c, i, v) == Opcode(c, i, "constant") /\ c[i].literal = v

\* function(x, y) = op(x, y).
ComputationIsTrivialBinop(function, op) ==
    function.trivial /\ function.root = op

Identity == [add |-> 0, multiply |-> 1, maximum |-> MinValue]

FuseReduce(c, i) ==
    LET ins == c[i]
        init_value == Operand(c, i, 2)
    IN  IF /\ Opcode(c, i, "reduce")
           /\ \E op \in DOMAIN Identity :
                 /\ ComputationIsTrivialBinop(ins.apply, op)
                 /\ IsAll(c, init_value, Identity[op])
          THEN Match(<<i, init_value>>,
                     [NoEmitter EXCEPT !.kind = "reduction",
                                       !.opcode = ins.apply.root,
                                       !.dimensions = ins.dimensions])
          ELSE NoMatch

\* The data format in which the batch and channel dimensions are trivial.
DataFormat(dimensions, Trivial(_)) ==
    CASE Len(dimensions) < 3 \/ ~Trivial(dimensions[1]) -> "none"
      [] OTHER -> IF Trivial(dimensions[Len(dimensions)]) THEN "NHWC"
                  ELSE IF Trivial(dimensions[2]) THEN "NCHW" ELSE "none"

ReconstructDataFormatFromPoolingWindow(window) ==
    DataFormat(window, LAMBDA w : w = Unit)

ReconstructDataFormatFromAvgPoolBackpropPadding(padding) ==
    DataFormat(padding,
               LAMBDA p : p = [low |-> 0, high |-> 0, interior |-> 0])

PoolEmitter(kind, window, format) ==
    [NoEmitter EXCEPT !.kind = kind, !.window = window,
                      !.nchw = (format = "NCHW")]

FuseMaxPoolFprop(c, i) ==
    LET ins == c[i]
        init_value == Operand(c, i, 2)
        format == ReconstructDataFormatFromPoolingWindow(ins.window)
    IN  IF /\ Opcode(c, i, "reduce-window")
           /\ ComputationIsTrivialBinop(ins.apply, "maximum")
           /\ IsAll(c, init_value, MinValue)
           /\ format # "none"
          THEN Match(<<i, init_value>>,
                     PoolEmitter("max-pool", ins.window, format))
          ELSE NoMatch

FuseMaxPoolBprop(c, i) ==
    LET ins == c[i]
        init_value == Operand(c, i, 3)
        format == ReconstructDataFormatFromPoolingWindow(ins.window)
    IN  IF /\ Opcode(c, i, "select-and-scatter")
           /\ IsAll(c, init_value, 0)
           /\ ComputationIsTrivialBinop(ins.apply, "ge")
           /\ ComputationIsTrivialBinop(ins.scatter, "add")
           /\ format # "none"
          THEN Match(<<i, init_value>>,
                     PoolEmitter("max-pool-backprop", ins.window, format))
          ELSE NoMatch

-----------------------------------------------------------------------------
(* Average pooling *)

\* Mutant: the instructions of the first part are collected last.
BothReversed(matched, also) ==
    IF matched = <<>> \/ also = <<>> THEN <<>> ELSE also \o matched

\* Both matched, or nothing.
Both(matched, also) ==
    IF matched = <<>> \/ also = <<>> THEN <<>> ELSE matched \o also

\* i, or a broadcast i of an instruction, that is a constant satisfying P.
Broadcasted(c, i, P(_)) ==
    LET path == IF Opcode(c, i, "broadcast") THEN <<i, Operand(c, i, 1)>>
                                             ELSE <<i>>
        constant == path[Len(path)]
    IN  IF Opcode(c, constant, "constant") /\ P(constant) THEN path ELSE <<>>

MatchBroadcastedConstant(c, i) == Broadcasted(c, i, LAMBDA k : TRUE)
MatchAvgPoolDivideByCountRHSOnes(c, i) ==
    Broadcasted(c, i, LAMBDA k : IsAll(c, k, 1))

\* A sum over windows: of the image (LHS), or of the gradient.
MatchAvgPoolFpropLHS(c, i) ==
    LET init_value == Operand(c, i, 2)
    IN  IF /\ Opcode(c, i, "reduce-window")
           /\ ComputationIsTrivialBinop(c[i].apply, "add")
           /\ IsAll(c, init_value, 0)
          THEN <<i, init_value>>
          ELSE <<>>

\* A sum over windows of ones.
MatchAvgPoolDivideByCountRHSPostBroadcast(c, i) ==
    IF MatchAvgPoolFpropLHS(c, i) = <<>>
      THEN <<>>
      ELSE Both(MatchAvgPoolFpropLHS(c, i),
                MatchAvgPoolDivideByCountRHSOnes(c, Operand(c, i, 1)))

\* The divisor: a constant, if padding is VALID, or the sizes of the windows.
IsValidPadding(c, i) == MatchBroadcastedConstant(c, i) # <<>>
MatchAvgPoolDivideByCountRHS(c, i) ==
    IF IsValidPadding(c, i)
      THEN MatchBroadcastedConstant(c, i)
      ELSE IF Opcode(c, i, "broadcast")
             THEN Both(<<i>>, MatchAvgPoolDivideByCountRHSPostBroadcast(
                                  c, Operand(c, i, 1)))
             ELSE MatchAvgPoolDivideByCountRHSPostBroadcast(c, i)

FuseAvgPoolFprop(c, i) ==
    LET lhs == Operand(c, i, 1)
        matched == Both(MatchAvgPoolFpropLHS(c, lhs),
                        MatchAvgPoolDivideByCountRHS(c, Operand(c, i, 2)))
        format == ReconstructDataFormatFromPoolingWindow(c[lhs].window)
    IN  IF Opcode(c, i, "divide") /\ matched # <<>> /\ format # "none"
          THEN Match(<<i>> \o matched,
                     PoolEmitter("avg-pool", c[lhs].window, format))
          ELSE NoMatch

\* The padded gradient: <<>> unless pad(divide(deltas, counts), 0).
MatchAvgPoolBpropReduceWindowOperand(c, i) ==
    LET divide == Operand(c, i, 1)
        pad_value == Operand(c, i, 2)
    IN  IF /\ Opcode(c, i, "pad")
           /\ Opcode(c, divide, "divide")
           /\ IsAll(c, pad_value, 0)
          THEN Both(<<i, divide, pad_value>>,
                    MatchAvgPoolDivideByCountRHS(c, Operand(c, divide, 2)))
          ELSE <<>>

MatchAvgPoolBprop(c, i) ==
    IF MatchAvgPoolFpropLHS(c, i) = <<>>
      THEN <<>>
      ELSE Both(MatchAvgPoolFpropLHS(c, i),
                MatchAvgPoolBpropReduceWindowOperand(c, Operand(c, i, 1)))

\* The forward window of an average pool, from the window and the padding of its
\* gradient.  SAME padding is taken to be the window's size less one.
ForwardPoolWindow(window, padding, format, is_valid_padding) ==
    LET first == FirstSpatial(format = "NCHW")
    IN  [d \in DOMAIN window |->
            LET size == window[d].size
                padding_needed == IF is_valid_padding THEN 0 ELSE size - 1
            IN  IF d \in first .. first + Len(window) - 3
                  THEN [Unit EXCEPT
                          !.size = size,
                          !.stride = padding[d].interior + 1,
                          !.low = padding_needed \div 2,
                          !.high = padding_needed - padding_needed \div 2]
                  ELSE Unit]

FuseAvgPoolBprop(c, i) ==
    LET matched == MatchAvgPoolBprop(c, i)
        pad == Operand(c, i, 1)
        padding == c[pad].padding
        format == ReconstructDataFormatFromAvgPoolBackpropPadding(padding)
        counts == Operand(c, Operand(c, pad, 1), 2)
    IN  IF matched # <<>> /\ format # "none"
          THEN Match(matched,
                 [PoolEmitter("avg-pool-backprop",
                              ForwardPoolWindow(c[i].window, padding, format,
                                                IsValidPadding(c, counts)),
                              format)
                    EXCEPT !.shape = c[i].shape])
          ELSE NoMatch

-----------------------------------------------------------------------------
(* The gradients of a convolution.  All shapes, strides and dimensions below  *)
(* are those of the forward convolution.                                      *)

\* Mutant: the ratio is rounded down.
FloorOfRatio(n, m) == n \div m

CeilOfRatio(n, m) == -((-n) \div m)

ReconstructConvolutionPaddingType(format, strides, input, output, filter) ==
    LET n == Len(input) - 2
        channel == IF format = "NCHW" THEN 2 ELSE n + 2
        first == FirstSpatial(format = "NCHW")
        Expected(Size(_, _, _)) ==
            [d \in 1 .. n + 2 |->
                CASE d = 1 -> input[1]
                  [] d = channel -> filter[n + 2]
                  [] OTHER -> Size(input[d], filter[d - first + 1],
                                   strides[d - first + 1])]
    IN  CASE \/ Len(input) < 3
             \/ {Len(output), Len(filter), Len(strides) + 2} # {Len(input)}
             \/ format = "none"
                -> "none"
          [] OTHER ->
               IF input[channel] # filter[n + 1] THEN "none"
               ELSE IF output = Expected(LAMBDA i, f, s : CeilOfRatio(i, s))
                 THEN "SAME"
               ELSE IF output = Expected(LAMBDA i, f, s :
                                             CeilOfRatio(i - f + 1, s))
                 THEN "VALID"
               ELSE "none"

PaddingNeeded(image_size, filter_size, stride) ==
    LET last == IF image_size % stride = 0 THEN stride ELSE image_size % stride
    IN  Max({0, filter_size - last})

ForwardWindow(format, type, strides, input, filter) ==
    LET first == FirstSpatial(format = "NCHW")
    IN  [d \in DOMAIN strides |->
            LET needed == IF type = "VALID" THEN 0
                          ELSE PaddingNeeded(input[first + d - 1], filter[d],
                                             strides[d])
            IN  [Unit EXCEPT !.size = filter[d], !.stride = strides[d],
                             !.low = needed \div 2,
                             !.high = needed - needed \div 2]]

\* shape: of the operation's output, the forward input or the filters.
ConvEmitter(kind, shape, format, type, strides, input, filter) ==
    [NoEmitter EXCEPT
        !.kind = kind, !.shape = shape, !.nchw = (format = "NCHW"),
        !.window = ForwardWindow(format, type, strides, input, filter)]

ReconstructConvolutionDataFormatForBpropData(dn) ==
    CASE dn.input_batch = 1 /\ dn.input_feature = 2 -> "NCHW"
      [] /\ dn.input_batch = 1
         /\ dn.input_feature = Len(dn.input_spatial) + 2 -> "NHWC"
      [] OTHER -> "none"

\* As above, with the batch and the channel dimension exchanged.
ReconstructConvolutionDataFormatForBpropFilters(dn) ==
    CASE dn.input_feature = 1 /\ dn.input_batch = 2 -> "NCHW"
      [] /\ dn.input_feature = 1
         /\ dn.input_batch = Len(dn.input_spatial) + 2 -> "NHWC"
      [] OTHER -> "none"

CheckOutputDimensionsForBpropFilters(dn) ==
    LET n == Len(dn.output_spatial)
    IN  dn.output_batch = n + 1 /\ dn.output_feature = n + 2

\* All and only the spatial dimensions of an HWio filter, each once.
RevAppliesToFilterSpatialDims(c, i) ==
    LET n == Len(c[i].shape) - 2
    IN  /\ Opcode(c, i, "reverse")
        /\ Len(c[i].dimensions) = n
        /\ Range(c[i].dimensions) = 1 .. n

AllOnes(s) == \A k \in DOMAIN s : s[k] = 1

FuseConvolutionBpropData(c, i) ==
    LET ins == c[i]
        rhs == Operand(c, i, 2)
        n == Len(ins.dn.input_spatial)
        strides == [d \in DOMAIN ins.window |-> ins.window[d].base]
        format == ReconstructConvolutionDataFormatForBpropData(ins.dn)
        type == ReconstructConvolutionPaddingType(
                    format, strides, ins.shape, c[Operand(c, i, 1)].shape,
                    c[rhs].shape)
    IN  IF /\ Opcode(c, i, "convolution")
           /\ RevAppliesToFilterSpatialDims(c, rhs)
           /\ ins.dn.kernel_output_feature = n + 1
           /\ ins.dn.kernel_input_feature = n + 2
           /\ AllOnes([d \in DOMAIN ins.window |-> ins.window[d].dilation])
           /\ AllOnes([d \in DOMAIN ins.window |-> ins.window[d].stride])
           /\ type # "none"
          THEN Match(<<i, rhs>>,
                     ConvEmitter("conv-backprop-input", ins.shape, format, type,
                                 strides, ins.shape, c[rhs].shape))
          ELSE NoMatch

FuseConvolutionBpropFilters(c, i) ==
    LET ins == c[i]
        input == c[Operand(c, i, 1)].shape
        strides == [d \in DOMAIN ins.window |-> ins.window[d].dilation]
        format == ReconstructConvolutionDataFormatForBpropFilters(ins.dn)
        type == ReconstructConvolutionPaddingType(
                    format, strides, input, c[Operand(c, i, 2)].shape,
                    ins.shape)
    IN  IF /\ Opcode(c, i, "convolution")
           /\ CheckOutputDimensionsForBpropFilters(ins.dn)
           /\ AllOnes([d \in DOMAIN ins.window |-> ins.window[d].stride])
           /\ AllOnes([d \in DOMAIN ins.window |-> ins.window[d].base])
           /\ type # "none"
          THEN Match(<<i>>,
                     ConvEmitter("conv-backprop-filters", ins.shape, format,
                                 type, strides, input, ins.shape))
          ELSE NoMatch

-----------------------------------------------------------------------------
(* Rectifiers *)

\* Mutant: the constant under a broadcast is not collected.
MatchBroadcastedZeroTop(c, i) ==
    LET path == Broadcasted(c, i, LAMBDA k : IsAll(c, k, 0))
    IN  SubSeq(path, 1, Len(path) \div Max({1, Len(path)}))

MatchBroadcastedZero(c, i) == Broadcasted(c, i, LAMBDA k : IsAll(c, k, 0))

FuseRelu(c, i) ==
    LET matched == MatchBroadcastedZero(c, Operand(c, i, 1))
    IN  IF Opcode(c, i, "maximum") /\ matched # <<>>
          THEN Match(<<i>> \o matched, [NoEmitter EXCEPT !.kind = "relu"])
          ELSE NoMatch

FuseReluBprop(c, i) ==
    LET pred == Operand(c, i, 1)
        broadcasted_zeros == Operand(c, pred, 2)
        zero == Operand(c, broadcasted_zeros, 1)
    IN  IF /\ Opcode(c, i, "select")
           /\ Opcode(c, pred, "gt")
           /\ Opcode(c, broadcasted_zeros, "broadcast")
           /\ IsAll(c, zero, 0)
           /\ Operand(c, i, 3) = broadcasted_zeros
          THEN Match(<<i, pred, broadcasted_zeros, zero>>,
                     [NoEmitter EXCEPT !.kind = "relu-backprop"])
          ELSE NoMatch

-----------------------------------------------------------------------------
(* The visitor *)

VARIABLES
    given,       \* the computation the pass was given
    computation, \* m_computation, as the rules have changed it
    pending,     \* the instructions the visitor has still to visit
    fusion_map,  \* m_fusion_map: the emitters, by fusion
    m_changed,   \* whether a rule has fused anything
    aborted      \* a CHECK has failed

vars == <<given, computation, pending, fusion_map, m_changed, aborted>>

Root == Len(given.instructions)

TypeOK ==
    /\ given \in Computations
    /\ DOMAIN computation \subseteq DOMAIN given.instructions
    /\ Root \in DOMAIN computation
    /\ pending \subseteq DOMAIN given.instructions
    /\ DOMAIN fusion_map =
          {i \in DOMAIN computation : Opcode(computation, i, "fusion")}
    /\ \A i \in DOMAIN fusion_map : fusion_map[i].kind \in Emitters
    /\ m_changed \in BOOLEAN
    /\ aborted \in BOOLEAN

Init ==
    /\ given \in Computations
    /\ computation = given.instructions
    /\ pending = DOMAIN given.instructions
    /\ fusion_map = <<>>
    /\ m_changed = FALSE
    /\ aborted = FALSE

Added(operands, more) ==
    FoldLeft(LAMBDA s, o : IF Contains(s, o) THEN s ELSE Append(s, o),
             operands, more)

\* The fusion takes its root's place, and gets its operands, each once.
CreateFusion(c, root) ==
    [c EXCEPT ![root].opcode = "fusion",
              ![root].operands = Added(<<>>, @)]

\* Mutant: the original goes even if something else uses it.
FuseInstructionRemoves(c, root, i) ==
    Restrict([c EXCEPT ![root].operands =
                  Added(RemoveFirst(@, i), c[i].operands)], DOMAIN c \ {i})

\* Instruction i, an operand of the fusion, is copied into it: its operands follow
\* the other operands of the fusion.  The original goes if nothing uses it.
FuseInstruction(c, root, i) ==
    LET fused == [c EXCEPT ![root].operands =
                      Added(RemoveFirst(@, i), c[i].operands)]
        used == \E u \in DOMAIN fused : i \in Range(fused[u].operands)
    IN  IF used THEN fused ELSE Restrict(fused, DOMAIN fused \ {i})

\* CreateFusionInstruction: the root, then the others in the order given, each of
\* which must be an operand of the fusion when its turn comes (a CHECK).
FusedComputation(c, instructions) ==
    LET root == instructions[1]
        step(r, i) ==
            IF r.aborted \/ i \notin Range(r.computation[root].operands)
              THEN [r EXCEPT !.aborted = TRUE]
              ELSE [r EXCEPT !.computation =
                       FuseInstruction(r.computation, root, i)]
    IN  FoldLeft(step, [computation |-> CreateFusion(c, root),
                        aborted |-> FALSE], Tail(instructions))

\* Mutant: the map keeps only one entry.
FuseInstructionsForgets(emitter, instructions) ==
    LET root == instructions[1]
        result == FusedComputation(computation, instructions)
    IN  /\ computation' = result.computation
        /\ aborted' = result.aborted
        /\ fusion_map' = [i \in {root} |-> emitter]

FuseInstructions(emitter, instructions) ==
    LET root == instructions[1]
        result == FusedComputation(computation, instructions)
    IN  /\ computation' = result.computation
        /\ aborted' = result.aborted
        /\ fusion_map' = [i \in DOMAIN fusion_map \cup {root} |->
                             IF i = root THEN emitter ELSE fusion_map[i]]

\* The rules, in the order in which they are tried.
Rules(c, i) ==
    <<FuseReduce(c, i), FuseMaxPoolFprop(c, i), FuseAvgPoolFprop(c, i),
      FuseMaxPoolBprop(c, i), FuseAvgPoolBprop(c, i),
      FuseConvolutionBpropData(c, i), FuseConvolutionBpropFilters(c, i),
      FuseRelu(c, i), FuseReluBprop(c, i)>>

\* Mutant: an instruction may be visited before its operands.
VisitedInAnyOrder(i) ==
    /\ ~aborted
    /\ i \in pending \cap DOMAIN computation
    /\ pending' = pending \ {i}
    /\ UNCHANGED given

Visited(i) ==
    /\ ~aborted
    /\ i \in pending
    /\ Range(given.instructions[i].operands) \cap pending = {}
    /\ pending' = pending \ {i}
    /\ UNCHANGED given

\* DefaultAction on instruction i: the first rule that matches fuses it.
Fuse(i) ==
    LET rules == Rules(computation, i)
        r == SelectInSeq(rules, LAMBDA m : m # NoMatch)
    IN  /\ Visited(i)
        /\ r # 0
        /\ FuseInstructions(rules[r].emitter, rules[r].fuse)
        /\ m_changed' = TRUE

\* No rule matches.
Leave(i) ==
    /\ Visited(i)
    /\ \A r \in 1 .. 9 : Rules(computation, i)[r] = NoMatch
    /\ UNCHANGED <<computation, fusion_map, m_changed, aborted>>

Next == \E i \in DOMAIN given.instructions : Fuse(i) \/ Leave(i)

Spec == Init /\ [][Next]_vars

-----------------------------------------------------------------------------
(* Properties *)

\* The rewriting leaves nothing dangling: what the visitor has still to visit is
\* still there, and so are the operands of every instruction, however many users
\* an instruction had when a rule fused it (ngraph_fusion.cc:136-143).
NothingDangles ==
    /\ pending \subseteq DOMAIN computation
    /\ \A i \in DOMAIN computation :
          Range(computation[i].operands) \subseteq DOMAIN computation

\* "The instructions must be in reverse topological order, starting at the root
\* of the subgraph to be fused" (ngraph_fusion.cc:83-84): every one of them is an
\* operand of the fusion when its turn comes, also when the parts of a pattern
\* share an instruction.
NoCheckFails == ~aborted

\* The arguments of the kernel whose graph is rooted at i, in the order in which
\* the emitter of that kind reads them.
Arguments(c, i, kind) ==
    LET first == Operand(c, i, 1)
    IN  CASE kind \in {"reduction", "max-pool"} -> <<first>>
          [] kind \in {"max-pool-backprop", "conv-backprop-filters"} ->
                <<first, Operand(c, i, 2)>>
          [] kind = "conv-backprop-input" ->
                <<first, Operand(c, Operand(c, i, 2), 1)>>
          [] kind = "avg-pool" -> <<Operand(c, first, 1)>>
          [] kind = "avg-pool-backprop" ->
                <<Operand(c, Operand(c, first, 1), 1)>>
          [] kind = "relu" -> <<Operand(c, i, 2)>>
          [] kind = "relu-backprop" -> <<Operand(c, i, 2), Operand(c, first, 1)>>

\* "The order of arguments comes out reversed here, due to the way XLA fusion
\* works" (ngraph_emitter.cc:2199-2200): once a rule has fused a graph, the
\* fusion's operands are the kernel's arguments in the order Emit reads them; only
\* a kernel that is given one argument twice has a fusion with one operand.
OperandsAsEmitReads ==
    \A f \in DOMAIN fusion_map :
        LET arguments == Arguments(given.instructions, f, fusion_map[f].kind)
        IN  ~aborted => computation[f].operands = Added(<<>>, arguments)

\* What the fusions are for: whatever has been fused so far, the computation with
\* each fusion done by its emitter computes what it was given to compute, unless
\* a fusion lacks an operand (ngraph_fusion.cc:50-55, ngraph_emitter.cc:1594-2205).
LacksOperand(f) ==
    Len(computation[f].operands) < Reads(fusion_map[f].kind)
FusionPreservesValue ==
    \/ aborted \/ fusion_map = <<>>
    \/ \E f \in DOMAIN fusion_map : LacksOperand(f)
    \/ Value(computation, fusion_map)[Root]
         = Value(given.instructions, <<>>)[Root]

\* After the pass, the function that the handlers and the emitters of fusions make
\* together computes the root of the computation that was compiled, unless one of
\* them returns an error; and they do just for what they say is not supported
\* (ngraph_emitter.cc:144-632, 857-1591, 1594-2205).
EmittedFunctionComputesRoot ==
    pending = {} /\ ~aborted =>
        FunctionOf(computation, fusion_map)[Root] =
            IF given.refused THEN Missing
                             ELSE Value(given.instructions, <<>>)[Root]

\* The graphs in a computation that are the kernels': by the rules, and of which no
\* part but the root is the root of another.  (A sum over windows that is all of the
\* gradient of one average pool is not the first half of the next.)
Matches(c, i) == {m \in Range(Rules(c, i)) : m # NoMatch}
Kernels(c) ==
    LET kernels[i \in DOMAIN c] ==
            {m \in Matches(c, i) :
                \A j \in Range(Tail(m.fuse)) : kernels[j] = {}}
    IN  kernels

\* The pass finds these graphs and no others, in whatever order the visitor takes
\* instructions that do not depend on each other, and whatever it has rewritten
\* before it comes to one (ngraph_fusion.cc:62-76).
PassFindsKernels ==
    LET kernels == Kernels(given.instructions)
    IN  DOMAIN fusion_map =
            {i \in DOMAIN given.instructions \ pending : kernels[i] # {}}

\* "Tailored to recognize exactly the graphs produced by the tf2xla kernels"
\* (ngraph_fusion.cc:57-60): when the visitor is through, the fusions are those of
\* the kernels in the computation, wherever they stand in it.
KernelsRecognised ==
    pending = {} =>
        {<<f, fusion_map[f].kind>> : f \in DOMAIN fusion_map} = given.fused

\* "We know that there is a `pad' op coming into the ReduceWindow, and this holds
\* the info we need, along with is_valid_padding, to reconstruct the forward
\* window parameters" (ngraph_fusion.cc:620-622): the gradient of an average pool
\* is fused to one of the same window.
AvgPoolWindowReconstructed ==
    (\E f \in DOMAIN fusion_map : fusion_map[f].kind = "avg-pool-backprop")
        => FusionPreservesValue

-----------------------------------------------------------------------------
(* What theorems ask of a computation. *)

\* No value is divided by itself.
NoSelfDivision(c) ==
    \A i \in DOMAIN c :
        Opcode(c, i, "divide") => Operand(c, i, 1) # Operand(c, i, 2)

\* What a kernel is given is not part of the graph that the kernel makes of it: no
\* constant, say, that the kernel uses as well.
ArgumentsApart(c) ==
    \A i \in DOMAIN c : \A m \in Kernels(c)[i] :
        Range(Arguments(c, i, m.emitter.kind)) \cap Range(m.fuse) = {}

\* One kernel alone, as far as its emitter can read its arguments: the emitter
\* computes what the graph does.
Inputs(c, i, m) == Added(<<>>, Arguments(c, i, m.emitter.kind))
ValuesOf(value, operands) == [k \in DOMAIN operands |-> value[operands[k]]]
KernelRight(c, i, m) ==
    LET value == Value(c, <<>>)
        inputs == Inputs(c, i, m)
    IN  \/ Len(inputs) < Reads(m.emitter.kind)
        \/ Emit(m.emitter, ValuesOf(value, inputs)) = value[i]
KernelsRight(c) == \A i \in DOMAIN c : \A m \in Kernels(c)[i] : KernelRight(c, i, m)

\* What shape inference says of an instruction and of its value, as far as the emitters
\* and the handlers that need no more have use for it.
WindowedSize(n, w) ==
    ((n - 1) * w.base + 1 + w.low + w.high - ((w.size - 1) * w.dilation + 1))
        \div w.stride + 1
Undilated(window) ==
    \A d \in DOMAIN window : window[d].dilation = 1 /\ window[d].base = 1
WindowDimensions == [size : Nat, stride : Nat \ {0}, low : Int, high : Int,
                     dilation : Nat \ {0}, base : Nat \ {0}]
\* A role for each dimension of a rank.
Roles(first, second, spatial, rank) ==
    /\ spatial \in [1 .. rank - 2 -> 1 .. rank]
    /\ <<first, second>> \o spatial \in Bijection(1 .. rank, 1 .. rank)
Inferred(c, i) ==
    LET ins == c[i]
        Of(k) == c[Operand(c, i, k)].shape
    IN  /\ Opcode(c, i, "broadcast") =>
              /\ ins.dimensions \in [DOMAIN Of(1) -> DOMAIN ins.shape]
              /\ \A d \in DOMAIN Of(1) : Of(1)[d] = ins.shape[ins.dimensions[d]]
        /\ Opcode(c, i, "maximum") =>
              \A k \in 1 .. 2 :
                  /\ Len(Of(k)) <= Rank(c, i)
                  /\ \A d \in DOMAIN Of(k) :
                        Of(k)[d] \in {1, ins.shape[Rank(c, i) - Len(Of(k)) + d]}
        /\ Opcode(c, i, "reverse") => ins.shape = Of(1)
        /\ Opcode(c, i, "transpose") =>
              /\ ins.dimensions \in Bijection(DOMAIN Of(1), DOMAIN Of(1))
              /\ ins.shape = [d \in DOMAIN Of(1) |-> Of(1)[ins.dimensions[d]]]
        /\ Opcode(c, i, "pad") =>
              ins.shape = [d \in DOMAIN ins.padding |->
                             ins.padding[d].low + ins.padding[d].high + Of(1)[d]
                               + (Of(1)[d] - 1) * ins.padding[d].interior]
        /\ Opcode(c, i, "convolution") =>
              LET dn == ins.dn  rank == Len(Of(1))
              IN  /\ Len(Of(2)) = rank /\ Rank(c, i) = rank
                  /\ ins.window \in Seq(WindowDimensions) /\ Len(ins.window) = rank - 2
                  /\ Roles(dn.input_batch, dn.input_feature, dn.input_spatial, rank)
                  /\ Roles(dn.kernel_output_feature, dn.kernel_input_feature,
                           dn.kernel_spatial, rank)
                  /\ ins.shape[dn.output_batch] = Of(1)[dn.input_batch]
                  /\ ins.shape[dn.output_feature] = Of(2)[dn.kernel_output_feature]
                  /\ \A d \in DOMAIN ins.window :
                        /\ ins.window[d].size = Of(2)[dn.kernel_spatial[d]]
                        /\ ins.shape[dn.output_spatial[d]] =
                              WindowedSize(Of(1)[dn.input_spatial[d]], ins.window[d])
        /\ Opcode(c, i, "dot") =>
              ins.shape = RemoveAt(Of(1), ins.dimensions[1])
                            \o RemoveAt(Of(2), ins.dimensions[2])
        /\ Opcode(c, i, "select") => Of(2) = ins.shape /\ Of(3) = ins.shape
        /\ Opcode(c, i, "reduce") =>
              Of(2) = <<>> /\ ins.shape = Without(Of(1), Range(ins.dimensions))
        /\ Opcode(c, i, "reduce-window") =>
              /\ ins.window \in Seq(WindowDimensions)
              /\ Len(ins.window) = Len(Of(1))
              /\ ins.shape = [d \in DOMAIN Of(1) |->
                                 WindowedSize(Of(1)[d], ins.window[d])]
        /\ Opcode(c, i, "select-and-scatter") =>
              /\ Of(3) = <<>>
              /\ ins.window \in Seq(WindowDimensions)
              /\ Undilated(ins.window)
ShapesInferred(c) ==
    LET value == Value(c, <<>>)
    IN  \A i \in DOMAIN c : /\ c[i].shape \in Seq(Nat \ {0})
                            /\ value[i] \in [Index(c[i].shape) -> Int]
                            /\ Inferred(c, i)

\* The rules do not look whether a rectifier is given a tensor of its result's shape, or
\* a pool's window is dilated; the kernels see to both.
ArgumentsOfShape(c, i, m) ==
    \A a \in Range(Arguments(c, i, m.emitter.kind)) : c[a].shape = c[i].shape
Rectifiers == {"relu", "relu-backprop"}
MaxPools == {"max-pool", "max-pool-backprop"}
AsKernelsMake(c) ==
    \A i \in DOMAIN c : \A m \in Kernels(c)[i] :
        /\ m.emitter.kind \in Rectifiers => ArgumentsOfShape(c, i, m)
        /\ m.emitter.kind \in MaxPools => Undilated(c[i].window)

\* The kernels that are right by the shapes alone.  Which of a window's largest elements
\* gets a gradient is not comparable between two layouts.
KernelByShape(m) ==
    \/ m.emitter.kind \in Rectifiers \cup {"reduction", "max-pool"}
    \/ m.emitter.kind = "max-pool-backprop" /\ m.emitter.nchw

\* The handler of an instruction makes what the instruction means, or nothing.
Sources == {"parameter", "constant"}
HandlerRight(c, i) ==
    LET args == ValuesOf(Value(c, <<>>), c[i].operands)
    IN  Handled(c[i], args) \in {Meaning(c[i], args), Missing}
HandlersRight(c) ==
    \A i \in DOMAIN c :
        Kernels(c)[i] = {} /\ c[i].opcode \notin Sources => HandlerRight(c, i)

\* A convolution whose result has the layout of its input.
OutputAsInput(dn) ==
    /\ dn.output_batch = dn.input_batch
    /\ dn.output_feature = dn.input_feature
    /\ dn.output_spatial = dn.input_spatial

\* The handlers that are right by the shapes of the operands and of the result.
Arithmetic == {"add", "multiply", "divide", "maximum", "minimum"}
BatchNormalizations ==
    {"batch-norm-training", "batch-norm-inference", "batch-norm-grad"}
RightByShape(c, i) ==
    \/ c[i].opcode \in Compares \cup
          {"broadcast", "select", "negate", "reshape", "concatenate", "clamp",
           "reverse", "transpose", "reduce", "pad", "reduce-window",
           "select-and-scatter"}
    \/ /\ c[i].opcode \in Arithmetic
       /\ c[Operand(c, i, 1)].shape = c[Operand(c, i, 2)].shape
    \/ /\ Opcode(c, i, "dot")
       /\ c[i].dimensions[1] = Rank(c, Operand(c, i, 1)) /\ c[i].dimensions[2] = 1
    \/ Opcode(c, i, "convolution") /\ OutputAsInput(c[i].dn)
    \/ c[i].opcode \in BatchNormalizations /\ c[i].dimensions[1] = 2

\* The kernels and the handlers whose rightness does not follow from the shapes.
OtherKernelsRight(c) ==
    \A i \in DOMAIN c : \A m \in Kernels(c)[i] : KernelByShape(m) \/ KernelRight(c, i, m)
OtherHandlersRight(c) ==
    \A i \in DOMAIN c :
        Kernels(c)[i] = {} /\ c[i].opcode \notin Sources =>
            RightByShape(c, i) \/ HandlerRight(c, i)

\* Whether the emitter of the kernel at i, or the handler of i, makes nothing of
\* the right values of its operands.
Refuses(c, i) ==
    LET value == Value(c, <<>>)
    IN  IF Kernels(c)[i] # {}
          THEN \E m \in Kernels(c)[i] :
                  Emit(m.emitter, ValuesOf(value, Inputs(c, i, m))) = Missing
          ELSE /\ c[i].opcode \notin Sources
               /\ Handled(c[i], ValuesOf(value, c[i].operands)) = Missing

\* What i is made of once the kernels are fused.
Needs(c, i) ==
    IF Kernels(c)[i] = {} THEN Range(c[i].operands)
    ELSE UNION {Range(Inputs(c, i, m)) : m \in Kernels(c)[i]}

\* The instructions that refuse, of i and of all that it needs.
Refusals(c) ==
    LET refusals[i \in DOMAIN c] ==
            (IF Refuses(c, i) THEN {i} ELSE {})
              \cup UNION {refusals[x] : x \in Needs(c, i)}
    IN  refusals

\* What is listed of a computation is its kernels, and whether something refuses that
\* its root needs.
Listed(g) ==
    LET c == g.instructions
        kernels == Kernels(c)
    IN  /\ g.fused = UNION {{<<i, m.emitter.kind>> : m \in kernels[i]} :
                               i \in DOMAIN c}
        /\ g.refused = (Refusals(c)[Len(c)] # {})

\* A fusion is generated by its emitter instead of by the handlers of its parts
\* (ngraph_fusion.cc:53-57).  That is right for each kernel of the given computation by
\* itself, before anything is fused, and so is each handler, unless it says that
\* something is not supported; nothing is divided by itself, and no kernel is given a
\* part of itself.
KernelsAlone ==
    LET g == given.instructions
    IN  pending = DOMAIN g => /\ NoSelfDivision(g)
                              /\ ArgumentsApart(g)
                              /\ KernelsRight(g)
                              /\ HandlersRight(g)
                              /\ ShapesInferred(g)
                              /\ AsKernelsMake(g)
                              /\ Listed(given)
=============================================================================
