---------------------------- MODULE MCNGraphFusion ----------------------------
(***************************************************************************)
(* NGraphFusion for TLC, on the graphs that the kernels of tf2xla make     *)
(* (external: the comments of ngraph_fusion.cc and the rules themselves    *)
(* describe them), alone, in combination, and with small deviations.       *)
(***************************************************************************)
EXTENDS NGraphFusion

\* Distinct elements of both signs, multiples of the sizes of all windows.
MCData(n, i) ==
    12 * (((FoldLeft(LAMBDA a, k : 5 * a + k, 0, i) * 29 + 11 * n) % 257) - 100)

NoDimensions == [input_batch |-> 0, input_feature |-> 0, input_spatial |-> <<>>,
                 kernel_input_feature |-> 0, kernel_output_feature |-> 0,
                 kernel_spatial |-> <<>>, output_batch |-> 0,
                 output_feature |-> 0, output_spatial |-> <<>>]
Binop(op) == [root |-> op, trivial |-> TRUE]
Instr(opcode, operands, shape) ==
    [opcode |-> opcode, operands |-> operands, shape |-> shape, literal |-> 0,
     apply |-> Binop("none"), scatter |-> Binop("none"), dimensions |-> <<>>,
     window |-> <<>>, dn |-> NoDimensions, padding |-> <<>>]
Param(n, shape) == [Instr("parameter", <<>>, shape) EXCEPT !.literal = n]
Const(v) == [Instr("constant", <<>>, <<>>) EXCEPT !.literal = v]
Bcast(o, shape, dimensions) ==
    [Instr("broadcast", <<o>>, shape) EXCEPT !.dimensions = dimensions]
Pooler(op, operands, shape, window) ==
    [Instr("reduce-window", operands, shape)
        EXCEPT !.apply = Binop(op), !.window = window]

Expect(instructions, fused) ==
    [instructions |-> instructions, fused |-> fused, refused |-> FALSE]
Refused(e) == [e EXCEPT !.refused = TRUE]
Plain(instructions) == Expect(instructions, {})
Alone(instructions, kind) == Expect(instructions, {<<Len(instructions), kind>>})

-----------------------------------------------------------------------------
(* Reductions *)

Reduce(op, trivial, init) ==
    <<Param(1, <<2, 2>>), Const(init),
      [Instr("reduce", <<1, 2>>, <<2>>)
          EXCEPT !.apply = [root |-> op, trivial |-> trivial],
                 !.dimensions = <<2>>]>>
Reductions ==
    {Alone(Reduce(op, TRUE, Identity[op]), "reduction") : op \in DOMAIN Identity}
      \cup {Expect(Reduce(op, FALSE, Identity[op]), {}) : op \in DOMAIN Identity}
      \cup {Expect(Reduce("add", TRUE, 12), {}),
            Expect(Reduce("minimum", TRUE, 0), {})}

-----------------------------------------------------------------------------
(* Pools: a spatial dimension has a size, a window size and a stride. *)

Ceil(n, m) == (n + m - 1) \div m
OutputSize(type, w) ==
    IF type = "SAME" THEN Ceil(w.image, w.stride)
                     ELSE Ceil(w.image - w.size + 1, w.stride)
PaddingTotal(type, w) ==
    IF type = "SAME"
      THEN Max({0, (OutputSize(type, w) - 1) * w.stride + w.size - w.image})
      ELSE 0
Below(type, w) == PaddingTotal(type, w) \div 2

PoolDim(type, w) ==
    [Unit EXCEPT !.size = w.size, !.stride = w.stride, !.low = Below(type, w),
                 !.high = PaddingTotal(type, w) - Below(type, w)]
\* The padding that gives the gradient its shape.
GradPad(type, w) ==
    LET low == w.size - 1 - Below(type, w)
        expanded == (OutputSize(type, w) - 1) * w.stride + 1
    IN  [low |-> low, high |-> w.image + w.size - 1 - expanded - low,
         interior |-> w.stride - 1]

\* A batch of n images with c channels: s for the spatial dimensions.
Batch(nchw, n, c, s) == IF nchw THEN <<n, c>> \o s ELSE <<n>> \o s \o <<c>>
Sizes(ws, F(_)) == [d \in DOMAIN ws |-> F(ws[d])]

Image(nchw, ws) == Batch(nchw, 1, 2, Sizes(ws, LAMBDA w : w.image))
PoolOut(nchw, type, ws) ==
    Batch(nchw, 1, 2, Sizes(ws, LAMBDA w : OutputSize(type, w)))
PoolWindow(nchw, type, ws) ==
    Batch(nchw, Unit, Unit, Sizes(ws, LAMBDA w : PoolDim(type, w)))
SpatialDims(nchw, ws) ==
    [d \in DOMAIN ws |-> d + (IF nchw THEN 2 ELSE 1)]

MaxPoolGraph(nchw, type, ws) ==
    <<Param(1, Image(nchw, ws)), Const(MinValue),
      Pooler("maximum", <<1, 2>>, PoolOut(nchw, type, ws),
             PoolWindow(nchw, type, ws))>>

MaxPoolGradGraph(nchw, type, ws) ==
    <<Param(1, Image(nchw, ws)), Param(2, PoolOut(nchw, type, ws)), Const(0),
      [Instr("select-and-scatter", <<1, 2, 3>>, Image(nchw, ws))
          EXCEPT !.apply = Binop("ge"), !.scatter = Binop("add"),
                 !.window = PoolWindow(nchw, type, ws)]>>

\* The number of elements in each window, for the outputs: a constant if padding
\* is VALID, else a sum of ones.  It follows k instructions.
Counts(nchw, type, ws, k) ==
    LET out == PoolOut(nchw, type, ws)
        size == FoldLeft(LAMBDA a, w : a * w.size, 1, ws)
        spatial == Sizes(ws, LAMBDA w : w.image)
        counts == Sizes(ws, LAMBDA w : OutputSize(type, w))
    IN  IF type = "VALID"
          THEN <<Const(size), Bcast(k + 1, out, <<>>)>>
          ELSE <<Const(1), Bcast(k + 1, spatial, <<>>), Const(0),
                 Pooler("add", <<k + 2, k + 3>>, counts,
                        Sizes(ws, LAMBDA w : PoolDim(type, w))),
                 Bcast(k + 4, out, SpatialDims(nchw, ws))>>

AvgPoolGraph(nchw, type, ws) ==
    LET out == PoolOut(nchw, type, ws)
        sum == <<Param(1, Image(nchw, ws)), Const(0),
                 Pooler("add", <<1, 2>>, out, PoolWindow(nchw, type, ws))>>
        all == sum \o Counts(nchw, type, ws, 3)
    IN  Append(all, Instr("divide", <<3, Len(all)>>, out))

AvgPoolGradGraph(nchw, type, ws) ==
    LET out == PoolOut(nchw, type, ws)
        counts == <<Param(1, out)>> \o Counts(nchw, type, ws, 1)
        padding == Batch(nchw, [low |-> 0, high |-> 0, interior |-> 0],
                         [low |-> 0, high |-> 0, interior |-> 0],
                         Sizes(ws, LAMBDA w : GradPad(type, w)))
        window == Batch(nchw, Unit, Unit,
                        Sizes(ws, LAMBDA w : [Unit EXCEPT !.size = w.size]))
        padded == [d \in DOMAIN out |->
                      out[d] + (out[d] - 1) * padding[d].interior
                        + padding[d].low + padding[d].high]
        n == Len(counts)
    IN  counts \o
        <<Instr("divide", <<1, n>>, out), Const(0),
          [Instr("pad", <<n + 1, n + 2>>, padded) EXCEPT !.padding = padding],
          Const(0),
          Pooler("add", <<n + 3, n + 4>>, Image(nchw, ws), window)>>

Dim(image, size, stride) == [image |-> image, size |-> size, stride |-> stride]
OneDim == {<<Dim(image, size, stride)>> :
              image \in {3, 4, 5}, size \in {1, 2, 3}, stride \in {1, 2}}
\* With a window that is trivial in the last dimension, or in both.
TwoDims == {<<Dim(3, 2, 1), Dim(2, 1, 1)>>, <<Dim(2, 1, 1), Dim(3, 2, 2)>>,
            <<Dim(2, 2, 1), Dim(3, 2, 1)>>, <<Dim(2, 1, 1), Dim(2, 1, 1)>>}
Types == {"SAME", "VALID"}
Windows == OneDim \cup TwoDims

Pools ==
    {Alone(MaxPoolGraph(f, t, w), "max-pool") :
        f \in BOOLEAN, t \in Types, w \in Windows}
      \cup {Alone(MaxPoolGradGraph(f, t, w), "max-pool-backprop") :
        f \in BOOLEAN, t \in Types, w \in Windows}
      \cup {Alone(AvgPoolGraph(f, t, w), "avg-pool") :
        f \in BOOLEAN, t \in Types, w \in Windows}

\* The gradients of average pools whose padding below is the one of stride 1.
PaddedAsByOne(type, ws) ==
    type = "SAME" =>
        \A d \in DOMAIN ws : Below(type, ws[d]) = (ws[d].size - 1) \div 2
AvgPoolGrads(Accepted(_, _)) ==
    {Alone(AvgPoolGradGraph(p[1], p[2], p[3]), "avg-pool-backprop") :
        p \in {q \in BOOLEAN \X Types \X Windows : Accepted(q[2], q[3])}}

-----------------------------------------------------------------------------
(* Gradients of convolutions *)

Layout(nchw, n) ==
    [batch |-> 1, feature |-> IF nchw THEN 2 ELSE n + 2,
     spatial |-> [d \in 1 .. n |-> d + (IF nchw THEN 2 ELSE 1)]]
\* 2 images of 1 channel, and filters to 2 channels.
ForwardIn(nchw, ws) == Batch(nchw, 2, 1, Sizes(ws, LAMBDA w : w.image))
ForwardOut(nchw, type, ws) ==
    Batch(nchw, 2, 2, Sizes(ws, LAMBDA w : OutputSize(type, w)))
Filters(ws) == Sizes(ws, LAMBDA w : w.size) \o <<1, 2>>

ConvInputGraph(nchw, type, ws) ==
    LET n == Len(ws)
        layout == Layout(nchw, n)
    IN  <<Param(1, ForwardOut(nchw, type, ws)), Param(2, Filters(ws)),
          [Instr("reverse", <<2>>, Filters(ws))
              EXCEPT !.dimensions = [d \in 1 .. n |-> d]],
          [Instr("convolution", <<1, 3>>, ForwardIn(nchw, ws)) EXCEPT
              !.window = Sizes(ws, LAMBDA w :
                  [Unit EXCEPT !.size = w.size, !.base = w.stride,
                               !.low = GradPad(type, w).low,
                               !.high = GradPad(type, w).high]),
              !.dn = [input_batch |-> layout.batch,
                      input_feature |-> layout.feature,
                      input_spatial |-> layout.spatial,
                      kernel_input_feature |-> n + 2,
                      kernel_output_feature |-> n + 1,
                      kernel_spatial |-> [d \in 1 .. n |-> d],
                      output_batch |-> layout.batch,
                      output_feature |-> layout.feature,
                      output_spatial |-> layout.spatial]]>>

ConvFiltersGraph(nchw, type, ws) ==
    LET n == Len(ws)
        layout == Layout(nchw, n)
        total(w) == (OutputSize(type, w) - 1) * w.stride + w.size - w.image
    IN  <<Param(1, ForwardIn(nchw, ws)), Param(2, ForwardOut(nchw, type, ws)),
          [Instr("convolution", <<1, 2>>, Filters(ws)) EXCEPT
              !.window = Sizes(ws, LAMBDA w :
                  [Unit EXCEPT !.size = OutputSize(type, w),
                               !.dilation = w.stride,
                               !.low = Below(type, w),
                               !.high = total(w) - Below(type, w)]),
              !.dn = [input_batch |-> layout.feature,
                      input_feature |-> layout.batch,
                      input_spatial |-> layout.spatial,
                      kernel_input_feature |-> layout.batch,
                      kernel_output_feature |-> layout.feature,
                      kernel_spatial |-> layout.spatial,
                      output_batch |-> n + 1,
                      output_feature |-> n + 2,
                      output_spatial |-> [d \in 1 .. n |-> d]]]>>

ConvDims == OneDim \cup {<<Dim(3, 2, 2), Dim(2, 2, 1)>>}
Convolutions ==
    {Alone(ConvInputGraph(f, t, w), "conv-backprop-input") :
        f \in BOOLEAN, t \in Types, w \in ConvDims}
      \cup {Alone(ConvFiltersGraph(f, t, w), "conv-backprop-filters") :
        f \in BOOLEAN, t \in Types, w \in ConvDims}

-----------------------------------------------------------------------------
(* Rectifiers, and combinations *)

Square == <<2, 2>>
ReluGraph == <<Const(0), Bcast(1, Square, <<>>), Param(1, Square),
               Instr("maximum", <<2, 3>>, Square)>>
ReluGradGraph == <<Param(1, Square), Const(0), Bcast(2, Square, <<>>),
                   Instr("gt", <<1, 3>>, Square), Param(2, Square),
                   Instr("select", <<4, 5, 3>>, Square)>>
\* The gradient and the features are the same instruction.
ReluGradOfItself == <<Param(1, Square), Const(0), Bcast(2, Square, <<>>),
                      Instr("gt", <<1, 3>>, Square),
                      Instr("select", <<4, 1, 3>>, Square)>>
\* The zero on the other side: no rectifier.
ReluSwapped == <<Const(0), Bcast(1, Square, <<>>), Param(1, Square),
                 Instr("maximum", <<3, 2>>, Square)>>
\* A rectifier, its gradient for a sum of the two parts, and one zero for both;
\* the comparison has another user.
ReluAndGrad == <<Param(1, Square), Const(0), Bcast(2, Square, <<>>),
                 Instr("maximum", <<3, 1>>, Square),
                 Instr("gt", <<4, 3>>, Square), Param(2, Square),
                 Instr("select", <<5, 6, 3>>, Square),
                 Instr("add", <<7, 5>>, Square),
                 [Instr("reduce", <<8, 2>>, <<2>>)
                     EXCEPT !.apply = Binop("add"), !.dimensions = <<1>>]>>

\* The graph g on the result of the graph f in place of parameter p of g.
Feed(f, g, p) ==
    LET at(o) == IF o = p THEN Len(f) ELSE Len(f) + o - (IF o > p THEN 1 ELSE 0)
        moved(ins) == [ins EXCEPT !.operands = [k \in DOMAIN @ |-> at(@[k])]]
        rest == [k \in DOMAIN g |-> moved(g[k])]
    IN  f \o RemoveAt(rest, p)

W3 == <<Dim(3, 2, 1)>>
W4 == <<Dim(4, 2, 2)>>
W2 == <<Dim(2, 2, 1)>>
Chain(f, fkind, g, gkind, p) ==
    LET all == Feed(f, g, p)
    IN  Expect(all, {<<Len(f), fkind>>, <<Len(all), gkind>>})
Chains ==
    {Chain(AvgPoolGraph(f, t, W3), "avg-pool", AvgPoolGradGraph(f, t, W3),
           "avg-pool-backprop", 1) : f \in BOOLEAN, t \in Types}
      \cup {Chain(AvgPoolGradGraph(f, t, W3), "avg-pool-backprop",
                  AvgPoolGradGraph(f, "SAME", <<Dim(3, 3, 1)>>),
                  "avg-pool-backprop", 1) : f \in BOOLEAN, t \in Types}
      \cup {Chain(AvgPoolGraph(f, "VALID", W4), "avg-pool",
                  MaxPoolGraph(f, t, W2), "max-pool", 1) :
              f \in BOOLEAN, t \in Types}
      \cup {Chain(ReluGraph, "relu", Reduce("maximum", TRUE, MinValue),
                  "reduction", 1),
            Chain(ReluGraph, "relu", ReluGradGraph, "relu-backprop", 1),
            Chain(ReluGradGraph, "relu-backprop", ReluGraph, "relu", 3)}

RectifierGraphs ==
    {Alone(ReluGraph, "relu"), Alone(ReluGradGraph, "relu-backprop"),
     Refused(Alone(ReluGradOfItself, "relu-backprop")), Expect(ReluSwapped, {}),
     Expect(ReluAndGrad, {<<4, "relu">>, <<7, "relu-backprop">>,
                          <<9, "reduction">>})}

\* One zero for all the parts of an average pool or its gradient.
SharedZero(g) ==
    LET zeros == {i \in DOMAIN g : IsAll(g, i, 0)}
        first == Min(zeros)
    IN  [i \in DOMAIN g |->
           [g[i] EXCEPT !.operands = [k \in DOMAIN @ |->
               IF @[k] \in zeros THEN first ELSE @[k]]]]

SharedZeros ==
    {Alone(SharedZero(AvgPoolGraph(f, "SAME", W3)), "avg-pool") : f \in BOOLEAN}
      \cup {Alone(SharedZero(AvgPoolGradGraph(f, t, W3)), "avg-pool-backprop") :
              f \in BOOLEAN, t \in Types}

-----------------------------------------------------------------------------
(* Instructions that no rule takes, for the handlers: the last one of each      *)
(* graph has the parameters of the given shapes for operands.                   *)

On1(opcode, shapes, shape) ==
    [k \in DOMAIN shapes |-> Param(k, shapes[k])]
      \o <<Instr(opcode, [k \in DOMAIN shapes |-> k], shape)>>
\* The same with dimensions.
OnDims(opcode, shapes, shape, dimensions) ==
    LET g == On1(opcode, shapes, shape)
    IN  [g EXCEPT ![Len(g)].dimensions = dimensions]

ForwardDn(nchw, oihw, n) ==
    LET layout == Layout(nchw, n)
    IN  [input_batch |-> layout.batch, input_feature |-> layout.feature,
         input_spatial |-> layout.spatial,
         kernel_output_feature |-> IF oihw THEN 1 ELSE n + 2,
         kernel_input_feature |-> IF oihw THEN 2 ELSE n + 1,
         kernel_spatial |-> [d \in 1 .. n |-> d + (IF oihw THEN 2 ELSE 0)],
         output_batch |-> layout.batch, output_feature |-> layout.feature,
         output_spatial |-> layout.spatial]
\* Images of 2 channels, filters to 3.
ForwardConvolution(nchw, oihw, type, ws) ==
    LET size == Sizes(ws, LAMBDA w : w.size)
        out == Batch(nchw, 1, 3, Sizes(ws, LAMBDA w : OutputSize(type, w)))
        g == On1("convolution",
                 <<Image(nchw, ws),
                   IF oihw THEN <<3, 2>> \o size ELSE size \o <<2, 3>>>>, out)
    IN  [g EXCEPT ![3].window = Sizes(ws, LAMBDA w : PoolDim(type, w)),
                  ![3].dn = ForwardDn(nchw, oihw, Len(ws))]
ForwardConvolutions ==
    {Plain(ForwardConvolution(p[1], p[2], p[3], p[4])) :
        p \in BOOLEAN \X BOOLEAN \X Types \X {W3, W4, <<Dim(3, 2, 2), Dim(2, 2, 1)>>}}

Broadcasts ==
    {Plain(OnDims("broadcast", <<p[1]>>, p[2], p[3])) : p \in
        {<<<<>>, <<2, 3>>, <<>>>>, <<<<2>>, <<2, 2>>, <<1>>>>,
         <<<<2>>, <<2, 2>>, <<2>>>>, <<<<2, 3>>, <<2, 2, 3>>, <<1, 3>>>>,
         <<<<2, 3>>, <<2, 3>>, <<1, 2>>>>}}
      \cup {Refused(Plain(OnDims("broadcast", <<<<2, 3>>>>, <<3, 2>>, <<2, 1>>)))}
      \cup {Plain(On1(op, p[1], p[2])) : op \in {"add", "maximum"}, p \in
              {<<<<<<>>, <<2, 3>>>>, <<2, 3>>>>, <<<<<<2, 3>>, <<>>>>, <<2, 3>>>>,
               <<<<<<2, 1>>, <<1, 3>>>>, <<2, 3>>>>,
               <<<<<<3, 1>>, <<3, 2>>>>, <<3, 2>>>>,
               <<<<<<1, 2>>, <<1, 2>>>>, <<1, 2>>>>}}

Padded(padding, shape) ==
    LET g == On1("pad", <<<<2, 3>>, <<>>>>, shape)
        pad(p) == [low |-> p[1], high |-> p[2], interior |-> p[3]]
    IN  [g EXCEPT ![3].padding = <<pad(padding[1]), pad(padding[2])>>]
Shapings ==
    {Plain(On1("reshape", <<<<2, 3>>>>, shape)) : shape \in {<<3, 2>>, <<6>>}}
      \cup {Plain(OnDims("transpose", <<<<2, 3, 1>>>>, <<3, 1, 2>>, <<2, 3, 1>>)),
            Plain(OnDims("reverse", <<<<2, 3>>>>, <<2, 3>>, <<2>>)),
            Plain(OnDims("concatenate", <<<<2, 3>>, <<2, 1>>>>, <<2, 4>>, <<2>>)),
            Plain(OnDims("dot", <<<<2, 3>>, <<3, 2>>>>, <<2, 2>>, <<2, 1>>)),
            Plain(On1("clamp", <<Square, Square, Square>>, Square)),
            Plain(On1("negate", <<Square>>, Square)),
            Plain(Padded(<<<<1, 0, 2>>, <<0, 2, 1>>>>, <<5, 7>>)),
            Refused(Plain(Padded(<<<<0, 0, 0>>, <<0, -1, 0>>>>, <<2, 2>>)))}

\* The windows of pools, for other functions and initial values.
WindowedBy(type, ws) ==
    LET least == MaxPoolGraph(TRUE, type, ws)
        scattered == MaxPoolGradGraph(FALSE, type, ws)
    IN  {Plain([least EXCEPT ![2].literal = 5, ![3].apply = Binop("minimum")]),
         Plain([scattered EXCEPT ![3].literal = 5])}
Windowed ==
    UNION {WindowedBy("VALID", ws) : ws \in {W3, W4, <<Dim(5, 2, 2)>>}}
      \cup {Refused(e) : e \in WindowedBy("SAME", W3)}

BatchNorms ==
    {Plain(OnDims(p[1], <<<<2, 3, 2>>>> \o p[2][<<<<2, 3, 2>>[f]>>], <<2, 3, 2>>, <<f>>)) :
        f \in 1 .. 3,
        p \in {<<"batch-norm-training", [v \in {<<2>>, <<3>>} |-> <<v, v>>]>>,
               <<"batch-norm-inference", [v \in {<<2>>, <<3>>} |-> <<v, v, v, v>>]>>,
               <<"batch-norm-grad",
                 [v \in {<<2>>, <<3>>} |-> <<v, v, v, <<2, 3, 2>>>>]>>}}

Handlers == ForwardConvolutions \cup Broadcasts \cup Shapings \cup Windowed
              \cup BatchNorms

MCKernels == SharedZeros \cup Reductions \cup Pools \cup AvgPoolGrads(PaddedAsByOne)
               \cup Convolutions \cup Chains \cup RectifierGraphs \cup Handlers
MCAvgPoolGrads == AvgPoolGrads(LAMBDA type, ws : TRUE)

=============================================================================
