------------------------------- MODULE Tensors -------------------------------
(***************************************************************************)
(* Tensors of integers, and what the operations of XLA and of nGraph that  *)
(* the fusion rules and the handlers of the emitter translate into each    *)
(* other compute (both are external to this repository).                   *)
(*                                                                         *)
(* A tensor is a function from indexes to elements; an index is a sequence *)
(* of numbers from 0.  A shape is the sequence of the dimensions' sizes.   *)
(* Dimensions are numbered from 1, where the code numbers them from 0.     *)
(***************************************************************************)
EXTENDS Integers, Sequences, FiniteSets, FiniteSetsExt, SequencesExt

Index(shape) ==
    LET ix[d \in 0 .. Len(shape)] ==
            IF d = 0 THEN {<<>>}
                     ELSE {Append(i, n) : i \in ix[d - 1],
                                          n \in 0 .. (shape[d] - 1)}
    IN  ix[Len(shape)]

\* The shape of a tensor that has elements.
ShapeOf(x) ==
    LET rank == Len(CHOOSE i \in DOMAIN x : TRUE)
    IN  [d \in 1 .. rank |-> Max({i[d] : i \in DOMAIN x}) + 1]

\* The dimensions that are not among the axes, in their order.
Kept(rank, axes) ==
    LET kept[d \in 0 .. rank] ==
            IF d = 0 THEN <<>>
            ELSE IF d \in axes THEN kept[d - 1] ELSE Append(kept[d - 1], d)
    IN  kept[rank]

\* A shape, or an index, without the axes.
Without(v, axes) ==
    LET kept == Kept(Len(v), axes) IN [k \in DOMAIN kept |-> v[kept[k]]]

\* No tensor: the value of an operation that cannot be made.
Missing == <<>>

MinValue == -1000000000

Combined(op, a, b) ==
    CASE op = "add" -> a + b
      [] op = "multiply" -> a * b
      [] op = "divide" -> a \div b
      [] op = "maximum" -> IF a >= b THEN a ELSE b
      [] op = "minimum" -> IF a <= b THEN a ELSE b
      [] op = "gt" -> IF a > b THEN 1 ELSE 0

\* The elements of x at S combined with op, from init.
Fold(op, init, x, S) == FoldSet(LAMBDA i, acc : Combined(op, acc, x[i]), init, S)
Total(x, S) == Fold("add", 0, x, S)

\* The sum of x[p[1]] * y[p[2]] over the pairs p of P.
Products(x, y, P) == Total([p \in P |-> x[p[1]] * y[p[2]]], P)

-----------------------------------------------------------------------------
(* Windows: a record per dimension. *)

Unit == [size |-> 1, stride |-> 1, low |-> 0, high |-> 0,
         dilation |-> 1, base |-> 1]

\* In a dimension with window w, at the window's position o: tap k is on
\* element i.
On(w, o, k, i) == i * w.base + w.low = o * w.stride + k * w.dilation

Covers(window, o, i) ==
    \A d \in DOMAIN window :
        \E k \in 0 .. window[d].size - 1 : On(window[d], o[d], k, i[d])
Covered(window, o, x) == {i \in DOMAIN x : Covers(window, o, i)}

-----------------------------------------------------------------------------
(* XLA *)

Constant(shape, literal) == [i \in Index(shape) |-> literal]

\* The element of x under index i of a shape that x is broadcast to: the last
\* dimensions correspond, and one of size 1 is used for all indexes.
Under(x, i) ==
    LET shape == ShapeOf(x)
        d0 == Len(i) - Len(shape)
    IN  x[[d \in DOMAIN shape |-> IF shape[d] = 1 THEN 0 ELSE i[d0 + d]]]

\* With implicit broadcasts.
Elementwise(op, shape, x, y) ==
    IF DOMAIN x = DOMAIN y
      THEN [i \in DOMAIN x |-> Combined(op, x[i], y[i])]
      ELSE [i \in Index(shape) |-> Combined(op, Under(x, i), Under(y, i))]

Negate(x) == [i \in DOMAIN x |-> -x[i]]
Clamp(low, x, high) ==
    [i \in DOMAIN x |-> Min({Max({x[i], low[i]}), high[i]})]

\* The elements of x in row-major order, as a tensor of another shape.
Reshaped(x, shape) ==
    LET linear(i, s) == FoldLeft(LAMBDA n, d : n * s[d] + i[d], 0,
                                 [d \in DOMAIN s |-> d])
        from == ShapeOf(x)
    IN  [j \in Index(shape) |->
            x[CHOOSE i \in DOMAIN x : linear(i, from) = linear(j, shape)]]

Transpose(shape, x, permutation) ==
    [j \in Index(shape) |->
        x[CHOOSE i \in DOMAIN x :
            \A e \in DOMAIN j : j[e] = i[permutation[e]]]]

Concatenate(x, y, dimension) ==
    LET n == ShapeOf(x)[dimension]
        moved(i) == [i EXCEPT ![dimension] = @ + n]
        there == {moved(i) : i \in DOMAIN y}
    IN  [i \in DOMAIN x \cup there |->
            IF i \in there THEN y[[i EXCEPT ![dimension] = @ - n]] ELSE x[i]]

\* The sum over one dimension of each operand.
DotGeneral(shape, x, y, dx, dy) ==
    [o \in Index(shape) |->
        Products(x, y, {p \in (DOMAIN x) \X (DOMAIN y) :
            /\ p[1][dx] = p[2][dy]
            /\ o = RemoveAt(p[1], dx) \o RemoveAt(p[2], dy)})]

\* Batch normalization stands for any function of an element of xs[1] and of the
\* other tensors in xs, of the elements of its feature, and of the feature's
\* parameters in ps.
BatchNormalized(feature, xs, ps) ==
    [i \in DOMAIN xs[1] |->
        LET c == <<i[feature]>>
        IN  Total(xs[1], {j \in DOMAIN xs[1] : j[feature] = i[feature]})
              + MapThenSumSet(LAMBDA k : (2 * k + 1) * xs[k][i], DOMAIN xs)
              + MapThenSumSet(LAMBDA k : 5 * k * ps[k][c] * (k + xs[1][i]),
                              DOMAIN ps)]

Select(pred, x, y) == [i \in DOMAIN x |-> IF pred[i] = 1 THEN x[i] ELSE y[i]]

Broadcast(shape, x, dimensions) ==
    [i \in Index(shape) |-> x[[d \in DOMAIN dimensions |-> i[dimensions[d]]]]]

Rev(shape, x, dimensions) ==
    [i \in Index(shape) |->
        x[[d \in DOMAIN shape |-> IF d \in Range(dimensions)
                                    THEN shape[d] - 1 - i[d] ELSE i[d]]]]

\* padding: a record [low, high, interior] per dimension.
PadWith(shape, x, value, padding) ==
    [o \in Index(shape) |->
        LET at == {i \in DOMAIN x : \A d \in DOMAIN padding :
                      i[d] * (padding[d].interior + 1) + padding[d].low = o[d]}
        IN  IF at = {} THEN value[<<>>] ELSE x[CHOOSE i \in at : TRUE]]

ReduceDimensions(shape, op, x, init, dimensions) ==
    LET axes == Range(dimensions)
    IN  [o \in Index(shape) |->
            Fold(op, init[<<>>], x, {i \in DOMAIN x : Without(i, axes) = o})]

ReduceWindow(shape, op, x, init, window) ==
    [o \in Index(shape) |-> Fold(op, init[<<>>], x, Covered(window, o, x))]

\* The index of the largest of the elements at S.
Largest(x, S) == CHOOSE i \in S : \A j \in S : x[i] >= x[j]

\* select is >= and scatter is op.
SelectAndScatter(x, deltas, op, init, window) ==
    [i \in DOMAIN x |->
        Fold(op, init[<<>>], deltas,
             {o \in DOMAIN deltas : Covers(window, o, i)
                                      /\ Largest(x, Covered(window, o, x)) = i})]

\* dn gives the dimension of each role in the input, the kernel and the output.
Convolution(shape, x, f, window, dn) ==
    [o \in Index(shape) |->
        Products(x, f, {p \in (DOMAIN x) \X (DOMAIN f) :
            LET i == p[1]  k == p[2]
            IN  /\ i[dn.input_batch] = o[dn.output_batch]
                /\ k[dn.kernel_output_feature] = o[dn.output_feature]
                /\ k[dn.kernel_input_feature] = i[dn.input_feature]
                /\ \A d \in DOMAIN window :
                      On(window[d], o[dn.output_spatial[d]],
                         k[dn.kernel_spatial[d]], i[dn.input_spatial[d]])})]

-----------------------------------------------------------------------------
(* nGraph: batches are NCHW, filters OIHW, and a window describes the spatial *)
(* dimensions only, without dilation.                                         *)

\* Convolution, with dilation, and strides in all places.
NGraphConvolution(x, f, window) ==
    LET out(d) ==
            LET w == window[d]
                image == (ShapeOf(x)[d + 2] - 1) * w.base + 1 + w.low + w.high
                kernel == (ShapeOf(f)[d + 2] - 1) * w.dilation + 1
            IN  (image - kernel) \div w.stride + 1
        shape == <<ShapeOf(x)[1], ShapeOf(f)[1]>> \o [d \in DOMAIN window |-> out(d)]
    IN  [o \in Index(shape) |->
            Products(x, f, {p \in (DOMAIN x) \X (DOMAIN f) :
                LET i == p[1]  k == p[2]
                IN  /\ i[1] = o[1] /\ k[1] = o[2] /\ k[2] = i[2]
                    /\ \A d \in DOMAIN window :
                          On(window[d], o[d + 2], k[d + 2], i[d + 2])})]

\* Broadcast: x is copied along the axes, which are those that it has not.
BroadcastAlong(x, shape, axes) ==
    IF DOMAIN x # {Without(i, axes) : i \in Index(shape)}
      THEN Missing
      ELSE [i \in Index(shape) |-> x[Without(i, axes)]]

\* Dot: the last axis of x and the first of y.
Dot(x, y) ==
    LET sx == ShapeOf(x)  sy == ShapeOf(y)
    IN  DotGeneral(RemoveAt(sx, Len(sx)) \o RemoveAt(sy, 1), x, y, Len(sx), 1)

\* Windows of these sizes and strides: ReduceWindow and SelectAndScatter have no
\* other parameters.
SizesAndStrides(window) ==
    [d \in DOMAIN window |-> [Unit EXCEPT !.size = window[d].size,
                                          !.stride = window[d].stride]]

\* Reshape with an input order that permutes the dimensions.
Reshape(x, order) ==
    LET from(j) == [d \in DOMAIN order |->
                       j[CHOOSE e \in DOMAIN order : order[e] = d]]
        to(i) == [e \in DOMAIN order |-> i[order[e]]]
    IN  [j \in {to(i) : i \in DOMAIN x} |-> x[from(j)]]

\* Sum, Product or Max over the axes.
Reduction(op, x, axes) ==
    LET start == Constant(<<>>, CASE op = "add" -> 0
                                  [] op = "multiply" -> 1
                                  [] op = "maximum" -> MinValue)
    IN  ReduceDimensions(Without(ShapeOf(x), Range(axes)), op, x, start, axes)

Spatial(window) == <<Unit, Unit>> \o window

Pooled(shape, window) ==
    [d \in DOMAIN shape |->
        (shape[d] + Spatial(window)[d].low + Spatial(window)[d].high
           - Spatial(window)[d].size) \div Spatial(window)[d].stride + 1]

MaxPool(x, window) ==
    [o \in Index(Pooled(ShapeOf(x), window)) |->
        Fold("maximum", MinValue, x, Covered(Spatial(window), o, x))]

MaxPoolBackprop(x, deltas, window) ==
    [i \in DOMAIN x |->
        Total(deltas, {o \in DOMAIN deltas :
            /\ Covers(Spatial(window), o, i)
            /\ Largest(x, Covered(Spatial(window), o, x)) = i})]

\* Padding is not counted (include_padding_in_avg_computation is false).
AvgPool(x, window) ==
    [o \in Index(Pooled(ShapeOf(x), window)) |->
        LET S == Covered(Spatial(window), o, x)
        IN  IF S = {} THEN 0 ELSE Total(x, S) \div Cardinality(S)]

AvgPoolBackprop(forward_shape, deltas, window) ==
    LET elements == Constant(forward_shape, 0)
        share == [o \in DOMAIN deltas |->
                    LET S == Covered(Spatial(window), o, elements)
                    IN  IF S = {} THEN 0 ELSE deltas[o] \div Cardinality(S)]
    IN  IF DOMAIN deltas # Index(Pooled(forward_shape, window))
          THEN Missing
          ELSE [i \in DOMAIN elements |->
                   Total(share, {o \in DOMAIN deltas :
                                    Covers(Spatial(window), o, i)})]

\* The forward convolution puts tap k of the filter on element i for output o.
Convolves(window, o, k, i) ==
    \A d \in DOMAIN window : On(window[d], o[d + 2], k[d + 2], i[d + 2])

\* Batches of this shape, under filters of that one, give outputs of shape:
Convolved(shape, filters, window) ==
    <<shape[1], filters[1]>> \o [d \in DOMAIN window |->
        (shape[d + 2] + window[d].low + window[d].high - filters[d + 2])
            \div window[d].stride + 1]

ConvolutionBackpropData(forward_shape, filters, deltas, window) ==
    IF ShapeOf(deltas) # Convolved(forward_shape, ShapeOf(filters), window)
      THEN Missing
      ELSE [i \in Index(forward_shape) |->
              Products(deltas, filters,
                       {p \in (DOMAIN deltas) \X (DOMAIN filters) :
                  LET o == p[1]  k == p[2]
                  IN  /\ o[1] = i[1] /\ k[1] = o[2] /\ k[2] = i[2]
                      /\ Convolves(window, o, k, i)})]

ConvolutionBackpropFilters(data, filters_shape, deltas, window) ==
    IF ShapeOf(deltas) # Convolved(ShapeOf(data), filters_shape, window)
      THEN Missing
      ELSE [k \in Index(filters_shape) |->
              Products(data, deltas,
                       {p \in (DOMAIN data) \X (DOMAIN deltas) :
                  LET i == p[1]  o == p[2]
                  IN  /\ o[1] = i[1] /\ k[1] = o[2] /\ k[2] = i[2]
                      /\ Convolves(window, o, k, i)})]

Relu(x) == [i \in DOMAIN x |-> IF x[i] > 0 THEN x[i] ELSE 0]
ReluBackprop(x, deltas) ==
    [i \in DOMAIN x |-> IF x[i] > 0 THEN deltas[i] ELSE 0]
=============================================================================
