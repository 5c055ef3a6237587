-------------------------- MODULE MCNGraphExecutable --------------------------
(* NGraphExecutable on small result trees, for TLC. *)
EXTENDS NGraphExecutable

ArrayNode == [tuple |-> FALSE, children |-> <<>>]
TupleNode(children) == [tuple |-> TRUE, children |-> children]

\* An array, the empty tuple, and tuples with an empty tuple, an array and a
\* tuple in every order that matters to a counter.
MCShapes == {
    <<ArrayNode>>,
    <<TupleNode(<<>>)>>,
    <<TupleNode(<<2, 3, 4>>), TupleNode(<<>>), ArrayNode, ArrayNode>>,
    <<TupleNode(<<2, 3>>), ArrayNode, ArrayNode>>,
    <<TupleNode(<<2, 4>>), TupleNode(<<3>>), ArrayNode, ArrayNode>>,
    <<TupleNode(<<2, 3>>), ArrayNode,
      TupleNode(<<4, 5>>), TupleNode(<<>>), ArrayNode>>}
MCExecutables == [shape : MCShapes, parameters : {2}]
MCAddrs == 1 .. 8
MCArguments == {1, 2}
MCCalls == {<<1>>, <<1, 2>>, <<2, 1>>}

\* On every tree of up to MaxNodes nodes: XLAFunction flattens it in the order of its
\* nodes.
MaxNodes == 5
Tree(size, parent, tuples) ==
    [n \in 1 .. size |->
        [tuple |-> n \in tuples,
         children |-> SetToSortSeq({m \in 2 .. size : parent[m] = n},
                                   LAMBDA a, b : a < b)]]
Trees(size) ==
    {Tree(size, parent, tuples) : parent \in [2 .. size -> 1 .. size],
                                  tuples \in SUBSET (1 .. size)}
ASSUME TreesFlattenInOrder ==
    \A size \in 1 .. MaxNodes : \A s \in Trees(size) :
        WellFormed(s) => FlattenedInOrder(s)

\* The code does not look at addresses: which free one it gets is all the same.
First(S) == {a \in S : \A b \in S : a <= b}
Symmetry == Permutations(Threads)
=============================================================================
