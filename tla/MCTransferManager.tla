--------------------------- MODULE MCTransferManager ---------------------------
(* TransferManager on small trees and two clients, for TLC. *)
EXTENDS TransferManager, TLC

ArrayNode == [tuple |-> FALSE, children |-> <<>>]
TupleNode(children) == [tuple |-> TRUE, children |-> children]

MCShapes == {
    <<ArrayNode>>,
    <<TupleNode(<<2, 3>>), TupleNode(<<>>), ArrayNode>>}
MCExecutables == {[parameters |-> 1,
    shape |-> <<TupleNode(<<2>>), ArrayNode>>]}
MCAddrs == 1 .. 4

\* The code does not look at addresses: which free one it gets is all the same.
First(S) == {a \in S : \A b \in S : a <= b}
Symmetry == Permutations(Threads)
=============================================================================
