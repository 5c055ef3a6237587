--------------------------- MODULE MCNGraphExecutor ---------------------------
(* NGraphExecutor on small sets of hosts, streams and objects, for TLC. *)
EXTENDS NGraphExecutor, TLC

CONSTANTS h1, h2, s1, s2, s3

\* Any host makes any stream depend on any.
AnyCalls == Hosts \X Streams \X Streams

\* The second host makes one stream depend on the other.
OneWay == {<<h2, s1, s2>>}

ThreeStreams == (s1 :> 2) @@ (s2 :> 1) @@ (s3 :> 1)
TwoStreams == (s1 :> 1) @@ (s2 :> 1)

\* The buffers are interchangeable in a run without liveness.
BufferSymmetry == Permutations(Buffers)
=============================================================================
