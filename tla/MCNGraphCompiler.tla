--------------------------- MODULE MCNGraphCompiler ---------------------------
(* NGraphCompiler on two or three threads, for TLC. *)
EXTENDS NGraphCompiler, TLC

\* The environments worth telling apart: fusion on or off, each variable in
\* turn with a value RunBackend refuses.
GoodEnv == [skipFusion |-> FALSE, dump |-> "unset", serialize |-> "zero",
            backend |-> "unset"]
MCEnvironments ==
    {GoodEnv, [GoodEnv EXCEPT !.dump = "other"],
     [GoodEnv EXCEPT !.serialize = "garbage"],
     [GoodEnv EXCEPT !.backend = "unparsable"],
     [GoodEnv EXCEPT !.backend = "unregistered"],
     [GoodEnv EXCEPT !.skipFusion = TRUE]}
MCWorkingEnvironments == {GoodEnv}

Symmetry == Permutations(Threads) \cup Permutations(Addrs)
            \cup Permutations(Emitters) \cup Permutations(Backends)
=============================================================================
