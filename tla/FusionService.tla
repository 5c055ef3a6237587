---------------------------- MODULE FusionService ----------------------------
(***************************************************************************)
(* What the fusion pass and the nGraph generation pass promise each other, *)
(* without a word on how: every module under compilation, and every module *)
(* an executable keeps, has its own association from the kCustom fusion    *)
(* instructions made for it to their emitters; the association is complete *)
(* and exclusive as long as the module lives and is gone with it; and what *)
(* the generation pass runs for a fusion is that fusion's emitter.         *)
(*                                                                         *)
(* NGraphCompiler implements this with ONE map for the whole process that  *)
(* is never cleaned.                                                       *)
(***************************************************************************)
CONSTANTS Threads, Addrs, Emitters, None

VARIABLES
    phase,    \* what each thread is doing with its module
    fusions,  \* the association of each thread's module
    running   \* the emitter each thread is running

vars == <<phase, fusions, running>>

NoFusions == [a \in Addrs |-> None]

Init ==
    /\ phase = [t \in Threads |-> "idle"]
    /\ fusions = [t \in Threads |-> NoFusions]
    /\ running = [t \in Threads |-> None]

Begin(t) ==
    /\ phase[t] = "idle"
    /\ phase' = [phase EXCEPT ![t] = "compiling"]
    /\ UNCHANGED <<fusions, running>>

\* A live instruction or a live emitter belongs to one association only.
Fuse(t, a, e) ==
    /\ phase[t] = "compiling"
    /\ \A u \in Threads : fusions[u][a] = None
    /\ \A u \in Threads, b \in Addrs : fusions[u][b] # e
    /\ fusions' = [fusions EXCEPT ![t] = [@ EXCEPT ![a] = e]]
    /\ UNCHANGED <<phase, running>>

RunEmitter(t, a) ==
    /\ phase[t] = "compiling"
    /\ fusions[t][a] # None
    /\ running[t] = None
    /\ running' = [running EXCEPT ![t] = fusions[t][a]]
    /\ UNCHANGED <<phase, fusions>>

EmitterReturns(t) ==
    /\ running[t] # None
    /\ running' = [running EXCEPT ![t] = None]
    /\ UNCHANGED <<phase, fusions>>

Return(t) ==
    /\ phase[t] = "compiling"
    /\ running[t] = None
    /\ phase' = [phase EXCEPT ![t] = "compiled"]
    /\ UNCHANGED <<fusions, running>>

Destroy(t) ==
    /\ phase[t] = "compiled"
    /\ phase' = [phase EXCEPT ![t] = "idle"]
    /\ fusions' = [fusions EXCEPT ![t] = NoFusions]
    /\ UNCHANGED running

Next == \E t \in Threads :
    \/ Begin(t)
    \/ \E a \in Addrs, e \in Emitters : Fuse(t, a, e)
    \/ \E a \in Addrs : RunEmitter(t, a)
    \/ EmitterReturns(t)
    \/ Return(t)
    \/ Destroy(t)

Spec == Init /\ [][Next]_vars

=============================================================================
