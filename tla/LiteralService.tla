---------------------------- MODULE LiteralService ----------------------------
(***************************************************************************)
(* What a client of the device sees: it keeps literals on the device, one  *)
(* at a time here, runs the compiled module on them, and reads back the    *)
(* elements of what it stored or of what the run returned.  No other       *)
(* client has a part in that, and there are no buffers, layouts, pointers  *)
(* or sizes.  TransferManager implements it.                               *)
(*                                                                         *)
(* A literal is the function from the leaves of its shape to their         *)
(* elements.                                                               *)
(***************************************************************************)
CONSTANTS
    Clients,
    Literals,      \* what a client may store
    IsArgument(_), \* of a literal, whether an executable takes it
    Compute(_, _), \* what an executable returns for a literal
    None

VARIABLES
    executable,
    held,   \* the literal each client has on the device
    result, \* what its execution returned
    answer  \* the literal it has been given back

vars == <<executable, held, result, answer>>

Nothing == [c \in Clients |-> None]

Init ==
    /\ held = Nothing
    /\ result = Nothing
    /\ answer = Nothing

Store(c, literal) ==
    /\ held[c] = None
    /\ held' = [held EXCEPT ![c] = literal]
    /\ UNCHANGED <<executable, result, answer>>

Drop(c) ==
    /\ held[c] # None
    /\ held' = [held EXCEPT ![c] = None]
    /\ UNCHANGED <<executable, result, answer>>

Run(c) ==
    /\ held[c] # None
    /\ IsArgument(held[c])
    /\ result[c] = None
    /\ result' = [result EXCEPT ![c] = Compute(executable, held[c])]
    /\ UNCHANGED <<executable, held, answer>>

DropResult(c) ==
    /\ result[c] # None
    /\ result' = [result EXCEPT ![c] = None]
    /\ UNCHANGED <<executable, held, answer>>

Read(c) ==
    /\ answer[c] = None
    /\ \E literal \in {held[c], result[c]} \ {None} :
          answer' = [answer EXCEPT ![c] = literal]
    /\ UNCHANGED <<executable, held, result>>

Done(c) ==
    /\ answer[c] # None
    /\ answer' = [answer EXCEPT ![c] = None]
    /\ UNCHANGED <<executable, held, result>>

Next == \E c \in Clients :
    \/ \E literal \in Literals : Store(c, literal)
    \/ Drop(c)
    \/ Run(c)
    \/ DropResult(c)
    \/ Read(c)
    \/ Done(c)

Spec == Init /\ [][Next]_vars

=============================================================================
