----------------------------- MODULE EventStream -----------------------------
(***************************************************************************)
(* What an arri event stream promises to the code that pushes into it,     *)
(* whatever server library carries it: the frames a handler hands over     *)
(* reach the connection in the order they were handed over, each of them   *)
(* once, nothing else does, and while the connection is up none of them    *)
(* is withheld for ever.                                                   *)
(***************************************************************************)
EXTENDS Naturals, Sequences

CONSTANT Frame

VARIABLES
    accepted,   \* frames the handler has handed over, in order
    delivered,  \* frames written to the connection, in order
    up          \* is the connection still there?

vars == <<accepted, delivered, up>>

Init ==
    /\ accepted = <<>>
    /\ delivered = <<>>
    /\ up = TRUE

Accept ==
    /\ \E f \in Frame : accepted' = Append(accepted, f)
    /\ UNCHANGED <<delivered, up>>

\* One write may carry several frames.
Deliver ==
    /\ \E n \in Len(delivered) + 1 .. Len(accepted) : delivered' = SubSeq(accepted, 1, n)
    /\ UNCHANGED <<accepted, up>>

Drop ==
    /\ up
    /\ up' = FALSE
    /\ UNCHANGED <<accepted, delivered>>

Next == Accept \/ Deliver \/ Drop

Spec == Init /\ [][Next]_vars /\ WF_vars(up /\ Deliver)
=============================================================================
