--------------------------- MODULE MCCrossOperator ---------------------------
(* Instances of CrossOperator for TLC.                                       *)
EXTENDS CrossOperator

CONSTANTS MaxLeft, MaxRight, Lengths

Streams(n, lengths) ==
    UNION {{[i \in 1 .. m |-> [id |-> i, len |-> lens[i]]] : lens \in [1 .. m -> lengths]} :
               m \in 0 .. n}

MCLeftInputs == Streams(MaxLeft, {1})
MCRightInputs == Streams(MaxRight, Lengths)
=============================================================================
