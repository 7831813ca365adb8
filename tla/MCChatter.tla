------------------------------ MODULE MCChatter ------------------------------
(***************************************************************************)
(* Instances of Chatter for TLC: two windows a and b that talk to each     *)
(* other, the empty field, a short text and one that does not fit.         *)
(***************************************************************************)
EXTENDS Chatter, TLC

CONSTANTS a, b, x, y, blank, short, long

MCSize == [t \in Texts |-> IF t = blank THEN 1 ELSE IF t = short THEN 2 ELSE 3]

AtoB == (a :> x) @@ (b :> y)
BtoA == (a :> y) @@ (b :> x)

\* a talks to itself.
AtoA == a :> x
=============================================================================
