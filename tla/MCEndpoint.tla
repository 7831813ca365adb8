----------------------------- MODULE MCEndpoint -----------------------------
(***************************************************************************)
(* Instances of Endpoint for TLC: every string of up to MaxLen characters, *)
(* a port of three bits, an int of five and a long of eight.               *)
(***************************************************************************)
EXTENDS Endpoint

CONSTANT MaxLen

MCDigitValue == [d \in {"1", "8"} |-> IF d = "1" THEN 1 ELSE 8]

MCStrings == SeqOf(Chars, MaxLen)
=============================================================================
