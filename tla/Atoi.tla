-------------------------------- MODULE Atoi --------------------------------
(***************************************************************************)
(* atoi() of the C library as both programs call it, on strings that are   *)
(* sequences of characters.  The widths of long and int are parameters.    *)
(***************************************************************************)
EXTENDS Integers, Sequences, SequencesExt

CONSTANTS
  DigitValue, \* [the digits -> 0..9]
  Blanks,     \* what isspace() accepts
  LongMax,    \* the largest long
  IntMax,     \* the largest int
  Saturates   \* the Visual C++ library; glibc converts a long instead

ASSUME AtoiAssumption ==
  /\ LongMax \in Nat /\ IntMax \in Nat /\ IntMax <= LongMax
  /\ DOMAIN DigitValue \cap Blanks = {}
  /\ \A d \in DOMAIN DigitValue : DigitValue[d] \in 0..9
  /\ Saturates \in BOOLEAN

Ints == (-IntMax - 1)..IntMax

\* How many of the first characters of s are in S.
Leading(s, S) == Max({k \in 0..Len(s) : \A i \in 1..k : s[i] \in S})

Decimal(digits) == FoldLeft(LAMBDA n, d : 10 * n + DigitValue[d], 0, digits)

\* The number s starts with, 0 if it starts with none, of any size.
Number(s) ==
  LET body   == SubSeq(s, Leading(s, Blanks) + 1, Len(s))
      signed == body # <<>> /\ body[1] \in {"+", "-"}
      rest   == IF signed THEN Tail(body) ELSE body
      n      == Decimal(SubSeq(rest, 1, Leading(rest, DOMAIN DigitValue)))
  IN  IF signed /\ body[1] = "-" THEN -n ELSE n

Clamp(n, largest) ==
  IF n > largest THEN largest ELSE IF n < -largest - 1 THEN -largest - 1 ELSE n

\* Two's complement: the value n has in an int.
Wrapped(n) == ((n + IntMax + 1) % (2 * IntMax + 2)) - IntMax - 1

\* strtol() stops at the ends of long, and the conversion to int wraps around.
atoi(s) ==
  IF Saturates THEN Clamp(Number(s), IntMax) ELSE Wrapped(Clamp(Number(s), LongMax))
=============================================================================
