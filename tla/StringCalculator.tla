-------------------------- MODULE StringCalculator --------------------------
(***************************************************************************)
(* One call of Add() of string_calculator_kata.cc: Slice() splits the      *)
(* argument into delimiters and data, a Tokeniser cuts the data and every  *)
(* token is converted by ToNumber() and added up.                          *)
(***************************************************************************)
EXTENDS Tokeniser, Atoi

CONSTANT MaxNumber \* the largest number that counts, 1000 in the code

VARIABLES input, sum, outcome

callVars == <<input, sum, outcome>>
calcVars == <<vars, callVars>>

Newline == "\n"
StandardDelims == {",", Newline}

HasHeader(s) ==
  /\ Len(s) >= 2 /\ SubSeq(s, 1, 2) = <<"/", "/">>
  /\ Contains(s, Newline)

\* str.find('\n') + 1
HeaderLength(s) == SelectInSeq(s, LAMBDA c : c = Newline)

\* A bug: the delimiters taken from behind their first character.
SliceShort(s) ==
  IF HasHeader(s)
    THEN [delims |-> StandardDelims \cup {s[i] : i \in 4..(HeaderLength(s) - 1)},
          data   |-> SubSeq(s, HeaderLength(s) + 1, Len(s))]
    ELSE [delims |-> StandardDelims, data |-> s]

\* Every character between "//" and the newline becomes a delimiter.
Slice(s) ==
  IF HasHeader(s)
    THEN [delims |-> StandardDelims \cup {s[i] : i \in 3..(HeaderLength(s) - 1)},
          data   |-> SubSeq(s, HeaderLength(s) + 1, Len(s))]
    ELSE [delims |-> StandardDelims, data |-> s]

ASSUME SliceAssumption ==
  /\ MaxNumber \in 0..IntMax
  /\ \A s \in Strings : Slice(s).data \in Strings /\ Slice(s).delims \in Delimiters

CalcInit ==
  /\ input \in Strings
  /\ Constructed(Slice(input).data, Slice(input).delims)
  /\ sum = 0
  /\ outcome = "running"

\* The characters of the token NextToken() has just returned.
LastToken ==
  LET t == tokens'[Len(tokens')] IN SubSeq(str, t.first + 1, t.end)

\* A bug: the limit itself is ignored too.
CountedBelow(n) == IF n >= MaxNumber THEN 0 ELSE n

\* A bug: no limit.
CountedAll(n) == n

\* What ToNumber() returns for an n that is not negative.
Counted(n) == IF n > MaxNumber THEN 0 ELSE n

\* A bug: a negative number is ignored.
AddTokenIgnoring ==
  /\ outcome = "running"
  /\ NextToken
  /\ LET n == atoi(LastToken) IN
       sum' = IF n < 0 THEN sum ELSE Wrapped(sum + Counted(n))
  /\ UNCHANGED <<input, outcome>>

\* sum += ToNumber(tokeniser.NextToken()); a negative number ends the call.
AddToken ==
  /\ outcome = "running"
  /\ NextToken
  /\ LET n == atoi(LastToken) IN
       \/ n < 0 /\ outcome' = "range_error" /\ UNCHANGED sum
       \/ n >= 0 /\ sum' = Wrapped(sum + Counted(n)) /\ UNCHANGED outcome
  /\ UNCHANGED input

Return ==
  /\ outcome = "running"
  /\ ~has_next
  /\ outcome' = "returned"
  /\ UNCHANGED <<vars, input, sum>>

CalcNext == AddToken \/ Return

CalcSpec == CalcInit /\ [][CalcNext]_calcVars
-----------------------------------------------------------------------------
CalcTypeOK ==
  /\ TypeOK
  /\ input \in Strings
  /\ sum \in Ints
  /\ outcome \in {"running", "range_error", "returned"}

\* The sum cannot overflow before IntMax \div MaxNumber numbers were added, some
\* two million in the code: no single number is worth more than MaxNumber.
SumIsBounded ==
  MaxNumber * Len(tokens) <= IntMax => sum \in 0..(MaxNumber * Len(tokens))

\* The longest parts of s without a delimiter of D, told without a tokeniser.
Fields(s, D) ==
  {f \in (0..Len(s)) \X (0..Len(s)) :
     /\ f[1] <= f[2]
     /\ \A i \in (f[1] + 1)..f[2] : s[i] \notin D
     /\ f[1] > 0 => s[f[1]] \in D
     /\ f[2] < Len(s) => s[f[2] + 1] \in D}

Written(s, f) == Number(SubSeq(s, f[1] + 1, f[2]))

\* No number of s is beyond an int, and neither is any sum of that many.
Fits(s, D) ==
  /\ \A f \in Fields(s, D) : Written(s, f) \in Ints
  /\ MaxNumber * Cardinality(Fields(s, D)) <= IntMax

\* What is to be added up: every number written in s, but for those too big.
Total(s, D) ==
  MapThenSumSet(LAMBDA f : IF Written(s, f) > MaxNumber THEN 0 ELSE Written(s, f),
                Fields(s, D))

\* As long as the numbers fit an int, Add() returns the sum of all numbers up
\* to MaxNumber: none lost, none counted twice, the first and the last included.
SumIsExact ==
  outcome = "returned" /\ Fits(str, delims) => sum = Total(str, delims)

\* As long as the numbers fit an int, Add() throws for a negative one, wherever
\* it stands, and for nothing else.
RefusesNegatives ==
  Fits(str, delims) /\ outcome # "running" =>
    (outcome = "range_error" <=> \E f \in Fields(str, delims) : Written(str, f) < 0)

\* The header of s ends at n: "//", no newline up to the one at n.
EndsHeader(s, n) ==
  /\ s[1] = "/" /\ s[2] = "/"
  /\ s[n] = Newline
  /\ \A i \in 3..(n - 1) : s[i] # Newline

\* s with c for every character of X.
Replaced(s, X, c) == [i \in DOMAIN s |-> IF s[i] \in X THEN c ELSE s[i]]

\* The sum is that of the numbers s has between commas and newlines.
IsSumOf(s) == Fits(s, StandardDelims) => sum = Total(s, StandardDelims)

\* Every character announced in the header does what a comma does, however many
\* there are: "//;-\n1;2-3" is worth what "1,2,3" is, and "//\n1,2" what "1,2" is.
\* What has no header is all data.
CustomDelimiter ==
  outcome = "returned" =>
    /\ \A n \in 3..Len(input) : EndsHeader(input, n) =>
         IsSumOf(Replaced(SubSeq(input, n + 1, Len(input)),
                          {input[i] : i \in 3..(n - 1)}, ","))
    /\ (\A n \in 3..Len(input) : ~EndsHeader(input, n)) => IsSumOf(input)

\* string_calculator_kata.cc:193-196, Add_NumbersBiggerThan1000AreIgnored: a
\* number beyond the limit, however big, changes nothing.
BiggerIgnored ==
  outcome = "returned" => sum = Total(str, delims)
=============================================================================
