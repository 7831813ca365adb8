---------------------------- MODULE MCCalculator ----------------------------
(***************************************************************************)
(* Instances of StringCalculator for TLC.  An int of seven bits holds -64  *)
(* to 63 and a long of ten -512 to 511, so that of the numbers the digits  *)
(* 1 and 3 make 11 is the last that counts, 13 is ignored, 111 turns       *)
(* negative, 131 turns into 3 and 1111 into -1.                            *)
(***************************************************************************)
EXTENDS StringCalculator

CONSTANT MaxLen

MCDigitValue == [d \in {"1", "3"} |-> IF d = "1" THEN 1 ELSE 3]

MCChars == {"1", "3", "-", ",", ";", "/", Newline}

MCDelimiters == SUBSET MCChars

Bodies == SeqOf({"1", "3", "-", ",", ";"}, MaxLen)

\* One delimiter, a digit or the sign as the delimiter, a header without a
\* newline, one with a slash too few, an empty one, and two delimiters, one of
\* them named twice.
Headers ==
  {<<"/", "/", ";", Newline>>, <<"/", ";", Newline>>, <<"/", "/", "3", Newline>>,
   <<"/", "/", "-", Newline>>, <<"/", "/", ";">>, <<"/", "/", Newline>>,
   <<"/", "/", ";", "-", ";", Newline>>}

MCStrings ==
  SeqOf({"1", "3", "-", ","}, MaxLen + 1) \cup Bodies \cup
    {h \o b : h \in Headers, b \in Bodies}
=============================================================================
