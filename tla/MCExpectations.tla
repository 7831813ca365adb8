--------------------------- MODULE MCExpectations ---------------------------
(***************************************************************************)
(* Tests for Expectations: three expectations in a row, by InSequence,     *)
(* Sequence objects and After(), each called at most once, once or never;  *)
(* actions and default actions; clauses out of place.                      *)
(***************************************************************************)
EXTENDS Expectations

MCFunctions == {"f", "g"}
MCMocks == {"m", "n"}
MCOwner == [f \in MCFunctions |-> IF f = "f" THEN "m" ELSE "n"]
MCReaction == [o \in MCMocks |-> IF o = "m" THEN "fail" ELSE "warn"]
MCArgs == {"x", "y"}
MCMatchers == SUBSET MCArgs

expect(f, a) == <<"EXPECT_CALL", <<f, {a}>>>>
times(c) == <<"Times", c>>
clause(name) == <<name, "">>
scope == clause("scope")

Rows ==
  {<<scope, expect("f", "x"), times(c), expect(f, "x"), times(d), expect("f", "x")>> :
     f \in MCFunctions, c \in {<<0, 1>>, <<1, 1>>, <<0, 0>>}, d \in {<<0, 1>>, <<1, 2>>}}

Forks ==
  {<<expect("f", "x"), expect("g", "x"), <<"InSequence", "s">>,
     expect("f", "y"), k, clause("WillOnce")>> :
     k \in {<<"After", {1, 2}>>, <<"After", {1}>>, <<"InSequence", "s">>}} \cup
  {<<expect("f", "x"), <<"InSequence", "s">>, <<"InSequence", "s">>, expect("g", "x"),
     <<"InSequence", "s">>, times(<<2, 1>>)>>}

Actions ==
  {<<<<"ON_CALL", "g">>, expect("g", "x"), clause("WillOnce"), expect("f", "x"),
     clause("WillRepeatedly")>>,
   <<expect("f", "x"), clause("WillOnce"), clause("WillOnce"),
     clause("RetiresOnSaturation"), expect("g", "y"), <<"With", {"x"}>>>>,
   <<expect("f", "x"), expect("f", "x"), clause("RetiresOnSaturation"), clause("WillOnce")>>}

MCTests == Rows \cup Forks \cup Actions
=============================================================================
