-------------------------- MODULE CalculatorProofs --------------------------
(***************************************************************************)
(* Proofs about StringCalculator: Add() uses its tokeniser as a caller may *)
(* use it, so that what is proved of Tokeniser holds inside every call.    *)
(***************************************************************************)
EXTENDS StringCalculator, AtoiProofs

\* Every behaviour of Add() is one of Tokeniser, on the data and the delimiters
\* that Slice() makes of the argument.
THEOREM AddIsCaller == CalcSpec => Spec
<1>1. CalcInit => Init
  BY SliceAssumption, Zenon DEF CalcInit, Init
<1>2. [CalcNext]_calcVars => [Next]_vars
  <2>1. AddToken => Next
    BY DEF AddToken, Next
  <2>2. Return => UNCHANGED vars
    BY DEF Return
  <2>3. UNCHANGED calcVars => UNCHANGED vars
    BY DEF calcVars
  <2> QED
    BY <2>1, <2>2, <2>3 DEF CalcNext
<1> QED
  BY <1>1, <1>2, PTL DEF CalcSpec, Spec

\* What Add() adds up is cut at the delimiters without gap or overlap.
THEOREM AddCutsAtDelimiters == CalcSpec => []TokensTile
BY AddIsCaller, TokensTileAlways, PTL

\* Add() returns only when every token has been added.
ReturnsAtTheEnd ==
  outcome = "returned" => tokens # <<>> /\ tokens[Len(tokens)].end = Len(str)

\* When Add() returns, its last token ends where its data ends: together with
\* AddCutsAtDelimiters no part of the data is left out of the sum.
THEOREM AddLeavesNothing == CalcSpec => []ReturnsAtTheEnd
<1> DEFINE Stopped == outcome = "returned" => ~has_next
<1>1. CalcInit => Stopped
  BY DEF CalcInit
<1>2. Stopped /\ [CalcNext]_calcVars => Stopped'
  <2> SUFFICES ASSUME Stopped, [CalcNext]_calcVars PROVE Stopped'
    OBVIOUS
  <2>1. CASE AddToken
    BY <2>1 DEF AddToken
  <2>2. CASE Return
    BY <2>2 DEF Return, vars
  <2>3. CASE UNCHANGED calcVars
    BY <2>3 DEF calcVars, callVars, vars
  <2> QED
    BY <2>1, <2>2, <2>3 DEF CalcNext
<1>3. Stopped /\ NothingLeft => ReturnsAtTheEnd
  BY DEF NothingLeft, ReturnsAtTheEnd
<1> HIDE DEF Stopped
<1> QED
  BY <1>1, <1>2, <1>3, AddIsCaller, NothingLeftAlways, PTL DEF CalcSpec

-----------------------------------------------------------------------------
\* The characters of a token.
Piece(t) == SubSeq(str, t.first + 1, t.end)

CallOK == sum \in Ints /\ outcome \in {"running", "range_error", "returned"}

\* What a call does to its variables, told of the token that it cuts.
LEMMA CallStep ==
  ASSUME IInv, [CalcNext]_calcVars
  PROVE  \/ UNCHANGED calcVars
         \/ /\ Return /\ ~has_next /\ outcome' = "returned"
            /\ UNCHANGED <<str, delims, tokens, has_next, sum>>
         \/ \E e \in offset..Len(str) : LET t == [first |-> offset, end |-> e] IN
              /\ outcome = "running" /\ NextToken
              /\ tokens' = Append(tokens, t)
              /\ Hits(str, offset) \cap (offset..e) \subseteq {e}
              /\ e < Len(str) => str[e + 1] \in delims
              /\ str' = str /\ delims' = delims
              /\ atoi(Piece(t)) \in Ints
              /\ \/ atoi(Piece(t)) < 0 /\ outcome' = "range_error" /\ sum' = sum
                 \/ /\ atoi(Piece(t)) >= 0 /\ outcome' = outcome
                    /\ sum' = Wrapped(sum + Counted(atoi(Piece(t))))
<1>1. CASE AddToken
  <2>1. NextToken /\ outcome = "running" /\ str' = str /\ delims' = delims
    BY <1>1 DEF AddToken, NextToken
  <2>2. PICK e \in offset..Len(str) :
           /\ tokens' = Append(tokens, [first |-> offset, end |-> e])
           /\ Hits(str, offset) \cap (offset..e) \subseteq {e}
           /\ \/ e < Len(str) /\ str[e + 1] \in delims /\ offset' = e + 1 /\ has_next'
              \/ e = Len(str) /\ offset' = 0 /\ ~has_next'
    BY <2>1, Cut
  <2> DEFINE t == [first |-> offset, end |-> e]
  <2>3. str \in Strings /\ offset \in 0..Len(str) /\ e \in 0..Len(str) /\ Len(str) \in Nat
    BY <2>2, TokeniserAssumption, LenProperties DEF IInv, TypeOK
  <2>4. tokens \in Seq([first : Nat, end : Nat]) /\ t \in [first : Nat, end : Nat]
    BY <2>3 DEF IInv, TypeOK
  <2>5. tokens'[Len(tokens')] = t
    BY <2>2, <2>4, AppendProperties
  <2>6. LastToken = Piece(t)
    BY <2>5 DEF LastToken, Piece
  <2>7. atoi(Piece(t)) \in Ints
    <3>1. str \in Seq(Chars) /\ \A i \in (offset + 1)..e : str[i] \in Chars
      BY <2>3, TokeniserAssumption, ElementOfSeq
    <3>2. SubSeq(str, offset + 1, e) \in Seq(Chars)
      BY <2>3, <3>1, SubSeqProperties
    <3> QED
      BY <3>2, AtoiIsInt DEF Piece
  <2> QED
    BY <1>1, <2>1, <2>2, <2>3, <2>6, <2>7 DEF AddToken
<1>2. CASE Return
  BY <1>2 DEF Return, vars
<1> QED
  BY <1>1, <1>2 DEF CalcNext

\* Whatever is added, and however often, the result is an int.
THEOREM CalcTypeCorrect == CalcSpec => []CalcTypeOK
<1> DEFINE Inputs == input \in Strings
<1>1. CalcInit => CallOK /\ Inputs
  BY AtoiAssumption DEF CalcInit, CallOK, Ints
<1>2. IInv /\ CallOK /\ Inputs /\ [CalcNext]_calcVars => (CallOK /\ Inputs)'
  <2> SUFFICES ASSUME IInv, CallOK, Inputs, [CalcNext]_calcVars PROVE (CallOK /\ Inputs)'
    OBVIOUS
  <2>1. Inputs'
    BY DEF CalcNext, AddToken, Return, calcVars, callVars
  <2>2. ASSUME NEW n \in Ints, n >= 0 PROVE Wrapped(sum + Counted(n)) \in Ints
    <3>1. sum + Counted(n) \in Int
      BY AtoiAssumption DEF CallOK, Ints, Counted
    <3> QED
      BY <3>1, WrappedIsInt
  <2>3. CallOK'
    BY <2>2, CallStep DEF CallOK, calcVars, callVars
  <2> QED
    BY <2>1, <2>3
<1>3. TypeOK /\ CallOK /\ Inputs => CalcTypeOK
  BY DEF CalcTypeOK, CallOK
<1> QED
  BY <1>1, <1>2, <1>3, AddIsCaller, Inductive, TypeCorrect, PTL DEF CalcSpec

\* No number weighs more than the limit, so the sum of n of them is at most n
\* times the limit, and nothing wraps around as long as that is an int.
THEOREM SumIsBoundedAlways == CalcSpec => []SumIsBounded
<1>1. CalcInit => SumIsBounded
  BY SliceAssumption, AtoiAssumption DEF CalcInit, Constructed, SumIsBounded
<1>2. IInv /\ CallOK /\ SumIsBounded /\ [CalcNext]_calcVars => SumIsBounded'
  <2> SUFFICES ASSUME IInv, CallOK, SumIsBounded, [CalcNext]_calcVars PROVE SumIsBounded'
    OBVIOUS
  <2>1. CASE UNCHANGED <<tokens, sum>>
    BY <2>1 DEF SumIsBounded
  <2>2. ASSUME NEW e \in offset..Len(str), NEW n \in Ints, n >= 0,
               tokens' = Append(tokens, [first |-> offset, end |-> e]),
               sum' = sum \/ sum' = Wrapped(sum + Counted(n))
        PROVE  SumIsBounded'
    <3> DEFINE k == Len(tokens)
    <3>1. tokens \in Seq([first : Nat, end : Nat]) /\ [first |-> offset, end |-> e] \in [first : Nat, end : Nat]
      BY TokeniserAssumption, LenProperties DEF IInv, TypeOK
    <3>2. k \in Nat /\ Len(tokens') = k + 1
      BY <2>2, <3>1, AppendProperties, LenProperties
    <3>3. IntMax \in Nat /\ MaxNumber \in Nat /\ Counted(n) \in 0..MaxNumber
      BY <2>2, AtoiAssumption, SliceAssumption DEF Counted, Ints
    <3>4. MaxNumber * k \in Nat /\ MaxNumber * (k + 1) = MaxNumber * k + MaxNumber
      BY <3>2, <3>3
    <3> SUFFICES ASSUME MaxNumber * (k + 1) <= IntMax PROVE sum' \in 0..(MaxNumber * (k + 1))
      BY <3>2 DEF SumIsBounded
    <3>5. sum \in 0..(MaxNumber * k)
      BY <3>3, <3>4 DEF SumIsBounded
    <3>6. sum + Counted(n) \in 0..(MaxNumber * (k + 1)) /\ sum + Counted(n) \in Ints
      BY <3>3, <3>4, <3>5 DEF Ints
    <3>7. Wrapped(sum + Counted(n)) = sum + Counted(n)
      BY <3>6, WrappedIsInt DEF Ints
    <3> QED
      BY <2>2, <3>3, <3>4, <3>5, <3>6, <3>7
  <2>3. 0 \in Ints /\ 0 >= 0
    BY AtoiAssumption DEF Ints
  <2> QED
    BY <2>1, <2>2, <2>3, CallStep DEF calcVars, callVars, vars
<1>3. CalcTypeOK => CallOK
  BY DEF CalcTypeOK, CallOK
<1> QED
  BY <1>1, <1>2, <1>3, AddIsCaller, Inductive, CalcTypeCorrect, PTL DEF CalcSpec

-----------------------------------------------------------------------------
\* A token is one of the fields told without a tokeniser.
LEMMA TokenIsField ==
  ASSUME IInv, NEW k \in 1..Len(tokens)
  PROVE  <<tokens[k].first, tokens[k].end>> \in Fields(str, delims)
<1> DEFINE t == tokens[k]
<1>1. /\ tokens \in Seq([first : Nat, end : Nat]) /\ Len(tokens) \in Nat /\ Len(str) \in Nat
      /\ t \in [first : Nat, end : Nat]
  BY TokeniserAssumption, LenProperties, ElementOfSeq DEF IInv, TypeOK
<1>2. /\ t.first <= t.end /\ t.end <= Len(str)
      /\ Hits(str, t.first) \cap (t.first..t.end) \subseteq {t.end}
  BY DEF IInv, TokensTile
<1>3. \A i \in (t.first + 1)..t.end : str[i] \notin delims
  <2> SUFFICES ASSUME NEW i \in (t.first + 1)..t.end, str[i] \in delims PROVE FALSE
    OBVIOUS
  <2>1. i - 1 \in t.first..(Len(str) - 1) /\ i - 1 \in t.first..t.end /\ i - 1 # t.end
    BY <1>1, <1>2
  <2>2. (i - 1) + 1 = i
    BY <1>1
  <2> QED
    BY <1>2, <2>1, <2>2 DEF Hits
<1>4. t.first > 0 => str[t.first] \in delims
  <2>1. CASE k = 1
    BY <1>1, <2>1 DEF IInv, TokensTile
  <2>2. CASE k > 1
    <3>1. k - 1 \in 1..Len(tokens) /\ k - 1 < Len(tokens) /\ (k - 1) + 1 = k
      BY <1>1, <2>2
    <3>2. str[tokens[k - 1].end + 1] \in delims /\ t.first = tokens[k - 1].end + 1
      BY <3>1 DEF IInv, TokensTile
    <3> QED
      BY <3>2
  <2> QED
    BY <1>1, <2>1, <2>2
<1>5. t.end < Len(str) => str[t.end + 1] \in delims
  <2>1. CASE k < Len(tokens)
    BY <2>1 DEF IInv, TokensTile
  <2>2. CASE k = Len(tokens) /\ has_next
    BY <2>2 DEF IInv, Aligned
  <2>3. CASE k = Len(tokens) /\ ~has_next
    BY <1>1, <2>3 DEF IInv, NothingLeft
  <2> QED
    BY <1>1, <2>1, <2>2, <2>3 DEF IInv, TypeOK
<1> QED
  BY <1>1, <1>2, <1>3, <1>4, <1>5 DEF Fields

\* The fields that start in what was cut so far have their token.
IsToken(f) == \E k \in 1..Len(tokens) : f = <<tokens[k].first, tokens[k].end>>

FieldsCut ==
  \A f \in Fields(str, delims) : \A n \in 1..Len(tokens) :
    f[1] <= tokens[n].end => IsToken(f)

\* The field that starts behind the last token is the next token.
LEMMA FieldsCutStep ==
  ASSUME IInv, FieldsCut, NEW e \in offset..Len(str), has_next,
         tokens' = Append(tokens, [first |-> offset, end |-> e]),
         Hits(str, offset) \cap (offset..e) \subseteq {e},
         e < Len(str) => str[e + 1] \in delims,
         str' = str, delims' = delims
  PROVE  FieldsCut'
<1> DEFINE t == [first |-> offset, end |-> e]
           l == Len(tokens) + 1
<1>1. /\ tokens \in Seq([first : Nat, end : Nat]) /\ Len(tokens) \in Nat /\ Len(str) \in Nat
      /\ offset \in Nat /\ e \in Nat /\ t \in [first : Nat, end : Nat]
  BY TokeniserAssumption, LenProperties DEF IInv, TypeOK
<1>2. /\ Len(tokens') = l /\ tokens'[l] = t
      /\ \A k \in 1..Len(tokens) : tokens'[k] = tokens[k]
  BY <1>1, AppendProperties
<1>3. ASSUME NEW f \in Fields(str, delims), f[1] >= offset, f[1] <= e
      PROVE  f = <<offset, e>>
  <2>1. /\ f \in (0..Len(str)) \X (0..Len(str)) /\ f[1] <= f[2]
        /\ \A i \in (f[1] + 1)..f[2] : str[i] \notin delims
        /\ f[1] > 0 => str[f[1]] \in delims
        /\ f[2] < Len(str) => str[f[2] + 1] \in delims
    BY DEF Fields
  <2>2. ASSUME NEW i \in offset..(e - 1) PROVE str[i + 1] \notin delims
    <3>1. i \in offset..(Len(str) - 1) /\ i \in offset..e /\ i # e
      BY <1>1, <2>2
    <3>2. i \notin Hits(str, offset)
      BY <3>1
    <3> QED
      BY <3>1, <3>2 DEF Hits
  <2>3. f[1] = offset
    <3> SUFFICES ASSUME f[1] > offset PROVE FALSE
      BY <1>1, <1>3, <2>1
    <3>1. f[1] - 1 \in offset..(e - 1) /\ (f[1] - 1) + 1 = f[1] /\ f[1] > 0
      BY <1>1, <1>3, <2>1
    <3> QED
      BY <2>1, <2>2, <3>1
  <2>4. ~(f[2] < e)
    BY <1>1, <2>1, <2>2, <2>3
  <2>5. ~(f[2] > e)
    BY <1>1, <1>3, <2>1
  <2> QED
    BY <1>1, <2>1, <2>3, <2>4, <2>5
<1>4. tokens = <<>> => offset = 0
  BY DEF IInv, Aligned
<1>5. tokens # <<>> => offset = tokens[Len(tokens)].end + 1
  BY DEF IInv, Aligned
<1>6. ASSUME NEW f, IsToken(f) PROVE IsToken(f)'
  BY <1>1, <1>2, <1>6 DEF IsToken
<1>7. ASSUME NEW f \in Fields(str, delims), NEW n \in 1..Len(tokens'), f[1] <= tokens'[n].end
      PROVE  IsToken(f)'
  <2>0. f[1] \in Nat
    BY DEF Fields
  <2>1. CASE n \in 1..Len(tokens)
    <3>1. f[1] <= tokens[n].end
      BY <1>2, <1>7, <2>1
    <3> QED
      BY <1>6, <2>1, <3>1 DEF FieldsCut
  <2>2. CASE n = l /\ f[1] >= offset
    <3>1. f = <<offset, e>>
      BY <1>2, <1>3, <1>7, <2>2
    <3> QED
      BY <1>1, <1>2, <3>1 DEF IsToken
  <2>3. CASE n = l /\ f[1] < offset
    <3>1. tokens # <<>> /\ Len(tokens) \in 1..Len(tokens)
      BY <1>1, <1>4, <2>0, <2>3, EmptySeq
    <3>2. tokens[Len(tokens)] \in [first : Nat, end : Nat]
      BY <1>1, <3>1, ElementOfSeq
    <3>3. f[1] <= tokens[Len(tokens)].end
      BY <1>5, <2>0, <2>3, <3>1, <3>2
    <3> QED
      BY <1>6, <3>1, <3>3 DEF FieldsCut
  <2> QED
    BY <1>1, <1>2, <2>0, <2>1, <2>2, <2>3
<1>8. Fields(str, delims)' = Fields(str, delims)
  BY DEF Fields
<1> QED
  BY <1>7, <1>8 DEF FieldsCut, IsToken

\* The call goes on past the tokens that are not negative and ends at the first
\* one that is.
StopsAtNegative ==
  /\ outcome # "range_error" => \A k \in 1..Len(tokens) : atoi(Piece(tokens[k])) >= 0
  /\ outcome = "range_error" => \E k \in 1..Len(tokens) : atoi(Piece(tokens[k])) < 0
  /\ outcome = "returned" => ~has_next

LEMMA StopsAtNegativeStep ==
  ASSUME IInv, CallOK, StopsAtNegative, FieldsCut, [CalcNext]_calcVars
  PROVE  StopsAtNegative' /\ FieldsCut'
<1>1. CASE UNCHANGED calcVars
  BY <1>1 DEF StopsAtNegative, FieldsCut, IsToken, Fields, Piece, calcVars, callVars, vars
<1>2. CASE /\ Return /\ ~has_next /\ outcome' = "returned"
           /\ UNCHANGED <<str, delims, tokens, has_next, sum>>
  <2>1. outcome # "range_error"
    BY <1>2 DEF Return
  <2> QED
    BY <1>2, <2>1 DEF StopsAtNegative, FieldsCut, IsToken, Fields, Piece
<1>3. ASSUME NEW e \in offset..Len(str), outcome = "running", NextToken,
             tokens' = Append(tokens, [first |-> offset, end |-> e]),
             Hits(str, offset) \cap (offset..e) \subseteq {e},
             e < Len(str) => str[e + 1] \in delims,
             str' = str, delims' = delims,
             \/ /\ atoi(Piece([first |-> offset, end |-> e])) < 0
                /\ outcome' = "range_error"
             \/ /\ atoi(Piece([first |-> offset, end |-> e])) >= 0
                /\ outcome' = outcome
      PROVE  StopsAtNegative' /\ FieldsCut'
  <2>0. PICK t, l : t = [first |-> offset, end |-> e] /\ l = Len(tokens) + 1
    OBVIOUS
  <2>1. /\ tokens \in Seq([first : Nat, end : Nat]) /\ Len(tokens) \in Nat
        /\ t \in [first : Nat, end : Nat]
    BY <2>0, TokeniserAssumption, LenProperties DEF IInv, TypeOK
  <2>2. /\ Len(tokens') = l /\ tokens'[l] = t
        /\ \A k \in 1..Len(tokens) : tokens'[k] = tokens[k]
    BY <1>3, <2>0, <2>1, AppendProperties
  <2>3. \A k \in 1..Len(tokens) : atoi(Piece(tokens[k])) >= 0
    BY <1>3 DEF StopsAtNegative
  <2>4. Piece(tokens[l])' = Piece(t) /\ \A k \in 1..Len(tokens) : Piece(tokens[k])' = Piece(tokens[k])
    BY <1>3, <2>2 DEF Piece
  <2>5. StopsAtNegative'
    <3>1. ASSUME outcome' = "range_error" PROVE \E k \in 1..l : atoi(Piece(tokens[k]))' < 0
      <4>1. atoi(Piece(t)) < 0 /\ l \in 1..l
        BY <1>3, <2>0, <2>1, <3>1
      <4>2. atoi(Piece(tokens[l]))' = atoi(Piece(t))
        BY <2>4
      <4> QED
        BY <4>1, <4>2
    <3>2. ASSUME outcome' # "range_error", NEW k \in 1..l PROVE atoi(Piece(tokens[k]))' >= 0
      <4>1. atoi(Piece(t)) >= 0
        BY <1>3, <2>0, <3>2
      <4>2. CASE k = l
        <5>1. atoi(Piece(tokens[k]))' = atoi(Piece(t))
          BY <2>4, <4>2
        <5> QED
          BY <4>1, <5>1
      <4>3. CASE k \in 1..Len(tokens)
        <5>1. atoi(Piece(tokens[k]))' = atoi(Piece(tokens[k]))
          BY <2>4, <4>3
        <5> QED
          BY <2>3, <4>3, <5>1
      <4> QED
        BY <2>0, <2>1, <4>2, <4>3
    <3>3. outcome' # "returned"
      BY <1>3
    <3> QED
      BY <2>2, <3>1, <3>2, <3>3 DEF StopsAtNegative
  <2>6. FieldsCut'
    BY <1>3, FieldsCutStep DEF NextToken
  <2> QED
    BY <2>5, <2>6
<1> QED
  BY <1>1, <1>2, <1>3, CallStep

\* As long as its numbers fit an int, Add() throws exactly when one is negative,
\* for any text and any delimiters.
THEOREM RefusesNegativesAlways == CalcSpec => []RefusesNegatives
<1>1. CalcInit => StopsAtNegative /\ FieldsCut
  <2> SUFFICES ASSUME CalcInit PROVE StopsAtNegative /\ FieldsCut
    OBVIOUS
  <2>1. Len(tokens) = 0 /\ outcome = "running"
    BY DEF CalcInit, Constructed
  <2>2. \A k : k \notin 1..Len(tokens)
    BY <2>1
  <2> QED
    BY <2>1, <2>2 DEF StopsAtNegative, FieldsCut
<1>2. IInv /\ CallOK /\ StopsAtNegative /\ FieldsCut /\ [CalcNext]_calcVars
        => (StopsAtNegative /\ FieldsCut)'
  BY StopsAtNegativeStep
<1>3. IInv /\ CallOK /\ StopsAtNegative /\ FieldsCut => RefusesNegatives
  <2> SUFFICES ASSUME IInv, CallOK, StopsAtNegative, FieldsCut, Fits(str, delims),
                      outcome # "running"
               PROVE  outcome = "range_error" <=>
                        \E f \in Fields(str, delims) : Written(str, f) < 0
    BY DEF RefusesNegatives
  <2>1. ASSUME NEW k \in 1..Len(tokens)
        PROVE  LET f == <<tokens[k].first, tokens[k].end>> IN
               f \in Fields(str, delims) /\ atoi(Piece(tokens[k])) = Written(str, f)
    <3> DEFINE f == <<tokens[k].first, tokens[k].end>>
    <3>1. f \in Fields(str, delims)
      BY TokenIsField
    <3>2. Written(str, f) \in Ints
      BY <3>1 DEF Fits
    <3>3. Written(str, f) = Number(Piece(tokens[k]))
      BY DEF Written, Piece
    <3>4. atoi(Piece(tokens[k])) = Number(Piece(tokens[k]))
      BY <3>2, <3>3, AtoiIsNumber
    <3> QED
      BY <3>1, <3>3, <3>4
  <2>2. CASE outcome = "range_error"
    BY <2>1, <2>2 DEF StopsAtNegative
  <2>3. CASE outcome = "returned"
    <3>1. tokens # <<>> /\ tokens[Len(tokens)].end = Len(str)
      BY <2>3 DEF StopsAtNegative, IInv, NothingLeft
    <3>2. Len(tokens) \in 1..Len(tokens)
      BY <3>1, EmptySeq, LenProperties DEF IInv, TypeOK
    <3>3. ASSUME NEW f \in Fields(str, delims) PROVE ~(Written(str, f) < 0)
      <4>1. f[1] <= Len(str)
        BY DEF Fields
      <4>2. PICK k \in 1..Len(tokens) : f = <<tokens[k].first, tokens[k].end>>
        BY <3>1, <3>2, <4>1 DEF FieldsCut, IsToken
      <4>3. Written(str, f) >= 0
        BY <2>1, <2>3, <4>2 DEF StopsAtNegative
      <4>4. Written(str, f) \in Int
        BY AtoiAssumption DEF Fits, Ints
      <4> QED
        BY <4>3, <4>4
    <3> QED
      BY <2>3, <3>3
  <2> QED
    BY <2>2, <2>3 DEF CallOK
<1>4. CalcTypeOK => CallOK
  BY DEF CalcTypeOK, CallOK
<1> QED
  BY <1>1, <1>2, <1>3, <1>4, AddIsCaller, Inductive, CalcTypeCorrect, PTL DEF CalcSpec

-----------------------------------------------------------------------------
(* What is to be added up, told without a fold.                            *)

\* What each field of s is worth.
Worths(s, D) ==
  [f \in Fields(s, D) |-> IF Written(s, f) > MaxNumber THEN 0 ELSE Written(s, f)]

\* There are only so many.
LEMMA FieldsAreFinite ==
  ASSUME NEW s, Len(s) \in Nat, NEW D
  PROVE  IsFiniteSet(Fields(s, D)) /\ Cardinality(Fields(s, D)) \in Nat
<1> DEFINE I == 0..Len(s)
<1>1. IsFiniteSet(I)
  BY FS_Interval
<1>2. IsFiniteSet(I \X I)
  <2> HIDE DEF I
  <2> QED
    BY <1>1, FS_Product
<1>3. Fields(s, D) \in SUBSET (I \X I)
  BY DEF Fields
<1> QED
  BY <1>2, <1>3, FS_Subset, FS_CardinalityType

\* In a field stands a number.
LEMMA WorthsAreInts ==
  ASSUME NEW s \in Seq(Chars), NEW D
  PROVE  /\ \A f \in Fields(s, D) : Written(s, f) \in Int
         /\ Worths(s, D) \in [Fields(s, D) -> Int]
<1>1. ASSUME NEW f \in Fields(s, D) PROVE Written(s, f) \in Int
  <2>1. f[1] \in Nat /\ f[2] \in Nat /\ f[2] <= Len(s) /\ Len(s) \in Nat
    BY LenProperties DEF Fields
  <2>2. \A i \in (f[1] + 1)..f[2] : s[i] \in Chars
    BY <2>1, ElementOfSeq
  <2>3. SubSeq(s, f[1] + 1, f[2]) \in Seq(Chars)
    <3>1. f[1] + 1 \in Int /\ f[2] \in Int
      BY <2>1
    <3> QED
      BY <2>2, <3>1, SubSeqProperties
  <2> QED
    BY <2>3, NumberIsInt DEF Written
<1> QED
  BY <1>1 DEF Worths

\* Total() is the sum of what the fields are worth, in whatever order.
LEMMA TotalAddsUp ==
  ASSUME NEW s \in Seq(Chars), NEW D
  PROVE  \E it : AddsUp(it, Fields(s, D), Worths(s, D)) /\ Total(s, D) = it[Fields(s, D)]
<1> DEFINE S == Fields(s, D)
           g == Worths(s, D)
           worth(f) == IF Written(s, f) > MaxNumber THEN 0 ELSE Written(s, f)
           P(it) == it = [T \in SUBSET S |->
                      IF T = {} THEN 0 ELSE LET x == CHOOSE x \in T : TRUE IN worth(x) + it[T \ {x}]]
<1>1. Total(s, D) = (CHOOSE it : P(it))[S]
  BY Zenon DEF Total, MapThenSumSet, MapThenFoldSet
<1>2. IsFiniteSet(S) /\ g \in [S -> Int]
  BY FieldsAreFinite, WorthsAreInts, LenProperties
<1>3. \A f \in S : g[f] = worth(f)
  BY DEF Worths
<1>4. ASSUME NEW it PROVE P(it) <=> Adding(it, S, g)
  <2> HIDE DEF S, g, worth
  <2> DEFINE One(T) == IF T = {} THEN 0 ELSE LET x == CHOOSE x \in T : TRUE IN worth(x) + it[T \ {x}]
             Two(T) == IF T = {} THEN 0 ELSE LET x == CHOOSE x \in T : TRUE IN g[x] + it[T \ {x}]
  <2>1. ASSUME NEW T \in SUBSET S PROVE One(T) = Two(T)
    <3>1. CASE T = {}
      BY <3>1
    <3>2. CASE T # {}
      <4>1. (CHOOSE x \in T : TRUE) \in T
        BY <3>2
      <4>2. g[CHOOSE x \in T : TRUE] = worth(CHOOSE x \in T : TRUE)
        BY <1>3, <4>1
      <4> QED
        BY <3>2, <4>2
    <3> QED
      BY <3>1, <3>2
  <2>2. [T \in SUBSET S |-> One(T)] = [T \in SUBSET S |-> Two(T)]
    <3> HIDE DEF One, Two
    <3> QED
      BY <2>1
  <2> QED
    BY <2>2, Zenon DEF Adding
<1>5. \E it : P(it)
  <2> HIDE DEF P, S, g
  <2> QED
    BY <1>2, <1>4, AddingExists
<1>6. PICK jt : P(jt) /\ jt = CHOOSE it : P(it)
  <2> HIDE DEF P
  <2> QED
    BY <1>5, Zenon
<1>7. AddsUp(jt, S, g)
  <2> HIDE DEF P, S, g
  <2> QED
    BY <1>2, <1>4, <1>6, AddingAddsUp
<1> QED
  BY <1>1, <1>6, <1>7

\* The fields that have their token.
CutFields == {<<tokens[k].first, tokens[k].end>> : k \in 1..Len(tokens)}

\* They are fields, by TokenIsField.
LEMMA TokensAreFields == IInv => CutFields \in SUBSET Fields(str, delims)
BY TokenIsField DEF CutFields

\* None of them is negative or beyond the limit ...
NoneNegative == \A f \in CutFields : Worths(str, delims)[f] \in 0..MaxNumber

\* ... in a call that has not ended with a negative number.
LEMMA CutFieldsCount ==
  IInv /\ StopsAtNegative /\ Fits(str, delims) /\ outcome # "range_error" => NoneNegative
<1> SUFFICES ASSUME IInv, StopsAtNegative, Fits(str, delims), outcome # "range_error",
                    NEW k \in 1..Len(tokens)
             PROVE  Worths(str, delims)[<<tokens[k].first, tokens[k].end>>] \in 0..MaxNumber
  BY DEF CutFields, NoneNegative
<1> DEFINE f == <<tokens[k].first, tokens[k].end>>
<1>1. f \in Fields(str, delims)
  BY TokenIsField
<1>2. Written(str, f) \in Ints /\ Written(str, f) = Number(Piece(tokens[k]))
  BY <1>1 DEF Fits, Written, Piece
<1>3. atoi(Piece(tokens[k])) = Written(str, f)
  BY <1>2, AtoiIsNumber
<1>4. Written(str, f) >= 0
  BY <1>3 DEF StopsAtNegative
<1>5. Written(str, f) \in Int /\ MaxNumber \in Nat
  BY <1>2, AtoiAssumption, SliceAssumption DEF Ints
<1> HIDE DEF f
<1>6. Worths(str, delims)[f] = IF Written(str, f) > MaxNumber THEN 0 ELSE Written(str, f)
  BY <1>1 DEF Worths
<1> QED
  BY <1>4, <1>5, <1>6 DEF f

\* The sum is that of the fields that have their token, and no token was cut from
\* where the next one will be.
SumSoFar ==
  /\ Fits(str, delims) /\ outcome # "range_error" =>
       \A it : AddsUp(it, Fields(str, delims), Worths(str, delims)) => sum = it[CutFields]
  /\ has_next => \A k \in 1..Len(tokens) : tokens[k].first < offset

\* Each token adds what its field is worth: nothing wraps around.
LEMMA SumSoFarStep ==
  ASSUME IInv, IInv', CallOK, StopsAtNegative, StopsAtNegative', SumSoFar,
         [CalcNext]_calcVars
  PROVE  SumSoFar'
<1>1. CASE UNCHANGED calcVars
  BY <1>1 DEF SumSoFar, CutFields, Worths, Fits, Fields, calcVars, callVars, vars
<1>2. CASE /\ Return /\ ~has_next /\ outcome' = "returned"
           /\ UNCHANGED <<str, delims, tokens, has_next, sum>>
  <2>1. outcome # "range_error"
    BY <1>2 DEF Return
  <2> QED
    BY <1>2, <2>1 DEF SumSoFar, CutFields, Worths, Fits, Fields
<1>3. ASSUME NEW e \in offset..Len(str), outcome = "running", NextToken,
             tokens' = Append(tokens, [first |-> offset, end |-> e]),
             str' = str, delims' = delims,
             \/ outcome' = "range_error"
             \/ /\ atoi(Piece([first |-> offset, end |-> e])) >= 0
                /\ sum' = Wrapped(sum + Counted(atoi(Piece([first |-> offset, end |-> e]))))
      PROVE  SumSoFar'
  <2>0. PICK t, l, f : /\ t = [first |-> offset, end |-> e] /\ l = Len(tokens) + 1
                       /\ f = <<offset, e>>
    OBVIOUS
  <2>1. /\ tokens \in Seq([first : Nat, end : Nat]) /\ Len(tokens) \in Nat
        /\ t \in [first : Nat, end : Nat] /\ Len(str) \in Nat /\ offset \in Nat /\ e \in Nat
        /\ str \in Seq(Chars)
    BY <2>0, TokeniserAssumption, LenProperties DEF IInv, TypeOK
  <2>2. /\ Len(tokens') = l /\ tokens'[l] = t
        /\ \A k \in 1..Len(tokens) : tokens'[k] = tokens[k]
    BY <1>3, <2>0, <2>1, AppendProperties
  <2>3. \A k \in 1..Len(tokens) : tokens[k].first < offset
    BY <1>3 DEF SumSoFar, NextToken
  <2>4. has_next' => \A k \in 1..l : tokens'[k].first < offset'
    <3> SUFFICES ASSUME has_next', NEW k \in 1..l PROVE tokens'[k].first < offset'
      OBVIOUS
    <3>0. has_next'
      OBVIOUS
    <3>1. tokens' # <<>> /\ offset' = tokens'[Len(tokens')].end + 1
      <4>1. tokens' # <<>>
        BY <2>0, <2>1, <2>2
      <4>2. Aligned'
        BY DEF IInv
      <4> QED
        BY <3>0, <4>1, <4>2 DEF Aligned
    <3>2. offset' = e + 1 /\ offset < e + 1
      BY <2>0, <2>1, <2>2, <3>1
    <3>3. CASE k = l
      BY <2>0, <2>2, <3>2, <3>3
    <3>4. CASE k \in 1..Len(tokens)
      <4>1. tokens[k].first \in Nat /\ tokens[k].first < offset
        <5>1. tokens[k] \in [first : Nat, end : Nat]
          BY <2>1, <3>4, ElementOfSeq
        <5> QED
          BY <2>3, <3>4, <5>1
      <4> QED
        BY <2>1, <2>2, <3>2, <3>4, <4>1
    <3> QED
      BY <2>0, <2>1, <3>3, <3>4
  <2>5. CutFields' = CutFields \cup {f} /\ f \notin CutFields
    <3>1. tokens'[l].first = offset /\ tokens'[l].end = e
      BY <2>0, <2>2
    <3>2. 1..l = (1..Len(tokens)) \cup {l}
      BY <2>0, <2>1
    <3>3. CutFields' = CutFields \cup {f}
      BY <2>0, <2>2, <3>1, <3>2 DEF CutFields
    <3>4. f \notin CutFields
      <4> SUFFICES ASSUME NEW k \in 1..Len(tokens), f = <<tokens[k].first, tokens[k].end>>
                   PROVE  FALSE
        BY DEF CutFields
      <4>1. offset < offset
        BY <2>0, <2>3
      <4> QED
        BY <2>1, <4>1
    <3> QED
      BY <3>3, <3>4
  <2> DEFINE S == Fields(str, delims)
             g == Worths(str, delims)
  <2>6. /\ Fields(str, delims)' = S /\ Worths(str, delims)' = g
        /\ Fits(str, delims)' = Fits(str, delims)
    BY <1>3 DEF Fields, Worths, Fits
  <2>7. ASSUME Fits(str, delims), outcome' # "range_error", NEW it, AddsUp(it, S, g)
        PROVE  sum' = it[CutFields']
    <3>1. CutFields' \in SUBSET S
      <4>1. (IInv => CutFields \in SUBSET Fields(str, delims))'
        BY TokensAreFields, PTL
      <4> QED
        BY <2>6, <4>1
    <3>2. \A x \in CutFields' : g[x] \in 0..MaxNumber
      <4>1. (IInv /\ StopsAtNegative /\ Fits(str, delims) /\ outcome # "range_error" =>
               NoneNegative)'
        BY CutFieldsCount, PTL
      <4> QED
        BY <2>6, <2>7, <4>1 DEF NoneNegative
    <3>3. sum = it[CutFields]
      BY <1>3, <2>7 DEF SumSoFar
    <3>4. it[CutFields'] = g[f] + it[CutFields]
      <4>1. f \in CutFields' /\ CutFields' \ {f} = CutFields
        BY <2>5
      <4> QED
        BY <2>7, <3>1, <4>1 DEF AddsUp
    <3>5. Counted(atoi(Piece(t))) = g[f]
      <4>1. f \in S
        BY <2>5, <3>1
      <4>2. Written(str, f) \in Ints /\ Written(str, f) = Number(Piece(t))
        BY <2>0, <2>7, <4>1 DEF Fits, Written, Piece
      <4>3. atoi(Piece(t)) = Written(str, f)
        BY <4>2, AtoiIsNumber
      <4> QED
        BY <4>1, <4>3 DEF Counted, Worths
    <3>6. sum' = Wrapped(it[CutFields'])
      <4>1. g[f] \in Int /\ it[CutFields] \in Int
        <5>1. f \in S /\ CutFields \in SUBSET S
          BY <2>5, <3>1
        <5> QED
          BY <2>1, <2>7, <5>1, WorthsAreInts DEF AddsUp
      <4>2. sum' = Wrapped(sum + Counted(atoi(Piece(t))))
        BY <1>3, <2>0, <2>7
      <4>3. sum + g[f] = it[CutFields']
        BY <3>3, <3>4, <4>1
      <4> QED
        BY <3>5, <4>2, <4>3
    <3>7. it[CutFields'] \in Ints
      <4>1. /\ IsFiniteSet(S) /\ Cardinality(S) \in Nat /\ MaxNumber \in Nat /\ IntMax \in Nat
            /\ MaxNumber * Cardinality(S) <= IntMax
        BY <2>1, <2>7, FieldsAreFinite, AtoiAssumption, SliceAssumption DEF Fits
      <4> DEFINE T == CutFields'
      <4> HIDE DEF T, S, g
      <4>2. T \in SUBSET S /\ \A x \in T : g[x] \in 0..MaxNumber
        BY <3>1, <3>2 DEF T
      <4>3. Cardinality(T) \in Nat /\ it[T] \in 0..(MaxNumber * Cardinality(T))
        BY <2>7, <4>1, <4>2, SumWithin
      <4>4. Cardinality(T) <= Cardinality(S)
        BY <4>1, <4>2, FS_Subset
      <4>5. MaxNumber * Cardinality(T) <= MaxNumber * Cardinality(S)
        BY <4>1, <4>3, <4>4, SMT
      <4> QED
        BY <4>1, <4>3, <4>5 DEF T, Ints
    <3> QED
      <4>1. it[CutFields'] \in Int
        BY <3>7, AtoiAssumption DEF Ints
      <4> QED
        BY <3>6, <3>7, <4>1, WrappedIsInt
  <2> HIDE DEF S, g
  <2> QED
    BY <2>2, <2>4, <2>6, <2>7 DEF SumSoFar
<1> QED
  BY <1>1, <1>2, <1>3, CallStep

\* As long as the numbers fit an int, Add() returns their sum: every number that
\* stands between two delimiters or an end of the text is added once, for any
\* text and any delimiters.
THEOREM SumIsExactAlways == CalcSpec => []SumIsExact
<1>1. CalcInit => StopsAtNegative /\ FieldsCut /\ SumSoFar
  <2> SUFFICES ASSUME CalcInit PROVE StopsAtNegative /\ FieldsCut /\ SumSoFar
    OBVIOUS
  <2>1. Len(tokens) = 0 /\ outcome = "running" /\ sum = 0
    BY DEF CalcInit, Constructed
  <2>2. \A k : k \notin 1..Len(tokens)
    BY <2>1
  <2>3. CutFields = {}
    BY <2>2 DEF CutFields
  <2>4. \A it : AddsUp(it, Fields(str, delims), Worths(str, delims)) => it[{}] = 0
    BY DEF AddsUp
  <2> QED
    BY <2>1, <2>2, <2>3, <2>4 DEF StopsAtNegative, FieldsCut, SumSoFar
<1>2. IInv /\ IInv' /\ CallOK /\ StopsAtNegative /\ FieldsCut /\ SumSoFar /\ [CalcNext]_calcVars
        => StopsAtNegative' /\ FieldsCut'
  BY StopsAtNegativeStep
<1>3. IInv /\ IInv' /\ CallOK /\ StopsAtNegative /\ StopsAtNegative' /\ SumSoFar
        /\ [CalcNext]_calcVars => SumSoFar'
  BY SumSoFarStep
<1>4. IInv /\ StopsAtNegative /\ FieldsCut /\ SumSoFar => SumIsExact
  <2> SUFFICES ASSUME IInv, StopsAtNegative, FieldsCut, SumSoFar,
                      outcome = "returned", Fits(str, delims)
               PROVE  sum = Total(str, delims)
    BY DEF SumIsExact
  <2>1. CutFields = Fields(str, delims)
    <3>1. tokens # <<>> /\ tokens[Len(tokens)].end = Len(str)
      BY DEF StopsAtNegative, IInv, NothingLeft
    <3>2. Len(tokens) \in 1..Len(tokens)
      BY <3>1, EmptySeq, LenProperties DEF IInv, TypeOK
    <3>3. ASSUME NEW f \in Fields(str, delims) PROVE f \in CutFields
      <4>1. f[1] <= Len(str)
        BY DEF Fields
      <4> QED
        BY <3>1, <3>2, <4>1 DEF FieldsCut, IsToken, CutFields
    <3> QED
      BY <3>3, TokensAreFields
  <2>2. str \in Seq(Chars)
    BY TokeniserAssumption DEF IInv, TypeOK
  <2>3. PICK it : /\ AddsUp(it, Fields(str, delims), Worths(str, delims))
                  /\ Total(str, delims) = it[Fields(str, delims)]
    BY <2>2, TotalAddsUp
  <2>4. sum = it[CutFields]
    BY <2>3 DEF SumSoFar
  <2> QED
    BY <2>1, <2>3, <2>4
<1>5. CalcTypeOK => CallOK
  BY DEF CalcTypeOK, CallOK
<1> QED
  BY <1>1, <1>2, <1>3, <1>4, <1>5, AddIsCaller, Inductive, CalcTypeCorrect, PTL DEF CalcSpec

-----------------------------------------------------------------------------
(* A delimiter of one's own.                                               *)

\* A string is told from one with a header by its first two characters.
LEMMA TwoSlashes ==
  ASSUME NEW s \in Seq(Chars), Len(s) >= 2
  PROVE  SubSeq(s, 1, 2) = <<"/", "/">> <=> s[1] = "/" /\ s[2] = "/"
<1> DEFINE p == <<"/", "/">>
<1>1. \A i \in 1..2 : s[i] \in Chars
  BY ElementOfSeq, LenProperties
<1>2. /\ SubSeq(s, 1, 2) \in Seq(Chars) /\ Len(SubSeq(s, 1, 2)) = 2
      /\ SubSeq(s, 1, 2)[1] = s[1] /\ SubSeq(s, 1, 2)[2] = s[2]
  <2>1. /\ SubSeq(s, 1, 2) \in Seq(Chars) /\ Len(SubSeq(s, 1, 2)) = 2
        /\ \A i \in 1..(2 - 1 + 1) : SubSeq(s, 1, 2)[i] = s[1 + i - 1]
    BY <1>1, SubSeqProperties
  <2> QED
    BY <2>1
<1>3. Len(p) = 2 /\ p[1] = "/" /\ p[2] = "/"
  OBVIOUS
<1>4. ASSUME s[1] = "/", s[2] = "/" PROVE SubSeq(s, 1, 2) = p
  <2>1. p \in Seq(Chars)
    BY <1>1, <1>4
  <2> HIDE DEF p
  <2>2. \A i \in 1..Len(SubSeq(s, 1, 2)) : SubSeq(s, 1, 2)[i] = p[i]
    <3>1. \A i \in 1..2 : i = 1 \/ i = 2
      OBVIOUS
    <3> QED
      BY <1>2, <1>3, <1>4, <3>1
  <2> QED
    BY <1>2, <1>3, <2>1, <2>2, SeqEqual
<1> HIDE DEF p
<1>5. ASSUME SubSeq(s, 1, 2) = p PROVE s[1] = "/" /\ s[2] = "/"
  BY <1>2, <1>3, <1>5
<1> QED
  BY <1>4, <1>5 DEF p

\* What Slice() makes of a string whose header ends at n.
LEMMA SliceOfHeader ==
  ASSUME NEW s \in Seq(Chars), NEW n \in 3..Len(s), EndsHeader(s, n)
  PROVE  /\ Slice(s).data = SubSeq(s, n + 1, Len(s))
         /\ Slice(s).delims = StandardDelims \cup {s[i] : i \in 3..(n - 1)}
<1>1. Len(s) \in Nat /\ n \in 1..Len(s) /\ Len(s) >= 2
  BY LenProperties
<1>2. s[1] = "/" /\ s[2] = "/" /\ s[n] = Newline
  BY DEF EndsHeader
<1>3. HasHeader(s)
  BY <1>1, <1>2, TwoSlashes DEF HasHeader, Contains
<1>4. HeaderLength(s) = n
  <2> DEFINE I == {i \in 1..Len(s) : s[i] = Newline}
  <2>1. n \in I /\ \A j \in I : n <= j
    <3>1. Newline # "/"
      BY DEF Newline
    <3>2. \A j \in 1..(n - 1) : s[j] # Newline
      <4>1. \A j \in 1..(n - 1) : j = 1 \/ j = 2 \/ j \in 3..(n - 1)
        OBVIOUS
      <4> QED
        BY <1>2, <3>1, <4>1 DEF EndsHeader
    <3> QED
      BY <1>1, <1>2, <3>2
  <2>2. I \in SUBSET Nat
    BY <1>1
  <2>3. HeaderLength(s) = IF I # {} THEN Min(I) ELSE 0
    BY Zenon DEF HeaderLength, SelectInSeq
  <2> HIDE DEF I
  <2>4. Min(I) = n
    <3>1. \A x \in I : (\A y \in I : x <= y) => x = n
      BY <2>1, <2>2
    <3> QED
      BY <2>1, <3>1 DEF Min
  <2> QED
    BY <2>1, <2>3, <2>4
<1> QED
  BY <1>3, <1>4 DEF Slice

\* What Slice() makes of any other string.
LEMMA SliceOfData ==
  ASSUME NEW s \in Seq(Chars), \A n \in 3..Len(s) : ~EndsHeader(s, n)
  PROVE  Slice(s).data = s /\ Slice(s).delims = StandardDelims
<1>1. ASSUME HasHeader(s) PROVE FALSE
  <2> DEFINE I == {i \in 1..Len(s) : s[i] = Newline}
  <2>1. Len(s) \in Nat /\ Len(s) >= 2
    BY <1>1, LenProperties DEF HasHeader
  <2>2. s[1] = "/" /\ s[2] = "/" /\ Newline # "/"
    BY <1>1, <2>1, TwoSlashes DEF HasHeader, Newline
  <2>3. I \in SUBSET Nat /\ I # {}
    BY <1>1, <2>1 DEF HasHeader, Contains
  <2>4. PICK n \in I : \A j \in I : n <= j
    BY <2>3, SmallestIsMember
  <2>5. n \in 3..Len(s) /\ s[n] = Newline
    BY <2>1, <2>2, <2>4
  <2>6. \A i \in 3..(n - 1) : s[i] # Newline
    BY <2>1, <2>4, <2>5
  <2> QED
    BY <2>2, <2>5, <2>6 DEF EndsHeader
<1> QED
  BY <1>1 DEF Slice

\* r has the fields that s has, and the same numbers in them.
SameNumbers(r, D, s, E) ==
  Fields(r, D) = Fields(s, E) /\ \A f \in Fields(r, D) : Written(r, f) = Written(s, f)

\* Delimiters may as well be written as another one: the fields are the same,
\* and so is what is written in them.
LEMMA SameFields ==
  ASSUME NEW s \in Seq(Chars), NEW X \in SUBSET Chars, NEW D, NEW c \in D, c \in Chars
  PROVE  LET r == Replaced(s, X, c) IN
         r \in Seq(Chars) /\ SameNumbers(r, D, s, D \cup X)
<1> DEFINE r == Replaced(s, X, c)
<1>1. Len(s) \in Nat /\ \A i \in 1..Len(s) : s[i] \in Chars
  BY LenProperties, ElementOfSeq
<1>2. r \in Seq(Chars) /\ Len(r) = Len(s)
      /\ \A i \in 1..Len(s) : r[i] = IF s[i] \in X THEN c ELSE s[i]
  <2>1. r = [i \in 1..Len(s) |-> IF s[i] \in X THEN c ELSE s[i]]
    BY LenProperties DEF Replaced
  <2> HIDE DEF r
  <2>2. r \in [1..Len(s) -> Chars] /\ DOMAIN r = 1..Len(s)
        /\ \A i \in 1..Len(s) : r[i] = IF s[i] \in X THEN c ELSE s[i]
    BY <1>1, <2>1
  <2>3. r \in Seq(Chars)
    BY <1>1, <2>2, SeqDef
  <2>4. Len(r) \in Nat /\ 1..Len(r) = 1..Len(s)
    BY <2>2, <2>3, LenProperties
  <2>5. Len(r) = Len(s)
    <3> SUFFICES ASSUME Len(r) # Len(s) PROVE FALSE
      OBVIOUS
    <3>1. CASE Len(r) < Len(s)
      <4>1. Len(s) \in 1..Len(s) /\ Len(s) \notin 1..Len(r)
        BY <1>1, <2>4, <3>1
      <4> QED
        BY <2>4, <4>1
    <3>2. CASE Len(s) < Len(r)
      <4>1. Len(r) \in 1..Len(r) /\ Len(r) \notin 1..Len(s)
        BY <1>1, <2>4, <3>2
      <4> QED
        BY <2>4, <4>1
    <3> QED
      BY <1>1, <2>4, <3>1, <3>2
  <2> QED
    BY <2>2, <2>3, <2>5
<1> HIDE DEF r
<1>3. \A i \in 1..Len(s) : r[i] \in D <=> s[i] \in D \cup X
  BY <1>2
<1>4. Fields(r, D) = Fields(s, D \cup X)
  <2> DEFINE Field(u, E, f) ==
        /\ f[1] <= f[2]
        /\ \A i \in (f[1] + 1)..f[2] : u[i] \notin E
        /\ f[1] > 0 => u[f[1]] \in E
        /\ f[2] < Len(s) => u[f[2] + 1] \in E
  <2>1. ASSUME NEW f \in (0..Len(s)) \X (0..Len(s))
        PROVE  Field(r, D, f) <=> Field(s, D \cup X, f)
    <3>1. PICK a, b \in 0..Len(s) : a = f[1] /\ b = f[2]
      OBVIOUS
    <3>2. /\ a > 0 => a \in 1..Len(s)
          /\ b < Len(s) => b + 1 \in 1..Len(s)
          /\ \A i \in (a + 1)..b : i \in 1..Len(s)
      BY <1>1
    <3> QED
      BY <1>3, <3>1, <3>2
  <2>2. /\ Fields(s, D \cup X)
             = {f \in (0..Len(s)) \X (0..Len(s)) : Field(s, D \cup X, f)}
        /\ Fields(r, D)
             = {f \in (0..Len(s)) \X (0..Len(s)) : Field(r, D, f)}
    BY <1>2 DEF Fields
  <2> HIDE DEF Field
  <2> QED
    BY <2>1, <2>2
<1>5. ASSUME NEW f \in Fields(r, D) PROVE Written(r, f) = Written(s, f)
  <2>1. PICK a, n : a = f[1] /\ n = f[2]
    OBVIOUS
  <2>2. /\ a \in Nat /\ n \in Nat /\ n <= Len(s)
        /\ \A i \in (a + 1)..n : s[i] \notin D \cup X
    <3>1. f \in (0..Len(s)) \X (0..Len(s)) /\ \A i \in (a + 1)..n : s[i] \notin D \cup X
      BY <1>4, <2>1 DEF Fields
    <3> QED
      BY <1>1, <2>1, <3>1
  <2>3. \A i \in (a + 1)..n : i \in 1..Len(s) /\ r[i] = s[i] /\ s[i] \in Chars
    <3>1. \A i \in (a + 1)..n : i \in 1..Len(s)
      BY <1>1, <2>2
    <3> QED
      BY <1>1, <1>2, <2>2, <3>1
  <2> DEFINE m == a + 1
  <2>4. m \in Int /\ n \in Int /\ \A i \in m..n : r[i] = s[i] /\ s[i] \in Chars /\ r[i] \in Chars
    BY <2>2, <2>3
  <2> HIDE DEF m
  <2>5. /\ SubSeq(s, m, n) \in Seq(Chars)
        /\ Len(SubSeq(s, m, n)) = IF m <= n THEN n - m + 1 ELSE 0
        /\ \A i \in 1..(n - m + 1) : SubSeq(s, m, n)[i] = s[m + i - 1]
    BY <2>4, SubSeqProperties
  <2>6. /\ SubSeq(r, m, n) \in Seq(Chars)
        /\ Len(SubSeq(r, m, n)) = IF m <= n THEN n - m + 1 ELSE 0
        /\ \A i \in 1..(n - m + 1) : SubSeq(r, m, n)[i] = r[m + i - 1]
    BY <2>4, SubSeqProperties
  <2>7. \A i \in 1..Len(SubSeq(s, m, n)) : SubSeq(s, m, n)[i] = SubSeq(r, m, n)[i]
    <3> SUFFICES ASSUME NEW i \in 1..Len(SubSeq(s, m, n))
                 PROVE  SubSeq(s, m, n)[i] = SubSeq(r, m, n)[i]
      OBVIOUS
    <3>1. i \in 1..(n - m + 1) /\ m + i - 1 \in m..n
      <4> DEFINE w == Len(SubSeq(s, m, n))
      <4>1. w = IF m <= n THEN n - m + 1 ELSE 0
        BY <2>5
      <4>2. i \in 1..w
        OBVIOUS
      <4> HIDE DEF w
      <4> QED
        BY <2>4, <4>1, <4>2
    <3> QED
      BY <2>4, <2>5, <2>6, <3>1
  <2>8. SubSeq(s, m, n) = SubSeq(r, m, n)
    <3>1. Len(SubSeq(s, m, n)) = Len(SubSeq(r, m, n))
      BY <2>5, <2>6
    <3> QED
      BY <2>5, <2>6, <2>7, <3>1, SeqEqual
  <2> QED
    BY <2>1, <2>8 DEF Written, m
<1> QED
  BY <1>2, <1>4, <1>5 DEF r, SameNumbers

\* Therefore the total is the same.
LEMMA SameTotal ==
  ASSUME NEW s \in Seq(Chars), NEW X \in SUBSET Chars, NEW D, NEW c \in D, c \in Chars
  PROVE  LET r == Replaced(s, X, c) IN
         Fits(r, D) => Fits(s, D \cup X) /\ Total(s, D \cup X) = Total(r, D)
<1> DEFINE r == Replaced(s, X, c)
           E == D \cup X
<1> SUFFICES ASSUME Fits(r, D) PROVE Fits(s, E) /\ Total(s, E) = Total(r, D)
  OBVIOUS
<1>1. /\ r \in Seq(Chars) /\ Fields(r, D) = Fields(s, E)
      /\ \A f \in Fields(r, D) : Written(r, f) = Written(s, f)
  <2>1. r \in Seq(Chars) /\ SameNumbers(r, D, s, E)
    BY SameFields
  <2> QED
    BY <2>1 DEF SameNumbers
<1> HIDE DEF r, E
<1>2. Fits(s, E)
  BY <1>1 DEF Fits
<1>3. Worths(s, E) = Worths(r, D)
  BY <1>1 DEF Worths
<1>4. PICK it : AddsUp(it, Fields(r, D), Worths(r, D)) /\ Total(r, D) = it[Fields(r, D)]
  BY <1>1, TotalAddsUp
<1>5. PICK jt : AddsUp(jt, Fields(r, D), Worths(r, D)) /\ Total(s, E) = jt[Fields(r, D)]
  <2>1. \E jt : AddsUp(jt, Fields(s, E), Worths(s, E)) /\ Total(s, E) = jt[Fields(s, E)]
    BY TotalAddsUp
  <2> QED
    BY <1>1, <1>3, <2>1
<1>6. IsFiniteSet(Fields(r, D))
  <2>1. Len(r) \in Nat
    BY <1>1, LenProperties
  <2> QED
    BY <2>1, FieldsAreFinite
<1>7. it[Fields(r, D)] = jt[Fields(r, D)]
  BY <1>4, <1>5, <1>6, OneSum
<1> QED
  BY <1>2, <1>4, <1>5, <1>7

\* Every character announced in the header is as good as a comma, however many
\* there are and whatever they are: a digit, a sign and the comma itself included;
\* and what has no header is data.
THEOREM CustomDelimiterAlways == CalcSpec => []CustomDelimiter
<1> DEFINE Sliced == str = Slice(input).data /\ delims = Slice(input).delims
<1>1. CalcInit => Sliced
  BY DEF CalcInit, Constructed
<1>2. Sliced /\ [CalcNext]_calcVars => Sliced'
  <2> SUFFICES ASSUME Sliced, [CalcNext]_calcVars PROVE Sliced'
    OBVIOUS
  <2>1. UNCHANGED <<input, str, delims>>
    BY DEF CalcNext, AddToken, NextToken, Return, calcVars, callVars, vars
  <2> QED
    BY <2>1
<1> HIDE DEF Sliced
<1>3. Sliced /\ CalcTypeOK /\ SumIsExact => CustomDelimiter
  <2> SUFFICES ASSUME Sliced, CalcTypeOK, SumIsExact, outcome = "returned"
               PROVE  CustomDelimiter
    BY DEF CustomDelimiter
  <2>1. input \in Seq(Chars)
    BY TokeniserAssumption DEF CalcTypeOK
  <2>2. str \in Seq(Chars) /\ delims \in SUBSET Chars
    BY TokeniserAssumption DEF CalcTypeOK, TypeOK
  <2>3. IsSumOf(input) \/ \E n \in 3..Len(input) : EndsHeader(input, n)
    <3> SUFFICES ASSUME \A n \in 3..Len(input) : ~EndsHeader(input, n) PROVE IsSumOf(input)
      OBVIOUS
    <3>1. str = input /\ delims = StandardDelims
      BY <2>1, SliceOfData DEF Sliced
    <3> QED
      BY <3>1 DEF IsSumOf, SumIsExact
  <2>4. ASSUME NEW n \in 3..Len(input), EndsHeader(input, n)
        PROVE  IsSumOf(Replaced(SubSeq(input, n + 1, Len(input)),
                                {input[i] : i \in 3..(n - 1)}, ","))
    <3> DEFINE X == {input[i] : i \in 3..(n - 1)}
               D == StandardDelims
    <3>1. str = SubSeq(input, n + 1, Len(input)) /\ delims = D \cup X
      BY <2>1, <2>4, SliceOfHeader DEF Sliced
    <3>2. PICK c : c = "," /\ c \in D
      BY Zenon DEF StandardDelims
    <3>3. X \in SUBSET Chars /\ c \in Chars /\ c \in D
      BY <2>2, <3>1, <3>2
    <3>4. Fits(str, delims) => sum = Total(str, delims)
      BY DEF SumIsExact
    <3> HIDE DEF X, D
    <3>5. Fits(Replaced(str, X, c), D) =>
            Fits(str, D \cup X) /\ Total(str, D \cup X) = Total(Replaced(str, X, c), D)
      BY <2>2, <3>3, SameTotal
    <3>6. IsSumOf(Replaced(str, X, c))
      BY <3>1, <3>4, <3>5 DEF IsSumOf, D
    <3> QED
      BY <3>1, <3>2, <3>6, Zenon DEF X
  <2> QED
    BY <2>3, <2>4, Zenon DEF CustomDelimiter
<1> QED
  BY <1>1, <1>2, <1>3, CalcTypeCorrect, SumIsExactAlways, PTL DEF CalcSpec
=============================================================================
