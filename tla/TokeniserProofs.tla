-------------------------- MODULE TokeniserProofs --------------------------
(***************************************************************************)
(* Proofs about Tokeniser, for every set of strings and of delimiters.     *)
(***************************************************************************)
EXTENDS Tokeniser, SequenceTheorems, WellFoundedInduction, TLAPS

\* A set of natural numbers that is not empty has a smallest element.
LEMMA SmallestIsMember ==
  ASSUME NEW H \in SUBSET Nat, H # {}
  PROVE  Smallest(H) \in H /\ \A j \in H : Smallest(H) <= j
<1>1. \E R : IsWellFoundedOn(R, Nat) /\ \A i, j \in Nat : j < i => <<j, i>> \in R
  <2>1. \A i, j \in Nat : j < i => <<j, i>> \in OpToRel(<, Nat)
    BY Zenon DEF OpToRel
  <2> QED
    BY <2>1, NatLessThanWellFounded, Zenon
<1>2. PICK R : IsWellFoundedOn(R, Nat) /\ \A i, j \in Nat : j < i => <<j, i>> \in R
  BY <1>1, Zenon
<1>3. \E i \in H : \A j \in H : <<j, i>> \notin R
  BY <1>2, WFMin
<1>4. PICK i \in H : \A j \in H : <<j, i>> \notin R
  BY <1>3
<1>5. ASSUME NEW j \in H PROVE i <= j
  <2>1. i \in Nat /\ j \in Nat
    OBVIOUS
  <2>2. ~(j < i)
    BY <1>2, <1>4, <2>1, Zenon
  <2> QED
    BY <2>1, <2>2
<1> QED
  BY <1>5 DEF Smallest

\* size_t arithmetic on the positions of a string: only npos + 1 wraps around.
LEMMA WrapFacts ==
  ASSUME NEW n \in 0..NPos
  PROVE  Wrap(n + 1) = IF n = NPos THEN 0 ELSE n + 1
<1>1. NPos \in Nat
  BY TokeniserAssumption
<1>2. CASE n = NPos
  BY <1>1, <1>2 DEF Wrap
<1>3. CASE n # NPos
  <2>1. n + 1 \in 0..NPos
    BY <1>1, <1>3
  <2> QED
    BY <1>1, <1>3, <2>1 DEF Wrap
<1> QED
  BY <1>2, <1>3

\* find_first_of() returns the first delimiter, or npos if there is none.
LEMMA FindFirstOfFacts ==
  ASSUME NEW s \in Strings, NEW from \in Nat
  PROVE  LET p == FindFirstOf(s, from) IN
         \/ p = NPos /\ Hits(s, from) = {}
         \/ /\ p \in from..(Len(s) - 1) /\ p < NPos /\ s[p + 1] \in delims
            /\ \A j \in Hits(s, from) : p <= j
<1>1. CASE Hits(s, from) = {}
  BY <1>1 DEF FindFirstOf
<1>2. CASE Hits(s, from) # {}
  <2>1. Len(s) \in Nat /\ Len(s) < NPos
    BY TokeniserAssumption, LenProperties
  <2>2. Hits(s, from) \in SUBSET Nat
    BY <2>1 DEF Hits
  <2>3. /\ FindFirstOf(s, from) \in Hits(s, from)
        /\ \A j \in Hits(s, from) : FindFirstOf(s, from) <= j
    BY <1>2, <2>2, SmallestIsMember DEF FindFirstOf
  <2> QED
    BY <2>1, <2>3, TokeniserAssumption DEF Hits
<1> QED
  BY <1>1, <1>2

-----------------------------------------------------------------------------
\* delim_pos is always the end of the token that starts at offset, and while
\* there is a token to come offset is behind the delimiter that ended the last.
Aligned ==
  /\ delim_pos = FindFirstOf(str, offset)
  /\ has_next =>
       IF tokens = <<>> THEN offset = 0
       ELSE LET e == tokens[Len(tokens)].end IN
              e < Len(str) /\ str[e + 1] \in delims /\ offset = e + 1

IInv == TypeOK /\ Aligned /\ TokensTile /\ NothingLeft

\* What NextToken() cuts off: up to the next delimiter, or up to the end of the
\* string and then has_next turns false.
LEMMA Cut ==
  ASSUME IInv, NextToken
  PROVE  \E e \in offset..Len(str) :
           /\ tokens' = Append(tokens, [first |-> offset, end |-> e])
           /\ Hits(str, offset) \cap (offset..e) \subseteq {e}
           /\ \/ e < Len(str) /\ str[e + 1] \in delims /\ offset' = e + 1 /\ has_next'
              \/ e = Len(str) /\ offset' = 0 /\ ~has_next'
<1> USE DEF IInv, TypeOK
<1>1. /\ str \in Strings /\ Len(str) \in Nat /\ Len(str) < NPos /\ NPos \in Nat
      /\ offset \in 0..Len(str)
  BY TokeniserAssumption, LenProperties
<1>2. /\ tokens' = Append(tokens, Substr(str, offset, delim_pos - offset))
      /\ offset' = Wrap(delim_pos + 1)
      /\ has_next' = (offset' # 0)
  BY DEF NextToken
<1>3. CASE delim_pos = NPos /\ Hits(str, offset) = {}
  <2>1. Substr(str, offset, delim_pos - offset) = [first |-> offset, end |-> Len(str)]
    BY <1>1, <1>3 DEF Substr
  <2>2. offset' = 0 /\ ~has_next'
    BY <1>1, <1>2, <1>3, WrapFacts
  <2>3. /\ Len(str) \in offset..Len(str)
        /\ tokens' = Append(tokens, [first |-> offset, end |-> Len(str)])
        /\ Hits(str, offset) \cap (offset..Len(str)) \subseteq {Len(str)}
    BY <1>1, <1>2, <1>3, <2>1
  <2> QED
    BY <2>2, <2>3, Zenon
<1>4. CASE /\ delim_pos \in offset..(Len(str) - 1) /\ delim_pos < NPos
           /\ str[delim_pos + 1] \in delims
           /\ \A j \in Hits(str, offset) : delim_pos <= j
  <2>1. Substr(str, offset, delim_pos - offset) = [first |-> offset, end |-> delim_pos]
    BY <1>1, <1>4 DEF Substr
  <2>2. offset' = delim_pos + 1 /\ has_next'
    <3>1. delim_pos \in 0..NPos /\ delim_pos # NPos /\ delim_pos + 1 # 0
      BY <1>1, <1>4
    <3>2. offset' = delim_pos + 1
      BY <1>2, <3>1, WrapFacts
    <3> QED
      BY <1>2, <3>1, <3>2, Zenon
  <2>3. Hits(str, offset) \cap (offset..delim_pos) \subseteq {delim_pos}
    BY <1>1, <1>4 DEF Hits
  <2>4. delim_pos \in offset..Len(str) /\ delim_pos < Len(str)
    BY <1>1, <1>4
  <2> QED
    BY <1>2, <1>4, <2>1, <2>2, <2>3, <2>4, Zenon
<1>5. delim_pos = FindFirstOf(str, offset) /\ str \in Strings /\ offset \in Nat
  BY <1>1 DEF Aligned
<1> HIDE DEF IInv, TypeOK
<1> QED
  BY <1>3, <1>4, <1>5, FindFirstOfFacts

\* The invariant holds before the first token ...
LEMMA AtStart == Init => IInv
<1> SUFFICES ASSUME Init PROVE IInv
  OBVIOUS
<1>1. PICK s \in Strings, d \in Delimiters : Constructed(s, d)
  BY DEF Init
<1>2. /\ str \in Strings /\ Len(str) \in Nat /\ Len(str) < NPos /\ NPos \in Nat
      /\ delims \in Delimiters /\ offset = 0 /\ has_next = TRUE /\ tokens = <<>>
      /\ delim_pos = FindFirstOf(str, offset)
  BY <1>1, TokeniserAssumption, LenProperties DEF Constructed
<1>3. delim_pos \in 0..NPos
  BY <1>2, FindFirstOfFacts
<1> QED
  BY <1>2, <1>3 DEF IInv, TypeOK, Aligned, TokensTile, NothingLeft

\* ... and each call of NextToken() preserves it.
LEMMA EachToken ==
  ASSUME IInv, NextToken
  PROVE  IInv'
<1>1. /\ str \in Strings /\ Len(str) \in Nat /\ Len(str) < NPos /\ NPos \in Nat
      /\ offset \in 0..Len(str) /\ str' = str /\ Len(tokens) \in Nat
      /\ delims \in Delimiters /\ delims' = delims
      /\ tokens \in Seq([first : Nat, end : Nat])
  BY TokeniserAssumption, LenProperties DEF IInv, TypeOK, NextToken
<1>2. PICK e \in offset..Len(str) :
           /\ tokens' = Append(tokens, [first |-> offset, end |-> e])
           /\ Hits(str, offset) \cap (offset..e) \subseteq {e}
           /\ \/ e < Len(str) /\ str[e + 1] \in delims /\ offset' = e + 1 /\ has_next'
              \/ e = Len(str) /\ offset' = 0 /\ ~has_next'
  BY Cut
<1> DEFINE t == [first |-> offset, end |-> e]
           n == Len(tokens)
<1>3. t \in [first : Nat, end : Nat]
  BY <1>1
<1>4. /\ tokens' \in Seq([first : Nat, end : Nat])
      /\ Len(tokens') = n + 1
      /\ \A k \in 1..n : tokens'[k] = tokens[k]
      /\ tokens'[n + 1] = t
  BY <1>1, <1>2, <1>3, AppendProperties
<1> n \in Nat /\ (n = 0 <=> tokens = <<>>)
  BY <1>1, EmptySeq
<1>5. TypeOK'
  <2>1. offset' \in 0..Len(str)
    BY <1>1, <1>2
  <2>2. delim_pos' \in 0..NPos
    BY <1>1, <2>1, FindFirstOfFacts DEF NextToken
  <2>3. has_next' \in BOOLEAN
    BY DEF NextToken
  <2> QED
    BY <1>1, <1>4, <2>1, <2>2, <2>3 DEF TypeOK
<1>6. Aligned'
  <2>1. delim_pos' = FindFirstOf(str, offset')
    BY DEF NextToken
  <2>2. tokens' # <<>> /\ tokens'[Len(tokens')].end = e
    BY <1>1, <1>4
  <2> QED
    BY <1>1, <1>2, <2>1, <2>2 DEF Aligned, FindFirstOf, Hits
<1>7. TokensTile'
  <2>1. tokens'[1].first = 0
    <3>1. CASE tokens = <<>>
      <4>1. offset = 0
        BY <3>1 DEF IInv, Aligned, NextToken
      <4> QED
        BY <1>4, <3>1, <4>1
    <3>2. CASE tokens # <<>>
      <4>1. tokens[1].first = 0
        BY <3>2 DEF IInv, TokensTile
      <4>2. 1 \in 1..n
        BY <3>2
      <4> QED
        BY <1>4, <4>1, <4>2
    <3> QED
      BY <3>1, <3>2
  <2>2. n >= 1 => /\ tokens[n].end < Len(str) /\ str[tokens[n].end + 1] \in delims
                  /\ offset = tokens[n].end + 1
    BY <1>1 DEF IInv, Aligned, NextToken
  <2>3. ASSUME NEW k \in 1..n
        PROVE  /\ tokens[k].first <= tokens[k].end /\ tokens[k].end <= Len(str)
               /\ Hits(str, tokens[k].first) \cap (tokens[k].first..tokens[k].end)
                    \subseteq {tokens[k].end}
               /\ str[tokens[k].end + 1] \in delims /\ tokens[k].end < Len(str)
               /\ tokens'[k + 1].first = tokens[k].end + 1
    <3>1. CASE k < n
      <4>1. k + 1 \in 1..n
        BY <3>1
      <4>2. tokens'[k + 1] = tokens[k + 1]
        BY <1>4, <4>1
      <4> QED
        BY <1>1, <3>1, <4>2 DEF IInv, TokensTile
    <3>2. CASE k = n
      <4>1. tokens'[k + 1] = t
        BY <1>4, <3>2
      <4> QED
        BY <1>1, <2>2, <3>2, <4>1 DEF IInv, TokensTile
    <3> QED
      BY <1>1, <3>1, <3>2
  <2>4. t.first <= t.end /\ t.end <= Len(str)
    BY <1>1
  <2>5. Hits(str, t.first) \cap (t.first..t.end) \subseteq {t.end}
    BY <1>2
  <2>6. ASSUME NEW k \in 1..Len(tokens')
        PROVE  LET u == tokens'[k] IN
                 /\ u.first <= u.end /\ u.end <= Len(str')
                 /\ {i \in u.first..(Len(str') - 1) : str'[i + 1] \in delims'}
                      \cap (u.first..u.end) \subseteq {u.end}
                 /\ k < Len(tokens') =>
                      /\ str'[u.end + 1] \in delims'
                      /\ u.end < Len(str')
                      /\ tokens'[k + 1].first = u.end + 1
    <3>1. CASE k \in 1..n
      BY <1>1, <1>4, <2>3, <3>1 DEF Hits
    <3>2. CASE k = n + 1
      BY <1>1, <1>4, <2>4, <2>5, <3>2 DEF Hits
    <3> QED
      BY <1>4, <3>1, <3>2
  <2> QED
    BY <2>1, <2>6, Zenon DEF TokensTile, Hits
<1>8. NothingLeft'
  <2>1. tokens' # <<>> /\ tokens'[Len(tokens')].end = e
    BY <1>1, <1>4
  <2>2. ~has_next' => e = Len(str)
    BY <1>2
  <2> QED
    BY <1>1, <2>1, <2>2 DEF NothingLeft
<1> QED
  BY <1>5, <1>6, <1>7, <1>8 DEF IInv

\* IInv is an inductive invariant.
LEMMA Inductive == Spec => []IInv
<1>1. IInv /\ UNCHANGED vars => IInv'
  BY DEF vars, IInv, TypeOK, Aligned, TokensTile, NothingLeft, FindFirstOf, Hits
<1>2. IInv /\ [Next]_vars => IInv'
  BY <1>1, EachToken DEF Next
<1> QED
  BY <1>2, AtStart, PTL DEF Spec

\* Positions stay in the string and npos stays the only one beyond it.
THEOREM TypeCorrect == Spec => []TypeOK
<1>1. IInv => TypeOK
  BY DEF IInv
<1> QED
  BY <1>1, Inductive, PTL

\* The tokens are what lies between the delimiters, without gap or overlap.
THEOREM TokensTileAlways == Spec => []TokensTile
<1>1. IInv => TokensTile
  BY DEF IInv
<1> QED
  BY <1>1, Inductive, PTL

\* HasNext() turns false only when the whole string has been cut.
THEOREM NothingLeftAlways == Spec => []NothingLeft
<1>1. IInv => NothingLeft
  BY DEF IInv
<1> QED
  BY <1>1, Inductive, PTL

\* Every call moves on or is the last one.
THEOREM AdvancesAlways == Spec => Advances
<1>1. IInv /\ NextToken => offset' > offset \/ ~has_next'
  <2> SUFFICES ASSUME IInv, NextToken PROVE offset' > offset \/ ~has_next'
    OBVIOUS
  <2>1. Len(str) \in Nat /\ offset \in 0..Len(str)
    BY TokeniserAssumption, LenProperties DEF IInv, TypeOK
  <2>2. PICK e \in offset..Len(str) : offset' = e + 1 \/ ~has_next'
    BY Cut
  <2> QED
    BY <2>1, <2>2
<1>2. IInv /\ [Next]_vars => [offset' > offset \/ ~has_next']_vars
  BY <1>1 DEF Next
<1> QED
  BY <1>2, Inductive, PTL DEF Spec, Advances
=============================================================================
