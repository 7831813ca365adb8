---------------------------- MODULE ScalcProofs ----------------------------
(***************************************************************************)
(* Proofs about Scalc, for every set of lines and every script.            *)
(***************************************************************************)
EXTENDS Scalc, SequenceTheorems, TLAPS

\* How many of the lines typed have been read.
Read == Len(typed) - Len(stdin)

\* The lines still to be read are the last ones typed.
Waiting ==
  /\ Len(stdin) < Len(typed)
  /\ \A i \in 1..Len(stdin) : stdin[i] = typed[Read + i]

\* Up to the end of the input every line read has been answered but the one in
\* hand; behind it the input is empty, or an unterminated last line that stays.
Position ==
  /\ ~eof =>
       /\ input = typed[Read]
       /\ Read = Len(displayed) + (IF at = "next" THEN 0 ELSE 1)
       /\ unterminated => stdin # <<>>
  /\ eof => stdin = <<>>
  /\ eof /\ ~unterminated =>
       input = Empty /\ at \notin {"next", "aborted"} /\ Len(displayed) = Len(typed)
  /\ eof /\ unterminated =>
       /\ input = typed[Len(typed)] /\ input # Empty
       /\ Len(displayed) + (IF at = "next" THEN 0 ELSE 1) >= Len(typed)
       /\ input \in Throws => at # "next" /\ Len(displayed) + 1 = Len(typed)
  /\ unterminated => typed[Len(typed)] # Empty
  /\ at = "add" => input # Empty
  /\ at = "returned" => input = Empty
  /\ at = "aborted" => input \in Throws

IInv == TypeOK /\ Waiting /\ Position /\ AnswersInOrder

\* The invariant holds before the first line ...
LEMMA AtStart == Init => IInv
<1> SUFFICES ASSUME Init PROVE IInv
  OBVIOUS
<1>1. /\ input \in Lines \cup {Empty}
      /\ stdin \in Seq(Lines \cup {Empty})
      /\ typed = <<input>> \o stdin
  BY ScalcAssumption DEF Init
<1>2. /\ typed \in Seq(Lines \cup {Empty})
      /\ Len(stdin) \in Nat /\ Len(typed) = Len(stdin) + 1
      /\ typed[1] = input
      /\ \A i \in 1..Len(stdin) : typed[i + 1] = stdin[i]
  BY <1>1
<1>3. TypeOK
  <2>1. unterminated \in BOOLEAN /\ eof = FALSE /\ displayed = <<>> /\ at = "test"
    BY DEF Init
  <2>2. displayed \in Seq(Lines)
    BY <2>1
  <2> QED
    BY <1>1, <1>2, <2>1, <2>2, Zenon DEF TypeOK
<1>4. Waiting
  BY <1>2 DEF Waiting, Read
<1>5. Position
  <2>1. unterminated => stdin # <<>> /\ typed[Len(typed)] = stdin[Len(stdin)]
    BY <1>1, <1>2, EmptySeq DEF Init
  <2> QED
    BY <1>2, <2>1 DEF Init, Position, Read
<1>6. AnswersInOrder
  BY DEF Init, AnswersInOrder
<1> QED
  BY <1>3, <1>4, <1>5, <1>6 DEF IInv

\* ... the test of the input preserves it ...
LEMMA TestStep == ASSUME IInv, Test PROVE IInv'
<1>1. TypeOK' /\ Waiting' /\ AnswersInOrder'
  BY DEF IInv, Test, TypeOK, Waiting, Read, AnswersInOrder
<1>2. Position'
  BY DEF IInv, Test, TypeOK, Position, Read
<1> QED
  BY <1>1, <1>2 DEF IInv

\* ... the answer to the line in hand does ...
LEMMA DisplayStep == ASSUME IInv, DisplayResult PROVE IInv'
<1>1. /\ typed \in Seq(Lines \cup {Empty}) /\ Len(typed) \in Nat
      /\ stdin \in Seq(Lines \cup {Empty}) /\ Len(stdin) \in Nat
      /\ displayed \in Seq(Lines) /\ Len(displayed) \in Nat
      /\ Len(stdin) < Len(typed)
  BY DEF IInv, TypeOK, Waiting
<1>2. /\ input \in Lines /\ at = "add" /\ at' \in {"next", "aborted"}
      /\ UNCHANGED <<input, stdin, unterminated, eof, typed>>
  BY DEF IInv, TypeOK, Position, DisplayResult
<1>3. CASE input \in Throws
  <2>1. displayed' = displayed /\ at' = "aborted"
    BY <1>3 DEF DisplayResult
  <2>2. TypeOK' /\ Waiting' /\ AnswersInOrder'
    BY <1>2, <2>1 DEF IInv, TypeOK, Waiting, Read, AnswersInOrder
  <2>3. eof => unterminated
    BY <1>2, ScalcAssumption DEF IInv, Position
  <2>4. Position'
    BY <1>1, <1>2, <1>3, <2>1, <2>3 DEF IInv, TypeOK, Position, Read
  <2> QED
    BY <2>2, <2>4 DEF IInv
<1>4. CASE input \notin Throws
  <2>1. displayed' = Append(displayed, input) /\ at' = "next"
    BY <1>4 DEF DisplayResult
  <2>2. /\ displayed' \in Seq(Lines) /\ Len(displayed') = Len(displayed) + 1
        /\ \A k \in 1..Len(displayed) : displayed'[k] = displayed[k]
        /\ displayed'[Len(displayed) + 1] = input
    BY <1>1, <1>2, <2>1, AppendProperties
  <2>3. TypeOK' /\ Waiting'
    BY <1>2, <2>1, <2>2 DEF IInv, TypeOK, Waiting, Read
  <2>4. eof => unterminated
    BY <1>2, ScalcAssumption DEF IInv, Position
  <2>5. Position'
    BY <1>1, <1>2, <1>4, <2>1, <2>2, <2>4 DEF IInv, TypeOK, Position, Read
  <2>6. LET k == Len(displayed) + 1 IN
          \/ k <= Len(typed) /\ input = typed[k]
          \/ k > Len(typed) /\ unterminated /\ input = typed[Len(typed)]
    BY <1>1, <1>2, <2>4 DEF IInv, Position, Read
  <2>7. AnswersInOrder'
    BY <1>1, <1>2, <2>2, <2>6 DEF IInv, AnswersInOrder
  <2> QED
    BY <2>3, <2>5, <2>7 DEF IInv
<1> QED
  BY <1>3, <1>4

\* ... and so does reading the next one.
LEMMA NextStep == ASSUME IInv, NextInput PROVE IInv'
<1>1. /\ typed \in Seq(Lines \cup {Empty}) /\ Len(typed) \in Nat
      /\ stdin \in Seq(Lines \cup {Empty}) /\ Len(stdin) \in Nat
      /\ displayed \in Seq(Lines) /\ Len(displayed) \in Nat
      /\ Len(stdin) < Len(typed)
  BY DEF IInv, TypeOK, Waiting
<1>2. /\ at = "next" /\ at' = "test"
      /\ UNCHANGED <<unterminated, displayed, typed>>
  BY DEF NextInput
<1>3. AnswersInOrder'
  BY <1>2 DEF IInv, AnswersInOrder
<1>4. CASE eof /\ UNCHANGED <<input, stdin, eof>>
  <2>1. TypeOK' /\ Waiting'
    BY <1>2, <1>4 DEF IInv, TypeOK, Waiting, Read
  <2>2. Position'
    BY <1>1, <1>2, <1>4 DEF IInv, TypeOK, Position, Read
  <2> QED
    BY <1>3, <2>1, <2>2 DEF IInv
<1>5. CASE ~eof /\ stdin = <<>> /\ input' = Empty /\ eof' = TRUE /\ UNCHANGED stdin
  <2>1. TypeOK' /\ Waiting'
    BY <1>2, <1>5 DEF IInv, TypeOK, Waiting, Read
  <2>2. Position'
    BY <1>1, <1>2, <1>5 DEF IInv, TypeOK, Position, Read
  <2> QED
    BY <1>3, <2>1, <2>2 DEF IInv
<1>6. CASE /\ ~eof /\ stdin # <<>>
           /\ input' = Head(stdin)
           /\ stdin' = Tail(stdin)
           /\ eof' = (unterminated /\ Len(stdin) = 1)
  <2>1. /\ Len(stdin) > 0 /\ input' = stdin[1]
        /\ stdin' \in Seq(Lines \cup {Empty}) /\ Len(stdin') = Len(stdin) - 1
        /\ \A i \in 1..Len(stdin') : stdin'[i] = stdin[i + 1]
    BY <1>1, <1>6, HeadTailProperties, EmptySeq
  <2>2. input' \in Lines \cup {Empty}
    BY <1>1, <2>1
  <2>3. TypeOK'
    BY <1>2, <1>6, <2>1, <2>2 DEF IInv, TypeOK
  <2>4. Read' = Read + 1 /\ input' = typed[Read + 1]
    BY <1>1, <1>2, <2>1 DEF IInv, Waiting, Read
  <2>5. Waiting'
    <3>1. ASSUME NEW i \in 1..Len(stdin') PROVE stdin'[i] = typed[Read' + i]
      <4>1. i + 1 \in 1..Len(stdin) /\ stdin'[i] = stdin[i + 1]
        BY <1>1, <2>1
      <4>2. stdin[i + 1] = typed[Read + (i + 1)]
        BY <4>1 DEF IInv, Waiting
      <4>3. Read \in Int /\ i \in Int
        BY <1>1 DEF Read
      <4> QED
        BY <2>4, <4>1, <4>2, <4>3
    <3> QED
      BY <1>1, <1>2, <2>1, <3>1 DEF Waiting
  <2>6. Position'
    <3>1. Read = Len(displayed)
      BY <1>1, <1>2, <1>6 DEF IInv, Position
    <3>2. unterminated /\ Len(stdin) = 1 =>
            Read + 1 = Len(typed) /\ stdin' = <<>> /\ typed[Len(typed)] # Empty
      BY <1>1, <1>6, <2>1, EmptySeq DEF IInv, Position, Read
    <3>3. Len(stdin) # 1 => stdin' # <<>>
      BY <1>1, <2>1, EmptySeq
    <3>4. eof' = (unterminated /\ Len(stdin) = 1)
      BY <1>6
    <3>5. unterminated => typed[Len(typed)] # Empty
      BY DEF IInv, Position
    <3>6. CASE unterminated /\ Len(stdin) = 1
      <4>1. eof' /\ unterminated' /\ stdin' = <<>> /\ at' = "test"
        BY <1>2, <3>2, <3>4, <3>6
      <4>2. /\ input' = typed'[Len(typed')] /\ typed'[Len(typed')] # Empty
            /\ Len(displayed') + 1 = Len(typed') /\ Len(typed') \in Nat
        BY <1>1, <1>2, <2>4, <3>1, <3>2, <3>6
      <4> QED
        BY <4>1, <4>2 DEF Position
    <3>7. CASE ~(unterminated /\ Len(stdin) = 1)
      BY <1>1, <1>2, <2>4, <3>1, <3>3, <3>4, <3>5, <3>7 DEF Position
    <3> QED
      BY <3>6, <3>7
  <2> QED
    BY <1>3, <2>3, <2>5, <2>6 DEF IInv
<1> QED
  BY <1>4, <1>5, <1>6 DEF NextInput, Getline

\* IInv is an inductive invariant.
LEMMA Inductive == Spec => []IInv
<1>1. IInv /\ UNCHANGED vars => IInv'
  BY DEF vars, IInv, TypeOK, Waiting, Position, Read, AnswersInOrder
<1>2. IInv /\ [Next]_vars => IInv'
  BY <1>1, TestStep, DisplayStep, NextStep DEF Next
<1> QED
  BY <1>2, AtStart, PTL DEF Spec

\* Every variable keeps its type; what is displayed is never the empty line.
THEOREM TypeCorrect == Spec => []TypeOK
<1>1. IInv => TypeOK
  BY DEF IInv
<1> QED
  BY <1>1, Inductive, PTL

\* The lines are answered in the order they were typed.
THEOREM AnswersInOrderAlways == Spec => []AnswersInOrder
<1>1. IInv => AnswersInOrder
  BY DEF IInv
<1> QED
  BY <1>1, Inductive, PTL

\* The loop stops at the first empty line, at the end, or at a negative number.
THEOREM StopsWhereItShouldAlways == Spec => []StopsWhereItShould
<1>1. IInv => StopsWhereItShould
  <2> SUFFICES ASSUME IInv PROVE StopsWhereItShould
    OBVIOUS
  <2>1. /\ Len(typed) \in Nat /\ Len(stdin) \in Nat /\ Len(displayed) \in Nat
        /\ Len(stdin) < Len(typed)
    BY DEF IInv, TypeOK, Waiting
  <2>2. at = "returned" => Len(displayed) + 1 > Len(typed) \/ typed[Len(displayed) + 1] = Empty
    BY <2>1 DEF IInv, Position, Read
  <2>3. at = "aborted" => Len(displayed) + 1 <= Len(typed) /\ typed[Len(displayed) + 1] \in Throws
    BY <2>1 DEF IInv, Position, Read
  <2> QED
    BY <2>2, <2>3 DEF StopsWhereItShould
<1> QED
  BY <1>1, Inductive, PTL
=============================================================================
