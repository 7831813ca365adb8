------------------------- MODULE ExpectationsProofs -------------------------
(***************************************************************************)
(* Proofs about Expectations, for every test, any functions, mock objects  *)
(* and sequences, and any number of threads.                               *)
(***************************************************************************)
EXTENDS Expectations, FiniteSetTheorems, SequenceTheorems, TLAPS

\* All prerequisites of e, those of its prerequisites included.
Before(e) == Reach(e, Ids)

-----------------------------------------------------------------------------
(* What a recursion along the prerequisites visits.                        *)

\* It goes on from everything it visits that is in T ...
LEMMA ReachIsClosed ==
  ASSUME ExpectationsOK, NEW e \in Ids, NEW T
  PROVE  /\ exps[e].before \subseteq Reach(e, T)
         /\ \A q \in Reach(e, T) \cap T : exps[q].before \subseteq Reach(e, T)
<1>1. \A q \in Ids : exps[q].before \subseteq Ids
  BY DEF ExpectationsOK, Ids
<1> QED
  BY <1>1 DEF Reach

\* ... and visits no more than it must.
LEMMA ReachIsLeast ==
  ASSUME NEW e \in Ids, NEW T, NEW S \in SUBSET Ids,
         exps[e].before \subseteq S,
         \A q \in S \cap T : exps[q].before \subseteq S
  PROVE  Reach(e, T) \subseteq S
BY DEF Reach

\* It visits earlier expectations only, so it never comes back to e.
LEMMA ReachIsEarlier ==
  ASSUME ExpectationsOK, NEW e \in Ids, NEW T
  PROVE  Reach(e, T) \subseteq 1..(e - 1)
<1>1. Len(exps) \in Nat
  BY DEF ExpectationsOK
<1>2. 1..(e - 1) \in SUBSET Ids
  BY <1>1 DEF Ids
<1>3. \A q \in Ids : exps[q].before \subseteq 1..(q - 1)
  BY DEF ExpectationsOK
<1>4. \A q \in 1..(e - 1) : exps[q].before \subseteq 1..(e - 1)
  <2> SUFFICES ASSUME NEW q \in 1..(e - 1), NEW p \in exps[q].before
               PROVE  p \in 1..(e - 1)
    OBVIOUS
  <2>1. q \in Ids /\ p \in 1..(q - 1)
    BY <1>2, <1>3
  <2> QED
    BY <2>1, <1>1 DEF Ids
<1>5. exps[e].before \subseteq 1..(e - 1)
  BY <1>3
<1> QED
  BY <1>2, <1>4, <1>5 DEF Reach

\* Everything visited is an expectation.
LEMMA ReachIsIds ==
  ASSUME NEW e, NEW T
  PROVE  Reach(e, T) \subseteq Ids
BY DEF Reach

\* Behind the prerequisites of a prerequisite there is nothing new.
LEMMA BeforeIsTransitive ==
  ASSUME ExpectationsOK, NEW e \in Ids, NEW p \in Before(e)
  PROVE  Before(p) \subseteq Before(e)
<1>1. p \in Ids /\ Before(e) \in SUBSET Ids
  BY ReachIsIds DEF Before
<1>2. \A q \in Before(e) : exps[q].before \subseteq Before(e)
  BY <1>1, ReachIsClosed DEF Before
<1> QED
  BY <1>1, <1>2, ReachIsLeast DEF Before

\* It depends on the prerequisites alone.
LEMMA BeforeStays ==
  ASSUME Len(exps') = Len(exps),
         \A i \in Ids : exps'[i].before = exps[i].before,
         NEW e \in Ids
  PROVE  Before(e)' = Before(e)
<1>1. Ids' = Ids
  BY DEF Ids
<1> QED
  BY <1>1 DEF Before, Reach

-----------------------------------------------------------------------------
(* The types.                                                              *)

\* A statement of the test is the test's own.
LEMMA StatementStep ==
  ASSUME ExpectationsOK, NEW name, NEW x, Statement(name, x)
  PROVE  test' \in Tests /\ pc' \in Nat
BY DEF Statement, ExpectationsOK

\* A clause leaves a well-formed expectation in the place of the newest.
LEMMA ClauseTypes ==
  ASSUME ExpectationsOK, NEW name, Rank[name] \in 0..7, NEW x, NEW inPlace,
         NEW e \in Expectation, e.before \subseteq 1..(Len(exps) - 1), e.min <= e.max,
         Clause(name, x, inPlace, e), last' \in [SequenceNames -> 0..Len(exps)]
  PROVE  ExpectationsOK'
<1> DEFINE changed == [e EXCEPT !.clause = Rank[name]]
<1>1. changed \in Expectation /\ changed.before = e.before
      /\ changed.min = e.min /\ changed.max = e.max
  BY DEF Expectation
<1>2. Len(exps) \in Nat /\ Len(exps) \in 1..Len(exps)
  BY EmptySeq DEF ExpectationsOK, Clause
<1>3. exps' = [exps EXCEPT ![Len(exps)] = changed]
  BY DEF Clause
<1>4. /\ exps' \in Seq(Expectation)
      /\ Len(exps') = Len(exps)
      /\ \A j \in Ids : exps'[j] = IF j = Len(exps) THEN changed ELSE exps[j]
  BY <1>1, <1>2, <1>3, ExceptSeq DEF ExpectationsOK, Ids
<1>5. Ids' = Ids
  BY <1>4 DEF Ids
<1>6. \A i \in Ids : exps'[i].before \subseteq 1..(i - 1) /\ exps'[i].min <= exps'[i].max
  BY <1>1, <1>4 DEF ExpectationsOK
<1>7. test' \in Tests /\ pc' \in Nat
  BY StatementStep DEF Clause
<1>8. UNCHANGED <<implicit, onCall, mutex, cleared, alive, handled>>
  BY DEF Clause, Statement
<1> QED
  BY <1>4, <1>5, <1>6, <1>7, <1>8 DEF ExpectationsOK

\* What the clauses change, and what they leave alone.
LEMMA Changed ==
  ASSUME NEW e \in Expectation, NEW n \in Nat, NEW k \in Nat
  PROVE  /\ LET c == [e EXCEPT !.specified = TRUE] IN
              c \in Expectation /\ c.before = e.before /\ c.min = e.min /\ c.max = e.max
              /\ c.count = e.count /\ c.retired = e.retired
         /\ LET c == [e EXCEPT !.once = n] IN
              c \in Expectation /\ c.before = e.before /\ c.min = e.min /\ c.max = e.max
              /\ c.count = e.count /\ c.retired = e.retired
         /\ LET c == [e EXCEPT !.repeated = TRUE] IN
              c \in Expectation /\ c.before = e.before /\ c.min = e.min /\ c.max = e.max
              /\ c.count = e.count /\ c.retired = e.retired
         /\ LET c == [e EXCEPT !.retires = TRUE] IN
              c \in Expectation /\ c.before = e.before /\ c.min = e.min /\ c.max = e.max
              /\ c.count = e.count /\ c.retired = e.retired
         /\ LET c == Between(e, n, k) IN
              c \in Expectation /\ c.before = e.before /\ c.min <= c.max
              /\ c.count = e.count /\ c.retired = e.retired
<1>1. LET c == [e EXCEPT !.specified = TRUE] IN
        c \in Expectation /\ c.before = e.before /\ c.min = e.min /\ c.max = e.max
        /\ c.count = e.count /\ c.retired = e.retired
  BY DEF Expectation
<1>2. LET c == [e EXCEPT !.once = n] IN
        c \in Expectation /\ c.before = e.before /\ c.min = e.min /\ c.max = e.max
        /\ c.count = e.count /\ c.retired = e.retired
  BY DEF Expectation
<1>3. LET c == [e EXCEPT !.repeated = TRUE] IN
        c \in Expectation /\ c.before = e.before /\ c.min = e.min /\ c.max = e.max
        /\ c.count = e.count /\ c.retired = e.retired
  BY DEF Expectation
<1>4. LET c == [e EXCEPT !.retires = TRUE] IN
        c \in Expectation /\ c.before = e.before /\ c.min = e.min /\ c.max = e.max
        /\ c.count = e.count /\ c.retired = e.retired
  BY DEF Expectation
<1>5. LET c == Between(e, n, k) IN
        c \in Expectation /\ c.before = e.before /\ c.min <= c.max
              /\ c.count = e.count /\ c.retired = e.retired
  <2> DEFINE m == IF k >= n THEN k ELSE n
  <2>1. m \in Nat /\ n <= m
    OBVIOUS
  <2>2. Between(e, n, k) = [e EXCEPT !.min = n, !.max = m]
    BY DEF Between
  <2> HIDE DEF m
  <2>3. LET c == [e EXCEPT !.min = n, !.max = m] IN
          c \in Expectation /\ c.before = e.before /\ c.min <= c.max
              /\ c.count = e.count /\ c.retired = e.retired
    BY <2>1 DEF Expectation
  <2> QED
    BY <2>2, <2>3
<1> QED
  BY <1>1, <1>2, <1>3, <1>4, <1>5

\* And more prerequisites.
LEMMA MoreBefore ==
  ASSUME NEW e \in Expectation, NEW B \in SUBSET Nat
  PROVE  LET c == [e EXCEPT !.before = @ \cup B] IN
           c \in Expectation /\ c.before = e.before \cup B /\ c.min = e.min /\ c.max = e.max
           /\ c.count = e.count /\ c.retired = e.retired
BY DEF Expectation

\* No statement of a test spoils a type.
LEMMA SetUpTypes ==
  ASSUME ExpectationsOK, SetUp
  PROVE  ExpectationsOK'
<1>r. \A name \in DOMAIN Rank : Rank[name] \in 0..7
  BY DEF Rank
<1>n. /\ Len(exps) \in Nat
      /\ \A m \in Matchers : m \in SUBSET Args
  BY ConstantsAssumption DEF ExpectationsOK
<1>w. exps # <<>> =>
        /\ Len(exps) \in Ids
        /\ Newest \in Expectation
        /\ Newest.before \subseteq 1..(Len(exps) - 1)
        /\ Newest.min <= Newest.max
  BY EmptySeq, ElementOfSeq DEF ExpectationsOK, Ids, Newest
<1>1. ASSUME NEW f \in Functions, OnCall(f) PROVE ExpectationsOK'
  BY <1>1, StatementStep DEF OnCall, Statement, ExpectationsOK, Ids
<1>2. ASSUME NEW f \in Functions, NEW m \in Matchers, Expect(f, m) PROVE ExpectationsOK'
  <2> DEFINE new == [fn |-> f, accepts |-> m, extra |-> Args, min |-> 1, max |-> 1,
                     specified |-> FALSE, once |-> 0, repeated |-> FALSE,
                     retires |-> FALSE, clause |-> 0,
                     before |-> AddExpectation(implicit, Len(exps) + 1),
                     count |-> 0, retired |-> FALSE]
  <2>1. AddExpectation(implicit, Len(exps) + 1) \subseteq 1..Len(exps)
    BY <1>n DEF AddExpectation
  <2>2. new \in Expectation
    BY <1>n, <2>1 DEF Expectation
  <2>3. /\ exps' \in Seq(Expectation)
        /\ Len(exps') = Len(exps) + 1
        /\ \A i \in Ids : exps'[i] = exps[i]
        /\ exps'[Len(exps) + 1] = new
    BY <1>2, <2>2, AppendProperties DEF Expect, ExpectationsOK, Ids
  <2>4. Ids' = Ids \cup {Len(exps) + 1}
    BY <1>n, <2>3 DEF Ids
  <2>5. \A i \in Ids' : exps'[i].before \subseteq 1..(i - 1) /\ exps'[i].min <= exps'[i].max
    <3>1. new.before \subseteq 1..Len(exps) /\ new.min <= new.max
      BY <2>1
    <3>2. (Len(exps) + 1) - 1 = Len(exps)
      BY <1>n
    <3> QED
      BY <2>3, <2>4, <3>1, <3>2 DEF ExpectationsOK
  <2>6. test' \in Tests /\ pc' \in Nat
    BY <1>2, StatementStep DEF Expect
  <2>7. UNCHANGED <<last, onCall, mutex, cleared, alive, handled>>
    BY <1>2 DEF Expect, Statement
  <2>8. implicit' \subseteq 0..Len(exps')
    BY <1>2, <1>n, <2>3 DEF Expect
  <2>9. 0..Len(exps) \subseteq 0..Len(exps')
    BY <1>n, <2>3
  <2>10. /\ last' \in [SequenceNames -> 0..Len(exps')]
         /\ handled' \in Seq(0..Len(exps'))
    BY <2>7, <2>9, SeqMonotonic DEF ExpectationsOK
  <2> QED
    BY <2>3, <2>5, <2>6, <2>7, <2>8, <2>10 DEF ExpectationsOK
<1>3. ASSUME NEW m \in Matchers, With(m) PROVE ExpectationsOK'
  <2>1. exps # <<>> /\ UNCHANGED last
    BY <1>3 DEF With, Clause
  <2>2. [Newest EXCEPT !.extra = m] \in Expectation
    BY <1>w, <1>n, <2>1 DEF Expectation
  <2> QED
    BY <1>3, <1>w, <2>1, <2>2, <1>r, ClauseTypes DEF With, Rank, ExpectationsOK, Expectation
<1>4. ASSUME NEW least \in 0..IntMax, NEW most \in 0..IntMax, Times(least, most)
      PROVE  ExpectationsOK'
  <2>1. exps # <<>> /\ UNCHANGED last
    BY <1>4 DEF Times, Clause
  <2>2. IntMax \in Nat
    BY ConstantsAssumption
  <2> DEFINE e == Between([Newest EXCEPT !.specified = TRUE], least, most)
  <2>3. e \in Expectation /\ e.before = Newest.before /\ e.min <= e.max
    <3> DEFINE c == [Newest EXCEPT !.specified = TRUE]
    <3>1. /\ c \in Expectation /\ c.before = Newest.before
          /\ c.min = Newest.min /\ c.max = Newest.max
      BY <1>w, <2>1, Changed
    <3>2. least \in Nat /\ most \in Nat
      BY <2>2
    <3>3. LET b == Between(c, least, most) IN
            b \in Expectation /\ b.before = c.before /\ b.min <= b.max
      BY <3>1, <3>2, Changed
    <3> QED
      BY <3>1, <3>3
  <2> QED
    BY <1>4, <1>w, <2>1, <2>3, <1>r, ClauseTypes DEF Times, Rank, ExpectationsOK
<1>5. ASSUME NEW s \in SequenceNames, InSequence(s) PROVE ExpectationsOK'
  <2>1. exps # <<>>
    BY <1>5 DEF InSequence, Clause
  <2>2. AddExpectation({last[s]}, Len(exps)) \subseteq 1..(Len(exps) - 1)
    BY DEF AddExpectation
  <2>3. last' \in [SequenceNames -> 0..Len(exps)]
    BY <1>5, <1>n DEF InSequence, ExpectationsOK
  <2> DEFINE e == [Newest EXCEPT !.before = @ \cup AddExpectation({last[s]}, Len(exps))]
  <2>4. AddExpectation({last[s]}, Len(exps)) \in SUBSET Nat
    BY <1>n DEF AddExpectation
  <2>5. /\ e \in Expectation
        /\ e.before = Newest.before \cup AddExpectation({last[s]}, Len(exps))
        /\ e.min = Newest.min /\ e.max = Newest.max
    BY <1>w, <2>1, <2>4, MoreBefore
  <2>6. e.before \subseteq 1..(Len(exps) - 1) /\ e.min <= e.max
    BY <1>w, <2>1, <2>2, <2>5
  <2> QED
    BY <1>5, <2>3, <2>5, <2>6, <1>r, ClauseTypes DEF InSequence, Rank
<1>6. ASSUME NEW P \in SUBSET Ids, After(P) PROVE ExpectationsOK'
  <2>1. exps # <<>> /\ UNCHANGED last /\ P \subseteq 1..(Len(exps) - 1)
    BY <1>6 DEF After, Clause
  <2> DEFINE e == [Newest EXCEPT !.before = @ \cup P]
  <2>2. P \in SUBSET Nat
    BY <2>1, <1>n
  <2>3. /\ e \in Expectation
        /\ e.before = Newest.before \cup P
        /\ e.min = Newest.min /\ e.max = Newest.max
    BY <1>w, <2>1, <2>2, MoreBefore
  <2>4. e.before \subseteq 1..(Len(exps) - 1) /\ e.min <= e.max
    BY <1>w, <2>1, <2>3
  <2> QED
    BY <1>6, <2>1, <2>3, <2>4, <1>r, ClauseTypes DEF After, Rank, ExpectationsOK
<1>7. ASSUME WillOnce PROVE ExpectationsOK'
  <2>1. exps # <<>> /\ UNCHANGED last
    BY <1>7 DEF WillOnce, Clause
  <2> DEFINE n == Newest.once + 1
             e == Infer([Newest EXCEPT !.once = n], n, n)
  <2>2. n \in Nat
    BY <1>w, <2>1 DEF Expectation
  <2>3. e \in Expectation /\ e.before = Newest.before /\ e.min <= e.max
    <3> DEFINE c == [Newest EXCEPT !.once = n]
    <3>1. /\ c \in Expectation /\ c.before = Newest.before
          /\ c.min = Newest.min /\ c.max = Newest.max
      BY <1>w, <2>1, <2>2, Changed
    <3>2. LET b == Between(c, n, n) IN
            b \in Expectation /\ b.before = c.before /\ b.min <= b.max
      BY <3>1, <2>2, Changed
    <3> QED
      BY <3>1, <3>2, <1>w, <2>1 DEF Infer
  <2> QED
    BY <1>7, <1>w, <2>1, <2>3, <1>r, ClauseTypes DEF WillOnce, Rank, ExpectationsOK
<1>8. ASSUME WillRepeatedly PROVE ExpectationsOK'
  <2>1. exps # <<>> /\ UNCHANGED last
    BY <1>8 DEF WillRepeatedly, Clause
  <2>2. IntMax \in Nat
    BY ConstantsAssumption
  <2> DEFINE e == Infer([Newest EXCEPT !.repeated = TRUE], Newest.once, IntMax)
  <2>3. e \in Expectation /\ e.before = Newest.before /\ e.min <= e.max
    <3> DEFINE c == [Newest EXCEPT !.repeated = TRUE]
    <3>1. /\ c \in Expectation /\ c.before = Newest.before
          /\ c.min = Newest.min /\ c.max = Newest.max
      BY <1>w, <2>1, Changed
    <3>2. Newest.once \in Nat
      BY <1>w, <2>1 DEF Expectation
    <3>3. LET b == Between(c, Newest.once, IntMax) IN
            b \in Expectation /\ b.before = c.before /\ b.min <= b.max
      BY <3>1, <3>2, <2>2, Changed
    <3> QED
      BY <3>1, <3>3, <1>w, <2>1 DEF Infer
  <2> QED
    BY <1>8, <1>w, <2>1, <2>3, <1>r, ClauseTypes DEF WillRepeatedly, Rank, ExpectationsOK
<1>9. ASSUME RetiresOnSaturation PROVE ExpectationsOK'
  <2>1. exps # <<>> /\ UNCHANGED last
    BY <1>9 DEF RetiresOnSaturation, Clause
  <2> DEFINE e == [Newest EXCEPT !.retires = TRUE]
  <2>2. e \in Expectation /\ e.before = Newest.before /\ e.min <= e.max
    BY <1>w, <2>1, Changed
  <2> QED
    BY <1>9, <1>w, <2>1, <2>2, <1>r, ClauseTypes DEF RetiresOnSaturation, Rank, ExpectationsOK
<1>10. ASSUME Scope PROVE ExpectationsOK'
  <2>0. 0 \in 0..Len(exps)
    BY <1>n
  <2>1. implicit' \subseteq 0..Len(exps)
    BY <1>10, <2>0 DEF Scope
  <2> QED
    BY <1>10, <2>1, StatementStep, Zenon DEF Scope, Statement, ExpectationsOK, Ids
<1> QED
  BY <1>1, <1>2, <1>3, <1>4, <1>5, <1>6, <1>7, <1>8, <1>9, <1>10 DEF SetUp

\* The numbers of an expectation.
LEMMA Fields ==
  ASSUME ExpectationsOK, NEW e \in Ids
  PROVE  /\ exps[e].count \in Nat /\ exps[e].min \in Nat /\ exps[e].max \in Nat
         /\ exps[e].min <= exps[e].max /\ exps[e].retired \in BOOLEAN
         /\ exps[e].before \subseteq Ids
<1>1. exps[e] \in Expectation
  BY ElementOfSeq DEF ExpectationsOK, Ids
<1>2. exps[e].before \subseteq 1..(e - 1) /\ Len(exps) \in Nat /\ e \in 1..Len(exps)
  BY DEF ExpectationsOK, Ids
<1>3. exps[e].before \subseteq Ids
  BY <1>2 DEF Ids
<1> QED
  BY <1>1, <1>3 DEF ExpectationsOK, Expectation

\* A call that e handles counts for e and moves no other expectation.
LEMMA Handling ==
  ASSUME ExpectationsOK, NEW e \in Ids, exps' = Count(e) \/ exps' = Handle(e)
  PROVE  /\ exps' \in Seq(Expectation)
         /\ Len(exps') = Len(exps)
         /\ \A i \in Ids :
              /\ exps'[i].fn = exps[i].fn /\ exps'[i].before = exps[i].before
              /\ exps'[i].min = exps[i].min /\ exps'[i].max = exps[i].max
              /\ exps'[i].count = IF i = e THEN exps[i].count + 1 ELSE exps[i].count
              /\ exps' = Count(e) => exps'[i].retired = exps[i].retired
              /\ exps' = Handle(e) => exps'[i].retired =
                   \/ exps[i].retired \/ i \in Prerequisites(e)
                   \/ i = e /\ exps[e].retires /\ exps[e].count + 1 >= exps[e].max
<1> DEFINE c == [exps[e] EXCEPT !.count = @ + 1]
<1>0. \A i \in Ids : exps[i] \in Expectation
  BY ElementOfSeq DEF ExpectationsOK, Ids
<1>1. c \in Expectation
  BY <1>0 DEF Expectation
<1>2. Count(e) = [exps EXCEPT ![e] = c]
  BY DEF Count
<1>3. /\ Count(e) \in Seq(Expectation)
      /\ Len(Count(e)) = Len(exps)
      /\ \A i \in Ids : Count(e)[i] = IF i = e THEN c ELSE exps[i]
  BY <1>1, <1>2, ExceptSeq DEF ExpectationsOK, Ids
<1>4. \A i \in Ids :
        /\ Count(e)[i] \in Expectation
        /\ Count(e)[i].fn = exps[i].fn /\ Count(e)[i].before = exps[i].before
        /\ Count(e)[i].min = exps[i].min /\ Count(e)[i].max = exps[i].max
        /\ Count(e)[i].count = IF i = e THEN exps[i].count + 1 ELSE exps[i].count
        /\ Count(e)[i].retired = exps[i].retired
  <2>1. /\ c.fn = exps[e].fn /\ c.before = exps[e].before
        /\ c.min = exps[e].min /\ c.max = exps[e].max
        /\ c.count = exps[e].count + 1
        /\ c.retired = exps[e].retired
    BY <1>0 DEF Expectation
  <2> HIDE DEF c
  <2> QED
    BY <1>0, <1>1, <1>3, <2>1
<1>5. CASE exps' = Count(e) /\ exps' # Handle(e)
  BY <1>3, <1>4, <1>5
<1>6. CASE exps' = Handle(e)
  <2> DEFINE gone(i) == \/ exps[i].retired \/ i \in Prerequisites(e)
                        \/ i = e /\ exps[e].retires /\ exps[e].count + 1 >= exps[e].max
             new(i) == [Count(e)[i] EXCEPT !.retired = gone(i)]
  <2>1. \A i \in Ids : gone(i) \in BOOLEAN
    BY <1>0 DEF Expectation
  <2>2. Handle(e) = [i \in Ids |-> new(i)]
    BY <1>4 DEF Handle
  <2>3. \A i \in Ids :
          /\ new(i) \in Expectation
          /\ new(i).fn = exps[i].fn /\ new(i).before = exps[i].before
          /\ new(i).min = exps[i].min /\ new(i).max = exps[i].max
          /\ new(i).count = IF i = e THEN exps[i].count + 1 ELSE exps[i].count
          /\ new(i).retired = gone(i)
    <3> SUFFICES ASSUME NEW i \in Ids PROVE
          /\ new(i) \in Expectation
          /\ new(i).fn = exps[i].fn /\ new(i).before = exps[i].before
          /\ new(i).min = exps[i].min /\ new(i).max = exps[i].max
          /\ new(i).count = IF i = e THEN exps[i].count + 1 ELSE exps[i].count
          /\ new(i).retired = gone(i)
      OBVIOUS
    <3> DEFINE g == gone(i)
    <3>1. g \in BOOLEAN
      BY <2>1
    <3> HIDE DEF g
    <3>2. LET r == [Count(e)[i] EXCEPT !.retired = g] IN
            /\ r \in Expectation /\ r.fn = exps[i].fn /\ r.before = exps[i].before
            /\ r.min = exps[i].min /\ r.max = exps[i].max
            /\ r.count = IF i = e THEN exps[i].count + 1 ELSE exps[i].count
            /\ r.retired = g
      BY <3>1, <1>4 DEF Expectation
    <3> QED
      BY <3>2 DEF g
  <2> HIDE DEF new
  <2>4. /\ exps' \in Seq(Expectation)
        /\ Len(exps') = Len(exps)
        /\ \A i \in Ids : exps'[i] = new(i)
    <3>1. Len(exps) \in Nat
      BY DEF ExpectationsOK
    <3>2. exps' \in [1..Len(exps) -> Expectation] /\ \A i \in Ids : exps'[i] = new(i)
      BY <1>6, <2>2, <2>3 DEF Ids
    <3>3. exps' \in Seq(Expectation)
      BY <3>1, <3>2
    <3> QED
      BY <3>1, <3>2, <3>3, LenProperties DEF Ids
  <2>5. exps' = Count(e) => \A i \in Ids : exps'[i].retired = exps[i].retired
    BY <1>4
  <2> QED
    BY <2>3, <2>4, <2>5, <1>6
<1> QED
  BY <1>5, <1>6

\* What the search of a call does: no expectation handles it, or one that may
\* counts it, with its state if it was not saturated.
LEMMA Search ==
  ASSUME ExpectationsOK, NEW t \in Threads, UntypedFindMatchingExpectation(t)
  PROVE  \E e \in 0..Len(exps) :
           /\ handled' = Append(handled, e)
           /\ \/ e = 0 /\ exps' = exps
              \/ /\ e \in Ids
                 /\ ShouldHandleArguments(e, Top(t).arg)
                 /\ \/ IsSaturated(e) /\ exps' = Count(e)
                    \/ ~IsSaturated(e) /\ exps' = Handle(e)
<1>1. Len(exps) \in Nat
  BY DEF ExpectationsOK
<1>2. 0 \in 0..Len(exps) /\ Ids \subseteq 0..Len(exps)
  BY <1>1 DEF Ids
<1>3. \A e \in Ids : Found(t, e) => ShouldHandleArguments(e, Top(t).arg)
  BY DEF Found, Candidates
<1>4. CASE UNCHANGED exps /\ \E told : Answer(t, 0, told, FALSE)
  BY <1>2, <1>4 DEF Answer
<1>5. CASE \E e \in Ids : /\ Found(t, e) /\ IsSaturated(e) /\ exps' = Count(e)
                         /\ Answer(t, e, "excessive", FALSE)
  BY <1>2, <1>3, <1>5 DEF Answer
<1>6. CASE \E e \in Ids : /\ Found(t, e) /\ ~IsSaturated(e) /\ exps' = Handle(e)
                         /\ Answer(t, e, "", HasAction(e))
  BY <1>2, <1>3, <1>6 DEF Answer
<1> QED
  BY <1>4, <1>5, <1>6 DEF UntypedFindMatchingExpectation

\* A step of the engine that is not a search, or one of the user, leaves the
\* expectations and what they handled alone.
LEMMA OtherSteps ==
  ASSUME NEW t \in Threads, Engine(t) \/ User(t)
  PROVE  \/ UntypedFindMatchingExpectation(t)
         \/ UNCHANGED <<exps, handled>>
BY DEF Engine, User, Report, Lock, Relock, Unregistered, Unlock,
       VerifyAndClearExpectationsLocked, Cleared, Call, Verify, Destroy

\* Nor does a call touch what was set up, but for the default actions.
LEMMA SetUpStays ==
  ASSUME NEW t \in Threads, Engine(t) \/ User(t)
  PROVE  /\ UNCHANGED <<last, implicit, test, pc>>
         /\ onCall' \subseteq onCall
BY DEF Engine, User, Report, Lock, Relock, Unregistered, Unlock, setup,
       VerifyAndClearExpectationsLocked, Cleared, Call, Verify, Destroy,
       UntypedFindMatchingExpectation

\* No step of a thread does.
LEMMA EngineTypes ==
  ASSUME ExpectationsOK, NEW t \in Threads, Engine(t) \/ User(t)
  PROVE  ExpectationsOK'
<1>1. /\ exps' \in Seq(Expectation)
      /\ Len(exps') = Len(exps)
      /\ \A i \in Ids : /\ exps'[i].before = exps[i].before
                        /\ exps'[i].min = exps[i].min /\ exps'[i].max = exps[i].max
      /\ handled' \in Seq(0..Len(exps))
  <2>1. CASE UNCHANGED <<exps, handled>>
    BY <2>1 DEF ExpectationsOK
  <2>2. CASE UntypedFindMatchingExpectation(t)
    <3>1. PICK e \in 0..Len(exps) :
            /\ handled' = Append(handled, e)
            /\ \/ exps' = exps
               \/ e \in Ids /\ (exps' = Count(e) \/ exps' = Handle(e))
      BY <2>2, Search
    <3>2. handled' \in Seq(0..Len(exps))
      BY <3>1, AppendProperties DEF ExpectationsOK
    <3>3. CASE exps' = exps
      BY <3>2, <3>3 DEF ExpectationsOK
    <3>4. CASE e \in Ids /\ (exps' = Count(e) \/ exps' = Handle(e))
      BY <3>2, <3>4, Handling
    <3> QED
      BY <3>1, <3>3, <3>4
  <2> QED
    BY <2>1, <2>2, OtherSteps
<1>2. Ids' = Ids
  BY <1>1 DEF Ids
<1>3. \A i \in Ids' : exps'[i].before \subseteq 1..(i - 1) /\ exps'[i].min <= exps'[i].max
  BY <1>1, <1>2 DEF ExpectationsOK
<1>4. /\ UNCHANGED <<last, implicit, test, pc>>
      /\ onCall' \subseteq Functions
  BY SetUpStays DEF ExpectationsOK
<1>5. /\ mutex' \in Threads \cup {Free}
      /\ cleared' \subseteq Functions
      /\ alive' \subseteq Mocks
  BY DEF ExpectationsOK, Engine, User, Report, Lock, Relock, Unregistered, Unlock,
         VerifyAndClearExpectationsLocked, Cleared, Call, Verify, Destroy,
         UntypedFindMatchingExpectation
<1> QED
  BY <1>1, <1>3, <1>4, <1>5 DEF ExpectationsOK

\* Before the first statement.
LEMMA InitTypes ==
  ASSUME Init
  PROVE  ExpectationsOK
<1>1. exps = <<>> /\ handled = <<>> /\ Len(exps) = 0
  BY EmptySeq DEF Init
<1>2. exps \in Seq(Expectation) /\ handled \in Seq(0..Len(exps)) /\ Ids = {}
  BY <1>1, EmptySeq DEF Ids
<1> QED
  BY <1>1, <1>2 DEF Init, ExpectationsOK

\* Stuttering.
LEMMA TypesStutter ==
  ASSUME ExpectationsOK, UNCHANGED vars
  PROVE  ExpectationsOK'
BY DEF ExpectationsOK, vars, setup, engine, Ids

\* Prerequisites point to earlier expectations whatever the clauses say, no
\* range of calls is empty, and nothing refers to an expectation not yet made.
LEMMA ExpectationsTypes == Spec => []ExpectationsOK
<1>1. Init => ExpectationsOK
  BY InitTypes
<1>2. ExpectationsOK /\ [Next]_vars => ExpectationsOK'
  BY SetUpTypes, EngineTypes, TypesStutter DEF Next
<1> QED
  BY <1>1, <1>2, PTL DEF Spec

-----------------------------------------------------------------------------
(* Counting calls.                                                         *)

\* What handled a number of calls is a number, grows with the calls, and is at
\* least one when it handled the last of them.
LEMMA HandledByIs ==
  ASSUME NEW e, NEW m \in Nat, NEW n \in Nat, m <= n
  PROVE  /\ HandledBy(e, n) \in Nat
         /\ HandledBy(e, m) <= HandledBy(e, n)
         /\ m > 0 /\ handled[m] = e => HandledBy(e, m) >= 1
<1> DEFINE M == {i \in 1..m : handled[i] = e}
           N == {i \in 1..n : handled[i] = e}
<1>1. M \subseteq N
  OBVIOUS
<1>2. IsFiniteSet(N)
  <2>1. IsFiniteSet(1..n)
    BY FS_Interval, 1 \in Int, n \in Int
  <2>2. N \in SUBSET (1..n)
    OBVIOUS
  <2> QED
    BY <2>1, <2>2, FS_Subset, Zenon
<1>3. IsFiniteSet(M)
  BY <1>1, <1>2, FS_Subset
<1>4. Cardinality(M) \in Nat /\ Cardinality(N) \in Nat /\ Cardinality(M) <= Cardinality(N)
  BY <1>1, <1>2, <1>3, FS_Subset, FS_CardinalityType
<1>5. m > 0 /\ handled[m] = e => Cardinality(M) # 0
  <2>1. m > 0 /\ handled[m] = e => m \in M
    OBVIOUS
  <2> QED
    BY <2>1, <1>3, FS_EmptySet
<1> QED
  BY <1>4, <1>5 DEF HandledBy

\* One more call adds one to what the expectation that handled it handled.
LEMMA OneMore ==
  ASSUME NEW S, handled \in Seq(S), NEW x \in S, handled' = Append(handled, x), NEW e
  PROVE  /\ Len(handled') = Len(handled) + 1
         /\ \A j \in 1..Len(handled) : handled'[j] = handled[j]
         /\ handled'[Len(handled) + 1] = x
         /\ \A n \in 0..Len(handled) : HandledBy(e, n)' = HandledBy(e, n)
         /\ HandledBy(e, Len(handled))' =
              IF x = e THEN HandledBy(e, Len(handled)) + 1 ELSE HandledBy(e, Len(handled))
<1>k. PICK k \in Nat : k = Len(handled)
  BY LenProperties
<1>1. /\ k \in Nat
      /\ Len(handled') = k + 1
      /\ \A j \in 1..k : handled'[j] = handled[j]
      /\ handled'[k + 1] = x
  BY <1>k, AppendProperties
<1>2. \A n \in 0..k : {i \in 1..n : handled'[i] = e} = {i \in 1..n : handled[i] = e}
  BY <1>1
<1>3. \A n \in 0..k : HandledBy(e, n)' = HandledBy(e, n)
  BY <1>2 DEF HandledBy
<1> DEFINE old == {i \in 1..k : handled[i] = e}
<1>4. IsFiniteSet(old) /\ k + 1 \notin old
  <2>1. IsFiniteSet(1..k)
    BY <1>1, FS_Interval, 1 \in Int, k \in Int
  <2>2. old \in SUBSET (1..k)
    OBVIOUS
  <2>3. IsFiniteSet(old)
    BY <2>1, <2>2, FS_Subset, Zenon
  <2> QED
    BY <1>1, <2>3
<1>5. {i \in 1..(k + 1) : handled'[i] = e} = IF x = e THEN old \cup {k + 1} ELSE old
  <2>1. 1..(k + 1) = 1..k \cup {k + 1}
    BY <1>1
  <2>2. {i \in 1..(k + 1) : handled'[i] = e}
          = {i \in 1..k : handled'[i] = e} \cup {i \in {k + 1} : handled'[i] = e}
    BY <2>1
  <2>3. {i \in {k + 1} : handled'[i] = e} = IF x = e THEN {k + 1} ELSE {}
    BY <1>1
  <2> QED
    BY <1>1, <2>2, <2>3
<1>6. HandledBy(e, Len(handled))' = IF x = e THEN HandledBy(e, k) + 1 ELSE HandledBy(e, k)
  <2>1. Cardinality(old \cup {k + 1}) = Cardinality(old) + 1
    BY <1>4, FS_AddElement
  <2>2. HandledBy(e, k) = Cardinality(old)
    BY DEF HandledBy
  <2>3. HandledBy(e, Len(handled))' = Cardinality({i \in 1..(k + 1) : handled'[i] = e})
    BY <1>1 DEF HandledBy
  <2> QED
    BY <1>5, <2>1, <2>2, <2>3
<1> QED
  BY <1>k, <1>1, <1>3, <1>6

-----------------------------------------------------------------------------
(* The inductive invariant.  InOrder does not carry itself: that nothing   *)
(* before a called expectation is called again holds because it was        *)
(* retired, and that needs the three facts below.                          *)

\* No call comes before the last statement of the test.
Quiet ==
  pc <= Len(test) =>
    /\ handled = <<>>
    /\ \A e \in Ids : exps[e].count = 0 /\ ~exps[e].retired
    /\ \A t \in Threads : stack[t] = <<>>

\* The counter of an expectation counts the calls it handled.
Counted == \A e \in Ids : exps[e].count = HandledBy(e, Len(handled))

\* What is retired was called as often as expected.
RetiredMet == \A e \in Ids : exps[e].retired => IsSatisfied(e)

\* Everything before an expectation that was called is retired.
Sequenced ==
  \A e \in Ids : exps[e].count > 0 /\ exps[e].max > 0 =>
    \A p \in Before(e) : exps[p].retired

IInv ==
  /\ ExpectationsOK
  /\ Quiet
  /\ Counted
  /\ RetiredBehind
  /\ RetiredMet
  /\ Sequenced
  /\ InOrder

Uncalled == handled = <<>> /\ \A e \in Ids : exps[e].count = 0 /\ ~exps[e].retired

\* Where nothing was called yet all of it holds.
LEMMA NothingCalled ==
  Uncalled => Counted /\ RetiredBehind /\ RetiredMet /\ Sequenced /\ InOrder
<1> SUFFICES ASSUME Uncalled
             PROVE  Counted /\ RetiredBehind /\ RetiredMet /\ Sequenced /\ InOrder
  OBVIOUS
<1> USE DEF Uncalled
<1>1. Len(handled) = 0
  BY EmptySeq
<1>2. \A e : HandledBy(e, 0) = 0
  <2> SUFFICES ASSUME NEW e PROVE HandledBy(e, 0) = 0
    OBVIOUS
  <2>1. {i \in 1..0 : handled[i] = e} = {}
    OBVIOUS
  <2> QED
    BY <2>1, FS_EmptySet DEF HandledBy
<1> QED
  BY <1>1, <1>2 DEF Counted, RetiredBehind, RetiredMet, Sequenced, InOrder

\* No statement of the test calls anything.
LEMMA SetUpQuiet ==
  ASSUME ExpectationsOK, Quiet, SetUp
  PROVE  /\ handled' = <<>> /\ stack' = stack
         /\ \A t \in Threads : stack[t] = <<>>
         /\ \A e \in Ids' : exps'[e].count = 0 /\ ~exps'[e].retired
<1>1. \E name, x : Statement(name, x)
  BY DEF SetUp, OnCall, Expect, With, Times, InSequence, After, WillOnce,
         WillRepeatedly, RetiresOnSaturation, Scope, Clause
<1>2. /\ pc <= Len(test) /\ handled' = handled /\ stack' = stack
  BY <1>1 DEF Statement
<1>3. /\ handled = <<>>
      /\ \A e \in Ids : exps[e].count = 0 /\ ~exps[e].retired
      /\ \A t \in Threads : stack[t] = <<>>
  BY <1>2 DEF Quiet
<1>4. \A e \in Ids' : exps'[e].count = 0 /\ ~exps'[e].retired
  <2>0. Len(exps) \in Nat /\ \A i \in Ids : exps[i] \in Expectation
    BY ElementOfSeq DEF ExpectationsOK, Ids
  <2>1. CASE exps' = exps
    BY <2>1, <1>3 DEF Ids
  <2>2. ASSUME NEW f \in Functions, NEW m \in Matchers, Expect(f, m)
        PROVE  \A e \in Ids' : exps'[e].count = 0 /\ ~exps'[e].retired
    <3> DEFINE new == [fn |-> f, accepts |-> m, extra |-> Args, min |-> 1, max |-> 1,
                       specified |-> FALSE, once |-> 0, repeated |-> FALSE,
                       retires |-> FALSE, clause |-> 0,
                       before |-> AddExpectation(implicit, Len(exps) + 1),
                       count |-> 0, retired |-> FALSE]
    <3>1. /\ exps' = Append(exps, new)
          /\ new.count = 0 /\ ~new.retired
      BY <2>2 DEF Expect
    <3> HIDE DEF new
    <3>2. /\ Len(exps') = Len(exps) + 1
          /\ \A i \in Ids : exps'[i] = exps[i]
          /\ exps'[Len(exps) + 1] = new
      <4>1. exps \in Seq(Expectation \cup {new})
        BY SeqMonotonic DEF ExpectationsOK
      <4> QED
        BY <3>1, <4>1, AppendProperties DEF Ids
    <3> QED
      BY <3>1, <3>2, <1>3, <2>0 DEF Ids
  <2>3. ASSUME NEW name, NEW x, NEW inPlace, NEW e, Clause(name, x, inPlace, e),
               exps # <<>> => e \in Expectation /\ e.count = 0 /\ e.retired = FALSE,
               Rank[name] \in 0..7
        PROVE  \A i \in Ids' : exps'[i].count = 0 /\ ~exps'[i].retired
    <3> DEFINE c == [e EXCEPT !.clause = Rank[name]]
    <3>1. c \in Expectation /\ c.count = 0 /\ ~c.retired
      BY <2>3 DEF Clause, Expectation
    <3>2. exps' = [exps EXCEPT ![Len(exps)] = c] /\ Len(exps) \in 1..Len(exps)
      BY <2>3, EmptySeq DEF Clause, ExpectationsOK
    <3> HIDE DEF c
    <3>3. /\ Len(exps') = Len(exps)
          /\ \A j \in Ids : exps'[j] = IF j = Len(exps) THEN c ELSE exps[j]
      BY <3>1, <3>2, ExceptSeq DEF ExpectationsOK, Ids
    <3> QED
      BY <3>1, <3>3, <1>3 DEF Ids
  <2>4. exps # <<>> => /\ Newest \in Expectation
                       /\ Newest.count = 0 /\ Newest.retired = FALSE
    <3>1. exps # <<>> => Len(exps) \in Ids
      BY EmptySeq DEF ExpectationsOK, Ids
    <3> QED
      BY <3>1, <2>0, <1>3 DEF Newest, Expectation
  <2>5. \A name \in DOMAIN Rank : Rank[name] \in 0..7
    BY DEF Rank
  <2>n. IntMax \in Nat /\ \A m \in Matchers : m \in SUBSET Args
    BY ConstantsAssumption
  <2>6. ASSUME NEW m \in Matchers, With(m)
        PROVE  \A i \in Ids' : exps'[i].count = 0 /\ ~exps'[i].retired
    <3>1. exps # <<>>
      BY <2>6 DEF With, Clause
    <3>2. LET c == [Newest EXCEPT !.extra = m] IN
            c \in Expectation /\ c.count = 0 /\ c.retired = FALSE
      BY <3>1, <2>4, <2>n DEF Expectation
    <3> QED
      BY <2>6, <3>2, <2>3, <2>5 DEF With, Rank
  <2>7. ASSUME NEW least \in 0..IntMax, NEW most \in 0..IntMax, Times(least, most)
        PROVE  \A i \in Ids' : exps'[i].count = 0 /\ ~exps'[i].retired
    <3>1. exps # <<>> /\ least \in Nat /\ most \in Nat
      BY <2>7, <2>n DEF Times, Clause
    <3> DEFINE c == [Newest EXCEPT !.specified = TRUE]
               b == Between(c, least, most)
    <3>2. c \in Expectation /\ c.count = 0 /\ c.retired = FALSE
      BY <3>1, <2>4, Changed
    <3> HIDE DEF c
    <3>3. b \in Expectation /\ b.count = 0 /\ b.retired = FALSE
      BY <3>1, <3>2, Changed
    <3> QED
      BY <2>7, <3>3, <2>3, <2>5 DEF Times, Rank, c
  <2>8. ASSUME NEW B \in SUBSET Nat, NEW name, NEW x, NEW inPlace, Rank[name] \in 0..7,
               Clause(name, x, inPlace, [Newest EXCEPT !.before = @ \cup B])
        PROVE  \A i \in Ids' : exps'[i].count = 0 /\ ~exps'[i].retired
    <3>1. exps # <<>>
      BY <2>8 DEF Clause
    <3>2. LET c == [Newest EXCEPT !.before = @ \cup B] IN
            c \in Expectation /\ c.count = 0 /\ c.retired = FALSE
      BY <3>1, <2>4, MoreBefore
    <3> QED
      BY <2>8, <3>2, <2>3
  <2>9. ASSUME NEW s \in SequenceNames, InSequence(s)
        PROVE  \A i \in Ids' : exps'[i].count = 0 /\ ~exps'[i].retired
    <3>1. AddExpectation({last[s]}, Len(exps)) \in SUBSET Nat
      BY <2>0 DEF AddExpectation
    <3> QED
      BY <2>9, <3>1, <2>8, <2>5 DEF InSequence, Rank
  <2>10. ASSUME NEW P \in SUBSET Ids, After(P)
         PROVE  \A i \in Ids' : exps'[i].count = 0 /\ ~exps'[i].retired
    <3>1. P \in SUBSET Nat
      BY <2>0 DEF Ids
    <3> QED
      BY <2>10, <3>1, <2>8, <2>5 DEF After, Rank
  <2>11. ASSUME NEW c \in Expectation, c.count = 0, c.retired = FALSE,
                NEW least \in Nat, NEW most \in Nat
         PROVE  LET b == Infer(c, least, most) IN
                  b \in Expectation /\ b.count = 0 /\ b.retired = FALSE
    BY <2>11, Changed DEF Infer
  <2>12. ASSUME WillOnce
         PROVE  \A i \in Ids' : exps'[i].count = 0 /\ ~exps'[i].retired
    <3>1. exps # <<>>
      BY <2>12 DEF WillOnce, Clause
    <3> DEFINE n == Newest.once + 1
               c == [Newest EXCEPT !.once = n]
               b == Infer(c, n, n)
    <3>2. n \in Nat
      BY <3>1, <2>4 DEF Expectation
    <3>3. c \in Expectation /\ c.count = 0 /\ c.retired = FALSE
      BY <3>1, <3>2, <2>4, Changed
    <3>4. b \in Expectation /\ b.count = 0 /\ b.retired = FALSE
      BY <3>2, <3>3, <2>11
    <3> QED
      BY <2>12, <3>4, <2>3, <2>5 DEF WillOnce, Rank
  <2>13. ASSUME WillRepeatedly
         PROVE  \A i \in Ids' : exps'[i].count = 0 /\ ~exps'[i].retired
    <3>1. exps # <<>>
      BY <2>13 DEF WillRepeatedly, Clause
    <3> DEFINE c == [Newest EXCEPT !.repeated = TRUE]
               b == Infer(c, Newest.once, IntMax)
    <3>2. Newest.once \in Nat
      BY <3>1, <2>4 DEF Expectation
    <3>3. c \in Expectation /\ c.count = 0 /\ c.retired = FALSE
      BY <3>1, <2>4, Changed
    <3>4. b \in Expectation /\ b.count = 0 /\ b.retired = FALSE
      BY <3>2, <3>3, <2>11, <2>n
    <3> QED
      BY <2>13, <3>4, <2>3, <2>5 DEF WillRepeatedly, Rank
  <2>14. ASSUME RetiresOnSaturation
         PROVE  \A i \in Ids' : exps'[i].count = 0 /\ ~exps'[i].retired
    <3>1. exps # <<>>
      BY <2>14 DEF RetiresOnSaturation, Clause
    <3> DEFINE c == [Newest EXCEPT !.retires = TRUE]
    <3>2. c \in Expectation /\ c.count = 0 /\ c.retired = FALSE
      BY <3>1, <2>4, Changed
    <3> QED
      BY <2>14, <3>2, <2>3, <2>5 DEF RetiresOnSaturation, Rank
  <2>15. ASSUME Scope \/ \E f \in Functions : OnCall(f)
         PROVE  exps' = exps
    BY <2>15 DEF Scope, OnCall
  <2> QED
    BY <2>1, <2>2, <2>6, <2>7, <2>9, <2>10, <2>12, <2>13, <2>14, <2>15 DEF SetUp
<1> QED
  BY <1>2, <1>3, <1>4

-----------------------------------------------------------------------------
(* A call that an expectation handles.                                     *)

\* Retired are the prerequisites of e, theirs, and perhaps e, which is
\* behind all of them.
LEMMA RetiredTogether ==
  ASSUME IInv, NEW e \in Ids, exps' = Count(e) \/ exps' = Handle(e)
  PROVE  /\ RetiredBehind'
         /\ exps' = Handle(e) => \A p \in Before(e) : exps'[p].retired
<1> DEFINE T == {q \in Ids : ~exps[q].retired}
<1>1. /\ Ids' = Ids
      /\ \A i \in Ids : exps'[i].before = exps[i].before /\ exps[i].before \subseteq Ids
  BY Handling, Fields DEF IInv, Ids
<1>2. \A q \in Ids : exps[q].retired => \A p \in exps[q].before : exps[p].retired
  BY DEF IInv, RetiredBehind
<1>3. CASE exps' = Count(e) /\ exps' # Handle(e)
  <2>1. \A i \in Ids : exps'[i].retired = exps[i].retired
    BY <1>3, Handling DEF IInv
  <2>2. RetiredBehind'
    BY <1>1, <1>2, <2>1 DEF RetiredBehind
  <2> QED
    BY <1>3, <2>2
<1>4. CASE exps' = Handle(e)
  <2> DEFINE gone(i) == \/ exps[i].retired \/ i \in Prerequisites(e)
                        \/ i = e /\ exps[e].retires /\ exps[e].count + 1 >= exps[e].max
  <2>1. \A i \in Ids : exps'[i].retired = gone(i)
    BY <1>4, Handling DEF IInv
  <2>2. /\ exps[e].before \subseteq Prerequisites(e)
        /\ \A q \in Prerequisites(e) \cap T : exps[q].before \subseteq Prerequisites(e)
        /\ Prerequisites(e) \subseteq Ids
    BY ReachIsClosed, ReachIsIds DEF Prerequisites, IInv
  <2>3. \A q \in Ids : exps'[q].retired => \A p \in exps[q].before : exps'[p].retired
    <3> SUFFICES ASSUME NEW q \in Ids, gone(q), NEW p \in exps[q].before
                 PROVE  gone(p)
      BY <1>1, <2>1
    <3>1. CASE exps[q].retired
      BY <3>1, <1>2
    <3>2. CASE ~exps[q].retired /\ q \in Prerequisites(e)
      BY <3>2, <2>2
    <3>3. CASE q = e
      BY <3>3, <2>2
    <3> QED
      BY <3>1, <3>2, <3>3
  <2>4. RetiredBehind'
    BY <1>1, <2>3 DEF RetiredBehind
  <2> DEFINE G == {q \in Ids : exps'[q].retired}
  <2>5. exps[e].before \subseteq G
    BY <1>1, <2>1, <2>2
  <2>6. \A q \in G \cap Ids : exps[q].before \subseteq G
    BY <1>1, <2>3
  <2>g. G \in SUBSET Ids
    OBVIOUS
  <2> HIDE DEF G
  <2>7. Before(e) \subseteq G
    BY <2>g, <2>5, <2>6, ReachIsLeast DEF Before
  <2> QED
    BY <2>4, <2>7 DEF G
<1> QED
  BY <1>3, <1>4

\* The state of the expectations stays as the invariant has it.
LEMMA HandlingKeepsStates ==
  ASSUME IInv, NEW e \in Ids, NEW a, ShouldHandleArguments(e, a),
         \/ IsSaturated(e) /\ exps' = Count(e)
         \/ ~IsSaturated(e) /\ exps' = Handle(e)
  PROVE  RetiredMet' /\ Sequenced'
<1>1. /\ Ids' = Ids
      /\ \A i \in Ids : /\ exps'[i].before = exps[i].before
                        /\ exps'[i].min = exps[i].min /\ exps'[i].max = exps[i].max
                        /\ exps'[i].count = IF i = e THEN exps[i].count + 1 ELSE exps[i].count
      /\ Len(exps') = Len(exps)
  BY Handling DEF IInv, Ids
<1>2. ~exps[e].retired /\ \A p \in Before(e) : IsSatisfied(p)
  BY DEF ShouldHandleArguments, AllPrerequisitesAreSatisfied, Before
<1>3. Before(e) \subseteq Ids /\ e \notin Before(e) /\ Prerequisites(e) \subseteq Before(e)
  <2>1. Prerequisites(e) \subseteq Before(e)
    <3>1. /\ exps[e].before \subseteq Before(e)
          /\ \A q \in Before(e) \cap Ids : exps[q].before \subseteq Before(e)
      BY ReachIsClosed DEF Before, IInv
    <3>2. Before(e) \in SUBSET Ids
      BY ReachIsIds DEF Before
    <3> QED
      BY <3>1, <3>2, ReachIsLeast DEF Prerequisites
  <2>2. Before(e) \subseteq 1..(e - 1) /\ e \in Nat
    BY ReachIsEarlier DEF Before, IInv, ExpectationsOK, Ids
  <2> QED
    BY <2>1, <2>2, ReachIsIds DEF Before
<1>4. \A i \in Ids : IsSatisfied(i)' <=> exps'[i].min <= exps'[i].count /\ exps'[i].count <= exps'[i].max
  BY DEF IsSatisfied
<1>5. \A i \in Ids \ {e} : IsSatisfied(i)' <=> IsSatisfied(i)
  BY <1>1, <1>4 DEF IsSatisfied
<1>6. ASSUME NEW i \in Ids, exps'[i].retired PROVE IsSatisfied(i)'
  <2>1. CASE i # e /\ exps[i].retired
    BY <1>5, <2>1 DEF IInv, RetiredMet
  <2>2. CASE i # e /\ ~exps[i].retired
    <3>1. i \in Prerequisites(e)
      BY <1>6, <2>2, Handling DEF IInv
    <3> QED
      BY <3>1, <1>2, <1>3, <1>5, <2>2
  <2>3. CASE i = e
    <3>1. exps' = Handle(e) /\ ~IsSaturated(e) /\ exps[e].count + 1 >= exps[e].max
      BY <1>2, <1>3, <1>6, <2>3, Handling DEF IInv
    <3> QED
      BY <1>1, <1>4, <2>3, <3>1, Fields DEF IsSaturated, IInv
  <2> QED
    BY <2>1, <2>2, <2>3
<1>7. RetiredMet'
  BY <1>1, <1>6 DEF RetiredMet
<1>8. \A i \in Ids : Before(i)' = Before(i)
  BY <1>1, BeforeStays
<1>9. \A i \in Ids : exps[i].retired => exps'[i].retired
  BY Handling DEF IInv
<1>10. ASSUME NEW i \in Ids, exps'[i].count > 0, exps'[i].max > 0, NEW p \in Before(i)
       PROVE  exps'[p].retired
  <2>0. p \in Ids
    BY ReachIsIds DEF Before
  <2>1. CASE exps[i].count > 0
    BY <1>1, <1>9, <1>10, <2>0, <2>1 DEF IInv, Sequenced
  <2>2. CASE ~(exps[i].count > 0)
    <3>1. i = e /\ exps[e].count = 0 /\ exps[e].max > 0
      BY <1>1, <1>10, <2>2, Fields DEF IInv
    <3>2. ~IsSaturated(e)
      BY <3>1, Fields DEF IsSaturated, IInv
    <3> QED
      BY <3>1, <3>2, <1>10, RetiredTogether
  <2> QED
    BY <2>1, <2>2
<1>11. Sequenced'
  BY <1>1, <1>8, <1>10 DEF Sequenced
<1> QED
  BY <1>7, <1>11

\* One more call, handled by e or by none, comes in order.
LEMMA OneMoreInOrder ==
  ASSUME IInv, NEW e \in 0..Len(exps), handled' = Append(handled, e),
         \/ e = 0 /\ exps' = exps
         \/ /\ e \in Ids
            /\ exps' = Count(e) \/ exps' = Handle(e)
            /\ \E a : ShouldHandleArguments(e, a)
  PROVE  Counted' /\ InOrder'
<1>k. PICK k \in Nat : k = Len(handled)
  BY LenProperties DEF IInv, ExpectationsOK
<1>0. /\ \A i : /\ \A n \in 0..k : HandledBy(i, n)' = HandledBy(i, n)
                /\ HandledBy(i, Len(handled))' =
                     IF e = i THEN HandledBy(i, k) + 1 ELSE HandledBy(i, k)
      /\ Len(handled') = k + 1
      /\ \A j \in 1..k : handled'[j] = handled[j]
      /\ handled'[k + 1] = e
  BY <1>k, OneMore DEF IInv, ExpectationsOK
<1>1. /\ Ids' = Ids
      /\ \A i \in Ids : /\ exps'[i].before = exps[i].before
                        /\ exps'[i].min = exps[i].min /\ exps'[i].max = exps[i].max
                        /\ exps'[i].count = IF i = e THEN exps[i].count + 1 ELSE exps[i].count
      /\ Len(exps') = Len(exps)
  <2>1. e = 0 => e \notin Ids
    BY DEF Ids
  <2> QED
    BY <2>1, Handling DEF IInv, Ids
<1>2. \A i \in Ids : exps[i].count = HandledBy(i, k)
  BY <1>k DEF IInv, Counted
<1>3. Counted'
  <2>1. \A i \in Ids : exps'[i].count = HandledBy(i, Len(handled))'
    BY <1>0, <1>1, <1>2
  <2> QED
    BY <1>1, <2>1 DEF Counted
<1>4. \A i \in Ids : Before(i)' = Before(i) /\ Before(i) \subseteq Ids
  BY <1>1, BeforeStays, ReachIsIds DEF Before
<1>5. \A p \in Ids : p # e => HandledBy(p, Len(handled))' = HandledBy(p, k)
  BY <1>0
<1>6. ASSUME e \in Ids, NEW p \in Before(e)
      PROVE  /\ HandledBy(p, k) \in exps[p].min..exps[p].max
             /\ p # e
  <2>1. p \in Ids /\ IsSatisfied(p)
    BY <1>4, <1>6 DEF ShouldHandleArguments, AllPrerequisitesAreSatisfied, Before, Ids
  <2>2. HandledBy(p, k) \in exps[p].min..exps[p].max
    BY <2>1, <1>2, Fields DEF IsSatisfied, IInv
  <2>3. p \in 1..(e - 1) /\ e \in Nat
    BY <1>6, ReachIsEarlier DEF Before, IInv, ExpectationsOK, Ids
  <2> QED
    BY <2>2, <2>3
<1>7. ASSUME NEW h \in Ids, NEW j \in 1..k, handled[j] = h, NEW p \in Before(h)
      PROVE  /\ p \in Ids
             /\ HandledBy(p, j - 1) \in exps[p].min..exps[p].max
             /\ HandledBy(h, j) <= exps[h].max =>
                  HandledBy(p, k) = HandledBy(p, j - 1) /\ p # e
  <2>1. /\ p \in Ids
        /\ HandledBy(p, j - 1) \in exps[p].min..exps[p].max
        /\ HandledBy(h, j) <= exps[h].max => HandledBy(p, k) = HandledBy(p, j - 1)
    BY <1>k, <1>4, <1>7 DEF IInv, InOrder, Before
  <2>2. ASSUME HandledBy(h, j) <= exps[h].max PROVE p # e
    <3>1. /\ HandledBy(h, j) \in Nat /\ HandledBy(h, k) \in Nat
          /\ HandledBy(h, j) <= HandledBy(h, k)
          /\ HandledBy(h, j) >= 1
      BY <1>7, HandledByIs
    <3>2. exps[h].count > 0 /\ exps[h].max > 0
      BY <3>1, <2>2, <1>2, Fields DEF IInv
    <3>3. exps[p].retired
      BY <1>7, <3>2 DEF IInv, Sequenced
    <3> QED
      BY <2>1, <3>3 DEF ShouldHandleArguments, Ids
  <2> QED
    BY <2>1, <2>2
<1>8. ASSUME NEW h \in Ids, NEW j \in 1..(k + 1), handled'[j] = h, NEW p \in Before(h)
      PROVE  /\ p \in Ids
             /\ HandledBy(p, j - 1)' \in exps[p].min..exps[p].max
             /\ HandledBy(h, j)' <= exps[h].max =>
                  HandledBy(p, Len(handled))' = HandledBy(p, j - 1)'
  <2>1. CASE j \in 1..k
    <3>1. /\ h = handled[j]
          /\ HandledBy(p, j - 1)' = HandledBy(p, j - 1)
          /\ HandledBy(h, j)' = HandledBy(h, j)
      BY <1>0, <1>8, <2>1
    <3>2. /\ p \in Ids
          /\ HandledBy(p, j - 1) \in exps[p].min..exps[p].max
          /\ HandledBy(h, j) <= exps[h].max => HandledBy(p, k) = HandledBy(p, j - 1) /\ p # e
      BY <3>1, <2>1, <1>7, <1>8
    <3> QED
      BY <3>1, <3>2, <1>5
  <2>2. CASE j = k + 1
    <3>1. h = e /\ e \in Ids /\ HandledBy(p, j - 1)' = HandledBy(p, k)
      <4>1. h = e /\ j - 1 = k /\ k \in 0..k
        BY <1>0, <1>8, <2>2
      <4> QED
        BY <4>1, <1>0, <1>8
    <3> QED
      BY <3>1, <1>4, <1>5, <1>6, <1>8
  <2>3. j \in 1..k \/ j = k + 1
    OBVIOUS
  <2> QED
    BY <2>1, <2>2, <2>3
<1>9. InOrder'
  BY <1>0, <1>1, <1>4, <1>8 DEF InOrder, Before
<1> QED
  BY <1>3, <1>9

-----------------------------------------------------------------------------
(* The invariant holds, and what follows from it.                          *)

\* It says nothing of the rest of the state.
LEMMA SameCalls ==
  ASSUME Counted, RetiredBehind, RetiredMet, Sequenced, InOrder, UNCHANGED <<exps, handled>>
  PROVE  (Counted /\ RetiredBehind /\ RetiredMet /\ Sequenced /\ InOrder)'
<1>1. Ids' = Ids
  BY DEF Ids
<1>2. Counted'
  BY <1>1 DEF Counted, HandledBy
<1>3. RetiredBehind'
  BY <1>1 DEF RetiredBehind
<1>4. RetiredMet'
  BY <1>1 DEF RetiredMet, IsSatisfied
<1>5. \A e \in Ids : Before(e)' = Before(e)
  BY BeforeStays
<1>6. Sequenced'
  BY <1>1, <1>5 DEF Sequenced
<1>7. \A e, n : HandledBy(e, n)' = HandledBy(e, n)
  BY DEF HandledBy
<1>8. \A e : HandledBy(e, Len(handled))' = HandledBy(e, Len(handled))
  BY DEF HandledBy
<1>9. InOrder'
  BY <1>1, <1>5, <1>7, <1>8 DEF InOrder, Before
<1> QED
  BY <1>2, <1>3, <1>4, <1>6, <1>9

\* The statements of the test keep the invariant,
LEMMA SetUpKeepsIInv ==
  ASSUME IInv, SetUp
  PROVE  IInv'
<1>1. ExpectationsOK'
  BY SetUpTypes DEF IInv
<1>2. /\ handled' = <<>> /\ stack' = stack
      /\ \A t \in Threads : stack[t] = <<>>
      /\ \A e \in Ids' : exps'[e].count = 0 /\ ~exps'[e].retired
  BY SetUpQuiet DEF IInv
<1>3. Quiet'
  BY <1>2 DEF Quiet
<1>4. (Counted /\ RetiredBehind /\ RetiredMet /\ Sequenced /\ InOrder)'
  <2>1. Uncalled'
    BY <1>2 DEF Uncalled
  <2> QED
    BY <2>1, NothingCalled, PTL
<1> QED
  BY <1>1, <1>3, <1>4 DEF IInv

\* the threads begin behind the last of them
LEMMA NotBefore ==
  ASSUME IInv, NEW t \in Threads, Engine(t) \/ User(t)
  PROVE  ~(pc <= Len(test))
<1>1. CASE Engine(t)
  <2>1. stack[t] # <<>>
    BY <1>1 DEF Engine, UntypedFindMatchingExpectation, Report, Lock, Relock,
         Unregistered, Unlock, VerifyAndClearExpectationsLocked, Cleared, At
  <2> QED
    BY <2>1 DEF IInv, Quiet
<1>2. CASE User(t)
  <2>1. pc > Len(test)
    BY <1>2 DEF User, Call, Verify, Destroy, InUserCode
  <2>2. Len(test) \in Nat /\ pc \in Nat
    BY ConstantsAssumption DEF IInv, ExpectationsOK
  <2> QED
    BY <2>1, <2>2
<1> QED
  BY <1>1, <1>2

\* and keep it in every call, verification and destruction,
LEMMA ThreadKeepsIInv ==
  ASSUME IInv, NEW t \in Threads, Engine(t) \/ User(t)
  PROVE  IInv'
<1>1. ExpectationsOK'
  BY EngineTypes DEF IInv
<1>2. Quiet'
  <2>1. UNCHANGED <<test, pc>>
    BY SetUpStays
  <2>2. ~(pc <= Len(test))
    BY NotBefore
  <2> QED
    BY <2>1, <2>2 DEF Quiet
<1>3. CASE UNCHANGED <<exps, handled>>
  <2>1. (Counted /\ RetiredBehind /\ RetiredMet /\ Sequenced /\ InOrder)'
    BY <1>3, SameCalls DEF IInv
  <2> QED
    BY <1>1, <1>2, <2>1 DEF IInv
<1>4. CASE UntypedFindMatchingExpectation(t)
  <2>1. PICK e \in 0..Len(exps) :
          /\ handled' = Append(handled, e)
          /\ \/ e = 0 /\ exps' = exps
             \/ /\ e \in Ids
                /\ ShouldHandleArguments(e, Top(t).arg)
                /\ \/ IsSaturated(e) /\ exps' = Count(e)
                   \/ ~IsSaturated(e) /\ exps' = Handle(e)
    BY <1>4, Search DEF IInv
  <2>2. Counted' /\ InOrder'
    BY <2>1, OneMoreInOrder
  <2>3. RetiredBehind' /\ RetiredMet' /\ Sequenced'
    <3>1. CASE e = 0 /\ exps' = exps
      <4>1. Ids' = Ids /\ \A i \in Ids : Before(i)' = Before(i)
        BY <3>1, BeforeStays DEF Ids
      <4> QED
        BY <3>1, <4>1 DEF IInv, RetiredBehind, RetiredMet, Sequenced, IsSatisfied
    <3>2. CASE exps' # exps \/ e # 0
      BY <2>1, <3>2, RetiredTogether, HandlingKeepsStates
    <3> QED
      BY <3>1, <3>2
  <2> QED
    BY <1>1, <1>2, <2>2, <2>3 DEF IInv
<1> QED
  BY <1>3, <1>4, OtherSteps

\* and stuttering.
LEMMA IInvStutters ==
  ASSUME IInv, UNCHANGED vars
  PROVE  IInv'
<1>1. ExpectationsOK'
  BY TypesStutter DEF IInv
<1>2. UNCHANGED <<exps, handled, test, pc, stack>>
  BY DEF vars, setup, engine
<1>3. Quiet'
  BY <1>2 DEF IInv, Quiet, Ids
<1>4. (Counted /\ RetiredBehind /\ RetiredMet /\ Sequenced /\ InOrder)'
  BY <1>2, SameCalls DEF IInv
<1> QED
  BY <1>1, <1>3, <1>4 DEF IInv

\* It holds before the first statement.
LEMMA InitInductive ==
  ASSUME Init
  PROVE  IInv
<1>1. ExpectationsOK
  BY InitTypes
<1>2. handled = <<>> /\ (\A t \in Threads : stack[t] = <<>>) /\ Ids = {}
  BY EmptySeq DEF Init, Ids
<1>3. Quiet
  BY <1>2 DEF Quiet
<1> QED
  BY <1>1, <1>2, <1>3, NothingCalled DEF IInv, Uncalled

\* The strengthening, in every reachable state.
THEOREM Inductive == Spec => []IInv
<1>1. Init => IInv
  BY InitInductive
<1>2. IInv /\ [Next]_vars => IInv'
  BY SetUpKeepsIInv, ThreadKeepsIInv, IInvStutters DEF Next
<1> QED
  BY <1>1, <1>2, PTL DEF Spec

\* RetireAllPreRequisites() may stop at a retired expectation: all behind it
\* are retired, however the prerequisites branch and join.
THEOREM RetiredBehindAlways == Spec => []RetiredBehind
<1>1. IInv => RetiredBehind
  BY DEF IInv
<1> QED
  BY <1>1, Inductive, PTL

\* FindUnsatisfiedPrerequisites() may stop at an expectation that was called:
\* all behind it are satisfied, so it finds none exactly when there is none.
THEOREM ExplainedAlways == Spec => []Explained
<1>1. ASSUME IInv, NEW e \in Ids
      PROVE  AllPrerequisitesAreSatisfied(e) <=> FindUnsatisfiedPrerequisites(e) = {}
  <2> DEFINE T == {q \in Ids : IsSatisfied(q) /\ exps[q].count = 0}
             V == Reach(e, T)
  <2>0. V \in SUBSET Ids /\ ExpectationsOK
    BY <1>1, ReachIsIds DEF IInv
  <2>1. exps[e].before \subseteq V /\ \A q \in V \cap T : exps[q].before \subseteq V
    BY <2>0, ReachIsClosed
  <2>2. V \subseteq Before(e)
    <3>1. /\ exps[e].before \subseteq Before(e)
          /\ \A q \in Before(e) \cap Ids : exps[q].before \subseteq Before(e)
      BY <2>0, ReachIsClosed DEF Before
    <3>2. Before(e) \in SUBSET Ids
      BY ReachIsIds DEF Before
    <3> QED
      BY <3>1, <3>2, ReachIsLeast
  <2>3. ASSUME AllPrerequisitesAreSatisfied(e) PROVE FindUnsatisfiedPrerequisites(e) = {}
    BY <2>2, <2>3 DEF AllPrerequisitesAreSatisfied, FindUnsatisfiedPrerequisites, Before
  <2>4. ASSUME FindUnsatisfiedPrerequisites(e) = {} PROVE AllPrerequisitesAreSatisfied(e)
    <3> DEFINE S == {p \in Ids : IsSatisfied(p) /\ (p \in V \/ exps[p].retired)}
    <3>1. \A p \in V : IsSatisfied(p)
      BY <2>4 DEF FindUnsatisfiedPrerequisites
    <3>2. \A p \in Ids : exps[p].retired => IsSatisfied(p)
      BY <1>1 DEF IInv, RetiredMet
    <3>3. V \subseteq S
      BY <2>0, <3>1
    <3>4. ASSUME NEW q \in S PROVE exps[q].before \subseteq S
      <4>0. exps[q].before \subseteq Ids
        BY <2>0, Fields
      <4>1. CASE exps[q].retired
        BY <1>1, <3>2, <4>0, <4>1 DEF IInv, RetiredBehind
      <4>2. CASE q \in V /\ exps[q].count = 0
        BY <2>1, <3>1, <3>3, <4>2
      <4>3. CASE exps[q].count # 0
        <5>1. exps[q].count > 0 /\ exps[q].max > 0
          BY <2>0, <4>3, Fields DEF IsSatisfied
        <5>2. \A p \in Before(q) : exps[p].retired
          BY <1>1, <5>1 DEF IInv, Sequenced
        <5>3. exps[q].before \subseteq Before(q)
          BY <2>0, ReachIsClosed DEF Before
        <5> QED
          BY <3>2, <4>0, <5>2, <5>3
      <4> QED
        BY <4>1, <4>2, <4>3
    <3>5. S \in SUBSET Ids
      OBVIOUS
    <3> HIDE DEF S
    <3>6. Before(e) \subseteq S
      BY <2>1, <3>3, <3>4, <3>5, ReachIsLeast DEF Before
    <3> QED
      BY <3>6 DEF AllPrerequisitesAreSatisfied, Before, S
  <2> QED
    BY <2>3, <2>4
<1>2. IInv => Explained
  BY <1>1 DEF Explained
<1> QED
  BY <1>2, Inductive, PTL

\* Expectations are called in the order their sequences and After() clauses
\* ask for, each predecessor as often as it should be, by any threads.
THEOREM InOrderAlways == Spec => []InOrder
<1>1. IInv => InOrder
  BY DEF IInv
<1> QED
  BY <1>1, Inductive, PTL

-----------------------------------------------------------------------------
(* The calls a thread is in.                                               *)

\* What may be on top of them.
LEMMA TopFrame ==
  ASSUME ThreadsOK, NEW t \in Threads, stack[t] # <<>>
  PROVE  /\ Len(stack[t]) \in Nat \ {0}
         /\ \A i \in 1..Len(stack[t]) : stack[t][i] \in Frame
         /\ Top(t) \in Frame /\ Top(t) \in Frames(t)
<1>1. stack[t] \in Seq(Frame)
  BY DEF ThreadsOK
<1>2. Len(stack[t]) \in Nat \ {0} /\ \A i \in 1..Len(stack[t]) : stack[t][i] \in Frame
  BY <1>1, EmptySeq, ElementOfSeq, LenProperties
<1> QED
  BY <1>2 DEF Top, Frames

\* One more,
LEMMA PushStep ==
  ASSUME ThreadsOK, NEW t \in Threads, NEW s \in Frame, Push(t, s)
  PROVE  /\ stack' \in [Threads -> Seq(Frame)] /\ started' \in Nat
         /\ Frames(t)' = Frames(t) \cup {s}
         /\ \A u \in Threads \ {t} : Frames(u)' = Frames(u)
<1>1. /\ stack \in [Threads -> Seq(Frame)] /\ stack[t] \in Seq(Frame) /\ started \in Nat
      /\ stack' = [stack EXCEPT ![t] = Append(stack[t], s)] /\ started' = started + 1
  BY DEF ThreadsOK, Push
<1>2. /\ Append(stack[t], s) \in Seq(Frame)
      /\ Len(Append(stack[t], s)) = Len(stack[t]) + 1
      /\ \A i \in 1..Len(stack[t]) : Append(stack[t], s)[i] = stack[t][i]
      /\ Append(stack[t], s)[Len(stack[t]) + 1] = s
      /\ Len(stack[t]) \in Nat
  BY <1>1, AppendProperties, LenProperties
<1>3. /\ stack'[t] = Append(stack[t], s)
      /\ \A u \in Threads \ {t} : stack'[u] = stack[u]
  BY <1>1
<1>4. Frames(t)' = Frames(t) \cup {s}
  <2>1. \A i \in 1..(Len(stack[t]) + 1) : i \in 1..Len(stack[t]) \/ i = Len(stack[t]) + 1
    BY <1>2
  <2>2. Frames(t)' = {stack'[t][i] : i \in 1..(Len(stack[t]) + 1)}
    BY <1>2, <1>3 DEF Frames
  <2> QED
    BY <1>2, <1>3, <2>1, <2>2 DEF Frames
<1> QED
  BY <1>1, <1>2, <1>3, <1>4 DEF Frames

\* the one on top changed,
LEMMA MoveStep ==
  ASSUME ThreadsOK, NEW t \in Threads, stack[t] # <<>>, NEW s \in Frame, Move(t, s)
  PROVE  /\ stack' \in [Threads -> Seq(Frame)] /\ started' \in Nat
         /\ s \in Frames(t)' /\ Frames(t)' \subseteq Frames(t) \cup {s}
         /\ Frames(t) \subseteq Frames(t)' \cup {Top(t)}
         /\ \A u \in Threads \ {t} : Frames(u)' = Frames(u)
<1> DEFINE n == Len(stack[t])
           new == [stack[t] EXCEPT ![n] = s]
<1>1. /\ stack \in [Threads -> Seq(Frame)] /\ stack[t] \in Seq(Frame) /\ started \in Nat
      /\ stack' = [stack EXCEPT ![t] = new] /\ started' = started
  BY DEF ThreadsOK, Move
<1>2. n \in 1..n /\ n \in Nat
  BY TopFrame
<1>3. new \in Seq(Frame) /\ Len(new) = n /\ \A i \in 1..n : new[i] = IF i = n THEN s ELSE stack[t][i]
  BY <1>1, <1>2, ExceptSeq
<1>4. stack'[t] = new /\ \A u \in Threads \ {t} : stack'[u] = stack[u]
  BY <1>1
<1>5. Frames(t)' = {new[i] : i \in 1..n}
  BY <1>3, <1>4 DEF Frames
<1> HIDE DEF new
<1> QED
  BY <1>1, <1>2, <1>3, <1>4, <1>5 DEF Frames, Top

\* and one less.
LEMMA PopStep ==
  ASSUME ThreadsOK, NEW t \in Threads, stack[t] # <<>>, Pop(t)
  PROVE  /\ stack' \in [Threads -> Seq(Frame)] /\ started' \in Nat
         /\ Frames(t)' \subseteq Frames(t)
         /\ Frames(t) \subseteq Frames(t)' \cup {Top(t)}
         /\ \A u \in Threads \ {t} : Frames(u)' = Frames(u)
<1> DEFINE n == Len(stack[t])
           new == SubSeq(stack[t], 1, n - 1)
<1>1. /\ stack \in [Threads -> Seq(Frame)] /\ stack[t] \in Seq(Frame) /\ started \in Nat
      /\ stack' = [stack EXCEPT ![t] = new] /\ started' = started
  BY DEF ThreadsOK, Pop
<1>2. n \in Nat \ {0} /\ \A i \in 1..n : stack[t][i] \in Frame
  BY TopFrame
<1>3. new \in Seq(Frame) /\ Len(new) = n - 1 /\ \A i \in 1..(n - 1) : new[i] = stack[t][i]
  <2>1. 1 \in Int /\ n - 1 \in Int /\ \A i \in 1..(n - 1) : stack[t][i] \in Frame
    BY <1>2
  <2>2. /\ new \in Seq(Frame)
        /\ Len(new) = IF 1 <= n - 1 THEN (n - 1) - 1 + 1 ELSE 0
        /\ \A i \in 1..((n - 1) - 1 + 1) : new[i] = stack[t][1 + i - 1]
    BY <2>1, SubSeqProperties
  <2> HIDE DEF new
  <2> QED
    BY <1>2, <2>2
<1>4. stack'[t] = new /\ \A u \in Threads \ {t} : stack'[u] = stack[u]
  BY <1>1
<1>5. Frames(t)' = {new[i] : i \in 1..(n - 1)}
  BY <1>3, <1>4 DEF Frames
<1> HIDE DEF new
<1>6. \A i \in 1..n : i \in 1..(n - 1) \/ i = n
  BY <1>2
<1>7. 1..(n - 1) \subseteq 1..n
  BY <1>2
<1>8. stack' \in [Threads -> Seq(Frame)] /\ started' \in Nat
  BY <1>1, <1>3
<1>9. Frames(t)' \subseteq Frames(t) /\ Frames(t) \subseteq Frames(t)' \cup {Top(t)}
  BY <1>3, <1>5, <1>6, <1>7 DEF Frames, Top
<1>10. \A u \in Threads \ {t} : Frames(u)' = Frames(u)
  BY <1>4 DEF Frames
<1> QED
  BY <1>8, <1>9, <1>10

-----------------------------------------------------------------------------
(* The verdict.                                                            *)

\* A call is one of a mocked function, and is told of something, an expectation
\* if it was one too many, only between its action and its report.
Told ==
  \A t \in Threads : \A s \in Frames(t) :
    /\ s.told # "" => s.op = "call" /\ s.at = "perform"
    /\ s.told = "excessive" => s.exp \in Ids
    /\ s.op = "call" => s.fn \in Functions

\* A call too many of e is not reported yet.
Awaited(e) == \E t \in Threads : \E s \in Frames(t) : s.exp = e /\ s.told = "excessive"

LEMMA UpToIsNat == ASSUME NEW n \in Nat, NEW i \in 0..n PROVE i \in Nat
OBVIOUS

Tellings == {"", "uninteresting", "unexpected", "excessive"}

\* Between the search and the report of a call the test is told of nothing.
LEMMA CallFrames ==
  ASSUME TypeOK, Told, NEW t \in Threads, NEW e, e \in 0..Len(exps),
         NEW told \in Tellings, NEW acts \in BOOLEAN,
         At(t, {"call"}, "enter"), Answer(t, e, told, acts),
         Ids' = Ids, told = "excessive" => e \in Ids
  PROVE  /\ stack' \in [Threads -> Seq(Frame)] /\ started' \in Nat
         /\ Told'
         /\ \A x : Awaited(x)' <=> Awaited(x) \/ (told = "excessive" /\ x = e)
<1> DEFINE s == [Top(t) EXCEPT !.at = "perform", !.exp = e, !.told = told,
                               !.users = acts \/ Top(t).fn \in onCall]
<1>1. /\ stack[t] # <<>> /\ Top(t) \in Frame /\ Top(t) \in Frames(t)
      /\ Top(t).op = "call" /\ Top(t).at = "enter" /\ Top(t).told = ""
      /\ Top(t).fn \in Functions
  BY TopFrame DEF At, Told, TypeOK
<1>2. /\ s \in Frame /\ s.op = "call" /\ s.at = "perform" /\ s.exp = e /\ s.told = told
      /\ s.fn \in Functions
  <2>0. exps \in Seq(Expectation)
    BY DEF TypeOK, ExpectationsOK
  <2>1. e \in Nat
    <3>1. Len(exps) \in Nat
      BY <2>0, LenProperties
    <3> QED
      BY <3>1, UpToIsNat
  <2> DEFINE b == acts \/ Top(t).fn \in onCall
  <2>2. b \in BOOLEAN
    OBVIOUS
  <2> HIDE DEF b
  <2>3. LET r == [Top(t) EXCEPT !.at = "perform", !.exp = e, !.told = told, !.users = b] IN
          /\ r \in Frame /\ r.op = "call" /\ r.at = "perform" /\ r.exp = e /\ r.told = told
          /\ r.fn \in Functions
    BY <1>1, <2>1, <2>2 DEF Frame, Tellings
  <2> QED
    BY <2>3 DEF b
<1>3. Move(t, s)
  BY DEF Answer
<1> HIDE DEF s
<1>4. /\ stack' \in [Threads -> Seq(Frame)] /\ started' \in Nat
      /\ s \in Frames(t)' /\ Frames(t)' \subseteq Frames(t) \cup {s}
      /\ Frames(t) \subseteq Frames(t)' \cup {Top(t)}
      /\ \A u \in Threads \ {t} : Frames(u)' = Frames(u)
  BY <1>1, <1>2, <1>3, MoveStep DEF TypeOK
<1>5. Told'
  BY <1>2, <1>4 DEF Told
<1>6. ASSUME NEW x PROVE Awaited(x)' <=> Awaited(x) \/ (told = "excessive" /\ x = e)
  BY <1>1, <1>2, <1>4 DEF Awaited
<1> QED
  BY <1>4, <1>5, <1>6

\* The report tells the test of what was awaited.
LEMMA ReportFrames ==
  ASSUME TypeOK, Told, NEW t \in Threads, Report(t)
  PROVE  /\ stack' \in [Threads -> Seq(Frame)] /\ started' \in Nat
         /\ Told'
         /\ \A x : /\ (Awaited(x) \/ <<"excessive", x>> \in failures)'
                        <=> Awaited(x) \/ <<"excessive", x>> \in failures
                   /\ <<"unsatisfied", x>> \in failures' <=> <<"unsatisfied", x>> \in failures
         /\ failures' \subseteq failures \cup ({"excessive"} \X Ids)
                                       \cup ({"unexpected", "uninteresting"} \X Functions)
<1>1. stack[t] # <<>> /\ Top(t) \in Frame /\ Top(t) \in Frames(t) /\ Pop(t)
  BY TopFrame DEF Report, At, TypeOK
<1>2. /\ stack' \in [Threads -> Seq(Frame)] /\ started' \in Nat
      /\ Frames(t)' \subseteq Frames(t)
      /\ Frames(t) \subseteq Frames(t)' \cup {Top(t)}
      /\ \A u \in Threads \ {t} : Frames(u)' = Frames(u)
  BY <1>1, PopStep DEF TypeOK
<1>3. Told'
  <2>1. Ids' = Ids
    BY DEF Report, Ids
  <2> QED
    BY <1>2, <2>1 DEF Told
<1>n. /\ Top(t).fn \in Functions
      /\ Top(t).told = "excessive" => Top(t).exp \in Ids
  BY <1>1 DEF Told, Report, At
<1>4. CASE Top(t).told = "excessive"
  <2>1. failures' = failures \cup {<<"excessive", Top(t).exp>>}
    BY <1>4 DEF Report
  <2>2. ASSUME NEW x
        PROVE  (Awaited(x) \/ <<"excessive", x>> \in failures)'
                 <=> Awaited(x) \/ <<"excessive", x>> \in failures
    <3>1. <<"excessive", x>> \in failures' <=> <<"excessive", x>> \in failures \/ x = Top(t).exp
      BY <2>1
    <3>2. Awaited(x)' => Awaited(x)
      BY <1>2 DEF Awaited
    <3>3. Awaited(x) => Awaited(x)' \/ x = Top(t).exp
      BY <1>2 DEF Awaited
    <3>4. Awaited(Top(t).exp)
      BY <1>1, <1>4 DEF Awaited
    <3> QED
      BY <3>1, <3>2, <3>3, <3>4
  <2> QED
    BY <1>2, <1>3, <1>4, <1>n, <2>1, <2>2
<1>5. CASE Top(t).told # "excessive"
  <2>1. \E k \in {"unexpected", "uninteresting"} :
          failures' = failures \/ failures' = failures \cup {<<k, Top(t).fn>>}
    BY <1>5 DEF Report
  <2>2. \A x : /\ <<"excessive", x>> \in failures' <=> <<"excessive", x>> \in failures
               /\ <<"unsatisfied", x>> \in failures' <=> <<"unsatisfied", x>> \in failures
    BY <2>1
  <2>3. \A x : Awaited(x)' <=> Awaited(x)
    BY <1>2, <1>5 DEF Awaited
  <2> QED
    BY <1>2, <1>3, <1>n, <2>1, <2>2, <2>3
<1> QED
  BY <1>4, <1>5

\* Nothing else a thread does is told of, but for the expectations not called
\* often enough.
LEMMA OtherFrames ==
  ASSUME TypeOK, Told, NEW t \in Threads, Engine(t) \/ User(t),
         ~UntypedFindMatchingExpectation(t), ~Report(t)
  PROVE  /\ stack' \in [Threads -> Seq(Frame)] /\ started' \in Nat
         /\ Told'
         /\ \A x : Awaited(x)' <=> Awaited(x)
<1> DEFINE Silent == /\ stack' \in [Threads -> Seq(Frame)] /\ started' \in Nat
                     /\ Told'
                     /\ \A x : Awaited(x)' <=> Awaited(x)
<1>0. Ids' = Ids
  BY OtherSteps DEF Ids
<1>1. ASSUME NEW op \in {"call", "verify", "destroy"}, NEW o \in Mocks,
             NEW f \in Functions \cup {""}, NEW a \in Args \cup {""}, NEW T \in SUBSET Functions,
             op = "call" => f \in Functions,
             Push(t, Entered(op, o, f, a, T))
      PROVE  Silent
  <2>1. PICK s : s = Entered(op, o, f, a, T)
    OBVIOUS
  <2>2. s \in Frame /\ s.told = "" /\ (s.op = "call" => s.fn \in Functions)
    BY <1>1, <2>1 DEF Entered, Frame
  <2>3. /\ stack' \in [Threads -> Seq(Frame)] /\ started' \in Nat
        /\ Frames(t)' = Frames(t) \cup {s}
        /\ \A u \in Threads \ {t} : Frames(u)' = Frames(u)
    BY <1>1, <2>1, <2>2, PushStep DEF TypeOK
  <2>4. Told'
    BY <1>0, <2>2, <2>3 DEF Told
  <2>5. \A x : Awaited(x)' <=> Awaited(x)
    BY <2>2, <2>3 DEF Awaited
  <2> QED
    BY <2>3, <2>4, <2>5
<1>2. ASSUME NEW s \in Frame, stack[t] # <<>>, Move(t, s), s.op # "call", s.told = "", Top(t).told = ""
      PROVE  Silent
  <2>1. /\ stack' \in [Threads -> Seq(Frame)] /\ started' \in Nat
        /\ s \in Frames(t)' /\ Frames(t)' \subseteq Frames(t) \cup {s}
        /\ Frames(t) \subseteq Frames(t)' \cup {Top(t)}
        /\ \A u \in Threads \ {t} : Frames(u)' = Frames(u)
    BY <1>2, MoveStep DEF TypeOK
  <2>2. Told'
    BY <1>0, <1>2, <2>1 DEF Told
  <2>3. \A x : Awaited(x)' <=> Awaited(x)
    BY <1>2, <2>1 DEF Awaited
  <2> QED
    BY <2>1, <2>2, <2>3
<1>3. ASSUME stack[t] # <<>>, Pop(t), Top(t).told = ""
      PROVE  Silent
  <2>1. /\ stack' \in [Threads -> Seq(Frame)] /\ started' \in Nat
        /\ Frames(t)' \subseteq Frames(t)
        /\ Frames(t) \subseteq Frames(t)' \cup {Top(t)}
        /\ \A u \in Threads \ {t} : Frames(u)' = Frames(u)
    BY <1>3, PopStep DEF TypeOK
  <2>2. Told'
    BY <1>0, <2>1 DEF Told
  <2>3. \A x : Awaited(x)' <=> Awaited(x)
    BY <1>3, <2>1 DEF Awaited
  <2> QED
    BY <2>1, <2>2, <2>3
<1>4. ASSUME NEW at,
             At(t, {"verify", "destroy"}, at) \/ At(t, {"verify"}, at) \/ At(t, {"destroy"}, at)
      PROVE  stack[t] # <<>> /\ Top(t) \in Frame /\ Top(t).told = "" /\ Top(t).op # "call"
  <2>1. stack[t] # <<>> /\ Top(t).op \in {"verify", "destroy"}
    BY <1>4 DEF At
  <2>2. Top(t) \in Frame /\ Top(t) \in Frames(t)
    BY <2>1, TopFrame DEF TypeOK
  <2>3. Top(t).op # "call"
    BY <2>1
  <2> QED
    BY <2>1, <2>2, <2>3 DEF Told
<1>5. CASE User(t)
  <2>1. CASE \E f \in Functions, a \in Args : Call(t, f, a)
    <3>1. PICK f \in Functions, a \in Args : Push(t, Entered("call", Owner[f], f, a, {}))
      BY <2>1 DEF Call
    <3>2. Owner[f] \in Mocks /\ f \in Functions \cup {""} /\ a \in Args \cup {""}
          /\ {} \in SUBSET Functions
      BY <3>1, ConstantsAssumption
    <3> QED
      BY <3>1, <3>2, <1>1
  <2>2. CASE \E o \in Mocks : Verify(t, o)
    BY <2>2, <1>1 DEF Verify, Registered
  <2>3. CASE \E o \in Mocks : Destroy(t, o)
    BY <2>3, <1>1 DEF Destroy
  <2> QED
    BY <1>5, <2>1, <2>2, <2>3 DEF User
<1>6. CASE Lock(t)
  <2>1. stack[t] # <<>> /\ Top(t) \in Frame /\ Top(t).told = "" /\ Top(t).op # "call"
    BY <1>6, <1>4 DEF Lock
  <2>2. LET s == [Top(t) EXCEPT !.at = "locked"] IN s \in Frame /\ s.told = "" /\ s.op # "call"
    BY <2>1 DEF Frame
  <2> QED
    BY <1>6, <2>1, <2>2, <1>2, <1>3 DEF Lock
<1>7. CASE Relock(t)
  <2>1. stack[t] # <<>> /\ Top(t) \in Frame /\ Top(t).told = "" /\ Top(t).op # "call"
    BY <1>7, <1>4 DEF Relock
  <2>2. LET s == [Top(t) EXCEPT !.at = "locked", !.users = FALSE] IN s \in Frame /\ s.told = "" /\ s.op # "call"
    BY <2>1 DEF Frame
  <2> DEFINE b == Top(t).fn \in onCall
  <2>3. b \in BOOLEAN
    OBVIOUS
  <2> HIDE DEF b
  <2>4. LET s == [Top(t) EXCEPT !.at = "defaults", !.users = b] IN s \in Frame /\ s.told = "" /\ s.op # "call"
    BY <2>1, <2>3 DEF Frame
  <2> QED
    BY <1>7, <2>1, <2>2, <2>4, <1>2 DEF Relock, b
<1>8. CASE Unregistered(t)
  <2>1. stack[t] # <<>> /\ Top(t) \in Frame /\ Top(t).told = "" /\ Top(t).op # "call"
    BY <1>8, <1>4 DEF Unregistered
  <2>2. LET s == [Top(t) EXCEPT !.at = "enter", !.users = FALSE] IN s \in Frame /\ s.told = "" /\ s.op # "call"
    BY <2>1 DEF Frame
  <2> QED
    BY <1>8, <2>1, <2>2, <1>2 DEF Unregistered
<1>9. CASE Unlock(t)
  <2>1. stack[t] # <<>> /\ Top(t) \in Frame /\ Top(t).told = "" /\ Top(t).op # "call"
    BY <1>9, <1>4 DEF Unlock
  <2> QED
    BY <1>9, <2>1, <1>3 DEF Unlock
<1>10. ASSUME NEW f \in Functions, VerifyAndClearExpectationsLocked(t, f) PROVE Silent
  <2>1. stack[t] # <<>> /\ Top(t) \in Frame /\ Top(t).told = "" /\ Top(t).op # "call"
    BY <1>10, <1>4 DEF VerifyAndClearExpectationsLocked, Cleared
  <2> DEFINE b == \E e \in Held(f) : exps[e].once > 0 \/ exps[e].repeated
  <2>2. b \in BOOLEAN
    OBVIOUS
  <2> HIDE DEF b
  <2>3. LET s == [Top(t) EXCEPT !.at = "delete", !.fn = f, !.todo = @ \ {f}, !.users = b] IN
          s \in Frame /\ s.told = "" /\ s.op # "call"
    BY <2>1, <2>2 DEF Frame
  <2>4. Move(t, [Top(t) EXCEPT !.at = "delete", !.fn = f, !.todo = @ \ {f}, !.users = b])
    BY <1>10 DEF VerifyAndClearExpectationsLocked, Cleared, b
  <2> QED
    BY <2>1, <2>3, <2>4, <1>2
<1> QED
  BY <1>5, <1>6, <1>7, <1>8, <1>9, <1>10 DEF Engine

-----------------------------------------------------------------------------
(* The verdict is inductive with the counters in the place of the calls.   *)

\* Before the first call nothing is cleared and no call is told of.
Settled ==
  pc <= Len(test) => cleared = {} /\ \A x \in failures : x[1] = "clause"

Judged ==
  \A e \in Ids :
    /\ exps[e].count > exps[e].max <=> Awaited(e) \/ <<"excessive", e>> \in failures
    /\ <<"unsatisfied", e>> \in failures <=>
         exps[e].fn \in cleared /\ exps[e].count < exps[e].min

VInv == IInv /\ ThreadsOK /\ Told /\ Settled /\ Judged

\* A statement makes an expectation, changes the newest or none, and tells at
\* most of a clause out of place.
LEMMA SetUpTells ==
  ASSUME ExpectationsOK, SetUp
  PROVE  /\ pc <= Len(test)
         /\ UNCHANGED <<cleared, stack, started>>
         /\ Ids \subseteq Ids'
         /\ \/ failures' = failures
            \/ Len(exps) \in Ids /\ failures' = failures \cup {<<"clause", Len(exps)>>}
<1>1. \E name, x : Statement(name, x)
  BY DEF SetUp, OnCall, Expect, With, Times, InSequence, After, WillOnce,
         WillRepeatedly, RetiresOnSaturation, Scope, Clause
<1>2. pc <= Len(test) /\ UNCHANGED <<cleared, stack, started>>
  BY <1>1 DEF Statement
<1>3. exps \in Seq(Expectation) /\ Len(exps) \in Nat
  BY LenProperties DEF ExpectationsOK
<1>4. ASSUME UNCHANGED <<exps, failures>> PROVE Ids \subseteq Ids' /\ failures' = failures
  BY <1>4 DEF Ids
<1>5. ASSUME NEW f, NEW m, Expect(f, m) PROVE Ids \subseteq Ids' /\ failures' = failures
  <2>1. PICK new : exps' = Append(exps, new) /\ failures' = failures
    BY <1>5 DEF Expect
  <2>2. exps \in Seq(Expectation \cup {new})
    BY <1>3, SeqMonotonic
  <2>3. Len(exps') = Len(exps) + 1
    BY <2>1, <2>2, AppendProperties
  <2> QED
    BY <1>3, <2>1, <2>3 DEF Ids
<1>6. ASSUME NEW name, NEW x, NEW inPlace, NEW e, Clause(name, x, inPlace, e)
      PROVE  /\ Ids \subseteq Ids'
             /\ \/ failures' = failures
                \/ Len(exps) \in Ids /\ failures' = failures \cup {<<"clause", Len(exps)>>}
  <2>1. PICK new : exps' = [exps EXCEPT ![Len(exps)] = new]
    BY <1>6 DEF Clause
  <2>2. exps \in Seq(Expectation \cup {new}) /\ new \in Expectation \cup {new}
    BY <1>3, SeqMonotonic
  <2>3. Len(exps) \in 1..Len(exps)
    BY <1>3, <1>6, EmptySeq DEF Clause
  <2>4. Len(exps') = Len(exps)
    BY <2>1, <2>2, <2>3, ExceptSeq
  <2> QED
    BY <1>6, <2>3, <2>4 DEF Clause, Ids
<1>7. \/ UNCHANGED <<exps, failures>>
      \/ \E f, m : Expect(f, m)
      \/ \E name, x, inPlace, e : Clause(name, x, inPlace, e)
  <2>1. CASE \E f \in Functions : OnCall(f)
    BY <2>1 DEF OnCall
  <2>2. CASE \E f \in Functions, m \in Matchers : Expect(f, m)
    BY <2>2
  <2>3. CASE \E m \in Matchers : With(m)
    BY <2>3 DEF With
  <2>4. CASE \E least, most \in 0..IntMax : Times(least, most)
    BY <2>4 DEF Times
  <2>5. CASE \E q \in SequenceNames : InSequence(q)
    BY <2>5 DEF InSequence
  <2>6. CASE \E P \in SUBSET Ids : After(P)
    BY <2>6 DEF After
  <2>7. CASE WillOnce
    BY <2>7 DEF WillOnce
  <2>8. CASE WillRepeatedly
    BY <2>8 DEF WillRepeatedly
  <2>9. CASE RetiresOnSaturation
    BY <2>9 DEF RetiresOnSaturation
  <2>10. CASE Scope
    BY <2>10 DEF Scope
  <2> QED
    BY <2>1, <2>2, <2>3, <2>4, <2>5, <2>6, <2>7, <2>8, <2>9, <2>10 DEF SetUp
<1> QED
  BY <1>2, <1>4, <1>5, <1>6, <1>7

LEMMA MostIsNat == ExpectationsOK => \A e \in Ids : exps[e].max \in Nat
BY Fields

\* So the verdict stays out of it.
LEMMA SetUpKeepsVerdict ==
  ASSUME VInv, SetUp
  PROVE  (ThreadsOK /\ Told /\ Settled /\ Judged)'
<1>1. /\ \A t \in Threads : stack[t] = <<>>
      /\ \A e \in Ids' : exps'[e].count = 0
  BY SetUpQuiet DEF VInv, IInv
<1>2. /\ pc <= Len(test)
      /\ UNCHANGED <<cleared, stack, started>>
      /\ Ids \subseteq Ids'
      /\ \/ failures' = failures
         \/ Len(exps) \in Ids /\ failures' = failures \cup {<<"clause", Len(exps)>>}
  BY SetUpTells DEF VInv, IInv
<1>3. ThreadsOK'
  BY <1>2 DEF VInv, ThreadsOK
<1>4. \A t \in Threads : Frames(t)' = {}
  <2>1. Len(<<>>) = 0
    BY EmptySeq
  <2> QED
    BY <1>1, <1>2, <2>1 DEF Frames
<1>5. cleared' = {} /\ \A x \in failures' : x[1] = "clause"
  BY <1>2 DEF VInv, Settled
<1>6. \A e : <<"excessive", e>> \notin failures' /\ <<"unsatisfied", e>> \notin failures'
  <2>1. \A e : <<"excessive", e>>[1] # "clause" /\ <<"unsatisfied", e>>[1] # "clause"
    OBVIOUS
  <2> QED
    BY <1>5, <2>1
<1>7. \A e \in Ids' : exps'[e].max \in Nat
  <2>1. ExpectationsOK'
    BY SetUpTypes DEF VInv, IInv
  <2>2. (\A e \in Ids : exps[e].max \in Nat)'
    BY <2>1, MostIsNat, PTL
  <2> QED
    BY <2>2
<1>8. Told' /\ \A e : ~Awaited(e)'
  BY <1>4 DEF Told, Awaited
<1>9. Settled'
  BY <1>5 DEF Settled
<1>10. Judged'
  <2>1. \A e \in Ids' : ~(exps'[e].count > exps'[e].max)
    BY <1>1, <1>7
  <2> QED
    BY <1>5, <1>6, <1>8, <2>1 DEF Judged
<1> QED
  BY <1>3, <1>8, <1>9, <1>10

LEMMA HasActionIs ==
  ASSUME ExpectationsOK, NEW e \in Ids
  PROVE  HasAction(e) \in BOOLEAN
<1>1. exps[e] \in Expectation
  BY ElementOfSeq DEF ExpectationsOK, Ids
<1> QED
  BY <1>1 DEF HasAction, Expectation

\* A call is counted for one expectation, which is not cleared, and one call too
\* many is awaited from then on.
LEMMA SearchKeepsVerdict ==
  ASSUME VInv, NEW t \in Threads, UntypedFindMatchingExpectation(t)
  PROVE  (ThreadsOK /\ Told /\ Judged)'
<1>e. ExpectationsOK /\ ThreadsOK /\ Judged
  BY DEF VInv, IInv
<1>a. Len(exps) \in Nat
  BY <1>e DEF ExpectationsOK
<1>b. 0 \in 0..Len(exps) /\ \A e \in Ids : e \in 0..Len(exps)
  BY <1>a DEF Ids
<1>c. TypeOK
  BY <1>e DEF TypeOK
<1>t. Told
  BY DEF VInv
<1>d. At(t, {"call"}, "enter")
  BY DEF UntypedFindMatchingExpectation
<1>0. UNCHANGED <<cleared, failures>>
  BY DEF UntypedFindMatchingExpectation
<1>1. CASE UNCHANGED exps /\ \E told \in {"uninteresting", "unexpected"} : Answer(t, 0, told, FALSE)
  <2>1. Ids' = Ids
    BY <1>1 DEF Ids
  <2>2. PICK told \in {"uninteresting", "unexpected"} : Answer(t, 0, told, FALSE)
    BY <1>1
  <2>3. told \in Tellings /\ told # "excessive"
    BY DEF Tellings
  <2>a. FALSE \in BOOLEAN
    OBVIOUS
  <2>4. /\ stack' \in [Threads -> Seq(Frame)] /\ started' \in Nat
        /\ Told'
        /\ \A x : Awaited(x)' <=> Awaited(x) \/ (told = "excessive" /\ x = 0)
    BY <1>b, <1>c, <1>t, <1>d, <2>1, <2>2, <2>3, <2>a, CallFrames
  <2>5. ThreadsOK'
    BY <1>e, <1>0, <2>1, <2>4 DEF ThreadsOK
  <2> QED
    BY <1>e, <1>0, <1>1, <2>1, <2>3, <2>4, <2>5 DEF Judged
<1>2. ASSUME NEW e \in Ids, Found(t, e), IsSaturated(e), exps' = Count(e),
             Answer(t, e, "excessive", FALSE)
      PROVE  (ThreadsOK /\ Told /\ Judged)'
  <2>1. /\ Len(exps') = Len(exps)
        /\ \A i \in Ids :
              /\ exps'[i].fn = exps[i].fn
              /\ exps'[i].min = exps[i].min /\ exps'[i].max = exps[i].max
              /\ exps'[i].count = IF i = e THEN exps[i].count + 1 ELSE exps[i].count
    BY <1>e, <1>2, Handling
  <2>2. Ids' = Ids
    BY <2>1 DEF Ids
  <2>3. "excessive" \in Tellings /\ FALSE \in BOOLEAN /\ e \in 0..Len(exps)
    BY <1>b DEF Tellings
  <2>4. /\ stack' \in [Threads -> Seq(Frame)] /\ started' \in Nat
        /\ Told'
        /\ \A x : Awaited(x)' <=> Awaited(x) \/ ("excessive" = "excessive" /\ x = e)
    BY <1>b, <1>c, <1>t, <1>d, <1>2, <2>2, <2>3, CallFrames
  <2>5. ThreadsOK'
    BY <1>e, <1>0, <2>2, <2>4 DEF ThreadsOK
  <2>6. /\ exps[e].count \in Nat /\ exps[e].min \in Nat /\ exps[e].max \in Nat
        /\ exps[e].min <= exps[e].max /\ exps[e].count >= exps[e].max
    BY <1>e, <1>2, Fields DEF IsSaturated
  <2>7. /\ exps[e].count + 1 > exps[e].max
        /\ ~(exps[e].count < exps[e].min) /\ ~(exps[e].count + 1 < exps[e].min)
    BY <2>6
  <2> QED
    BY <1>e, <1>0, <2>1, <2>2, <2>4, <2>5, <2>7 DEF Judged
<1>3. ASSUME NEW e \in Ids, Found(t, e), ~IsSaturated(e), exps' = Handle(e),
             Answer(t, e, "", HasAction(e))
      PROVE  (ThreadsOK /\ Told /\ Judged)'
  <2>1. /\ Len(exps') = Len(exps)
        /\ \A i \in Ids :
              /\ exps'[i].fn = exps[i].fn
              /\ exps'[i].min = exps[i].min /\ exps'[i].max = exps[i].max
              /\ exps'[i].count = IF i = e THEN exps[i].count + 1 ELSE exps[i].count
    BY <1>e, <1>3, Handling
  <2>2. Ids' = Ids
    BY <2>1 DEF Ids
  <2>3. "" \in Tellings /\ "" # "excessive" /\ e \in 0..Len(exps)
    BY <1>b DEF Tellings
  <2>a. \E acts \in BOOLEAN : Answer(t, e, "", acts)
    BY <1>e, <1>3, HasActionIs
  <2>4. /\ stack' \in [Threads -> Seq(Frame)] /\ started' \in Nat
        /\ Told'
        /\ \A x : Awaited(x)' <=> Awaited(x) \/ ("" = "excessive" /\ x = e)
    BY <1>c, <1>t, <1>d, <1>3, <2>2, <2>3, <2>a, CallFrames
  <2>5. ThreadsOK'
    BY <1>e, <1>0, <2>2, <2>4 DEF ThreadsOK
  <2>6. /\ exps[e].count \in Nat /\ exps[e].min \in Nat /\ exps[e].max \in Nat
        /\ ~(exps[e].count >= exps[e].max)
    BY <1>e, <1>3, Fields DEF IsSaturated
  <2>7. ~(exps[e].count > exps[e].max) /\ ~(exps[e].count + 1 > exps[e].max)
    BY <2>6
  <2>8. exps[e].fn \notin cleared
    BY <1>3 DEF Found, Candidates, Held
  <2>9. \A x : Awaited(x)' <=> Awaited(x)
    BY <2>3, <2>4
  <2>10. /\ ~Awaited(e) /\ <<"excessive", e>> \notin failures
         /\ <<"unsatisfied", e>> \notin failures
    BY <1>e, <2>7, <2>8 DEF Judged
  <2>11. ASSUME NEW i \in Ids
         PROVE  /\ exps'[i].count > exps'[i].max <=> Awaited(i)' \/ <<"excessive", i>> \in failures'
                /\ <<"unsatisfied", i>> \in failures' <=>
                     exps'[i].fn \in cleared' /\ exps'[i].count < exps'[i].min
    <3>1. CASE i = e
      BY <1>0, <2>1, <2>7, <2>8, <2>9, <2>10, <3>1
    <3>2. CASE i # e
      BY <1>e, <1>0, <2>1, <2>9, <3>2 DEF Judged
    <3> QED
      BY <3>1, <3>2
  <2>12. Judged'
    BY <2>2, <2>11 DEF Judged
  <2> QED
    BY <2>4, <2>5, <2>12
<1> QED
  BY <1>1, <1>2, <1>3 DEF UntypedFindMatchingExpectation

\* What is cleared is told of where it was not called often enough.
LEMMA ClearingKeepsVerdict ==
  ASSUME VInv, NEW t \in Threads, NEW f \in Functions, VerifyAndClearExpectationsLocked(t, f)
  PROVE  (ThreadsOK /\ Told /\ Judged)'
<1> USE DEF VInv, IInv
<1>1. /\ UNCHANGED exps /\ cleared' = cleared \cup {f}
      /\ failures' = failures \cup
           {<<"unsatisfied", e>> : e \in {i \in Held(f) : ~IsOverSaturated(i) /\ ~IsSatisfied(i)}}
  BY DEF VerifyAndClearExpectationsLocked, Cleared
<1>2. Ids' = Ids
  BY <1>1 DEF Ids
<1>3. /\ stack' \in [Threads -> Seq(Frame)] /\ started' \in Nat
      /\ Told'
      /\ \A x : Awaited(x)' <=> Awaited(x)
  <2>1. Engine(t)
    BY DEF Engine
  <2>2. ~UntypedFindMatchingExpectation(t) /\ ~Report(t)
    BY DEF VerifyAndClearExpectationsLocked, Cleared, UntypedFindMatchingExpectation, Report, At
  <2> QED
    BY <2>1, <2>2, OtherFrames DEF TypeOK
<1>4. \A e \in Ids :
        e \in Held(f) /\ ~IsOverSaturated(e) /\ ~IsSatisfied(e)
          <=> f \notin cleared /\ exps[e].fn = f /\ exps[e].count < exps[e].min
  <2> SUFFICES ASSUME NEW e \in Ids
               PROVE  e \in Held(f) /\ ~IsOverSaturated(e) /\ ~IsSatisfied(e)
                        <=> f \notin cleared /\ exps[e].fn = f /\ exps[e].count < exps[e].min
    OBVIOUS
  <2>1. ~IsOverSaturated(e) /\ ~IsSatisfied(e) <=> exps[e].count < exps[e].min
    BY Fields DEF IsOverSaturated, IsSatisfied, IsSaturated
  <2> QED
    BY <2>1 DEF Held
<1>5. \A e \in Ids : <<"unsatisfied", e>> \in failures' <=>
        \/ <<"unsatisfied", e>> \in failures
        \/ f \notin cleared /\ exps[e].fn = f /\ exps[e].count < exps[e].min
  BY <1>1, <1>4
<1>6. \A e : <<"excessive", e>> \in failures' <=> <<"excessive", e>> \in failures
  BY <1>1
<1>7. Judged'
  BY <1>1, <1>2, <1>3, <1>5, <1>6 DEF Judged
<1>8. ThreadsOK'
  <2>1. Held(f) \subseteq Ids
    BY DEF Held
  <2> QED
    BY <1>1, <1>2, <1>3, <2>1 DEF ThreadsOK
<1> QED
  BY <1>3, <1>7, <1>8

\* No thread makes the verdict wrong.
LEMMA ThreadKeepsVerdict ==
  ASSUME VInv, NEW t \in Threads, Engine(t) \/ User(t)
  PROVE  (ThreadsOK /\ Told /\ Settled /\ Judged)'
<1>1. Settled'
  <2>1. ~(pc <= Len(test)) /\ UNCHANGED <<test, pc>>
    BY NotBefore, SetUpStays DEF VInv
  <2> QED
    BY <2>1 DEF Settled
<1>2. CASE UntypedFindMatchingExpectation(t)
  BY <1>1, <1>2, SearchKeepsVerdict
<1>3. CASE \E f \in Functions : VerifyAndClearExpectationsLocked(t, f)
  BY <1>1, <1>3, ClearingKeepsVerdict
<1>4. CASE Report(t)
  <2>1. /\ stack' \in [Threads -> Seq(Frame)] /\ started' \in Nat
        /\ Told'
        /\ \A x : /\ (Awaited(x) \/ <<"excessive", x>> \in failures)'
                       <=> Awaited(x) \/ <<"excessive", x>> \in failures
                  /\ <<"unsatisfied", x>> \in failures' <=> <<"unsatisfied", x>> \in failures
        /\ failures' \subseteq failures \cup ({"excessive"} \X Ids)
                                      \cup ({"unexpected", "uninteresting"} \X Functions)
    BY <1>4, ReportFrames DEF VInv, IInv, TypeOK
  <2>2. Ids' = Ids /\ UNCHANGED <<exps, cleared>>
    BY <1>4 DEF Report, Ids
  <2>3. ThreadsOK'
    BY <2>1, <2>2 DEF VInv, ThreadsOK
  <2>4. Judged'
    BY <2>1, <2>2 DEF VInv, Judged
  <2> QED
    BY <1>1, <2>1, <2>3, <2>4
<1>5. CASE /\ ~UntypedFindMatchingExpectation(t) /\ ~Report(t)
           /\ ~\E f \in Functions : VerifyAndClearExpectationsLocked(t, f)
  <2>1. /\ stack' \in [Threads -> Seq(Frame)] /\ started' \in Nat
        /\ Told'
        /\ \A x : Awaited(x)' <=> Awaited(x)
    BY <1>5, OtherFrames DEF VInv, IInv, TypeOK
  <2>2. Ids' = Ids /\ UNCHANGED <<exps, cleared, failures>>
    BY <1>5 DEF Engine, User, Lock, Relock, Unregistered, Unlock, Call, Verify, Destroy, Ids
  <2>3. ThreadsOK'
    BY <2>1, <2>2 DEF VInv, ThreadsOK
  <2>4. Judged'
    BY <2>1, <2>2 DEF VInv, Judged
  <2> QED
    BY <1>1, <2>1, <2>3, <2>4
<1> QED
  BY <1>2, <1>3, <1>4, <1>5

\* In every reachable state.
THEOREM VerdictInductive == Spec => []VInv
<1>1. Init => VInv
  <2> SUFFICES ASSUME Init PROVE VInv
    OBVIOUS
  <2>1. IInv
    BY InitInductive
  <2>2. /\ stack = [t \in Threads |-> <<>>] /\ Ids = {} /\ cleared = {} /\ failures = {}
        /\ started = 0 /\ Len(<<>>) = 0 /\ <<>> \in Seq(Frame)
    BY EmptySeq DEF Init, Ids
  <2>3. \A t \in Threads : Frames(t) = {}
    BY <2>2 DEF Frames
  <2> QED
    BY <2>1, <2>2, <2>3 DEF VInv, ThreadsOK, Told, Settled, Judged
<1>2. VInv /\ [Next]_vars => VInv'
  <2>1. ASSUME VInv, SetUp PROVE VInv'
    BY <2>1, SetUpKeepsIInv, SetUpKeepsVerdict DEF VInv
  <2>2. ASSUME VInv, NEW t \in Threads, Engine(t) \/ User(t) PROVE VInv'
    BY <2>2, ThreadKeepsIInv, ThreadKeepsVerdict DEF VInv
  <2>3. ASSUME VInv, UNCHANGED vars PROVE VInv'
    <3>1. IInv'
      BY <2>3, IInvStutters DEF VInv
    <3>2. UNCHANGED <<exps, cleared, failures, stack, started, test, pc>>
      BY <2>3 DEF vars, setup, engine
    <3>3. Ids' = Ids /\ \A t : Frames(t)' = Frames(t)
      BY <3>2 DEF Ids, Frames
    <3>4. ThreadsOK' /\ Settled'
      BY <2>3, <3>2, <3>3 DEF VInv, ThreadsOK, Settled
    <3>5. Told' /\ \A e : Awaited(e)' <=> Awaited(e)
      BY <2>3, <3>3 DEF VInv, Told, Awaited
    <3>6. Judged'
      BY <2>3, <3>2, <3>3, <3>5 DEF VInv, Judged
    <3> QED
      BY <3>1, <3>4, <3>5, <3>6 DEF VInv
  <2> QED
    BY <2>1, <2>2, <2>3 DEF Next
<1> QED
  BY <1>1, <1>2, PTL DEF Spec

\* All of the state is well-formed, the stacks of calls and what the test was
\* told included: no report and no failure names an expectation that was never
\* made, and no call is of something else than a mocked function.
THEOREM TypeCorrect == Spec => []TypeOK
<1>1. VInv => TypeOK
  BY DEF VInv, IInv, TypeOK
<1> QED
  BY <1>1, VerdictInductive, PTL

\* The test is told of exactly the expectations that were called too often,
\* however the calls of several threads overlap, and of exactly those that were
\* not called often enough when they were cleared, whatever was verified or
\* destroyed before or in between.
THEOREM VerdictIsRightAlways == Spec => []VerdictIsRight
<1>1. VInv => VerdictIsRight
  <2> SUFFICES ASSUME VInv, NEW e \in Ids
               PROVE  LET n == HandledBy(e, Len(handled)) IN
                      /\ n > exps[e].max <=>
                           \/ <<"excessive", e>> \in failures
                           \/ \E t \in Threads : \E s \in Frames(t) :
                                s.exp = e /\ s.told = "excessive"
                      /\ <<"unsatisfied", e>> \in failures <=>
                           exps[e].fn \in cleared /\ n < exps[e].min
    BY DEF VerdictIsRight
  <2>1. HandledBy(e, Len(handled)) = exps[e].count
    BY DEF VInv, IInv, Counted
  <2> QED
    BY <2>1 DEF VInv, Judged, Awaited
<1> QED
  BY <1>1, VerdictInductive, PTL

-----------------------------------------------------------------------------
(* The mutex.                                                              *)

\* The calls a thread will come back to.
Below(t) == {stack[t][i] : i \in 1..(Len(stack[t]) - 1)}

\* One more,
LEMMA PushBelow ==
  ASSUME ThreadsOK, NEW t \in Threads, NEW s, Push(t, s)
  PROVE  /\ stack'[t] # <<>> /\ Top(t)' = s /\ Below(t)' = Frames(t)
         /\ Frames(t)' \subseteq Frames(t) \cup {s}
         /\ \A u \in Threads \ {t} : stack'[u] = stack[u]
<1> DEFINE n == Len(stack[t])
           new == Append(stack[t], s)
<1>1. /\ stack[t] \in Seq(Frame \cup {s}) /\ n \in Nat
      /\ stack'[t] = new /\ \A u \in Threads \ {t} : stack'[u] = stack[u]
  <2>1. stack[t] \in Seq(Frame) /\ stack \in [Threads -> Seq(Frame)]
    BY DEF ThreadsOK
  <2>2. stack[t] \in Seq(Frame \cup {s})
    BY <2>1, SeqMonotonic
  <2> QED
    BY <2>1, <2>2, LenProperties DEF Push
<1>2. /\ Len(new) = n + 1 /\ new[n + 1] = s /\ \A i \in 1..n : new[i] = stack[t][i]
      /\ new \in Seq(Frame \cup {s})
  BY <1>1, AppendProperties
<1> HIDE DEF new
<1>3. new # <<>>
  BY <1>1, <1>2, EmptySeq
<1>4. \A i \in 1..(n + 1) : i \in 1..n \/ i = n + 1
  BY <1>1
<1>5. (n + 1) - 1 = n
  BY <1>1
<1> QED
  BY <1>1, <1>2, <1>3, <1>4, <1>5 DEF Below, Frames, Top

\* the one on top changed,
LEMMA MoveBelow ==
  ASSUME ThreadsOK, NEW t \in Threads, stack[t] # <<>>, NEW s, Move(t, s)
  PROVE  /\ stack'[t] # <<>> /\ Top(t)' = s /\ Below(t)' = Below(t)
         /\ Frames(t)' \subseteq Frames(t) \cup {s}
         /\ \A u \in Threads \ {t} : stack'[u] = stack[u]
<1> DEFINE n == Len(stack[t])
           new == [stack[t] EXCEPT ![n] = s]
<1>1. /\ stack[t] \in Seq(Frame \cup {s}) /\ n \in Nat \ {0}
      /\ stack'[t] = new /\ \A u \in Threads \ {t} : stack'[u] = stack[u]
  <2>1. /\ stack[t] \in Seq(Frame) /\ n \in Nat \ {0}
        /\ stack'[t] = new /\ \A u \in Threads \ {t} : stack'[u] = stack[u]
    BY TopFrame DEF ThreadsOK, Move
  <2>2. stack[t] \in Seq(Frame \cup {s})
    BY <2>1, SeqMonotonic
  <2> QED
    BY <2>1, <2>2
<1>2. /\ new \in Seq(Frame \cup {s}) /\ Len(new) = n
      /\ \A i \in 1..n : new[i] = IF i = n THEN s ELSE stack[t][i]
  <2>1. n \in 1..n
    BY <1>1
  <2> QED
    BY <1>1, <2>1, ExceptSeq
<1> HIDE DEF new
<1>3. new # <<>>
  BY <1>1, <1>2, EmptySeq
<1>4. n \in 1..n /\ \A i \in 1..(n - 1) : i \in 1..n /\ i # n
  BY <1>1
<1> QED
  BY <1>1, <1>2, <1>3, <1>4 DEF Below, Frames, Top

\* and one less.
LEMMA PopBelow ==
  ASSUME ThreadsOK, NEW t \in Threads, stack[t] # <<>>, Pop(t)
  PROVE  /\ stack'[t] # <<>> => Top(t)' \in Below(t)
         /\ Below(t)' \subseteq Below(t) /\ Frames(t)' \subseteq Frames(t)
         /\ \A u \in Threads \ {t} : stack'[u] = stack[u]
<1> DEFINE n == Len(stack[t])
           new == SubSeq(stack[t], 1, n - 1)
<1>1. /\ n \in Nat \ {0} /\ \A i \in 1..n : stack[t][i] \in Frame
      /\ stack'[t] = new /\ \A u \in Threads \ {t} : stack'[u] = stack[u]
  BY TopFrame DEF ThreadsOK, Pop
<1>2. new \in Seq(Frame) /\ Len(new) = n - 1 /\ \A i \in 1..(n - 1) : new[i] = stack[t][i]
  <2>1. 1 \in Int /\ n - 1 \in Int /\ \A i \in 1..(n - 1) : stack[t][i] \in Frame
    BY <1>1
  <2>2. /\ new \in Seq(Frame)
        /\ Len(new) = IF 1 <= n - 1 THEN (n - 1) - 1 + 1 ELSE 0
        /\ \A i \in 1..((n - 1) - 1 + 1) : new[i] = stack[t][1 + i - 1]
    BY <2>1, SubSeqProperties
  <2> HIDE DEF new
  <2> QED
    BY <1>1, <2>2
<1> HIDE DEF new
<1>3. new # <<>> => n - 1 \in 1..(n - 1)
  BY <1>1, <1>2, EmptySeq
<1>4. /\ \A i \in 1..((n - 1) - 1) : i \in 1..(n - 1)
      /\ \A i \in 1..(n - 1) : i \in 1..n
  BY <1>1
<1> QED
  BY <1>1, <1>2, <1>3, <1>4 DEF Below, Frames, Top

\* A frame that has the mutex, or waits for it, is not one that calls may come
\* back from.
Closed(s) ==
  /\ s.at = "locked" => s.op # "call"
  /\ s.at \in {"enter", "locked"} => ~s.users

\* Who holds the mutex.
Holder ==
  \A t \in Threads :
    /\ \A s \in Frames(t) : Closed(s)
    /\ \A s \in Below(t) : s.at # "locked"
    /\ mutex = t <=> stack[t] # <<>> /\ Top(t).at = "locked"

\* What others hold a step of t does not change,
LEMMA OthersHold ==
  ASSUME Holder, NEW t \in Threads, \A u \in Threads \ {t} : stack'[u] = stack[u],
         mutex' \in {mutex, t, Free}, mutex' # mutex => mutex \in {t, Free}
  PROVE  \A u \in Threads \ {t} :
           /\ \A s \in Frames(u)' : Closed(s)
           /\ \A s \in Below(u)' : s.at # "locked"
           /\ mutex' = u <=> stack'[u] # <<>> /\ Top(u)'.at = "locked"
<1> SUFFICES ASSUME NEW u \in Threads \ {t}
             PROVE  /\ \A s \in Frames(u)' : Closed(s)
                    /\ \A s \in Below(u)' : s.at # "locked"
                    /\ mutex' = u <=> stack'[u] # <<>> /\ Top(u)'.at = "locked"
  OBVIOUS
<1>1. Frames(u)' = Frames(u) /\ Below(u)' = Below(u) /\ Top(u)' = Top(u) /\ stack'[u] = stack[u]
  BY DEF Frames, Below, Top
<1>2. mutex' = u <=> mutex = u
  BY ConstantsAssumption
<1> QED
  BY <1>1, <1>2 DEF Holder

\* nor does t get or lose the mutex by beginning a call,
LEMMA PushHolds ==
  ASSUME ThreadsOK, Holder, NEW t \in Threads, NEW s, Push(t, s), UNCHANGED mutex,
         stack[t] # <<>> => Top(t).users, s.at = "enter", s.users = FALSE
  PROVE  Holder'
<1>1. /\ stack'[t] # <<>> /\ Top(t)' = s /\ Below(t)' = Frames(t)
      /\ Frames(t)' \subseteq Frames(t) \cup {s}
      /\ \A u \in Threads \ {t} : stack'[u] = stack[u]
  BY PushBelow
<1>2. \A r \in Frames(t) : r.at # "locked"
  <2>1. stack[t] # <<>> => Top(t).at # "locked"
    BY TopFrame DEF Holder, Closed, ThreadsOK
  <2>2. \A r \in Frames(t) : r \in Below(t) \/ (r = Top(t) /\ stack[t] # <<>>)
    <3>1. ASSUME NEW i \in 1..Len(stack[t])
          PROVE  i \in 1..(Len(stack[t]) - 1) \/ (i = Len(stack[t]) /\ stack[t] # <<>>)
      BY LenProperties DEF ThreadsOK
    <3> QED
      BY <3>1 DEF Frames, Below, Top
  <2> QED
    BY <2>1, <2>2 DEF Holder
<1>3. mutex # t
  BY <1>2, TopFrame DEF Holder, ThreadsOK
<1>4. Closed(s)
  BY DEF Closed
<1> QED
  BY <1>1, <1>2, <1>3, <1>4, OthersHold DEF Holder

\* only by a move to or from where it is locked,
LEMMA MoveHolds ==
  ASSUME ThreadsOK, Holder, NEW t \in Threads, stack[t] # <<>>, NEW s, Move(t, s), Closed(s),
         \/ s.at = "locked" /\ mutex' = t /\ mutex \in {t, Free}
         \/ s.at # "locked" /\ mutex' = mutex /\ mutex # t
         \/ s.at # "locked" /\ mutex' = Free /\ mutex = t
  PROVE  Holder'
<1>1. /\ stack'[t] # <<>> /\ Top(t)' = s /\ Below(t)' = Below(t)
      /\ Frames(t)' \subseteq Frames(t) \cup {s}
      /\ \A u \in Threads \ {t} : stack'[u] = stack[u]
  BY MoveBelow
<1>2. mutex' = t <=> s.at = "locked"
  BY ConstantsAssumption
<1> QED
  BY <1>1, <1>2, OthersHold DEF Holder

\* and never by going back to one.
LEMMA PopHolds ==
  ASSUME ThreadsOK, Holder, NEW t \in Threads, stack[t] # <<>>, Pop(t),
         \/ mutex' = mutex /\ mutex # t
         \/ mutex' = Free /\ mutex = t
  PROVE  Holder'
<1>1. /\ stack'[t] # <<>> => Top(t)' \in Below(t)
      /\ Below(t)' \subseteq Below(t) /\ Frames(t)' \subseteq Frames(t)
      /\ \A u \in Threads \ {t} : stack'[u] = stack[u]
  BY PopBelow
<1>2. mutex' # t
  BY ConstantsAssumption
<1> QED
  BY <1>1, <1>2, OthersHold DEF Holder

LEMMA ThreadHolds ==
  ASSUME TypeOK, Holder, NEW t \in Threads, Engine(t) \/ User(t)
  PROVE  Holder'
<1>0. /\ ThreadsOK /\ Free # t
      /\ stack[t] # <<>> => Top(t) \in Frame /\ Closed(Top(t))
      /\ mutex = t <=> stack[t] # <<>> /\ Top(t).at = "locked"
  BY TopFrame, ConstantsAssumption DEF TypeOK, ThreadsOK, Holder
<1>1. CASE User(t)
  <2>1. PICK op, o, f, a, T :
          /\ InUserCode(t) /\ UNCHANGED mutex
          /\ Push(t, Entered(op, o, f, a, T))
    <3>1. (\E f \in Functions, a \in Args : Call(t, f, a))
            => \E op, o, f, a, T : /\ InUserCode(t) /\ UNCHANGED mutex
                                  /\ Push(t, Entered(op, o, f, a, T))
      BY DEF Call
    <3>2. (\E o \in Mocks : Verify(t, o))
            => \E op, o, f, a, T : /\ InUserCode(t) /\ UNCHANGED mutex
                                  /\ Push(t, Entered(op, o, f, a, T))
      BY DEF Verify
    <3>3. (\E o \in Mocks : Destroy(t, o))
            => \E op, o, f, a, T : /\ InUserCode(t) /\ UNCHANGED mutex
                                  /\ Push(t, Entered(op, o, f, a, T))
      BY DEF Destroy
    <3> QED
      BY <1>1, <3>1, <3>2, <3>3 DEF User
  <2>2. PICK s : s = Entered(op, o, f, a, T)
    OBVIOUS
  <2>3. s.at = "enter" /\ s.users = FALSE
    BY <2>2 DEF Entered
  <2> QED
    BY <1>0, <2>1, <2>2, <2>3, PushHolds DEF InUserCode
<1>2. CASE UntypedFindMatchingExpectation(t)
  <2>1. /\ stack[t] # <<>> /\ UNCHANGED mutex /\ mutex # t
        /\ \E e, told, acts : Answer(t, e, told, acts)
    BY <1>0, <1>2 DEF UntypedFindMatchingExpectation, At
  <2>2. PICK e, told, acts : Answer(t, e, told, acts)
    BY <2>1
  <2>3. PICK b \in BOOLEAN : b = (acts \/ Top(t).fn \in onCall)
    OBVIOUS
  <2>4. PICK s : s = [Top(t) EXCEPT !.at = "perform", !.exp = e, !.told = told, !.users = b]
    OBVIOUS
  <2>5. Move(t, s)
    BY <2>2, <2>3, <2>4 DEF Answer
  <2>6. s.at = "perform"
    BY <1>0, <2>1, <2>4 DEF Frame
  <2> QED
    BY <1>0, <2>1, <2>5, <2>6, MoveHolds DEF Closed
<1>3. CASE Report(t)
  <2>1. stack[t] # <<>> /\ Pop(t) /\ UNCHANGED mutex /\ mutex # t
    BY <1>0, <1>3 DEF Report, At
  <2> QED
    BY <1>0, <2>1, PopHolds
<1>4. CASE Lock(t)
  <2>1. stack[t] # <<>> /\ Top(t).at = "enter" /\ ~Top(t).users /\ mutex # t
    BY <1>0, <1>4 DEF Lock, At, Closed
  <2>2. CASE Pop(t) /\ UNCHANGED mutex
    BY <1>0, <2>1, <2>2, PopHolds
  <2>3. CASE mutex = Free /\ mutex' = t /\ Move(t, [Top(t) EXCEPT !.at = "locked"])
    <3>1. PICK s : s = [Top(t) EXCEPT !.at = "locked"]
      OBVIOUS
    <3>2. s.at = "locked" /\ ~s.users /\ s.op = Top(t).op
      BY <1>0, <2>1, <3>1 DEF Frame
    <3>3. Closed(s)
      BY <1>4, <3>2 DEF Closed, Lock, At
    <3> QED
      BY <1>0, <2>1, <2>3, <3>1, <3>2, <3>3, MoveHolds
  <2> QED
    BY <1>4, <2>2, <2>3 DEF Lock
<1>5. CASE Relock(t)
  <2>1. /\ stack[t] # <<>> /\ Top(t).at = "delete" /\ mutex # t /\ mutex = Free
    BY <1>0, <1>5 DEF Relock, At
  <2>2. CASE /\ Top(t).op = "verify" /\ mutex' = t
             /\ Move(t, [Top(t) EXCEPT !.at = "locked", !.users = FALSE])
    <3>1. PICK s : s = [Top(t) EXCEPT !.at = "locked", !.users = FALSE]
      OBVIOUS
    <3>2. s.at = "locked" /\ ~s.users /\ s.op = "verify"
      BY <1>0, <2>1, <2>2, <3>1 DEF Frame
    <3> QED
      BY <1>0, <2>1, <2>2, <3>1, <3>2, MoveHolds DEF Closed
  <2>3. CASE /\ UNCHANGED mutex
             /\ Move(t, [Top(t) EXCEPT !.at = "defaults", !.users = Top(t).fn \in onCall])
    <3>1. PICK b : b = (Top(t).fn \in onCall)
      OBVIOUS
    <3>2. PICK s : s = [Top(t) EXCEPT !.at = "defaults", !.users = b]
      OBVIOUS
    <3>3. s.at = "defaults"
      BY <1>0, <2>1, <3>2 DEF Frame
    <3> QED
      BY <1>0, <2>1, <2>3, <3>1, <3>2, <3>3, MoveHolds DEF Closed
  <2> QED
    BY <1>5, <2>2, <2>3 DEF Relock
<1>6. CASE Unregistered(t)
  <2>1. stack[t] # <<>> /\ UNCHANGED mutex /\ mutex # t
    BY <1>0, <1>6 DEF Unregistered, At
  <2>2. PICK s : s = [Top(t) EXCEPT !.at = "enter", !.users = FALSE]
    OBVIOUS
  <2>3. s.at = "enter" /\ ~s.users
    BY <1>0, <2>1, <2>2 DEF Frame
  <2> QED
    BY <1>0, <1>6, <2>1, <2>2, <2>3, MoveHolds DEF Closed, Unregistered
<1>7. CASE Unlock(t)
  <2>1. stack[t] # <<>> /\ Pop(t) /\ mutex = t /\ mutex' = Free
    BY <1>0, <1>7 DEF Unlock, At
  <2> QED
    BY <1>0, <2>1, PopHolds
<1>8. ASSUME NEW f \in Functions, VerifyAndClearExpectationsLocked(t, f) PROVE Holder'
  <2>1. stack[t] # <<>> /\ mutex = t /\ mutex' = Free
    BY <1>0, <1>8 DEF VerifyAndClearExpectationsLocked, Cleared, At
  <2>2. PICK b \in BOOLEAN : b = \E e \in Held(f) : exps[e].once > 0 \/ exps[e].repeated
    OBVIOUS
  <2>3. PICK s : s = [Top(t) EXCEPT !.at = "delete", !.fn = f, !.todo = @ \ {f}, !.users = b]
    OBVIOUS
  <2>4. s.at = "delete"
    BY <1>0, <2>1, <2>3 DEF Frame
  <2>5. Move(t, s)
    BY <1>8, <2>2, <2>3 DEF VerifyAndClearExpectationsLocked, Cleared
  <2> QED
    BY <1>0, <2>1, <2>4, <2>5, MoveHolds DEF Closed
<1> QED
  BY <1>1, <1>2, <1>3, <1>4, <1>5, <1>6, <1>7, <1>8 DEF Engine

\* Every step keeps it with the types.
LEMMA HolderInductive == Spec => []Holder
<1>1. Init => Holder
  <2>1. SUFFICES ASSUME Init, NEW t \in Threads
                 PROVE  Frames(t) = {} /\ Below(t) = {} /\ stack[t] = <<>> /\ mutex # t
    BY DEF Holder
  <2>2. stack[t] = <<>> /\ Len(stack[t]) = 0
    BY <2>1, LenProperties, EmptySeq DEF Init
  <2> QED
    BY <2>1, <2>2, ConstantsAssumption DEF Frames, Below, Init
<1>2. TypeOK /\ Holder /\ [Next]_vars => Holder'
  <2> SUFFICES ASSUME TypeOK, Holder, [Next]_vars PROVE Holder'
    OBVIOUS
  <2>1. CASE UNCHANGED <<mutex, stack>>
    BY <2>1 DEF Holder, Frames, Below, Top
  <2>2. SetUp => UNCHANGED <<mutex, stack>>
    BY DEF SetUp, Statement, Clause, OnCall, Expect, With, Times, InSequence, After,
           WillOnce, WillRepeatedly, RetiresOnSaturation, Scope
  <2>3. UNCHANGED vars => UNCHANGED <<mutex, stack>>
    BY DEF vars, engine
  <2> QED
    BY <2>1, <2>2, <2>3, ThreadHolds DEF Next
<1> QED
  BY <1>1, <1>2, TypeCorrect, PTL DEF Spec

\* While the mutex is held its holder is about to verify and clear, with no code
\* of the user to come back to before it is released: g_gmock_mutex is not taken
\* twice by one thread.
THEOREM HeldOnlyToClearAlways == Spec => []HeldOnlyToClear
<1>1. TypeOK /\ Holder => HeldOnlyToClear
  <2> SUFFICES ASSUME TypeOK, Holder, NEW t \in Threads
               PROVE  /\ mutex = t <=> At(t, {"verify", "destroy"}, "locked")
                      /\ mutex = t => ~Top(t).users
    BY DEF HeldOnlyToClear
  <2>1. /\ stack[t] # <<>> => Top(t) \in Frame /\ Closed(Top(t))
        /\ mutex = t <=> stack[t] # <<>> /\ Top(t).at = "locked"
    BY TopFrame DEF TypeOK, ThreadsOK, Holder
  <2>2. stack[t] # <<>> => Top(t).op \in {"call", "verify", "destroy"}
    BY <2>1 DEF Frame
  <2> QED
    BY <2>1, <2>2 DEF Closed, At
<1> QED
  BY <1>1, TypeCorrect, HolderInductive, PTL
=============================================================================
