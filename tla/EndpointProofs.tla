--------------------------- MODULE EndpointProofs ---------------------------
(***************************************************************************)
(* Proofs about Endpoint.                                                  *)
(***************************************************************************)
EXTENDS Endpoint, AtoiProofs

\* Every behaviour of ExtractIpAndPort() is one of Tokeniser.
THEOREM ExtractIsCaller == EndpointSpec => Spec
<1>1. EndpointInit => Init
  BY EndpointAssumption, Zenon DEF EndpointInit, Init
<1>2. [EndpointNext]_endpointVars => [Next]_vars
  <2>1. TakeIp => Next
    BY DEF TakeIp, Next
  <2>2. TakePort => Next \/ UNCHANGED vars
    BY DEF TakePort, Next
  <2>3. UNCHANGED endpointVars => UNCHANGED vars
    BY DEF endpointVars
  <2> QED
    BY <2>1, <2>2, <2>3 DEF EndpointNext
<1> QED
  BY <1>1, <1>2, PTL DEF EndpointSpec, Spec

\* A part of the argument without a colon ends where the next colon stands.
LEMMA NextColonIs ==
  ASSUME NEW o \in Nat, NEW e \in Nat, Len(str) \in Nat, o <= e, e <= Len(str),
         \A i \in (o + 1)..e : str[i] # ":",
         e < Len(str) => str[e + 1] = ":"
  PROVE  NextColon(o) = e + 1
<1> DEFINE P(j) == j \in Colons /\ j > o /\ \A k \in Colons : k > o => j <= k
<1>1. P(e + 1)
  BY DEF Colons
<1>2. ASSUME NEW j, P(j) PROVE j = e + 1
  <2>1. e + 1 <= j /\ j <= e + 1 /\ j \in Nat
    BY <1>1, <1>2 DEF Colons
  <2> QED
    BY <2>1
<1>3. NextColon(o) = CHOOSE j : P(j)
  BY DEF NextColon
<1> HIDE DEF P
<1> QED
  BY <1>1, <1>2, <1>3

\* NextToken() reads from offset up to the next colon.
LEMMA TokenIsRead ==
  ASSUME IInv, delims = {":"}, NextToken
  PROVE  \E e \in offset..Len(str) :
           /\ e + 1 = NextColon(offset)
           /\ LastToken = SubSeq(str, offset + 1, e)
           /\ LastToken \in Seq(Chars)
           /\ \/ e < Len(str) /\ offset' = e + 1 /\ has_next'
              \/ e = Len(str) /\ ~has_next'
<1>1. /\ str \in Seq(Chars) /\ Len(str) \in Nat /\ offset \in 0..Len(str)
      /\ tokens \in Seq([first : Nat, end : Nat])
  BY TokeniserAssumption, LenProperties DEF IInv, TypeOK
<1>2. PICK e \in offset..Len(str) :
        /\ tokens' = Append(tokens, [first |-> offset, end |-> e])
        /\ Hits(str, offset) \cap (offset..e) \subseteq {e}
        /\ \/ e < Len(str) /\ str[e + 1] \in delims /\ offset' = e + 1 /\ has_next'
           \/ e = Len(str) /\ offset' = 0 /\ ~has_next'
  BY Cut
<1>3. \A i \in (offset + 1)..e : str[i] # ":"
  <2> SUFFICES ASSUME NEW i \in (offset + 1)..e, str[i] = ":" PROVE FALSE
    OBVIOUS
  <2>1. i - 1 \in offset..(Len(str) - 1) /\ i - 1 \in offset..e /\ i - 1 # e
    BY <1>1
  <2>2. str[(i - 1) + 1] \in delims
    BY <1>1
  <2> QED
    BY <1>2, <2>1, <2>2 DEF Hits
<1>4. NextColon(offset) = e + 1
  <2>1. offset \in Nat /\ e \in Nat /\ offset <= e /\ e <= Len(str)
    BY <1>1
  <2>2. e < Len(str) => str[e + 1] = ":"
    BY <1>2
  <2> QED
    BY <1>1, <1>3, <2>1, <2>2, NextColonIs
<1>5. LastToken = SubSeq(str, offset + 1, e)
  <2>1. [first |-> offset, end |-> e] \in [first : Nat, end : Nat]
    BY <1>1
  <2>2. tokens'[Len(tokens')] = [first |-> offset, end |-> e]
    BY <1>1, <1>2, <2>1, AppendProperties
  <2>3. LastToken = LET t == [first |-> offset, end |-> e] IN SubSeq(str, t.first + 1, t.end)
    BY <2>2 DEF LastToken
  <2> QED
    BY <2>3
<1>6. SubSeq(str, offset + 1, e) \in Seq(Chars)
  <2>1. \A i \in (offset + 1)..e : str[i] \in Chars
    BY <1>1, ElementOfSeq
  <2> QED
    BY <1>1, <2>1, SubSeqProperties
<1> QED
  BY <1>2, <1>4, <1>5, <1>6

-----------------------------------------------------------------------------
\* How far the argument has been read.
Read ==
  /\ delims = {":"}
  /\ step = "ip" => offset = 0
  /\ IpIsRead
  /\ step = "port" => /\ has_next <=> HasColon
                      /\ has_next => offset = NextColon(0)
  /\ step # "done" => port = 0
  /\ step = "done" => IF HasColon
                        THEN PortTyped \in Seq(Chars) /\ port = ToUShort(atoi(PortTyped))
                        ELSE port = 0

LEMMA ReadAtStart == EndpointInit => Read
BY DEF EndpointInit, Constructed, Read, IpIsRead

LEMMA ReadStep ==
  ASSUME IInv, Read, [EndpointNext]_endpointVars
  PROVE  Read'
<1> USE DEF Read
<1>1. str' = str /\ delims' = delims
  BY DEF EndpointNext, TakeIp, TakePort, NextToken, endpointVars, vars
<1>2. /\ NextColon(0)' = NextColon(0) /\ HasColon' = HasColon
      /\ IpTyped' = IpTyped /\ PortTyped' = PortTyped
  BY <1>1 DEF HasColon, IpTyped, PortTyped, NextColon, Colons
<1>3. str \in Seq(Chars) /\ Len(str) \in Nat /\ offset \in 0..Len(str)
  BY TokeniserAssumption, LenProperties DEF IInv, TypeOK
<1>4. CASE TakeIp
  <2>1. NextToken /\ offset = 0 /\ ip' = LastToken /\ step = "ip" /\ step' = "port" /\ port' = port
    BY <1>4 DEF TakeIp
  <2>2. PICK e \in offset..Len(str) :
           /\ e + 1 = NextColon(offset)
           /\ LastToken = SubSeq(str, offset + 1, e)
           /\ \/ e < Len(str) /\ offset' = e + 1 /\ has_next'
              \/ e = Len(str) /\ ~has_next'
    BY <2>1, TokenIsRead
  <2>3. NextColon(0) = e + 1 /\ e \in Nat /\ LastToken = SubSeq(str, 1, e)
    BY <1>3, <2>1, <2>2
  <2>4. IpTyped = SubSeq(str, 1, e)
    BY <2>3 DEF IpTyped
  <2>5. has_next' <=> HasColon
    BY <1>3, <2>2, <2>3 DEF HasColon
  <2> QED
    BY <1>1, <1>2, <2>1, <2>2, <2>3, <2>4, <2>5 DEF IpIsRead
<1>5. CASE TakePort /\ has_next
  <2>1. /\ NextToken /\ port' = ToUShort(atoi(LastToken)) /\ step = "port" /\ step' = "done"
        /\ ip' = ip /\ HasColon /\ offset = NextColon(0)
    BY <1>5 DEF TakePort
  <2>2. PICK e \in offset..Len(str) :
           /\ e + 1 = NextColon(offset) /\ LastToken = SubSeq(str, offset + 1, e)
           /\ LastToken \in Seq(Chars)
    BY <2>1, TokenIsRead
  <2>3. e \in Nat /\ NextColon(NextColon(0)) = e + 1
    BY <1>3, <2>1, <2>2
  <2>4. LastToken = PortTyped
    BY <2>1, <2>2, <2>3 DEF PortTyped
  <2> QED
    BY <1>1, <1>2, <2>1, <2>2, <2>4 DEF IpIsRead
<1>6. CASE TakePort /\ ~has_next
  BY <1>1, <1>2, <1>6 DEF TakePort, IpIsRead
<1>7. CASE UNCHANGED endpointVars
  BY <1>2, <1>7 DEF endpointVars, vars, IpIsRead
<1> QED
  BY <1>4, <1>5, <1>6, <1>7 DEF EndpointNext

LEMMA ReadInductive == EndpointSpec => []Read
<1>1. IInv /\ Read /\ [EndpointNext]_endpointVars => Read'
  BY ReadStep
<1> QED
  BY <1>1, ReadAtStart, ExtractIsCaller, Inductive, PTL DEF EndpointSpec

\* Whatever the argument, the address handed to the socket is what stands before
\* its first colon.
THEOREM IpIsReadAlways == EndpointSpec => []IpIsRead
<1>1. Read => IpIsRead
  BY DEF Read
<1> QED
  BY <1>1, ReadInductive, PTL

\* The port is an unsigned short and the address a part of the argument, whatever
\* stands where they should.
THEOREM EndpointTypeCorrect == EndpointSpec => []EndpointTypeOK
<1> DEFINE Own == /\ ip \in Seq(Chars) /\ port \in 0..UShortMax
                  /\ step \in {"ip", "port", "done"}
<1>1. EndpointInit => Own
  BY EndpointAssumption, EmptySeq DEF EndpointInit
<1>2. IInv /\ Read /\ Own /\ [EndpointNext]_endpointVars => Own'
  <2> SUFFICES ASSUME IInv, Read, Own, [EndpointNext]_endpointVars PROVE Own'
    OBVIOUS
  <2>1. NextToken => LastToken \in Seq(Chars) /\ atoi(LastToken) \in Ints
    BY TokenIsRead, AtoiIsInt DEF Read
  <2>2. ASSUME NEW n \in Ints PROVE ToUShort(n) \in 0..UShortMax
    BY EndpointAssumption, AtoiAssumption DEF ToUShort, Ints
  <2>3. CASE TakeIp
    BY <2>1, <2>3 DEF TakeIp
  <2>4. CASE TakePort
    BY <2>1, <2>2, <2>4 DEF TakePort
  <2>5. CASE UNCHANGED endpointVars
    BY <2>5 DEF endpointVars
  <2> QED
    BY <2>3, <2>4, <2>5 DEF EndpointNext
<1>3. TypeOK /\ Own => EndpointTypeOK
  BY DEF EndpointTypeOK
<1> QED
  BY <1>1, <1>2, <1>3, ExtractIsCaller, Inductive, ReadInductive, TypeCorrect, PTL
     DEF EndpointSpec

-----------------------------------------------------------------------------
(* The port.                                                               *)

\* What is converted to an int and an unsigned short keeps its remainder.
LEMMA WrappedRemainder ==
  ASSUME NEW n \in Int, (IntMax + 1) % (UShortMax + 1) = 0
  PROVE  Wrapped(n) \in Int /\ Wrapped(n) % (UShortMax + 1) = n % (UShortMax + 1)
<1> DEFINE m == UShortMax + 1
           M == 2 * IntMax + 2
           a == n + IntMax + 1
           q == (IntMax + 1) \div m
           k == a \div M
<1>1. m \in Nat \ {0} /\ M \in Nat \ {0} /\ a \in Int /\ IntMax \in Nat /\ IntMax + 1 \in Int
  BY AtoiAssumption, EndpointAssumption
<1>2. q \in Int /\ IntMax + 1 = m * q
  <2>1. IntMax + 1 = m * q + ((IntMax + 1) % m) /\ q \in Int
    <3> HIDE DEF m
    <3> QED
      BY <1>1, Remainder
  <2>2. m * q \in Int
    <3> HIDE DEF m, q
    <3> QED
      BY <1>1, <2>1
  <2> HIDE DEF q
  <2> QED
    BY <2>1, <2>2
<1>3. k \in Int /\ a % M \in 0..(M - 1) /\ a = M * k + (a % M)
  <2> HIDE DEF M, a
  <2> QED
    BY <1>1, Remainder
<1>4. Wrapped(n) = (a % M) - IntMax - 1
  BY DEF Wrapped
<1> HIDE DEF k, q
<1>5. Wrapped(n) \in Int /\ Wrapped(n) + M * k = n /\ M * k \in Int
  <2>1. M * k \in Int
    BY <1>1, <1>3
  <2> DEFINE r == a % M
  <2>2. r \in Int /\ a = M * k + r /\ Wrapped(n) = r - IntMax - 1
    BY <1>3, <1>4
  <2> HIDE DEF r, M
  <2> QED
    BY <1>1, <2>1, <2>2
<1>6. M * k = m * (2 * q * k) /\ 2 * q * k \in Int
  <2>1. M = 2 * (m * q)
    BY <1>1, <1>2
  <2> HIDE DEF M, m
  <2>2. 2 * (m * q) * k = m * (2 * q * k) /\ 2 * q * k \in Int
    BY <1>1, <1>2, <1>3, SMT
  <2> QED
    BY <2>1, <2>2
<1> DEFINE j == 2 * q * k
<1> HIDE DEF j, M, m
<1>7. j \in Int /\ n = Wrapped(n) + m * j /\ Wrapped(n) \in Int
  BY <1>5, <1>6 DEF j
<1>8. n % m = Wrapped(n) % m
  BY <1>1, <1>7, SameRemainder
<1> QED
  BY <1>7, <1>8 DEF m

\* A port survives both conversions, and so does the remainder of what is not a
\* port, up to the ends of long.
LEMMA PortOfNumber ==
  ASSUME NEW C, NEW s \in Seq(C), (IntMax + 1) % (UShortMax + 1) = 0
  PROVE  \/ ToUShort(atoi(s)) = Number(s) % (UShortMax + 1)
         \/ /\ Number(s) \notin 0..UShortMax
            /\ Saturates \/ Number(s) \notin (-LongMax - 1)..LongMax
<1> DEFINE n == Number(s)
<1>1. n \in Int
  BY NumberIsInt
<1>2. /\ IntMax \in Nat /\ LongMax \in Nat /\ IntMax <= LongMax /\ UShortMax \in Nat
      /\ Saturates \in BOOLEAN
  BY AtoiAssumption, EndpointAssumption
<1>3. CASE n \in 0..UShortMax
  <2>1. UShortMax <= IntMax
    <3>1. CASE IntMax < UShortMax
      <4>1. (IntMax + 1) % (UShortMax + 1) = IntMax + 1
        BY <1>2, <3>1
      <4> QED
        BY <1>2, <4>1
    <3> QED
      BY <1>2, <3>1
  <2>2. n \in Ints
    BY <1>2, <1>3, <2>1 DEF Ints
  <2>3. atoi(s) = n
    BY <2>2, AtoiIsNumber
  <2> QED
    BY <2>3 DEF ToUShort
<1>4. CASE ~Saturates /\ n \in (-LongMax - 1)..LongMax
  <2>1. Clamp(n, LongMax) = n
    BY <1>1, <1>2, <1>4, ClampIs
  <2>2. atoi(s) = Wrapped(n)
    BY <1>4, <2>1 DEF atoi
  <2> QED
    BY <1>1, <2>2, WrappedRemainder DEF ToUShort
<1> QED
  BY <1>3, <1>4

\* The port is what stands between the first colon and the second, taken modulo
\* 2^16 if it is no port, whatever the argument and however wide int and long.
THEOREM PortIsReadAlways == EndpointSpec => []PortIsRead
<1>1. IInv /\ Read => PortIsRead
  <2> SUFFICES ASSUME IInv, Read, step = "done", (IntMax + 1) % (UShortMax + 1) = 0
               PROVE  /\ ~HasColon => port = 0
                      /\ HasColon =>
                           \/ port = Number(PortTyped) % (UShortMax + 1)
                           \/ /\ Number(PortTyped) \notin 0..UShortMax
                              /\ Saturates \/ Number(PortTyped) \notin (-LongMax - 1)..LongMax
    BY DEF PortIsRead
  <2>1. ~HasColon => port = 0
    BY DEF Read
  <2>2. HasColon => PortTyped \in Seq(Chars) /\ port = ToUShort(atoi(PortTyped))
    BY DEF Read
  <2> QED
    BY <2>1, <2>2, PortOfNumber
<1> QED
  BY <1>1, ReadInductive, ExtractIsCaller, Inductive, PTL
=============================================================================
