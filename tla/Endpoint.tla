------------------------------ MODULE Endpoint ------------------------------
(***************************************************************************)
(* ExtractIpAndPort() of Chatter/Chatter.h: what the channel's constructor *)
(* makes of an "ip:port" given on the command line.                        *)
(***************************************************************************)
EXTENDS Tokeniser, Atoi

CONSTANT UShortMax \* the largest unsigned short

ASSUME EndpointAssumption ==
  /\ UShortMax \in Nat
  /\ {":"} \in Delimiters

VARIABLES ip, port, step

endpointVars == <<vars, ip, port, step>>

EndpointInit ==
  /\ \E s \in Strings : Constructed(s, {":"})
  /\ ip = <<>>
  /\ port = 0
  /\ step = "ip"

\* The characters of the token NextToken() has just returned.
LastToken ==
  LET t == tokens'[Len(tokens')] IN SubSeq(str, t.first + 1, t.end)

\* A bug: a port too big is taken for the biggest.
CutToUShort(n) == IF n > UShortMax THEN UShortMax ELSE n % (UShortMax + 1)

\* A bug: the port is kept in an int.
KeptAsInt(n) == n

\* The conversion from int to unsigned short.
ToUShort(n) == n % (UShortMax + 1)

\* The first HasNext() is always true.
TakeIp ==
  /\ step = "ip"
  /\ NextToken
  /\ ip' = LastToken
  /\ step' = "port"
  /\ UNCHANGED port

\* A port that is not there leaves the 0 of the constructor.
TakePort ==
  /\ step = "port"
  /\ \/ has_next /\ NextToken /\ port' = ToUShort(atoi(LastToken))
     \/ ~has_next /\ UNCHANGED <<vars, port>>
  /\ step' = "done"
  /\ UNCHANGED ip

EndpointNext == TakeIp \/ TakePort

EndpointSpec == EndpointInit /\ [][EndpointNext]_endpointVars
-----------------------------------------------------------------------------
EndpointTypeOK ==
  /\ TypeOK
  /\ ip \in Seq(Chars)
  /\ port \in 0..UShortMax
  /\ step \in {"ip", "port", "done"}

\* What was typed: str up to its first colon, and from there to the second.
Colons == {0, Len(str) + 1} \cup {i \in 1..Len(str) : str[i] = ":"}
NextColon(i) == CHOOSE j \in Colons : j > i /\ \A k \in Colons : k > i => j <= k
IpTyped == SubSeq(str, 1, NextColon(0) - 1)
PortTyped == SubSeq(str, NextColon(0) + 1, NextColon(NextColon(0)) - 1)
HasColon == NextColon(0) <= Len(str)

\* The address is what stands before the first colon, all of the string if there
\* is none: an empty string and one that starts with a colon included.
IpIsRead == step # "ip" => ip = IpTyped

\* A number behind the first colon that a port can have is the port, and without
\* a colon the port is 0.  A number too big or negative is taken modulo 2^16
\* although it passes through long and int on its way: where glibc is used the
\* wrap-arounds agree up to the ends of long.
PortIsRead ==
  step = "done" /\ (IntMax + 1) % (UShortMax + 1) = 0 =>
    LET n == Number(PortTyped) IN
      /\ ~HasColon => port = 0
      /\ HasColon =>
           \/ port = n % (UShortMax + 1)
           \/ /\ n \notin 0..UShortMax
              /\ Saturates \/ n \notin (-LongMax - 1)..LongMax
=============================================================================
