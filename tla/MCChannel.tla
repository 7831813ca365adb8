------------------------------ MODULE MCChannel ------------------------------
(***************************************************************************)
(* Instances of UdpChatChannel for TLC: channels a and b, addresses x and  *)
(* y, and texts of 0, 2 and 3 bytes against a buffer of 2.                 *)
(***************************************************************************)
EXTENDS UdpChatChannel, TLC

CONSTANTS a, b, x, y, empty, full, long

MCSize == [t \in Texts |-> IF t = empty THEN 0 ELSE IF t = full THEN 2 ELSE 3]

\* a listens on x and sends to y, b the other way round, as in
\* run_two_chatters.sh.
AtoB == (a :> x) @@ (b :> y)
BtoA == (a :> y) @@ (b :> x)

\* Both channels listen on x and send to themselves: run twice by mistake.
BothX == (a :> x) @@ (b :> x)
=============================================================================
