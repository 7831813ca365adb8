---------------------------- MODULE Conversation ----------------------------
(***************************************************************************)
(* What two people at two chatters may rely on, whatever the threads, the  *)
(* sockets and the network do: a window's history only grows, by what its  *)
(* user says and by what a peer said before; a heard line may be cut, and  *)
(* any may be missing, repeated or out of order.  A closed window stays    *)
(* as it is.                                                               *)
(***************************************************************************)
EXTENDS Naturals, Sequences

CONSTANTS
  Peers,   \* the people, one window each
  Reaches, \* the pairs <<p, q>> where q listens where p sends to
  Texts,   \* what can be said
  Size     \* the length of each text

VARIABLES
  history, \* the lines each window shows
  closed   \* the people whose window is closed

Line(by, t, n) == [by |-> by, text |-> t, size |-> n]

\* p's window shows that p said t.
HasSaid(p, t) ==
  \E i \in 1..Len(history[p]) : history[p][i] = Line("me", t, Size[t])

Init ==
  /\ history = [p \in Peers |-> <<>>]
  /\ closed = {}

Extend(p, line) ==
  /\ p \notin closed
  /\ history' = [history EXCEPT ![p] = Append(@, line)]
  /\ UNCHANGED closed

Say(p) == \E t \in Texts : Extend(p, Line("me", t, Size[t]))

Hear(p) ==
  \E q \in Peers, t \in Texts :
    /\ <<q, p>> \in Reaches
    /\ HasSaid(q, t)
    /\ \E n \in 1..Size[t] : Extend(p, Line("peer", t, n))

Close(p) ==
  /\ closed' = closed \cup {p}
  /\ UNCHANGED history

Next == \E p \in Peers : Say(p) \/ Hear(p) \/ Close(p)

Spec == Init /\ [][Next]_<<history, closed>>
=============================================================================
