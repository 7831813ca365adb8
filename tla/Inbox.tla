-------------------------------- MODULE Inbox --------------------------------
(***************************************************************************)
(* What a client of a chat channel may rely on, without its sockets and    *)
(* threads: messages are read in the order they were queued; each one that *)
(* can be read is counted, and only then passed to the handler, if there   *)
(* is one; the next is not counted before.  What is queued may be lost     *)
(* while the channel is (re)initialised.  After its end nothing happens.   *)
(***************************************************************************)
EXTENDS Naturals, Sequences

CONSTANTS
  Boxes,    \* the channels
  Texts,    \* what can be queued
  Readable  \* the texts that reach the client at all

VARIABLES
  queue,    \* what was queued for a box, the messages read included
  read,     \* how many of these were read
  count,    \* how many the client is told of
  pending,  \* the last one read was counted and not yet passed on
  handler,  \* the client has a handler
  passed,   \* the positions passed to it
  life      \* "on", "over" after the end, or "crashed"

inboxVars == <<queue, read, count, pending, handler, passed, life>>

Init ==
  /\ queue = [b \in Boxes |-> <<>>]
  /\ read = [b \in Boxes |-> 0]
  /\ count = [b \in Boxes |-> 0]
  /\ pending = [b \in Boxes |-> FALSE]
  /\ handler = [b \in Boxes |-> FALSE]
  /\ passed = [b \in Boxes |-> {}]
  /\ life = [b \in Boxes |-> "on"]

Enqueue(b) ==
  /\ \E t \in Texts : queue' = [queue EXCEPT ![b] = Append(@, t)]
  /\ UNCHANGED <<read, count, pending, handler, passed, life>>

\* Nothing that was read is lost.
Lose(b) ==
  /\ \E n \in read[b]..Len(queue[b]) : queue' = [queue EXCEPT ![b] = SubSeq(@, 1, n)]
  /\ UNCHANGED <<read, count, pending, handler, passed, life>>

ReadNext(b) ==
  /\ ~pending[b]
  /\ read[b] < Len(queue[b])
  /\ read' = [read EXCEPT ![b] = @ + 1]

\* The next message is one no client is told of.
Skip(b) ==
  /\ ReadNext(b)
  /\ queue[b][read[b] + 1] \notin Readable
  /\ UNCHANGED <<queue, count, pending, handler, passed, life>>

Count(b) ==
  /\ ReadNext(b)
  /\ queue[b][read[b] + 1] \in Readable
  /\ count' = [count EXCEPT ![b] = @ + 1]
  /\ pending' = [pending EXCEPT ![b] = TRUE]
  /\ UNCHANGED <<queue, handler, passed, life>>

\* With a handler the message is passed to it, without one it is dropped.
Pass(b) ==
  /\ pending[b]
  /\ pending' = [pending EXCEPT ![b] = FALSE]
  /\ passed' = IF handler[b] THEN [passed EXCEPT ![b] = @ \cup {read[b]}] ELSE passed
  /\ UNCHANGED <<queue, read, count, handler, life>>

SetHandler(b) ==
  /\ handler' = [handler EXCEPT ![b] = TRUE]
  /\ UNCHANGED <<queue, read, count, pending, passed, life>>

\* A channel only ends with nothing in its hands; it may crash at any time.
End(b, how) ==
  /\ how = "over" => ~pending[b]
  /\ life' = [life EXCEPT ![b] = how]
  /\ UNCHANGED <<queue, read, count, pending, handler, passed>>

Next ==
  \E b \in Boxes :
    /\ life[b] = "on"
    /\ \/ Enqueue(b) \/ Lose(b) \/ Skip(b) \/ Count(b) \/ Pass(b) \/ SetHandler(b)
       \/ \E how \in {"over", "crashed"} : End(b, how)

Spec == Init /\ [][Next]_inboxVars
=============================================================================
