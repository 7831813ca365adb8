------------------------ MODULE UdpChatChannelProofs ------------------------
(***************************************************************************)
(* Proofs about UdpChatChannel, for every set of channels, addresses and   *)
(* texts, every buffer size and every set of failing system calls.         *)
(***************************************************************************)
EXTENDS UdpChatChannel, FiniteSetTheorems, SequenceTheorems, TLAPS

\* The values of every variable stay in their sets, whatever the calls, the
\* faults and the arrivals.
THEOREM TypeCorrect == Spec => []TypeOK
<1> USE ConstantsAssumption
<1>1. Init => TypeOK
  BY DEF Init, SocketInit, TypeOK, SocketTypeOK, SocketStates, OwnerStates,
         WorkerStates, Datagrams
<1>2. TypeOK /\ [Next]_vars => TypeOK'
  <2> SUFFICES ASSUME TypeOK, [Next]_vars PROVE TypeOK'
    OBVIOUS
  <2> USE DEF TypeOK, SocketTypeOK, SocketStates, OwnerStates, WorkerStates,
              Crashes, socketVars, threadVars
  <2>1. ASSUME NEW c \in Channels, NEW how \in Crashes, Crash(c, how)
        PROVE  TypeOK'
    BY <2>1 DEF Crash, CloseSockets
  <2>2. ASSUME NEW c \in Channels, Initialise(c) PROVE TypeOK'
    <3>1. /\ SubSeq(arrived[c], 1, taken[c]) \in Seq(Texts)
          /\ Len(SubSeq(arrived[c], 1, taken[c])) = taken[c]
      BY SubSeqProperties
    <3>2. SocketTypeOK'
      BY <2>2, <3>1 DEF Initialise, CreateSockets, Created
    <3> QED
      BY <2>2, <3>2 DEF Initialise
  <2>3. ASSUME NEW c \in Channels, BindReceiver(c) PROVE TypeOK'
    BY <2>3 DEF BindReceiver, Bind
  <2>4. ASSUME NEW c \in Channels, StartWorker(c) PROVE TypeOK'
    BY <2>1, <2>4 DEF StartWorker
  <2>5. ASSUME NEW c \in Channels, NEW t \in Texts, NEW rc \in BOOLEAN, SendMessage(c, t, rc)
        PROVE  TypeOK'
    <3>1. [to |-> PeerAddr[c], text |-> t] \in Datagrams
      BY DEF Datagrams
    <3> QED
      BY <2>1, <2>5, <3>1 DEF SendMessage, SendTo
  <2>6. ASSUME NEW c \in Channels, SetCallbackHandler(c) PROVE TypeOK'
    BY <2>6 DEF SetCallbackHandler
  <2>7. ASSUME NEW c \in Channels, Destroy(c) PROVE TypeOK'
    BY <2>7 DEF Destroy
  <2>8. ASSUME NEW c \in Channels, Join(c) PROVE TypeOK'
    BY <2>8 DEF Join, CloseSockets
  <2>9. ASSUME NEW c \in Channels, TestStop(c) PROVE TypeOK'
    BY <2>9 DEF TestStop
  <2>10. ASSUME NEW c \in Channels, Receive(c) PROVE TypeOK'
    <3>1. CASE HasDatagram(c) /\ RecvFrom(c) /\ UNCHANGED <<owner, stopWorker, handler, received, handled>>
      <4>1. taken' \in [Channels -> Nat] /\ \A d \in Channels : taken'[d] <= Len(arrived[d])
        BY <3>1 DEF RecvFrom, HasDatagram
      <4>2. worker' \in [Channels -> WorkerStates]
        BY <2>10 DEF Receive, Crash
      <4> QED
        BY <3>1, <4>1, <4>2 DEF RecvFrom
    <3>2. CASE ~HasDatagram(c) /\ worker' = [worker EXCEPT ![c] = "loop"]
               /\ UNCHANGED <<socketVars, owner, stopWorker, handler, received, handled>>
      BY <3>2
    <3> QED
      BY <2>1, <2>10, <3>1, <3>2 DEF Receive
  <2>11. ASSUME NEW c \in Channels, CountMessage(c) PROVE TypeOK'
    BY <2>11 DEF CountMessage
  <2>12. ASSUME NEW c \in Channels, Callback(c) PROVE TypeOK'
    <3>1. CASE Crash(c, "handler")
      BY <2>1, <3>1
    <3>2. CASE /\ handled' = IF handler[c] THEN [handled EXCEPT ![c] = @ \cup {taken[c]}]
                                           ELSE handled
               /\ worker' = [worker EXCEPT ![c] = "loop"]
               /\ UNCHANGED <<socketVars, owner, stopWorker, handler, received>>
      BY <3>2
    <3> QED
      BY <2>12, <3>1, <3>2 DEF Callback
  <2>13. ASSUME NEW c \in Channels, Arrival(c) PROVE TypeOK'
    <3>1. PICK d \in wire : Deliver(c, d)
      BY <2>13 DEF Arrival
    <3>2. /\ Append(arrived[c], d.text) \in Seq(Texts)
          /\ Len(Append(arrived[c], d.text)) = Len(arrived[c]) + 1
      BY AppendProperties DEF Datagrams
    <3> QED
      BY <2>13, <3>1, <3>2 DEF Arrival, Deliver
  <2>14. CASE UNCHANGED vars
    BY <2>14 DEF vars
  <2> QED
    BY <2>2, <2>3, <2>4, <2>5, <2>6, <2>7, <2>8, <2>9, <2>10, <2>11, <2>12,
       <2>13, <2>14 DEF Next, Step, OwnerStep, ClientCall, WorkerStep
<1> QED
  BY <1>1, <1>2, PTL DEF Spec

-----------------------------------------------------------------------------
\* A step of one channel leaves the state of every other channel alone.
LEMMA Locality ==
  ASSUME TypeOK, NEW c \in Channels, NEW d \in Channels, d # c, Step(c)
  PROVE  UNCHANGED <<send[d], recv[d], arrived[d], taken[d], owner[d],
                     worker[d], stopWorker[d], handler[d], received[d], handled[d]>>
<1> USE DEF TypeOK, SocketTypeOK, socketVars, threadVars, Crash, CloseSockets
<1>1. CASE OwnerStep(c)
  BY <1>1 DEF OwnerStep, BindReceiver, Bind, StartWorker, Join
<1>2. CASE ClientCall(c)
  BY <1>2 DEF ClientCall, Initialise, CreateSockets, SendMessage, SendTo,
              SetCallbackHandler, Destroy
<1>3. CASE WorkerStep(c)
  BY <1>3 DEF WorkerStep, TestStop, Receive, RecvFrom, CountMessage, Callback
<1>4. CASE Arrival(c)
  BY <1>4 DEF Arrival, Deliver
<1> QED
  BY <1>1, <1>2, <1>3, <1>4 DEF Step

\* Only a step of ReceiveMessage() that finds a datagram takes one ...
LEMMA TakenStep ==
  ASSUME TypeOK, NEW c \in Channels, Step(c)
  PROVE  \/ taken'[c] = taken[c]
         \/ /\ worker[c] = "receive"
            /\ HasDatagram(c) /\ RecvFrom(c)
            /\ worker' = [worker EXCEPT ![c] =
                 IF ReceivedSize(arrived[c][taken'[c]]) > 0 THEN "count" ELSE "loop"]
            /\ UNCHANGED <<owner, stopWorker, handler, received, handled>>
<1> USE DEF TypeOK, SocketTypeOK, socketVars, threadVars, Crash, CloseSockets
<1>1. CASE OwnerStep(c)
  BY <1>1 DEF OwnerStep, BindReceiver, Bind, StartWorker, Join
<1>2. CASE ClientCall(c)
  BY <1>2 DEF ClientCall, Initialise, CreateSockets, SendMessage, SendTo,
              SetCallbackHandler, Destroy
<1>3. CASE WorkerStep(c)
  BY <1>3 DEF WorkerStep, TestStop, Receive, CountMessage, Callback
<1>4. CASE Arrival(c)
  BY <1>4 DEF Arrival, Deliver
<1> QED
  BY <1>1, <1>2, <1>3, <1>4 DEF Step

\* ... and no step changes a message that was taken before.
LEMMA ArrivedIsStable ==
  ASSUME TypeOK, NEW c \in Channels, Step(c), NEW i \in 1..taken[c]
  PROVE  arrived'[c][i] = arrived[c][i]
<1> USE DEF TypeOK, SocketTypeOK, socketVars, threadVars, Crash, CloseSockets
<1>0. arrived[c] \in Seq(Texts) /\ taken[c] \in 0..Len(arrived[c])
  OBVIOUS
<1>1. CASE OwnerStep(c)
  BY <1>1 DEF OwnerStep, BindReceiver, Bind, StartWorker, Join
<1>2. CASE Initialise(c)
  <2>1. arrived'[c] = SubSeq(arrived[c], 1, taken[c])
    BY <1>2 DEF Initialise, CreateSockets
  <2> QED
    BY <1>0, <2>1, SubSeqProperties
<1>3. CASE ClientCall(c) /\ ~Initialise(c)
  BY <1>3 DEF ClientCall, SendMessage, SendTo, SetCallbackHandler, Destroy
<1>4. CASE WorkerStep(c)
  BY <1>4 DEF WorkerStep, TestStop, Receive, RecvFrom, CountMessage, Callback
<1>5. CASE Arrival(c)
  <2>1. PICK d \in wire : Deliver(c, d)
    BY <1>5 DEF Arrival
  <2>2. arrived'[c] = Append(arrived[c], d.text) /\ d.text \in Texts
    BY <2>1 DEF Deliver, Datagrams
  <2> QED
    BY <1>0, <2>2, AppendProperties
<1> QED
  BY <1>1, <1>2, <1>3, <1>4, <1>5 DEF Step

\* How a step changes the messages that were accepted.
LEMMA AcceptedStep ==
  ASSUME TypeOK, TypeOK', NEW c \in Channels, Step(c)
  PROVE  /\ taken'[c] = taken[c] => Accepted(c)' = Accepted(c)
         /\ taken'[c] # taken[c] =>
              /\ taken'[c] = taken[c] + 1
              /\ Accepted(c)' = IF ReceivedSize(arrived[c][taken'[c]]) > 0
                                THEN Accepted(c) \cup {taken'[c]}
                                ELSE Accepted(c)
<1>1. taken[c] \in Nat /\ taken'[c] \in Nat
  BY DEF TypeOK, SocketTypeOK
<1>2. \A i \in 1..taken[c] : arrived'[c][i] = arrived[c][i]
  BY ArrivedIsStable
<1>3. ASSUME taken'[c] = taken[c] PROVE Accepted(c)' = Accepted(c)
  BY <1>1, <1>2, <1>3 DEF Accepted, ReceivedSize
<1>4. ASSUME taken'[c] # taken[c]
      PROVE  /\ taken'[c] = taken[c] + 1
             /\ arrived' = arrived
  BY <1>4, TakenStep DEF RecvFrom, TypeOK, SocketTypeOK
<1>5. ASSUME taken'[c] # taken[c], ReceivedSize(arrived[c][taken'[c]]) > 0
      PROVE  Accepted(c)' = Accepted(c) \cup {taken'[c]}
  BY <1>1, <1>4, <1>5 DEF Accepted, ReceivedSize
<1>6. ASSUME taken'[c] # taken[c], ~(ReceivedSize(arrived[c][taken'[c]]) > 0)
      PROVE  Accepted(c)' = Accepted(c)
  BY <1>1, <1>4, <1>6 DEF Accepted, ReceivedSize
<1> QED
  BY <1>3, <1>4, <1>5, <1>6

-----------------------------------------------------------------------------
\* Each message is handed over at most once, after it was accepted, counted and
\* put down by no one else.  Custody is inductive as it stands.
LEMMA CustodyStep ==
  ASSUME TypeOK, TypeOK', NEW c \in Channels, Custody(c), Step(c)
  PROVE  Custody(c)'
<1> USE DEF Custody, InHand
<1>1. Accepted(c) \subseteq 1..taken[c] /\ taken[c] \in Nat
  BY DEF Accepted, TypeOK, SocketTypeOK
<1>2. CASE taken'[c] # taken[c]
  <2>1. /\ worker[c] = "receive" /\ handled' = handled
        /\ worker'[c] = IF ReceivedSize(arrived[c][taken'[c]]) > 0 THEN "count" ELSE "loop"
    BY <1>2, TakenStep DEF TypeOK
  <2>2. taken'[c] = taken[c] + 1 /\ taken'[c] \notin Accepted(c)
    BY <1>1, <1>2, AcceptedStep
  <2> QED
    BY <1>2, <2>1, <2>2, AcceptedStep
<1>3. CASE taken'[c] = taken[c]
  <2>1. Accepted(c)' = Accepted(c)
    BY <1>3, AcceptedStep
  <2> USE <1>3, <2>1 DEF TypeOK, SocketTypeOK, socketVars, threadVars, Crash
  <2>2. CASE OwnerStep(c)
    BY <2>2 DEF OwnerStep, BindReceiver, StartWorker, Join
  <2>3. CASE ClientCall(c)
    BY <2>3 DEF ClientCall, Initialise, SendMessage, SetCallbackHandler, Destroy
  <2>4. CASE WorkerStep(c)
    <3>1. CASE TestStop(c)
      BY <3>1 DEF TestStop
    <3>2. CASE Receive(c)
      <4>1. ~RecvFrom(c)
        BY <1>1 DEF RecvFrom
      <4> QED
        BY <3>2, <4>1 DEF Receive
    <3>3. CASE CountMessage(c)
      BY <3>3 DEF CountMessage
    <3>4. CASE Callback(c)
      BY <3>4 DEF Callback
    <3> QED
      BY <2>4, <3>1, <3>2, <3>3, <3>4 DEF WorkerStep
  <2>5. CASE Arrival(c)
    BY <2>5 DEF Arrival
  <2> QED
    BY <2>2, <2>3, <2>4, <2>5 DEF Step
<1> QED
  BY <1>2, <1>3

\* A message that was received is handed to the callback handler at most once.
THEOREM HandledOnceAlways == Spec => []HandledOnce
<1>1. Init => HandledOnce
  BY DEF Init, SocketInit, HandledOnce, Custody, InHand
<1>2. TypeOK /\ TypeOK' /\ HandledOnce /\ [Next]_vars => HandledOnce'
  <2> SUFFICES ASSUME TypeOK, TypeOK', HandledOnce, [Next]_vars, NEW c \in Channels
               PROVE  Custody(c)'
    BY DEF HandledOnce
  <2>1. CASE UNCHANGED vars
    BY <2>1 DEF HandledOnce, Custody, InHand, Accepted, vars, socketVars, threadVars
  <2>2. ASSUME NEW d \in Channels, d # c, Step(d) PROVE Custody(c)'
    BY <2>2, Locality DEF HandledOnce, Custody, InHand, Accepted
  <2>3. CASE Step(c)
    BY <2>3, CustodyStep DEF HandledOnce
  <2> QED
    BY <2>1, <2>2, <2>3 DEF Next
<1> QED
  BY <1>1, <1>2, TypeCorrect, PTL DEF Spec

-----------------------------------------------------------------------------
\* The accepted messages are finitely many: they can be counted.
LEMMA AcceptedIsFinite ==
  ASSUME TypeOK, NEW c \in Channels
  PROVE  IsFiniteSet(Accepted(c)) /\ Cardinality(Accepted(c)) \in Nat
<1>1. taken[c] \in Nat
  BY DEF TypeOK, SocketTypeOK
<1>2. IsFiniteSet(1..taken[c])
  BY <1>1, FS_Interval
<1>3. Accepted(c) \subseteq 1..taken[c]
  BY DEF Accepted
<1> QED
  BY <1>2, <1>3, FS_Subset, FS_CardinalityType

\* Every step of ReceiveLoop() keeps the count exact.
LEMMA CountedStep ==
  ASSUME TypeOK, TypeOK', NEW c \in Channels, Counted(c), Step(c)
  PROVE  Counted(c)'
<1> USE DEF Counted
<1>1. /\ taken[c] \in Nat /\ taken'[c] \in Nat
      /\ received[c] \in Nat /\ received'[c] \in Nat
  BY DEF TypeOK, SocketTypeOK
<1>2. CASE taken'[c] # taken[c]
  <2>1. /\ worker[c] = "receive" /\ received' = received
        /\ worker'[c] = IF ReceivedSize(arrived[c][taken'[c]]) > 0 THEN "count" ELSE "loop"
    BY <1>2, TakenStep DEF TypeOK
  <2>2. taken'[c] \notin Accepted(c)
    BY <1>1, <1>2, AcceptedStep DEF Accepted
  <2>3. Cardinality(Accepted(c) \cup {taken'[c]}) = Cardinality(Accepted(c)) + 1
    BY <2>2, AcceptedIsFinite, FS_AddElement
  <2>4. CASE ReceivedSize(arrived[c][taken'[c]]) > 0
    <3>1. Accepted(c)' = Accepted(c) \cup {taken'[c]}
      BY <1>2, <2>4, AcceptedStep
    <3>2. Cardinality(Accepted(c))' = Cardinality(Accepted(c)) + 1
      BY <2>3, <3>1
    <3> QED
      BY <1>1, <2>1, <2>4, <3>2
  <2>5. CASE ~(ReceivedSize(arrived[c][taken'[c]]) > 0)
    <3>1. Accepted(c)' = Accepted(c)
      BY <1>2, <2>5, AcceptedStep
    <3> QED
      BY <2>1, <2>5, <3>1
  <2> QED
    BY <2>4, <2>5
<1>3. CASE taken'[c] = taken[c]
  <2>1. Accepted(c)' = Accepted(c)
    BY <1>3, AcceptedStep
  <2>2. \/ received'[c] = received[c] /\ (worker'[c] = "count" <=> worker[c] = "count")
        \/ /\ received'[c] = received[c] + 1
           /\ worker[c] = "count" /\ worker'[c] = "call"
    <3> USE <1>3 DEF TypeOK, SocketTypeOK, socketVars, threadVars, Crash
    <3>1. CASE OwnerStep(c)
      BY <3>1 DEF OwnerStep, BindReceiver, StartWorker, Join
    <3>2. CASE ClientCall(c)
      BY <3>2 DEF ClientCall, Initialise, SendMessage, SetCallbackHandler, Destroy
    <3>3. CASE WorkerStep(c)
      <4>1. ~RecvFrom(c)
        BY <1>1 DEF RecvFrom
      <4> QED
        BY <3>3, <4>1 DEF WorkerStep, TestStop, Receive, CountMessage, Callback
    <3>4. CASE Arrival(c)
      BY <3>4 DEF Arrival
    <3> QED
      BY <3>1, <3>2, <3>3, <3>4 DEF Step
  <2> QED
    BY <1>1, <2>1, <2>2
<1> QED
  BY <1>2, <1>3

\* ReceivedMessageCount() is exact whatever the interleaving of the two threads.
THEOREM CountIsExactAlways == Spec => []CountIsExact
<1>1. Init => CountIsExact
  <2> SUFFICES ASSUME Init, NEW c \in Channels PROVE Counted(c)
    BY DEF CountIsExact
  <2>1. Accepted(c) = {}
    BY DEF Init, SocketInit, Accepted
  <2> QED
    BY <2>1, FS_EmptySet DEF Counted, Init
<1>2. TypeOK /\ TypeOK' /\ CountIsExact /\ [Next]_vars => CountIsExact'
  <2> SUFFICES ASSUME TypeOK, TypeOK', CountIsExact, [Next]_vars, NEW c \in Channels
               PROVE  Counted(c)'
    BY DEF CountIsExact
  <2>1. CASE UNCHANGED vars
    BY <2>1 DEF CountIsExact, Counted, Accepted, vars, socketVars, threadVars
  <2>2. ASSUME NEW d \in Channels, d # c, Step(d) PROVE Counted(c)'
    BY <2>2, Locality DEF CountIsExact, Counted, Accepted
  <2>3. CASE Step(c)
    BY <2>3, CountedStep DEF CountIsExact
  <2> QED
    BY <2>1, <2>2, <2>3 DEF Next
<1> QED
  BY <1>1, <1>2, TypeCorrect, PTL DEF Spec

-----------------------------------------------------------------------------
\* Nothing is dropped any more once a handler is installed.
THEOREM NothingDroppedAlways == Spec => NothingDroppedOnceHandlerSet
<1>1. ASSUME TypeOK, TypeOK', HandledOnce, NEW c \in Channels, handler[c], Step(c)
      PROVE  Dropped(c)' \subseteq Dropped(c)
  <2> USE DEF Dropped, InHand
  <2>1. Custody(c) /\ taken[c] \in Nat
    BY <1>1 DEF HandledOnce, TypeOK, SocketTypeOK
  <2>2. CASE taken'[c] # taken[c]
    <3>1. /\ worker[c] = "receive" /\ handled' = handled
          /\ worker'[c] = IF ReceivedSize(arrived[c][taken'[c]]) > 0 THEN "count" ELSE "loop"
      BY <1>1, <2>2, TakenStep DEF TypeOK
    <3> QED
      BY <1>1, <2>2, <3>1, AcceptedStep
  <2>3. CASE taken'[c] = taken[c]
    <3>1. Accepted(c)' = Accepted(c)
      BY <1>1, <2>3, AcceptedStep
    <3>2. \/ handled'[c] = handled[c] /\ InHand(c)' = InHand(c)
          \/ handled'[c] = handled[c] \cup {taken[c]} /\ InHand(c) = {taken[c]}
      <4> USE <1>1, <2>3 DEF TypeOK, SocketTypeOK, socketVars, threadVars, Crash
      <4>1. CASE OwnerStep(c)
        BY <4>1 DEF OwnerStep, BindReceiver, StartWorker, Join
      <4>2. CASE ClientCall(c)
        BY <4>2 DEF ClientCall, Initialise, SendMessage, SetCallbackHandler, Destroy
      <4>3. CASE WorkerStep(c)
        <5>1. ~RecvFrom(c)
          BY <2>1 DEF RecvFrom
        <5> QED
          BY <4>3, <5>1 DEF WorkerStep, TestStop, Receive, CountMessage, Callback
      <4>4. CASE Arrival(c)
        BY <4>4 DEF Arrival
      <4> QED
        BY <1>1, <4>1, <4>2, <4>3, <4>4 DEF Step
    <3> QED
      BY <3>1, <3>2
  <2> QED
    BY <2>2, <2>3
<1>2. ASSUME TypeOK, TypeOK', HandledOnce, Next, NEW c \in Channels, handler[c]
      PROVE  Dropped(c)' \subseteq Dropped(c)
  <2>1. PICK d \in Channels : Step(d)
    BY <1>2 DEF Next
  <2>2. CASE d # c
    BY <1>2, <2>1, <2>2, Locality DEF Dropped, InHand, Accepted
  <2> QED
    BY <1>1, <1>2, <2>1, <2>2
<1>3. TypeOK /\ TypeOK' /\ HandledOnce /\ [Next]_vars
        => [\A c \in Channels : handler[c] => Dropped(c)' \subseteq Dropped(c)]_vars
  BY <1>2
<1> QED
  BY <1>3, TypeCorrect, HandledOnceAlways, PTL DEF Spec, NothingDroppedOnceHandlerSet

-----------------------------------------------------------------------------
\* What the join in the destructor establishes: when the channel is gone the
\* worker has left its loop or never existed, and both sockets are closed.
Quiet(c) ==
  owner[c] = "gone" =>
    worker[c] \in {"none", "done"} /\ send[c] = "null" /\ recv[c] = "null"

\* Every step preserves Quiet and changes nothing of a channel that is gone.
LEMMA QuietStep ==
  ASSUME TypeOK, NEW c \in Channels, Quiet(c), Step(c)
  PROVE  /\ Quiet(c)'
         /\ owner[c] = "gone" =>
              UNCHANGED <<worker[c], received[c], handled[c], arrived[c], send[c], recv[c]>>
<1> USE DEF Quiet, TypeOK, SocketTypeOK, socketVars, threadVars, Crash, CloseSockets,
            Crashes
<1>1. CASE OwnerStep(c)
  BY <1>1 DEF OwnerStep, BindReceiver, Bind, StartWorker, Join
<1>2. CASE ClientCall(c)
  BY <1>2 DEF ClientCall, Initialise, CreateSockets, SendMessage, SendTo,
              SetCallbackHandler, Destroy
<1>3. CASE WorkerStep(c)
  BY <1>3 DEF WorkerStep, TestStop, Receive, RecvFrom, CountMessage, Callback
<1>4. CASE Arrival(c)
  BY <1>4 DEF Arrival, Deliver
<1> QED
  BY <1>1, <1>2, <1>3, <1>4 DEF Step

\* After ~UdpChatChannel() returned nothing of the channel changes any more.
THEOREM QuietWhenGoneAlways == Spec => QuietWhenGone
<1> DEFINE AllQuiet == \A c \in Channels : Quiet(c)
           GoneIsQuiet == \A c \in Channels : owner[c] = "gone" =>
             UNCHANGED <<worker[c], received[c], handled[c], arrived[c], send[c], recv[c]>>
<1>1. Init => AllQuiet
  BY DEF Init, Quiet
<1>2. TypeOK /\ AllQuiet /\ [Next]_vars => AllQuiet' /\ [GoneIsQuiet]_vars
  <2> SUFFICES ASSUME TypeOK, AllQuiet, [Next]_vars PROVE AllQuiet' /\ [GoneIsQuiet]_vars
    OBVIOUS
  <2>1. CASE UNCHANGED vars
    BY <2>1 DEF Quiet, vars, socketVars, threadVars
  <2>2. ASSUME NEW d \in Channels, Step(d) PROVE AllQuiet' /\ GoneIsQuiet
    <3> SUFFICES ASSUME NEW c \in Channels
                 PROVE  /\ Quiet(c)'
                        /\ owner[c] = "gone" =>
                             UNCHANGED <<worker[c], received[c], handled[c],
                                         arrived[c], send[c], recv[c]>>
      OBVIOUS
    <3>1. CASE c = d
      BY <2>2, <3>1, QuietStep
    <3>2. CASE c # d
      BY <2>2, <3>2, Locality DEF Quiet
    <3> QED
      BY <3>1, <3>2
  <2> QED
    BY <2>1, <2>2 DEF Next
<1> QED
  BY <1>1, <1>2, TypeCorrect, PTL DEF Spec, QuietWhenGone

-----------------------------------------------------------------------------
\* Once stopWorker_ is set the owner is in the destructor or past it, and starts
\* no worker.
Stopping(c) == stopWorker[c] => owner[c] \in {"joining", "gone"} \cup Crashes

\* Every step keeps that, and takes the worker nearer to the test.
LEMMA StopStep ==
  ASSUME TypeOK, NEW c \in Channels, Stopping(c), Step(c)
  PROVE  /\ Stopping(c)'
         /\ stopWorker[c] =>
              UNCHANGED worker[c] \/ StepsToTest[worker'[c]] < StepsToTest[worker[c]]
<1> USE DEF Stopping, TypeOK, SocketTypeOK, socketVars, threadVars, Crash, CloseSockets,
            Crashes
<1>1. CASE OwnerStep(c)
  BY <1>1 DEF OwnerStep, BindReceiver, Bind, StartWorker, Join
<1>2. CASE ClientCall(c)
  BY <1>2 DEF ClientCall, Initialise, CreateSockets, SendMessage, SendTo,
              SetCallbackHandler, Destroy
<1>3. CASE WorkerStep(c)
  BY <1>3 DEF WorkerStep, TestStop, Receive, RecvFrom, CountMessage, Callback, StepsToTest
<1>4. CASE Arrival(c)
  BY <1>4 DEF Arrival, Deliver
<1> QED
  BY <1>1, <1>2, <1>3, <1>4 DEF Step

\* The worker of a channel that is being destroyed takes four steps at most: what
\* the join in ~UdpChatChannel() waits for is bounded.
THEOREM StopsWithinATurnAlways == Spec => StopsWithinATurn
<1> DEFINE AllStopping == \A c \in Channels : Stopping(c)
           Nearer == \A c \in Channels : stopWorker[c] =>
             UNCHANGED worker[c] \/ StepsToTest[worker'[c]] < StepsToTest[worker[c]]
<1>1. Init => AllStopping
  BY DEF Init, Stopping
<1>2. TypeOK /\ AllStopping /\ [Next]_vars => AllStopping' /\ [Nearer]_vars
  <2> SUFFICES ASSUME TypeOK, AllStopping, [Next]_vars PROVE AllStopping' /\ [Nearer]_vars
    OBVIOUS
  <2>1. CASE UNCHANGED vars
    BY <2>1 DEF Stopping, vars, threadVars
  <2>2. ASSUME NEW d \in Channels, Step(d) PROVE AllStopping' /\ Nearer
    <3> SUFFICES ASSUME NEW c \in Channels
                 PROVE  /\ Stopping(c)'
                        /\ stopWorker[c] => \/ UNCHANGED worker[c]
                                            \/ StepsToTest[worker'[c]] < StepsToTest[worker[c]]
      OBVIOUS
    <3>1. CASE c = d
      BY <2>2, <3>1, StopStep
    <3>2. CASE c # d
      BY <2>2, <3>2, Locality DEF Stopping
    <3> QED
      BY <3>1, <3>2
  <2> QED
    BY <2>1, <2>2 DEF Next
<1> QED
  BY <1>1, <1>2, TypeCorrect, PTL DEF Spec, StopsWithinATurn

-----------------------------------------------------------------------------
\* While no socket() fails: a channel whose worker exists is open unless it is
\* being destroyed, and Initialise() is only ever at work on one without.
Sound(c) ==
  /\ owner[c] = "idle" /\ worker[c] # "none" => send[c] = "open" /\ recv[c] = "bound"
  /\ owner[c] \in {"binding", "starting"} => worker[c] = "none" /\ send[c] = "open"
  /\ owner[c] = "starting" => recv[c] = "bound"
  /\ owner[c] \notin {"freed", "terminate"}

\* Every step keeps the sockets sound while no socket() fails.
LEMMA SoundStep ==
  ASSUME TypeOK, "socket" \notin FailingCalls, NEW c \in Channels, Sound(c), Step(c)
  PROVE  Sound(c)'
<1> USE DEF Sound, TypeOK, SocketTypeOK, socketVars, threadVars, Crash, CloseSockets,
            Crashes
<1>1. CASE OwnerStep(c)
  BY <1>1 DEF OwnerStep, BindReceiver, Bind, StartWorker, Join
<1>2. CASE ClientCall(c)
  BY <1>2 DEF ClientCall, Initialise, CreateSockets, Created, IsOpen, SocketIsOpen,
              SendMessage, SendTo, SetCallbackHandler, Destroy
<1>3. CASE WorkerStep(c)
  BY <1>3 DEF WorkerStep, TestStop, Receive, RecvFrom, CountMessage, Callback
<1>4. CASE Arrival(c)
  BY <1>4 DEF Arrival, Deliver
<1> QED
  BY <1>1, <1>2, <1>3, <1>4 DEF Step

\* While no socket() fails, a second Initialise() never touches what is in use.
THEOREM ReinitialiseIsSafeAlways == Spec => []ReinitialiseIsSafe
<1> DEFINE AllSound == "socket" \notin FailingCalls => \A c \in Channels : Sound(c)
<1>1. Init => AllSound
  BY DEF Init, Sound
<1>2. TypeOK /\ AllSound /\ [Next]_vars => AllSound'
  <2> SUFFICES ASSUME TypeOK, "socket" \notin FailingCalls,
                      \A c \in Channels : Sound(c), [Next]_vars, NEW c \in Channels
               PROVE  Sound(c)'
    OBVIOUS
  <2>1. CASE UNCHANGED vars
    BY <2>1 DEF Sound, vars, socketVars, threadVars
  <2>2. ASSUME NEW d \in Channels, d # c, Step(d) PROVE Sound(c)'
    BY <2>2, Locality DEF Sound
  <2>3. CASE Step(c)
    BY <2>3, SoundStep
  <2> QED
    BY <2>1, <2>2, <2>3 DEF Next
<1>3. AllSound => ReinitialiseIsSafe
  BY DEF Sound, ReinitialiseIsSafe
<1> QED
  BY <1>1, <1>2, <1>3, TypeCorrect, PTL DEF Spec

-----------------------------------------------------------------------------
\* A channel that is over, whichever way, has no bound socket left.
Shut(c) == owner[c] \in Crashes \cup {"gone"} => recv[c] = "null"

\* Every step of a channel keeps it shut.
LEMMA ShutStep ==
  ASSUME TypeOK, NEW c \in Channels, Shut(c), Step(c)
  PROVE  Shut(c)'
<1> USE DEF Shut, TypeOK, SocketTypeOK, socketVars, threadVars, Crash, CloseSockets, Crashes
<1>1. CASE OwnerStep(c)
  BY <1>1 DEF OwnerStep, BindReceiver, Bind, StartWorker, Join
<1>2. CASE ClientCall(c)
  BY <1>2 DEF ClientCall, Initialise, CreateSockets, SendMessage, SendTo,
              SetCallbackHandler, Destroy
<1>3. CASE WorkerStep(c)
  BY <1>3 DEF WorkerStep, TestStop, Receive, RecvFrom, CountMessage, Callback
<1>4. CASE Arrival(c)
  BY <1>4 DEF Arrival, Deliver
<1> QED
  BY <1>1, <1>2, <1>3, <1>4 DEF Step

\* How far the messages of a channel are read, seen from its client, whether one
\* was counted and not passed on, and whether the channel goes on.
BoxRead(c) == IF worker[c] = "count" THEN taken[c] - 1 ELSE taken[c]
BoxPending(c) == worker[c] = "call"
BoxLife(c) == IF owner[c] = "gone" THEN "over"
              ELSE IF owner[c] \in Crashes THEN "crashed" ELSE "on"

\* A crash is one of the ways a channel may end.
LEMMA CrashBoxStep ==
  ASSUME NEW c \in Channels, owner \in [Channels -> OwnerStates],
         BoxLife(c) = "on", NEW how \in Crashes, Crash(c, how)
  PROVE  Box!Next
<1>1. UNCHANGED <<arrived, taken, worker, received, handler, handled>>
  BY DEF Crash, CloseSockets
<1>2. owner' = [owner EXCEPT ![c] = how] /\ how # "gone"
  BY DEF Crash, Crashes
<1>3. Box!End(c, "crashed")
  BY <1>1, <1>2 DEF Box!End, Crashes
<1> QED
  BY <1>3 DEF Box!Next, BoxLife

\* What a call of the owning thread is to the inbox: nothing, the loss of what
\* was queued for a replaced socket, the handler, the end or a crash.
LEMMA OwnerBoxStep ==
  ASSUME TypeOK, NEW c \in Channels, BoxLife(c) = "on", OwnerStep(c) \/ ClientCall(c)
  PROVE  [Box!Next]_Box!inboxVars
<1> USE DEF TypeOK, SocketTypeOK
<1>1. CASE Initialise(c)
  <2>1. /\ arrived' = [arrived EXCEPT ![c] = SubSeq(@, 1, taken[c])]
        /\ UNCHANGED <<taken, worker, received, handler, handled>>
        /\ owner' = [owner EXCEPT ![c] = "binding"] /\ owner[c] = "idle"
    BY <1>1 DEF Initialise, CreateSockets
  <2>2. taken[c] \in BoxRead(c)..Len(arrived[c])
    BY DEF BoxRead
  <2>3. Box!Lose(c)
    BY <2>1, <2>2 DEF Box!Lose, BoxRead, Crashes
  <2> QED
    BY <2>3 DEF Box!Next, BoxLife
<1>2. CASE SetCallbackHandler(c)
  <2>1. Box!SetHandler(c)
    BY <1>2 DEF SetCallbackHandler, Box!SetHandler, socketVars
  <2> QED
    BY <2>1 DEF Box!Next, BoxLife
<1>3. CASE Join(c)
  <2>1. /\ UNCHANGED <<arrived, taken, worker, received, handler, handled>>
        /\ owner' = [owner EXCEPT ![c] = "gone"] /\ worker[c] # "call"
    BY <1>3 DEF Join, CloseSockets
  <2>2. Box!End(c, "over")
    BY <2>1 DEF Box!End
  <2> QED
    BY <2>2 DEF Box!Next, BoxLife
<1>4. ASSUME NEW how \in Crashes, Crash(c, how) PROVE Box!Next
  BY <1>4, CrashBoxStep
<1>5. CASE /\ UNCHANGED <<arrived, taken, received, handler, handled>>
           /\ \E to \in {"starting", "joining", "idle", "binding"} :
                owner' = [owner EXCEPT ![c] = to]
           /\ \/ UNCHANGED worker
              \/ worker[c] = "none" /\ worker' = [worker EXCEPT ![c] = "loop"]
  <2>1. UNCHANGED Box!inboxVars
    BY <1>5 DEF Box!inboxVars, BoxLife, Crashes
  <2> QED
    BY <2>1
<1> QED
  <2>1. CASE BindReceiver(c)
    BY <1>5, <2>1 DEF BindReceiver, Bind
  <2>2. CASE StartWorker(c)
    BY <1>4, <1>5, <2>2 DEF StartWorker, socketVars, Crashes
  <2>3. ASSUME NEW t \in Texts, NEW rc \in BOOLEAN, SendMessage(c, t, rc)
        PROVE  [Box!Next]_Box!inboxVars
    <3>1. CASE Crash(c, "null")
      BY <1>4, <3>1 DEF Crashes
    <3>2. CASE SendTo(c, t, rc) /\ UNCHANGED threadVars
      <4>1. UNCHANGED <<arrived, taken, threadVars>>
        BY <3>2 DEF SendTo
      <4> QED
        BY <4>1 DEF Box!inboxVars, threadVars
    <3> QED
      BY <2>3, <3>1, <3>2 DEF SendMessage
  <2>4. CASE Destroy(c)
    BY <1>5, <2>4 DEF Destroy, socketVars
  <2> QED
    BY <1>1, <1>2, <1>3, <2>1, <2>2, <2>3, <2>4 DEF OwnerStep, ClientCall

\* What a step of the worker or the kernel is to the inbox.
LEMMA WorkerBoxStep ==
  ASSUME TypeOK, NEW c \in Channels, Custody(c), BoxLife(c) = "on",
         WorkerStep(c) \/ Arrival(c)
  PROVE  [Box!Next]_Box!inboxVars
<1> USE DEF TypeOK, SocketTypeOK
<1>1. CASE TestStop(c)
  <2>1. UNCHANGED Box!inboxVars
    BY <1>1 DEF TestStop, Box!inboxVars, socketVars
  <2> QED
    BY <2>1
<1>2. CASE Receive(c)
  <2>1. CASE Crash(c, "freed")
    BY <2>1, CrashBoxStep DEF Crashes
  <2>2. CASE /\ ~HasDatagram(c) /\ worker[c] = "receive"
             /\ worker' = [worker EXCEPT ![c] = "loop"]
             /\ UNCHANGED <<socketVars, owner, stopWorker, handler, received, handled>>
    <3>1. UNCHANGED Box!inboxVars
      BY <2>2 DEF Box!inboxVars, socketVars
    <3> QED
      BY <3>1
  <2>3. CASE HasDatagram(c) /\ RecvFrom(c)
             /\ UNCHANGED <<owner, stopWorker, handler, received, handled>>
    <3> DEFINE t == arrived[c][taken[c] + 1]
    <3>1. /\ arrived' = arrived /\ taken' = [taken EXCEPT ![c] = @ + 1]
          /\ worker[c] = "receive"
          /\ worker' = [worker EXCEPT ![c] = IF ReceivedSize(t) > 0 THEN "count" ELSE "loop"]
      BY <1>2, <2>3 DEF Receive, RecvFrom, Crash, Crashes, OwnerStates
    <3>2. CASE ReceivedSize(t) > 0
      <4>1. UNCHANGED Box!inboxVars
        BY <2>3, <3>1, <3>2 DEF Box!inboxVars
      <4> QED
        BY <4>1
    <3>3. CASE ~(ReceivedSize(t) > 0)
      <4>1. worker' = [worker EXCEPT ![c] = "loop"] /\ taken[c] < Len(arrived[c])
        BY <2>3, <3>1, <3>3 DEF HasDatagram
      <4>2. Box!ReadNext(c)
        BY <3>1, <4>1 DEF Box!ReadNext
      <4>3. Box!Skip(c)
        BY <2>3, <3>1, <3>3, <4>1, <4>2 DEF Box!Skip
      <4> QED
        BY <4>3 DEF Box!Next, BoxLife
    <3> QED
      BY <3>2, <3>3
  <2> QED
    BY <1>2, <2>1, <2>2, <2>3 DEF Receive
<1>3. CASE CountMessage(c)
  <2>1. /\ taken[c] \in 1..Len(arrived[c]) /\ taken[c] - 1 + 1 = taken[c]
        /\ ReceivedSize(arrived[c][taken[c]]) > 0
    BY <1>3 DEF CountMessage, Custody, InHand, Accepted
  <2>2. arrived[c][taken[c]] \in Texts
    BY <2>1, ElementOfSeq
  <2>3. /\ UNCHANGED <<arrived, taken, owner, handler, handled>>
        /\ received' = [received EXCEPT ![c] = @ + 1]
        /\ worker[c] = "count" /\ worker' = [worker EXCEPT ![c] = "call"]
    BY <1>3 DEF CountMessage, socketVars
  <2>4. Box!ReadNext(c)
    <3>1. taken[c] - 1 \in Nat /\ taken[c] - 1 < Len(arrived[c])
      BY <2>1
    <3> QED
      BY <2>1, <2>3, <3>1 DEF Box!ReadNext
  <2>5. Box!Count(c)
    BY <2>1, <2>2, <2>3, <2>4 DEF Box!Count
  <2> QED
    BY <2>5 DEF Box!Next, BoxLife
<1>4. CASE Callback(c)
  <2>1. CASE Crash(c, "handler")
    BY <2>1, CrashBoxStep DEF Crashes
  <2>2. CASE ~Crash(c, "handler")
    <3>1. Box!Pass(c)
      BY <1>4, <2>2 DEF Callback, socketVars, Box!Pass
    <3> QED
      BY <3>1 DEF Box!Next, BoxLife
  <2> QED
    BY <2>1, <2>2
<1>5. CASE Arrival(c)
  <2>1. PICK d \in wire : Deliver(c, d) /\ UNCHANGED threadVars
    BY <1>5 DEF Arrival
  <2>2. Box!Enqueue(c)
    BY <2>1 DEF Deliver, threadVars, Datagrams, Box!Enqueue
  <2> QED
    BY <2>2 DEF Box!Next, BoxLife
<1> QED
  BY <1>1, <1>2, <1>3, <1>4, <1>5 DEF WorkerStep

\* Seen from its client every channel is an inbox: the two threads and the
\* sockets implement what Inbox says, for all clients, faults and networks.
THEOREM ChannelIsInbox == Spec => IsInbox
<1> DEFINE AllShut == \A c \in Channels : Shut(c) /\ Quiet(c)
<1>1. Init => AllShut /\ Box!Init
  BY DEF Init, SocketInit, Shut, Quiet, Crashes, Box!Init
<1>2. TypeOK /\ HandledOnce /\ AllShut /\ [Next]_vars => AllShut' /\ [Box!Next]_Box!inboxVars
  <2> SUFFICES ASSUME TypeOK, HandledOnce, AllShut, [Next]_vars
               PROVE  AllShut' /\ [Box!Next]_Box!inboxVars
    OBVIOUS
  <2>1. CASE UNCHANGED vars
    BY <2>1 DEF Shut, Quiet, vars, socketVars, threadVars, Box!inboxVars
  <2>2. ASSUME NEW d \in Channels, Step(d) PROVE AllShut'
    <3> SUFFICES ASSUME NEW c \in Channels PROVE Shut(c)' /\ Quiet(c)'
      OBVIOUS
    <3>1. CASE c = d
      BY <2>2, <3>1, ShutStep, QuietStep
    <3>2. CASE c # d
      BY <2>2, <3>2, Locality DEF Shut, Quiet
    <3> QED
      BY <3>1, <3>2
  <2>3. ASSUME NEW d \in Channels, Step(d) PROVE [Box!Next]_Box!inboxVars
    <3>1. BoxLife(d) = "on"
      <4>1. recv[d] # "null" \/ ~Arrival(d)
        BY DEF Arrival, Deliver
      <4> QED
        BY <2>3, <4>1 DEF Shut, Quiet, BoxLife, Step, OwnerStep, BindReceiver, StartWorker,
           Join, ClientCall, Initialise, SendMessage, SetCallbackHandler, Destroy,
           WorkerStep, TestStop, Receive, CountMessage, Callback, Crashes
    <3> QED
      BY <2>3, <3>1, OwnerBoxStep, WorkerBoxStep DEF HandledOnce, Step
  <2> QED
    BY <2>1, <2>2, <2>3 DEF Next
<1> QED
  BY <1>1, <1>2, TypeCorrect, HandledOnceAlways, PTL DEF Spec, IsInbox, Box!Spec
=============================================================================
