--------------------------- MODULE UdpChatChannel ---------------------------
(***************************************************************************)
(* UdpChatChannel of Chatter/Chatter.h: the thread that owns a channel     *)
(* initialises it, sends and finally destroys it, while the worker thread  *)
(* that Initialise() starts runs ReceiveLoop().                            *)
(*                                                                         *)
(* owner[c] is where the owning thread stands: "idle" between two calls,   *)
(* "binding" and "starting" inside Initialise(), "joining" inside the      *)
(* destructor, "gone" after it, or how the process crashed: "null", a null *)
(* pointer dereferenced; "freed", a deleted object used; "terminate",      *)
(* std::terminate() called; "handler", a fault in the client's handler.    *)
(* worker[c] is where the worker stands: "none" until the thread exists,   *)
(* "loop" before the test of stopWorker_, "receive", "count" and "call"    *)
(* before the three steps of the loop's body, "done" after the loop.       *)
(* Messages are named by their position in arrived[c]; handled[c] is a     *)
(* history variable, the messages passed to the callback handler.          *)
(***************************************************************************)
EXTENDS UdpSocket, FiniteSets

VARIABLES owner, worker, stopWorker, handler, received, handled

threadVars == <<owner, worker, stopWorker, handler, received, handled>>
vars == <<socketVars, threadVars>>

Crashes == {"null", "freed", "terminate", "handler"}
OwnerStates == {"idle", "binding", "starting", "joining", "gone"} \cup Crashes
WorkerStates == {"none", "loop", "receive", "count", "call", "done"}

TypeOK ==
  /\ SocketTypeOK
  /\ owner \in [Channels -> OwnerStates]
  /\ worker \in [Channels -> WorkerStates]
  /\ stopWorker \in [Channels -> BOOLEAN]
  /\ handler \in [Channels -> BOOLEAN]
  /\ received \in [Channels -> Nat]
  /\ handled \in [Channels -> SUBSET Nat]

Init ==
  /\ SocketInit
  /\ owner = [c \in Channels |-> "idle"]
  /\ worker = [c \in Channels |-> "none"]
  /\ stopWorker = [c \in Channels |-> FALSE]
  /\ handler = [c \in Channels |-> FALSE]
  /\ received = [c \in Channels |-> 0]
  /\ handled = [c \in Channels |-> {}]

IsOpen(c) ==
  SocketIsOpen(send[c]) /\ SocketIsOpen(recv[c]) /\ worker[c] # "none"

\* The process dies and the kernel closes its sockets.
Crash(c, how) ==
  /\ owner' = [owner EXCEPT ![c] = how]
  /\ CloseSockets(c)
  /\ UNCHANGED <<worker, stopWorker, handler, received, handled>>

-----------------------------------------------------------------------------
(* Bugs this class could have had, one per operation they would replace:   *)
(* the properties at the end of the module are there to rule them out.     *)

\* A second Initialise() is not refused.
InitialiseUnguarded(c) ==
  /\ owner[c] = "idle"
  /\ CreateSockets(c)
  /\ owner' = [owner EXCEPT ![c] = "binding"]
  /\ UNCHANGED <<worker, stopWorker, handler, received, handled>>

\* The destructor joins without setting stopWorker_ first.
DestroyUnannounced(c) ==
  /\ owner[c] = "idle"
  /\ owner' = [owner EXCEPT ![c] = "joining"]
  /\ UNCHANGED <<worker, stopWorker, handler, received, handled, socketVars>>

\* The destructor detaches the worker instead of joining it.
JoinDetached(c) ==
  /\ owner[c] = "joining"
  /\ CloseSockets(c)
  /\ owner' = [owner EXCEPT ![c] = "gone"]
  /\ UNCHANGED <<worker, stopWorker, handler, received, handled>>

\* The socket's destructor does not close sockfd_.
JoinLeaking(c) ==
  /\ owner[c] = "joining"
  /\ worker[c] \in {"none", "done"}
  /\ owner' = [owner EXCEPT ![c] = "gone"]
  /\ UNCHANGED <<worker, stopWorker, handler, received, handled, socketVars>>

\* ReceiveMessage() returns true whatever RecvFrom() returned.
ReceiveAlwaysTrue(c) ==
  /\ worker[c] = "receive"
  /\ IF HasDatagram(c) THEN RecvFrom(c) ELSE UNCHANGED socketVars
  /\ worker' = [worker EXCEPT ![c] = "count"]
  /\ UNCHANGED <<owner, stopWorker, handler, received, handled>>

\* ReceiveLoop() ends at the first ReceiveMessage() that returns false.
ReceiveOrEnd(c) ==
  /\ worker[c] = "receive"
  /\ IF HasDatagram(c) THEN RecvFrom(c) ELSE UNCHANGED socketVars
  /\ worker' = [worker EXCEPT ![c] =
       IF HasDatagram(c) /\ ReceivedSize(arrived[c][taken'[c]]) > 0
         THEN "count" ELSE "done"]
  /\ UNCHANGED <<owner, stopWorker, handler, received, handled>>

\* ReceiveLoop() only ends when nothing is queued any more.
TestStopDrained(c) ==
  /\ worker[c] = "loop"
  /\ worker' = [worker EXCEPT ![c] =
       IF stopWorker[c] /\ ~HasDatagram(c) THEN "done" ELSE "receive"]
  /\ UNCHANGED <<socketVars, owner, stopWorker, handler, received, handled>>

\* The count is taken inside the test of callbackHandler_.
CountWhenHandled(c) ==
  /\ worker[c] = "count"
  /\ received' = IF handler[c] THEN [received EXCEPT ![c] = @ + 1] ELSE received
  /\ worker' = [worker EXCEPT ![c] = "call"]
  /\ UNCHANGED <<socketVars, owner, stopWorker, handler, handled>>

\* The worker tests stopWorker_ once more before it calls the handler.
CallbackUnlessStopped(c) ==
  /\ worker[c] = "call"
  /\ handled' = IF handler[c] /\ ~stopWorker[c]
                  THEN [handled EXCEPT ![c] = @ \cup {taken[c]}] ELSE handled
  /\ worker' = [worker EXCEPT ![c] = "loop"]
  /\ UNCHANGED <<socketVars, owner, stopWorker, handler, received>>

-----------------------------------------------------------------------------
(* The owning thread.  A call that finds the channel open returns false    *)
(* and changes nothing.                                                    *)

Initialise(c) ==
  /\ owner[c] = "idle"
  /\ ~IsOpen(c)
  /\ CreateSockets(c)
  /\ owner' = [owner EXCEPT ![c] = "binding"]
  /\ UNCHANGED <<worker, stopWorker, handler, received, handled>>

\* The attempt that binds; the others change nothing and are repeated after
\* 500 ms.  When getsockname() fails the socket is bound and Bind() false.
BindReceiver(c) ==
  /\ owner[c] = "binding"
  /\ Bind(c)
  /\ \/ owner' = [owner EXCEPT ![c] = "starting"]
     \/ "getsockname" \in FailingCalls /\ UNCHANGED owner
  /\ UNCHANGED <<worker, stopWorker, handler, received, handled>>

\* Replacing a thread object that is still joinable calls std::terminate().
StartWorker(c) ==
  /\ owner[c] = "starting"
  /\ \/ /\ worker[c] = "none"
        /\ worker' = [worker EXCEPT ![c] = "loop"]
        /\ owner' = [owner EXCEPT ![c] = "idle"]
        /\ UNCHANGED <<socketVars, stopWorker, handler, received, handled>>
     \/ worker[c] # "none" /\ Crash(c, "terminate")

\* send_socket_ is dereferenced without a test, and what SendTo() returns, rc,
\* is dropped: the caller cannot tell a message sent from one that was not.
SendMessage(c, t, rc) ==
  /\ owner[c] = "idle"
  /\ \/ send[c] # "null" /\ SendTo(c, t, rc) /\ UNCHANGED threadVars
     \/ send[c] = "null" /\ ~rc /\ Crash(c, "null")

SetCallbackHandler(c) ==
  /\ owner[c] = "idle"
  /\ handler' = [handler EXCEPT ![c] = TRUE]
  /\ UNCHANGED <<socketVars, owner, worker, stopWorker, received, handled>>

\* ~UdpChatChannel(): stopWorker_ is set before worker_ is joined ...
Destroy(c) ==
  /\ owner[c] = "idle"
  /\ stopWorker' = [stopWorker EXCEPT ![c] = TRUE]
  /\ owner' = [owner EXCEPT ![c] = "joining"]
  /\ UNCHANGED <<socketVars, worker, handler, received, handled>>

\* ... and the members are destroyed once the join returned.
Join(c) ==
  /\ owner[c] = "joining"
  /\ worker[c] \in {"none", "done"}
  /\ CloseSockets(c)
  /\ owner' = [owner EXCEPT ![c] = "gone"]
  /\ UNCHANGED <<worker, stopWorker, handler, received, handled>>

-----------------------------------------------------------------------------
(* The worker thread: ReceiveLoop(), one action per access to shared state. *)

TestStop(c) ==
  /\ worker[c] = "loop"
  /\ worker' = [worker EXCEPT ![c] = IF stopWorker[c] THEN "done" ELSE "receive"]
  /\ UNCHANGED <<socketVars, owner, stopWorker, handler, received, handled>>

\* ReceiveMessage(): a timeout and an empty string both return false.  While
\* the owner replaces recv_socket_ the worker may use the freed one.
Receive(c) ==
  /\ worker[c] = "receive"
  /\ \/ /\ HasDatagram(c)
        /\ RecvFrom(c)
        /\ worker' = [worker EXCEPT ![c] =
             IF ReceivedSize(arrived[c][taken'[c]]) > 0 THEN "count" ELSE "loop"]
        /\ UNCHANGED <<owner, stopWorker, handler, received, handled>>
     \/ /\ ~HasDatagram(c)
        /\ worker' = [worker EXCEPT ![c] = "loop"]
        /\ UNCHANGED <<socketVars, owner, stopWorker, handler, received, handled>>
     \/ owner[c] = "binding" /\ Crash(c, "freed")

CountMessage(c) ==
  /\ worker[c] = "count"
  /\ received' = [received EXCEPT ![c] = @ + 1]
  /\ worker' = [worker EXCEPT ![c] = "call"]
  /\ UNCHANGED <<socketVars, owner, stopWorker, handler, handled>>

\* The handler is the client's code: it may fault on the worker thread.
Callback(c) ==
  /\ worker[c] = "call"
  /\ \/ /\ handled' = IF handler[c] THEN [handled EXCEPT ![c] = @ \cup {taken[c]}]
                                    ELSE handled
        /\ worker' = [worker EXCEPT ![c] = "loop"]
        /\ UNCHANGED <<socketVars, owner, stopWorker, handler, received>>
     \/ handler[c] /\ Crash(c, "handler")

-----------------------------------------------------------------------------
\* The steps the owner takes inside a call, without waiting for its caller.
OwnerStep(c) == BindReceiver(c) \/ StartWorker(c) \/ Join(c)

\* The public member functions, in any order a client may call them.
ClientCall(c) ==
  \/ Initialise(c)
  \/ \E t \in Texts, rc \in BOOLEAN : SendMessage(c, t, rc)
  \/ SetCallbackHandler(c)
  \/ Destroy(c)

WorkerStep(c) ==
  /\ owner[c] \notin Crashes
  /\ TestStop(c) \/ Receive(c) \/ CountMessage(c) \/ Callback(c)

Arrival(c) == UNCHANGED threadVars /\ \E d \in wire : Deliver(c, d)

Step(c) == OwnerStep(c) \/ ClientCall(c) \/ WorkerStep(c) \/ Arrival(c)

Next == \E c \in Channels : Step(c)

Spec == Init /\ [][Next]_vars

\* The scheduler runs a runnable thread; clients and network promise nothing.
Fairness == \A c \in Channels : WF_vars(OwnerStep(c)) /\ WF_vars(WorkerStep(c))

FairSpec == Spec /\ Fairness
-----------------------------------------------------------------------------
(* What the channel promises to its client.                                *)

\* The messages ReceiveMessage() returned true for.
Accepted(c) ==
  {i \in 1..taken[c] : ReceivedSize(arrived[c][i]) > 0}

\* The accepted message the worker has not disposed of yet.
InHand(c) == IF worker[c] \in {"count", "call"} THEN {taken[c]} ELSE {}

\* Those that met no callback handler.
Dropped(c) == Accepted(c) \ (handled[c] \cup InHand(c))

\* The count runs behind by the one message between ReceiveMessage() and the
\* increment, if there is one.
Counted(c) ==
  Cardinality(Accepted(c)) = received[c] + (IF worker[c] = "count" THEN 1 ELSE 0)

\* ReceivedMessageCount() is exact: every message ReceiveMessage() returned true
\* for counts once, whether a handler was there or not; empty datagrams,
\* time-outs and socket errors never do.
CountIsExact == \A c \in Channels : Counted(c)

\* The worker only holds a message that was accepted, and the handler has seen
\* only accepted messages and none the worker still holds.
Custody(c) ==
  /\ InHand(c) \subseteq Accepted(c)
  /\ handled[c] \subseteq Accepted(c) \ InHand(c)

\* ReceiveLoop() hands a message over at most once: what the worker is about to
\* hand over was received by ReceiveMessage() and never handed over before.
HandledOnce == \A c \in Channels : Custody(c)

\* From SetCallbackHandler() on nothing more is dropped, the message in the
\* worker's hands at that moment included.
NothingDroppedOnceHandlerSet ==
  [][\A c \in Channels : handler[c] => Dropped(c)' \subseteq Dropped(c)]_vars

\* The destructor joins the worker before the members go: when it returns no
\* thread is left that could touch the channel, the count or the handler.
QuietWhenGone ==
  [][\A c \in Channels : owner[c] = "gone" =>
       UNCHANGED <<worker[c], received[c], handled[c], arrived[c], send[c], recv[c]>>]_vars

\* The steps of ReceiveLoop() before the next test of stopWorker_, that included.
StepsToTest ==
  [none |-> 0, done |-> 0, loop |-> 1, call |-> 2, count |-> 3, receive |-> 4]

\* A worker that is told to stop ends the turn of the loop it is in and begins no
\* other, however many datagrams are queued or still arrive: the join waits for
\* one time-out, one count and one call of the handler at most.
StopsWithinATurn ==
  [][\A c \in Channels : stopWorker[c] =>
       UNCHANGED worker[c] \/ StepsToTest[worker'[c]] < StepsToTest[worker[c]]]_vars

\* Seen from its client a channel is an inbox: neither the threads nor the
\* sockets show, and no message is told of twice, skipped or passed on before it
\* was counted, whenever the handler is set and the destructor called.
Box == INSTANCE Inbox WITH
  Boxes <- Channels,
  Readable <- {t \in Texts : ReceivedSize(t) > 0},
  queue <- arrived,
  read <- [c \in Channels |-> IF worker[c] = "count" THEN taken[c] - 1 ELSE taken[c]],
  count <- received,
  pending <- [c \in Channels |-> worker[c] = "call"],
  passed <- handled,
  life <- [c \in Channels |-> IF owner[c] = "gone" THEN "over"
                              ELSE IF owner[c] \in Crashes THEN "crashed" ELSE "on"]
IsInbox == Box!Spec

\* While every socket() succeeds, a second Initialise() never touches the
\* thread or the sockets in use: the test of IsOpen() is enough.
ReinitialiseIsSafe ==
  "socket" \notin FailingCalls =>
    \A c \in Channels : owner[c] \notin {"freed", "terminate"}

\* A destructor that was entered returns, unless the handler faults: the worker
\* sees stopWorker_ however far it is in its loop, and the join ends.
DestructorReturns ==
  \A c \in Channels : owner[c] = "joining" ~> owner[c] \in {"gone", "handler"}

\* With a handler installed, a message the kernel queued for an open channel is
\* handed over, unless the channel is destroyed first.
QueuedIsHandled ==
  \A c \in Channels : \A i \in 1..MaxArrivals :
    /\ handler[c]
    /\ taken[c] < i /\ i <= Len(arrived[c]) /\ ReceivedSize(arrived[c][i]) > 0
    ~> i \in handled[c] \/ stopWorker[c] \/ owner[c] \in Crashes

\* Initialise() waits for an address another channel holds, and returns after
\* the holder was destroyed: the destructor gives the address back.
AddressHandedOver ==
  \A c, d \in Channels :
    /\ c # d /\ MyAddr[c] = MyAddr[d]
    /\ owner[c] = "joining" /\ recv[c] = "bound"
    /\ owner[d] = "binding"
    ~> owner[d] = "idle"

\* ChatterTests/main.cpp:66-67: a channel whose Initialise() returned is open.
InitialisedIsOpen ==
  \A c \in Channels : owner[c] = "idle" /\ worker[c] # "none" => IsOpen(c)

\* ChatterTests/main.cpp:93-98: once ReceivedMessageCount() is not 0, the
\* message was passed to the handler that was waiting for it.
CountedIsHandled ==
  \A c \in Channels :
    handler[c] /\ Dropped(c) = {} /\ received[c] > 0 => handled[c] # {}
=============================================================================
