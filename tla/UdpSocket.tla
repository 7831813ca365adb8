----------------------------- MODULE UdpSocket -----------------------------
(***************************************************************************)
(* The UDP socket wrapper of Chatter/transport.h and the part of the       *)
(* kernel and of the network it is used through.  Every channel owns one   *)
(* sending and one receiving socket, so sockets are indexed by channel.    *)
(*                                                                         *)
(* wire holds every datagram sendto() took: one that is never delivered is *)
(* lost, one delivered twice is duplicated, and nothing orders deliveries. *)
(* arrived[c] is everything the kernel queued for c's receiving socket and *)
(* taken[c] how many of them recvfrom() has returned, so the kernel's      *)
(* receive buffer is the rest of the sequence.                             *)
(***************************************************************************)
EXTENDS Naturals, Sequences

CONSTANTS
  Channels,       \* the channels, each with one peer
  Addrs,          \* the ip:port pairs
  MyAddr,         \* [Channels -> Addrs]: where a channel listens
  PeerAddr,       \* [Channels -> Addrs]: where it sends
  LocalAddrs,     \* the addresses bind() accepts on this host
  Texts,          \* the strings handed to SendTo()
  Size,           \* [Texts -> Nat]: their length in bytes
  BufferSize,     \* the buffer_size of RecvFrom(), 150 in the code
  OversizeFails,  \* Winsock: recvfrom() fails on a datagram too long
  FailingCalls,   \* the calls that may fail: "socket", "getsockname", "sendto"
  MaxArrivals     \* bound on the datagrams queued for one channel

ASSUME ConstantsAssumption ==
  /\ MyAddr \in [Channels -> Addrs]
  /\ PeerAddr \in [Channels -> Addrs]
  /\ Size \in [Texts -> Nat]
  /\ BufferSize \in Nat
  /\ MaxArrivals \in Nat
  /\ OversizeFails \in BOOLEAN

VARIABLES send, recv, wire, arrived, taken

socketVars == <<send, recv, wire, arrived, taken>>

Datagrams == [to : Addrs, text : Texts]

\* "null" is the empty unique_ptr, "invalid" a socket whose sockfd is
\* INVALID_SOCKET.
SocketStates == {"null", "invalid", "open", "bound"}

SocketTypeOK ==
  /\ send \in [Channels -> SocketStates \ {"bound"}]
  /\ recv \in [Channels -> SocketStates]
  /\ wire \subseteq Datagrams
  /\ arrived \in [Channels -> Seq(Texts)]
  /\ taken \in [Channels -> Nat]
  /\ \A c \in Channels : taken[c] <= Len(arrived[c])

SocketInit ==
  /\ send = [c \in Channels |-> "null"]
  /\ recv = [c \in Channels |-> "null"]
  /\ wire = {}
  /\ arrived = [c \in Channels |-> <<>>]
  /\ taken = [c \in Channels |-> 0]

SocketIsOpen(s) == s \in {"open", "bound"}

\* What the constructor may leave behind.  A failed WSAStartup() of the
\* TransportService has every socket end like a failed socket().  (SO_REUSEADDR
\* is passed as one byte, which Linux refuses, so addresses stay exclusive: see
\* Bind.)
Created == {"open"} \cup (IF "socket" \in FailingCalls THEN {"invalid"} ELSE {})

\* make_unique<UdpSocket> twice: what was queued for an old socket is gone.
CreateSockets(c) ==
  /\ \E s, r \in Created : /\ send' = [send EXCEPT ![c] = s]
                           /\ recv' = [recv EXCEPT ![c] = r]
  /\ arrived' = [arrived EXCEPT ![c] = SubSeq(@, 1, taken[c])]
  /\ UNCHANGED <<wire, taken>>

AddrInUse(a) == \E c \in Channels : recv[c] = "bound" /\ MyAddr[c] = a

\* A bug Initialise() could have had: the sending socket is bound instead.
BindSender(c) ==
  /\ send[c] = "open"
  /\ MyAddr[c] \in LocalAddrs
  /\ ~AddrInUse(MyAddr[c])
  /\ send' = [send EXCEPT ![c] = "bound"]
  /\ UNCHANGED <<recv, wire, arrived, taken>>

\* bind() succeeds; binding a bound or an invalid socket always fails.
Bind(c) ==
  /\ recv[c] = "open"
  /\ MyAddr[c] \in LocalAddrs
  /\ ~AddrInUse(MyAddr[c])
  /\ recv' = [recv EXCEPT ![c] = "bound"]
  /\ UNCHANGED <<send, wire, arrived, taken>>

\* rc tells whether sendto() took the datagram; it never does on an invalid
\* socket, and may refuse on an open one: nothing is sent then.
SendTo(c, t, rc) ==
  /\ \/ /\ rc
        /\ SocketIsOpen(send[c])
        /\ wire' = wire \cup {[to |-> PeerAddr[c], text |-> t]}
     \/ /\ ~rc
        /\ ~SocketIsOpen(send[c]) \/ "sendto" \in FailingCalls
        /\ UNCHANGED wire
  /\ UNCHANGED <<send, recv, arrived, taken>>

\* The size of the string RecvFrom() returns for a datagram holding t: cut to
\* the buffer, or 0 where the platform reports an error instead.
ReceivedSize(t) ==
  IF Size[t] <= BufferSize THEN Size[t]
  ELSE IF OversizeFails THEN 0 ELSE BufferSize

HasDatagram(c) == recv[c] = "bound" /\ taken[c] < Len(arrived[c])

RecvFrom(c) ==
  /\ HasDatagram(c)
  /\ taken' = [taken EXCEPT ![c] = @ + 1]
  /\ UNCHANGED <<send, recv, wire, arrived>>

\* Both sockets are destroyed, or closed by the death of the process.
CloseSockets(c) ==
  /\ send' = [send EXCEPT ![c] = "null"]
  /\ recv' = [recv EXCEPT ![c] = "null"]
  /\ UNCHANGED <<wire, arrived, taken>>

\* The kernel queues a datagram for the socket bound to its address.
Deliver(c, d) ==
  /\ recv[c] = "bound"
  /\ d.to = MyAddr[c]
  /\ Len(arrived[c]) < MaxArrivals
  /\ arrived' = [arrived EXCEPT ![c] = Append(@, d.text)]
  /\ UNCHANGED <<send, recv, wire, taken>>
=============================================================================
