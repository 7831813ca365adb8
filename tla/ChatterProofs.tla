---------------------------- MODULE ChatterProofs ----------------------------
(***************************************************************************)
(* Proofs about Chatter, for any windows, texts, faults and bounds.  The   *)
(* application is shown to be one of the clients UdpChatChannel allows, so *)
(* what was proved of the channel holds of it.                             *)
(***************************************************************************)
EXTENDS Chatter, UdpChatChannelProofs

FieldsOK == text \in [Channels -> Texts]

\* What a text field holds is always a message that can be sent.
LEMMA FieldsCorrect == ChatterSpec => []FieldsOK
<1>1. ChatterInit => FieldsOK
  BY ChatterAssumption DEF ChatterInit, FieldsOK
<1>2. FieldsOK /\ [ChatterNext]_chatterVars => FieldsOK'
  BY ChatterAssumption
  DEF FieldsOK, chatterVars, windowVars, ChatterNext, GuiTurn, UserTurn, WorkerTurn,
      ConstructPresenter, ConstructView, OpenChannel, ShowView, Send, Clear, DestroyApp,
      Type, PressSend, CloseWindow, UpdateUI, OnMessageReceived
<1> QED
  BY <1>1, <1>2, PTL DEF ChatterSpec

\* Every step of a window is a step of its channel or leaves the channel alone.
LEMMA ChannelStep ==
  ASSUME FieldsOK, [ChatterNext]_chatterVars
  PROVE  [Next]_vars
<1> USE DEF chatterVars, windowVars
<1>1. ASSUME NEW c \in Channels, GuiTurn(c) PROVE Step(c) \/ UNCHANGED vars
  <2>1. CASE OwnerStep(c)
    BY <2>1 DEF Step
  <2>2. CASE ConstructPresenter(c) \/ OpenChannel(c) \/ DestroyApp(c)
    BY <2>2 DEF ConstructPresenter, OpenChannel, DestroyApp, Step, ClientCall
  <2>3. CASE ConstructView(c) \/ ShowView(c) \/ Clear(c)
    BY <2>3 DEF ConstructView, ShowView, Clear
  <2>4. CASE Send(c)
    <3>1. text[c] \in Texts /\ \E rc \in BOOLEAN : SendMessage(c, text[c], rc)
      BY <2>4 DEF FieldsOK, Send, HandOver
    <3> QED
      BY <3>1 DEF Step, ClientCall
  <2> QED
    BY <1>1, <2>1, <2>2, <2>3, <2>4 DEF GuiTurn
<1>2. ASSUME NEW c \in Channels, UserTurn(c) \/ UpdateUI(c) PROVE UNCHANGED vars
  BY <1>2 DEF UserTurn, Type, PressSend, CloseWindow, UpdateUI
<1>3. ASSUME NEW c \in Channels, WorkerTurn(c) PROVE Step(c)
  BY <1>3 DEF WorkerTurn, OnMessageReceived, Step, WorkerStep
<1>4. ASSUME NEW c \in Channels, Arrival(c) PROVE Step(c)
  BY <1>4 DEF Step
<1> QED
  BY <1>1, <1>2, <1>3, <1>4 DEF ChatterNext, Next

\* The application uses its channel as UdpChatChannel lets a client use it.
THEOREM ChatterIsClient == ChatterSpec => Spec
<1>1. ChatterInit => Init
  BY DEF ChatterInit
<1>2. FieldsOK /\ [ChatterNext]_chatterVars => [Next]_vars
  BY ChannelStep
<1> QED
  BY <1>1, <1>2, FieldsCorrect, PTL DEF ChatterSpec, Spec

\* So the presenter is called with each message at most once, and the message
\* it is called with was received.
THEOREM ChatterHandlesOnce == ChatterSpec => []HandledOnce
BY ChatterIsClient, HandledOnceAlways, PTL

-----------------------------------------------------------------------------
HistoryOK ==
  /\ gui \in [Channels -> GuiStates]
  /\ history \in [Channels -> Seq(Lines)]
  /\ enabled \in [Channels -> BOOLEAN]
  /\ sent \in [Channels -> Seq(Tries)]

\* Appending a line to a window's history keeps every history one of lines, and
\* changes no other window's.
LEMMA AppendOK ==
  ASSUME HistoryOK, NEW c \in Channels, NEW line \in Lines, AppendToChatHistory(c, line)
  PROVE  /\ history' \in [Channels -> Seq(Lines)]
         /\ history'[c] = Append(history[c], line)
         /\ Len(history'[c]) = Len(history[c]) + 1
         /\ \A i \in 1..Len(history[c]) : history'[c][i] = history[c][i]
         /\ history'[c][Len(history[c]) + 1] = line
         /\ \A d \in Channels \ {c} : history'[d] = history[d]
<1>1. Append(history[c], line) \in Seq(Lines)
  BY AppendProperties DEF HistoryOK
<1>2. /\ history' = [history EXCEPT ![c] = Append(history[c], line)]
      /\ history'[c] = Append(history[c], line)
  BY DEF AppendToChatHistory, HistoryOK
<1> QED
  BY <1>1, <1>2, AppendProperties DEF HistoryOK

\* A line the presenter appends is a line: what was said, or what was received.
LEMMA LinesOK ==
  ASSUME TypeOK, FieldsOK, NEW c \in Channels
  PROVE  /\ Line("me", text[c], Size[text[c]]) \in Lines
         /\ taken[c] > 0 => Line("peer", arrived[c][taken[c]],
                                 ReceivedSize(arrived[c][taken[c]])) \in Lines
<1>1. \A t \in Texts : Size[t] \in Nat /\ ReceivedSize(t) \in Nat
  BY ConstantsAssumption DEF ReceivedSize
<1>2. taken[c] > 0 => arrived[c][taken[c]] \in Texts
  BY ElementOfSeq DEF TypeOK, SocketTypeOK
<1> QED
  BY <1>1, <1>2 DEF Line, Lines, FieldsOK

\* A message in the worker's hands was taken from the socket, and was received.
LEMMA InHandIsReceived ==
  ASSUME TypeOK, HandledOnce, NEW c \in Channels, Callback(c)
  PROVE  /\ taken[c] \in 1..Len(arrived[c])
         /\ arrived[c][taken[c]] \in Texts
         /\ ReceivedSize(arrived[c][taken[c]]) > 0
<1>1. taken[c] \in Accepted(c)
  BY DEF HandledOnce, Custody, InHand, Callback
<1>2. taken[c] \in 1..Len(arrived[c])
  BY <1>1 DEF Accepted, TypeOK, SocketTypeOK
<1> QED
  BY <1>1, <1>2, ElementOfSeq DEF Accepted, TypeOK, SocketTypeOK

\* The types of the window's own variables.
LEMMA HistoryStep ==
  ASSUME TypeOK, HandledOnce, FieldsOK, HistoryOK, [ChatterNext]_chatterVars
  PROVE  HistoryOK'
<1> USE DEF chatterVars, windowVars
<1>1. ASSUME NEW c \in Channels, GuiTurn(c) PROVE HistoryOK'
  <2>1. CASE Send(c)
    <3>1. PICK rc \in BOOLEAN :
            sent' = [sent EXCEPT ![c] = Append(sent[c], [text |-> text[c], rc |-> rc])]
      BY <2>1 DEF Send, HandOver
    <3>2. [text |-> text[c], rc |-> rc] \in Tries
      BY DEF Tries, FieldsOK
    <3>3. Append(sent[c], [text |-> text[c], rc |-> rc]) \in Seq(Tries)
      BY <3>2, AppendProperties DEF HistoryOK
    <3> QED
      BY <2>1, <3>1, <3>3 DEF HistoryOK, Send, GuiGoes, GuiStates
  <2>2. CASE ~Send(c)
    BY <1>1, <2>2 DEF HistoryOK, GuiTurn, ConstructPresenter, ConstructView, OpenChannel,
       ShowView, Clear, DestroyApp, GuiGoes, GuiStates
  <2> QED
    BY <2>1, <2>2
<1>2. ASSUME NEW c \in Channels, UserTurn(c) \/ UpdateUI(c) PROVE HistoryOK'
  <2>1. CASE PressSend(c)
    <3>1. history' \in [Channels -> Seq(Lines)]
      BY <2>1, LinesOK, AppendOK DEF PressSend
    <3> QED
      BY <2>1, <3>1 DEF PressSend, HistoryOK, GuiStates
  <2>2. CASE UpdateUI(c)
    BY <2>2 DEF UpdateUI, CanSend, HistoryOK
  <2>3. CASE (\E t \in Texts : Type(c, t)) \/ CloseWindow(c)
    BY <2>3 DEF Type, CloseWindow, HistoryOK, GuiStates
  <2> QED
    BY <1>2, <2>1, <2>2, <2>3 DEF UserTurn
<1>3. ASSUME NEW c \in Channels, WorkerTurn(c) PROVE HistoryOK'
  <2>1. CASE OnMessageReceived(c)
    <3>1. history' \in [Channels -> Seq(Lines)]
      <4>1. taken[c] > 0
        BY <2>1, InHandIsReceived DEF OnMessageReceived, TypeOK, SocketTypeOK
      <4> QED
        BY <2>1, <4>1, LinesOK, AppendOK DEF OnMessageReceived, HistoryOK
    <3> QED
      BY <2>1, <3>1 DEF OnMessageReceived, HistoryOK
  <2> QED
    BY <1>3, <2>1 DEF WorkerTurn, HistoryOK
<1>4. CASE UNCHANGED windowVars
  BY <1>4 DEF HistoryOK
<1> QED
  BY <1>1, <1>2, <1>3, <1>4 DEF ChatterNext

\* Every variable of the application keeps its type.
THEOREM ChatterTypeCorrect == ChatterSpec => []ChatterTypeOK
<1>1. ChatterInit => HistoryOK
  BY EmptySeq DEF ChatterInit, HistoryOK, GuiStates
<1>2. TypeOK /\ HandledOnce /\ FieldsOK /\ HistoryOK /\ [ChatterNext]_chatterVars
        => HistoryOK'
  BY HistoryStep
<1>3. TypeOK /\ FieldsOK /\ HistoryOK => ChatterTypeOK
  BY DEF ChatterTypeOK, FieldsOK, HistoryOK
<1> QED
  BY <1>1, <1>2, <1>3, ChatterIsClient, TypeCorrect, ChatterHandlesOnce, FieldsCorrect, PTL
  DEF ChatterSpec

-----------------------------------------------------------------------------
\* How far OnInit() has come says what the channel may look like: there is no
\* worker before the view, no socket is replaced under a worker, and there is a
\* socket to send through in the event loop.
Stage(c) ==
  /\ gui[c] \in {"presenter", "view", "initialise"} =>
       owner[c] = "idle" /\ worker[c] = "none"
  /\ gui[c] = "opening" =>
       /\ owner[c] \in {"idle", "binding", "starting"}
       /\ owner[c] # "idle" => worker[c] = "none"
       /\ send[c] # "null"
  /\ gui[c] \in {"loop", "send", "clear"} => owner[c] = "idle" /\ send[c] # "null"

\* Every step of a window keeps its own stage and leaves the others alone, if
\* the toolkit stands the worker's AppendText().
LEMMA StageStep ==
  ASSUME TypeOK, HistoryOK, "fault" \notin AppendOutcomes,
         NEW c \in Channels, Stage(c), [ChatterNext]_chatterVars
  PROVE  Stage(c)'
<1> USE DEF Stage, TypeOK, SocketTypeOK, HistoryOK, chatterVars, windowVars, vars,
            socketVars, threadVars, GuiGoes, SocketStates
<1>1. ASSUME NEW d \in Channels, GuiTurn(d) PROVE Stage(c)'
  <2>1. CASE ConstructPresenter(d) \/ ConstructView(d) \/ ShowView(d) \/ Clear(d)
    BY <2>1 DEF ConstructPresenter, SetCallbackHandler, ConstructView, ShowView, Clear
  <2>2. CASE OpenChannel(d)
    BY <2>2 DEF OpenChannel, Initialise, CreateSockets, Created
  <2>3. CASE OwnerStep(d) /\ UNCHANGED windowVars
    BY <2>3 DEF OwnerStep, BindReceiver, Bind, StartWorker, Join, CloseSockets, Crash
  <2>4. CASE Send(d)
    BY <2>4 DEF Send, HandOver, SendMessage, SendTo, Crash, CloseSockets
  <2>5. CASE DestroyApp(d)
    BY <2>5 DEF DestroyApp, Destroy
  <2> QED
    BY <1>1, <2>1, <2>2, <2>3, <2>4, <2>5 DEF GuiTurn
<1>2. ASSUME NEW d \in Channels, UserTurn(d) \/ UpdateUI(d) PROVE Stage(c)'
  BY <1>2 DEF UserTurn, Type, PressSend, CloseWindow, UpdateUI, InEventLoop
<1>3. ASSUME NEW d \in Channels, WorkerTurn(d) PROVE Stage(c)'
  <2>1. CASE (TestStop(d) \/ Receive(d) \/ CountMessage(d)) /\ UNCHANGED windowVars
    BY <2>1 DEF TestStop, Receive, RecvFrom, CountMessage, Crash, CloseSockets
  <2>2. CASE OnMessageReceived(d)
    BY <2>2 DEF OnMessageReceived, Callback, Outcomes, HasView, Crash, CloseSockets
  <2> QED
    BY <1>3, <2>1, <2>2 DEF WorkerTurn
<1>4. ASSUME NEW d \in Channels, Arrival(d) /\ UNCHANGED windowVars PROVE Stage(c)'
  BY <1>4 DEF Arrival, Deliver
<1>5. CASE UNCHANGED chatterVars
  BY <1>5
<1> QED
  BY <1>1, <1>2, <1>3, <1>4, <1>5 DEF ChatterNext

\* Before its window is closed a chatter never crashes: it does not send before
\* the channel was initialised, does not replace a socket or a thread in use, and
\* no worker meets a presenter that has no view yet.
THEOREM CrashesOnlyWhenClosedAlways == ChatterSpec => []CrashesOnlyWhenClosed
<1> DEFINE Staged == "fault" \notin AppendOutcomes => \A c \in Channels : Stage(c)
<1>1. ChatterInit => Staged
  BY DEF ChatterInit, Init, Stage
<1>2. TypeOK /\ HistoryOK /\ Staged /\ [ChatterNext]_chatterVars => Staged'
  BY StageStep
<1>3. HistoryOK /\ Staged => CrashesOnlyWhenClosed
  BY DEF HistoryOK, Stage, CrashesOnlyWhenClosed, Crashes, Closed, GuiStates
<1>4. ChatterTypeOK => TypeOK /\ HistoryOK
  BY DEF ChatterTypeOK, HistoryOK
<1> QED
  BY <1>1, <1>2, <1>3, <1>4, ChatterTypeCorrect, PTL DEF ChatterSpec

-----------------------------------------------------------------------------
\* p's window shows a message that p said.
Shows(p, t) ==
  \E i \in 1..Len(history[p]) : history[p][i] = Line("me", t, Size[t])

\* Every datagram was shown before it was sent, by a window that sends there.
WireShown == \A d \in wire : \E p \in Channels : PeerAddr[p] = d.to /\ Shows(p, d.text)

\* Every datagram that arrived somewhere had been sent there.
ArrivedSent ==
  \A c \in Channels : \A i \in 1..Len(arrived[c]) :
    [to |-> MyAddr[c], text |-> arrived[c][i]] \in wire

\* A message about to be sent is shown: AppendToChatHistory() came before.
SendingShown == \A c \in Channels : gui[c] = "send" => Shows(c, text[c])

\* What a window shows it never takes back.
LEMMA ShowsStable ==
  ASSUME TypeOK, HandledOnce, FieldsOK, HistoryOK, [ChatterNext]_chatterVars,
         NEW p \in Channels, NEW t \in Texts, Shows(p, t)
  PROVE  Shows(p, t)'
<1> USE DEF chatterVars, windowVars
<1>1. ASSUME NEW c \in Channels, NEW line \in Lines, AppendToChatHistory(c, line)
      PROVE  Shows(p, t)'
  <2>1. CASE p = c
    <3>1. PICK i \in 1..Len(history[c]) : history[c][i] = Line("me", t, Size[t])
      BY <2>1 DEF Shows
    <3>2. Len(history[c]) \in Nat
      BY LenProperties DEF HistoryOK
    <3>3. i \in 1..Len(history'[c]) /\ history'[c][i] = Line("me", t, Size[t])
      BY <1>1, <3>1, <3>2, AppendOK
    <3> QED
      BY <2>1, <3>3 DEF Shows, Line
  <2>2. CASE p # c
    BY <1>1, <2>2, AppendOK DEF Shows, Line
  <2> QED
    BY <2>1, <2>2
<1>2. CASE UNCHANGED history
  BY <1>2 DEF Shows, Line
<1>3. ASSUME NEW c \in Channels, PressSend(c) PROVE Shows(p, t)'
  BY <1>1, <1>3, LinesOK DEF PressSend
<1>4. ASSUME NEW c \in Channels, OnMessageReceived(c) PROVE Shows(p, t)'
  <2>1. taken[c] > 0
    BY <1>4, InHandIsReceived DEF OnMessageReceived, TypeOK, SocketTypeOK
  <2> QED
    BY <1>1, <1>2, <1>4, <2>1, LinesOK DEF OnMessageReceived
<1> QED
  BY <1>2, <1>3, <1>4
  DEF ChatterNext, GuiTurn, UserTurn, WorkerTurn, ConstructPresenter, ConstructView,
      OpenChannel, ShowView, Send, Clear, DestroyApp, Type, CloseWindow, UpdateUI

\* Send() is one more try with the text of the field, and the datagram goes out
\* if and only if sendto() takes it.
LEMMA HandsOver ==
  ASSUME FieldsOK, HistoryOK, NEW c \in Channels, Send(c)
  PROVE  /\ \E rc \in BOOLEAN :
              /\ sent'[c] = Append(sent[c], [text |-> text[c], rc |-> rc])
              /\ wire' = IF rc THEN wire \cup {[to |-> PeerAddr[c], text |-> text[c]]}
                               ELSE wire
         /\ \A d \in Channels \ {c} : sent'[d] = sent[d]
         /\ UNCHANGED <<history, text>>
         /\ gui[c] = "send" /\ gui'[c] = "clear"
<1>1. PICK rc \in BOOLEAN : HandOver(c, text[c], rc)
  BY DEF Send
<1>2. sent' = [sent EXCEPT ![c] = Append(sent[c], [text |-> text[c], rc |-> rc])]
  BY <1>1 DEF HandOver
<1>3. wire' = IF rc THEN wire \cup {[to |-> PeerAddr[c], text |-> text[c]]} ELSE wire
  BY <1>1 DEF HandOver, SendMessage, SendTo, Crash, CloseSockets
<1> QED
  BY <1>2, <1>3 DEF HistoryOK, Send, GuiGoes

\* Only Send() tries, and only it puts anything on the wire.
LEMMA WhoTries ==
  ASSUME [ChatterNext]_chatterVars
  PROVE  UNCHANGED <<sent, wire>> \/ \E c \in Channels : Send(c)
<1> USE DEF chatterVars, windowVars, vars, socketVars, threadVars
<1>1. ASSUME NEW c \in Channels, GuiTurn(c), ~Send(c) PROVE UNCHANGED <<sent, wire>>
  BY <1>1 DEF GuiTurn, ConstructPresenter, SetCallbackHandler, ConstructView, OpenChannel,
     Initialise, CreateSockets, OwnerStep, BindReceiver, Bind, StartWorker, Join, Crash,
     CloseSockets, ShowView, Clear, DestroyApp, Destroy
<1>2. ASSUME NEW c \in Channels, UserTurn(c) \/ UpdateUI(c) PROVE UNCHANGED <<sent, wire>>
  BY <1>2 DEF UserTurn, Type, PressSend, CloseWindow, UpdateUI
<1>3. ASSUME NEW c \in Channels, WorkerTurn(c) PROVE UNCHANGED <<sent, wire>>
  BY <1>3 DEF WorkerTurn, TestStop, Receive, RecvFrom, CountMessage, OnMessageReceived,
     Callback, Crash, CloseSockets
<1>4. ASSUME NEW c \in Channels, Arrival(c) /\ UNCHANGED windowVars
      PROVE  UNCHANGED <<sent, wire>>
  BY <1>4 DEF Arrival, Deliver
<1> QED
  BY <1>1, <1>2, <1>3, <1>4 DEF ChatterNext

\* Nothing is taken off the wire, and what Send() puts on it is in the field.
LEMMA WireStep ==
  ASSUME FieldsOK, HistoryOK, [ChatterNext]_chatterVars
  PROVE  /\ wire \subseteq wire'
         /\ \A d \in wire' \ wire :
              \E c \in Channels :
                Send(c) /\ gui[c] = "send" /\ d = [to |-> PeerAddr[c], text |-> text[c]]
<1>1. ASSUME NEW c \in Channels, Send(c)
      PROVE  /\ wire \subseteq wire'
             /\ wire' \ wire \subseteq {[to |-> PeerAddr[c], text |-> text[c]]}
             /\ gui[c] = "send"
  BY <1>1, HandsOver
<1> QED
  BY <1>1, WhoTries

\* The kernel queues nothing that is not on the wire.
LEMMA ArrivedStep ==
  ASSUME TypeOK, ArrivedSent, wire \subseteq wire', [Next]_vars
  PROVE  ArrivedSent'
<1> USE DEF TypeOK, SocketTypeOK, vars, socketVars, threadVars
<1>1. ASSUME NEW c \in Channels, Initialise(c) PROVE ArrivedSent'
  <2>1. /\ arrived' = [arrived EXCEPT ![c] = SubSeq(arrived[c], 1, taken[c])]
        /\ wire' = wire
    BY <1>1 DEF Initialise, CreateSockets
  <2>2. /\ Len(SubSeq(arrived[c], 1, taken[c])) = taken[c]
        /\ \A i \in 1..taken[c] : SubSeq(arrived[c], 1, taken[c])[i] = arrived[c][i]
    BY SubSeqProperties
  <2> QED
    BY <2>1, <2>2 DEF ArrivedSent
<1>2. ASSUME NEW c \in Channels, Arrival(c) PROVE ArrivedSent'
  <2>1. PICK d \in wire : Deliver(c, d)
    BY <1>2 DEF Arrival
  <2>2. /\ arrived' = [arrived EXCEPT ![c] = Append(arrived[c], d.text)]
        /\ wire' = wire /\ d = [to |-> MyAddr[c], text |-> d.text] /\ d.text \in Texts
    BY <2>1 DEF Deliver, Datagrams
  <2>3. /\ Len(Append(arrived[c], d.text)) = Len(arrived[c]) + 1
        /\ \A i \in 1..Len(arrived[c]) : Append(arrived[c], d.text)[i] = arrived[c][i]
        /\ Append(arrived[c], d.text)[Len(arrived[c]) + 1] = d.text
    BY <2>2, AppendProperties
  <2>4. Len(arrived[c]) \in Nat
    BY LenProperties
  <2>5. \A i \in 1..Len(arrived'[c]) :
          [to |-> MyAddr[c], text |-> arrived'[c][i]] \in wire'
    BY <2>2, <2>3, <2>4 DEF ArrivedSent
  <2> QED
    BY <2>2, <2>5 DEF ArrivedSent
<1>3. CASE UNCHANGED arrived
  BY <1>3 DEF ArrivedSent
<1>4. (\E c \in Channels : Initialise(c) \/ Arrival(c)) \/ UNCHANGED arrived
  <2>1. ASSUME NEW c \in Channels, OwnerStep(c) PROVE UNCHANGED arrived
    BY <2>1 DEF OwnerStep, BindReceiver, Bind, StartWorker, Join, Crash, CloseSockets
  <2>2. ASSUME NEW c \in Channels, ClientCall(c), ~Initialise(c) PROVE UNCHANGED arrived
    BY <2>2 DEF ClientCall, SendMessage, SendTo, SetCallbackHandler, Destroy, Crash,
                CloseSockets
  <2>3. ASSUME NEW c \in Channels, WorkerStep(c) PROVE UNCHANGED arrived
    BY <2>3 DEF WorkerStep, TestStop, Receive, RecvFrom, CountMessage, Callback, Crash,
                CloseSockets
  <2> QED
    BY <2>1, <2>2, <2>3 DEF Next, Step
<1> QED
  BY <1>1, <1>2, <1>3, <1>4

\* The order of OnSendCommand(): the message is shown, and only then sent.
LEMMA SendingStep ==
  ASSUME TypeOK, HandledOnce, FieldsOK, HistoryOK, SendingShown, [ChatterNext]_chatterVars
  PROVE  SendingShown'
<1> USE DEF chatterVars, windowVars
<1>1. ASSUME NEW p \in Channels, gui[p] = "send", gui'[p] = "send" PROVE Shows(p, text[p])'
  <2>1. text'[p] = text[p]
    <3>1. ASSUME NEW c \in Channels, Clear(c) \/ \E t \in Texts : Type(c, t)
          PROVE  text'[p] = text[p]
      <4>1. c # p
        BY <1>1, <3>1 DEF Clear, GuiGoes, Type, InEventLoop
      <4> QED
        BY <3>1, <4>1 DEF FieldsOK, Clear, Type
    <3>2. \/ \E c \in Channels : Clear(c) \/ \E t \in Texts : Type(c, t)
          \/ UNCHANGED text
      BY DEF ChatterNext, GuiTurn, UserTurn, WorkerTurn, ConstructPresenter, ConstructView,
         OpenChannel, ShowView, Send, DestroyApp, PressSend, CloseWindow, UpdateUI,
         OnMessageReceived
    <3> QED
      BY <3>1, <3>2
  <2>2. Shows(p, text[p]) /\ text[p] \in Texts
    BY <1>1 DEF SendingShown, FieldsOK
  <2>3. \E i \in 1..Len(history'[p]) : history'[p][i] = Line("me", text[p], Size[text[p]])
    BY <2>2, ShowsStable DEF Shows, Line
  <2> QED
    BY <2>1, <2>3 DEF Shows, Line
<1>2. ASSUME NEW p \in Channels, gui[p] # "send", gui'[p] = "send" PROVE Shows(p, text[p])'
  <2>1. PressSend(p)
    BY <1>2 DEF HistoryOK, ChatterNext, GuiTurn, UserTurn, WorkerTurn, ConstructPresenter,
       ConstructView, OpenChannel, ShowView, Send, Clear, DestroyApp, GuiGoes, Type,
       PressSend, CloseWindow, UpdateUI, InEventLoop, OnMessageReceived
  <2>2. /\ Len(history'[p]) = Len(history[p]) + 1
        /\ history'[p][Len(history[p]) + 1] = Line("me", text[p], Size[text[p]])
        /\ text' = text
    BY <2>1, LinesOK, AppendOK DEF PressSend
  <2>3. Len(history[p]) \in Nat
    BY LenProperties DEF HistoryOK
  <2> QED
    BY <2>2, <2>3 DEF Shows, Line
<1> QED
  BY <1>1, <1>2 DEF SendingShown

closedWindows == {c \in Channels : Closed(c)}

\* A message the worker hands over was shown by a window that sends to this one.
LEMMA HeardWasSaid ==
  ASSUME WireShown, ArrivedSent, NEW c \in Channels, taken[c] \in 1..Len(arrived[c])
  PROVE  \E p \in Channels : PeerAddr[p] = MyAddr[c] /\ Shows(p, arrived[c][taken[c]])
BY DEF WireShown, ArrivedSent

\* A step of the application is a step of the conversation or none at all.
LEMMA TalkStep ==
  ASSUME TypeOK, HandledOnce, FieldsOK, HistoryOK, WireShown, ArrivedSent,
         [ChatterNext]_chatterVars
  PROVE  [Talk!Next]_<<history, closedWindows>>
<1> USE DEF chatterVars, windowVars
<1>1. ASSUME NEW c \in Channels, PressSend(c) PROVE Talk!Say(c)
  <2>1. ~Closed(c) /\ closedWindows' = closedWindows
    BY <1>1 DEF PressSend, InEventLoop, Closed, closedWindows, HistoryOK
  <2>2. text[c] \in Texts /\ AppendToChatHistory(c, Line("me", text[c], Size[text[c]]))
    BY <1>1 DEF PressSend, FieldsOK
  <2> QED
    BY <2>1, <2>2 DEF Talk!Say, Talk!Extend, Talk!Line, Line, AppendToChatHistory,
                      closedWindows
<1>2. ASSUME NEW c \in Channels, OnMessageReceived(c), history' # history PROVE Talk!Hear(c)
  <2> DEFINE t == arrived[c][taken[c]]
  <2>1. /\ HasView(c) /\ AppendToChatHistory(c, Line("peer", t, ReceivedSize(t)))
        /\ Callback(c)
        /\ gui' = gui
    BY <1>2 DEF OnMessageReceived, Outcomes
  <2>2. ~Closed(c) /\ closedWindows' = closedWindows
    BY <2>1 DEF HasView, Closed, closedWindows
  <2>3. /\ taken[c] \in 1..Len(arrived[c]) /\ t \in Texts /\ ReceivedSize(t) > 0
    BY <2>1, InHandIsReceived
  <2>4. ReceivedSize(t) \in 1..Size[t]
    BY <2>3, ConstantsAssumption DEF ReceivedSize
  <2>5. PICK p \in Channels : PeerAddr[p] = MyAddr[c] /\ Shows(p, t)
    BY <2>3, HeardWasSaid
  <2> QED
    BY <2>1, <2>2, <2>3, <2>4, <2>5
    DEF Talk!Hear, Talk!HasSaid, Talk!Extend, Talk!Line, Line, Shows, AppendToChatHistory,
        closedWindows
<1>3. ASSUME NEW c \in Channels, CloseWindow(c) PROVE Talk!Close(c)
  BY <1>3 DEF CloseWindow, Talk!Close, Closed, closedWindows, HistoryOK
<1>4. CASE history' = history /\ closedWindows' = closedWindows
  BY <1>4
<1>5. \/ \E c \in Channels : \/ PressSend(c) \/ CloseWindow(c)
                             \/ OnMessageReceived(c) /\ history' # history
      \/ history' = history /\ closedWindows' = closedWindows
  <2>1. ASSUME NEW c \in Channels, GuiTurn(c)
        PROVE  history' = history /\ closedWindows' = closedWindows
    BY <2>1 DEF GuiTurn, ConstructPresenter, ConstructView, OpenChannel, ShowView, Send,
                Clear, DestroyApp, GuiGoes, Closed, closedWindows, HistoryOK
  <2>2. ASSUME gui' = gui PROVE closedWindows' = closedWindows
    BY <2>2 DEF Closed, closedWindows
  <2>3. ASSUME NEW c \in Channels, UserTurn(c) \/ UpdateUI(c) \/ WorkerTurn(c)
        PROVE  \/ PressSend(c) \/ CloseWindow(c)
               \/ OnMessageReceived(c) /\ history' # history
               \/ history' = history /\ gui' = gui
    BY <2>3 DEF UserTurn, Type, UpdateUI, WorkerTurn, OnMessageReceived
  <2> QED
    BY <2>1, <2>2, <2>3 DEF ChatterNext
<1> QED
  BY <1>1, <1>2, <1>3, <1>4, <1>5 DEF Talk!Next

\* Every behaviour of the application is a conversation: no window ever shows as
\* heard what was not shown before as said by a window that sends to it, none
\* takes a line back, and a closed one stays as it is.
THEOREM ChatterIsConversation == ChatterSpec => IsConversation
<1> DEFINE Inv == WireShown /\ ArrivedSent /\ SendingShown
           Types == TypeOK /\ HandledOnce /\ FieldsOK /\ HistoryOK
<1>1. ChatterInit => Inv /\ Talk!Init
  <2> SUFFICES ASSUME ChatterInit PROVE Inv /\ Talk!Init
    OBVIOUS
  <2> USE DEF ChatterInit, Init, SocketInit
  <2>1. WireShown
    BY DEF WireShown
  <2>2. ArrivedSent
    <3>1. \A c \in Channels : arrived[c] = <<>> /\ Len(arrived[c]) = 0
      OBVIOUS
    <3> QED
      BY <3>1 DEF ArrivedSent
  <2>3. SendingShown
    BY DEF SendingShown
  <2>4. Talk!Init
    BY DEF Talk!Init, Closed
  <2> QED
    BY <2>1, <2>2, <2>3, <2>4
<1>2. Types /\ Inv /\ [ChatterNext]_chatterVars => Inv'
  <2> SUFFICES ASSUME Types, Inv, [ChatterNext]_chatterVars PROVE Inv'
    OBVIOUS
  <2>1. WireShown'
    <3>1. ASSUME NEW d \in wire, NEW p \in Channels, PeerAddr[p] = d.to, Shows(p, d.text)
          PROVE  PeerAddr[p] = d.to /\ Shows(p, d.text)'
      BY <3>1, ShowsStable DEF TypeOK, SocketTypeOK, Datagrams
    <3>2. ASSUME NEW c \in Channels, NEW d, gui[c] = "send",
                 d = [to |-> PeerAddr[c], text |-> text[c]]
          PROVE  PeerAddr[c] = d.to /\ Shows(c, d.text)'
      BY <3>2, ShowsStable DEF SendingShown, FieldsOK
    <3> QED
      BY <3>1, <3>2, WireStep DEF WireShown
  <2>2. ArrivedSent'
    BY ArrivedStep, WireStep, ChannelStep
  <2>3. SendingShown'
    BY SendingStep
  <2> QED
    BY <2>1, <2>2, <2>3
<1>3. Types /\ Inv /\ [ChatterNext]_chatterVars => [Talk!Next]_<<history, closedWindows>>
  BY TalkStep
<1>4. ChatterTypeOK => TypeOK /\ FieldsOK /\ HistoryOK
  BY DEF ChatterTypeOK, FieldsOK, HistoryOK
<1> QED
  BY <1>1, <1>2, <1>3, <1>4, ChatterTypeCorrect, ChatterHandlesOnce, PTL
  DEF ChatterSpec, IsConversation, Talk!Spec, closedWindows

-----------------------------------------------------------------------------
\* A line appended is one more line of whoever it is by, at the end; every other
\* line stays where it is.
LEMMA ByAppend ==
  ASSUME HistoryOK, NEW c \in Channels, NEW line \in Lines, AppendToChatHistory(c, line),
         NEW who
  PROVE  /\ Len(history[c]) \in Nat
         /\ By(c, who)' = IF line.by = who THEN By(c, who) \cup {Len(history[c]) + 1}
                                          ELSE By(c, who)
         /\ \A i \in By(c, who) : history'[c][i] = history[c][i]
         /\ history'[c][Len(history[c]) + 1] = line
         /\ \A d \in Channels \ {c} : history'[d] = history[d] /\ By(d, who)' = By(d, who)
<1>1. Len(history[c]) \in Nat
  BY LenProperties DEF HistoryOK
<1>2. \A d \in Channels \ {c} : history'[d] = history[d]
  BY AppendOK
<1> QED
  BY <1>1, <1>2, AppendOK DEF By

\* Only two operations write to a chat history.
LEMMA WhoWrites ==
  ASSUME [ChatterNext]_chatterVars
  PROVE  \/ UNCHANGED history
         \/ \E c \in Channels :
              \/ PressSend(c)
              \/ OnMessageReceived(c) /\ history' # history /\ owner[c] \notin Crashes
BY DEF chatterVars, windowVars, ChatterNext, GuiTurn, UserTurn, WorkerTurn,
   ConstructPresenter, ConstructView, OpenChannel, ShowView, Send, Clear, DestroyApp, Type,
   CloseWindow, UpdateUI

\* What the worker appends is what it received, and the message passes out of
\* its hands.
LEMMA PeerLine ==
  ASSUME TypeOK, HandledOnce, NEW c \in Channels, OnMessageReceived(c), history' # history
  PROVE  /\ taken[c] \in 1..Len(arrived[c])
         /\ Line("peer", arrived[c][taken[c]], ReceivedSize(arrived[c][taken[c]])) \in Lines
         /\ AppendToChatHistory(c, Line("peer", arrived[c][taken[c]],
                                         ReceivedSize(arrived[c][taken[c]])))
         /\ UNCHANGED <<gui, text>>
<1>1. Callback(c)
  BY DEF OnMessageReceived
<1>2. taken[c] \in 1..Len(arrived[c]) /\ arrived[c][taken[c]] \in Texts
  BY <1>1, InHandIsReceived
<1>3. ReceivedSize(arrived[c][taken[c]]) \in Nat
  BY <1>2, ConstantsAssumption DEF ReceivedSize
<1> QED
  BY <1>2, <1>3 DEF OnMessageReceived, Line, Lines

-----------------------------------------------------------------------------
\* The message about to be sent is the last one said.
InSending(c) ==
  gui[c] = "send" =>
    \E m \in Said(c) : history[c][m].text = text[c] /\ \A n \in Said(c) : n <= m

\* What a window said it never takes back, and only PressSend() says more.
LEMMA SaidStep ==
  ASSUME TypeOK, HandledOnce, FieldsOK, HistoryOK, [ChatterNext]_chatterVars,
         NEW c \in Channels, ~PressSend(c)
  PROVE  Said(c)' = Said(c) /\ \A i \in Said(c) : history'[c][i] = history[c][i]
<1>1. ASSUME NEW d \in Channels, OnMessageReceived(d), history' # history
      PROVE  (\A i \in Said(c) : history'[c][i] = history[c][i]) /\ Said(c)' = Said(c)
  <2> DEFINE line == Line("peer", arrived[d][taken[d]], ReceivedSize(arrived[d][taken[d]]))
  <2>1. line \in Lines /\ AppendToChatHistory(d, line)
    BY <1>1, PeerLine
  <2>2. line.by # "me"
    BY DEF Line
  <2>3. (\A i \in By(c, "me") : history'[c][i] = history[c][i]) /\ By(c, "me")' = By(c, "me")
    <3> HIDE DEF line
    <3>1. CASE c = d
      <4>1. /\ \A i \in By(d, "me") : history'[d][i] = history[d][i]
            /\ By(d, "me")' = IF line.by = "me" THEN By(d, "me") \cup {Len(history[d]) + 1}
                                                ELSE By(d, "me")
        BY <2>1, ByAppend
      <4> QED
        BY <2>2, <3>1, <4>1
    <3>2. CASE c \in Channels \ {d}
      <4>1. \A e \in Channels \ {d} : history'[e] = history[e] /\ By(e, "me")' = By(e, "me")
        BY <2>1, ByAppend
      <4> QED
        BY <3>2, <4>1
    <3> QED
      BY <3>1, <3>2
  <2> QED
    BY <2>3 DEF Said
<1>2. ASSUME NEW d \in Channels, PressSend(d)
      PROVE  (\A i \in Said(c) : history'[c][i] = history[c][i]) /\ Said(c)' = Said(c)
  <2>1. c \in Channels \ {d}
    BY <1>2
  <2> QED
    BY <1>2, <2>1, LinesOK, ByAppend DEF Said, PressSend
<1>3. CASE UNCHANGED history
  BY <1>3 DEF Said, By
<1> QED
  BY <1>1, <1>2, <1>3, WhoWrites

\* PressSend() says a message without uttering it, Send() utters the last one
\* said, and nothing else changes what a window uttered.
LEMMA UtteredStep ==
  ASSUME TypeOK, HandledOnce, FieldsOK, HistoryOK, NEW c \in Channels, InSending(c),
         [ChatterNext]_chatterVars
  PROVE  /\ InSending(c)'
         /\ \A i \in Uttered(c) : history'[c][i] = history[c][i]
         /\ ~Send(c) => Uttered(c)' = Uttered(c)
         /\ Send(c) => \E m \in Said(c) :
              /\ Uttered(c)' = Uttered(c) \cup {m}
              /\ history[c][m].text = text[c]
              /\ \A n \in Uttered(c) : n < m
<1> USE DEF chatterVars, windowVars
<1>0. Said(c) \subseteq 1..Len(history[c]) /\ Len(history[c]) \in Nat
  BY LenProperties DEF HistoryOK, Said, By
<1>1. CASE PressSend(c)
  <2> DEFINE line == Line("me", text[c], Size[text[c]])
             last == Len(history[c]) + 1
  <2>1. /\ AppendToChatHistory(c, line) /\ line \in Lines /\ line.by = "me"
        /\ line.text = text[c] /\ gui[c] = "loop" /\ gui'[c] = "send" /\ text' = text
    BY <1>1, LinesOK DEF PressSend, InEventLoop, HistoryOK, Line
  <2>2. /\ Said(c)' = Said(c) \cup {last}
        /\ \A i \in Said(c) : history'[c][i] = history[c][i]
        /\ history'[c][last] = line
    BY <2>1, ByAppend DEF Said
  <2>3. InSending(c)'
    <3>1. /\ last \in Said(c)' /\ history'[c][last].text = text'[c]
          /\ \A n \in Said(c)' : n <= last
      BY <1>0, <2>1, <2>2
    <3> QED
      BY <3>1 DEF InSending
  <2>4. {n \in Said(c)' : \E m \in Said(c)' : m > n} = Said(c)
    BY <1>0, <2>2
  <2>5. Uttered(c)' = Said(c) /\ Uttered(c) = Said(c)
    BY <2>1, <2>4 DEF Uttered
  <2>6. ~Send(c)
    BY <2>1 DEF Send, GuiGoes
  <2> QED
    BY <2>2, <2>3, <2>5, <2>6
<1>2. CASE Send(c)
  <2>1. gui[c] = "send" /\ gui'[c] = "clear" /\ history' = history
    BY <1>2, HandsOver
  <2>2. PICK m \in Said(c) : history[c][m].text = text[c] /\ \A n \in Said(c) : n <= m
    BY <2>1 DEF InSending
  <2>3. {n \in Said(c) : \E k \in Said(c) : k > n} = Said(c) \ {m}
    BY <1>0, <2>2
  <2>4. Said(c)' = Said(c)
    BY <2>1 DEF Said, By
  <2>5. Uttered(c) = Said(c) \ {m} /\ Uttered(c)' = Said(c)
    BY <2>1, <2>3, <2>4 DEF Uttered
  <2>6. \A n \in Uttered(c) : n < m
    BY <1>0, <2>2, <2>5
  <2>7. InSending(c)'
    BY <2>1 DEF InSending
  <2> QED
    BY <1>2, <2>1, <2>2, <2>5, <2>6, <2>7
<1>3. CASE ~Send(c) /\ ~PressSend(c)
  <2>1. gui'[c] = "send" <=> gui[c] = "send"
    BY <1>3 DEF HistoryOK, ChatterNext, GuiTurn, UserTurn, WorkerTurn, ConstructPresenter,
       ConstructView, OpenChannel, ShowView, Send, Clear, DestroyApp, GuiGoes, Type,
       PressSend, CloseWindow, UpdateUI, InEventLoop, OnMessageReceived
  <2>2. gui[c] = "send" => text'[c] = text[c]
    BY <1>3, <2>1 DEF FieldsOK, ChatterNext, GuiTurn, UserTurn, WorkerTurn,
       ConstructPresenter, ConstructView, OpenChannel, ShowView, Send, Clear, DestroyApp,
       GuiGoes, Type, PressSend, CloseWindow, UpdateUI, InEventLoop, OnMessageReceived
  <2>3. Said(c)' = Said(c) /\ \A i \in Said(c) : history'[c][i] = history[c][i]
    BY <1>3, SaidStep
  <2>4. Uttered(c)' = Uttered(c) /\ Uttered(c) \subseteq Said(c)
    BY <2>1, <2>3 DEF Uttered
  <2>5. InSending(c)'
    BY <2>1, <2>2, <2>3 DEF InSending
  <2> QED
    BY <1>3, <2>3, <2>4, <2>5
<1> QED
  BY <1>1, <1>2, <1>3

\* A step that tries nothing and utters nothing keeps the match.
LEMMA SaysFrame ==
  ASSUME NEW c \in Channels, SaysWhatItTries(c), sent'[c] = sent[c],
         Uttered(c)' = Uttered(c),
         \A n \in Uttered(c) : history'[c][n] = history[c][n]
  PROVE  SaysWhatItTries(c)'
<1>1. PICK at \in [1..Len(sent[c]) -> Uttered(c)] :
        /\ \A n \in Uttered(c) : \E i \in 1..Len(sent[c]) : at[i] = n
        /\ \A i, j \in 1..Len(sent[c]) : i < j => at[i] < at[j]
        /\ \A i \in 1..Len(sent[c]) : history[c][at[i]].text = sent[c][i].text
  BY DEF SaysWhatItTries
<1>2. /\ at \in [1..Len(sent'[c]) -> Uttered(c)']
      /\ \A n \in Uttered(c)' : \E i \in 1..Len(sent'[c]) : at[i] = n
      /\ \A i, j \in 1..Len(sent'[c]) : i < j => at[i] < at[j]
      /\ \A i \in 1..Len(sent'[c]) : history'[c][at[i]].text = sent'[c][i].text
  BY <1>1
<1> QED
  BY <1>2 DEF SaysWhatItTries

\* One more try matches the line uttered with it, the last of them.
LEMMA SaysOneMore ==
  ASSUME HistoryOK, NEW c \in Channels, SaysWhatItTries(c), history' = history,
         NEW rc \in BOOLEAN, text[c] \in Texts,
         sent'[c] = Append(sent[c], [text |-> text[c], rc |-> rc]),
         NEW m, Uttered(c)' = Uttered(c) \cup {m},
         history[c][m].text = text[c],
         \A n \in Uttered(c) : n < m
  PROVE  SaysWhatItTries(c)'
<1> DEFINE try == [text |-> text[c], rc |-> rc]
           k == Len(sent[c]) + 1
<1>1. PICK at \in [1..Len(sent[c]) -> Uttered(c)] :
        /\ \A n \in Uttered(c) : \E i \in 1..Len(sent[c]) : at[i] = n
        /\ \A i, j \in 1..Len(sent[c]) : i < j => at[i] < at[j]
        /\ \A i \in 1..Len(sent[c]) : history[c][at[i]].text = sent[c][i].text
  BY DEF SaysWhatItTries
<1>2. /\ Len(sent[c]) \in Nat /\ Len(sent'[c]) = k
      /\ \A i \in 1..Len(sent[c]) : sent'[c][i] = sent[c][i]
      /\ sent'[c][k] = try
  BY LenProperties, AppendProperties DEF HistoryOK, Tries
<1>3. 1..Len(sent'[c]) = 1..Len(sent[c]) \cup {k} /\ k \notin 1..Len(sent[c])
  BY <1>2
<1> DEFINE f == [i \in 1..Len(sent'[c]) |-> IF i = k THEN m ELSE at[i]]
<1>4. /\ f[k] = m
      /\ \A i \in 1..Len(sent[c]) : f[i] = at[i] /\ f[i] \in Uttered(c)
      /\ f \in [1..Len(sent'[c]) -> Uttered(c)']
  BY <1>1, <1>3
<1>5. try.text = text[c]
  OBVIOUS
<1>6. \A i \in 1..Len(sent[c]) : i \in Nat /\ i < k
  BY <1>2
<1> HIDE DEF f, k, try
<1>7. \A n \in Uttered(c)' : \E i \in 1..Len(sent'[c]) : f[i] = n
  BY <1>1, <1>3, <1>4
<1>8. \A i, j \in 1..Len(sent'[c]) : i < j => f[i] < f[j]
  <2> SUFFICES ASSUME NEW i \in 1..Len(sent'[c]), NEW j \in 1..Len(sent'[c]), i < j
               PROVE  f[i] < f[j]
    OBVIOUS
  <2>1. i \in 1..Len(sent[c])
    BY <1>2, <1>3, <1>6 DEF k
  <2>2. CASE j = k
    BY <1>4, <2>1, <2>2
  <2>3. CASE j \in 1..Len(sent[c])
    BY <1>1, <1>4, <2>1, <2>3
  <2> QED
    BY <1>3, <2>2, <2>3
<1>9. \A i \in 1..Len(sent'[c]) : history'[c][f[i]].text = sent'[c][i].text
  <2>1. \A i \in 1..Len(sent[c]) : history'[c][f[i]].text = sent'[c][i].text
    BY <1>1, <1>2, <1>4
  <2>2. history'[c][f[k]].text = sent'[c][k].text
    BY <1>2, <1>4, <1>5
  <2> QED
    BY <1>3, <2>1, <2>2
<1> QED
  BY <1>4, <1>7, <1>8, <1>9 DEF SaysWhatItTries

\* A step keeps the match of tries and lines.
LEMMA SaysStep ==
  ASSUME TypeOK, HandledOnce, FieldsOK, HistoryOK, [ChatterNext]_chatterVars,
         NEW c \in Channels, InSending(c), SaysWhatItTries(c)
  PROVE  SaysWhatItTries(c)'
<1>1. CASE Send(c)
  <2>1. PICK rc \in BOOLEAN : sent'[c] = Append(sent[c], [text |-> text[c], rc |-> rc])
    BY <1>1, HandsOver
  <2>2. PICK m \in Said(c) : /\ Uttered(c)' = Uttered(c) \cup {m}
                             /\ history[c][m].text = text[c]
                             /\ \A n \in Uttered(c) : n < m
    BY <1>1, UtteredStep
  <2>3. history' = history /\ text[c] \in Texts
    BY <1>1, HandsOver DEF FieldsOK
  <2> QED
    BY <2>1, <2>2, <2>3, SaysOneMore
<1>2. CASE ~Send(c)
  <2>1. sent'[c] = sent[c]
    BY <1>2, WhoTries, HandsOver
  <2> QED
    BY <1>2, <2>1, UtteredStep, SaysFrame
<1> QED
  BY <1>1, <1>2

\* What is on the wire was taken of a try made for it, and what was taken is on
\* the wire.
WireIsTaken ==
  /\ \A d \in wire : \E p \in Channels : PeerAddr[p] = d.to /\ d.text \in Taken(p)
  /\ \A p \in Channels : \A t \in Taken(p) : [to |-> PeerAddr[p], text |-> t] \in wire

\* One more try adds its text to what was taken if and only if sendto() took it.
LEMMA TakenAppend ==
  ASSUME FieldsOK, HistoryOK, NEW c \in Channels, NEW rc \in BOOLEAN,
         sent'[c] = Append(sent[c], [text |-> text[c], rc |-> rc])
  PROVE  Taken(c)' = Taken(c) \cup (IF rc THEN {text[c]} ELSE {})
<1> DEFINE try == [text |-> text[c], rc |-> rc]
           k == Len(sent[c]) + 1
<1>1. /\ Len(sent[c]) \in Nat /\ Len(sent'[c]) = k
      /\ \A i \in 1..Len(sent[c]) : sent'[c][i] = sent[c][i]
      /\ sent'[c][k] = try
  BY LenProperties, AppendProperties DEF HistoryOK, Tries, FieldsOK
<1>2. 1..Len(sent'[c]) = 1..Len(sent[c]) \cup {k}
  BY <1>1
<1>3. try.text = text[c] /\ try.rc = rc
  OBVIOUS
<1> HIDE DEF try, k
<1> QED
  BY <1>1, <1>2, <1>3 DEF Taken

\* SendMessage() puts on the wire what sendto() takes, and nothing else does.
LEMMA WireIsTakenStep ==
  ASSUME FieldsOK, HistoryOK, [ChatterNext]_chatterVars, WireIsTaken
  PROVE  WireIsTaken'
<1>1. CASE UNCHANGED <<sent, wire>>
  BY <1>1 DEF WireIsTaken, Taken
<1>2. ASSUME NEW c \in Channels, Send(c) PROVE WireIsTaken'
  <2>1. PICK rc \in BOOLEAN :
          /\ sent'[c] = Append(sent[c], [text |-> text[c], rc |-> rc])
          /\ wire' = IF rc THEN wire \cup {[to |-> PeerAddr[c], text |-> text[c]]} ELSE wire
    BY <1>2, HandsOver
  <2>2. Taken(c)' = Taken(c) \cup (IF rc THEN {text[c]} ELSE {})
    BY <2>1, TakenAppend
  <2>3. \A p \in Channels \ {c} : Taken(p)' = Taken(p)
    BY <1>2, HandsOver DEF Taken
  <2>4. ASSUME NEW d \in wire'
        PROVE  \E p \in Channels : PeerAddr[p] = d.to /\ d.text \in Taken(p)'
    <3>1. CASE d \in wire
      BY <2>2, <2>3, <3>1 DEF WireIsTaken
    <3>2. CASE d \notin wire
      <4>1. rc /\ d = [to |-> PeerAddr[c], text |-> text[c]]
        BY <2>1, <2>4, <3>2
      <4> QED
        BY <2>2, <4>1
    <3> QED
      BY <3>1, <3>2
  <2>5. ASSUME NEW p \in Channels, NEW t \in Taken(p)'
        PROVE  [to |-> PeerAddr[p], text |-> t] \in wire'
    BY <2>1, <2>2, <2>3, <2>5 DEF WireIsTaken
  <2> QED
    BY <2>4, <2>5 DEF WireIsTaken
<1> QED
  BY <1>1, <1>2, WhoTries

\* Whatever the threads, the toolkit and the sockets do, a window tries to send
\* each line it shows as said, once and in order, and what goes to an address is
\* what sendto() took of the tries made for it.
THEOREM SaidIsTriedOnceAlways == ChatterSpec => []SaidIsTriedOnce
<1> DEFINE Types == TypeOK /\ HandledOnce /\ FieldsOK /\ HistoryOK
           Matched == \A c \in Channels : InSending(c) /\ SaysWhatItTries(c)
<1>1. ChatterInit => Matched /\ WireIsTaken
  <2> SUFFICES ASSUME ChatterInit PROVE Matched /\ WireIsTaken
    OBVIOUS
  <2>1. ASSUME NEW c \in Channels
        PROVE  InSending(c) /\ SaysWhatItTries(c) /\ Taken(c) = {}
    <3>1. gui[c] = "presenter" /\ Len(history[c]) = 0 /\ Len(sent[c]) = 0
      BY DEF ChatterInit
    <3>2. \A n : n \notin Uttered(c) /\ n \notin 1..Len(sent[c])
      BY <3>1 DEF Uttered, Said, By
    <3>3. [i \in 1..Len(sent[c]) |-> i] \in [1..Len(sent[c]) -> Uttered(c)]
      BY <3>2
    <3> QED
      BY <3>1, <3>2, <3>3 DEF InSending, SaysWhatItTries, Taken
  <2>2. wire = {}
    BY DEF ChatterInit, Init, SocketInit
  <2> QED
    BY <2>1, <2>2 DEF WireIsTaken
<1>2. Types /\ Matched /\ WireIsTaken /\ [ChatterNext]_chatterVars => Matched' /\ WireIsTaken'
  BY UtteredStep, SaysStep, WireIsTakenStep
<1>3. Matched /\ WireIsTaken => SaidIsTriedOnce
  <2> SUFFICES ASSUME WireIsTaken, NEW a \in Addrs
               PROVE  {d.text : d \in {e \in wire : e.to = a}} =
                        UNION {Taken(c) : c \in {p \in Channels : PeerAddr[p] = a}}
    BY DEF SaidIsTriedOnce
  <2>1. ASSUME NEW d \in wire, d.to = a
        PROVE  d.text \in UNION {Taken(c) : c \in {p \in Channels : PeerAddr[p] = a}}
    BY <2>1 DEF WireIsTaken
  <2>2. ASSUME NEW p \in Channels, PeerAddr[p] = a, NEW t \in Taken(p)
        PROVE  t \in {d.text : d \in {e \in wire : e.to = a}}
    <3>1. [to |-> a, text |-> t] \in {e \in wire : e.to = a}
      BY <2>2 DEF WireIsTaken
    <3>2. [to |-> a, text |-> t].text = t
      OBVIOUS
    <3> QED
      BY <3>1, <3>2
  <2> QED
    BY <2>1, <2>2
<1>4. ChatterTypeOK => TypeOK /\ FieldsOK /\ HistoryOK
  BY DEF ChatterTypeOK, FieldsOK, HistoryOK
<1> QED
  BY <1>1, <1>2, <1>3, <1>4, ChatterTypeCorrect, ChatterHandlesOnce, PTL DEF ChatterSpec

-----------------------------------------------------------------------------
\* The worker is done with a message when it leaves the handler, and not before.
LEMMA PassedStep ==
  ASSUME TypeOK, TypeOK', NEW c \in Channels, Custody(c), Step(c)
  PROVE  /\ worker[c] = "call" /\ worker'[c] = "loop" =>
              Passed(c)' = Passed(c) \cup {taken[c]} /\ taken[c] \notin Passed(c)
         /\ ~(worker[c] = "call" /\ worker'[c] = "loop") => Passed(c)' = Passed(c)
<1> USE DEF Passed, InHand
<1>1. Accepted(c) \subseteq 1..taken[c] /\ taken[c] \in Nat
  BY DEF Accepted, TypeOK, SocketTypeOK
<1>2. CASE taken'[c] # taken[c]
  <2>1. /\ worker[c] = "receive"
        /\ worker'[c] = IF ReceivedSize(arrived[c][taken'[c]]) > 0 THEN "count" ELSE "loop"
    BY <1>2, TakenStep DEF TypeOK
  <2>2. taken'[c] = taken[c] + 1 /\ taken'[c] \notin Accepted(c)
    BY <1>1, <1>2, AcceptedStep
  <2> QED
    BY <1>2, <2>1, <2>2, AcceptedStep
<1>3. CASE taken'[c] = taken[c]
  <2>1. Accepted(c)' = Accepted(c)
    BY <1>3, AcceptedStep
  <2>2. \/ InHand(c)' = InHand(c) /\ ~(worker[c] = "call" /\ worker'[c] = "loop")
        \/ worker[c] = "call" /\ worker'[c] = "loop"
    <3> USE <1>3 DEF TypeOK, SocketTypeOK, socketVars, threadVars, Crash
    <3>1. CASE OwnerStep(c)
      BY <3>1 DEF OwnerStep, BindReceiver, StartWorker, Join
    <3>2. CASE ClientCall(c)
      BY <3>2 DEF ClientCall, Initialise, SendMessage, SetCallbackHandler, Destroy
    <3>3. CASE WorkerStep(c)
      <4>1. ~RecvFrom(c)
        BY <1>1 DEF RecvFrom
      <4> QED
        BY <3>3, <4>1 DEF WorkerStep, TestStop, Receive, CountMessage, Callback
    <3>4. CASE Arrival(c)
      BY <3>4 DEF Arrival
    <3> QED
      BY <3>1, <3>2, <3>3, <3>4 DEF Step
  <2> QED
    BY <1>3, <2>1, <2>2 DEF Custody
<1> QED
  BY <1>2, <1>3

\* A step that passes nothing on and keeps the lines heard keeps the match.
LEMMA ShowsFrame ==
  ASSUME NEW c \in Channels, ShowsWhatArrived(c),
         Passed(c)' = Passed(c), Heard(c)' = Heard(c),
         \A n \in Heard(c) : history'[c][n] = history[c][n],
         \A i \in Passed(c) : arrived'[c][i] = arrived[c][i]
  PROVE  ShowsWhatArrived(c)'
<1>1. PICK at \in [Passed(c) -> Heard(c)] :
        /\ \A n \in Heard(c) : \E i \in Passed(c) : at[i] = n
        /\ \A i, j \in Passed(c) : i < j => at[i] < at[j]
        /\ \A i \in Passed(c) :
             history[c][at[i]] = Line("peer", arrived[c][i], ReceivedSize(arrived[c][i]))
  BY DEF ShowsWhatArrived
<1>2. \A i \in Passed(c) : history'[c][at[i]] =
        Line("peer", arrived'[c][i], ReceivedSize(arrived'[c][i]))
  BY <1>1
<1>3. \E f \in [Passed(c)' -> Heard(c)'] :
        /\ \A n \in Heard(c)' : \E i \in Passed(c)' : f[i] = n
        /\ \A i, j \in Passed(c)' : i < j => f[i] < f[j]
        /\ \A i \in Passed(c)' : history'[c][f[i]] =
             Line("peer", arrived'[c][i], ReceivedSize(arrived'[c][i]))
  BY <1>1, <1>2
<1> QED
  BY <1>3 DEF ShowsWhatArrived, Line, ReceivedSize

\* A message passed on is the last to arrive of those that were, and its line is
\* the last in the history.
LEMMA ShowsOneMore ==
  ASSUME TypeOK, HistoryOK, NEW c \in Channels, ShowsWhatArrived(c),
         Passed(c)' = Passed(c) \cup {taken[c]}, taken[c] \notin Passed(c),
         arrived' = arrived,
         Line("peer", arrived[c][taken[c]], ReceivedSize(arrived[c][taken[c]])) \in Lines,
         AppendToChatHistory(c, Line("peer", arrived[c][taken[c]],
                                     ReceivedSize(arrived[c][taken[c]])))
  PROVE  ShowsWhatArrived(c)'
<1> DEFINE line == Line("peer", arrived[c][taken[c]], ReceivedSize(arrived[c][taken[c]]))
           last == Len(history[c]) + 1
<1>1. PICK at \in [Passed(c) -> Heard(c)] :
        /\ \A n \in Heard(c) : \E i \in Passed(c) : at[i] = n
        /\ \A i, j \in Passed(c) : i < j => at[i] < at[j]
        /\ \A i \in Passed(c) :
             history[c][at[i]] = Line("peer", arrived[c][i], ReceivedSize(arrived[c][i]))
  BY DEF ShowsWhatArrived
<1>2. line.by = "peer" /\ line \in Lines /\ AppendToChatHistory(c, line)
  BY DEF Line
<1>3. /\ Len(history[c]) \in Nat
      /\ Heard(c)' = Heard(c) \cup {last}
      /\ \A n \in Heard(c) : history'[c][n] = history[c][n]
      /\ history'[c][last] = line
  <2> HIDE DEF line
  <2>1. /\ Len(history[c]) \in Nat
        /\ By(c, "peer")' = IF line.by = "peer" THEN By(c, "peer") \cup {Len(history[c]) + 1}
                                                ELSE By(c, "peer")
        /\ \A i \in By(c, "peer") : history'[c][i] = history[c][i]
        /\ history'[c][Len(history[c]) + 1] = line
    BY <1>2, ByAppend
  <2> QED
    BY <1>2, <2>1 DEF Heard
<1>4. /\ \A n \in Heard(c) : n \in Nat /\ n < last
      /\ \A i \in Passed(c) : i \in Nat /\ i < taken[c]
  BY <1>3 DEF Heard, By, Passed, Accepted, TypeOK, SocketTypeOK
<1> DEFINE f == [i \in Passed(c) \cup {taken[c]} |-> IF i = taken[c] THEN last ELSE at[i]]
<1>5. /\ f[taken[c]] = last
      /\ \A i \in Passed(c) : f[i] = at[i] /\ f[i] \in Heard(c)
      /\ f \in [Passed(c)' -> Heard(c)']
  BY <1>1, <1>3
<1> HIDE DEF f, last
<1>6. \A n \in Heard(c)' : \E i \in Passed(c)' : f[i] = n
  BY <1>1, <1>3, <1>5
<1>7. \A i, j \in Passed(c)' : i < j => f[i] < f[j]
  <2> SUFFICES ASSUME NEW i \in Passed(c)', NEW j \in Passed(c)', i < j PROVE f[i] < f[j]
    OBVIOUS
  <2>1. i \in Passed(c)
    BY <1>4 DEF TypeOK, SocketTypeOK
  <2>2. CASE j = taken[c]
    BY <1>4, <1>5, <2>1, <2>2
  <2>3. CASE j \in Passed(c)
    BY <1>1, <1>5, <2>1, <2>3
  <2> QED
    BY <2>2, <2>3
<1>8. \A i \in Passed(c)' : history'[c][f[i]] =
        Line("peer", arrived'[c][i], ReceivedSize(arrived'[c][i]))
  <2>1. \A i \in Passed(c) : history'[c][f[i]] =
          Line("peer", arrived[c][i], ReceivedSize(arrived[c][i]))
    BY <1>1, <1>3, <1>5
  <2>2. history'[c][f[taken[c]]] = line
    BY <1>3, <1>5
  <2> QED
    BY <2>1, <2>2
<1> QED
  BY <1>5, <1>6, <1>7, <1>8 DEF ShowsWhatArrived, Line, ReceivedSize

\* Before a worker runs, the presenter is there to be called.
Listening(c) == gui[c] # "presenter" => handler[c]

LEMMA ListeningStep ==
  ASSUME TypeOK, HistoryOK, NEW c \in Channels, Listening(c), [ChatterNext]_chatterVars
  PROVE  Listening(c)'
<1> USE DEF Listening, TypeOK, HistoryOK, chatterVars, windowVars, vars, threadVars, GuiGoes
<1>1. ASSUME NEW d \in Channels, GuiTurn(d) PROVE Listening(c)'
  BY <1>1 DEF GuiTurn, ConstructPresenter, SetCallbackHandler, ConstructView, OpenChannel,
     Initialise, OwnerStep, BindReceiver, StartWorker, Join, Crash, ShowView, Send,
     HandOver, SendMessage, Clear, DestroyApp, Destroy
<1>2. ASSUME NEW d \in Channels, UserTurn(d) \/ UpdateUI(d) PROVE Listening(c)'
  BY <1>2 DEF UserTurn, Type, PressSend, CloseWindow, UpdateUI, InEventLoop
<1>3. ASSUME NEW d \in Channels, WorkerTurn(d) PROVE Listening(c)'
  BY <1>3 DEF WorkerTurn, TestStop, Receive, CountMessage, OnMessageReceived, Callback, Crash
<1>4. ASSUME NEW d \in Channels, Arrival(d) /\ UNCHANGED windowVars PROVE Listening(c)'
  BY <1>4 DEF Arrival
<1> QED
  BY <1>1, <1>2, <1>3, <1>4 DEF ChatterNext

\* A closed window stays closed.
LEMMA ClosedStays ==
  ASSUME HistoryOK, NEW c \in Channels, Closed(c), [ChatterNext]_chatterVars
  PROVE  Closed(c)'
BY DEF Closed, HistoryOK, chatterVars, windowVars, ChatterNext, GuiTurn, UserTurn, WorkerTurn,
   ConstructPresenter, ConstructView, OpenChannel, ShowView, Send, Clear, DestroyApp, GuiGoes,
   Type, PressSend, CloseWindow, UpdateUI, InEventLoop, OnMessageReceived

\* A worker that returned from the handler called OnMessageReceived().
LEMMA WhoPasses ==
  ASSUME TypeOK, NEW c \in Channels, [ChatterNext]_chatterVars,
         worker[c] = "call", worker'[c] = "loop"
  PROVE  OnMessageReceived(c)
<1> USE DEF TypeOK, chatterVars, windowVars, vars, threadVars
<1>1. ASSUME NEW d \in Channels, GuiTurn(d) PROVE FALSE
  BY <1>1 DEF GuiTurn, ConstructPresenter, SetCallbackHandler, ConstructView, OpenChannel,
     Initialise, OwnerStep, BindReceiver, StartWorker, Join, Crash, ShowView, Send,
     HandOver, SendMessage, Clear, DestroyApp, Destroy
<1>2. ASSUME NEW d \in Channels, UserTurn(d) \/ UpdateUI(d) PROVE FALSE
  BY <1>2 DEF UserTurn, Type, PressSend, CloseWindow, UpdateUI
<1>3. ASSUME NEW d \in Channels, WorkerTurn(d) PROVE OnMessageReceived(c)
  BY <1>3 DEF WorkerTurn, TestStop, Receive, CountMessage, OnMessageReceived, Callback, Crash
<1>4. ASSUME NEW d \in Channels, Arrival(d) PROVE FALSE
  BY <1>4 DEF Arrival
<1> QED
  BY <1>1, <1>2, <1>3, <1>4 DEF ChatterNext

\* While the window is open every step keeps the match of messages and lines.
LEMMA ShowsStep ==
  ASSUME TypeOK, TypeOK', HandledOnce, FieldsOK, HistoryOK, AppendOutcomes = {"shown"},
         NEW c \in Channels, Stage(c), Listening(c), ~Closed(c), ShowsWhatArrived(c),
         [ChatterNext]_chatterVars
  PROVE  ShowsWhatArrived(c)'
<1>1. CASE worker[c] = "call" /\ worker'[c] = "loop"
  <2>1. OnMessageReceived(c) /\ Step(c)
    BY <1>1, WhoPasses DEF OnMessageReceived, Callback, Crash, TypeOK, Step, WorkerStep, Stage,
       Closed, HistoryOK, GuiStates, Crashes
  <2>2. HasView(c) /\ handler[c]
    BY <1>1 DEF Stage, Listening, HasView, Closed, HistoryOK, GuiStates
  <2>3. owner' = owner /\ history' # history /\ arrived' = arrived
    <3>1. owner' = owner /\ AppendToChatHistory(c, Line("peer", arrived[c][taken[c]],
                                              ReceivedSize(arrived[c][taken[c]])))
      BY <2>1, <2>2 DEF OnMessageReceived, Outcomes
    <3>2. Line("peer", arrived[c][taken[c]], ReceivedSize(arrived[c][taken[c]])) \in Lines
      BY <2>1, LinesOK, InHandIsReceived DEF OnMessageReceived
    <3>3. Len(history'[c]) = Len(history[c]) + 1 /\ Len(history[c]) \in Nat
      BY <3>1, <3>2, AppendOK, LenProperties DEF HistoryOK
    <3>4. arrived' = arrived
      BY <1>1, <2>1 DEF OnMessageReceived, Callback, Crash, socketVars, TypeOK
    <3> QED
      BY <3>1, <3>3, <3>4
  <2>4. Passed(c)' = Passed(c) \cup {taken[c]} /\ taken[c] \notin Passed(c)
    BY <1>1, <2>1, PassedStep DEF HandledOnce
  <2> QED
    BY <2>1, <2>3, <2>4, PeerLine, ShowsOneMore
<1>2. CASE ~(worker[c] = "call" /\ worker'[c] = "loop")
  <2>1. Passed(c)' = Passed(c) /\ \A i \in Passed(c) : arrived'[c][i] = arrived[c][i]
    <3>1. Passed(c) \subseteq 1..taken[c]
      BY DEF Passed, Accepted
    <3>2. CASE Step(c)
      BY <1>2, <3>1, <3>2, PassedStep, ArrivedIsStable DEF HandledOnce
    <3>3. ASSUME NEW d \in Channels \ {c}, Step(d)
          PROVE  Passed(c)' = Passed(c) /\ arrived'[c] = arrived[c]
      BY <3>3, Locality DEF Passed, Accepted, InHand
    <3>4. CASE UNCHANGED vars
      BY <3>4 DEF vars, socketVars, threadVars, Passed, Accepted, InHand
    <3> QED
      BY <3>2, <3>3, <3>4, ChannelStep DEF Next
  <2>2. Heard(c)' = Heard(c) /\ \A n \in Heard(c) : history'[c][n] = history[c][n]
    <3>1. CASE UNCHANGED history
      BY <3>1 DEF Heard, By
    <3>2. ASSUME NEW d \in Channels, PressSend(d)
          PROVE  Heard(c)' = Heard(c) /\ \A n \in Heard(c) : history'[c][n] = history[c][n]
      <4> DEFINE line == Line("me", text[d], Size[text[d]])
      <4>1. line \in Lines /\ AppendToChatHistory(d, line) /\ line.by # "peer"
        BY <3>2, LinesOK DEF PressSend, Line
      <4> HIDE DEF line
      <4>2. By(d, "peer")' = By(d, "peer") /\ \A i \in By(d, "peer") : history'[d][i] = history[d][i]
        <5>1. /\ \A i \in By(d, "peer") : history'[d][i] = history[d][i]
              /\ By(d, "peer")' = IF line.by = "peer" THEN By(d, "peer") \cup {Len(history[d]) + 1}
                                                      ELSE By(d, "peer")
          BY <4>1, ByAppend
        <5> QED
          BY <4>1, <5>1
      <4>3. \A e \in Channels \ {d} : history'[e] = history[e] /\ By(e, "peer")' = By(e, "peer")
        BY <4>1, ByAppend
      <4> QED
        BY <4>2, <4>3 DEF Heard
    <3>3. ASSUME NEW d \in Channels, OnMessageReceived(d), history' # history,
                 owner[d] \notin Crashes
          PROVE  Heard(c)' = Heard(c) /\ \A n \in Heard(c) : history'[c][n] = history[c][n]
      <4> DEFINE line == Line("peer", arrived[d][taken[d]], ReceivedSize(arrived[d][taken[d]]))
      <4>1. line \in Lines /\ AppendToChatHistory(d, line)
        BY <3>3, PeerLine
      <4>2. worker[d] = "call" /\ worker'[d] = "loop"
        BY <3>3 DEF OnMessageReceived, Callback, Crash, TypeOK, Crashes
      <4>3. c \in Channels \ {d}
        BY <1>2, <4>2
      <4> HIDE DEF line
      <4>4. \A e \in Channels \ {d} : history'[e] = history[e] /\ By(e, "peer")' = By(e, "peer")
        BY <4>1, ByAppend
      <4> QED
        BY <4>3, <4>4 DEF Heard
    <3> QED
      BY <3>1, <3>2, <3>3, WhoWrites
  <2> QED
    BY <2>1, <2>2, ShowsFrame
<1> QED
  BY <1>1, <1>2

\* While the toolkit shows what it is given, an open window shows every message
\* its worker has passed on, each once and in the order of arrival.
THEOREM HeardIsWhatArrivedAlways == ChatterSpec => []HeardIsWhatArrived
<1> DEFINE Types == TypeOK /\ HandledOnce /\ FieldsOK /\ HistoryOK
           Matched == AppendOutcomes = {"shown"} =>
             \A c \in Channels :
               Stage(c) /\ Listening(c) /\ (~Closed(c) => ShowsWhatArrived(c))
<1>1. ChatterInit => Matched
  <2> SUFFICES ASSUME ChatterInit, NEW c \in Channels
               PROVE  Stage(c) /\ Listening(c) /\ ShowsWhatArrived(c)
    OBVIOUS
  <2>1. taken[c] = 0 /\ Len(history[c]) = 0
    BY DEF ChatterInit, Init, SocketInit
  <2>2. Stage(c) /\ Listening(c)
    BY DEF ChatterInit, Init, Stage, Listening
  <2>3. \A i : i \notin Passed(c) /\ i \notin Heard(c)
    BY <2>1 DEF Passed, Accepted, Heard, By
  <2>4. [i \in Passed(c) |-> i] \in [Passed(c) -> Heard(c)]
    BY <2>3
  <2> QED
    BY <2>2, <2>3, <2>4 DEF ShowsWhatArrived
<1>2. Types /\ TypeOK' /\ Matched /\ [ChatterNext]_chatterVars => Matched'
  <2> SUFFICES ASSUME Types, TypeOK', Matched, [ChatterNext]_chatterVars,
                      AppendOutcomes = {"shown"}, NEW c \in Channels
               PROVE  Stage(c)' /\ Listening(c)' /\ (~Closed(c)' => ShowsWhatArrived(c)')
    OBVIOUS
  <2>1. "fault" \notin AppendOutcomes
    OBVIOUS
  <2> QED
    BY <2>1, StageStep, ListeningStep, ClosedStays, ShowsStep
<1>3. HistoryOK /\ Matched => HeardIsWhatArrived
  BY DEF HeardIsWhatArrived, HasView, Closed
<1>4. ChatterTypeOK => TypeOK /\ FieldsOK /\ HistoryOK
  BY DEF ChatterTypeOK, FieldsOK, HistoryOK
<1> QED
  BY <1>1, <1>2, <1>3, <1>4, ChatterTypeCorrect, ChatterHandlesOnce, PTL DEF ChatterSpec
=============================================================================
