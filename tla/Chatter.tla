------------------------------ MODULE Chatter ------------------------------
(***************************************************************************)
(* The application: MywxApp, wxChatterView and ChatterPresenter, one        *)
(* process per channel, on top of UdpChatChannel.  The thread that owns    *)
(* the channel is the GUI thread; OnMessageReceived() runs on the worker.  *)
(*                                                                         *)
(* gui[c] is where the GUI thread stands: "presenter", "view" and          *)
(* "initialise" before the three steps of OnInit(), "opening" inside       *)
(* channel_.Initialise(), "loop" in the event loop, "send" and "clear"     *)
(* inside OnSendCommand(), "closed" when wx has deleted the frame, "exit"  *)
(* when the application object goes.                                       *)
(* A member of Texts stands for a message with its newline; Blank is the   *)
(* newline alone, what an empty text field sends.  sent[c] is a history    *)
(* variable, the calls of SendMessage() and whether sendto() took each.    *)
(***************************************************************************)
EXTENDS UdpChatChannel

CONSTANTS
  Blank,           \* the message an empty field makes
  AppendOutcomes,  \* what AppendText() on the worker thread may do
  MaxSaid          \* bound on the messages said in one window

\* The toolkit wants its controls used by the GUI thread alone.  A build that
\* forwards the call (Windows) only ever shows the line; on the others the call
\* is a data race that may lose the line or fault.
ASSUME ChatterAssumption ==
  /\ Blank \in Texts
  /\ AppendOutcomes \subseteq {"shown", "lost", "fault"}
  /\ MaxSaid \in Nat

VARIABLES gui, history, text, enabled, sent

windowVars == <<gui, history, text, enabled, sent>>
chatterVars == <<vars, windowVars>>

GuiStates == {"presenter", "view", "initialise", "opening", "loop", "send",
              "clear", "closed", "exit"}

Line(by, t, n) == [by |-> by, text |-> t, size |-> n]
Lines == [by : {"me", "peer"}, text : Texts, size : Nat]

Tries == [text : Texts, rc : BOOLEAN]

ChatterTypeOK ==
  /\ TypeOK
  /\ gui \in [Channels -> GuiStates]
  /\ history \in [Channels -> Seq(Lines)]
  /\ text \in [Channels -> Texts]
  /\ enabled \in [Channels -> BOOLEAN]
  /\ sent \in [Channels -> Seq(Tries)]

ChatterInit ==
  /\ Init
  /\ gui = [c \in Channels |-> "presenter"]
  /\ history = [c \in Channels |-> <<>>]
  /\ text = [c \in Channels |-> Blank]
  /\ enabled = [c \in Channels |-> TRUE]
  /\ sent = [c \in Channels |-> <<>>]

\* A bug the view could have had: it hands itself to the presenter in Show().
HasViewWhenShown(c) == gui[c] \in {"loop", "send", "clear"}

\* The presenter has a view from ConstructView() until wx deletes it.
HasView(c) == gui[c] \in {"initialise", "opening", "loop", "send", "clear"}

GuiGoes(c, from, to) == gui[c] = from /\ gui' = [gui EXCEPT ![c] = to]

\* A bug the view could have had: a line that looks empty is not appended.
AppendVisible(c, line) ==
  history' = IF line.text = Blank THEN history ELSE [history EXCEPT ![c] = Append(@, line)]

AppendToChatHistory(c, line) == history' = [history EXCEPT ![c] = Append(@, line)]

\* The positions in the chat history of what was said and of what was heard.
By(c, who) == {i \in 1..Len(history[c]) : history[c][i].by = who}
Said(c) == By(c, "me")
Heard(c) == By(c, "peer")

\* channel_.SendMessage(), noted with what sendto() made of it.
HandOver(c, t, rc) ==
  /\ SendMessage(c, t, rc)
  /\ sent' = [sent EXCEPT ![c] = Append(@, [text |-> t, rc |-> rc])]

-----------------------------------------------------------------------------
(* Bugs the presenter could have had, each in place of one action below.   *)

\* The constructor does not register the presenter with the channel.
ConstructPresenterOnly(c) ==
  /\ GuiGoes(c, "presenter", "view")
  /\ UNCHANGED <<vars, history, text, enabled, sent>>

\* OnSendCommand() sends what the field holds after it emptied the field.
SendEmptied(c) ==
  /\ GuiGoes(c, "send", "clear")
  /\ \E rc \in BOOLEAN : HandOver(c, Blank, rc)
  /\ UNCHANGED <<history, text, enabled>>

\* OnSendCommand() does not send again what it sent last.
SendOnceOnly(c) ==
  /\ GuiGoes(c, "send", "clear")
  /\ IF sent[c] # <<>> /\ sent[c][Len(sent[c])].text = text[c]
       THEN UNCHANGED <<vars, sent>>
       ELSE \E rc \in BOOLEAN : HandOver(c, text[c], rc)
  /\ UNCHANGED <<history, text, enabled>>

-----------------------------------------------------------------------------
(* OnInit() and, inside presenter_->Initialise(), the channel's own.       *)

\* ChatterPresenter(): the presenter becomes the channel's handler.
ConstructPresenter(c) ==
  /\ GuiGoes(c, "presenter", "view")
  /\ SetCallbackHandler(c)
  /\ UNCHANGED <<history, text, enabled, sent>>

\* wxChatterView(): hands itself to the presenter.
ConstructView(c) ==
  /\ GuiGoes(c, "view", "initialise")
  /\ UNCHANGED <<vars, history, text, enabled, sent>>

OpenChannel(c) ==
  /\ GuiGoes(c, "initialise", "opening")
  /\ Initialise(c)
  /\ UNCHANGED <<history, text, enabled, sent>>

\* Show() and SetStatus(), whatever Initialise() returned.
ShowView(c) ==
  /\ GuiGoes(c, "opening", "loop")
  /\ owner[c] = "idle"
  /\ UNCHANGED <<vars, history, text, enabled, sent>>

-----------------------------------------------------------------------------
(* The event loop: the user types, presses the button or closes the window *)
(* whenever the GUI thread waits for an event.                             *)

InEventLoop(c) == gui[c] = "loop" /\ owner[c] = "idle"

Type(c, t) ==
  /\ InEventLoop(c)
  /\ text' = [text EXCEPT ![c] = t]
  /\ UNCHANGED <<vars, gui, history, enabled, sent>>

\* GetMessageLength() > 0
CanSend(c) == text[c] # Blank

\* OnButtonSendUpdateUI(): comes when wx is idle, not before every press.
UpdateUI(c) ==
  /\ InEventLoop(c)
  /\ enabled' = [enabled EXCEPT ![c] = CanSend(c)]
  /\ UNCHANGED <<vars, gui, history, text, sent>>

\* OnSendCommand(): the message is shown ...
PressSend(c) ==
  /\ InEventLoop(c)
  /\ enabled[c]
  /\ Cardinality(Said(c)) < MaxSaid
  /\ AppendToChatHistory(c, Line("me", text[c], Size[text[c]]))
  /\ gui' = [gui EXCEPT ![c] = "send"]
  /\ UNCHANGED <<vars, text, enabled, sent>>

\* ... then sent, though nobody learns whether it was ...
Send(c) ==
  /\ GuiGoes(c, "send", "clear")
  /\ \E rc \in BOOLEAN : HandOver(c, text[c], rc)
  /\ UNCHANGED <<history, text, enabled>>

\* ... and the field emptied.
Clear(c) ==
  /\ GuiGoes(c, "clear", "loop")
  /\ owner[c] = "idle"
  /\ text' = [text EXCEPT ![c] = Blank]
  /\ UNCHANGED <<vars, history, enabled, sent>>

\* wx deletes the frame; nobody tells the presenter or the channel.
CloseWindow(c) ==
  /\ InEventLoop(c)
  /\ gui' = [gui EXCEPT ![c] = "closed"]
  /\ UNCHANGED <<vars, history, text, enabled, sent>>

\* ~MywxApp(): presenter_ goes first, then channel_.
DestroyApp(c) ==
  /\ GuiGoes(c, "closed", "exit")
  /\ Destroy(c)
  /\ UNCHANGED <<history, text, enabled, sent>>

-----------------------------------------------------------------------------
(* The worker thread.                                                      *)

\* What OnMessageReceived() on the worker thread can come to: with a view what
\* AppendText() makes of it, without one a use of a deleted object.
Outcomes(c) ==
  IF handler[c] /\ HasView(c) THEN AppendOutcomes ELSE {"lost", "fault"}

\* The handler is called, and the line is shown, lost, or the process faults.
OnMessageReceived(c) ==
  /\ Callback(c)
  /\ \/ /\ "shown" \in Outcomes(c) /\ owner' = owner
        /\ LET t == arrived[c][taken[c]] IN
             AppendToChatHistory(c, Line("peer", t, ReceivedSize(t)))
     \/ "lost" \in Outcomes(c) /\ owner' = owner /\ UNCHANGED history
     \/ "fault" \in Outcomes(c) /\ owner' # owner /\ UNCHANGED history
  /\ UNCHANGED <<gui, text, enabled, sent>>

WorkerTurn(c) ==
  /\ owner[c] \notin Crashes
  /\ \/ (TestStop(c) \/ Receive(c) \/ CountMessage(c)) /\ UNCHANGED windowVars
     \/ OnMessageReceived(c)

-----------------------------------------------------------------------------
\* What the GUI thread does without waiting for the user.
GuiTurn(c) ==
  \/ ConstructPresenter(c)
  \/ ConstructView(c)
  \/ OpenChannel(c)
  \/ OwnerStep(c) /\ UNCHANGED windowVars
  \/ ShowView(c)
  \/ Send(c)
  \/ Clear(c)
  \/ DestroyApp(c)

UserTurn(c) == (\E t \in Texts : Type(c, t)) \/ PressSend(c) \/ CloseWindow(c)

ChatterNext ==
  \E c \in Channels :
    \/ GuiTurn(c) \/ UserTurn(c) \/ UpdateUI(c) \/ WorkerTurn(c)
    \/ Arrival(c) /\ UNCHANGED windowVars

ChatterSpec == ChatterInit /\ [][ChatterNext]_chatterVars

\* Both threads run when they can; user, idle events and network promise nothing.
ChatterFairness ==
  \A c \in Channels : WF_chatterVars(GuiTurn(c)) /\ WF_chatterVars(WorkerTurn(c))

FairChatterSpec == ChatterSpec /\ ChatterFairness
-----------------------------------------------------------------------------
(* What the application promises to its user.                              *)

Closed(c) == gui[c] \in {"closed", "exit"}

\* Every behaviour of the application is one of the conversations its users may
\* rely on: what a window shows as heard was shown as said before in a window
\* that sends to it, however the two threads and the datagrams interleave.
Talk == INSTANCE Conversation WITH
  Peers <- Channels,
  Reaches <- {e \in Channels \X Channels : PeerAddr[e[1]] = MyAddr[e[2]]},
  closed <- {c \in Channels : Closed(c)}
IsConversation == Talk!Spec

\* The lines said whose message was handed to the channel: all but the one
\* that is between AppendToChatHistory() and SendMessage().
Uttered(c) ==
  {n \in Said(c) : gui[c] = "send" => \E m \in Said(c) : m > n}

\* Each call of SendMessage() has its line, every line uttered is one of theirs,
\* and the lines are in the order of the calls: a message said twice is tried
\* twice.
SaysWhatItTries(c) ==
  \E at \in [1..Len(sent[c]) -> Uttered(c)] :
    /\ \A n \in Uttered(c) : \E i \in 1..Len(sent[c]) : at[i] = n
    /\ \A i, j \in 1..Len(sent[c]) : i < j => at[i] < at[j]
    /\ \A i \in 1..Len(sent[c]) : history[c][at[i]].text = sent[c][i].text

\* What c's tries put on the wire: those that sendto() took.
Taken(c) == {sent[c][i].text : i \in {n \in 1..Len(sent[c]) : sent[c][n].rc}}

\* OnSendCommand() tries to send what it shows, each line once and in order, and
\* what was sent to an address is what sendto() took of the tries made for it.  A
\* line whose sendto() failed was never sent: it is not tried again, it stays
\* shown as said, and nothing else goes out in its place.
SaidIsTriedOnce ==
  /\ \A c \in Channels : SaysWhatItTries(c)
  /\ \A a \in Addrs :
       {d.text : d \in {e \in wire : e.to = a}} =
         UNION {Taken(c) : c \in {p \in Channels : PeerAddr[p] = a}}

\* The messages the worker is done with.
Passed(c) == Accepted(c) \ InHand(c)

\* Each of them has its line, every line heard is one of theirs, and the lines
\* are in the order of arrival.
ShowsWhatArrived(c) ==
  \E at \in [Passed(c) -> Heard(c)] :
    /\ \A n \in Heard(c) : \E i \in Passed(c) : at[i] = n
    /\ \A i, j \in Passed(c) : i < j => at[i] < at[j]
    /\ \A i \in Passed(c) :
         history[c][at[i]] = Line("peer", arrived[c][i], ReceivedSize(arrived[c][i]))

\* While the window is open and the toolkit keeps up, the chat history shows
\* every message that was received, once and in the order of arrival: no one can
\* arrive between the start of the worker and the presenter being ready.
HeardIsWhatArrived ==
  AppendOutcomes = {"shown"} => \A c \in Channels : HasView(c) => ShowsWhatArrived(c)

\* The application only ever crashes by the worker outliving the view: never
\* before the window is closed, even if sockets fail or the button is stale.
CrashesOnlyWhenClosed ==
  "fault" \notin AppendOutcomes =>
    \A c \in Channels : owner[c] \in Crashes => Closed(c)

\* Closing the window ends the process, if only by a crash: the worker leaves
\* its loop wherever it was, a call of the deleted presenter included.
WindowCloses ==
  \A c \in Channels : gui[c] = "closed" ~> owner[c] \in {"gone"} \cup Crashes

\* ChatterTests/main.cpp:207-209: a message appears in the chat history when it
\* is received, unless the window is closed first.
QueuedIsShown ==
  \A c \in Channels, i \in 1..MaxArrivals :
    Len(arrived[c]) >= i ~> Cardinality(Heard(c)) >= i \/ Closed(c)
=============================================================================
