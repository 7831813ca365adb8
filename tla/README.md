# Chatter and the string calculator: TLA+ models, checks and proofs

The repository holds two C++ programs written test first:

* **Chatter** (`src/Chatter/Chatter`), a peer-to-peer chat over UDP with a wxWidgets
  window. Two threads per process, an unreliable network in between.
* **The string calculator kata** (`src/string_calculator_kata/src/string_calculator_kata.cc`),
  a sequential program that adds up the numbers of a line.

It also carries gmock 1.7.0 and gtest (`src/Chatter/packages/gmock.1.7.0/lib/native`), with which
the tests of Chatter are written; the part of it that has state and threads of its own is the
engine that matches calls with expectations.

This directory models the whole of both programs but for what "Not modelled" lists, and that
engine; it checks the models with TLC and proves the properties that matter most with TLAPS.
Paths below are relative to `src/Chatter/Chatter` unless they say otherwise, "kata" is the `.cc`
file, and `spec-builders` stands for `gmock-spec-builders.h` and `.cc`.

## Inventory

| Component | State | Operations | Interacts with |
|---|---|---|---|
| `UdpSocket`, `transport.h:77-211` | `sockfd`, `endpoint`; in the kernel: the binding and the receive buffer | constructor, `Bind`, `SendTo`, `RecvFrom`, `IsOpen`, destructor | kernel and network |
| `UdpChatChannel`, `Chatter.h:66-181` | two sockets, the worker thread, `stopWorker_`, `callbackHandler_`, `received_message_count_` | `Initialise`, `SendMessage`, `SetCallbackHandler`, `ReceiveLoop` on the worker, destructor | owns the sockets; calls the handler on its worker thread |
| `ChatterPresenter`, `Chatter.h:185-233` | channel, view | `SetView`, `Initialise`, `OnSendCommand`, `CanSend`, `OnMessageReceived` | called by the view (GUI thread) and by the channel (worker thread) |
| `wxChatterView`, `MywxApp`, `wxChatterApp.cpp` | text field, chat history, send button; owners of presenter and channel | `OnInit`, the event handlers, `AppendToChatHistory`, destruction | wxWidgets deletes the view, the application object deletes the rest |
| `ExtractIpAndPort`, `Chatter.h:19-26` | none | one call | `Tokeniser`, `atoi` |
| `Tokeniser`, `Tokeniser.h` (a copy in kata:10-38) | string, delimiters, two positions, a flag | constructor, `HasNext`, `NextToken` | used by `ExtractIpAndPort` and `Add` |
| `Slice`, `ToNumber`, `Add`, kata:42-86 | locals of one call | one call | `Tokeniser`, `atoi`, throws `range_error` |
| `scalc` and its user interface, kata:89-130 | `input_`, standard input | the read-evaluate loop | `Add`, `getline` |
| gmock's expectations, `spec-builders`, `gmock-cardinalities.cc` | per mock function its expectations and default actions; per expectation its bounds, counter, prerequisites and whether it is retired; the global mutex | `EXPECT_CALL` and its clauses, `ON_CALL`, a call, verification, the destructor of a mock | the test body; actions and destructors of actions call back into it |

What is hard, and what correct means there:

* *The channel* has its owner's calls and the worker interleave at every access to shared
  state, over a network that loses, doubles and reorders. Correct: what arrives is counted
  exactly, reaches the handler at most once and is never dropped once a handler is there;
  the destructor returns and leaves nobody behind who touches the object; a second
  `Initialise()` harms nothing; a message in the buffer is handled.
* *The application* uses objects of three lifetimes from two threads, without a lock. Correct:
  it tries to send each line it shows as said, once and in order (that `sendto()` may refuse one
  nobody learns); what it shows as heard was said by a peer; it is ready for messages before the
  first can arrive; it does not crash while the window is open, and closing the window ends the
  process.
* *The Tokeniser* signals its end by `npos + 1` wrapping around. Correct: nothing is skipped,
  nothing cut twice, and it comes to an end.
* *The conversions* pass numbers through `long`, `int` and `unsigned short`. Correct: the port
  and the sum are what was written, within stated limits.
* *The expectations* form a graph by `InSequence()` and `After()`; the searches along it stop
  early, relying on facts nothing in the code checks. Actions and the destructors of deleted
  actions run code of the test, which calls mocks or destroys them, so the mutex is released
  there. Correct: calls come in the order asked for, the test is told exactly of what was called
  too often or not often enough, and nobody waits for ever.
* *The loop* stops on an empty string, which `getline()` produces in more than one way, and on
  an exception nobody catches. Correct: every line is answered once and in order.

`PROJECT.json` lists each hazard with its line and the properties that would catch it.

## The modules

| Module | Models | Builds on |
|---|---|---|
| `UdpSocket` | the socket wrapper, kernel and network | |
| `UdpChatChannel` | the channel and its worker thread | `UdpSocket`; implements `Inbox` |
| `Inbox` | the abstract specification of a channel: what its client sees of it | |
| `Conversation` | the abstract specification of the application: users say, hear and close | |
| `Chatter` | presenter, view, application object and event loop | `UdpChatChannel`; implements `Conversation` |
| `Tokeniser` | the tokeniser | |
| `Atoi` | `atoi()` with the widths of `long` and `int` | |
| `Endpoint` | `ExtractIpAndPort()` | `Tokeniser`, `Atoi` |
| `StringCalculator` | one call of `Add()` | `Tokeniser`, `Atoi` |
| `Scalc` | the loop of `scalc()` on the console | |
| `Expectations` | gmock's expectations, calls, verification and mutex | |
| `MCChannel`, `MCChatter`, `MCEndpoint`, `MCCalculator`, `MCScalc`, `MCExpectations` | instances for TLC | |
| `UdpChatChannelProofs`, `ChatterProofs`, `TokeniserProofs`, `EndpointProofs`, `CalculatorProofs`, `ScalcProofs`, `ExpectationsProofs` | theorems | |
| `AtoiProofs` | sums, remainders and what `atoi()` returns, as lemmas | `Atoi` |

An operator whose comment starts with "A bug" is no part of a specification: it is an
operation as a plausible mistake would have it, kept to show that a property notices
(`PROJECT.json`, "mutants").

### `UdpSocket` and `UdpChatChannel`

A channel is a process of its own with an address to listen on and one to send to, as
`run_two_chatters.sh` starts them. `send` and `recv` are the two `unique_ptr<UdpSocket>` with
what the kernel knows of them: null, invalid (`socket()` failed), open, bound. `wire` is the
*set* of datagrams `sendto()` took; `Deliver` puts one of them into the buffer of the socket bound
to its address. One never delivered is lost, one delivered twice is doubled, and no order is
kept. `arrived[c]` is all the kernel queued and `taken[c]` how much `recvfrom()` returned, so
that messages are named by their position and a property can speak of each.

`owner` and `worker` are program counters. A call of the owner that goes through several
accesses to shared state takes several actions (`Initialise`, `BindReceiver`, `StartWorker`;
`Destroy`, `Join`), and the worker's loop is one action per access: the test of `stopWorker_`,
`ReceiveMessage()`, the increment, the test and call of the handler. The flags are plain
variables shared by two threads, formally a data race; between two accesses the loop makes
system calls the compiler cannot see through, so each turn reads memory, and the model has an
access return the current value.

Choices that a reader of the code may ask about:

* `SO_REUSEADDR` is passed with a length of one byte (`transport.h:101-102`), which Linux
  refuses: an address stays exclusive, and `Bind` fails while another socket holds it.
* `Initialise()` retries `Bind()` for ever. A failed attempt changes nothing and is not an
  action; a bind that succeeds while `getsockname()` fails leaves the socket bound and the
  loop without an end, which is a disjunct of `BindReceiver`.
* `sendto()` may fail, on an open socket too (`FailingCalls`), and then nothing is sent. `SendTo`
  returns that as `rc`, as the code does (`transport.h:158-167`); `SendMessage` drops it, as the code
  does (`Chatter.h:136`).
* A datagram longer than the buffer is cut on POSIX and an error on Winsock
  (`OversizeFails`). Empty datagrams, time-outs and errors all come back as the empty string.
* The process can die: `std::terminate()` when a joinable thread is replaced, a null socket
  dereferenced, a freed socket used, a handler that faults. `Crash` then closes its sockets.

`Inbox` is what a client of a channel may rely on, without sockets and threads: messages are
read in the order they were queued, each readable one is counted and then passed to the handler
if there is one, the next is not counted before, none is told of twice, and after the end nothing
happens. `Box` in `UdpChatChannel` instantiates it: the queue is `arrived`; a message is read once
the worker has taken and counted it, and pending while the worker is about to call the handler.
What was queued and not read may be lost, as `Initialise()` does when it replaces the socket.
`IsInbox` is its specification.

### `Chatter` and `Conversation`

`gui` is the program counter of the GUI thread through `OnInit()`, the event loop,
`OnSendCommand()` and the end of the application; the channel's owner is that thread, so the
module extends `UdpChatChannel` and every action that calls the channel conjoins the channel's
action. `history` is the chat history, `text` the text field, `enabled` the state of the button
as the last update event left it: the button can be pressed when the field has been emptied
since. `sent` is a history variable: the calls of `SendMessage()` in order, each with whether
`sendto()` took it, so that a message said twice and sent once can be told from one sent twice,
which `wire`, being a set, cannot. The worker's `OnMessageReceived()` is `Callback` plus what the
toolkit makes of a call from the wrong thread: on Windows it is forwarded and shown, elsewhere it is
a data race on the control with the outcomes shown, lost and fault (`AppendOutcomes`).
When the window is closed
wxWidgets deletes the view, and the presenter goes before the channel has joined its worker
(members are destroyed in reverse order, `wxChatterApp.cpp:145-151`): a message that arrives
then is a use of a deleted object.

A member of `Texts` stands for a message with its newline, and `Blank` for the newline alone;
the second newline and the wording added for display are layout and left out. `OnInit()` with
too few arguments only prints a message and is left out.

`Conversation` is what its users may rely on: a line is said, or heard after a peer whose
window sends here said it, perhaps cut, lost, doubled or out of order; a closed window does not
change. `Talk` in `Chatter` instantiates it with the same `history`, the windows closed, and
the pairs of channels whose addresses fit; `IsConversation` is its specification.

### `Tokeniser`, `Atoi`, `Endpoint`, `StringCalculator`, `Scalc`

A token is the pair of positions it was cut from, so that "complete and without overlap" can be
stated. `NPos` is `size_t`'s largest value and `Wrap` its arithmetic. `Endpoint` and
`StringCalculator` extend `Tokeniser` and conjoin `NextToken`: every behaviour of theirs is one
of `Tokeniser`, and what is proved there holds here. The second copy of the tokeniser (kata:10-38)
assigns `delim_pos` before `has_next_` instead of after; nothing lies between, and one model
stands for both.

`atoi()` is external: it skips blanks, reads a sign and digits, stops at the ends of `long` and
wraps around to `int`, as glibc does; `Saturates` is the other library the chat is built with.
`StringCalculator` states its properties with `Fields` and `Total`, definitions that find the
numbers of a string by quantifiers and know neither a tokeniser nor a width.

`Scalc` abstracts a line to what the loop tells apart: empty, refused by `Add()`, or answered.
`Getline` is the stream's behaviour: at the end of the input the string is emptied once, but a
stream that already met the end while reading an unterminated last line leaves the string as it
was. `typed` and `displayed` are histories.

### `Expectations`

The engine behind `EXPECT_CALL()` and `ON_CALL()`. An expectation is its position in `exps`, so
"the newest one that matches" is the largest id, and a deleted one keeps its record for the
properties to speak of (`cleared` holds the functions that lost theirs). `before` are its
immediate prerequisites, `count` its `call_count_`, `min` and `max` its cardinality, `once` and
`repeated` its actions. A matcher is the set of arguments it accepts.

A test is a script, a member of `Tests`: first its statements are carried out one by one (`Expect`,
`With`, `Times`, `InSequence`, ..., `OnCall`), with the failures of clauses out of place and the
cardinality inferred from the actions, then its threads call. Each thread has a stack of the calls,
verifications and destructions it is in. What may call next is the test itself, when the stack is
empty, or code of the user on top of it (`users`): an action that is performed, or the destructor
of an action while expectations are deleted. This is how an action calls a mock function, verifies
a mock or destroys it, its own included.

The search and the counting of a call (`UntypedFindMatchingExpectation`) are one action, for the
code holds the global mutex from one end to the other; the action of the call and its `Report` come
after the mutex is released. Verification takes the mutex (`Lock`), forgets the expectations of one
function after the other (`VerifyAndClearExpectationsLocked`) and releases the mutex while they are
deleted (`Relock` takes it again). `Reach(e, through)` stands for the three recursions along the
prerequisites: the set they visit when they go on from the members of `through` only, so that
`FindUnsatisfiedPrerequisites` and `RetireAllPreRequisites` stop where the code stops. The cycle
check of `Sequence::AddExpectation()` is in `AddExpectation`.

`MayCall` and `MayEnd` are what a correct test does: it calls no mock that is gone, and does not
verify or destroy one that another thread is in. Without them the user's race, not gmock's, is found.

## The runs

| Run | Question | Bounds |
|---|---|---|
| `channel_safety` | Do two channels with failing `socket()`, `getsockname()` and `sendto()`, lost, doubled, reordered and oversized datagrams keep the count exact, hand over at most once, drop nothing, stop within a turn of the loop, and leave a destroyed channel alone; is every behaviour one of the inbox? | 2 channels, 2 texts, 2 arrivals each |
| `channel_liveness` | Two channels on one address: does the destructor return, is a queued message handled, is the address handed over, is a second `Initialise()` harmless? | 2 channels, 2 texts (empty and too long), 2 arrivals each |
| `chatter_conversation` | Is every behaviour a conversation, and can messages to a window that is still starting, a stale button or a failing socket crash it? | 2 windows, 1 message said and 1 arrival each, lines shown or lost by the toolkit, failing `socket()`, `getsockname()` and `sendto()` |
| `chatter_window` | Is each line said tried once, in order, and does nothing but the tries that succeed go out; does the history show what arrived, in order, and all of it in the end; does closing end the process? | 1 window talking to itself, 3 texts, 3 arrivals, 2 said, failing `socket()` and `sendto()` |
| `endpoint` | Is every argument split and its port read? | all strings to length 5 over 4 characters; port 3 bits, `int` 5, `long` 8 |
| `calculator` | Is every line cut completely and added exactly, for every header, and can the sum overflow? | all bodies to length 5 without and 4 behind one of 7 headers; `int` 7 bits, `long` 10, limit 11 |
| `scalc` | Does the loop answer every script in order and stop where it should? | all scripts of 3 lines, 3 kinds of line and the empty one |
| `expectations` | Are calls handled in the order asked for, is the test told exactly what it must be told, is the mutex held only to clear a function, and does every call return, whatever actions and destructors call? | 19 tests of up to 3 expectations, 2 mocks of a function each, 2 arguments, 2 threads, 3 calls, verifications or destructions |
| `channel_half_open` | violated: is an initialised channel open? | as `channel_safety`, 1 text |
| `channel_counted` | violated: is a counted message handled? | as `channel_safety`, 1 text |
| `calculator_bigger` | violated: are numbers beyond the limit ignored? | as `calculator`, one character shorter |
| `mock_deleted` | violated: is the report of a call made from expectations that still exist? | as `expectations` |

Bounds and why they are enough. `MaxArrivals` bounds the datagrams the kernel queues for a channel,
and `MaxSaid` the messages said; the worker handles one message at a time and keeps nothing of the
one before but the count, so two arrivals show one in the worker's hands and one in the buffer, and
a third adds a message between two others. Two messages said in one window are the same or not,
and `sendto()` takes both, one or none of them. Two channels are the program's whole deployment. Texts
differ only by what the code tells apart: empty, fitting, too long. In the sequential modules the
widths are scaled so that numbers of three digits cross every limit: in `calculator` 11 is the last
that counts, 13 is ignored, 111 turns negative, 131 turns into 3 and 1111 passes the end of `long`.
`MaxStarted` bounds the calls, verifications and destructions of a test together: three are enough
to call a row of three expectations through or exceed the first, for a call inside an action inside
a call, and for a thread that verifies while another calls; with four the run finds nothing new.
`IntMax` only stands for "any number" in `AtLeast()` and is never reached. `MaxDisplayed` in `scalc`
stops only the endless answers to an unterminated last line. No symmetry is used. `CHECK_DEADLOCK
FALSE` is said because the programs stop: channels are destroyed, windows closed, calls return; a
thread that waits for ever is what the liveness properties exclude.

Fairness. A thread that can run does: weak fairness of the steps the owner takes inside a call
(`OwnerStep`, `GuiTurn`), of the worker's loop (`WorkerStep`, `WorkerTurn`), of the sequential loop
of `Scalc`, and of the engine of the expectations in each thread (`Engine(t)`), whose `Report` and
`Relock` say that code of the user, once called, returns. These steps never wait for each other but
in `Join`, whose enabling is stable, so weak fairness is what a preemptive scheduler gives, and at
the global mutex of the expectations, where a thread can be overtaken no more than a bounded test
has calls; `CallsReturn` therefore says that no thread is left holding or waiting for the mutex, not
that the mutex is fair. Nothing is assumed of users, idle events or the network: no message needs to
be sent or delivered. `channel_liveness` has `socket()` succeed, without which `Initialise()`
retries for ever.

## The proofs

All theorems hold for any constants that satisfy the modules' assumptions: any number of
channels, any addresses (shared ones included), texts, buffer size and faults; any strings,
delimiters and width of `size_t`; any lines and scripts.

* `UdpChatChannelProofs`. `TypeCorrect`. `HandledOnceAlways`: `Custody` is inductive with the
  type invariant, since the message in the worker's hands is always the last one taken, and
  positions below never change (`ArrivedIsStable`, `TakenStep`). `CountIsExactAlways`: `Counted`
  relates a cardinality to the counter; a step that takes a message adds exactly one element or
  none (`AcceptedStep`). `NothingDroppedAlways` is an action property from the same facts.
  `QuietWhenGoneAlways` needs that a destroyed channel's worker is "none" or "done" and its
  sockets null. `StopsWithinATurnAlways` is the safety half of `DestructorReturns`: once `stopWorker_`
  is set the owner is in the destructor or past it and starts no worker (`Stopping`), and every step
  of the worker brings it nearer to the test. `ReinitialiseIsSafeAlways` needs the connection of the owner's position, the
  worker's existence and the sockets: while `socket()` works, a channel with a worker is open.
  `ChannelIsInbox` is the refinement: each step of the owner and of the worker enqueues, loses,
  skips, counts, passes, ends or stutters; the end needs that a joined worker holds no message.
* `ChatterProofs`. `ChatterIsClient`: every step of the application is one of the channel's or
  leaves it alone, so all of the above carries over (`ChatterHandlesOnce` states one instance).
  `ChatterTypeCorrect`. `CrashesOnlyWhenClosedAlways` from `Stage`, which ties the GUI thread's
  position to what the channel has by then: no worker before the view exists, a sending socket
  before the event loop. `ChatterIsConversation`, the refinement: along `WireShown` (what is on
  the wire is shown as said by a window that sends there), `ArrivedSent` (what arrived was on
  the wire) and `SendingShown` (what is about to be sent is shown already), every step says,
  hears, closes or stutters. `SaidIsTriedOnceAlways` has two halves. The tries match the lines uttered
  one to one and in order: the line that is next is the last one said and has the text of the field
  (`InSending`), `PressSend` says a line that is not uttered yet, and `Send` adds it and its try at the
  ends of both (`UtteredStep`, `SaysOneMore`). And what is on the wire toward an address is what
  `sendto()` took of the tries made there (`WireIsTaken`); neither needs a socket to work.
  `HeardIsWhatArrivedAlways`: the one-to-one
  match of messages passed on with lines heard is carried along every step (`ShowsStep`), and a
  message passed on extends it at the end (`ShowsOneMore`), since both ends only grow.
* `TokeniserProofs`. `TypeCorrect`, `TokensTileAlways`, `NothingLeftAlways`, `AdvancesAlways` from
  the invariant `IInv`, which adds that `offset` is behind the delimiter that ended the last token
  (`Aligned`); `Cut` says what one call cuts, `WrapFacts` and `FindFirstOfFacts` that only
  `npos + 1` wraps around and that the first hit is found.
* `AtoiProofs`. What the next two need of arithmetic. Induction over the natural numbers is stated for
  a set of numbers (`NumbersByInduction`, from the fact that a set without a least member is empty),
  which the provers can instantiate; with it the fold over a finite set that the community modules
  define exists, is unique and does not depend on the order (`FoldExists`, `FoldIsUnique`), so that
  a sum over a set grows by one summand at a time and is bounded (`OneSum`, `SumWithin`). `Remainder`
  and `SameRemainder` say that numbers a multiple of `m` apart have one remainder. `AtoiIsInt`: what
  `atoi()` returns is an `int` for every string, which is therefore no assumption of the modules
  that call it; `AtoiIsNumber`: it is the number written, as long as that fits an `int`.
* `EndpointProofs`. `ExtractIsCaller`: the tokeniser is used as specified. `EndpointTypeCorrect`.
  `IpIsReadAlways` and `PortIsReadAlways` from the invariant `Read`, which says step by step what was
  cut so far: the address ends at the first colon and the port at the second (`NextColonIs`,
  `TokenIsRead`). What is left is the conversion: the wrap-around to `int` changes a number by a
  multiple of the width of `unsigned short` (`WrappedRemainder`), so the narrowing that follows gives
  the remainder of the number that was written (`PortOfNumber`).
* `CalculatorProofs`. `AddIsCaller`; `AddCutsAtDelimiters`, `AddLeavesNothing`: the sum runs over all of
  the data. `CalcTypeCorrect` needs that what is added is an `int`; `SumIsBoundedAlways` from the same
  step, for each token adds between 0 and `MaxNumber`. `RefusesNegativesAlways`: the tokens are exactly
  the fields up to the current position (`FieldsCut`), and the call goes on past one that is not
  negative and ends at the first that is (`StopsAtNegative`). `SumIsExactAlways`: the sum so far is
  that of the fields cut so far (`SumSoFar`), of which a token is one more (`TotalAddsUp`), and when
  nothing is left these are all. `CustomDelimiterAlways`: behind a header `Slice` leaves the body and
  what was announced (`SliceOfHeader`), of any other string all of it (`SliceOfData`), and writing a
  comma for each announced character moves no field and changes the worth of none (`SameFields`,
  `SameNumbers`, `SameTotal`).
* `ScalcProofs`. `TypeCorrect`, `AnswersInOrderAlways`, `StopsWhereItShouldAlways` from `IInv`: the
  lines waiting are the last ones typed (`Waiting`), and those read are answered but for the one
  in hand (`Position`).
* `ExpectationsProofs`, for every test, any functions, mocks and number of threads, and any
  prerequisites that point backwards (which `TypeCorrect` proves). `InOrder` is not inductive: that
  nothing is called again which comes before a called expectation holds because it was retired. `IInv`
  adds that the counters count (`Counted`), that what is retired had been called as often as expected
  (`RetiredMet`), that everything before a called expectation is retired (`Sequenced`), and that the
  retired ones are closed under prerequisites (`RetiredBehind`), without which
  `RetireAllPreRequisites()`, which stops at a retired one, would miss some. The recursions are handled
  by two facts on `Reach`: it is closed, and the least such set (`ReachIsClosed`, `ReachIsLeast`).
  `RetiredBehindAlways`, `ExplainedAlways` and `InOrderAlways` follow. `VerdictIsRight` counts calls that
  were handled, and what a test was told is spread over the failures and the stacks of the threads.
  `VInv` has the counters in the place of the calls: `Told` says that a call is told of something only
  between its action and its report, `Judged` that an expectation was told of, or is about to be, as
  called too often exactly when its counter says so, and as called too rarely exactly when it was
  cleared in that state; that a statement of the test never finds one cleared is `Settled`. A call that is
  counted after its expectation was cleared cannot be: the search finds none. `VerdictInductive`,
  `VerdictIsRightAlways`, and with it all of `TypeCorrect`, stacks and failures included.
  `HeldOnlyToClearAlways` needs to know what is below the top of a stack: a thread comes back only to
  frames that let code of the user run, and these never have the mutex (`Holder`), so a `Pop` cannot
  find it held, nor a nested call take it twice.

Only model-checked: the liveness properties (`DestructorReturns`, `QueuedIsHandled`,
`AddressHandedOver`, `WindowCloses`, `QueuedIsShown`, `SessionEnds`, `CallsReturn`), since fairness and
`ENABLED` are beyond the prover. Every invariant, action property and refinement of a passing run
is a theorem.

## What the checks found

* `channel_half_open`. `Initialise()` looks at neither socket it creates (`Chatter.h:115-116`). With
  `socket()` failing for the sending one it returns true, and `IsOpen()` is false; a second
  `Initialise()`, which `IsOpen()` then allows, replaces a running thread.
* `channel_counted`. The count is raised before the handler is called (`Chatter.h:161-164`), and the
  test that waits for the count (`ChatterTests/main.cpp:93-98`) can go on in between.
* `calculator_bigger`. The limit of 1000 is applied to what `atoi()` has wrapped around (kata:64-68):
  4294967299 counts as 3.
* `mock_deleted`. The report of an excessive call reads file and line of its expectation after the
  default action ran (`gmock-spec-builders.cc:426`), although the comment above (407-408) says that
  is avoided, and it is for other calls: an `ON_CALL()` action that destroys or verifies the mock leaves
  a deleted expectation to read. The tests of Chatter use no such action.

Met on the way, and stated where a property depends on it: closing the window while messages arrive
may end in a crash (`CrashesOnlyWhenClosed` is the strongest that holds); an unterminated last line
is evaluated for ever (`SessionEnds`, `AnswersInOrder`); the sum of some two million numbers
overflows, and of fewer it cannot (`SumIsBounded`); a header names a set of characters, so that
`[***]` is no delimiter of three but two characters more and one of its own (kata:52), as
`CustomDelimiter` says; the port is silently taken modulo 2^16 (`PortIsRead`); a message whose
`sendto()` failed stays shown as said, though it was never sent and is not tried again
(`SaidIsTriedOnce`); and an empty message is sent when the button is pressed before the update
event that would disable it, which no property forbids.

## Not modelled

* The tests of Chatter and of the kata, as programs: what they claim is what the violation runs
  quote, and the mocks they use are objects of `Expectations`.
* gmock beyond its expectations: `Mock::VerifyAndClear()` (verification and the removal of the default
  actions, one after the other), `AllowLeak()` and the search for leaked mocks at exit, the counting of
  actions against `Times()`, which only prints a warning, and `DoDefault()`. The matchers are pure
  functions, taken as sets of arguments; the actions are code of the user, taken as whatever it may call.
* gtest and the rest of `packages`: by far most lines of the repository, and third-party code that
  neither program contains. They are templates generated for each number of parameters, printers,
  layers over operating systems, and a runner that is a loop over the registered tests; neither the
  chat nor the calculator depends on a property of theirs.
* `WSACleanup()` of `TransportService`, a static object that lets go of Winsock at the end of the
  process; a failing `WSAStartup()` is a failure of `Created`.
* `SetCallbackHandler(nullptr)`: no caller takes its handler back. With one that did, the test and the
  call of `callbackHandler_` (`Chatter.h:163-164`) would have to be two steps; as it is only ever set,
  they are one.
* Datagrams of strangers. The receiver ignores who sent a datagram, so anyone may speak to a window;
  the models are of a network of the modelled channels alone, and what they promise of the words heard
  (`IsConversation`) is promised of that network.
* `Times()` with a negative bound, which gmock reports as an error of the test and takes for 0
  (`gmock-cardinalities.cc:53-62`): to what follows it is the bound 0.
* Build files and launchers, which have no state; `ToString()` and all other output; and `main()` of the
  kata, which as compiled runs only the tests.

Of the two programs nothing else has a state or a decision that could go wrong, so the models of them
end here.

## Plan

The order was: the channel, whose threads are the heart of the program; the application on top,
with its abstract specification; the tokeniser; its two callers; the loop; the channel's
abstract specification; the expectations; then the proofs, of the two callers' arithmetic, of the
verdict and of the mutex last. What is left is what the prover cannot do: the liveness properties.
