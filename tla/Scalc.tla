------------------------------- MODULE Scalc --------------------------------
(***************************************************************************)
(* The loop scalc() of string_calculator_kata.cc on its console user       *)
(* interface: the first input is the argument of the program, the others   *)
(* are read by getline() until one of them is empty.  Add() is the subject *)
(* of StringCalculator: here it either answers a line or throws.           *)
(***************************************************************************)
EXTENDS Naturals, Sequences

CONSTANTS
  Lines,       \* lines that are not empty
  Throws,      \* those with a negative number
  Empty,       \* the empty line
  Scripts,     \* what may be waiting on standard input, line by line
  MaxDisplayed \* bound on the results displayed

ASSUME ScalcAssumption ==
  /\ Throws \subseteq Lines
  /\ Empty \notin Lines
  /\ Scripts \subseteq Seq(Lines \cup {Empty})
  /\ MaxDisplayed \in Nat

VARIABLES
  input,        \* input_ of the user interface
  stdin,        \* the lines not yet read
  unterminated, \* the last line of standard input has no newline
  eof,          \* the end of standard input was met: eofbit
  displayed,    \* the inputs whose results were displayed
  at,           \* where scalc() is: "test", "add", "next", "returned" or "aborted"
  typed         \* history: the argument and all lines of standard input

vars == <<input, stdin, unterminated, eof, displayed, at, typed>>

Init ==
  /\ input \in Lines \cup {Empty}
  /\ stdin \in Scripts
  /\ unterminated \in BOOLEAN
  /\ unterminated => stdin # <<>> /\ stdin[Len(stdin)] # Empty
  /\ eof = FALSE
  /\ displayed = <<>>
  /\ at = "test"
  /\ typed = <<input>> \o stdin

\* A bug: an empty line is evaluated like any other.
TestNever ==
  /\ at = "test"
  /\ at' = "add"
  /\ UNCHANGED <<input, stdin, unterminated, eof, displayed, typed>>

\* if (input == "") return;
Test ==
  /\ at = "test"
  /\ at' = IF input = Empty THEN "returned" ELSE "add"
  /\ UNCHANGED <<input, stdin, unterminated, eof, displayed, typed>>

\* A bug: the loop catches what Add() throws and goes on.
DisplaySkipping ==
  /\ at = "add"
  /\ Len(displayed) < MaxDisplayed
  /\ displayed' = IF input \in Throws THEN displayed ELSE Append(displayed, input)
  /\ at' = "next"
  /\ UNCHANGED <<input, stdin, unterminated, eof, typed>>

\* The result is displayed, and the prompt; nobody catches what Add() throws.
DisplayResult ==
  /\ at = "add"
  /\ \/ /\ input \notin Throws
        /\ Len(displayed) < MaxDisplayed
        /\ displayed' = Append(displayed, input)
        /\ at' = "next"
     \/ input \in Throws /\ at' = "aborted" /\ UNCHANGED displayed
  /\ UNCHANGED <<input, stdin, unterminated, eof, typed>>

\* A bug: getline() into another string, copied only if it is not empty.
GetlineNonEmpty ==
  \/ eof /\ UNCHANGED <<input, stdin, eof>>
  \/ ~eof /\ stdin = <<>> /\ eof' = TRUE /\ UNCHANGED <<input, stdin>>
  \/ /\ ~eof /\ stdin # <<>>
     /\ input' = IF Head(stdin) = Empty THEN input ELSE Head(stdin)
     /\ stdin' = Tail(stdin)
     /\ eof' = (unterminated /\ Len(stdin) = 1)

\* getline(cin, input_): at the end of the input the string is emptied, but
\* once eofbit is set it is left alone.
Getline ==
  \/ eof /\ UNCHANGED <<input, stdin, eof>>
  \/ ~eof /\ stdin = <<>> /\ input' = Empty /\ eof' = TRUE /\ UNCHANGED stdin
  \/ /\ ~eof /\ stdin # <<>>
     /\ input' = Head(stdin)
     /\ stdin' = Tail(stdin)
     /\ eof' = (unterminated /\ Len(stdin) = 1)

NextInput ==
  /\ at = "next"
  /\ Getline
  /\ at' = "test"
  /\ UNCHANGED <<unterminated, displayed, typed>>

Next == Test \/ DisplayResult \/ NextInput

Spec == Init /\ [][Next]_vars

\* A sequential program: it runs as long as it can.
FairSpec == Spec /\ WF_vars(Next)
-----------------------------------------------------------------------------
TypeOK ==
  /\ input \in Lines \cup {Empty}
  /\ stdin \in Seq(Lines \cup {Empty})
  /\ unterminated \in BOOLEAN
  /\ eof \in BOOLEAN
  /\ displayed \in Seq(Lines)
  /\ at \in {"test", "add", "next", "returned", "aborted"}
  /\ typed \in Seq(Lines \cup {Empty})

\* The results are those of the lines in the order they were typed, each once
\* and none left out; only an unterminated last line is answered over and over.
AnswersInOrder ==
  \A k \in 1..Len(displayed) :
    \/ k <= Len(typed) /\ displayed[k] = typed[k]
    \/ k > Len(typed) /\ unterminated /\ displayed[k] = typed[Len(typed)]

\* scalc() returns at the first empty line or at the end of the input and is
\* aborted at the first negative number, never before and never later.
StopsWhereItShould ==
  LET next == Len(displayed) + 1 IN
    /\ at = "returned" => next > Len(typed) \/ typed[next] = Empty
    /\ at = "aborted" => next <= Len(typed) /\ typed[next] \in Throws

\* The session comes to an end when the input does, provided that its last line
\* ends in a newline.
SessionEnds == ~unterminated ~> at \in {"returned", "aborted"}
=============================================================================
