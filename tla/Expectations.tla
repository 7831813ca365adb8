---------------------------- MODULE Expectations ----------------------------
(***************************************************************************)
(* The expectations of gmock 1.7.0, the library the tests of Chatter are   *)
(* written with: EXPECT_CALL() and its clauses, the search for the one     *)
(* that handles a call, sequences, verification, and the global mutex      *)
(* around all of it, which is released wherever the user's code may run:   *)
(* in the action of a call and in the destructors of deleted actions.      *)
(*                                                                         *)
(* An expectation is its position in exps, so ids grow in the order of     *)
(* the EXPECT_CALL()s.  Every thread has a stack of the calls it is in.    *)
(***************************************************************************)
EXTENDS Naturals, Sequences, FiniteSets

CONSTANTS
  Functions,        \* the mocked functions
  Mocks,            \* the mock objects
  Owner,            \* [Functions -> Mocks]
  Reaction,         \* [Mocks -> what an uninteresting call does]
  Args,             \* the arguments of a call
  Matchers,         \* the sets of arguments a matcher accepts
  IntMax,           \* the most of AtLeast()
  SequenceNames,    \* the Sequence objects
  Threads,
  Free,             \* nobody holds the mutex
  Tests,            \* what is stated before the first call: sequences of statements
  MaxStarted        \* bound on the calls, verifications and destructions begun

ASSUME ConstantsAssumption ==
  /\ Owner \in [Functions -> Mocks]
  /\ Reaction \in [Mocks -> {"allow", "warn", "fail"}]
  /\ Matchers \subseteq SUBSET Args
  /\ IntMax \in Nat \ {0}
  /\ Free \notin Threads
  /\ \A s \in Tests : Len(s) \in Nat
  /\ MaxStarted \in Nat

VARIABLES
  exps,      \* the expectations of the test, those deleted included
  last,      \* the last expectation of a Sequence, 0 if it has none
  implicit,  \* {what last is for a living InSequence}, {} if there is none
  onCall,    \* the functions with a default action
  test, pc,  \* the test, and which of its statements is next
  mutex,     \* the thread that holds g_gmock_mutex, or Free
  stack,     \* [Threads -> the calls it is in]
  cleared,   \* the functions whose expectations were deleted
  alive,     \* the mock objects not destroyed yet
  failures,  \* what the test was told
  handled,   \* the calls so far: the expectation that handled each, or 0
  started    \* how many calls, verifications and destructions were begun

setup == <<last, implicit, onCall, test, pc>>
engine == <<mutex, stack, cleared, alive, failures, handled, started>>
vars == <<exps, setup, engine>>

Ids == 1..Len(exps)
\* The order of the clauses, enum Clause.
Rank == [none |-> 0, With |-> 1, Times |-> 2, InSequence |-> 3, After |-> 4,
         WillOnce |-> 5, WillRepeatedly |-> 6, RetiresOnSaturation |-> 7]

Init ==
  /\ exps = <<>>
  /\ last = [s \in SequenceNames |-> 0]
  /\ implicit = {}
  /\ onCall = {}
  /\ test \in Tests
  /\ pc = 1
  /\ mutex = Free
  /\ stack = [t \in Threads |-> <<>>]
  /\ cleared = {}
  /\ alive = Mocks
  /\ failures = {}
  /\ handled = <<>>
  /\ started = 0
-----------------------------------------------------------------------------
(* Setting expectations.  The statements of a test come before its calls.  *)

Statement(name, x) ==
  /\ pc <= Len(test)
  /\ test[pc] = <<name, x>>
  /\ pc' = pc + 1
  /\ UNCHANGED <<test, mutex, stack, cleared, alive, handled, started>>

\* A bug: an expectation put into its sequence twice comes before itself.
AddExpectationAgain(before, n) == before \cap 1..n

\* The prerequisite Sequence::AddExpectation() gives the n-th expectation: the
\* one before, unless there is none or it is itself.
AddExpectation(before, n) == before \cap 1..(n - 1)

\* EXPECT_CALL(): expected once, and behind the last one of a living InSequence.
Expect(f, m) ==
  /\ Statement("EXPECT_CALL", <<f, m>>)
  /\ exps' = Append(exps,
       [fn |-> f, accepts |-> m, extra |-> Args, min |-> 1, max |-> 1,
        specified |-> FALSE, once |-> 0, repeated |-> FALSE, retires |-> FALSE,
        clause |-> 0, before |-> AddExpectation(implicit, Len(exps) + 1), count |-> 0, retired |-> FALSE])
  /\ implicit' = IF implicit = {} THEN {} ELSE {Len(exps) + 1}
  /\ UNCHANGED <<last, onCall, failures>>

Newest == exps[Len(exps)]

\* A clause makes the newest expectation e.  One out of place is a failure of
\* the test and applied all the same.
Clause(name, x, inPlace, e) ==
  /\ Statement(name, x)
  /\ exps # <<>>
  /\ exps' = [exps EXCEPT ![Len(exps)] = [e EXCEPT !.clause = Rank[name]]]
  /\ failures' = IF inPlace THEN failures ELSE failures \cup {<<"clause", Len(exps)>>}
  /\ UNCHANGED <<implicit, onCall>>

With(m) ==
  /\ Clause("With", m, Newest.clause < Rank.With, [Newest EXCEPT !.extra = m])
  /\ UNCHANGED last

\* The constructor of the cardinality lifts a most that is too small.
Between(e, least, most) ==
  [e EXCEPT !.min = least, !.max = IF most >= least THEN most ELSE least]

Times(least, most) ==
  /\ Clause("Times", <<least, most>>, Newest.clause < Rank.Times /\ least <= most,
            Between([Newest EXCEPT !.specified = TRUE], least, most))
  /\ UNCHANGED last

InSequence(s) ==
  /\ Clause("InSequence", s, Newest.clause <= Rank.InSequence,
            [Newest EXCEPT !.before = @ \cup AddExpectation({last[s]}, Len(exps))])
  /\ last' = [last EXCEPT ![s] = Len(exps)]

After(P) ==
  /\ P \subseteq 1..(Len(exps) - 1)
  /\ Clause("After", P, Newest.clause <= Rank.After, [Newest EXCEPT !.before = @ \cup P])
  /\ UNCHANGED last

\* Without Times() as many calls are expected as there are actions.
Infer(e, least, most) == IF e.specified THEN e ELSE Between(e, least, most)

WillOnce ==
  /\ LET n == Newest.once + 1 IN
       Clause("WillOnce", "", Newest.clause <= Rank.WillOnce,
              Infer([Newest EXCEPT !.once = n], n, n))
  /\ UNCHANGED last

WillRepeatedly ==
  /\ Clause("WillRepeatedly", "", Newest.clause < Rank.WillRepeatedly,
            Infer([Newest EXCEPT !.repeated = TRUE], Newest.once, IntMax))
  /\ UNCHANGED last

RetiresOnSaturation ==
  /\ Clause("RetiresOnSaturation", "", Newest.clause < Rank.RetiresOnSaturation,
            [Newest EXCEPT !.retires = TRUE])
  /\ UNCHANGED last

\* An InSequence object begins or ends; one inside another does nothing.
Scope ==
  /\ Statement("scope", "")
  /\ implicit' = IF implicit = {} THEN {0} ELSE {}
  /\ UNCHANGED <<exps, last, onCall, failures>>

\* ON_CALL() gives f a default action.
OnCall(f) ==
  /\ Statement("ON_CALL", f)
  /\ onCall' = onCall \cup {f}
  /\ UNCHANGED <<exps, last, implicit, failures>>

SetUp ==
  \/ \E f \in Functions : OnCall(f) \/ \E m \in Matchers : Expect(f, m)
  \/ \E m \in Matchers : With(m)
  \/ \E least, most \in 0..IntMax : Times(least, most)
  \/ \E s \in SequenceNames : InSequence(s)
  \/ \E P \in SUBSET Ids : After(P)
  \/ WillOnce \/ WillRepeatedly \/ RetiresOnSaturation
  \/ Scope
-----------------------------------------------------------------------------
(* The state of an expectation.                                            *)

\* A bug: one call too many is taken for the last.
IsSaturatedLate(e) == exps[e].count > exps[e].max

IsSatisfied(e) == exps[e].min <= exps[e].count /\ exps[e].count <= exps[e].max

IsSaturated(e) == exps[e].count >= exps[e].max

IsOverSaturated(e) == IsSaturated(e) /\ ~IsSatisfied(e)

\* What a recursion from e along the prerequisites visits, if it only goes on
\* from those in through.
Reach(e, through) ==
  {p \in Ids : \A S \in SUBSET Ids :
     /\ exps[e].before \subseteq S
     /\ \A q \in S \cap through : exps[q].before \subseteq S
     => p \in S}

AllPrerequisitesAreSatisfied(e) == \A p \in Reach(e, Ids) : IsSatisfied(p)

\* A bug: the search looks no further than the immediate prerequisites.
FindUnsatisfiedImmediate(e) == {p \in exps[e].before : ~IsSatisfied(p)}

\* What a failure message names; behind one that was called it looks no further.
FindUnsatisfiedPrerequisites(e) ==
  {p \in Reach(e, {q \in Ids : IsSatisfied(q) /\ exps[q].count = 0}) : ~IsSatisfied(p)}

\* A bug: only the immediate prerequisites are retired.
PrerequisitesImmediate(e) == exps[e].before

\* What RetireAllPreRequisites() retires; behind a retired one it stops.
Prerequisites(e) == Reach(e, {q \in Ids : ~exps[q].retired})

Matches(e, a) == a \in exps[e].accepts \cap exps[e].extra

\* A bug: prerequisites are not looked at.
ShouldHandleAnyOrder(e, a) == ~exps[e].retired /\ Matches(e, a)

ShouldHandleArguments(e, a) ==
  ~exps[e].retired /\ AllPrerequisitesAreSatisfied(e) /\ Matches(e, a)

Held(f) == IF f \in cleared THEN {} ELSE {e \in Ids : exps[e].fn = f}

Candidates(f, a) == {e \in Held(f) : ShouldHandleArguments(e, a)}

\* The expectations after e has handled a call.
Count(e) == [exps EXCEPT ![e].count = @ + 1]

Handle(e) ==
  [i \in Ids |->
     [Count(e)[i] EXCEPT !.retired =
        \/ @ \/ i \in Prerequisites(e)
        \/ i = e /\ exps[e].retires /\ exps[e].count + 1 >= exps[e].max]]

\* GetCurrentAction(): with neither an action left nor ON_CALL() nothing of the
\* user's runs.
HasAction(e) == exps[e].count < exps[e].once \/ exps[e].repeated
-----------------------------------------------------------------------------
(* Calls.                                                                  *)

Top(t) == stack[t][Len(stack[t])]
At(t, ops, at) == stack[t] # <<>> /\ Top(t).op \in ops /\ Top(t).at = at
Push(t, frame) ==
  stack' = [stack EXCEPT ![t] = Append(@, frame)] /\ started' = started + 1
Move(t, frame) ==
  stack' = [stack EXCEPT ![t][Len(stack[t])] = frame] /\ UNCHANGED started
Pop(t) ==
  stack' = [stack EXCEPT ![t] = SubSeq(@, 1, Len(@) - 1)] /\ UNCHANGED started
Frames(t) == {stack[t][i] : i \in 1..Len(stack[t])}

\* fn is the function called or the one being cleared, todo those left to clear;
\* users: code of the user may run.
Entered(op, o, f, a, todo) ==
  [op |-> op, mock |-> o, fn |-> f, arg |-> a, todo |-> todo,
   at |-> "enter", exp |-> 0, told |-> "", users |-> FALSE]

\* The test itself runs, an action, or the destructor of one.
InUserCode(t) ==
  /\ pc > Len(test)
  /\ started < MaxStarted
  /\ stack[t] # <<>> => Top(t).users

\* A test calls no mock that is gone or being verified, and neither verifies
\* nor destroys one that another thread is in.
MayCall(o) ==
  o \in alive /\ \A t \in Threads : \A s \in Frames(t) : s.mock = o => s.op = "call"
MayEnd(t, o) ==
  MayCall(o) /\ \A u \in Threads \ {t} : \A s \in Frames(u) : s.mock # o

Call(t, f, a) ==
  /\ InUserCode(t)
  /\ MayCall(Owner[f])
  /\ Push(t, Entered("call", Owner[f], f, a, {}))
  /\ UNCHANGED <<exps, setup, mutex, cleared, alive, failures, handled>>

\* The mutex is taken, the search made and the mutex released; what is found
\* out is told after the action.
Answer(t, e, told, acts) ==
  /\ Move(t, [Top(t) EXCEPT !.at = "perform", !.exp = e, !.told = told,
                            !.users = acts \/ Top(t).fn \in onCall])
  /\ handled' = Append(handled, e)

\* The newest expectation that handles the call.
Found(t, e) ==
  LET c == Candidates(Top(t).fn, Top(t).arg) IN e \in c /\ \A i \in c : i <= e

UntypedFindMatchingExpectation(t) ==
  /\ At(t, {"call"}, "enter")
  /\ mutex = Free
  /\ \/ /\ Candidates(Top(t).fn, Top(t).arg) = {}
        /\ Answer(t, 0, IF Held(Top(t).fn) = {} THEN "uninteresting" ELSE "unexpected", FALSE)
        /\ UNCHANGED exps
     \/ \E e \in Ids :
          /\ Found(t, e)
          /\ IsSaturated(e)
          /\ exps' = Count(e)
          /\ Answer(t, e, "excessive", FALSE)
     \/ \E e \in Ids :
          /\ Found(t, e)
          /\ ~IsSaturated(e)
          /\ exps' = Handle(e)
          /\ Answer(t, e, "", HasAction(e))
  /\ UNCHANGED <<setup, mutex, cleared, alive, failures>>

\* The action has returned: the test fails if the call was not as expected.
Report(t) ==
  /\ At(t, {"call"}, "perform")
  /\ LET s == Top(t) IN
       failures' = failures \cup
         CASE s.told = "excessive"  -> {<<"excessive", s.exp>>}
           [] s.told = "unexpected" -> {<<"unexpected", s.fn>>}
           [] s.told = "uninteresting" /\ Reaction[s.mock] = "fail" -> {<<"uninteresting", s.fn>>}
           [] OTHER -> {}
  /\ Pop(t)
  /\ UNCHANGED <<exps, setup, mutex, cleared, alive, handled>>
-----------------------------------------------------------------------------
(* Verification.                                                           *)

\* The functions of o with an expectation or an ON_CALL().
Registered(o) ==
  {f \in Functions : Owner[f] = o /\ (f \in onCall \/ \E e \in Ids : exps[e].fn = f)}

\* Mock::VerifyAndClearExpectations(&o)
Verify(t, o) ==
  /\ InUserCode(t)
  /\ MayEnd(t, o)
  /\ Push(t, Entered("verify", o, "", "", Registered(o)))
  /\ UNCHANGED <<exps, setup, mutex, cleared, alive, failures, handled>>

\* The destructor of o, which calls that of every function.
Destroy(t, o) ==
  /\ InUserCode(t)
  /\ MayEnd(t, o)
  /\ alive' = alive \ {o}
  /\ Push(t, Entered("destroy", o, "", "", {f \in Functions : Owner[f] = o}))
  /\ UNCHANGED <<exps, setup, mutex, cleared, failures, handled>>

Lock(t) ==
  /\ At(t, {"verify", "destroy"}, "enter")
  /\ \/ /\ Top(t).todo # {}
        /\ mutex = Free
        /\ mutex' = t
        /\ Move(t, [Top(t) EXCEPT !.at = "locked"])
     \/ /\ Top(t).todo = {}
        /\ Top(t).op = "verify" => mutex = Free
        /\ Pop(t)
        /\ UNCHANGED mutex
  /\ UNCHANGED <<exps, setup, cleared, alive, failures, handled>>

\* What one function is told, which also loses its expectations: the mutex is
\* released while they are deleted.
Cleared(t, f, holder) ==
  /\ At(t, {"verify", "destroy"}, "locked")
  /\ f \in Top(t).todo
  /\ failures' = failures \cup
       {<<"unsatisfied", e>> : e \in {i \in Held(f) : ~IsOverSaturated(i) /\ ~IsSatisfied(i)}}
  /\ cleared' = cleared \cup {f}
  /\ mutex' = holder
  /\ Move(t, [Top(t) EXCEPT !.at = "delete", !.fn = f, !.todo = @ \ {f},
                            !.users = \E e \in Held(f) : exps[e].once > 0 \/ exps[e].repeated])
  /\ UNCHANGED <<exps, setup, alive, handled>>

\* A bug: Unlock() is forgotten.
VerifyAndClearHolding(t, f) == Cleared(t, f, t)

VerifyAndClearExpectationsLocked(t, f) == Cleared(t, f, Free)

\* Deleting is over and the mutex taken again: the next function of a mock that
\* is verified, the default action of one that is destroyed.
Relock(t) ==
  /\ At(t, {"verify", "destroy"}, "delete")
  /\ mutex = Free
  /\ \/ /\ Top(t).op = "verify"
        /\ mutex' = t
        /\ Move(t, [Top(t) EXCEPT !.at = "locked", !.users = FALSE])
        /\ UNCHANGED onCall
     \/ /\ Top(t).op = "destroy"
        /\ onCall' = onCall \ {Top(t).fn}
        /\ Move(t, [Top(t) EXCEPT !.at = "defaults", !.users = Top(t).fn \in onCall])
        /\ UNCHANGED mutex
  /\ UNCHANGED <<exps, last, implicit, test, pc, cleared, alive, failures, handled>>

\* The destructor of a function takes the mutex once more and returns.
Unregistered(t) ==
  /\ At(t, {"destroy"}, "defaults")
  /\ mutex = Free
  /\ Move(t, [Top(t) EXCEPT !.at = "enter", !.users = FALSE])
  /\ UNCHANGED <<exps, setup, mutex, cleared, alive, failures, handled>>

Unlock(t) ==
  /\ At(t, {"verify"}, "locked")
  /\ Top(t).todo = {}
  /\ mutex' = Free
  /\ Pop(t)
  /\ UNCHANGED <<exps, setup, cleared, alive, failures, handled>>

Engine(t) ==
  \/ UntypedFindMatchingExpectation(t) \/ Report(t)
  \/ Lock(t) \/ Relock(t) \/ Unregistered(t) \/ Unlock(t)
  \/ \E f \in Functions : VerifyAndClearExpectationsLocked(t, f)

User(t) ==
  \/ \E f \in Functions, a \in Args : Call(t, f, a)
  \/ \E o \in Mocks : Verify(t, o) \/ Destroy(t, o)

Next == SetUp \/ \E t \in Threads : Engine(t) \/ User(t)

Spec == Init /\ [][Next]_vars

\* A thread that can go on does, and the code of the user returns.
FairSpec == Spec /\ \A t \in Threads : WF_vars(Engine(t))
-----------------------------------------------------------------------------
Expectation ==
  [fn : Functions, accepts : SUBSET Args, extra : SUBSET Args, min : Nat, max : Nat,
   specified : BOOLEAN, once : Nat, repeated : BOOLEAN, retires : BOOLEAN,
   clause : 0..7, before : SUBSET Nat, count : Nat, retired : BOOLEAN]

Frame ==
  [op : {"call", "verify", "destroy"}, mock : Mocks, fn : Functions \cup {""},
   arg : Args \cup {""}, todo : SUBSET Functions,
   at : {"enter", "perform", "locked", "delete", "defaults"}, exp : Nat,
   told : {"", "uninteresting", "unexpected", "excessive"}, users : BOOLEAN]

ExpectationsOK ==
  /\ exps \in Seq(Expectation)
  /\ \A e \in Ids : exps[e].before \subseteq 1..(e - 1) /\ exps[e].min <= exps[e].max
  /\ last \in [SequenceNames -> 0..Len(exps)]
  /\ implicit \subseteq 0..Len(exps)
  /\ onCall \subseteq Functions
  /\ test \in Tests /\ pc \in Nat
  /\ mutex \in Threads \cup {Free}
  /\ cleared \subseteq Functions
  /\ alive \subseteq Mocks
  /\ handled \in Seq(0..Len(exps))

ThreadsOK ==
  /\ stack \in [Threads -> Seq(Frame)]
  /\ failures \subseteq ({"clause", "excessive", "unsatisfied"} \X Ids)
                    \cup ({"unexpected", "uninteresting"} \X Functions)
  /\ started \in Nat

TypeOK == ExpectationsOK /\ ThreadsOK

\* gmock-spec-builders.cc:98-99, on which RetireAllPreRequisites() relies: an
\* expectation is never retired before all its prerequisites.
RetiredBehind ==
  \A e \in Ids : exps[e].retired => \A p \in exps[e].before : exps[p].retired

\* A failure for a call that came too early names what is missing, although the
\* search stops at every prerequisite that was called.
Explained ==
  \A e \in Ids : AllPrerequisitesAreSatisfied(e) <=> FindUnsatisfiedPrerequisites(e) = {}

HandledBy(e, n) == Cardinality({i \in 1..n : handled[i] = e})

\* In a sequence, whatever functions, objects and threads it spans: when a call
\* is handled everything before it has been called as often as expected, and is
\* never called again.
InOrder ==
  \A e \in Ids, j \in 1..Len(handled) : handled[j] = e =>
    \A p \in Reach(e, Ids) :
      /\ HandledBy(p, j - 1) \in exps[p].min..exps[p].max
      /\ HandledBy(e, j) <= exps[e].max => HandledBy(p, Len(handled)) = HandledBy(p, j - 1)

\* The test is told of exactly the expectations called too often, once the call
\* is over, and of those cleared that were not called often enough.
VerdictIsRight ==
  \A e \in Ids :
    LET n == HandledBy(e, Len(handled)) IN
    /\ n > exps[e].max <=>
         \/ <<"excessive", e>> \in failures
         \/ \E t \in Threads : \E s \in Frames(t) : s.exp = e /\ s.told = "excessive"
    /\ <<"unsatisfied", e>> \in failures <=> exps[e].fn \in cleared /\ n < exps[e].min

\* The mutex is not recursive: a thread holds it only at the moment in which it
\* clears a function, and so neither waits for itself nor lets an action or the
\* destructor of one, which may call back, run with the mutex held.
HeldOnlyToClear ==
  \A t \in Threads :
    /\ mutex = t <=> At(t, {"verify", "destroy"}, "locked")
    /\ mutex = t => ~Top(t).users

\* The mutex never makes a call wait for ever, whatever the actions and the
\* destructors of deleted actions call in turn.
CallsReturn == \A t \in Threads : []<>(stack[t] = <<>>)

\* An expectation lives with its function, and with those it comes before.
Kept(e) ==
  \E h \in Ids : /\ exps[h].fn \notin cleared \/ \E s \in SequenceNames : last[s] = h
                 /\ e = h \/ e \in Reach(h, Ids)

\* gmock-spec-builders.cc:407-408, "In case the action deletes a piece of the
\* expectation, we generate the message beforehand": the report of a call reads
\* no deleted expectation.
ReportsFromKept ==
  \A t \in Threads : At(t, {"call"}, "perform") /\ Top(t).told = "excessive" => Kept(Top(t).exp)
=============================================================================
