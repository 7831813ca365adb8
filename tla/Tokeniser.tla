----------------------------- MODULE Tokeniser -----------------------------
(***************************************************************************)
(* The Tokeniser of Chatter/Tokeniser.h, which the string calculator has a *)
(* copy of, driven as both programs drive it: while HasNext(), NextToken().*)
(* A token is the pair of positions it was cut from, counted from 0; first *)
(* is in it and end is not.                                                *)
(***************************************************************************)
EXTENDS Naturals, Sequences

CONSTANTS
  Chars,      \* what a string is made of
  Strings,    \* the strings to cut
  Delimiters, \* the sets of delimiters to cut them at
  NPos        \* string::npos, the largest size_t

ASSUME TokeniserAssumption ==
  /\ Delimiters \subseteq SUBSET Chars
  /\ Strings \subseteq Seq(Chars)
  /\ NPos \in Nat
  /\ \A s \in Strings : Len(s) < NPos

VARIABLES str, delims, offset, delim_pos, has_next, tokens

vars == <<str, delims, offset, delim_pos, has_next, tokens>>

\* A bug: offset wider than npos.
Unwrapped(n) == n

\* size_t wraps around: NPos + 1 is 0.
Wrap(n) == n % (NPos + 1)

\* The delimiters of s from position from on.
Hits(s, from) == {i \in from..(Len(s) - 1) : s[i + 1] \in delims}

Smallest(H) == CHOOSE i \in H : \A j \in H : i <= j

\* A bug: the search starts one position too late.
FindAfter(s, from) ==
  IF Hits(s, from + 1) = {} THEN NPos ELSE Smallest(Hits(s, from + 1))

\* s.find_first_of(delims, from)
FindFirstOf(s, from) == IF Hits(s, from) = {} THEN NPos ELSE Smallest(Hits(s, from))

\* s.substr(from, n), which stops at the end of s.
Substr(s, from, n) ==
  [first |-> from, end |-> IF n < Len(s) - from THEN from + n ELSE Len(s)]

\* The constructor.
Constructed(s, d) ==
  /\ str = s
  /\ delims = d
  /\ offset = 0
  /\ delim_pos = FindFirstOf(str, 0)
  /\ has_next = TRUE
  /\ tokens = <<>>

Init == \E s \in Strings, d \in Delimiters : Constructed(s, d)

\* A bug: the delimiter is not skipped, and the end told from npos alone.
NextTokenAtDelimiter ==
  /\ has_next
  /\ tokens' = Append(tokens, Substr(str, offset, delim_pos - offset))
  /\ offset' = IF delim_pos = NPos THEN 0 ELSE delim_pos
  /\ has_next' = (delim_pos # NPos)
  /\ delim_pos' = FindFirstOf(str, offset')
  /\ UNCHANGED <<str, delims>>

\* A bug: the end of the string taken for the end of the tokens.
NextTokenToEnd ==
  /\ has_next
  /\ tokens' = Append(tokens, Substr(str, offset, delim_pos - offset))
  /\ offset' = Wrap(delim_pos + 1)
  /\ has_next' = (offset' # 0 /\ offset' < Len(str))
  /\ delim_pos' = FindFirstOf(str, offset')
  /\ UNCHANGED <<str, delims>>

NextToken ==
  /\ has_next
  /\ tokens' = Append(tokens, Substr(str, offset, delim_pos - offset))
  /\ offset' = Wrap(delim_pos + 1)
  /\ has_next' = (offset' # 0)
  /\ delim_pos' = FindFirstOf(str, offset')
  /\ UNCHANGED <<str, delims>>

Next == NextToken

Spec == Init /\ [][Next]_vars
-----------------------------------------------------------------------------
TypeOK ==
  /\ str \in Strings
  /\ delims \in Delimiters
  /\ offset \in 0..Len(str)
  /\ delim_pos \in 0..NPos
  /\ has_next \in BOOLEAN
  /\ tokens \in Seq([first : Nat, end : Nat])

\* No token has a delimiter in it, and each token but the first starts behind
\* the one delimiter that ends the token before it: find_first_of() and the
\* wrap-around of npos + 1 skip nothing and cut nothing twice.
TokensTile ==
  /\ tokens # <<>> => tokens[1].first = 0
  /\ \A k \in 1..Len(tokens) :
       LET t == tokens[k] IN
         /\ t.first <= t.end /\ t.end <= Len(str)
         /\ Hits(str, t.first) \cap (t.first..t.end) \subseteq {t.end}
         /\ k < Len(tokens) =>
              /\ str[t.end + 1] \in delims
              /\ t.end < Len(str)
              /\ tokens[k + 1].first = t.end + 1

\* When HasNext() turns false the last token ends where the string ends: with
\* TokensTile, the tokens and their delimiters are the string, an empty one and
\* one that ends in a delimiter included.
NothingLeft ==
  ~has_next => tokens # <<>> /\ tokens[Len(tokens)].end = Len(str)

\* Every NextToken() moves on in the string or is the last one, so that a caller
\* who asks HasNext() comes to an end, whatever the string.
Advances == [][offset' > offset \/ ~has_next']_vars
=============================================================================
