------------------------------ MODULE MCScalc -------------------------------
(***************************************************************************)
(* Instances of Scalc for TLC: every script of up to MaxLines lines.       *)
(***************************************************************************)
EXTENDS Scalc, SequencesExt

CONSTANT MaxLines

MCScripts == SeqOf(Lines \cup {Empty}, MaxLines)
=============================================================================
