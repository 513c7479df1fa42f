----------------------------- MODULE MCLineEditor -----------------------------
(***************************************************************************)
(* LineEditor for TLC: a screen of three rows of three cells, of which the *)
(* prompt takes two, so that a line of two characters wraps; a command's   *)
(* output scrolls it, or not.                                              *)
(***************************************************************************)
EXTENDS LineEditor

CONSTANTS a, b, p

MCPrompt == <<p, p>>
MCBanner == <<p, Newline>>
MCReport == <<Newline, p, Newline>>
MCOutputs == {<<Newline>>, <<Newline, p, p, p, p, Newline>>}
MCChars == {a, b, p}
MCTyped == {a, b}
Symmetry == Permutations(MCTyped)
===============================================================================
