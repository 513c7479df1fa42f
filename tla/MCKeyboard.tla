------------------------------ MODULE MCKeyboard ------------------------------
(***************************************************************************)
(* Small instances of Keyboard for TLC: a ring of three slots (two keys),  *)
(* so that a handful of bytes fills it, wraps it and overflows it; polling *)
(* bursts of two, so that a burst ends with bytes still to come.           *)
(***************************************************************************)
EXTENDS Keyboard

MCPlain == {"a", "enter"}
MCEnter == {"enter"}
MCNav   == {"up"}
===============================================================================
